------------------------- MODULE SignedDocs_proofs -------------------------
(***************************************************************************)
(* Proofs about the bytes others make, for buffers of any length: what the *)
(* strict reader accepts (Cbor) is the one encoding of what it reads, a    *)
(* signed document (SignedDocs) is accepted as the kind and in the bytes   *)
(* it was signed in, and a marks payload is the encoding of its marks.     *)
(* The lemmas on bytes are those of ProvisioningOutputs_proofs.            *)
(***************************************************************************)
EXTENDS ProvisioningOutputs_proofs, SignedDocs

-----------------------------------------------------------------------------
(* The strict reader (Cbor) *)

\* The bytes of a buffer from one position up to another.
Cut(buf, i, k) == SubSeq(buf, i, k - 1)

\* A cut is as long as the distance of its ends, and has the bytes between them.
LEMMA CutAt ==
  ASSUME NEW buf \in Bstr, NEW i \in Nat \ {0}, NEW j \in Nat, NEW k \in Nat,
         i <= j, j <= k, k <= Len(buf) + 1
  PROVE  /\ Cut(buf, i, k) \in Bstr /\ Len(Cut(buf, i, k)) = k - i
         /\ \A n \in 1 .. k - i : Cut(buf, i, k)[n] = buf[i + n - 1]
         /\ Cut(buf, i, j) \in Bstr /\ Len(Cut(buf, i, j)) = j - i
         /\ Cut(buf, j, k) \in Bstr /\ Len(Cut(buf, j, k)) = k - j
         /\ Cut(buf, i, k) = Cut(buf, i, j) \o Cut(buf, j, k)
<1>1. ASSUME NEW a \in Nat \ {0}, NEW b \in Nat, a <= b, b <= Len(buf) + 1
      PROVE  /\ Cut(buf, a, b) \in Bstr /\ Len(Cut(buf, a, b)) = b - a
             /\ \A n \in 1 .. b - a : Cut(buf, a, b)[n] = buf[a + n - 1]
  <2>1. Cut(buf, a, b) = [n \in 1 .. b - a |-> buf[a + n - 1]] BY <1>1 DEF Cut, Bstr
  <2>2. \A n \in 1 .. b - a : buf[a + n - 1] \in Nat BY <1>1 DEF Bstr
  <2>3. b - a \in Nat BY <1>1
  <2> QED BY <2>1, <2>2, <2>3 DEF Bstr
<1>2. j \in Nat \ {0} /\ i <= k /\ j <= Len(buf) + 1 OBVIOUS
<1>3. Cut(buf, i, k) = Cut(buf, i, j) \o Cut(buf, j, k)
  <2>1. /\ buf \in Seq(Nat) /\ i \in 1 .. Len(buf) + 1 /\ j - 1 \in i - 1 .. Len(buf)
        /\ k - 1 \in j - 1 .. Len(buf)
    BY <1>2 DEF Bstr
  <2>2. SubSeq(buf, i, j - 1) \o SubSeq(buf, (j - 1) + 1, k - 1) = SubSeq(buf, i, k - 1)
    BY <2>1, ConcatAdjacentSubSeq
  <2>3. (j - 1) + 1 = j OBVIOUS
  <2> QED BY <2>2, <2>3 DEF Cut
<1> QED BY <1>1, <1>2, <1>3

\* The cut from end to end is the buffer.
LEMMA CutWhole == \A buf \in Bstr : Cut(buf, 1, Len(buf) + 1) = buf
<1> SUFFICES ASSUME NEW buf \in Bstr PROVE Cut(buf, 1, Len(buf) + 1) = buf OBVIOUS
<1>1. Len(buf) \in Nat /\ (Len(buf) + 1) - 1 = Len(buf) BY BstrProps
<1>2. SubSeq(buf, 1, Len(buf)) = buf BY DEF Bstr
<1> QED BY <1>1, <1>2 DEF Cut

\* Two more bytes of a number, most significant first.
Two(h, a, b) == (h * 256 + a) * 256 + b

\* Two more bytes of a number are the two lowest of what it has become.
LEMMA TwoBytes ==
  \A h \in Nat, a \in u8, b \in u8 :
     /\ Two(h, a, b) \in Nat /\ Two(h, a, b) \div RADIX = h /\ Be2(Two(h, a, b)) = <<a, b>>
     /\ h = 0 => Two(h, a, b) < RADIX
<1> SUFFICES ASSUME NEW h \in Nat, NEW a \in u8, NEW b \in u8, NEW v, v = (h * 256 + a) * 256 + b
             PROVE  /\ v \in Nat /\ v \div RADIX = h /\ Be2(v) = <<a, b>>
                    /\ h = 0 => v < RADIX
  BY DEF Two
<1>1. a \in 0 .. 255 /\ b \in 0 .. 255 BY DEF u8
<1>2. v \in Nat BY <1>1
<1>3. v \div 256 = h * 256 + a BY <1>1
<1>4. (h * 256 + a) % 256 = a /\ v % 256 = b BY <1>1
<1>5. v \div RADIX = h BY <1>1 DEF RADIX
<1>6. h = 0 => v < RADIX BY <1>1 DEF RADIX
<1> QED BY <1>2, <1>3, <1>4, <1>5, <1>6 DEF Be2

\* The same of the partial values of a string.
LEMMA NextTwo ==
  ASSUME NEW s \in Seq(u8), NEW v, Values256(s, v), NEW i \in Nat, i + 2 <= Len(s)
  PROVE  /\ v[i] \in Nat /\ v[i + 2] \in Nat /\ v[i + 2] \div RADIX = v[i]
         /\ Be2(v[i + 2]) = <<s[i + 1], s[i + 2]>>
         /\ i = 0 => v[i + 2] < RADIX
<1>1. /\ i \in 0 .. Len(s) /\ i + 1 \in 1 .. Len(s) /\ i + 2 \in 1 .. Len(s)
      /\ (i + 1) - 1 = i /\ (i + 2) - 1 = i + 1
  OBVIOUS
<1>2. s[i + 1] \in u8 /\ s[i + 2] \in u8 /\ v[i] \in Nat BY <1>1 DEF Values256
<1>3. v[i + 1] = v[i] * 256 + s[i + 1]
  <2>1. v[i + 1] = v[(i + 1) - 1] * 256 + s[i + 1] BY <1>1, Zenon DEF Values256
  <2> QED BY <1>1, <2>1
<1>4. v[i + 2] = v[i + 1] * 256 + s[i + 2]
  <2>1. v[i + 2] = v[(i + 2) - 1] * 256 + s[i + 2] BY <1>1, Zenon DEF Values256
  <2> QED BY <1>1, <2>1
<1> DEFINE h == v[i]
           a == s[i + 1]
           b == s[i + 2]
           w == v[i + 2]
<1>5. w = Two(h, a, b) BY <1>3, <1>4, Zenon DEF Two
<1>6. i = 0 => h = 0 BY DEF Values256
<1>7. h \in Nat /\ a \in u8 /\ b \in u8 BY <1>2
<1>8. /\ h \in Nat /\ w \in Nat /\ w \div RADIX = h /\ Be2(w) = <<a, b>>
      /\ i = 0 => w < RADIX
  <2> HIDE DEF h, a, b, w
  <2> QED BY <1>5, <1>6, <1>7, TwoBytes, Zenon
<1> QED BY <1>8

\* A byte is a number below 256.
LEMMA Byte8 == \A b \in u8 : b \in Nat /\ b \in Int /\ b < 256 /\ b \in 0 .. 255
BY DEF u8

\* Two bytes, one after the other.
LEMMA TwoOnes == \A a, b \in Nat : <<a>> \o <<b>> = <<a, b>>
<1> SUFFICES ASSUME NEW a \in Nat, NEW b \in Nat PROVE <<a>> \o <<b>> = <<a, b>> OBVIOUS
<1> DEFINE x == <<a>>
           y == <<b>>
           s == x \o y
<1>1. x \in Seq(Nat) /\ y \in Seq(Nat) /\ Len(x) = 1 /\ Len(y) = 1 /\ x[1] = a /\ y[1] = b OBVIOUS
<1>2. s \in Seq(Nat) /\ Len(s) = 2 /\ s[1] = a /\ s[2] = b
  <2>1. /\ s \in Seq(Nat) /\ Len(s) = Len(x) + Len(y)
        /\ \A i \in 1 .. Len(x) + Len(y) : s[i] = IF i <= Len(x) THEN x[i] ELSE y[i - Len(x)]
    <3> HIDE DEF x, y
    <3> QED BY <1>1, ConcatProperties
  <2> HIDE DEF s, x, y
  <2>2. Len(x) + Len(y) = 2 /\ 1 \in 1 .. Len(x) + Len(y) /\ 2 \in 1 .. Len(x) + Len(y)
        /\ 2 - Len(x) = 1 /\ ~ 2 <= Len(x) /\ 1 <= Len(x)
    BY <1>1
  <2> QED BY <1>1, <2>1, <2>2
<1> HIDE DEF s
<1>3. s = <<s[1], s[2]>> BY <1>2
<1> QED BY <1>2, <1>3 DEF s

\* A buffer of bytes is a string of numbers.
LEMMA ByteStrings8 ==
  ASSUME NEW buf \in Seq(u8)
  PROVE  buf \in Bstr /\ Len(buf) \in Nat /\ \A i \in 1 .. Len(buf) : buf[i] \in u8 /\ buf[i] \in 0 .. 255
<1>1. u8 \subseteq Nat /\ \A b \in u8 : b \in 0 .. 255 BY DEF u8
<1>2. Len(buf) \in Nat /\ \A i \in 1 .. Len(buf) : buf[i] \in u8 BY ElementOfSeq
<1>3. buf = [i \in 1 .. Len(buf) |-> buf[i]] OBVIOUS
<1>4. \A i \in 1 .. Len(buf) : buf[i] \in Nat BY <1>1, <1>2
<1>5. buf \in Seq(Nat) BY <1>2, <1>3, <1>4
<1> QED BY <1>1, <1>2, <1>5 DEF Bstr

\* Two digits further into a number.
Pair(s, f, i, j, k) ==
    /\ f[i] \in Nat /\ f[k] \in Nat /\ f[k] \div RADIX = f[i]
    /\ Be2(f[k]) = <<s[j], s[k]>>
    /\ i = 0 => f[k] < RADIX

\* Two steps of the partial values of a string.
LEMMA NextPair ==
  ASSUME NEW s \in Seq(u8), NEW f, Values256(s, f),
         NEW i \in Nat, NEW j \in Nat, NEW k \in Nat, j = i + 1, k = i + 2, k <= Len(s)
  PROVE  Pair(s, f, i, j, k)
BY NextTwo DEF Pair

\* The number in the argument of a head, when no shorter head can say it, is the
\* one whose bytes are there.
LEMMA ArgOne ==
  ASSUME NEW s \in Seq(u8), Len(s) = 1, Shortest(1, BeVal(s))
  PROVE  BeVal(s) \in u64 /\ \A m \in 0 .. 7 : put_uint(m, BeVal(s)) = <<32 * m + 24>> \o s
<1> DEFINE v == BeVal(s)
<1>1. s \in Seq(Nat) /\ 1 \in 1 .. Len(s) /\ s[1] \in u8
  <2>1. 1 \in 1 .. Len(s) OBVIOUS
  <2> QED BY <2>1, ByteStrings8 DEF Bstr
<1>2. PICK f : Values256(s, f) /\ BeVal(s) = f[Len(s)] BY <1>1, BeValue
<1>3. f[1] = f[0] * 256 + s[1] /\ f[0] = 0
  <2>1. 1 - 1 = 0 OBVIOUS
  <2>2. f[1] = f[1 - 1] * 256 + s[1] BY <1>1, <1>2, Zenon DEF Values256
  <2> QED BY <1>2, <2>1, <2>2 DEF Values256
<1>4. s[1] \in 0 .. 255 BY <1>1, Byte8, Zenon
<1>5. v = s[1]
  <2>1. v = f[1] BY <1>2
  <2>2. s[1] \in Int BY <1>1, Byte8, Zenon
  <2>3. f[1] = s[1] BY <1>3, <2>2
  <2> QED BY <2>1, <2>3
<1>6. v >= 24 BY DEF Shortest
<1>7. v < 256 /\ v \in u8
  <2>1. s[1] < 256 BY <1>1, Byte8, Zenon
  <2> HIDE DEF v
  <2> QED BY <1>1, <1>5, <2>1
<1>8. v \in u64 /\ v \in Nat BY <1>7, Range8
<1>9. ASSUME NEW m \in 0 .. 7 PROVE put_uint(m, v) = <<32 * m + 24>> \o s
  <2>1. put_uint(m, v) = <<32 * m + 24, v>>
    <3> HIDE DEF v
    <3>1. v >= 24 /\ ~ v < 24 /\ ~ v >= 256 /\ ~ v >= RADIX BY <1>6, <1>7, <1>8, Radix
    <3>2. UintHead(m, v, put_uint(m, v)) BY <1>8, PutUintHead
    <3>3. put_uint(m, v) = <<put_uint(m, v)[1], put_uint(m, v)[2]>> /\ put_uint(m, v)[1] = 32 * m + 24 /\ put_uint(m, v)[2] = v
      <4> DEFINE p == put_uint(m, v)
      <4>1. p \in Bstr /\ p[1] = 32 * m + 24 /\ p[2] = v /\ Len(p) = 2
        <5> HIDE DEF p
        <5> QED BY <3>1, <3>2, Zenon DEF UintHead, p
      <4> HIDE DEF p
      <4>2. p = <<p[1], p[2]>> BY <4>1 DEF Bstr
      <4> QED BY <4>1, <4>2 DEF p
    <3> QED BY <3>3
  <2>2. s = <<s[1]>> BY <1>1
  <2> DEFINE c == 32 * m + 24
  <2>3. c \in Nat OBVIOUS
  <2> HIDE DEF c
  <2>4. s[1] \in Nat BY <1>1, Byte8, Zenon
  <2>5. <<c>> \o <<s[1]>> = <<c, s[1]>> BY <2>3, <2>4, TwoOnes, Zenon
  <2> HIDE DEF v
  <2> QED BY <1>5, <2>1, <2>2, <2>5 DEF c
<1> QED BY <1>8, <1>9

\* A two-byte argument that needs both is said by the encoder in the head's very bytes.
\* (Shortest, put_uint)
LEMMA ArgTwo ==
  ASSUME NEW s \in Seq(u8), Len(s) = 2, Shortest(2, BeVal(s))
  PROVE  BeVal(s) \in u64 /\ \A m \in 0 .. 7 : put_uint(m, BeVal(s)) = <<32 * m + 25>> \o s
<1> DEFINE v == BeVal(s)
<1>1. s \in Seq(Nat) BY ByteStrings8 DEF Bstr
<1>2. PICK f : Values256(s, f) /\ BeVal(s) = f[Len(s)] BY <1>1, BeValue
<1>3. 0 + 2 = 2 /\ 0 + 1 = 1 /\ 0 \in Nat /\ 0 + 2 <= Len(s) OBVIOUS
<1>4. Pair(s, f, 0, 1, 2) BY <1>2, <1>3, NextPair
<1>5. v = f[2] BY <1>2
<1>6. s = <<s[1], s[2]>> OBVIOUS
<1> HIDE DEF v
<1>7. v \in Nat /\ Be2(v) = s /\ v < RADIX BY <1>4, <1>5, <1>6 DEF Pair
<1>8. v >= 256 BY DEF Shortest, v
<1>9. v \in u16 BY <1>7 DEF u16
<1>10. ASSUME NEW m \in 0 .. 7 PROVE put_uint(m, v) = <<32 * m + 25>> \o Be2(v)
  <2>1. UintHead(m, v, put_uint(m, v)) BY <1>7, PutUintHead
  <2>2. ~ v < 24 /\ ~ v < 256 /\ ~ v >= RADIX BY <1>7, <1>8, Radix
  <2> QED BY <2>1, <2>2, Zenon DEF UintHead
<1> QED BY <1>7, <1>9, <1>10, Range8 DEF v

\* The same of four bytes.
LEMMA ArgFour ==
  ASSUME NEW s \in Seq(u8), Len(s) = 4, Shortest(4, BeVal(s))
  PROVE  BeVal(s) \in u64 /\ \A m \in 0 .. 7 : put_uint(m, BeVal(s)) = <<32 * m + 26>> \o s
<1> DEFINE v == BeVal(s)
<1>1. s \in Seq(Nat) BY ByteStrings8 DEF Bstr
<1>2. PICK f : Values256(s, f) /\ BeVal(s) = f[Len(s)] BY <1>1, BeValue
<1>3. /\ 0 + 2 = 2 /\ 0 + 1 = 1 /\ 0 \in Nat /\ 0 + 2 <= Len(s)
      /\ 2 + 2 = 4 /\ 2 + 1 = 3 /\ 2 \in Nat /\ 2 + 2 <= Len(s)
  OBVIOUS
<1>4. Pair(s, f, 0, 1, 2) BY <1>2, <1>3, NextPair
<1>5. Pair(s, f, 2, 3, 4) BY <1>2, <1>3, NextPair
<1>6. v = f[4] BY <1>2
<1>7. s = <<s[1], s[2]>> \o <<s[3], s[4]>> OBVIOUS
<1> HIDE DEF v
<1>8. v \in Nat /\ Be4(v) = s BY <1>4, <1>5, <1>6, <1>7 DEF Be4, Pair
<1>9. v >= RADIX BY DEF Shortest, v
<1>10. v \in u32
  <2>1. v \div RADIX \in u16 BY <1>4, <1>5, <1>6 DEF u16, Pair
  <2> QED BY <1>8, <2>1 DEF u32
<1>11. \A m \in 0 .. 7 : put_uint(m, v) = <<32 * m + 26>> \o Be4(v)
  BY <1>8, <1>9, <1>10, Radix, SMT DEF put_uint
<1> QED BY <1>8, <1>10, <1>11, Range8 DEF v

\* What is no u32 is above every u16.
LEMMA NotU32 == \A v \in Nat : v \notin u32 => v >= RADIX
<1> SUFFICES ASSUME NEW v \in Nat, ~ v >= RADIX PROVE v \in u32 OBVIOUS
<1>1. v < RADIX BY Radix
<1>2. v \div RADIX = 0 BY <1>1, Halves
<1>3. 0 \in u16 BY Halves DEF u16
<1> QED BY <1>2, <1>3 DEF u32

\* The same of eight bytes.
LEMMA ArgEight ==
  ASSUME NEW s \in Seq(u8), Len(s) = 8, Shortest(8, BeVal(s))
  PROVE  BeVal(s) \in u64 /\ \A m \in 0 .. 7 : put_uint(m, BeVal(s)) = <<32 * m + 27>> \o s
<1> DEFINE v == BeVal(s)
<1>1. s \in Seq(Nat) BY ByteStrings8 DEF Bstr
<1>2. PICK f : Values256(s, f) /\ BeVal(s) = f[Len(s)] BY <1>1, BeValue
<1>3. /\ 0 + 2 = 2 /\ 0 + 1 = 1 /\ 0 \in Nat /\ 0 + 2 <= Len(s)
      /\ 2 + 2 = 4 /\ 2 + 1 = 3 /\ 2 \in Nat /\ 2 + 2 <= Len(s)
      /\ 4 + 2 = 6 /\ 4 + 1 = 5 /\ 4 \in Nat /\ 4 + 2 <= Len(s)
      /\ 6 + 2 = 8 /\ 6 + 1 = 7 /\ 6 \in Nat /\ 6 + 2 <= Len(s)
  OBVIOUS
<1>4. Pair(s, f, 0, 1, 2) BY <1>2, <1>3, NextPair
<1>5. Pair(s, f, 2, 3, 4) BY <1>2, <1>3, NextPair
<1>6. Pair(s, f, 4, 5, 6) BY <1>2, <1>3, NextPair
<1>7. Pair(s, f, 6, 7, 8) BY <1>2, <1>3, NextPair
<1>8. v = f[8] BY <1>2
<1>9. s = (<<s[1], s[2]>> \o <<s[3], s[4]>>) \o (<<s[5], s[6]>> \o <<s[7], s[8]>>) OBVIOUS
<1> HIDE DEF v
<1>10. v \div RADIX = f[6] /\ f[6] \div RADIX = f[4] /\ f[4] \div RADIX = f[2]
  BY <1>5, <1>6, <1>7, <1>8 DEF Pair
<1>11. v \in Nat /\ U64(v) = s
  <2>1. Be4(f[4]) = <<s[1], s[2]>> \o <<s[3], s[4]>> BY <1>4, <1>5 DEF Be4, Pair
  <2>2. Be4(v) = <<s[5], s[6]>> \o <<s[7], s[8]>> BY <1>6, <1>7, <1>8 DEF Be4, Pair
  <2>3. U64(v) = Be4(f[4]) \o Be4(v) BY <1>10 DEF U64
  <2> QED BY <1>7, <1>8, <1>9, <2>1, <2>2, <2>3 DEF Pair
<1>12. v \notin u32 BY DEF Shortest, v
<1>13. v \in u64
  <2>1. f[4] \in u32 BY <1>4, <1>5 DEF u32, u16, Pair
  <2> QED BY <1>10, <1>11, <2>1 DEF u64
<1>14. v >= RADIX BY <1>11, <1>12, NotU32
<1>15. \A m \in 0 .. 7 : put_uint(m, v) = <<32 * m + 27>> \o U64(v)
  BY <1>11, <1>12, <1>14, Radix, SMT DEF put_uint
<1> QED BY <1>11, <1>13, <1>15 DEF v

\* What one byte of a head says.
LEMMA MajorMinor ==
  \A b \in u8 : /\ b \div 32 \in 0 .. 7 /\ b % 32 \in 0 .. 31
                /\ b = 32 * (b \div 32) + (b % 32)
<1>1. ASSUME NEW b \in 0 .. 255
      PROVE  b \div 32 \in 0 .. 7 /\ b % 32 \in 0 .. 31 /\ b = 32 * (b \div 32) + (b % 32)
  BY SMT
<1> QED BY <1>1, Byte8

\* A number below 24 is said by the head itself.
LEMMA SmallHead ==
  /\ \A m \in 0 .. 7, n \in 0 .. 31 : n < 24 => put_uint(m, n) = <<32 * m + n>>
  /\ \A n \in 0 .. 31 : ~ (n < 24 /\ n > 27)
<1>1. ASSUME NEW m \in 0 .. 7, NEW n \in 0 .. 31, n < 24 PROVE put_uint(m, n) = <<32 * m + n>>
  <2> DEFINE s == put_uint(m, n)
  <2>1. ~ n >= 24 /\ ~ n >= 256 /\ ~ n >= RADIX BY <1>1, Radix
  <2>2. UintHead(m, n, s)
    <3>1. n \in Nat OBVIOUS
    <3> QED BY <3>1, PutUintHead
  <2> HIDE DEF s
  <2>3. s \in Bstr /\ s[1] = 32 * m + n /\ Len(s) = 1 BY <2>1, <2>2, Zenon DEF UintHead
  <2>4. s = <<s[1]>> BY <2>3 DEF Bstr
  <2> QED BY <2>3, <2>4 DEF s
<1>2. \A n \in 0 .. 31 : ~ (n < 24 /\ n > 27) OBVIOUS
<1> QED BY <1>1, <1>2

\* An argument of any width in its shortest form is what the encoder says.
LEMMA ArgBytes ==
  ASSUME NEW s \in Seq(u8), NEW minor \in 24 .. 27, Len(s) = ArgWidth(minor),
         Shortest(ArgWidth(minor), BeVal(s))
  PROVE  BeVal(s) \in u64 /\ \A m \in 0 .. 7 : put_uint(m, BeVal(s)) = <<32 * m + minor>> \o s
<1> DEFINE w == ArgWidth(minor)
<1>1. CASE minor = 24
  <2>1. w = 1 BY <1>1 DEF ArgWidth
  <2> QED BY <1>1, <2>1, ArgOne
<1>2. CASE minor = 25
  <2>1. w = 2 BY <1>2 DEF ArgWidth
  <2> QED BY <1>2, <2>1, ArgTwo
<1>3. CASE minor = 26
  <2>1. w = 4 BY <1>3 DEF ArgWidth
  <2> QED BY <1>3, <2>1, ArgFour
<1>4. CASE minor = 27
  <2>1. w = 8 BY <1>4 DEF ArgWidth
  <2> QED BY <1>4, <2>1, ArgEight
<1>5. minor = 24 \/ minor = 25 \/ minor = 26 \/ minor = 27 OBVIOUS
<1> QED BY <1>1, <1>2, <1>3, <1>4, <1>5, Zenon

\* A cut of a buffer is a buffer.
LEMMA Cut8 ==
  ASSUME NEW buf \in Seq(u8), NEW i \in Nat \ {0}, NEW k \in Nat, i <= k, k <= Len(buf) + 1
  PROVE  Cut(buf, i, k) \in Seq(u8) /\ Len(Cut(buf, i, k)) = k - i
<1>1. buf \in Bstr BY ByteStrings8
<1>2. /\ Cut(buf, i, k) \in Bstr /\ Len(Cut(buf, i, k)) = k - i
      /\ \A n \in 1 .. k - i : Cut(buf, i, k)[n] = buf[i + n - 1]
  BY <1>1, CutAt
<1> DEFINE c == Cut(buf, i, k)
<1> HIDE DEF c
<1>3. c \in Seq(Nat) /\ Len(c) = k - i /\ \A n \in 1 .. k - i : c[n] = buf[i + n - 1]
  BY <1>2 DEF c, Bstr
<1>4. \A n \in 1 .. Len(c) : c[n] \in u8
  <2> TAKE n \in 1 .. Len(c)
  <2>1. i + n - 1 \in 1 .. Len(buf) /\ n \in 1 .. k - i BY <1>3
  <2> QED BY <1>3, <2>1, ByteStrings8
<1>5. c \in Seq(u8)
  <2>1. c = [n \in 1 .. Len(c) |-> c[n]] /\ Len(c) \in Nat BY <1>3
  <2> QED BY <1>4, <2>1
<1> QED BY <1>3, <1>5 DEF c

\* A cut of one byte.
LEMMA CutOne ==
  ASSUME NEW buf \in Seq(u8), NEW i \in 1 .. Len(buf)
  PROVE  Cut(buf, i, i + 1) = <<buf[i]>>
<1> DEFINE c == Cut(buf, i, i + 1)
<1>1. i \in Nat \ {0} /\ i + 1 \in Nat /\ i <= i + 1 /\ i + 1 <= Len(buf) + 1 /\ (i + 1) - i = 1
  BY ByteStrings8
<1>2. c \in Bstr /\ Len(c) = (i + 1) - i /\ \A n \in 1 .. (i + 1) - i : c[n] = buf[i + n - 1]
  <2>1. buf \in Bstr BY ByteStrings8
  <2> DEFINE k == i + 1
  <2>2. k \in Nat /\ i <= k /\ k <= Len(buf) + 1 BY <1>1
  <2> HIDE DEF k
  <2>3. /\ Cut(buf, i, k) \in Bstr /\ Len(Cut(buf, i, k)) = k - i
        /\ \A n \in 1 .. k - i : Cut(buf, i, k)[n] = buf[i + n - 1]
    BY <1>1, <2>1, <2>2, CutAt
  <2> QED BY <2>3 DEF k
<1> HIDE DEF c
<1>3. Len(c) = 1 /\ c[1] = buf[i]
  <2>1. 1 \in 1 .. (i + 1) - i /\ i + 1 - 1 = i BY <1>1
  <2> QED BY <1>1, <1>2, <2>1
<1>4. c \in Seq(Nat) BY <1>2 DEF Bstr
<1>5. c = <<c[1]>> BY <1>3, <1>4
<1> QED BY <1>3, <1>5 DEF c

\* A head the strict reader takes is the shortest form of what it says.
HeadForm(buf, pos, h) ==
    /\ h.val.major \in 0 .. 7 /\ h.val.arg \in u64
    /\ h.pos \in Positions(buf) /\ h.pos > pos
    /\ Cut(buf, pos, h.pos) = put_uint(h.val.major, h.val.arg)

\* A head the strict reader takes is the one the encoder makes of what it says.
\* (StrictParser::head)
LEMMA HeadReads ==
  ASSUME NEW buf \in Seq(u8), NEW mode, mode.strict = TRUE, NEW pos \in Positions(buf),
         head(buf, mode)[pos].ok
  PROVE  HeadForm(buf, pos, head(buf, mode)[pos])
<1> DEFINE h == head(buf, mode)[pos]
           b == buf[pos]
           major == b \div 32
           minor == b % 32
           w == ArgWidth(minor)
           s == Cut(buf, pos + 1, pos + 1 + w)
           v == BeVal(s)
<1>1. pos \in Nat \ {0} /\ Len(buf) \in Nat /\ pos <= Len(buf) + 1
  BY ByteStrings8 DEF Positions
<1>2. Remaining(buf, pos) # 0
  <2>1. ASSUME Remaining(buf, pos) = 0 PROVE FALSE
    <3>1. h = Err BY <2>1 DEF head
    <3> QED BY <3>1 DEF Err
  <2> QED BY <2>1
<1>3. pos \in 1 .. Len(buf) BY <1>1, <1>2 DEF Remaining
<1>4. b \in u8 BY <1>3, ByteStrings8
<1>5. major \in 0 .. 7 /\ minor \in 0 .. 31 /\ b = 32 * major + minor
  BY <1>4, MajorMinor, Zenon
<1> DEFINE full == IF w < Remaining(buf, pos)
                       /\ (mode.strict => Shortest(w, BeVal(SubSeq(buf, pos + 1, pos + w))))
                   THEN Ok(pos + 1 + w, [major |-> major, arg |-> BeVal(SubSeq(buf, pos + 1, pos + w))])
                   ELSE Err
<1>a. /\ minor < 24 => h = Ok(pos + 1, [major |-> major, arg |-> minor])
      /\ minor > 27 => h = Err
      /\ ~ minor < 24 /\ ~ minor > 27 => h = full
  <2>1. h = CASE minor < 24 -> Ok(pos + 1, [major |-> major, arg |-> minor])
              [] minor > 27 -> Err
              [] OTHER -> full
    BY <1>2, Zenon DEF head
  <2>2. ~ (minor < 24 /\ minor > 27) BY <1>5, SmallHead, Zenon
  <2> HIDE DEF h, minor, major, w, full
  <2> QED BY <2>1, <2>2
<1>6. CASE minor < 24
  <2>1. h = Ok(pos + 1, [major |-> major, arg |-> minor]) BY <1>6, <1>a
  <2>2. h.pos = pos + 1 /\ h.val.major = major /\ h.val.arg = minor BY <2>1 DEF Ok
  <2>3. pos + 1 \in Positions(buf) /\ pos + 1 > pos BY <1>1, <1>3 DEF Positions
  <2>4. minor \in u64
    <3>1. minor \in u8 BY <1>5, <1>6 DEF u8
    <3> QED BY <3>1, Range8
  <2>5. Cut(buf, pos, pos + 1) = <<b>> BY <1>3, CutOne
  <2>6. put_uint(major, minor) = <<b>>
    <3> HIDE DEF major, minor, b
    <3> QED BY <1>5, <1>6, SmallHead, Zenon
  <2>7. HeadForm(buf, pos, h)
    <3> HIDE DEF h, major, minor
    <3> QED BY <1>5, <2>2, <2>3, <2>4, <2>5, <2>6 DEF HeadForm
  <2> QED BY <2>7
<1>7. CASE ~ minor < 24
  <2>1. minor \in 24 .. 27
    <3>1. ASSUME minor > 27 PROVE FALSE
      <4>1. h = Err BY <3>1, <1>a
      <4> QED BY <4>1 DEF Err
    <3>2. minor \in 0 .. 31 /\ ~ minor > 27 /\ ~ minor < 24 BY <1>5, <1>7, <3>1
    <3> HIDE DEF minor
    <3> QED BY <3>2
  <2>2. w \in Nat BY <2>1 DEF ArgWidth
  <2>3. s = SubSeq(buf, pos + 1, pos + w)
    <3>1. (pos + 1 + w) - 1 = pos + w BY <1>1, <2>2
    <3> QED BY <3>1 DEF Cut
  <2>4. w < Remaining(buf, pos) /\ Shortest(w, v)
        /\ h = Ok(pos + 1 + w, [major |-> major, arg |-> v])
    <3>1. h = IF w < Remaining(buf, pos) /\ (mode.strict => Shortest(w, v))
              THEN Ok(pos + 1 + w, [major |-> major, arg |-> v])
              ELSE Err
      <4>1. ~ minor > 27 BY <2>1
      <4>2. h = full BY <1>7, <1>a, <4>1
      <4> QED BY <2>3, <4>2
    <3> HIDE DEF h, w, s, v, major
    <3>2. h # Err BY DEF h, Err
    <3> QED BY <3>1, <3>2
  <2>5. h.pos = pos + 1 + w /\ h.val.major = major /\ h.val.arg = v BY <2>4 DEF Ok
  <2> DEFINE k == pos + 1 + w
             j == pos + 1
  <2>6. /\ k \in Nat /\ j \in Nat \ {0} /\ j <= k /\ pos <= j /\ k <= Len(buf) + 1
        /\ k \in Positions(buf) /\ k > pos /\ k - j = w
    BY <1>1, <2>2, <2>4 DEF Remaining, Positions
  <2>7. s \in Seq(u8) /\ Len(s) = w
    <3> HIDE DEF k, j
    <3>1. Cut(buf, j, k) \in Seq(u8) /\ Len(Cut(buf, j, k)) = k - j BY <2>6, Cut8
    <3> QED BY <2>6, <3>1 DEF j, k
  <2>8. v \in u64 /\ put_uint(major, v) = <<b>> \o s
    <3> HIDE DEF s, major, minor
    <3>1. v \in u64 /\ \A m \in 0 .. 7 : put_uint(m, v) = <<32 * m + minor>> \o s
      BY <2>1, <2>4, <2>7, ArgBytes
    <3> QED BY <1>5, <3>1
  <2>9. Cut(buf, pos, k) = <<b>> \o s
    <3>1. buf \in Bstr BY ByteStrings8
    <3>2. Cut(buf, pos, j) = <<b>> BY <1>3, CutOne
    <3>3. Cut(buf, pos, k) = Cut(buf, pos, j) \o Cut(buf, j, k)
      <4> HIDE DEF j, k
      <4> QED BY <1>1, <2>6, <3>1, CutAt
    <3> QED BY <3>2, <3>3
  <2>10. HeadForm(buf, pos, h)
    <3>1. h.pos = k /\ h.val.major = major /\ h.val.arg = v BY <2>5
    <3> HIDE DEF h, s, v, w, major, k
    <3> QED BY <1>5, <2>6, <2>8, <2>9, <3>1 DEF HeadForm
  <2> QED BY <2>10
<1> QED BY <1>6, <1>7

\* One more string at the end.
LEMMA FlattenAppend ==
  ASSUME NEW p \in Seq(Bstr), NEW s \in Bstr
  PROVE  FlattenSeq(Append(p, s)) = FlattenSeq(p) \o s
<1> DEFINE q == Append(p, s)
           n == Len(p)
<1>1. q \in Seq(Bstr) /\ Len(q) = n + 1 /\ n \in Nat /\ q[n + 1] = s /\ \A i \in 1 .. n : q[i] = p[i]
  OBVIOUS
<1>2. PICK f : Joins(p, f) /\ FlattenSeq(p) = f[Len(p)] BY Flattened
<1>3. PICK g : Joins(q, g) /\ FlattenSeq(q) = g[Len(q)]
  <2> HIDE DEF q
  <2> QED BY <1>1, Flattened
<1> HIDE DEF q
<1>4. /\ f[0] = << >> /\ \A k \in 1 .. n : f[k] = f[k - 1] \o p[k]
      /\ g[0] = << >> /\ \A k \in 1 .. n + 1 : g[k] = g[k - 1] \o q[k]
  BY <1>1, <1>2, <1>3 DEF Joins
<1> HIDE DEF n
<1> DEFINE T == {k \in Nat : k <= n => f[k] = g[k]}
<1>5. 0 \in T BY <1>4
<1>6. ASSUME NEW k \in Nat, k \in T PROVE k + 1 \in T
  <2>1. CASE k + 1 <= n
    <3>1. k + 1 \in 1 .. n /\ k + 1 \in 1 .. n + 1 /\ (k + 1) - 1 = k /\ k <= n BY <1>1, <2>1
    <3>2. f[k + 1] = f[k] \o p[k + 1]
      <4>1. f[k + 1] = f[(k + 1) - 1] \o p[k + 1] BY <1>4, <3>1, Zenon
      <4> QED BY <3>1, <4>1
    <3>3. g[k + 1] = g[k] \o q[k + 1]
      <4>1. g[k + 1] = g[(k + 1) - 1] \o q[k + 1] BY <1>4, <3>1, Zenon
      <4> QED BY <3>1, <4>1
    <3>4. f[k] = g[k] BY <1>6, <3>1
    <3>5. q[k + 1] = p[k + 1] BY <1>1, <3>1
    <3>6. f[k + 1] = g[k + 1] BY <3>2, <3>3, <3>4, <3>5
    <3> QED BY <3>6
  <2> QED BY <2>1
<1>7. \A k \in Nat : k \in T
  <2> HIDE DEF T
  <2> QED BY <1>5, <1>6, Induct, Zenon
<1>8. f[n] = g[n] BY <1>1, <1>7
<1>9. g[n + 1] = g[n] \o s
  <2>1. n + 1 \in 1 .. n + 1 /\ (n + 1) - 1 = n BY <1>1
  <2>2. g[n + 1] = g[(n + 1) - 1] \o q[n + 1] BY <1>4, <2>1, Zenon
  <2> QED BY <1>1, <2>1, <2>2
<1> QED BY <1>1, <1>2, <1>3, <1>8, <1>9 DEF q, n

\* The recursive function of a reader is what its definition says.
LEMMA ItemsStep ==
  ASSUME NEW below, NEW pos
  PROVE  /\ Items(below, pos)[0] = Ok(pos, << >>)
         /\ \A n \in 1 .. 2 * MAX_ENTRIES :
               Items(below, pos)[n] = NextItem(below, Items(below, pos)[n - 1])
<1> DEFINE m == 2 * MAX_ENTRIES
           seed == Ok(pos, << >>)
           F(r) == NextItem(below, r)
           Is(k, f) == f = [n \in 0 .. k |-> IF n = 0 THEN seed ELSE F(f[n - 1])]
           T == {k \in Nat : \E f : Is(k, f)}
           read == Items(below, pos)
<1>1. m \in Nat BY CborAssumption
<1>2. read = CHOOSE f : Is(m, f) BY DEF Items
<1> HIDE DEF seed, F, m, read
<1>3. 0 \in T
  <2> DEFINE f == [n \in 0 .. 0 |-> seed]
  <2>1. Is(0, f) OBVIOUS
  <2> QED BY <2>1
<1>4. ASSUME NEW k \in Nat, k \in T PROVE k + 1 \in T
  <2>1. PICK f : Is(k, f) BY <1>4
  <2> DEFINE g == [n \in 0 .. k + 1 |-> IF n = k + 1 THEN F(f[k]) ELSE f[n]]
  <2>2. ASSUME NEW n \in 0 .. k + 1 PROVE g[n] = IF n = 0 THEN seed ELSE F(g[n - 1])
    <3>1. CASE n = k + 1
      <4>1. n # 0 /\ n - 1 = k /\ g[k] = f[k] BY <3>1
      <4> QED BY <3>1, <4>1
    <3>2. CASE n # k + 1
      <4>1. n \in 0 .. k /\ g[n] = f[n] BY <3>2
      <4>2. n # 0 => n - 1 \in 0 .. k + 1 /\ n - 1 # k + 1 /\ g[n - 1] = f[n - 1] BY <4>1
      <4>3. f[n] = IF n = 0 THEN seed ELSE F(f[n - 1]) BY <2>1, <4>1
      <4> QED BY <4>1, <4>2, <4>3
    <3> QED BY <3>1, <3>2
  <2>3. Is(k + 1, g) BY <2>2
  <2>4. \E h : Is(k + 1, h)
    <3> HIDE DEF Is, g
    <3> QED BY <2>3
  <2> QED BY <2>4
<1>5. \A k \in Nat : k \in T
  <2> HIDE DEF T
  <2> QED BY <1>3, <1>4, Induct, Zenon
<1>6. \E f : Is(m, f) BY <1>1, <1>5
<1>7. Is(m, read)
  <2> HIDE DEF Is
  <2> QED BY <1>2, <1>6, Zenon
<1>8. read[0] = seed /\ \A n \in 1 .. m : read[n] = F(read[n - 1])
  <2>1. \A n \in 0 .. m : read[n] = IF n = 0 THEN seed ELSE F(read[n - 1]) BY <1>7
  <2> QED BY <1>1, <2>1
<1> QED BY <1>8 DEF read, seed, F, m

\* The levels below an item, as functions of the place it is read at.
Levels(buf, mode) ==
    LET at[levels \in 0 .. MAX_CBOR_DEPTH] ==
          IF levels = 0 THEN [pos \in Positions(buf) |-> Err]
          ELSE Level(buf, mode, at[levels - 1])
    IN  at

\* The reader is its levels, the outermost last.
LEMMA ItemLevel == \A buf, mode : item(buf, mode) = Levels(buf, mode)[MAX_CBOR_DEPTH]
BY DEF item, Levels

\* Each level reads the items inside it by the one below.
LEMMA LevelsStep ==
  ASSUME NEW buf, NEW mode
  PROVE  /\ Levels(buf, mode)[0] = [pos \in Positions(buf) |-> Err]
         /\ \A n \in 1 .. MAX_CBOR_DEPTH :
               Levels(buf, mode)[n] = Level(buf, mode, Levels(buf, mode)[n - 1])
<1> DEFINE m == MAX_CBOR_DEPTH
           seed == [pos \in Positions(buf) |-> Err]
           F(n, r) == Level(buf, mode, r)
           Is(k, f) == f = [n \in 0 .. k |-> IF n = 0 THEN seed ELSE F(n, f[n - 1])]
           T == {k \in Nat : \E f : Is(k, f)}
           read == Levels(buf, mode)
<1>1. m \in Nat BY CborAssumption
<1>2. read = CHOOSE f : Is(m, f) BY DEF Levels
<1> HIDE DEF seed, F, m, read
<1>3. 0 \in T
  <2> DEFINE f == [n \in 0 .. 0 |-> seed]
  <2>1. Is(0, f) OBVIOUS
  <2> QED BY <2>1
<1>4. ASSUME NEW k \in Nat, k \in T PROVE k + 1 \in T
  <2>1. PICK f : Is(k, f) BY <1>4
  <2> DEFINE g == [n \in 0 .. k + 1 |-> IF n = k + 1 THEN F(n, f[k]) ELSE f[n]]
  <2>2. ASSUME NEW n \in 0 .. k + 1 PROVE g[n] = IF n = 0 THEN seed ELSE F(n, g[n - 1])
    <3>1. CASE n = k + 1
      <4>1. n # 0 /\ n - 1 = k /\ g[k] = f[k] BY <3>1
      <4> QED BY <3>1, <4>1
    <3>2. CASE n # k + 1
      <4>1. n \in 0 .. k /\ g[n] = f[n] BY <3>2
      <4>2. n # 0 => n - 1 \in 0 .. k + 1 /\ n - 1 # k + 1 /\ g[n - 1] = f[n - 1] BY <4>1
      <4>3. f[n] = IF n = 0 THEN seed ELSE F(n, f[n - 1]) BY <2>1, <4>1
      <4> QED BY <4>1, <4>2, <4>3
    <3> QED BY <3>1, <3>2
  <2>3. Is(k + 1, g) BY <2>2
  <2>4. \E h : Is(k + 1, h)
    <3> HIDE DEF Is, g
    <3> QED BY <2>3
  <2> QED BY <2>4
<1>5. \A k \in Nat : k \in T
  <2> HIDE DEF T
  <2> QED BY <1>3, <1>4, Induct, Zenon
<1>6. \E f : Is(m, f) BY <1>1, <1>5
<1>7. Is(m, read)
  <2> HIDE DEF Is
  <2> QED BY <1>2, <1>6, Zenon
<1>8. read[0] = seed /\ \A n \in 1 .. m : read[n] = F(n, read[n - 1])
  <2>1. \A n \in 0 .. m : read[n] = IF n = 0 THEN seed ELSE F(n, read[n - 1]) BY <1>7
  <2> QED BY <1>1, <2>1
<1> QED BY <1>8 DEF read, seed, F, m

\* A reader moves forward in its buffer.
Forward(buf, f) ==
    \A pos \in Positions(buf) : f[pos].ok => f[pos].pos \in Positions(buf) /\ f[pos].pos > pos

\* One of the items `below` reads, and its bytes.
Inner(buf, below, x, s) ==
    \E q \in Positions(buf) :
        /\ below[q].ok /\ s = Cut(buf, q, below[q].pos)
        /\ x = [from |-> q, to |-> below[q].pos - 1, val |-> below[q].val]

\* k items read one after the other, whose bytes are those of p.
ItemsForm(buf, below, pos, r, k, p) ==
    /\ r.pos \in Positions(buf) /\ r.pos >= pos
    /\ p \in Seq(Bstr) /\ Len(p) = k /\ Len(r.val) = k /\ DOMAIN r.val = 1 .. k
    /\ Cut(buf, pos, r.pos) = FlattenSeq(p)
    /\ \A i \in 1 .. k : Inner(buf, below, r.val[i], p[i])

\* The items read in a row are next to each other, each read by the level below.
LEMMA ItemsRead ==
  ASSUME NEW buf \in Bstr, NEW below, Forward(buf, below), NEW pos \in Positions(buf)
  PROVE  \A k \in 0 .. 2 * MAX_ENTRIES : Items(below, pos)[k].ok =>
            \E p : ItemsForm(buf, below, pos, Items(below, pos)[k], k, p)
<1> DEFINE m == 2 * MAX_ENTRIES
           read == Items(below, pos)
           Good(r, k) == \E p : ItemsForm(buf, below, pos, r, k, p)
           T == {k \in Nat : k <= m /\ read[k].ok => Good(read[k], k)}
<1>1. /\ read[0] = Ok(pos, << >>)
      /\ \A n \in 1 .. m : read[n] = NextItem(below, read[n - 1])
  BY ItemsStep
<1>2. m \in Nat BY CborAssumption
<1>3. pos \in Nat \ {0} /\ pos <= Len(buf) + 1 /\ Len(buf) \in Nat BY BstrProps DEF Positions
<1> HIDE DEF m, read
<1>4. 0 \in T
  <2>1. read[0].pos = pos /\ read[0].val = << >> BY <1>1 DEF Ok
  <2>2. Cut(buf, pos, pos) = << >> BY <1>3 DEF Cut
  <2>3. FlattenSeq(<< >>) = << >> BY DEF FlattenSeq
  <2>4. ItemsForm(buf, below, pos, read[0], 0, << >>)
    BY <1>3, <2>1, <2>2, <2>3 DEF ItemsForm
  <2>5. Good(read[0], 0) BY <2>4
  <2> QED BY <2>5
<1>5. ASSUME NEW k \in Nat, k \in T PROVE k + 1 \in T
  <2>1. ASSUME k + 1 <= m, read[k + 1].ok PROVE Good(read[k + 1], k + 1)
    <3> DEFINE r == read[k]
               x == below[r.pos]
               e == [from |-> r.pos, to |-> x.pos - 1, val |-> x.val]
               s == Cut(buf, r.pos, x.pos)
               t == read[k + 1]
    <3>1. t = AddItem(r, x)
      <4>1. k + 1 \in 1 .. m /\ (k + 1) - 1 = k BY <1>2, <2>1
      <4>2. read[k + 1] = NextItem(below, read[(k + 1) - 1]) BY <1>1, <4>1, Zenon
      <4> QED BY <4>1, <4>2 DEF NextItem
    <3>2. t = IF r.ok /\ x.ok THEN Ok(x.pos, Append(r.val, e)) ELSE Err BY <3>1 DEF AddItem
    <3> HIDE DEF x, r, e, t
    <3>3. r.ok /\ x.ok /\ t = Ok(x.pos, Append(r.val, e))
      <4>1. t.ok BY <2>1 DEF t
      <4>2. t # Err BY <4>1 DEF Err
      <4> QED BY <3>2, <4>2
    <3>4. k <= m BY <1>2, <2>1
    <3>5. PICK p : ItemsForm(buf, below, pos, r, k, p) BY <1>5, <3>3, <3>4 DEF r
    <3>6. /\ r.pos \in Positions(buf) /\ r.pos >= pos /\ p \in Seq(Bstr) /\ Len(p) = k
          /\ Len(r.val) = k /\ DOMAIN r.val = 1 .. k /\ Cut(buf, pos, r.pos) = FlattenSeq(p)
          /\ \A i \in 1 .. k : Inner(buf, below, r.val[i], p[i])
      BY <3>5 DEF ItemsForm
    <3>7. x.pos \in Positions(buf) /\ x.pos > r.pos BY <3>3, <3>6 DEF Forward, x
    <3>8. Inner(buf, below, e, s) BY <3>3, <3>6 DEF Inner, e, x
    <3>9. s \in Bstr /\ Cut(buf, pos, x.pos) = FlattenSeq(Append(p, s))
      <4>1. /\ pos <= r.pos /\ r.pos <= x.pos /\ x.pos <= Len(buf) + 1
            /\ r.pos \in Nat /\ x.pos \in Nat
        BY <1>3, <3>6, <3>7 DEF Positions
      <4>2. s \in Bstr /\ Cut(buf, pos, x.pos) = Cut(buf, pos, r.pos) \o s
        <5> DEFINE i == pos
                   j == r.pos
                   l == x.pos
        <5>1. i \in Nat \ {0} /\ j \in Nat /\ l \in Nat /\ i <= j /\ j <= l /\ l <= Len(buf) + 1
          BY <1>3, <4>1
        <5>2. Cut(buf, j, l) \in Bstr /\ Cut(buf, i, l) = Cut(buf, i, j) \o Cut(buf, j, l)
          <6> HIDE DEF i, j, l
          <6> QED BY <5>1, CutAt
        <5> QED BY <5>2 DEF s
      <4> HIDE DEF s
      <4> QED BY <3>6, <4>2, FlattenAppend
    <3> HIDE DEF s
    <3> DEFINE q == Append(p, s)
               v == Append(r.val, e)
    <3>10. t.pos = x.pos /\ t.val = v BY <3>3 DEF Ok
    <3>11. /\ q \in Seq(Bstr) /\ Len(q) = k + 1 /\ q[k + 1] = s /\ \A i \in 1 .. k : q[i] = p[i]
      BY <3>6, <3>9
    <3>12. /\ Len(v) = k + 1 /\ DOMAIN v = 1 .. k + 1 /\ v[k + 1] = e
           /\ \A i \in 1 .. k : v[i] = r.val[i]
      BY <3>6
    <3> HIDE DEF q, v
    <3>13. \A i \in 1 .. k + 1 : Inner(buf, below, v[i], q[i])
      <4> TAKE i \in 1 .. k + 1
      <4>1. i \in 1 .. k \/ i = k + 1 OBVIOUS
      <4> QED BY <3>6, <3>8, <3>11, <3>12, <4>1
    <3>14. x.pos >= pos BY <1>3, <3>6, <3>7 DEF Positions
    <3>15. ItemsForm(buf, below, pos, t, k + 1, q)
      BY <3>7, <3>9, <3>10, <3>11, <3>12, <3>13, <3>14 DEF ItemsForm, q
    <3> QED BY <3>15 DEF t
  <2> QED BY <2>1
<1>6. \A k \in Nat : k \in T
  <2> HIDE DEF T
  <2> QED BY <1>4, <1>5, Induct, Zenon
<1>7. \A k \in 0 .. m : read[k].ok => Good(read[k], k)
  <2> HIDE DEF Good
  <2> QED BY <1>2, <1>6
<1> QED BY <1>7 DEF read, m

\* Values that are one head, or a head and a string, and are of the program's ranges.
Scalar(x) ==
    /\ x = [t |-> x.t, v |-> x.v]
    /\ \/ x.t \in {"uint", "nint"} /\ x.v \in u64
       \/ x.t \in {"bytes", "text"} /\ x.v \in Seq(u8) /\ Len(x.v) \in u64
       \/ x.t = "bool" /\ x.v \in BOOLEAN

ArrayForm(buf, below, pos, r) ==
    \E n \in Nat, p \in Seq(Bstr) : \E s :
        /\ n <= MAX_ENTRIES /\ n \in u64 /\ Len(p) = n
        /\ \A i \in 1 .. n : Inner(buf, below, s[i], p[i])
        /\ Cut(buf, pos, r.pos) = put_uint(4, n) \o FlattenSeq(p)
        /\ r.val = [t |-> "array", v |-> [i \in 1 .. n |-> s[i].val]]

MapForm(buf, below, pos, r) ==
    \E n \in Nat, p \in Seq(Bstr) : \E s :
        /\ n <= MAX_ENTRIES /\ n \in u64 /\ Len(p) = 2 * n
        /\ \A i \in 1 .. 2 * n : Inner(buf, below, s[i], p[i])
        /\ \A i \in 2 .. n : LexLess(p[2 * i - 3], p[2 * i - 1])
        /\ Cut(buf, pos, r.pos) = put_uint(5, n) \o FlattenSeq(p)
        /\ r.val = [t |-> "map", v |-> [i \in 1 .. n |-> <<s[2 * i - 1].val, s[2 * i].val>>]]

\* What the strict reader takes at a level above `below`, and its bytes.
ItemForm(buf, below, pos, r) ==
    /\ r.pos \in Positions(buf) /\ r.pos > pos
    /\ \/ Scalar(r.val) /\ Cut(buf, pos, r.pos) = put_value(r.val)
       \/ ArrayForm(buf, below, pos, r)
       \/ MapForm(buf, below, pos, r)

\* A string that is taken is a cut of the buffer.  (StrictParser::take)
LEMMA TakeForm ==
  ASSUME NEW buf \in Seq(u8), NEW pos \in Positions(buf), NEW n \in Nat, NEW t, take(buf, pos, n, t).ok
  PROVE  /\ take(buf, pos, n, t).pos = pos + n /\ pos + n \in Positions(buf)
         /\ take(buf, pos, n, t).val = [t |-> t, v |-> Cut(buf, pos, pos + n)]
         /\ Cut(buf, pos, pos + n) \in Seq(u8) /\ Len(Cut(buf, pos, pos + n)) = n
<1> DEFINE k == pos + n
<1>1. pos \in Nat \ {0} /\ pos <= Len(buf) + 1 /\ Len(buf) \in Nat /\ k \in Nat /\ pos <= k /\ k - pos = n
  BY ByteStrings8 DEF Positions
<1>2. n <= Remaining(buf, pos)
  <2>1. ASSUME ~ n <= Remaining(buf, pos) PROVE FALSE
    <3>1. take(buf, pos, n, t) = Err BY <2>1 DEF take
    <3> QED BY <3>1 DEF Err
  <2> QED BY <2>1
<1>3. k <= Len(buf) + 1 /\ k \in Positions(buf) BY <1>1, <1>2 DEF Remaining, Positions
<1>4. take(buf, pos, n, t) = Ok(k, [t |-> t, v |-> Cut(buf, pos, k)])
  <2>1. take(buf, pos, n, t) = Ok(pos + n, [t |-> t, v |-> SubSeq(buf, pos, pos + n - 1)])
    BY <1>2, Zenon DEF take
  <2>2. pos + n - 1 = k - 1 BY <1>1
  <2> HIDE DEF k
  <2>3. SubSeq(buf, pos, pos + n - 1) = Cut(buf, pos, k) BY <2>2 DEF Cut
  <2> QED BY <2>1, <2>3 DEF k
<1>5. Cut(buf, pos, k) \in Seq(u8) /\ Len(Cut(buf, pos, k)) = k - pos
  <2> HIDE DEF k
  <2> QED BY <1>1, <1>3, Cut8
<1> QED BY <1>1, <1>3, <1>4, <1>5 DEF Ok

\* A head, and what follows it.
LEMMA HeadThen ==
  ASSUME NEW buf \in Seq(u8), NEW pos \in Positions(buf), NEW h, HeadForm(buf, pos, h),
         NEW k \in Positions(buf), h.pos <= k
  PROVE  /\ k > pos
         /\ Cut(buf, pos, k) = put_uint(h.val.major, h.val.arg) \o Cut(buf, h.pos, k)
<1> DEFINE j == h.pos
<1>1. j \in Positions(buf) /\ j > pos /\ Cut(buf, pos, j) = put_uint(h.val.major, h.val.arg)
  BY DEF HeadForm
<1>2. /\ pos \in Nat \ {0} /\ j \in Nat /\ k \in Nat /\ pos <= j /\ j <= k /\ k <= Len(buf) + 1 /\ k > pos
  BY <1>1, ByteStrings8 DEF Positions
<1>3. buf \in Bstr BY ByteStrings8
<1>4. Cut(buf, pos, k) = Cut(buf, pos, j) \o Cut(buf, j, k)
  <2> HIDE DEF j
  <2> QED BY <1>2, <1>3, CutAt
<1> QED BY <1>1, <1>2, <1>4

\* A number or a string is read from the bytes the encoder makes of it.
LEMMA ScalarItem ==
  ASSUME NEW buf \in Seq(u8), NEW pos \in Positions(buf), NEW h, HeadForm(buf, pos, h), NEW below,
         NEW r, h.val.arg \in Nat,
         \/ h.val.major = 0 /\ r = Ok(h.pos, [t |-> "uint", v |-> h.val.arg])
         \/ h.val.major = 1 /\ r = Ok(h.pos, [t |-> "nint", v |-> h.val.arg])
         \/ h.val.major = 2 /\ r = take(buf, h.pos, h.val.arg, "bytes") /\ r.ok
         \/ h.val.major = 3 /\ r = take(buf, h.pos, h.val.arg, "text") /\ r.ok
         \/ h.val.major = 7 /\ h.val.arg \in {20, 21} /\ r = Ok(h.pos, [t |-> "bool", v |-> h.val.arg = 21])
  PROVE  ItemForm(buf, below, pos, r)
<1> DEFINE n == h.val.arg
           j == h.pos
           m == h.val.major
<1>1. /\ m \in 0 .. 7 /\ n \in u64 /\ j \in Positions(buf) /\ j > pos
      /\ Cut(buf, pos, j) = put_uint(m, n)
  BY DEF HeadForm
<1>2. CASE m \in {0, 1} /\ r = Ok(j, [t |-> IF m = 0 THEN "uint" ELSE "nint", v |-> n])
  <2>1. /\ r.pos = j /\ r.val.t = (IF m = 0 THEN "uint" ELSE "nint") /\ r.val.v = n
        /\ r.val = [t |-> r.val.t, v |-> r.val.v]
    BY <1>2 DEF Ok
  <2> HIDE DEF m, n, j
  <2>2. put_value(r.val) = put_uint(m, n)
    <3>1. CASE m = 0 BY <2>1, <3>1 DEF put_value
    <3>2. CASE m = 1 BY <2>1, <3>2 DEF put_value
    <3> QED BY <1>2, <3>1, <3>2
  <2>3. Scalar(r.val) BY <1>1, <1>2, <2>1 DEF Scalar
  <2> QED BY <1>1, <2>1, <2>2, <2>3 DEF ItemForm
<1>3. CASE m \in {2, 3} /\ r = take(buf, j, n, IF m = 2 THEN "bytes" ELSE "text") /\ r.ok
  <2> DEFINE t == IF m = 2 THEN "bytes" ELSE "text"
             k == j + n
             c == Cut(buf, j, k)
  <2>1. /\ r.pos = k /\ k \in Positions(buf) /\ r.val = [t |-> t, v |-> c]
        /\ c \in Seq(u8) /\ Len(c) = n
    <3> HIDE DEF t, j, n
    <3> QED BY <1>1, <1>3, TakeForm DEF t, n
  <2>2. h.pos <= k BY <1>1 DEF Positions
  <2>3. k > pos /\ Cut(buf, pos, k) = put_uint(m, n) \o c
    <3> HIDE DEF k
    <3>1. k > pos /\ Cut(buf, pos, k) = put_uint(h.val.major, h.val.arg) \o Cut(buf, h.pos, k)
      BY <2>1, <2>2, HeadThen
    <3> QED BY <3>1
  <2> HIDE DEF m, n, j, c, k
  <2>4. r.val.t = t /\ r.val.v = c /\ r.val = [t |-> r.val.t, v |-> r.val.v] BY <2>1
  <2>5. put_value(r.val) = put_uint(m, n) \o c
    <3>1. CASE m = 2
      <4>1. r.val.t = "bytes" BY <2>4, <3>1
      <4> QED BY <2>1, <2>4, <3>1, <4>1 DEF put_value, put_bytes
    <3>2. CASE m = 3
      <4>1. r.val.t = "text" BY <2>4, <3>2
      <4> QED BY <2>1, <2>4, <3>2, <4>1 DEF put_value, put_text
    <3> QED BY <1>3, <3>1, <3>2
  <2>6. Scalar(r.val) BY <1>1, <1>3, <2>1, <2>4 DEF Scalar
  <2> QED BY <2>1, <2>3, <2>5, <2>6 DEF ItemForm
<1>4. CASE m = 7 /\ n \in {20, 21} /\ r = Ok(j, [t |-> "bool", v |-> n = 21])
  <2>1. /\ r.pos = j /\ r.val.t = "bool" /\ r.val.v = (n = 21)
        /\ r.val = [t |-> r.val.t, v |-> r.val.v]
    BY <1>4 DEF Ok
  <2>2. Scalar(r.val)
    <3>1. (n = 21) \in BOOLEAN OBVIOUS
    <3> QED BY <2>1, <3>1 DEF Scalar
  <2>3. put_uint(7, n) = <<224 + n>>
    <3>1. n \in 0 .. 31 /\ n < 24 /\ 32 * 7 = 224 BY <1>4
    <3> HIDE DEF n
    <3>2. 7 \in 0 .. 7 OBVIOUS
    <3>3. put_uint(7, n) = <<32 * 7 + n>> BY <3>1, <3>2, SmallHead, Zenon
    <3> QED BY <3>1, <3>3
  <2>4. put_value(r.val) = <<IF n = 21 THEN 245 ELSE 244>>
    <3>1. put_value(r.val) = <<IF r.val.v THEN 245 ELSE 244>> BY <2>1 DEF put_value
    <3> QED BY <2>1, <3>1
  <2>5. put_value(r.val) = put_uint(7, n)
    <3> HIDE DEF n
    <3>1. CASE n = 21 BY <2>3, <2>4, <3>1
    <3>2. CASE n = 20 BY <2>3, <2>4, <3>2
    <3> QED BY <1>4, <3>1, <3>2
  <2> HIDE DEF m, n, j
  <2> QED BY <1>1, <1>4, <2>1, <2>2, <2>5 DEF ItemForm
<1> QED BY <1>2, <1>3, <1>4

\* What follows a head, by its major type.
LEMMA AfterCases ==
  ASSUME NEW buf, NEW mode, NEW below, NEW h, NEW n, AfterHead(buf, mode, below, h, n).ok
  PROVE  LET r == AfterHead(buf, mode, below, h, n)
             m == h.val.major
         IN  /\ h.ok
             /\ \/ m = 0 /\ r = Ok(h.pos, [t |-> "uint", v |-> n])
                \/ m = 1 /\ r = Ok(h.pos, [t |-> "nint", v |-> n])
                \/ m = 2 /\ r = take(buf, h.pos, n, "bytes")
                \/ m = 3 /\ r = TextOnly(take(buf, h.pos, n, "text"))
                \/ m = 4 /\ n <= MAX_ENTRIES /\ r = ArrayOf(Items(below, h.pos)[n])
                \/ m = 5 /\ n <= MAX_ENTRIES /\ r = MapOf(buf, Items(below, h.pos)[2 * n], mode)
                \/ m = 7 /\ n \in {20, 21} /\ r = Ok(h.pos, [t |-> "bool", v |-> n = 21])
<1> DEFINE r == AfterHead(buf, mode, below, h, n)
           m == h.val.major
<1>1. r # Err BY DEF Err
<1>2. h.ok
  <2>1. ASSUME ~ h.ok PROVE FALSE
    <3>1. r = Err BY <2>1 DEF AfterHead
    <3> QED BY <1>1, <3>1
  <2> QED BY <2>1
<1>3. CASE m = 0
  <2>1. r = Ok(h.pos, [t |-> "uint", v |-> n]) BY <1>2, <1>3 DEF AfterHead
  <2> QED BY <1>2, <1>3, <2>1
<1>4. CASE m = 1
  <2>1. r = Ok(h.pos, [t |-> "nint", v |-> n]) BY <1>2, <1>4 DEF AfterHead
  <2> QED BY <1>2, <1>4, <2>1
<1>5. CASE m = 2
  <2>1. r = take(buf, h.pos, n, "bytes") \/ r = Err BY <1>2, <1>5 DEF AfterHead
  <2> QED BY <1>1, <1>2, <1>5, <2>1
<1>6. CASE m = 3
  <2>1. r = TextOnly(take(buf, h.pos, n, "text")) \/ r = Err BY <1>2, <1>6 DEF AfterHead
  <2> QED BY <1>1, <1>2, <1>6, <2>1
<1>7. CASE m = 4
  <2>1. (r = ArrayOf(Items(below, h.pos)[n]) /\ n <= MAX_ENTRIES) \/ r = Err BY <1>2, <1>7 DEF AfterHead
  <2> QED BY <1>1, <1>2, <1>7, <2>1
<1>8. CASE m = 5
  <2>1. (r = MapOf(buf, Items(below, h.pos)[2 * n], mode) /\ n <= MAX_ENTRIES) \/ r = Err
    BY <1>2, <1>8 DEF AfterHead
  <2> QED BY <1>1, <1>2, <1>8, <2>1
<1>9. CASE m = 7
  <2>1. (r = Ok(h.pos, [t |-> "bool", v |-> n = 21]) /\ n \in {20, 21}) \/ r = Err
    BY <1>2, <1>9 DEF AfterHead
  <2> QED BY <1>1, <1>2, <1>9, <2>1
<1>10. CASE m \notin {0, 1, 2, 3, 4, 5, 7}
  <2>1. r = Err BY <1>2, <1>10 DEF AfterHead
  <2> QED BY <1>1, <2>1
<1>11. m \in {0, 1, 2, 3, 4, 5, 7} => m = 0 \/ m = 1 \/ m = 2 \/ m = 3 \/ m = 4 \/ m = 5 \/ m = 7
  OBVIOUS
<1> QED BY <1>3, <1>4, <1>5, <1>6, <1>7, <1>8, <1>9, <1>10, <1>11

\* An array is read from its head and the bytes of its items.
LEMMA ArrayItem ==
  ASSUME NEW buf \in Seq(u8), NEW pos \in Positions(buf), NEW h, HeadForm(buf, pos, h), NEW below,
         Forward(buf, below), h.val.major = 4, h.val.arg \in Nat, h.val.arg <= MAX_ENTRIES,
         ArrayOf(Items(below, h.pos)[h.val.arg]).ok
  PROVE  ItemForm(buf, below, pos, ArrayOf(Items(below, h.pos)[h.val.arg]))
<1> DEFINE n == h.val.arg
           q == Items(below, h.pos)[n]
           r == ArrayOf(q)
<1>1. n \in u64 /\ h.pos \in Positions(buf) BY DEF HeadForm
<1>2. n \in 0 .. 2 * MAX_ENTRIES BY CborAssumption
<1>3. q.ok /\ r = Ok(q.pos, [t |-> "array", v |-> [i \in DOMAIN q.val |-> q.val[i].val]])
  <2>1. r # Err BY DEF Err
  <2> HIDE DEF q
  <2> QED BY <2>1 DEF ArrayOf
<1>4. PICK p : ItemsForm(buf, below, h.pos, q, n, p)
  <2>1. buf \in Bstr BY ByteStrings8
  <2> QED BY <1>1, <1>2, <1>3, <2>1, ItemsRead
<1> HIDE DEF q, r
<1>5. /\ q.pos \in Positions(buf) /\ q.pos >= h.pos /\ p \in Seq(Bstr) /\ Len(p) = n
      /\ DOMAIN q.val = 1 .. n /\ Cut(buf, h.pos, q.pos) = FlattenSeq(p)
      /\ \A i \in 1 .. n : Inner(buf, below, q.val[i], p[i])
  BY <1>4 DEF ItemsForm
<1>6. r.pos = q.pos /\ r.val = [t |-> "array", v |-> [i \in 1 .. n |-> q.val[i].val]]
  BY <1>3, <1>5 DEF Ok
<1>7. h.pos <= q.pos BY <1>1, <1>5 DEF Positions
<1>8. q.pos > pos /\ Cut(buf, pos, q.pos) = put_uint(4, n) \o FlattenSeq(p)
  <2>1. q.pos > pos /\ Cut(buf, pos, q.pos) = put_uint(h.val.major, h.val.arg) \o Cut(buf, h.pos, q.pos)
    BY <1>5, <1>7, HeadThen
  <2> QED BY <1>5, <2>1
<1>9. ArrayForm(buf, below, pos, r)
  <2> DEFINE s == q.val
  <2>1. /\ n \in Nat /\ n <= MAX_ENTRIES /\ n \in u64 /\ Len(p) = n /\ p \in Seq(Bstr)
        /\ \A i \in 1 .. n : Inner(buf, below, s[i], p[i])
        /\ Cut(buf, pos, r.pos) = put_uint(4, n) \o FlattenSeq(p)
        /\ r.val = [t |-> "array", v |-> [i \in 1 .. n |-> s[i].val]]
    BY <1>1, <1>5, <1>6, <1>8
  <2> HIDE DEF s, n
  <2> QED BY <2>1 DEF ArrayForm
<1>10. ItemForm(buf, below, pos, r) BY <1>5, <1>6, <1>8, <1>9 DEF ItemForm
<1> QED BY <1>10 DEF r, q

\* A map is read from its head and the bytes of its items, the keys ascending.
LEMMA MapItem ==
  ASSUME NEW buf \in Seq(u8), NEW pos \in Positions(buf), NEW h, HeadForm(buf, pos, h), NEW below,
         Forward(buf, below), h.val.major = 5, h.val.arg \in Nat, h.val.arg <= MAX_ENTRIES,
         NEW mode, mode.strict = TRUE, MapOf(buf, Items(below, h.pos)[2 * h.val.arg], mode).ok
  PROVE  ItemForm(buf, below, pos, MapOf(buf, Items(below, h.pos)[2 * h.val.arg], mode))
<1> DEFINE n == h.val.arg
           w == 2 * n
           q == Items(below, h.pos)[w]
           r == MapOf(buf, q, mode)
           key(i) == SubSeq(buf, q.val[2 * i - 1].from, q.val[2 * i - 1].to)
<1>1. n \in u64 /\ h.pos \in Positions(buf) BY DEF HeadForm
<1>2. w \in 0 .. 2 * MAX_ENTRIES /\ w \in Nat /\ w \div 2 = n BY CborAssumption
<1>3. r # Err BY DEF Err
<1> HIDE DEF q
<1> DEFINE l == Len(q.val) \div 2
<1>4. /\ q.ok /\ \A i \in 2 .. l : KeyFollows(key(i), key(i - 1))
      /\ r = Ok(q.pos, [t |-> "map", v |-> [i \in 1 .. l |-> <<q.val[2 * i - 1].val, q.val[2 * i].val>>]])
  BY <1>3 DEF MapOf
<1>5. PICK p : ItemsForm(buf, below, h.pos, q, w, p)
  <2>1. buf \in Bstr BY ByteStrings8
  <2> HIDE DEF w
  <2> QED BY <1>1, <1>2, <1>4, <2>1, ItemsRead DEF q
<1> HIDE DEF r, w
<1>6. /\ q.pos \in Positions(buf) /\ q.pos >= h.pos /\ p \in Seq(Bstr) /\ Len(p) = w /\ Len(q.val) = w
      /\ DOMAIN q.val = 1 .. w /\ Cut(buf, h.pos, q.pos) = FlattenSeq(p)
      /\ \A i \in 1 .. w : Inner(buf, below, q.val[i], p[i])
  BY <1>5 DEF ItemsForm
<1>7. l = n BY <1>2, <1>6
<1> HIDE DEF l
<1>8. r.pos = q.pos
      /\ r.val = [t |-> "map", v |-> [i \in 1 .. n |-> <<q.val[2 * i - 1].val, q.val[2 * i].val>>]]
  BY <1>4, <1>7 DEF Ok
<1>9. h.pos <= q.pos BY <1>1, <1>6 DEF Positions
<1>10. q.pos > pos /\ Cut(buf, pos, q.pos) = put_uint(5, n) \o FlattenSeq(p)
  <2>1. q.pos > pos /\ Cut(buf, pos, q.pos) = put_uint(h.val.major, h.val.arg) \o Cut(buf, h.pos, q.pos)
    BY <1>6, <1>9, HeadThen
  <2> QED BY <1>6, <2>1
<1>11. \A i \in 1 .. n : key(i) = p[2 * i - 1]
  <2> TAKE i \in 1 .. n
  <2>1. 2 * i - 1 \in 1 .. w BY DEF w
  <2> DEFINE x == q.val[2 * i - 1]
             s == p[2 * i - 1]
  <2>2. Inner(buf, below, x, s) BY <1>6, <2>1
  <2> HIDE DEF x, s
  <2>3. s = SubSeq(buf, x.from, x.to)
    <3>1. PICK u \in Positions(buf) :
            /\ s = Cut(buf, u, below[u].pos)
            /\ x = [from |-> u, to |-> below[u].pos - 1, val |-> below[u].val]
      BY <2>2 DEF Inner
    <3>2. x.from = u /\ x.to = below[u].pos - 1 BY <3>1
    <3>3. s = SubSeq(buf, u, below[u].pos - 1) BY <3>1 DEF Cut
    <3> QED BY <3>2, <3>3
  <2> QED BY <2>3 DEF x, s
<1>12. \A i \in 2 .. n : LexLess(p[2 * i - 3], p[2 * i - 1])
  <2> TAKE i \in 2 .. n
  <2>1. i \in 1 .. n /\ i - 1 \in 1 .. n /\ 2 * (i - 1) - 1 = 2 * i - 3 BY <1>2
  <2>2. key(i) = p[2 * i - 1] BY <1>11, <2>1
  <2>3. key(i - 1) = p[2 * i - 3]
    <3>1. key(i - 1) = p[2 * (i - 1) - 1] BY <1>11, <2>1
    <3> QED BY <2>1, <3>1
  <2>4. KeyFollows(key(i), key(i - 1)) BY <1>4, <1>7
  <2> HIDE DEF key
  <2> QED BY <2>2, <2>3, <2>4 DEF KeyFollows
<1>13. MapForm(buf, below, pos, r)
  <2> DEFINE s == q.val
  <2>1. /\ n \in Nat /\ n <= MAX_ENTRIES /\ n \in u64 /\ Len(p) = 2 * n /\ p \in Seq(Bstr)
        /\ \A i \in 1 .. 2 * n : Inner(buf, below, s[i], p[i])
        /\ \A i \in 2 .. n : LexLess(p[2 * i - 3], p[2 * i - 1])
        /\ Cut(buf, pos, r.pos) = put_uint(5, n) \o FlattenSeq(p)
        /\ r.val = [t |-> "map", v |-> [i \in 1 .. n |-> <<s[2 * i - 1].val, s[2 * i].val>>]]
    BY <1>1, <1>6, <1>8, <1>10, <1>12 DEF w
  <2> HIDE DEF s, n
  <2> QED BY <2>1 DEF MapForm
<1>14. ItemForm(buf, below, pos, r) BY <1>6, <1>8, <1>10, <1>13 DEF ItemForm
<1> QED BY <1>14 DEF r, q, w

\* Whatever a level reads has one of these forms.  (StrictParser::item)
LEMMA LevelReads ==
  ASSUME NEW buf \in Seq(u8), NEW mode, mode.strict = TRUE, NEW below, Forward(buf, below),
         NEW pos \in Positions(buf), Level(buf, mode, below)[pos].ok
  PROVE  ItemForm(buf, below, pos, Level(buf, mode, below)[pos])
<1> DEFINE h == head(buf, mode)[pos]
           n == h.val.arg
           m == h.val.major
           r == AfterHead(buf, mode, below, h, n)
<1>1. Level(buf, mode, below)[pos] = r BY DEF Level
<1>2. /\ h.ok
      /\ \/ m = 0 /\ r = Ok(h.pos, [t |-> "uint", v |-> n])
         \/ m = 1 /\ r = Ok(h.pos, [t |-> "nint", v |-> n])
         \/ m = 2 /\ r = take(buf, h.pos, n, "bytes")
         \/ m = 3 /\ r = TextOnly(take(buf, h.pos, n, "text"))
         \/ m = 4 /\ n <= MAX_ENTRIES /\ r = ArrayOf(Items(below, h.pos)[n])
         \/ m = 5 /\ n <= MAX_ENTRIES /\ r = MapOf(buf, Items(below, h.pos)[2 * n], mode)
         \/ m = 7 /\ n \in {20, 21} /\ r = Ok(h.pos, [t |-> "bool", v |-> n = 21])
  <2>1. AfterHead(buf, mode, below, h, n).ok BY <1>1
  <2> HIDE DEF h, n
  <2> QED BY <2>1, AfterCases
<1>3. HeadForm(buf, pos, h) BY <1>2, HeadReads
<1>4. n \in Nat BY <1>3, Range8 DEF HeadForm
<1>5. r.ok BY <1>1
<1> HIDE DEF r, h
<1>6. ASSUME m = 3, r = TextOnly(take(buf, h.pos, n, "text")) PROVE r = take(buf, h.pos, n, "text")
  <2>1. r # Err BY <1>5 DEF Err
  <2> QED BY <1>6, <2>1 DEF TextOnly
<1>7. CASE \/ m = 0 /\ r = Ok(h.pos, [t |-> "uint", v |-> n])
           \/ m = 1 /\ r = Ok(h.pos, [t |-> "nint", v |-> n])
           \/ m = 2 /\ r = take(buf, h.pos, n, "bytes") /\ r.ok
           \/ m = 3 /\ r = take(buf, h.pos, n, "text") /\ r.ok
           \/ m = 7 /\ n \in {20, 21} /\ r = Ok(h.pos, [t |-> "bool", v |-> n = 21])
  <2>1. ItemForm(buf, below, pos, r) BY <1>3, <1>4, <1>7, ScalarItem
  <2> QED BY <1>1, <2>1
<1>8. CASE m = 4 /\ n <= MAX_ENTRIES /\ r = ArrayOf(Items(below, h.pos)[n])
  <2>1. ItemForm(buf, below, pos, r) BY <1>3, <1>4, <1>5, <1>8, ArrayItem
  <2> QED BY <1>1, <2>1
<1>9. CASE m = 5 /\ n <= MAX_ENTRIES /\ r = MapOf(buf, Items(below, h.pos)[2 * n], mode)
  <2>1. ItemForm(buf, below, pos, r) BY <1>3, <1>4, <1>5, <1>9, MapItem
  <2> QED BY <1>1, <2>1
<1> QED BY <1>2, <1>5, <1>6, <1>7, <1>8, <1>9

\* And so do all levels.
LEMMA LevelsRead ==
  ASSUME NEW buf \in Seq(u8), NEW mode, mode.strict = TRUE
  PROVE  /\ \A n \in 0 .. MAX_CBOR_DEPTH : Forward(buf, Levels(buf, mode)[n])
         /\ \A pos \in Positions(buf) : ~ Levels(buf, mode)[0][pos].ok
         /\ \A n \in 1 .. MAX_CBOR_DEPTH : \A pos \in Positions(buf) :
               Levels(buf, mode)[n][pos].ok =>
                  ItemForm(buf, Levels(buf, mode)[n - 1], pos, Levels(buf, mode)[n][pos])
<1> DEFINE at == Levels(buf, mode)
           m == MAX_CBOR_DEPTH
           T == {n \in Nat : n <= m => Forward(buf, at[n])}
<1>1. at[0] = [pos \in Positions(buf) |-> Err] /\ \A n \in 1 .. m : at[n] = Level(buf, mode, at[n - 1])
  BY LevelsStep
<1>2. m \in Nat BY CborAssumption
<1> HIDE DEF at, m
<1>3. \A pos \in Positions(buf) : ~ at[0][pos].ok BY <1>1 DEF Err
<1>4. 0 \in T BY <1>3 DEF Forward
<1>5. ASSUME NEW n \in 1 .. m, Forward(buf, at[n - 1]), NEW pos \in Positions(buf), at[n][pos].ok
      PROVE  ItemForm(buf, at[n - 1], pos, at[n][pos])
  <2> DEFINE b == at[n - 1]
  <2>1. at[n] = Level(buf, mode, b) BY <1>1, <1>5
  <2>2. Level(buf, mode, b)[pos].ok BY <1>5, <2>1
  <2>3. ItemForm(buf, b, pos, Level(buf, mode, b)[pos])
    <3>1. Forward(buf, b) BY <1>5
    <3> HIDE DEF b
    <3> QED BY <2>2, <3>1, LevelReads
  <2> QED BY <2>1, <2>3
<1>6. ASSUME NEW n \in Nat, n \in T PROVE n + 1 \in T
  <2>1. ASSUME n + 1 <= m PROVE Forward(buf, at[n + 1])
    <3>1. n + 1 \in 1 .. m /\ (n + 1) - 1 = n /\ Forward(buf, at[n]) BY <1>2, <1>6, <2>1
    <3>2. \A pos \in Positions(buf) : at[n + 1][pos].ok => ItemForm(buf, at[n], pos, at[n + 1][pos])
      BY <1>5, <3>1
    <3> QED BY <3>2 DEF Forward, ItemForm
  <2> QED BY <2>1
<1>7. \A n \in Nat : n \in T
  <2> HIDE DEF T
  <2> QED BY <1>4, <1>6, Induct, Zenon
<1>8. \A n \in 0 .. m : Forward(buf, at[n]) BY <1>2, <1>7
<1>9. \A n \in 1 .. m : \A pos \in Positions(buf) : at[n][pos].ok => ItemForm(buf, at[n - 1], pos, at[n][pos])
  <2> TAKE n \in 1 .. m
  <2>1. n - 1 \in 0 .. m BY <1>2
  <2> QED BY <1>5, <1>8, <2>1
<1> QED BY <1>3, <1>8, <1>9 DEF at, m

\* Two readers find one value in the same bytes only.
SameBytes(buf, f, dup, g) ==
    \A p \in Positions(buf), q \in Positions(dup) :
        f[p].ok /\ g[q].ok /\ f[p].val = g[q].val => Cut(buf, p, f[p].pos) = Cut(dup, q, g[q].pos)

\* Inner items of one value were read from the same bytes, if the levels below agree.
LEMMA InnerSame ==
  ASSUME NEW buf, NEW dup, NEW f, NEW g, SameBytes(buf, f, dup, g), NEW x, NEW y, NEW s, NEW t,
         Inner(buf, f, x, s), Inner(dup, g, y, t), x.val = y.val
  PROVE  s = t
<1>1. PICK p \in Positions(buf) :
        f[p].ok /\ s = Cut(buf, p, f[p].pos) /\ x = [from |-> p, to |-> f[p].pos - 1, val |-> f[p].val]
  BY DEF Inner
<1>2. PICK q \in Positions(dup) :
        g[q].ok /\ t = Cut(dup, q, g[q].pos) /\ y = [from |-> q, to |-> g[q].pos - 1, val |-> g[q].val]
  BY DEF Inner
<1>3. f[p].val = g[q].val
  <2>1. x.val = f[p].val BY <1>1
  <2>2. y.val = g[q].val BY <1>2
  <2> QED BY <2>1, <2>2
<1> QED BY <1>1, <1>2, <1>3 DEF SameBytes

\* Strings of strings with the same parts are the same.
LEMMA SameSeq ==
  ASSUME NEW p \in Seq(Bstr), NEW q \in Seq(Bstr), Len(p) = Len(q), \A i \in 1 .. Len(p) : p[i] = q[i]
  PROVE  p = q
BY SeqEqual

\* The length of an interval.
LEMMA SameRange ==
  ASSUME NEW m \in Nat, NEW n \in Nat, 1 .. m = 1 .. n
  PROVE  m = n
<1>1. m \in 1 .. m \/ m = 0 OBVIOUS
<1>2. n \in 1 .. n \/ n = 0 OBVIOUS
<1>3. m <= n BY <1>1
<1>4. n <= m BY <1>2
<1> QED BY <1>3, <1>4

\* Arrays of one value were read from the same bytes.
LEMMA SameArray ==
  ASSUME NEW buf, NEW dup, NEW f, NEW g, SameBytes(buf, f, dup, g), NEW p, NEW q, NEW r, NEW s,
         ArrayForm(buf, f, p, r), ArrayForm(dup, g, q, s), r.val = s.val
  PROVE  Cut(buf, p, r.pos) = Cut(dup, q, s.pos)
<1>1. PICK m \in Nat, a \in Seq(Bstr) : \E x :
        /\ Len(a) = m
        /\ \A i \in 1 .. m : Inner(buf, f, x[i], a[i])
        /\ Cut(buf, p, r.pos) = put_uint(4, m) \o FlattenSeq(a)
        /\ r.val = [t |-> "array", v |-> [i \in 1 .. m |-> x[i].val]]
  BY DEF ArrayForm
<1>2. PICK x :
        /\ \A i \in 1 .. m : Inner(buf, f, x[i], a[i])
        /\ r.val = [t |-> "array", v |-> [i \in 1 .. m |-> x[i].val]]
  BY <1>1
<1>3. PICK n \in Nat, b \in Seq(Bstr) : \E y :
        /\ Len(b) = n
        /\ \A i \in 1 .. n : Inner(dup, g, y[i], b[i])
        /\ Cut(dup, q, s.pos) = put_uint(4, n) \o FlattenSeq(b)
        /\ s.val = [t |-> "array", v |-> [i \in 1 .. n |-> y[i].val]]
  BY DEF ArrayForm
<1>4. PICK y :
        /\ \A i \in 1 .. n : Inner(dup, g, y[i], b[i])
        /\ s.val = [t |-> "array", v |-> [i \in 1 .. n |-> y[i].val]]
  BY <1>3
<1> DEFINE u == [i \in 1 .. m |-> x[i].val]
           v == [i \in 1 .. n |-> y[i].val]
<1>5. u = v
  <2>1. r.val.v = u BY <1>2
  <2>2. s.val.v = v BY <1>4
  <2> QED BY <2>1, <2>2
<1>6. m = n
  <2>1. DOMAIN u = 1 .. m /\ DOMAIN v = 1 .. n OBVIOUS
  <2>2. 1 .. m = 1 .. n BY <1>5, <2>1
  <2> QED BY <2>2, SameRange
<1>7. \A i \in 1 .. m : a[i] = b[i]
  <2> TAKE i \in 1 .. m
  <2>1. u[i] = x[i].val /\ v[i] = y[i].val BY <1>6
  <2>2. x[i].val = y[i].val BY <1>5, <2>1
  <2>3. Inner(buf, f, x[i], a[i]) /\ Inner(dup, g, y[i], b[i]) BY <1>2, <1>4, <1>6
  <2> QED BY <2>2, <2>3, InnerSame
<1>8. a = b BY <1>1, <1>3, <1>6, <1>7, SameSeq
<1> QED BY <1>1, <1>3, <1>6, <1>8

\* Maps of one value were read from the same bytes.
LEMMA SameMap ==
  ASSUME NEW buf, NEW dup, NEW f, NEW g, SameBytes(buf, f, dup, g), NEW p, NEW q, NEW r, NEW s,
         MapForm(buf, f, p, r), MapForm(dup, g, q, s), r.val = s.val
  PROVE  Cut(buf, p, r.pos) = Cut(dup, q, s.pos)
<1>1. PICK m \in Nat, a \in Seq(Bstr) : \E x :
        /\ Len(a) = 2 * m
        /\ \A i \in 1 .. 2 * m : Inner(buf, f, x[i], a[i])
        /\ Cut(buf, p, r.pos) = put_uint(5, m) \o FlattenSeq(a)
        /\ r.val = [t |-> "map", v |-> [i \in 1 .. m |-> <<x[2 * i - 1].val, x[2 * i].val>>]]
  BY DEF MapForm
<1>2. PICK x :
        /\ \A i \in 1 .. 2 * m : Inner(buf, f, x[i], a[i])
        /\ r.val = [t |-> "map", v |-> [i \in 1 .. m |-> <<x[2 * i - 1].val, x[2 * i].val>>]]
  BY <1>1
<1>3. PICK n \in Nat, b \in Seq(Bstr) : \E y :
        /\ Len(b) = 2 * n
        /\ \A i \in 1 .. 2 * n : Inner(dup, g, y[i], b[i])
        /\ Cut(dup, q, s.pos) = put_uint(5, n) \o FlattenSeq(b)
        /\ s.val = [t |-> "map", v |-> [i \in 1 .. n |-> <<y[2 * i - 1].val, y[2 * i].val>>]]
  BY DEF MapForm
<1>4. PICK y :
        /\ \A i \in 1 .. 2 * n : Inner(dup, g, y[i], b[i])
        /\ s.val = [t |-> "map", v |-> [i \in 1 .. n |-> <<y[2 * i - 1].val, y[2 * i].val>>]]
  BY <1>3
<1> DEFINE u == [i \in 1 .. m |-> <<x[2 * i - 1].val, x[2 * i].val>>]
           v == [i \in 1 .. n |-> <<y[2 * i - 1].val, y[2 * i].val>>]
<1>5. u = v
  <2>1. r.val.v = u BY <1>2
  <2>2. s.val.v = v BY <1>4
  <2> QED BY <2>1, <2>2
<1>6. m = n
  <2>1. DOMAIN u = 1 .. m /\ DOMAIN v = 1 .. n OBVIOUS
  <2>2. 1 .. m = 1 .. n BY <1>5, <2>1
  <2> QED BY <2>2, SameRange
<1>7. \A i \in 1 .. m : x[2 * i - 1].val = y[2 * i - 1].val /\ x[2 * i].val = y[2 * i].val
  <2> TAKE i \in 1 .. m
  <2>1. u[i] = <<x[2 * i - 1].val, x[2 * i].val>> OBVIOUS
  <2>2. v[i] = <<y[2 * i - 1].val, y[2 * i].val>> BY <1>6
  <2>3. u[i] = v[i] BY <1>5
  <2> HIDE DEF u, v
  <2> QED BY <2>1, <2>2, <2>3
<1>8. \A k \in 1 .. 2 * m : x[k].val = y[k].val
  <2> TAKE k \in 1 .. 2 * m
  <2>1. PICK i \in 1 .. m : k = 2 * i - 1 \/ k = 2 * i
    <3>1. CASE k % 2 = 0
      <4>1. k \div 2 \in 1 .. m /\ k = 2 * (k \div 2) BY <3>1
      <4> QED BY <4>1
    <3>2. CASE k % 2 # 0
      <4>1. (k + 1) \div 2 \in 1 .. m /\ k = 2 * ((k + 1) \div 2) - 1 BY <3>2
      <4> QED BY <4>1
    <3> QED BY <3>1, <3>2
  <2> QED BY <1>7, <2>1
<1>9. \A k \in 1 .. 2 * m : a[k] = b[k]
  <2> TAKE k \in 1 .. 2 * m
  <2>1. x[k].val = y[k].val BY <1>8
  <2>2. Inner(buf, f, x[k], a[k]) /\ Inner(dup, g, y[k], b[k]) BY <1>2, <1>4, <1>6
  <2> QED BY <2>1, <2>2, InnerSame
<1>10. a = b BY <1>1, <1>3, <1>6, <1>9, SameSeq
<1> QED BY <1>1, <1>3, <1>6, <1>10

\* An item's value says of what form it is.
LEMMA ItemType ==
  ASSUME NEW buf, NEW f, NEW p, NEW r, ItemForm(buf, f, p, r)
  PROVE  \/ r.val.t \in {"uint", "nint", "bytes", "text", "bool"} /\ Cut(buf, p, r.pos) = put_value(r.val)
            /\ Scalar(r.val)
         \/ r.val.t = "array" /\ ArrayForm(buf, f, p, r)
         \/ r.val.t = "map" /\ MapForm(buf, f, p, r)
<1>1. CASE Scalar(r.val) /\ Cut(buf, p, r.pos) = put_value(r.val) BY <1>1 DEF Scalar
<1>2. CASE ArrayForm(buf, f, p, r)
  <2>1. r.val.t = "array" BY <1>2 DEF ArrayForm
  <2> QED BY <1>2, <2>1
<1>3. CASE MapForm(buf, f, p, r)
  <2>1. r.val.t = "map" BY <1>3 DEF MapForm
  <2> QED BY <1>3, <2>1
<1> QED BY <1>1, <1>2, <1>3 DEF ItemForm

\* Items of one value were read from the same bytes, if those inside them were.
LEMMA SameItem ==
  ASSUME NEW buf, NEW dup, NEW f, NEW g, SameBytes(buf, f, dup, g), NEW p, NEW q, NEW r, NEW s,
         ItemForm(buf, f, p, r), ItemForm(dup, g, q, s), r.val = s.val
  PROVE  Cut(buf, p, r.pos) = Cut(dup, q, s.pos)
<1> DEFINE flat == {"uint", "nint", "bytes", "text", "bool"}
<1>1. \/ r.val.t \in flat /\ Cut(buf, p, r.pos) = put_value(r.val)
      \/ r.val.t = "array" /\ ArrayForm(buf, f, p, r)
      \/ r.val.t = "map" /\ MapForm(buf, f, p, r)
  BY ItemType
<1>2. \/ s.val.t \in flat /\ Cut(dup, q, s.pos) = put_value(s.val)
      \/ s.val.t = "array" /\ ArrayForm(dup, g, q, s)
      \/ s.val.t = "map" /\ MapForm(dup, g, q, s)
  BY ItemType
<1>3. "array" \notin flat /\ "map" \notin flat /\ "array" # "map" OBVIOUS
<1> HIDE DEF flat
<1>4. CASE r.val.t \in flat BY <1>1, <1>2, <1>3, <1>4
<1>5. CASE r.val.t = "array"
  <2>1. ArrayForm(buf, f, p, r) /\ ArrayForm(dup, g, q, s) BY <1>1, <1>2, <1>3, <1>5
  <2> QED BY <2>1, SameArray
<1>6. CASE r.val.t = "map"
  <2>1. MapForm(buf, f, p, r) /\ MapForm(dup, g, q, s) BY <1>1, <1>2, <1>3, <1>6
  <2> QED BY <2>1, SameMap
<1> QED BY <1>1, <1>4, <1>5, <1>6

\* Two readers read one value from the same bytes, whatever the buffers around it.
LEMMA LevelsSame ==
  ASSUME NEW buf \in Seq(u8), NEW dup \in Seq(u8), NEW mode, mode.strict = TRUE,
         NEW other, other.strict = TRUE
  PROVE  SameBytes(buf, item(buf, mode), dup, item(dup, other))
<1> DEFINE m == MAX_CBOR_DEPTH
           f == Levels(buf, mode)
           g == Levels(dup, other)
           T == {n \in Nat : n <= m => SameBytes(buf, f[n], dup, g[n])}
<1>1. m \in Nat BY CborAssumption
<1>2. /\ \A pos \in Positions(buf) : ~ f[0][pos].ok
      /\ \A n \in 1 .. m : \A pos \in Positions(buf) :
            f[n][pos].ok => ItemForm(buf, f[n - 1], pos, f[n][pos])
      /\ \A n \in 1 .. m : \A pos \in Positions(dup) :
            g[n][pos].ok => ItemForm(dup, g[n - 1], pos, g[n][pos])
  BY LevelsRead
<1> HIDE DEF f, g, m
<1>3. 0 \in T BY <1>2 DEF SameBytes
<1>4. ASSUME NEW n \in Nat, n \in T PROVE n + 1 \in T
  <2>1. ASSUME n + 1 <= m PROVE SameBytes(buf, f[n + 1], dup, g[n + 1])
    <3>1. n + 1 \in 1 .. m /\ (n + 1) - 1 = n /\ n <= m BY <1>1, <2>1
    <3>2. SameBytes(buf, f[n], dup, g[n]) BY <1>4, <3>1
    <3>3. ASSUME NEW p \in Positions(buf), NEW q \in Positions(dup),
                 f[n + 1][p].ok, g[n + 1][q].ok, f[n + 1][p].val = g[n + 1][q].val
          PROVE  Cut(buf, p, f[n + 1][p].pos) = Cut(dup, q, g[n + 1][q].pos)
      <4> DEFINE r == f[n + 1][p]
                 s == g[n + 1][q]
      <4>1. ItemForm(buf, f[n], p, r) /\ ItemForm(dup, g[n], q, s) BY <1>2, <3>1, <3>3
      <4>2. r.val = s.val BY <3>3
      <4> HIDE DEF r, s
      <4>3. Cut(buf, p, r.pos) = Cut(dup, q, s.pos) BY <3>2, <4>1, <4>2, SameItem
      <4> QED BY <4>3 DEF r, s
    <3> QED BY <3>3 DEF SameBytes
  <2> QED BY <2>1
<1>5. \A n \in Nat : n \in T
  <2> HIDE DEF T
  <2> QED BY <1>3, <1>4, Induct, Zenon
<1>6. SameBytes(buf, f[m], dup, g[m]) BY <1>1, <1>5
<1> QED BY <1>6, ItemLevel DEF f, g, m

\* What DecodeMap gives is an item that fills the buffer.  (strict_decode_map_capped)
LEMMA MapDecoded ==
  ASSUME NEW buf, NEW mode, DecodeMap(buf, mode).ok
  PROVE  /\ DecodeMap(buf, mode) = item(buf, mode)[1] /\ item(buf, mode)[1].ok
         /\ item(buf, mode)[1].pos = Len(buf) + 1 /\ item(buf, mode)[1].val.t = "map"
<1> DEFINE r == item(buf, mode)[1]
<1>1. DecodeMap(buf, mode) = IF r.val.t = "map" THEN WholeOnly(buf, r) ELSE Err BY DEF DecodeMap
<1>2. DecodeMap(buf, mode) # Err BY DEF Err
<1> HIDE DEF r
<1>3. r.val.t = "map" /\ Whole(buf, r) /\ DecodeMap(buf, mode) = r BY <1>1, <1>2 DEF WholeOnly
<1> QED BY <1>3 DEF r, Whole

\* A value has one encoding the strict reader accepts, whatever the caps on strings
\* of the two reads: bytes are hashed and signed for the values they say.  (StrictParser,
\* strict_decode_map_capped)
THEOREM StrictReaderIsCanonical ==
  ASSUME NEW buf \in Seq(u8), NEW dup \in Seq(u8), NEW m, NEW n,
         strict_decode_map_capped(buf, m).ok, strict_decode_map_capped(dup, n).ok,
         strict_decode_map_capped(buf, m).val = strict_decode_map_capped(dup, n).val
  PROVE  buf = dup
<1> DEFINE r == item(buf, Strict(m))[1]
           s == item(dup, Strict(n))[1]
<1>1. /\ strict_decode_map_capped(buf, m) = r /\ r.ok /\ r.pos = Len(buf) + 1
      /\ strict_decode_map_capped(dup, n) = s /\ s.ok /\ s.pos = Len(dup) + 1
  BY MapDecoded DEF strict_decode_map_capped
<1>2. Strict(m).strict = TRUE /\ Strict(n).strict = TRUE BY DEF Strict
<1>3. SameBytes(buf, item(buf, Strict(m)), dup, item(dup, Strict(n))) BY <1>2, LevelsSame
<1>4. 1 \in Positions(buf) /\ 1 \in Positions(dup) BY ByteStrings8 DEF Positions
<1>5. r.val = s.val BY <1>1
<1>6. Cut(buf, 1, r.pos) = Cut(dup, 1, s.pos) BY <1>1, <1>3, <1>4, <1>5 DEF SameBytes
<1>7. Cut(buf, 1, Len(buf) + 1) = buf /\ Cut(dup, 1, Len(dup) + 1) = dup BY CutWhole, ByteStrings8
<1> QED BY <1>1, <1>6, <1>7

\* An inner item without items of its own has the bytes the encoder makes of it.
LEMMA InnerScalar ==
  ASSUME NEW buf \in Seq(u8), NEW mode, mode.strict = TRUE, NEW n \in 0 .. MAX_CBOR_DEPTH,
         NEW x, NEW s, Inner(buf, Levels(buf, mode)[n], x, s),
         x.val.t \in {"uint", "nint", "bytes", "text", "bool"}
  PROVE  s = put_value(x.val) /\ Scalar(x.val)
<1> DEFINE f == Levels(buf, mode)[n]
<1>1. PICK p \in Positions(buf) :
        f[p].ok /\ s = Cut(buf, p, f[p].pos) /\ x = [from |-> p, to |-> f[p].pos - 1, val |-> f[p].val]
  BY DEF Inner
<1>2. n # 0 BY <1>1, LevelsRead
<1>3. ItemForm(buf, Levels(buf, mode)[n - 1], p, f[p])
  <2>1. n \in 1 .. MAX_CBOR_DEPTH BY <1>2, CborAssumption
  <2> QED BY <1>1, <2>1, LevelsRead
<1>4. x.val = f[p].val BY <1>1
<1> DEFINE r == f[p]
<1>5. Cut(buf, p, r.pos) = put_value(r.val) /\ Scalar(r.val)
  <2>1. r.val.t \in {"uint", "nint", "bytes", "text", "bool"} BY <1>4
  <2>2. ~ r.val.t = "array" /\ ~ r.val.t = "map" BY <2>1
  <2>3. ItemForm(buf, Levels(buf, mode)[n - 1], p, r) BY <1>3
  <2> HIDE DEF r
  <2> QED BY <2>2, <2>3, ItemType
<1> QED BY <1>1, <1>4, <1>5

\* Twice as many strings, joined two by two.
LEMMA FlattenPairs ==
  ASSUME NEW n \in Nat, NEW p \in Seq(Bstr), Len(p) = 2 * n, NEW b \in Seq(Bstr), Len(b) = n,
         \A i \in 1 .. n : b[i] = p[2 * i - 1] \o p[2 * i]
  PROVE  FlattenSeq(p) = FlattenSeq(b)
<1>1. PICK f : Joins(p, f) /\ FlattenSeq(p) = f[Len(p)] BY Flattened
<1>2. PICK g : Joins(b, g) /\ FlattenSeq(b) = g[Len(b)] BY Flattened
<1>3. /\ f \in [0 .. 2 * n -> Bstr] /\ f[0] = << >> /\ \A k \in 1 .. 2 * n : f[k] = f[k - 1] \o p[k]
      /\ g[0] = << >> /\ \A k \in 1 .. n : g[k] = g[k - 1] \o b[k]
  BY <1>1, <1>2 DEF Joins
<1>4. \A k \in 1 .. 2 * n : p[k] \in Bstr BY ElementOfSeq
<1> DEFINE T == {k \in Nat : k <= n => f[2 * k] = g[k]}
<1>5. 0 \in T BY <1>3
<1>6. ASSUME NEW k \in Nat, k \in T PROVE k + 1 \in T
  <2>1. ASSUME k + 1 <= n PROVE f[2 * (k + 1)] = g[k + 1]
    <3> DEFINE i == 2 * k + 1
               j == 2 * k + 2
    <3>1. /\ i \in 1 .. 2 * n /\ j \in 1 .. 2 * n /\ i - 1 = 2 * k /\ j - 1 = i /\ 2 * k \in 0 .. 2 * n
          /\ 2 * (k + 1) = j /\ 2 * (k + 1) - 1 = i /\ k + 1 \in 1 .. n /\ (k + 1) - 1 = k /\ k <= n
      BY <2>1
    <3> HIDE DEF i, j
    <3>2. f[i] = f[2 * k] \o p[i]
      <4>1. f[i] = f[i - 1] \o p[i] BY <1>3, <3>1, Zenon
      <4> QED BY <3>1, <4>1
    <3>3. f[j] = f[i] \o p[j]
      <4>1. f[j] = f[j - 1] \o p[j] BY <1>3, <3>1, Zenon
      <4> QED BY <3>1, <4>1
    <3>4. g[k + 1] = g[k] \o b[k + 1]
      <4>1. g[k + 1] = g[(k + 1) - 1] \o b[k + 1] BY <1>3, <3>1, Zenon
      <4> QED BY <3>1, <4>1
    <3>5. b[k + 1] = p[i] \o p[j]
      <4>1. b[k + 1] = p[2 * (k + 1) - 1] \o p[2 * (k + 1)] BY <3>1, Zenon
      <4> QED BY <3>1, <4>1
    <3>6. f[2 * k] = g[k] BY <1>6, <3>1
    <3>7. f[2 * k] \in Bstr /\ p[i] \in Bstr /\ p[j] \in Bstr BY <1>3, <1>4, <3>1
    <3> DEFINE u == f[2 * k]
    <3>8. f[j] = (u \o p[i]) \o p[j] BY <3>2, <3>3
    <3>9. g[k + 1] = u \o (p[i] \o p[j]) BY <3>4, <3>5, <3>6
    <3>10. (u \o p[i]) \o p[j] = u \o (p[i] \o p[j])
      <4> HIDE DEF u
      <4> QED BY <3>7, Assoc DEF u
    <3> QED BY <3>1, <3>8, <3>9, <3>10
  <2> QED BY <2>1
<1>7. \A k \in Nat : k \in T
  <2> HIDE DEF T
  <2> QED BY <1>5, <1>6, Induct, Zenon
<1>8. f[2 * n] = g[n] BY <1>7
<1> QED BY <1>1, <1>2, <1>8

-----------------------------------------------------------------------------
(* Keys of a document *)

\* The keys of K up to each number.
KeysUpto(K) ==
    LET upto[n \in 0 .. 14] ==
          IF n = 0 THEN << >> ELSE IF n \in K THEN Append(upto[n - 1], n) ELSE upto[n - 1]
    IN  upto

\* The keys up to the last one.
LEMMA KeySeqUpto == \A K : KeySeq(K) = KeysUpto(K)[14]
BY DEF KeySeq, KeysUpto

\* One more key.
LEMMA KeysStep ==
  ASSUME NEW K
  PROVE  /\ KeysUpto(K)[0] = << >>
         /\ \A n \in 1 .. 14 :
               KeysUpto(K)[n] = (IF n \in K THEN Append(KeysUpto(K)[n - 1], n) ELSE KeysUpto(K)[n - 1])
<1> DEFINE m == 14
           seed == << >>
           F(n, r) == (IF n \in K THEN Append(r, n) ELSE r)
           Is(k, f) == f = [n \in 0 .. k |-> IF n = 0 THEN seed ELSE F(n, f[n - 1])]
           T == {k \in Nat : \E f : Is(k, f)}
           read == KeysUpto(K)
<1>1. m \in Nat OBVIOUS
<1>2. read = CHOOSE f : Is(m, f) BY DEF KeysUpto
<1> HIDE DEF seed, F, m, read
<1>3. 0 \in T
  <2> DEFINE f == [n \in 0 .. 0 |-> seed]
  <2>1. Is(0, f) OBVIOUS
  <2> QED BY <2>1
<1>4. ASSUME NEW k \in Nat, k \in T PROVE k + 1 \in T
  <2>1. PICK f : Is(k, f) BY <1>4
  <2> DEFINE g == [n \in 0 .. k + 1 |-> IF n = k + 1 THEN F(n, f[k]) ELSE f[n]]
  <2>2. ASSUME NEW n \in 0 .. k + 1 PROVE g[n] = IF n = 0 THEN seed ELSE F(n, g[n - 1])
    <3>1. CASE n = k + 1
      <4>1. n # 0 /\ n - 1 = k /\ g[k] = f[k] BY <3>1
      <4> QED BY <3>1, <4>1
    <3>2. CASE n # k + 1
      <4>1. n \in 0 .. k /\ g[n] = f[n] BY <3>2
      <4>2. n # 0 => n - 1 \in 0 .. k + 1 /\ n - 1 # k + 1 /\ g[n - 1] = f[n - 1] BY <4>1
      <4>3. f[n] = IF n = 0 THEN seed ELSE F(n, f[n - 1]) BY <2>1, <4>1
      <4> QED BY <4>1, <4>2, <4>3
    <3> QED BY <3>1, <3>2
  <2>3. Is(k + 1, g) BY <2>2
  <2>4. \E h : Is(k + 1, h)
    <3> HIDE DEF Is, g
    <3> QED BY <2>3
  <2> QED BY <2>4
<1>5. \A k \in Nat : k \in T
  <2> HIDE DEF T
  <2> QED BY <1>3, <1>4, Induct, Zenon
<1>6. \E f : Is(m, f) BY <1>1, <1>5
<1>7. Is(m, read)
  <2> HIDE DEF Is
  <2> QED BY <1>2, <1>6, Zenon
<1>8. read[0] = seed /\ \A n \in 1 .. m : read[n] = F(n, read[n - 1])
  <2>1. \A n \in 0 .. m : read[n] = IF n = 0 THEN seed ELSE F(n, read[n - 1]) BY <1>7
  <2> QED BY <1>1, <2>1
<1> QED BY <1>8 DEF read, seed, F, m

Ascending(s) == \A i, j \in 1 .. Len(s) : i < j => s[i] < s[j]

\* An ascending string of keys is the one in which the keys of its set are put.
LEMMA KeySeqIs ==
  ASSUME NEW s \in Seq(1 .. 14), Ascending(s)
  PROVE  KeySeq({s[i] : i \in 1 .. Len(s)}) = s
<1> DEFINE K == {s[i] : i \in 1 .. Len(s)}
           at == KeysUpto(K)
           l == Len(s)
           Good(n) == \E j \in 0 .. l : at[n] = SubSeq(s, 1, j) /\ \A i \in 1 .. l : s[i] <= n <=> i <= j
           T == {n \in Nat : n <= 14 => Good(n)}
<1>1. at[0] = << >> /\ \A n \in 1 .. 14 : at[n] = IF n \in K THEN Append(at[n - 1], n) ELSE at[n - 1]
  <2> HIDE DEF K
  <2> QED BY KeysStep
<1>2. l \in Nat /\ \A i \in 1 .. l : s[i] \in 1 .. 14 BY ElementOfSeq
<1> HIDE DEF at
<1>3. 0 \in T
  <2>1. SubSeq(s, 1, 0) = << >> OBVIOUS
  <2>2. \A i \in 1 .. l : s[i] <= 0 <=> i <= 0 BY <1>2
  <2>3. 0 \in 0 .. l BY <1>2
  <2>4. Good(0) BY <1>1, <2>1, <2>2, <2>3
  <2> QED BY <2>4
<1>4. ASSUME NEW n \in Nat, n \in T PROVE n + 1 \in T
  <2>1. ASSUME n + 1 <= 14 PROVE Good(n + 1)
    <3>1. n <= 14 /\ n + 1 \in 1 .. 14 /\ (n + 1) - 1 = n BY <2>1
    <3>2. PICK j \in 0 .. l : at[n] = SubSeq(s, 1, j) /\ \A i \in 1 .. l : s[i] <= n <=> i <= j
      BY <1>4, <3>1
    <3>3. at[n + 1] = IF n + 1 \in K THEN Append(at[n], n + 1) ELSE at[n]
      <4>1. at[n + 1] = IF n + 1 \in K THEN Append(at[(n + 1) - 1], n + 1) ELSE at[(n + 1) - 1]
        <5> HIDE DEF K
        <5> QED BY <1>1, <3>1, Zenon
      <4> QED BY <3>1, <4>1
    <3>4. CASE n + 1 \in K
      <4>1. PICK i \in 1 .. l : s[i] = n + 1 BY <3>4
      <4>2. i > j /\ j + 1 \in 1 .. l BY <1>2, <3>2, <4>1
      <4>3. s[j + 1] = n + 1
        <5>1. ~ s[j + 1] <= n BY <3>2, <4>2
        <5>2. j + 1 < i => s[j + 1] < s[i] BY <4>2 DEF Ascending
        <5>3. s[j + 1] \in 1 .. 14 BY <1>2, <4>2
        <5> QED BY <4>1, <4>2, <5>1, <5>2, <5>3
      <4>4. at[n + 1] = SubSeq(s, 1, j + 1)
        <5>1. at[n + 1] = Append(SubSeq(s, 1, j), s[j + 1]) BY <3>2, <3>3, <3>4, <4>3
        <5>2. SubSeq(s, 1, j + 1) = SubSeq(s, 1, (j + 1) - 1) \o <<s[j + 1]>>
          <6>1. 1 \in 1 .. l /\ j + 1 \in 1 .. l BY <4>2
          <6> QED BY <4>2, <6>1, SubSeqRecursiveSecond
        <5>3. (j + 1) - 1 = j OBVIOUS
        <5>4. SubSeq(s, 1, j) \in Seq(1 .. 14) /\ s[j + 1] \in 1 .. 14 BY <1>2, <3>2, <4>2
        <5>5. Append(SubSeq(s, 1, j), s[j + 1]) = SubSeq(s, 1, j) \o <<s[j + 1]>>
          <6> DEFINE u == SubSeq(s, 1, j)
          <6> HIDE DEF u
          <6> QED BY <5>4, AppendIsConcat DEF u
        <5> QED BY <5>1, <5>2, <5>3, <5>5
      <4>5. \A k \in 1 .. l : s[k] <= n + 1 <=> k <= j + 1
        <5> TAKE k \in 1 .. l
        <5>1. s[k] \in 1 .. 14 BY <1>2
        <5>2. CASE k <= j
          <6>1. s[k] <= n BY <3>2, <5>2
          <6> QED BY <5>1, <5>2, <6>1
        <5>3. CASE k = j + 1 BY <4>3, <5>3
        <5>4. CASE k > j + 1
          <6> DEFINE a == s[k]
          <6>1. s[j + 1] < a BY <4>2, <5>4 DEF Ascending
          <6>2. n + 1 < a /\ a \in Int /\ n \in Int /\ j \in Int /\ k \in Int BY <4>3, <5>1, <6>1
          <6> HIDE DEF a
          <6>3. ~ a <= n + 1 /\ ~ k <= j + 1 BY <5>4, <6>2
          <6> QED BY <6>3 DEF a
        <5> QED BY <5>2, <5>3, <5>4
      <4> QED BY <4>2, <4>4, <4>5
    <3>5. CASE n + 1 \notin K
      <4>1. at[n + 1] = SubSeq(s, 1, j) BY <3>2, <3>3, <3>5
      <4>2. \A k \in 1 .. l : s[k] <= n + 1 <=> k <= j
        <5> TAKE k \in 1 .. l
        <5>1. s[k] # n + 1 BY <3>5
        <5>2. s[k] \in 1 .. 14 BY <1>2
        <5>3. s[k] <= n <=> k <= j BY <3>2
        <5> DEFINE a == s[k]
        <5>4. a # n + 1 /\ a \in Int /\ n \in Int /\ (a <= n <=> k <= j) BY <5>1, <5>2, <5>3
        <5> HIDE DEF a
        <5>5. a <= n + 1 <=> k <= j BY <5>4
        <5> QED BY <5>5 DEF a
      <4> QED BY <4>1, <4>2
    <3> QED BY <3>4, <3>5
  <2> QED BY <2>1
<1>5. \A n \in Nat : n \in T
  <2> HIDE DEF T
  <2> QED BY <1>3, <1>4, Induct, Zenon
<1>6. Good(14)
  <2>1. 14 \in Nat /\ 14 <= 14 OBVIOUS
  <2> HIDE DEF Good
  <2> QED BY <1>5, <2>1
<1>7. PICK j \in 0 .. l : at[14] = SubSeq(s, 1, j) /\ \A i \in 1 .. l : s[i] <= 14 <=> i <= j BY <1>6
<1>8. j = l
  <2>1. CASE l = 0 BY <2>1
  <2>2. CASE l # 0
    <3>1. l \in 1 .. l BY <1>2, <2>2
    <3>2. s[l] <= 14 BY <1>2, <3>1
    <3> QED BY <1>7, <3>1, <3>2
  <2> QED BY <2>1, <2>2
<1>9. SubSeq(s, 1, l) = s OBVIOUS
<1> QED BY <1>7, <1>8, <1>9, KeySeqUpto DEF at

\* A set of keys is put in ascending order.
LEMMA KeySeqOf ==
  ASSUME NEW K, K \subseteq 1 .. 14
  PROVE  /\ KeySeq(K) \in Seq(1 .. 14) /\ Ascending(KeySeq(K))
         /\ K = {KeySeq(K)[i] : i \in 1 .. Len(KeySeq(K))}
<1> DEFINE at == KeysUpto(K)
           Good(n) == /\ at[n] \in Seq(1 .. 14) /\ Ascending(at[n])
                      /\ \A i \in 1 .. Len(at[n]) : at[n][i] \in K /\ at[n][i] <= n
                      /\ \A k \in K : k <= n => \E i \in 1 .. Len(at[n]) : at[n][i] = k
           T == {n \in Nat : n <= 14 => Good(n)}
<1>1. at[0] = << >> /\ \A n \in 1 .. 14 : at[n] = IF n \in K THEN Append(at[n - 1], n) ELSE at[n - 1]
  BY KeysStep
<1> HIDE DEF at
<1>2. 0 \in T
  <2>1. Good(0) BY <1>1 DEF Ascending
  <2> QED BY <2>1
<1>3. ASSUME NEW n \in Nat, n \in T PROVE n + 1 \in T
  <2>1. ASSUME n + 1 <= 14 PROVE Good(n + 1)
    <3>1. n <= 14 /\ n + 1 \in 1 .. 14 /\ (n + 1) - 1 = n BY <2>1
    <3>2. Good(n) BY <1>3, <3>1
    <3>3. at[n + 1] = IF n + 1 \in K THEN Append(at[n], n + 1) ELSE at[n]
      <4>1. at[n + 1] = IF n + 1 \in K THEN Append(at[(n + 1) - 1], n + 1) ELSE at[(n + 1) - 1]
        BY <1>1, <3>1, Zenon
      <4> QED BY <3>1, <4>1
    <3>4. CASE n + 1 \in K
      <4> DEFINE u == at[n]
                 v == at[n + 1]
      <4>1. v = Append(u, n + 1) /\ u \in Seq(1 .. 14) BY <3>2, <3>3, <3>4
      <4>2. /\ v \in Seq(1 .. 14) /\ Len(v) = Len(u) + 1 /\ v[Len(u) + 1] = n + 1 /\ Len(u) \in Nat
            /\ \A i \in 1 .. Len(u) : v[i] = u[i]
        <5> HIDE DEF u, v
        <5> QED BY <3>1, <4>1
      <4>3. /\ \A i \in 1 .. Len(u) : u[i] \in K /\ u[i] <= n /\ u[i] \in 1 .. 14
            /\ \A k \in K : k <= n => \E i \in 1 .. Len(u) : u[i] = k
            /\ Ascending(u)
        BY <3>2, <4>1
      <4> HIDE DEF u
      <4>4. Ascending(v)
        <5> HIDE DEF v
        <5> SUFFICES ASSUME NEW i \in 1 .. Len(v), NEW j \in 1 .. Len(v), i < j PROVE v[i] < v[j]
          BY DEF Ascending
        <5>1. i \in 1 .. Len(u) BY <4>2
        <5>2. CASE j \in 1 .. Len(u) BY <4>2, <4>3, <5>1, <5>2 DEF Ascending
        <5>3. CASE j = Len(u) + 1
          <6>1. v[i] = u[i] /\ u[i] <= n /\ u[i] \in 1 .. 14 BY <4>2, <4>3, <5>1
          <6>2. v[j] = n + 1 BY <4>2, <5>3
          <6>3. v[i] \in 1 .. 14 /\ v[i] <= n BY <6>1
          <6>4. \A x \in 1 .. 14 : x <= n => x < n + 1 OBVIOUS
          <6>5. v[i] < n + 1 BY <6>3, <6>4, Zenon
          <6> QED BY <6>2, <6>5
        <5> QED BY <4>2, <5>2, <5>3
      <4>5. \A i \in 1 .. Len(v) : v[i] \in K /\ v[i] <= n + 1
        <5> HIDE DEF v
        <5> TAKE i \in 1 .. Len(v)
        <5>1. i \in 1 .. Len(u) \/ i = Len(u) + 1 BY <4>2
        <5> QED BY <3>4, <4>2, <4>3, <5>1
      <4>6. \A k \in K : k <= n + 1 => \E i \in 1 .. Len(v) : v[i] = k
        <5> HIDE DEF v
        <5> SUFFICES ASSUME NEW k \in K, k <= n + 1 PROVE \E i \in 1 .. Len(v) : v[i] = k OBVIOUS
        <5>1. CASE k = n + 1
          <6>1. Len(u) + 1 \in 1 .. Len(v) BY <4>2
          <6> QED BY <4>2, <5>1, <6>1
        <5>2. CASE k # n + 1
          <6>1. k <= n BY <5>2
          <6>2. PICK i \in 1 .. Len(u) : u[i] = k BY <4>3, <6>1
          <6>3. i \in 1 .. Len(v) /\ v[i] = k BY <4>2, <6>2
          <6> QED BY <6>3
        <5> QED BY <5>1, <5>2
      <4> HIDE DEF v
      <4>7. Good(n + 1) BY <4>2, <4>4, <4>5, <4>6 DEF v
      <4> QED BY <4>7
    <3>5. CASE n + 1 \notin K
      <4>1. at[n + 1] = at[n] BY <3>3, <3>5
      <4> DEFINE u == at[n]
      <4>2. /\ u \in Seq(1 .. 14) /\ Ascending(u)
            /\ \A i \in 1 .. Len(u) : u[i] \in K /\ u[i] <= n
            /\ \A k \in K : k <= n => \E i \in 1 .. Len(u) : u[i] = k
        BY <3>2
      <4>3. \A i \in 1 .. Len(u) : u[i] <= n + 1
        <5> HIDE DEF u
        <5> TAKE i \in 1 .. Len(u)
        <5>1. u[i] \in 1 .. 14 /\ u[i] <= n BY <4>2
        <5> QED BY <5>1
      <4>4. \A k \in K : k <= n + 1 => k <= n BY <3>5
      <4>5. /\ u \in Seq(1 .. 14) /\ Ascending(u)
            /\ \A i \in 1 .. Len(u) : u[i] \in K /\ u[i] <= n + 1
            /\ \A k \in K : k <= n + 1 => \E i \in 1 .. Len(u) : u[i] = k
        <5> HIDE DEF u
        <5> QED BY <4>2, <4>3, <4>4
      <4> QED BY <4>1, <4>5
    <3> QED BY <3>4, <3>5
  <2> QED BY <2>1
<1>4. \A n \in Nat : n \in T
  <2> HIDE DEF T
  <2> QED BY <1>2, <1>3, Induct, Zenon
<1>5. Good(14)
  <2>1. 14 \in Nat /\ 14 <= 14 OBVIOUS
  <2> HIDE DEF Good
  <2> QED BY <1>4, <2>1
<1> DEFINE s == at[14]
<1>6. s \in Seq(1 .. 14) /\ Ascending(s) /\ (\A i \in 1 .. Len(s) : s[i] \in K)
      /\ \A k \in K : \E i \in 1 .. Len(s) : s[i] = k
  <2>1. \A k \in K : k <= 14 OBVIOUS
  <2> QED BY <1>5, <2>1
<1>7. KeySeq(K) = s BY KeySeqUpto DEF at
<1> HIDE DEF s
<1>8. K = {s[i] : i \in 1 .. Len(s)} BY <1>6
<1> QED BY <1>6, <1>7, <1>8
-----------------------------------------------------------------------------
(* Documents read as maps (SignedDocs) *)

\* A document of those keys, with values of the program's types.
Document(rules, d) == DOMAIN d \subseteq DOMAIN rules /\ \A k \in DOMAIN d : Scalar(d[k])

FlatTypes == {"uint", "bytes", "text", "bool"}

\* A key is one byte.
LEMMA SmallKey == \A k \in 1 .. 14 : put_uint(0, k) = <<k>>
<1> SUFFICES ASSUME NEW k \in 1 .. 14 PROVE put_uint(0, k) = <<k>> OBVIOUS
<1>1. 0 \in 0 .. 7 /\ k \in 0 .. 31 /\ k < 24 /\ 32 * 0 + k = k OBVIOUS
<1>2. put_uint(0, k) = <<32 * 0 + k>> BY <1>1, SmallHead, Zenon
<1> QED BY <1>1, <1>2

\* One-byte strings ascend as their bytes do.
LEMMA LexOne == \A a, b \in Nat : LexLess(<<a>>, <<b>>) => a < b
<1> SUFFICES ASSUME NEW a \in Nat, NEW b \in Nat, LexLess(<<a>>, <<b>>) PROVE a < b OBVIOUS
<1>1. PICK i \in 1 .. Len(<<b>>) : /\ i <= Len(<<a>>) + 1
                                   /\ \A j \in 1 .. i - 1 : <<a>>[j] = <<b>>[j]
                                   /\ i = Len(<<a>>) + 1 \/ <<a>>[i] < <<b>>[i]
  BY DEF LexLess
<1>2. i = 1 BY <1>1
<1> QED BY <1>1, <1>2

\* Keys each above the one before it ascend.
LEMMA Adjacent ==
  ASSUME NEW q \in Seq(1 .. 14), \A i \in 2 .. Len(q) : q[i - 1] < q[i]
  PROVE  Ascending(q)
<1> DEFINE T == {k \in Nat : \A i \in 1 .. Len(q) : i + k + 1 <= Len(q) => q[i] < q[i + k + 1]}
<1>1. Len(q) \in Nat /\ \A i \in 1 .. Len(q) : q[i] \in 1 .. 14 BY ElementOfSeq
<1>2. 0 \in T
  <2>1. ASSUME NEW i \in 1 .. Len(q), i + 0 + 1 <= Len(q) PROVE q[i] < q[i + 0 + 1]
    <3>1. i + 1 \in 2 .. Len(q) /\ (i + 1) - 1 = i /\ i + 0 + 1 = i + 1 BY <1>1, <2>1
    <3>2. q[(i + 1) - 1] < q[i + 1] BY <3>1
    <3> QED BY <3>1, <3>2
  <2> QED BY <2>1
<1>3. ASSUME NEW k \in Nat, k \in T PROVE k + 1 \in T
  <2>1. ASSUME NEW i \in 1 .. Len(q), i + (k + 1) + 1 <= Len(q) PROVE q[i] < q[i + (k + 1) + 1]
    <3> DEFINE j == i + k + 1
    <3>1. j \in 1 .. Len(q) /\ j + 1 \in 2 .. Len(q) /\ (j + 1) - 1 = j /\ i + (k + 1) + 1 = j + 1
          /\ j <= Len(q) /\ j + 1 \in 1 .. Len(q)
      BY <1>1, <2>1
    <3>2. q[i] < q[j] BY <1>3, <3>1
    <3> HIDE DEF j
    <3>3. q[(j + 1) - 1] < q[j + 1] BY <3>1
    <3>4. q[i] \in 1 .. 14 /\ q[j] \in 1 .. 14 /\ q[j + 1] \in 1 .. 14 BY <1>1, <3>1
    <3>5. q[j] < q[j + 1] BY <3>1, <3>3
    <3>6. \A x, y, z \in 1 .. 14 : x < y /\ y < z => x < z OBVIOUS
    <3>7. q[i] < q[j + 1] BY <3>2, <3>4, <3>5, <3>6, Zenon
    <3> QED BY <3>1, <3>7
  <2> QED BY <2>1
<1>4. \A k \in Nat : k \in T
  <2> HIDE DEF T
  <2> QED BY <1>2, <1>3, Induct, Zenon
<1> SUFFICES ASSUME NEW i \in 1 .. Len(q), NEW j \in 1 .. Len(q), i < j PROVE q[i] < q[j]
  BY DEF Ascending
<1>5. j - i - 1 \in Nat /\ i + (j - i - 1) + 1 = j BY <1>1
<1>6. j - i - 1 \in T BY <1>4, <1>5
<1>7. i + (j - i - 1) + 1 <= Len(q) BY <1>5
<1>8. q[i] < q[i + (j - i - 1) + 1] BY <1>6, <1>7
<1> QED BY <1>5, <1>8

\* The map a whole buffer holds.
LEMMA WholeMap ==
  ASSUME NEW buf \in Seq(u8), NEW mode, mode.strict = TRUE, DecodeMap(buf, mode).ok
  PROVE  /\ MAX_CBOR_DEPTH - 1 \in 0 .. MAX_CBOR_DEPTH
         /\ MapForm(buf, Levels(buf, mode)[MAX_CBOR_DEPTH - 1], 1, DecodeMap(buf, mode))
         /\ Cut(buf, 1, DecodeMap(buf, mode).pos) = buf
<1> DEFINE m == MAX_CBOR_DEPTH
           f == Levels(buf, mode)
           r == DecodeMap(buf, mode)
<1>1. r = f[m][1] /\ r.ok /\ r.pos = Len(buf) + 1 /\ r.val.t = "map" BY MapDecoded, ItemLevel
<1>2. 1 \in Positions(buf) BY ByteStrings8 DEF Positions
<1>3. m \in Nat /\ (\A pos \in Positions(buf) : ~ f[0][pos].ok)
      /\ \A n \in 1 .. m : \A pos \in Positions(buf) : f[n][pos].ok => ItemForm(buf, f[n - 1], pos, f[n][pos])
  BY LevelsRead, CborAssumption
<1> HIDE DEF m, f, r
<1>4. m # 0
  <2>1. f[m][1].ok BY <1>1
  <2> QED BY <1>2, <1>3, <2>1
<1>5. m \in 1 .. m /\ m - 1 \in 0 .. m BY <1>3, <1>4
<1>6. ItemForm(buf, f[m - 1], 1, r)
  <2>1. f[m][1].ok BY <1>1
  <2> QED BY <1>1, <1>2, <1>3, <1>5, <2>1
<1>7. ~ r.val.t = "array" /\ r.val.t \notin {"uint", "nint", "bytes", "text", "bool"} BY <1>1
<1>8. MapForm(buf, f[m - 1], 1, r) BY <1>6, <1>7, ItemType
<1>9. Cut(buf, 1, r.pos) = buf BY <1>1, CutWhole, ByteStrings8
<1> QED BY <1>5, <1>8, <1>9 DEF m, f, r

\* The strict reader gives a parser one map: the keys a rule allows, each once, ascend in
\* it, and the document the parser makes of it has the same bytes again.
LEMMA MapCanonical ==
  ASSUME NEW buf \in Seq(u8), NEW mode, mode.strict = TRUE, NEW r, r = DecodeMap(buf, mode), r.ok,
         NEW rules, DOMAIN rules \subseteq 1 .. 14, \A k \in DOMAIN rules : rules[k].t \in FlatTypes,
         check_strict_keys(rules, r.val.v),
         NEW d, d = Fields(r.val.v), \A k \in DOMAIN d : Fits(rules[k], d[k])
  PROVE  Document(rules, d) /\ WireOf(d) = buf
<1> DEFINE m == MAX_CBOR_DEPTH - 1
           f == Levels(buf, mode)[m]
           pairs == r.val.v
<1>1. m \in 0 .. MAX_CBOR_DEPTH /\ MapForm(buf, f, 1, r) /\ Cut(buf, 1, r.pos) = buf BY WholeMap
<1>2. PICK n \in Nat, p \in Seq(Bstr) : \E s :
        /\ n <= MAX_ENTRIES /\ n \in u64 /\ Len(p) = 2 * n
        /\ \A i \in 1 .. 2 * n : Inner(buf, f, s[i], p[i])
        /\ \A i \in 2 .. n : LexLess(p[2 * i - 3], p[2 * i - 1])
        /\ buf = put_uint(5, n) \o FlattenSeq(p)
        /\ r.val = [t |-> "map", v |-> [i \in 1 .. n |-> <<s[2 * i - 1].val, s[2 * i].val>>]]
  <2> HIDE DEF f
  <2> QED BY <1>1 DEF MapForm
<1>3. PICK s :
        /\ Len(p) = 2 * n
        /\ \A i \in 1 .. 2 * n : Inner(buf, f, s[i], p[i])
        /\ \A i \in 2 .. n : LexLess(p[2 * i - 3], p[2 * i - 1])
        /\ buf = put_uint(5, n) \o FlattenSeq(p)
        /\ r.val = [t |-> "map", v |-> [i \in 1 .. n |-> <<s[2 * i - 1].val, s[2 * i].val>>]]
  <2> HIDE DEF f
  <2> QED BY <1>2
<1>4. pairs = [i \in 1 .. n |-> <<s[2 * i - 1].val, s[2 * i].val>>]
  <2> DEFINE v == [i \in 1 .. n |-> <<s[2 * i - 1].val, s[2 * i].val>>]
  <2>1. r.val = [t |-> "map", v |-> v] BY <1>3
  <2> HIDE DEF v
  <2>2. r.val.v = v BY <2>1
  <2> QED BY <2>2 DEF v
<1> HIDE DEF pairs
<1> DEFINE q == [i \in 1 .. n |-> pairs[i][1].v]
<1>5. /\ DOMAIN pairs = 1 .. n
      /\ \A i \in 1 .. n : pairs[i][1] = s[2 * i - 1].val /\ pairs[i][2] = s[2 * i].val
  BY <1>4
<1>6. /\ \A i \in 1 .. n : pairs[i][1].t = "uint" /\ pairs[i][1].v \in DOMAIN rules
      /\ \A i, j \in 1 .. n : pairs[i][1].v = pairs[j][1].v => i = j
  BY <1>5 DEF check_strict_keys, pairs
<1>7. q \in Seq(1 .. 14) /\ Len(q) = n /\ \A i \in 1 .. n : q[i] = pairs[i][1].v /\ q[i] \in DOMAIN rules
  <2>1. \A i \in 1 .. n : pairs[i][1].v \in 1 .. 14 BY <1>6
  <2> QED BY <1>6, <2>1
<1>8. DOMAIN d = {q[i] : i \in 1 .. n} /\ \A i \in 1 .. n : d[q[i]] = pairs[i][2]
  <2>1. d = [k \in {pairs[i][1].v : i \in 1 .. n} |-> pairs[CHOOSE i \in 1 .. n : pairs[i][1].v = k][2]]
    BY <1>5 DEF Fields, pairs
  <2>2. {pairs[i][1].v : i \in 1 .. n} = {q[i] : i \in 1 .. n} BY <1>7
  <2>3. ASSUME NEW i \in 1 .. n PROVE d[q[i]] = pairs[i][2]
    <3> DEFINE j == CHOOSE j \in 1 .. n : pairs[j][1].v = q[i]
    <3>1. pairs[i][1].v = q[i] BY <1>7
    <3>2. j \in 1 .. n /\ pairs[j][1].v = q[i]
      <4> HIDE DEF q
      <4> QED BY <3>1
    <3> HIDE DEF j
    <3>3. j = i BY <1>6, <3>1, <3>2
    <3>4. q[i] \in {pairs[l][1].v : l \in 1 .. n} BY <3>1
    <3>5. d[q[i]] = pairs[j][2]
      <4> HIDE DEF q
      <4> QED BY <2>1, <3>4 DEF j
    <3> QED BY <3>3, <3>5
  <2> QED BY <2>1, <2>2, <2>3
<1> HIDE DEF q
\* Both halves of a pair are scalars.
<1>9. ASSUME NEW i \in 1 .. n
      PROVE  /\ 2 * i - 1 \in 1 .. 2 * n /\ 2 * i \in 1 .. 2 * n
             /\ p[2 * i - 1] = put_uint(0, q[i])
             /\ p[2 * i] = put_value(d[q[i]]) /\ Scalar(d[q[i]])
  <2>1. 2 * i - 1 \in 1 .. 2 * n /\ 2 * i \in 1 .. 2 * n OBVIOUS
  <2> DEFINE x == s[2 * i - 1]
             y == s[2 * i]
  <2>2. x.val.t = "uint" /\ x.val.v = q[i] /\ y.val = d[q[i]]
    <3>1. pairs[i][1] = x.val /\ pairs[i][2] = y.val BY <1>5
    <3>2. pairs[i][1].t = "uint" /\ q[i] = pairs[i][1].v /\ d[q[i]] = pairs[i][2] BY <1>6, <1>7, <1>8
    <3> HIDE DEF x, y
    <3> QED BY <3>1, <3>2
  <2>3. Inner(buf, f, x, p[2 * i - 1]) /\ Inner(buf, f, y, p[2 * i]) BY <1>3, <2>1
  <2>4. y.val.t \in FlatTypes
    <3>1. q[i] \in DOMAIN d /\ q[i] \in DOMAIN rules BY <1>7, <1>8
    <3>2. d[q[i]].t = rules[q[i]].t BY <3>1 DEF Fits
    <3> QED BY <2>2, <3>1, <3>2
  <2>5. x.val.t \in {"uint", "nint", "bytes", "text", "bool"}
        /\ y.val.t \in {"uint", "nint", "bytes", "text", "bool"}
    BY <2>2, <2>4 DEF FlatTypes
  <2> HIDE DEF x, y
  <2>6. p[2 * i - 1] = put_value(x.val) /\ p[2 * i] = put_value(y.val) /\ Scalar(y.val)
    <3> DEFINE u == p[2 * i - 1]
               w == p[2 * i]
    <3>1. Inner(buf, Levels(buf, mode)[m], x, u) /\ Inner(buf, Levels(buf, mode)[m], y, w) BY <2>3
    <3> HIDE DEF m, u, w
    <3>2. u = put_value(x.val) /\ Scalar(x.val) BY <1>1, <2>5, <3>1, InnerScalar
    <3>3. w = put_value(y.val) /\ Scalar(y.val) BY <1>1, <2>5, <3>1, InnerScalar
    <3> QED BY <3>2, <3>3 DEF u, w
  <2>7. put_value(x.val) = put_uint(0, q[i]) BY <2>2 DEF put_value
  <2> QED BY <2>1, <2>2, <2>6, <2>7
<1>10. Ascending(q)
  <2>1. ASSUME NEW i \in 2 .. n PROVE q[i - 1] < q[i]
    <3>1. i \in 1 .. n /\ i - 1 \in 1 .. n /\ 2 * (i - 1) - 1 = 2 * i - 3 OBVIOUS
    <3>2. q[i] \in 1 .. 14 /\ q[i - 1] \in 1 .. 14 BY <1>7, <3>1, ElementOfSeq
    <3>3. p[2 * i - 3] = <<q[i - 1]>>
      <4>1. p[2 * (i - 1) - 1] = put_uint(0, q[i - 1]) BY <1>9, <3>1
      <4> QED BY <3>1, <3>2, <4>1, SmallKey
    <3>4. p[2 * i - 1] = <<q[i]>> BY <1>9, <3>1, <3>2, SmallKey
    <3>5. LexLess(<<q[i - 1]>>, <<q[i]>>)
      <4>1. LexLess(p[2 * i - 3], p[2 * i - 1]) BY <1>3
      <4> QED BY <3>3, <3>4, <4>1
    <3>6. q[i] \in Nat /\ q[i - 1] \in Nat
      <4>1. \A x \in 1 .. 14 : x \in Nat OBVIOUS
      <4> QED BY <3>2, <4>1, Zenon
    <3> QED BY <3>5, <3>6, LexOne
  <2> QED BY <1>7, <2>1, Adjacent
<1>11. KeySeq(DOMAIN d) = q
  <2>1. KeySeq({q[i] : i \in 1 .. Len(q)}) = q BY <1>7, <1>10, KeySeqIs
  <2> QED BY <1>7, <1>8, <2>1
<1>12. Document(rules, d)
  <2>1. \A k \in DOMAIN d : k \in DOMAIN rules /\ Scalar(d[k]) BY <1>7, <1>8, <1>9
  <2> QED BY <2>1 DEF Document
<1> DEFINE b == [i \in 1 .. n |-> put_uint(0, q[i]) \o put_value(d[q[i]])]
<1>13. b \in Seq(Bstr) /\ Len(b) = n /\ \A i \in 1 .. n : b[i] = p[2 * i - 1] \o p[2 * i]
  <2>1. ASSUME NEW i \in 1 .. n PROVE b[i] = p[2 * i - 1] \o p[2 * i] /\ b[i] \in Bstr
    <3>1. b[i] = p[2 * i - 1] \o p[2 * i] BY <1>9
    <3>2. p[2 * i - 1] \in Bstr /\ p[2 * i] \in Bstr BY <1>3, <1>9, ElementOfSeq
    <3> HIDE DEF b
    <3> QED BY <3>1, <3>2, Joined
  <2>2. b \in [1 .. n -> Bstr] BY <2>1
  <2> HIDE DEF b
  <2>3. b \in Seq(Bstr) /\ Len(b) = n BY <2>2
  <2> QED BY <2>1, <2>3
<1>14. FlattenSeq(p) = FlattenSeq(b)
  <2> HIDE DEF b
  <2> QED BY <1>3, <1>13, FlattenPairs
<1>15. WireOf(d) = put_uint(5, n) \o FlattenSeq(b)
  <2>1. DOMAIN q = 1 .. n BY <1>7
  <2> QED BY <1>7, <1>11, <2>1 DEF WireOf, PutMap
<1> QED BY <1>3, <1>12, <1>14, <1>15

\* What is asked of the keys of a document.
KeyRules(rules) ==
    DOMAIN rules \subseteq 1 .. 14 /\ \A k \in DOMAIN rules : rules[k].t \in FlatTypes

\* No rule asks for an array or a map.
LEMMA RuleTypes ==
  /\ AnyUint.t \in FlatTypes /\ AnyText.t \in FlatTypes /\ AnyBytes.t \in FlatTypes
  /\ Hash32.t \in FlatTypes /\ Signature.t \in FlatTypes
  /\ \A n : Exactly(n).t \in FlatTypes /\ AtMost(n).t \in FlatTypes
  /\ \A s : Rule("uint", s).t \in FlatTypes /\ Rule("bool", s).t \in FlatTypes
BY DEF AnyUint, AnyText, AnyBytes, Hash32, Signature, Exactly, AtMost, Rule, FlatTypes

\* A list of rules numbers its keys from 1.
LEMMA ListedKeys ==
  ASSUME NEW n \in 1 .. 14, NEW s, DOMAIN s = 1 .. n, \A k \in 1 .. n : s[k].t \in FlatTypes
  PROVE  KeyRules(s)
BY DEF KeyRules

\* So it is with key 13, the signature.
LEMMA SignedKeyRules ==
  ASSUME NEW s, KeyRules(s)
  PROVE  KeyRules(Signed13(s)) /\ DOMAIN Signed13(s) = DOMAIN s \cup {13} /\ Signed13(s)[13] = Signature
<1>1. Signed13(s) = [k \in DOMAIN s \cup {13} |-> IF k = 13 THEN Signature ELSE s[k]] BY DEF Signed13
<1> DEFINE r == Signed13(s)
<1>2. DOMAIN r = DOMAIN s \cup {13} /\ \A k \in DOMAIN r : r[k] = IF k = 13 THEN Signature ELSE s[k]
  BY <1>1
<1> HIDE DEF r
<1>3. \A k \in DOMAIN r : r[k].t \in FlatTypes BY <1>2, RuleTypes DEF KeyRules
<1>4. DOMAIN r \subseteq 1 .. 14 BY <1>2 DEF KeyRules
<1>5. 13 \in DOMAIN r /\ r[13] = Signature BY <1>2
<1> QED BY <1>2, <1>3, <1>4, <1>5 DEF KeyRules, r

\* The keys of a freshness reply.
LEMMA FreshnessRules == KeyRules(FreshnessKeys) /\ DOMAIN FreshnessKeys = 1 .. 9 \cup {13} /\ FreshnessKeys[13] = Signature
<1> DEFINE s == <<AnyUint, AnyUint, AnyText, AnyUint, AnyUint, Hash32, Hash32, AnyUint, Hash32>>
<1>1. KeyRules(s) /\ DOMAIN s = 1 .. 9
  <2>1. \A k \in 1 .. 9 : s[k].t \in FlatTypes BY RuleTypes
  <2>2. DOMAIN s = 1 .. 9 /\ 9 \in 1 .. 14 OBVIOUS
  <2> HIDE DEF s
  <2> QED BY <2>1, <2>2, ListedKeys
<1> HIDE DEF s
<1> QED BY <1>1, SignedKeyRules DEF FreshnessKeys, s

\* The keys of a marks reply.
LEMMA MarksRules == KeyRules(MarksKeys) /\ DOMAIN MarksKeys = 1 .. 6 \cup {13} /\ MarksKeys[13] = Signature
<1> DEFINE s == <<AnyUint, AnyUint, AnyText, AnyUint, Hash32, AnyBytes>>
<1>1. KeyRules(s) /\ DOMAIN s = 1 .. 6
  <2>1. \A k \in 1 .. 6 : s[k].t \in FlatTypes BY RuleTypes
  <2>2. DOMAIN s = 1 .. 6 /\ 6 \in 1 .. 14 OBVIOUS
  <2> HIDE DEF s
  <2> QED BY <2>1, <2>2, ListedKeys
<1> HIDE DEF s
<1> QED BY <1>1, SignedKeyRules DEF MarksKeys, s

\* The keys of a commit ack.
LEMMA AckRules == KeyRules(AckKeys) /\ DOMAIN AckKeys = 1 .. 8 \cup {13} /\ AckKeys[13] = Signature
<1> DEFINE s == <<AnyUint, AnyUint, AnyText, AnyUint, AnyUint, Hash32, Hash32,
             AtMost(MAX_REQUEST_ID_LEN)>>
<1>1. KeyRules(s) /\ DOMAIN s = 1 .. 8
  <2>1. \A k \in 1 .. 8 : s[k].t \in FlatTypes BY RuleTypes
  <2>2. DOMAIN s = 1 .. 8 /\ 8 \in 1 .. 14 OBVIOUS
  <2> HIDE DEF s
  <2> QED BY <2>1, <2>2, ListedKeys
<1> HIDE DEF s
<1> QED BY <1>1, SignedKeyRules DEF AckKeys, s

\* The keys of a capability.
LEMMA CapabilityRules == KeyRules(CapabilityKeys) /\ DOMAIN CapabilityKeys = 1 .. 14 /\ CapabilityKeys[14] = Signature
<1> DEFINE s == CapabilityKeys
<1>1. \A k \in 1 .. 14 : s[k].t \in FlatTypes BY RuleTypes DEF CapabilityKeys
<1>2. DOMAIN s = 1 .. 14 /\ 14 \in 1 .. 14 /\ s[14] = Signature BY DEF CapabilityKeys
<1> HIDE DEF s
<1>3. KeyRules(s) BY <1>1, <1>2, ListedKeys
<1> QED BY <1>2, <1>3 DEF s

\* The key of an M1.
LEMMA M1Rules == KeyRules(M1Keys) /\ DOMAIN M1Keys = 1 .. 1
<1> DEFINE s == M1Keys
<1>1. \A k \in 1 .. 1 : s[k].t \in FlatTypes BY RuleTypes DEF M1Keys
<1>2. DOMAIN s = 1 .. 1 /\ 1 \in 1 .. 14 BY DEF M1Keys
<1> HIDE DEF s
<1>3. KeyRules(s) BY <1>1, <1>2, ListedKeys
<1> QED BY <1>2, <1>3 DEF s

\* The keys of an M2.
LEMMA M2Rules == KeyRules(M2Keys) /\ DOMAIN M2Keys = 1 .. 2
<1> DEFINE s == M2Keys
<1>1. \A k \in 1 .. 2 : s[k].t \in FlatTypes BY RuleTypes DEF M2Keys
<1>2. DOMAIN s = 1 .. 2 /\ 2 \in 1 .. 14 BY DEF M2Keys
<1> HIDE DEF s
<1>3. KeyRules(s) BY <1>1, <1>2, ListedKeys
<1> QED BY <1>2, <1>3 DEF s

\* The keys of an M3.
LEMMA M3Rules == KeyRules(M3Keys) /\ DOMAIN M3Keys = 1 .. 6 /\ M3Keys[5] = Signature
<1> DEFINE s == M3Keys
<1>1. \A k \in 1 .. 6 : s[k].t \in FlatTypes BY RuleTypes DEF M3Keys
<1>2. DOMAIN s = 1 .. 6 /\ 6 \in 1 .. 14 /\ s[5] = Signature BY DEF M3Keys
<1> HIDE DEF s
<1>3. KeyRules(s) BY <1>1, <1>2, ListedKeys
<1> QED BY <1>2, <1>3 DEF s

\* The key of an M4.
LEMMA M4Rules == KeyRules(M4Keys) /\ DOMAIN M4Keys = 1 .. 1
<1> DEFINE s == M4Keys
<1>1. \A k \in 1 .. 1 : s[k].t \in FlatTypes BY RuleTypes DEF M4Keys
<1>2. DOMAIN s = 1 .. 1 /\ 1 \in 1 .. 14 BY DEF M4Keys
<1> HIDE DEF s
<1>3. KeyRules(s) BY <1>1, <1>2, ListedKeys
<1> QED BY <1>2, <1>3 DEF s

\* The keys of a configuration.
LEMMA ConfigRules == KeyRules(ConfigKeys) /\ DOMAIN ConfigKeys = 1 .. 7
<1> DEFINE s == ConfigKeys
<1>1. \A k \in 1 .. 7 : s[k].t \in FlatTypes BY RuleTypes DEF ConfigKeys
<1>2. DOMAIN s = 1 .. 7 /\ 7 \in 1 .. 14 BY DEF ConfigKeys
<1> HIDE DEF s
<1>3. KeyRules(s) BY <1>1, <1>2, ListedKeys
<1> QED BY <1>2, <1>3 DEF s

\* Keys of every kind but the requests; the signature, where there is one, is among them.
LEMMA EveryKey ==
  \A kind \in DOMAIN Keys \ Requests :
     /\ KeyRules(Keys[kind]) /\ ReaderOf(kind).strict = TRUE
     /\ kind \in SignedKinds =>
           /\ SigKey(kind) \in DOMAIN Keys[kind] \ OptionalKeys(kind)
           /\ Keys[kind][SigKey(kind)] = Signature
     /\ kind = "m3" => DOMAIN Keys[kind] = 1 .. 6
<1> SUFFICES ASSUME NEW kind \in DOMAIN Keys \ Requests
             PROVE  /\ KeyRules(Keys[kind]) /\ ReaderOf(kind).strict = TRUE
                    /\ kind \in SignedKinds =>
                          /\ SigKey(kind) \in DOMAIN Keys[kind] \ OptionalKeys(kind)
                          /\ Keys[kind][SigKey(kind)] = Signature
                    /\ kind = "m3" => DOMAIN Keys[kind] = 1 .. 6
  OBVIOUS
<1>1. kind \in {"freshness", "marks", "ack", "capability", "m1", "m2", "m3", "m4", "config"}
  BY DEF Keys, Requests
<1>2. ReaderOf(kind).strict = TRUE BY <1>1 DEF ReaderOf, Strict, Requests
<1>3. CASE kind = "freshness"
  <2>1. Keys[kind] = FreshnessKeys BY <1>3 DEF Keys
  <2>2. SigKey(kind) = 13 /\ 13 \notin OptionalKeys(kind) BY <1>3 DEF SigKey, OptionalKeys
  <2>3. 13 \in DOMAIN FreshnessKeys BY FreshnessRules
  <2> QED BY <1>2, <1>3, <2>1, <2>2, <2>3, FreshnessRules
<1>4. CASE kind = "marks"
  <2>1. Keys[kind] = MarksKeys BY <1>4 DEF Keys
  <2>2. SigKey(kind) = 13 /\ 13 \notin OptionalKeys(kind) BY <1>4 DEF SigKey, OptionalKeys
  <2>3. 13 \in DOMAIN MarksKeys BY MarksRules
  <2> QED BY <1>2, <1>4, <2>1, <2>2, <2>3, MarksRules
<1>5. CASE kind = "ack"
  <2>1. Keys[kind] = AckKeys BY <1>5 DEF Keys
  <2>2. SigKey(kind) = 13 /\ 13 \notin OptionalKeys(kind) BY <1>5 DEF SigKey, OptionalKeys
  <2>3. 13 \in DOMAIN AckKeys BY AckRules
  <2> QED BY <1>2, <1>5, <2>1, <2>2, <2>3, AckRules
<1>6. CASE kind = "capability"
  <2>1. Keys[kind] = CapabilityKeys BY <1>6 DEF Keys
  <2>2. SigKey(kind) = 14 /\ 14 \notin OptionalKeys(kind) BY <1>6 DEF SigKey, OptionalKeys
  <2>3. 14 \in DOMAIN CapabilityKeys BY CapabilityRules
  <2> QED BY <1>2, <1>6, <2>1, <2>2, <2>3, CapabilityRules
<1>7. CASE kind = "m1"
  <2>1. Keys[kind] = M1Keys BY <1>7 DEF Keys
  <2>2. kind \notin SignedKinds BY <1>7 DEF SignedKinds
  <2> QED BY <1>2, <1>7, <2>1, <2>2, M1Rules
<1>8. CASE kind = "m2"
  <2>1. Keys[kind] = M2Keys BY <1>8 DEF Keys
  <2>2. kind \notin SignedKinds BY <1>8 DEF SignedKinds
  <2> QED BY <1>2, <1>8, <2>1, <2>2, M2Rules
<1>9. CASE kind = "m3"
  <2>1. Keys[kind] = M3Keys BY <1>9 DEF Keys
  <2>2. SigKey(kind) = 5 /\ 5 \notin OptionalKeys(kind) BY <1>9 DEF SigKey, OptionalKeys
  <2>3. 5 \in DOMAIN M3Keys BY M3Rules
  <2> QED BY <1>2, <1>9, <2>1, <2>2, <2>3, M3Rules
<1>10. CASE kind = "m4"
  <2>1. Keys[kind] = M4Keys BY <1>10 DEF Keys
  <2>2. kind \notin SignedKinds BY <1>10 DEF SignedKinds
  <2> QED BY <1>2, <1>10, <2>1, <2>2, M4Rules
<1>11. CASE kind = "config"
  <2>1. Keys[kind] = ConfigKeys BY <1>11 DEF Keys
  <2>2. kind \notin SignedKinds BY <1>11 DEF SignedKinds
  <2> QED BY <1>2, <1>11, <2>1, <2>2, ConfigRules
<1> QED BY <1>1, <1>3, <1>4, <1>5, <1>6, <1>7, <1>8, <1>9, <1>10, <1>11
-----------------------------------------------------------------------------
(* Documents read by position *)

\* What a parser by keys reads has the same bytes again, whatever kind it is.
LEMMA MapDocument ==
  ASSUME NEW buf \in Seq(u8), NEW kind \in DOMAIN Keys \ Requests,
         NEW d \in ParseMap(kind, Keys[kind], buf)
  PROVE  /\ Document(Keys[kind], d) /\ WireOf(d) = buf
         /\ DOMAIN Keys[kind] \ OptionalKeys(kind) \subseteq DOMAIN d
         /\ \A k \in DOMAIN d : Fits(Keys[kind][k], d[k])
<1> DEFINE rules == Keys[kind]
           mode == ReaderOf(kind)
           r == DecodeMap(buf, mode)
<1>1. /\ r.ok /\ check_strict_keys(rules, r.val.v) /\ d = Fields(r.val.v)
      /\ DOMAIN rules \ OptionalKeys(kind) \subseteq DOMAIN d
      /\ \A k \in DOMAIN d : Fits(rules[k], d[k])
  BY DEF ParseMap
<1>2. KeyRules(rules) /\ ReaderOf(kind).strict = TRUE BY EveryKey
<1>3. DOMAIN rules \subseteq 1 .. 14 /\ \A k \in DOMAIN rules : rules[k].t \in FlatTypes
  BY <1>2 DEF KeyRules
<1>4. r = DecodeMap(buf, mode) /\ mode.strict = TRUE BY <1>2
<1> HIDE DEF rules, mode, r
<1>5. Document(rules, d) /\ WireOf(d) = buf
  BY <1>1, <1>3, <1>4, MapCanonical
<1> QED BY <1>1, <1>5 DEF rules

\* A string, then twice as many, joined two by two.
LEMMA FlattenOdd ==
  ASSUME NEW n \in Nat, NEW p \in Seq(Bstr), Len(p) = 2 * n + 1, NEW b \in Seq(Bstr), Len(b) = n,
         \A i \in 1 .. n : b[i] = p[2 * i] \o p[2 * i + 1]
  PROVE  FlattenSeq(p) = p[1] \o FlattenSeq(b)
<1>1. PICK f : Joins(p, f) /\ FlattenSeq(p) = f[Len(p)] BY Flattened
<1>2. PICK g : Joins(b, g) /\ FlattenSeq(b) = g[Len(b)] BY Flattened
<1> DEFINE m == 2 * n + 1
           a == p[1]
<1>3. /\ f \in [0 .. m -> Bstr] /\ f[0] = << >> /\ \A k \in 1 .. m : f[k] = f[k - 1] \o p[k]
      /\ g \in [0 .. n -> Bstr] /\ g[0] = << >> /\ \A k \in 1 .. n : g[k] = g[k - 1] \o b[k]
  BY <1>1, <1>2 DEF Joins
<1>4. (\A k \in 1 .. m : p[k] \in Bstr) /\ a \in Bstr
  <2>1. \A k \in 1 .. m : p[k] \in Bstr BY ElementOfSeq
  <2>2. 1 \in 1 .. m OBVIOUS
  <2> QED BY <2>1, <2>2
<1> DEFINE T == {k \in Nat : k <= n => f[2 * k + 1] = a \o g[k]}
<1>5. 0 \in T
  <2>1. 1 \in 1 .. m /\ 1 - 1 = 0 /\ 2 * 0 + 1 = 1 OBVIOUS
  <2> HIDE DEF a, m
  <2>2. f[1] = << >> \o p[1]
    <3>1. f[1] = f[1 - 1] \o p[1] BY <1>3, <2>1, Zenon
    <3> QED BY <1>3, <2>1, <3>1
  <2>3. << >> \o a = a /\ a \o << >> = a BY <1>4 DEF Bstr
  <2>4. f[1] = a \o g[0] BY <1>3, <2>2, <2>3 DEF a
  <2> QED BY <2>1, <2>4
<1>6. ASSUME NEW k \in Nat, k \in T PROVE k + 1 \in T
  <2>1. ASSUME k + 1 <= n PROVE f[2 * (k + 1) + 1] = a \o g[k + 1]
    <3> DEFINE h == 2 * k + 1
               i == 2 * k + 2
               j == 2 * k + 3
    <3>1. /\ i \in 1 .. m /\ j \in 1 .. m /\ i - 1 = h /\ j - 1 = i /\ h \in 0 .. m
          /\ 2 * (k + 1) = i /\ 2 * (k + 1) + 1 = j /\ k + 1 \in 1 .. n /\ (k + 1) - 1 = k /\ k <= n
          /\ k \in 0 .. n
      BY <2>1
    <3>a. f[h] = a \o g[k] BY <1>6, <3>1
    <3> HIDE DEF h, i, j, m, a
    <3>2. f[i] = f[h] \o p[i]
      <4>1. f[i] = f[i - 1] \o p[i] BY <1>3, <3>1, Zenon
      <4> QED BY <3>1, <4>1
    <3>3. f[j] = f[i] \o p[j]
      <4>1. f[j] = f[j - 1] \o p[j] BY <1>3, <3>1, Zenon
      <4> QED BY <3>1, <4>1
    <3>4. g[k + 1] = g[k] \o b[k + 1]
      <4>1. g[k + 1] = g[(k + 1) - 1] \o b[k + 1] BY <1>3, <3>1, Zenon
      <4> QED BY <3>1, <4>1
    <3>5. b[k + 1] = p[i] \o p[j]
      <4>1. b[k + 1] = p[2 * (k + 1)] \o p[2 * (k + 1) + 1] BY <3>1, Zenon
      <4> QED BY <3>1, <4>1
    <3>7. g[k] \in Bstr /\ p[i] \in Bstr /\ p[j] \in Bstr BY <1>3, <1>4, <3>1
    <3> DEFINE u == g[k]
               v == p[i]
               w == p[j]
    <3>8. f[j] = ((a \o u) \o v) \o w BY <3>2, <3>3, <3>a
    <3>9. g[k + 1] = u \o (v \o w) BY <3>4, <3>5
    <3>10. ((a \o u) \o v) \o w = a \o (u \o (v \o w))
      <4>1. u \in Bstr /\ v \in Bstr /\ w \in Bstr BY <3>7
      <4> HIDE DEF u, v, w
      <4>2. a \o u \in Bstr /\ v \o w \in Bstr BY <1>4, <4>1, Joined
      <4>3. ((a \o u) \o v) \o w = (a \o u) \o (v \o w) BY <4>1, <4>2, Assoc
      <4>4. (a \o u) \o (v \o w) = a \o (u \o (v \o w)) BY <1>4, <4>1, <4>2, Assoc
      <4> QED BY <4>3, <4>4
    <3>11. f[j] = a \o g[k + 1] BY <3>8, <3>9, <3>10
    <3> QED BY <3>1, <3>11
  <2>2. k + 1 \in Nat OBVIOUS
  <2> HIDE DEF a
  <2> QED BY <2>1, <2>2
<1>7. \A k \in Nat : k \in T
  <2> HIDE DEF T
  <2> QED BY <1>5, <1>6, Induct, Zenon
<1>8. f[2 * n + 1] = a \o g[n]
  <2>1. n \in T
    <3> HIDE DEF T
    <3> QED BY <1>7
  <2> HIDE DEF a
  <2> QED BY <2>1
<1> QED BY <1>1, <1>2, <1>8

\* What a positional decoder reads for an item of its list, and the bytes it has.
TypedItem(t, args, x, s) ==
    \/ /\ t \in {"uint", "array", "map"} /\ x.v \in u64 \cap args /\ x = [t |-> t, v |-> x.v]
       /\ s = put_uint(Major[t], x.v)
    \/ /\ t \in {"bytes", "text"} /\ x.t = t /\ Scalar(x) /\ Len(x.v) \in args
       /\ s = put_value(x)

\* What a typed reader takes is the one encoding of its item.  (typed_head, uint, bstr,
\* bstr_exact, text)
LEMMA TypedReads ==
  ASSUME NEW buf \in Seq(u8), NEW t \in {"uint", "bytes", "text", "array", "map"}, NEW args,
         NEW pos \in Positions(buf), typed(buf, t, args)[pos].ok
  PROVE  LET r == typed(buf, t, args)[pos]
         IN  /\ r.pos \in Positions(buf) /\ r.pos > pos
             /\ TypedItem(t, args, r.val, Cut(buf, pos, r.pos))
<1> DEFINE h == head(buf, Strict(MAX_STR_LEN))[pos]
           r == typed(buf, t, args)[pos]
           n == h.val.arg
           m == h.val.major
<1>1. r = AfterTyped(buf, t, args, h, n) BY DEF typed
<1>2. r.ok OBVIOUS
<1>3. h.ok => HeadForm(buf, pos, h)
  <2>1. Strict(MAX_STR_LEN).strict = TRUE BY DEF Strict
  <2> QED BY <2>1, HeadReads
<1> HIDE DEF r, h
<1>4. h.ok /\ m = Major[t] /\ n \in args
      /\ r = CASE t \in {"uint", "array", "map"} -> Ok(h.pos, [t |-> t, v |-> n])
               [] t = "bytes" -> take(buf, h.pos, n, t)
               [] t = "text" -> TextOnly(take(buf, h.pos, n, t))
  <2>1. r # Err BY <1>2 DEF Err
  <2> HIDE DEF m, n
  <2> QED BY <1>1, <2>1 DEF AfterTyped, m, n
<1>5. /\ m \in 0 .. 7 /\ n \in u64 /\ h.pos \in Positions(buf) /\ h.pos > pos
      /\ Cut(buf, pos, h.pos) = put_uint(m, n) /\ HeadForm(buf, pos, h)
  BY <1>3, <1>4 DEF HeadForm
<1>6. CASE t \in {"uint", "array", "map"}
  <2>1. r = Ok(h.pos, [t |-> t, v |-> n]) BY <1>4, <1>6
  <2>2. r.pos = h.pos /\ r.val = [t |-> t, v |-> n] /\ r.val.v = n BY <2>1 DEF Ok
  <2>3. TypedItem(t, args, r.val, Cut(buf, pos, r.pos))
    <3> HIDE DEF m, n
    <3> QED BY <1>4, <1>5, <1>6, <2>2 DEF TypedItem
  <2> QED BY <1>5, <2>2, <2>3 DEF r
<1>7. CASE t \in {"bytes", "text"}
  <2>1. r = take(buf, h.pos, n, t)
    <3>1. CASE t = "bytes" BY <1>4, <3>1
    <3>2. CASE t = "text"
      <4>1. r = TextOnly(take(buf, h.pos, n, t)) BY <1>4, <3>2
      <4>2. r # Err BY <1>2 DEF Err
      <4> QED BY <4>1, <4>2 DEF TextOnly
    <3> QED BY <1>7, <3>1, <3>2
  <2>2. m = (IF t = "bytes" THEN 2 ELSE 3) BY <1>4, <1>7 DEF Major
  <2>3. n \in Nat
    <3> HIDE DEF n
    <3> QED BY <1>5, Range8
  <2>4. ItemForm(buf, << >>, pos, r)
    <3>1. CASE t = "bytes"
      <4>1. h.val.major = 2 /\ r = take(buf, h.pos, h.val.arg, "bytes") BY <2>1, <2>2, <3>1
      <4> QED BY <1>2, <1>5, <2>3, <4>1, ScalarItem
    <3>2. CASE t = "text"
      <4>1. h.val.major = 3 /\ r = take(buf, h.pos, h.val.arg, "text") BY <2>1, <2>2, <3>2
      <4> QED BY <1>2, <1>5, <2>3, <4>1, ScalarItem
    <3> QED BY <1>7, <3>1, <3>2
  <2>5. r.val = [t |-> t, v |-> Cut(buf, h.pos, h.pos + n)] /\ Len(Cut(buf, h.pos, h.pos + n)) = n
    <3>1. take(buf, h.pos, n, t).ok BY <1>2, <2>1
    <3> HIDE DEF n
    <3> QED BY <1>5, <2>1, <2>3, <3>1, TakeForm
  <2>6. r.val.t = t /\ Len(r.val.v) = n BY <2>5
  <2>7. Cut(buf, pos, r.pos) = put_value(r.val) /\ Scalar(r.val)
    <3>1. ~ r.val.t = "array" /\ ~ r.val.t = "map" BY <1>7, <2>6
    <3> QED BY <2>4, <3>1, ItemType
  <2>8. TypedItem(t, args, r.val, Cut(buf, pos, r.pos))
    <3> HIDE DEF n
    <3> QED BY <1>4, <1>7, <2>6, <2>7 DEF TypedItem, n
  <2>9. r.pos \in Positions(buf) /\ r.pos > pos BY <2>4 DEF ItemForm
  <2> QED BY <2>8, <2>9 DEF r
<1> QED BY <1>6, <1>7

\* A positional decoder's results after each item of its list.
ListRead(buf, list, pos) ==
    LET read[n \in 0 .. Len(list)] ==
          IF n = 0 THEN Ok(pos, << >>) ELSE NextField(buf, read[n - 1], list[n])
    IN  read

\* A list of typed items is read one after the other.
LEMMA TypedList ==
  \A buf, list : \A pos \in Positions(buf) : typed_list(buf, list)[pos] = ListRead(buf, list, pos)[Len(list)]
BY DEF typed_list, ListRead

\* One more item of the list.
LEMMA ListStep ==
  ASSUME NEW buf, NEW list, NEW pos, Len(list) \in Nat
  PROVE  /\ ListRead(buf, list, pos)[0] = Ok(pos, << >>)
         /\ \A n \in 1 .. Len(list) :
               ListRead(buf, list, pos)[n] = NextField(buf, ListRead(buf, list, pos)[n - 1], list[n])
<1> DEFINE m == Len(list)
           seed == Ok(pos, << >>)
           F(n, r) == NextField(buf, r, list[n])
           Is(k, f) == f = [n \in 0 .. k |-> IF n = 0 THEN seed ELSE F(n, f[n - 1])]
           T == {k \in Nat : \E f : Is(k, f)}
           read == ListRead(buf, list, pos)
<1>1. m \in Nat OBVIOUS
<1>2. read = CHOOSE f : Is(m, f) BY DEF ListRead
<1> HIDE DEF seed, F, m, read
<1>3. 0 \in T
  <2> DEFINE f == [n \in 0 .. 0 |-> seed]
  <2>1. Is(0, f) OBVIOUS
  <2> QED BY <2>1
<1>4. ASSUME NEW k \in Nat, k \in T PROVE k + 1 \in T
  <2>1. PICK f : Is(k, f) BY <1>4
  <2> DEFINE g == [n \in 0 .. k + 1 |-> IF n = k + 1 THEN F(n, f[k]) ELSE f[n]]
  <2>2. ASSUME NEW n \in 0 .. k + 1 PROVE g[n] = IF n = 0 THEN seed ELSE F(n, g[n - 1])
    <3>1. CASE n = k + 1
      <4>1. n # 0 /\ n - 1 = k /\ g[k] = f[k] BY <3>1
      <4> QED BY <3>1, <4>1
    <3>2. CASE n # k + 1
      <4>1. n \in 0 .. k /\ g[n] = f[n] BY <3>2
      <4>2. n # 0 => n - 1 \in 0 .. k + 1 /\ n - 1 # k + 1 /\ g[n - 1] = f[n - 1] BY <4>1
      <4>3. f[n] = IF n = 0 THEN seed ELSE F(n, f[n - 1]) BY <2>1, <4>1
      <4> QED BY <4>1, <4>2, <4>3
    <3> QED BY <3>1, <3>2
  <2>3. Is(k + 1, g) BY <2>2
  <2>4. \E h : Is(k + 1, h)
    <3> HIDE DEF Is, g
    <3> QED BY <2>3
  <2> QED BY <2>4
<1>5. \A k \in Nat : k \in T
  <2> HIDE DEF T
  <2> QED BY <1>3, <1>4, Induct, Zenon
<1>6. \E f : Is(m, f) BY <1>1, <1>5
<1>7. Is(m, read)
  <2> HIDE DEF Is
  <2> QED BY <1>2, <1>6, Zenon
<1>8. read[0] = seed /\ \A n \in 1 .. m : read[n] = F(n, read[n - 1])
  <2>1. \A n \in 0 .. m : read[n] = IF n = 0 THEN seed ELSE F(n, read[n - 1]) BY <1>7
  <2> QED BY <1>1, <2>1
<1> QED BY <1>8 DEF read, seed, F, m

\* A list of items, no two with a name in common.
ItemList(list) ==
    /\ Len(list) \in Nat /\ \A i \in 1 .. Len(list) : list[i][2] \in {"uint", "bytes", "text", "array", "map"}
    /\ \A i, j \in 1 .. Len(list) : i # j => ToSet(list[i][1]) \cap ToSet(list[j][1]) = {}

\* Its first k items read, their values v and their bytes p.
ListForm(buf, list, pos, k, r, v, p) ==
    /\ r.pos \in Positions(buf) /\ r.pos >= pos
    /\ p \in Seq(Bstr) /\ Len(p) = k /\ Cut(buf, pos, r.pos) = FlattenSeq(p)
    /\ \A i \in 1 .. k : TypedItem(list[i][2], list[i][3], v[i], p[i])
    /\ DOMAIN r.val = UNION {ToSet(list[i][1]) : i \in 1 .. k}
    /\ \A i \in 1 .. k : \A f \in ToSet(list[i][1]) : r.val[f] = v[i]

\* The items of a list are next to each other, each the one encoding of what it says.
LEMMA ListReads ==
  ASSUME NEW buf \in Seq(u8), NEW list, ItemList(list), NEW pos \in Positions(buf)
  PROVE  \A k \in 0 .. Len(list) : ListRead(buf, list, pos)[k].ok =>
            \E v, p : ListForm(buf, list, pos, k, ListRead(buf, list, pos)[k], v, p)
<1> DEFINE m == Len(list)
           read == ListRead(buf, list, pos)
           Good(r, k) == \E v, p : ListForm(buf, list, pos, k, r, v, p)
           T == {k \in Nat : k <= m /\ read[k].ok => Good(read[k], k)}
<1>1. /\ read[0] = Ok(pos, << >>)
      /\ \A n \in 1 .. m : read[n] = NextField(buf, read[n - 1], list[n])
  BY ListStep DEF ItemList
<1>2. m \in Nat BY DEF ItemList
<1>3. pos \in Nat \ {0} /\ pos <= Len(buf) + 1 /\ Len(buf) \in Nat BY ByteStrings8 DEF Positions
<1>a. buf \in Bstr BY ByteStrings8
<1> HIDE DEF m, read
<1>4. 0 \in T
  <2>1. read[0].pos = pos /\ read[0].val = << >> BY <1>1 DEF Ok
  <2>2. Cut(buf, pos, pos) = << >> BY <1>3 DEF Cut
  <2>3. FlattenSeq(<< >>) = << >> BY DEF FlattenSeq
  <2>4. ListForm(buf, list, pos, 0, read[0], << >>, << >>)
    BY <1>3, <2>1, <2>2, <2>3 DEF ListForm
  <2>5. Good(read[0], 0) BY <2>4
  <2> QED BY <2>5
<1>5. ASSUME NEW k \in Nat, k \in T PROVE k + 1 \in T
  <2>1. ASSUME k + 1 <= m, read[k + 1].ok PROVE Good(read[k + 1], k + 1)
    <3> DEFINE r == read[k]
               it == list[k + 1]
               x == typed(buf, it[2], it[3])[r.pos]
               name == ToSet(it[1])
               s == Cut(buf, r.pos, x.pos)
               t == read[k + 1]
               val == [f \in DOMAIN r.val \cup name |-> IF f \in name THEN x.val ELSE r.val[f]]
    <3>1. t = AddField(r, x, it[1])
      <4>1. k + 1 \in 1 .. m /\ (k + 1) - 1 = k BY <1>2, <2>1
      <4>2. read[k + 1] = NextField(buf, read[(k + 1) - 1], list[k + 1]) BY <1>1, <4>1, Zenon
      <4> QED BY <4>1, <4>2 DEF NextField
    <3>2. t = IF r.ok /\ x.ok THEN Ok(x.pos, val) ELSE Err BY <3>1 DEF AddField
    <3> HIDE DEF x, r, val, t, it
    <3>3. r.ok /\ x.ok /\ t = Ok(x.pos, val)
      <4>1. t.ok BY <2>1 DEF t
      <4>2. t # Err BY <4>1 DEF Err
      <4> QED BY <3>2, <4>2
    <3>4. k <= m BY <1>2, <2>1
    <3>5. PICK v, p : ListForm(buf, list, pos, k, r, v, p) BY <1>5, <3>3, <3>4 DEF r
    <3>6. /\ r.pos \in Positions(buf) /\ r.pos >= pos /\ p \in Seq(Bstr) /\ Len(p) = k
          /\ Cut(buf, pos, r.pos) = FlattenSeq(p)
          /\ \A i \in 1 .. k : TypedItem(list[i][2], list[i][3], v[i], p[i])
          /\ DOMAIN r.val = UNION {ToSet(list[i][1]) : i \in 1 .. k}
          /\ \A i \in 1 .. k : \A f \in ToSet(list[i][1]) : r.val[f] = v[i]
      BY <3>5 DEF ListForm
    <3>7. x.pos \in Positions(buf) /\ x.pos > r.pos /\ TypedItem(it[2], it[3], x.val, s)
      <4>1. k + 1 \in 1 .. m BY <1>2, <2>1
      <4>2. it[2] \in {"uint", "bytes", "text", "array", "map"} BY <4>1 DEF ItemList, it, m
      <4> QED BY <3>3, <3>6, <4>2, TypedReads DEF x
    <3>9. s \in Bstr /\ Cut(buf, pos, x.pos) = FlattenSeq(Append(p, s))
      <4> DEFINE i == pos
                 j == r.pos
                 l == x.pos
      <4>1. i \in Nat \ {0} /\ j \in Nat /\ l \in Nat /\ i <= j /\ j <= l /\ l <= Len(buf) + 1
        BY <1>3, <3>6, <3>7 DEF Positions
      <4>2. s \in Bstr /\ Cut(buf, pos, x.pos) = Cut(buf, pos, r.pos) \o s
        <5>2. Cut(buf, j, l) \in Bstr /\ Cut(buf, i, l) = Cut(buf, i, j) \o Cut(buf, j, l)
          <6> HIDE DEF i, j, l
          <6> QED BY <1>a, <4>1, CutAt
        <5> QED BY <5>2
      <4> HIDE DEF s
      <4> QED BY <3>6, <4>2, FlattenAppend
    <3> HIDE DEF s, name
    <3> DEFINE q == Append(p, s)
               w == [i \in 1 .. k + 1 |-> IF i = k + 1 THEN x.val ELSE v[i]]
    <3>10. t.pos = x.pos /\ t.val = val BY <3>3 DEF Ok
    <3>11. /\ q \in Seq(Bstr) /\ Len(q) = k + 1 /\ q[k + 1] = s /\ \A i \in 1 .. k : q[i] = p[i]
      BY <3>6, <3>9
    <3>12. w[k + 1] = x.val /\ \A i \in 1 .. k : w[i] = v[i] OBVIOUS
    <3>13. /\ DOMAIN val = DOMAIN r.val \cup name
           /\ \A f \in name : val[f] = x.val
           /\ \A f \in DOMAIN r.val : f \notin name => val[f] = r.val[f]
      BY DEF val
    <3>14. \A i \in 1 .. k + 1 : i \in 1 .. k \/ i = k + 1 OBVIOUS
    <3>15. (\A i \in 1 .. k : i \in 1 .. k + 1) /\ k + 1 \in 1 .. k + 1 OBVIOUS
    <3> HIDE DEF q, w
    <3>16. \A i \in 1 .. k + 1 : TypedItem(list[i][2], list[i][3], w[i], q[i])
      BY <3>6, <3>7, <3>11, <3>12, <3>14 DEF it
    <3>17. DOMAIN val = UNION {ToSet(list[i][1]) : i \in 1 .. k + 1}
      <4>1. name = ToSet(list[k + 1][1]) BY DEF name, it
      <4> DEFINE N(i) == ToSet(list[i][1])
      <4>2. DOMAIN val = (UNION {N(i) : i \in 1 .. k}) \cup N(k + 1) BY <3>6, <3>13, <4>1
      <4> HIDE DEF N
      <4>3. (UNION {N(i) : i \in 1 .. k}) \cup N(k + 1) = UNION {N(i) : i \in 1 .. k + 1}
        BY <3>14, <3>15
      <4> QED BY <4>2, <4>3 DEF N
    <3>18. \A i \in 1 .. k + 1 : \A f \in ToSet(list[i][1]) : val[f] = w[i]
      <4> SUFFICES ASSUME NEW i \in 1 .. k + 1, NEW f \in ToSet(list[i][1]) PROVE val[f] = w[i] OBVIOUS
      <4>1. CASE i = k + 1 BY <3>12, <3>13, <4>1 DEF name, it
      <4>2. CASE i \in 1 .. k
        <5>1. i \in 1 .. Len(list) /\ k + 1 \in 1 .. Len(list) /\ i # k + 1
          BY <1>2, <2>1, <4>2 DEF m
        <5>2. f \notin name BY <5>1 DEF ItemList, name, it
        <5>3. f \in DOMAIN r.val /\ r.val[f] = v[i] BY <3>6, <4>2
        <5> QED BY <3>12, <3>13, <4>2, <5>2, <5>3
      <4> QED BY <3>14, <4>1, <4>2
    <3>19. x.pos >= pos BY <1>3, <3>6, <3>7 DEF Positions
    <3>20. ListForm(buf, list, pos, k + 1, t, w, q)
      <4>1. Cut(buf, pos, x.pos) = FlattenSeq(q) BY <3>9 DEF q
      <4> QED BY <3>7, <3>10, <3>11, <3>16, <3>17, <3>18, <3>19, <4>1 DEF ListForm
    <3> QED BY <3>20 DEF t
  <2> QED BY <2>1
<1>6. \A k \in Nat : k \in T
  <2> HIDE DEF T
  <2> QED BY <1>4, <1>5, Induct, Zenon
<1>7. \A k \in 0 .. m : read[k].ok => Good(read[k], k)
  <2> SUFFICES ASSUME NEW k \in 0 .. m, read[k].ok PROVE Good(read[k], k) OBVIOUS
  <2>1. k \in T /\ k <= m BY <1>2, <1>6
  <2> HIDE DEF Good
  <2> QED BY <2>1
<1> QED BY <1>7 DEF m, read

\* An item has a name or none.
LEMMA NameSets == ToSet(<< >>) = {} /\ \A x : ToSet(<<x>>) = {x}
BY DEF ToSet

\* Parity of the places of a list.
LEMMA Places ==
  ASSUME NEW l \in Nat
  PROVE  /\ \A i \in 1 .. 2 * l + 1 : i # 1 => i \div 2 \in 1 .. l
         /\ \A i \in 1 .. 2 * l + 1 : i # 1 => i = 2 * (i \div 2) \/ i = 2 * (i \div 2) + 1
         /\ \A i \in 1 .. l : /\ 2 * i \in 1 .. 2 * l + 1 /\ 2 * i # 1 /\ (2 * i) % 2 = 0 /\ (2 * i) \div 2 = i
                              /\ 2 * i + 1 \in 1 .. 2 * l + 1 /\ 2 * i + 1 # 1 /\ (2 * i + 1) % 2 # 0
                              /\ (2 * i + 1) \div 2 = i
OBVIOUS

\* The list of a document: the head of the map, then each key before its value.
\* (strict_decode_marks_response, strict_decode_commit_ack)
LEMMA PositionalList ==
  ASSUME NEW rules, KeyRules(rules), \A k \in DOMAIN rules : rules[k].t \in {"uint", "bytes", "text"}
  PROVE  LET keys == KeySeq(DOMAIN rules)
             l == Len(keys)
             list == Positional(rules)
         IN  /\ ItemList(list) /\ Len(list) = 2 * l + 1 /\ l \in Nat
             /\ list[1] = <<<< >>, "map", {l}>>
             /\ \A i \in 1 .. l : /\ list[2 * i] = <<<< >>, "uint", {keys[i]}>>
                                  /\ list[2 * i + 1] = <<<<keys[i]>>, rules[keys[i]].t, rules[keys[i]].ok>>
             /\ UNION {ToSet(list[i][1]) : i \in 1 .. 2 * l + 1} = DOMAIN rules
<1> DEFINE keys == KeySeq(DOMAIN rules)
           l == Len(keys)
           list == Positional(rules)
<1>1. keys \in Seq(1 .. 14) /\ Ascending(keys) /\ DOMAIN rules = {keys[i] : i \in 1 .. l}
  BY KeySeqOf DEF KeyRules
<1>2. l \in Nat /\ \A i \in 1 .. l : keys[i] \in 1 .. 14 /\ keys[i] \in DOMAIN rules BY <1>1, ElementOfSeq
<1>3. list = [i \in 1 .. 2 * l + 1 |->
            CASE i = 1 -> <<<< >>, "map", {l}>>
              [] i # 1 /\ i % 2 = 0 -> Key(keys[i \div 2])
              [] OTHER -> <<<<keys[i \div 2]>>, rules[keys[i \div 2]].t, rules[keys[i \div 2]].ok>>]
  BY DEF Positional
<1> HIDE DEF keys, l, list
<1>4. 1 \in 1 .. 2 * l + 1 /\ 2 * l + 1 \in Nat BY <1>2
<1>5. list[1] = <<<< >>, "map", {l}>> BY <1>3, <1>4
<1>6. ASSUME NEW i \in 1 .. l
      PROVE  /\ list[2 * i] = <<<< >>, "uint", {keys[i]}>>
             /\ list[2 * i + 1] = <<<<keys[i]>>, rules[keys[i]].t, rules[keys[i]].ok>>
  <2> DEFINE a == 2 * i
             b == 2 * i + 1
  <2>1. /\ a \in 1 .. 2 * l + 1 /\ a # 1 /\ a % 2 = 0 /\ a \div 2 = i
        /\ b \in 1 .. 2 * l + 1 /\ b # 1 /\ b % 2 # 0 /\ b \div 2 = i
    BY <1>2, Places
  <2> HIDE DEF a, b
  <2>2. list[a] = Key(keys[i]) BY <1>3, <2>1
  <2>3. list[b] = <<<<keys[i]>>, rules[keys[i]].t, rules[keys[i]].ok>> BY <1>3, <2>1
  <2> QED BY <2>2, <2>3 DEF a, b, Key
<1>7. Len(list) = 2 * l + 1 BY <1>3, <1>4
\* The items of odd places above 1 have the names.
<1>8. \A i \in 1 .. 2 * l + 1 :
        \/ list[i][1] = << >> /\ list[i][2] \in {"map", "uint"}
        \/ \E j \in 1 .. l : i = 2 * j + 1 /\ list[i][1] = <<keys[j]>> /\ list[i][2] = rules[keys[j]].t
  <2> SUFFICES ASSUME NEW i \in 1 .. 2 * l + 1, i # 1, NEW j, j = i \div 2
               PROVE  \/ list[i][1] = << >> /\ list[i][2] \in {"map", "uint"}
                      \/ i = 2 * j + 1 /\ list[i][1] = <<keys[j]>> /\ list[i][2] = rules[keys[j]].t
    <3>1. \A i \in 1 .. 2 * l + 1 : i # 1 => i \div 2 \in 1 .. l BY <1>2, Places
    <3>2. list[1][1] = << >> /\ list[1][2] = "map" BY <1>5
    <3> QED BY <3>1, <3>2
  <2>1. j \in 1 .. l /\ (i = 2 * j \/ i = 2 * j + 1) BY <1>2, Places
  <2>2. CASE i = 2 * j
    <3>1. list[i] = <<<< >>, "uint", {keys[j]}>> BY <1>6, <2>1, <2>2
    <3> QED BY <3>1
  <2>3. CASE i = 2 * j + 1
    <3> DEFINE x == keys[j]
               y == rules[x].t
               z == rules[x].ok
    <3>1. list[i] = <<<<x>>, y, z>> BY <1>6, <2>1, <2>3
    <3> HIDE DEF x, y, z
    <3>2. list[i][1] = <<x>> /\ list[i][2] = y BY <3>1
    <3> QED BY <2>3, <3>2 DEF x, y
  <2> QED BY <2>1, <2>2, <2>3
<1>9. ItemList(list)
  <2>1. ASSUME NEW i \in 1 .. 2 * l + 1 PROVE list[i][2] \in {"uint", "bytes", "text", "array", "map"}
    <3>1. CASE list[i][2] \in {"map", "uint"} BY <3>1
    <3>2. CASE \E j \in 1 .. l : list[i][2] = rules[keys[j]].t BY <1>2, <3>2
    <3> QED BY <1>8, <3>1, <3>2
  <2>2. ASSUME NEW i \in 1 .. 2 * l + 1, NEW j \in 1 .. 2 * l + 1, i # j
        PROVE  ToSet(list[i][1]) \cap ToSet(list[j][1]) = {}
    <3>1. CASE list[i][1] = << >> \/ list[j][1] = << >> BY <3>1, NameSets
    <3>2. CASE list[i][1] # << >> /\ list[j][1] # << >>
      <4>1. PICK a \in 1 .. l : i = 2 * a + 1 /\ list[i][1] = <<keys[a]>> BY <1>8, <3>2
      <4>2. PICK b \in 1 .. l : j = 2 * b + 1 /\ list[j][1] = <<keys[b]>> BY <1>8, <3>2
      <4>3. a < b \/ b < a BY <1>2, <2>2, <4>1, <4>2
      <4>4. keys[a] # keys[b]
        <5>1. keys[a] < keys[b] \/ keys[b] < keys[a] BY <4>3, <1>1 DEF Ascending, l
        <5>2. keys[a] \in 1 .. 14 /\ keys[b] \in 1 .. 14 BY <1>2
        <5> QED BY <5>1, <5>2
      <4>5. ToSet(list[i][1]) = {keys[a]} /\ ToSet(list[j][1]) = {keys[b]} BY <4>1, <4>2, NameSets
      <4> QED BY <4>4, <4>5
    <3> QED BY <3>1, <3>2
  <2> QED BY <1>4, <1>7, <2>1, <2>2 DEF ItemList
<1>10. UNION {ToSet(list[i][1]) : i \in 1 .. 2 * l + 1} = DOMAIN rules
  <2> DEFINE N(i) == ToSet(list[i][1])
  <2>1. ASSUME NEW i \in 1 .. 2 * l + 1 PROVE N(i) \subseteq DOMAIN rules
    <3>1. CASE list[i][1] = << >> BY <3>1, NameSets
    <3>2. CASE \E j \in 1 .. l : list[i][1] = <<keys[j]>> BY <1>2, <3>2, NameSets
    <3> QED BY <1>8, <3>1, <3>2
  <2>2. ASSUME NEW i \in 1 .. l PROVE 2 * i + 1 \in 1 .. 2 * l + 1 /\ keys[i] \in N(2 * i + 1)
    <3>1. list[2 * i + 1][1] = <<keys[i]>> BY <1>6
    <3>2. 2 * i + 1 \in 1 .. 2 * l + 1 BY <1>2, Places
    <3> QED BY <3>1, <3>2, NameSets
  <2> HIDE DEF N
  <2>3. DOMAIN rules \subseteq UNION {N(i) : i \in 1 .. 2 * l + 1} BY <1>1, <2>2
  <2>4. UNION {N(i) : i \in 1 .. 2 * l + 1} \subseteq DOMAIN rules BY <2>1
  <2>5. UNION {N(i) : i \in 1 .. 2 * l + 1} = DOMAIN rules BY <2>3, <2>4
  <2> QED BY <2>5 DEF N
<1> QED BY <1>5, <1>6, <1>7, <1>2, <1>9, <1>10 DEF keys, l, list

\* A parser by positions asks numbers and strings of its keys.
LEMMA PositionalTypes ==
  /\ \A k \in DOMAIN MarksKeys : MarksKeys[k].t \in {"uint", "bytes", "text"}
  /\ \A k \in DOMAIN AckKeys : AckKeys[k].t \in {"uint", "bytes", "text"}
<1> DEFINE flat == {"uint", "bytes", "text"}
<1>1. /\ AnyUint.t \in flat /\ AnyText.t \in flat /\ AnyBytes.t \in flat
      /\ Hash32.t \in flat /\ Signature.t \in flat /\ \A n : AtMost(n).t \in flat
  BY DEF AnyUint, AnyText, AnyBytes, Hash32, Signature, Exactly, AtMost, Rule
<1> HIDE DEF flat
<1>2. ASSUME NEW s, \A k \in DOMAIN s : s[k].t \in flat
      PROVE  \A k \in DOMAIN Signed13(s) : Signed13(s)[k].t \in flat
  BY <1>1, <1>2 DEF Signed13
<1> DEFINE marks == <<AnyUint, AnyUint, AnyText, AnyUint, Hash32, AnyBytes>>
           ack == <<AnyUint, AnyUint, AnyText, AnyUint, AnyUint, Hash32, Hash32, AtMost(MAX_REQUEST_ID_LEN)>>
<1>3. \A k \in DOMAIN marks : marks[k].t \in flat
  <2>1. DOMAIN marks = 1 .. 6 OBVIOUS
  <2>2. \A k \in 1 .. 6 : marks[k].t \in flat BY <1>1
  <2> QED BY <2>1, <2>2
<1>4. \A k \in DOMAIN ack : ack[k].t \in flat
  <2>1. DOMAIN ack = 1 .. 8 OBVIOUS
  <2>2. \A k \in 1 .. 8 : ack[k].t \in flat BY <1>1
  <2> QED BY <2>1, <2>2
<1>5. MarksKeys = Signed13(marks) /\ AckKeys = Signed13(ack) BY DEF MarksKeys, AckKeys
<1> HIDE DEF marks, ack
<1> QED BY <1>2, <1>3, <1>4, <1>5 DEF flat

\* What is read under a rule satisfies it, and is a value of the program.
LEMMA TypedValue ==
  ASSUME NEW t \in {"uint", "bytes", "text"}, NEW args, NEW x, NEW s, TypedItem(t, args, x, s)
  PROVE  Scalar(x) /\ s = put_value(x) /\ Fits(Rule(t, args), x)
<1>1. Rule(t, args).t = t /\ Rule(t, args).ok = args BY DEF Rule
<1>2. CASE t = "uint"
  <2>1. x.v \in u64 /\ x.v \in args /\ x = [t |-> t, v |-> x.v] /\ s = put_uint(Major[t], x.v)
    BY <1>2 DEF TypedItem
  <2>2. x.t = "uint" /\ Major[t] = 0 BY <1>2, <2>1 DEF Major
  <2>3. s = put_value(x) BY <2>1, <2>2 DEF put_value
  <2>4. Scalar(x) BY <1>2, <2>1, <2>2 DEF Scalar
  <2> QED BY <1>1, <1>2, <2>1, <2>2, <2>3, <2>4 DEF Fits
<1>3. CASE t \in {"bytes", "text"}
  <2>1. x.t = t /\ Scalar(x) /\ Len(x.v) \in args /\ s = put_value(x) BY <1>3 DEF TypedItem
  <2> QED BY <1>1, <1>3, <2>1 DEF Fits
<1> QED BY <1>2, <1>3

\* A document read by position is of its kind and is read from the bytes its encoder
\* makes.  (strict_decode_marks_response, strict_decode_commit_ack)
LEMMA PositionalDocument ==
  ASSUME NEW buf \in Seq(u8), NEW rules, KeyRules(rules),
         \A k \in DOMAIN rules : rules[k].t \in {"uint", "bytes", "text"},
         NEW d \in ParsePositional(rules, buf)
  PROVE  /\ Document(rules, d) /\ WireOf(d) = buf /\ DOMAIN rules \subseteq DOMAIN d
         /\ \A k \in DOMAIN d : d[k].t = rules[k].t
<1> DEFINE keys == KeySeq(DOMAIN rules)
           l == Len(keys)
           list == Positional(rules)
           m == 2 * l + 1
           r == typed_list(buf, list)[1]
<1>1. r.ok /\ r.pos = Len(buf) + 1 /\ d = r.val BY DEF ParsePositional, Whole
<1>2. /\ ItemList(list) /\ Len(list) = m /\ l \in Nat /\ list[1] = <<<< >>, "map", {l}>>
      /\ \A i \in 1 .. l : /\ list[2 * i] = <<<< >>, "uint", {keys[i]}>>
                           /\ list[2 * i + 1] = <<<<keys[i]>>, rules[keys[i]].t, rules[keys[i]].ok>>
      /\ UNION {ToSet(list[i][1]) : i \in 1 .. m} = DOMAIN rules
  BY PositionalList
<1>3. keys \in Seq(1 .. 14) /\ Len(keys) = l /\ DOMAIN rules = {keys[i] : i \in 1 .. l}
  BY KeySeqOf DEF KeyRules
<1>4. 1 \in Positions(buf) BY ByteStrings8 DEF Positions
<1>5. r = ListRead(buf, list, 1)[m]
  <2> HIDE DEF keys, l, list, m
  <2>1. r = ListRead(buf, list, 1)[Len(list)] BY <1>4, TypedList
  <2> QED BY <1>2, <2>1
<1>6. 1 \in 1 .. m /\ m \in 0 .. m BY <1>2
<1> HIDE DEF keys, l, list, m, r
<1>7. PICK v, p : ListForm(buf, list, 1, m, r, v, p)
  <2>1. ListRead(buf, list, 1)[m].ok BY <1>1, <1>5
  <2>2. m \in 0 .. Len(list) BY <1>2, <1>6
  <2> QED BY <1>2, <1>4, <1>5, <2>1, <2>2, ListReads
<1>8. /\ p \in Seq(Bstr) /\ Len(p) = m /\ Cut(buf, 1, r.pos) = FlattenSeq(p)
      /\ \A i \in 1 .. m : TypedItem(list[i][2], list[i][3], v[i], p[i])
      /\ DOMAIN d = UNION {ToSet(list[i][1]) : i \in 1 .. m}
      /\ \A i \in 1 .. m : \A f \in ToSet(list[i][1]) : d[f] = v[i]
  BY <1>1, <1>7 DEF ListForm
<1>9. buf = FlattenSeq(p) BY <1>1, <1>8, CutWhole, ByteStrings8
<1>10. DOMAIN d = DOMAIN rules BY <1>2, <1>8
<1>11. p[1] = put_uint(5, l)
  <2>1. TypedItem("map", {l}, v[1], p[1])
    <3>1. TypedItem(list[1][2], list[1][3], v[1], p[1]) BY <1>6, <1>8
    <3>2. list[1][2] = "map" /\ list[1][3] = {l} BY <1>2
    <3> QED BY <3>1, <3>2
  <2>2. v[1].v \in {l} /\ p[1] = put_uint(Major["map"], v[1].v) BY <2>1 DEF TypedItem
  <2> QED BY <2>2 DEF Major
<1>12. ASSUME NEW i \in 1 .. l
       PROVE  /\ p[2 * i] = put_uint(0, keys[i]) /\ p[2 * i + 1] = put_value(d[keys[i]])
              /\ Scalar(d[keys[i]]) /\ d[keys[i]].t = rules[keys[i]].t
              /\ p[2 * i] \in Bstr /\ p[2 * i + 1] \in Bstr
  <2> DEFINE a == 2 * i
             b == 2 * i + 1
             key == keys[i]
             x == v[b]
             t == rules[key].t
             args == rules[key].ok
  <2>1. a \in 1 .. m /\ b \in 1 .. m BY <1>2, Places DEF m
  <2>2. list[a] = <<<< >>, "uint", {key}>> /\ list[b] = <<<<key>>, t, args>> BY <1>2
  <2>3. key \in DOMAIN rules BY <1>3
  <2>4. t \in {"uint", "bytes", "text"} BY <2>3
  <2> HIDE DEF a, b, key, x, t, args
  <2>5. TypedItem("uint", {key}, v[a], p[a])
    <3>1. list[a][2] = "uint" /\ list[a][3] = {key} BY <2>2
    <3>2. TypedItem(list[a][2], list[a][3], v[a], p[a]) BY <1>8, <2>1
    <3> QED BY <3>1, <3>2
  <2>6. p[a] = put_uint(0, key)
    <3>1. v[a].v \in {key} /\ p[a] = put_uint(Major["uint"], v[a].v) BY <2>5 DEF TypedItem
    <3> QED BY <3>1 DEF Major
  <2>7. list[b][1] = <<key>> /\ list[b][2] = t /\ list[b][3] = args BY <2>2
  <2>8. TypedItem(t, args, x, p[b])
    <3>1. TypedItem(list[b][2], list[b][3], v[b], p[b]) BY <1>8, <2>1
    <3> QED BY <2>7, <3>1 DEF x
  <2>9. d[key] = x
    <3>1. key \in ToSet(list[b][1]) BY <2>7, NameSets
    <3> QED BY <1>8, <2>1, <3>1 DEF x
  <2>10. Scalar(x) /\ p[b] = put_value(x) /\ Fits(Rule(t, args), x) BY <2>4, <2>8, TypedValue
  <2>11. x.t = t BY <2>10 DEF Fits, Rule
  <2>12. p[a] \in Bstr /\ p[b] \in Bstr BY <1>8, <2>1, ElementOfSeq
  <2> QED BY <2>6, <2>9, <2>10, <2>11, <2>12 DEF a, b, key, t
<1>13. Document(rules, d) /\ DOMAIN rules \subseteq DOMAIN d /\ \A k \in DOMAIN d : d[k].t = rules[k].t
  <2>1. ASSUME NEW k \in DOMAIN d PROVE Scalar(d[k]) /\ d[k].t = rules[k].t
    <3>1. PICK i \in 1 .. l : k = keys[i] BY <1>3, <1>10
    <3>2. Scalar(d[keys[i]]) /\ d[keys[i]].t = rules[keys[i]].t BY <1>12
    <3> QED BY <3>1, <3>2
  <2> QED BY <1>10, <2>1 DEF Document
<1> DEFINE b == [i \in 1 .. l |-> put_uint(0, keys[i]) \o put_value(d[keys[i]])]
<1>14. b \in Seq(Bstr) /\ Len(b) = l /\ \A i \in 1 .. l : b[i] = p[2 * i] \o p[2 * i + 1]
  <2>1. ASSUME NEW i \in 1 .. l PROVE b[i] = p[2 * i] \o p[2 * i + 1] /\ b[i] \in Bstr
    <3>1. b[i] = p[2 * i] \o p[2 * i + 1] BY <1>12
    <3> HIDE DEF b
    <3> QED BY <1>12, <3>1, Joined
  <2>2. b \in [1 .. l -> Bstr] BY <2>1
  <2> HIDE DEF b
  <2>3. b \in Seq(Bstr) /\ Len(b) = l BY <1>2, <2>2
  <2> QED BY <2>1, <2>3
<1>15. FlattenSeq(p) = p[1] \o FlattenSeq(b)
  <2>1. Len(p) = 2 * l + 1 BY <1>8 DEF m
  <2> HIDE DEF b
  <2> QED BY <1>2, <1>8, <1>14, <2>1, FlattenOdd
<1>16. WireOf(d) = put_uint(5, l) \o FlattenSeq(b)
  <2>1. KeySeq(DOMAIN d) = keys BY <1>10 DEF keys
  <2>2. DOMAIN keys = 1 .. l BY <1>3
  <2> QED BY <1>3, <2>1, <2>2 DEF WireOf, PutMap
<1>17. WireOf(d) = buf BY <1>9, <1>11, <1>15, <1>16
<1> QED BY <1>13, <1>17

\* A document of a kind is read from one buffer only, whether its parser goes by keys or
\* by positions: what a verifier reads has the bytes it was read from and no others.
\* (strict_decode_anchor_response, strict_decode_marks_response, strict_decode_commit_ack,
\* parse_capability and the parsers of agent_provision.rs)
THEOREM DocumentsAreCanonical ==
  ASSUME NEW buf \in Seq(u8), NEW kind \in DOMAIN Keys \ Requests, NEW d \in Parse(kind, buf)
  PROVE  WireOf(d) = buf
<1> DEFINE rules == Keys[kind]
<1>1. d \in IF kind \in {"marks", "ack"} THEN ParsePositional(rules, buf) ELSE ParseMap(kind, rules, buf)
  BY DEF Parse
<1>2. CASE kind \notin {"marks", "ack"}
  <2>1. d \in ParseMap(kind, Keys[kind], buf) BY <1>1, <1>2
  <2> QED BY <2>1, MapDocument
<1>3. CASE kind \in {"marks", "ack"}
  <2>1. rules = (IF kind = "marks" THEN MarksKeys ELSE AckKeys) BY <1>3 DEF Keys
  <2>2. \A k \in DOMAIN rules : rules[k].t \in {"uint", "bytes", "text"} BY <1>3, <2>1, PositionalTypes
  <2>3. d \in ParsePositional(rules, buf) BY <1>1, <1>3
  <2>4. KeyRules(rules) BY EveryKey
  <2> HIDE DEF rules
  <2> QED BY <2>2, <2>3, <2>4, PositionalDocument
<1> QED BY <1>2, <1>3
-----------------------------------------------------------------------------
(* What a signature covers *)

\* Heads of any two items.
LEMMA PutHead ==
  ASSUME NEW m \in 0 .. 7, NEW n \in 0 .. 7, NEW v \in u64, NEW w \in u64
  PROVE  /\ put_uint(m, v) \in Bstr /\ put_uint(n, w) \in Bstr
         /\ Sd(put_uint(m, v), put_uint(n, w))
         /\ put_uint(m, v) = put_uint(n, w) => m = n /\ v = w
<1> DEFINE s == put_uint(m, v)
           t == put_uint(n, w)
<1>1. v \in Nat /\ w \in Nat BY Range8
<1>2. UintHead(m, v, s) /\ UintHead(n, w, t) BY <1>1, PutUintHead
<1>3. s \in Bstr /\ t \in Bstr /\ Len(s) > 0 /\ Len(t) > 0 BY <1>2 DEF UintHead
<1>4. s[1] = t[1] => m = n
  <2> HIDE DEF s, t
  <2>1. s[1] \in 32 * m .. 32 * m + 27 BY <1>1, <1>2 DEF UintHead
  <2>2. t[1] \in 32 * n .. 32 * n + 27 BY <1>1, <1>2 DEF UintHead
  <2> QED BY <2>1, <2>2
<1>5. m = n => Sd(s, t) /\ (s = t => v = w) BY PutUint
<1> HIDE DEF s, t
<1>6. ASSUME NEW a \in Bstr, NEW b \in Bstr, s \o a = t \o b PROVE s = t
  <2>1. 1 \in 1 .. Len(s) /\ 1 \in 1 .. Len(t) BY <1>3, BstrProps
  <2>2. (s \o a)[1] = s[1] /\ (t \o b)[1] = t[1] BY <1>3, <2>1, Prefix
  <2>3. m = n BY <1>4, <1>6, <2>2
  <2> QED BY <1>5, <1>6, <2>3 DEF Sd
<1>7. Sd(s, t) BY <1>6 DEF Sd
<1> QED BY <1>3, <1>4, <1>5, <1>7 DEF s, t

\* The value a head and a string say.
Said(m, n, c) ==
    CASE m = 0 -> [t |-> "uint", v |-> n]
      [] m = 1 -> [t |-> "nint", v |-> n]
      [] m = 2 -> [t |-> "bytes", v |-> c]
      [] m = 3 -> [t |-> "text", v |-> c]
      [] m = 7 -> [t |-> "bool", v |-> n = 21]

\* The bytes of a single value are a head and a string as long as it says.
LEMMA ScalarForm ==
  ASSUME NEW x, Scalar(x)
  PROVE  \E m \in {0, 1, 2, 3, 7}, n \in u64, c \in Bstr :
            /\ put_value(x) = put_uint(m, n) \o c /\ x = Said(m, n, c)
            /\ Len(c) = IF m \in {2, 3} THEN n ELSE 0
<1>1. x = [t |-> x.t, v |-> x.v] BY DEF Scalar
<1>2. << >> \in Bstr /\ Len(<< >>) = 0 BY BstrProps
<1>3. ASSUME NEW m \in {0, 1, 7}, NEW n \in u64 PROVE put_uint(m, n) \o << >> = put_uint(m, n)
  <2>1. m \in 0 .. 7 BY <1>3
  <2>2. put_uint(m, n) \in Bstr BY <2>1, PutHead
  <2> QED BY <2>2, BstrProps
<1>4. CASE x.t = "uint" /\ x.v \in u64
  <2>1. put_value(x) = put_uint(0, x.v) \o << >> BY <1>3, <1>4 DEF put_value
  <2>2. x = Said(0, x.v, << >>) BY <1>1, <1>4 DEF Said
  <2> DEFINE c == << >>
  <2>9. put_value(x) = put_uint(0, x.v) \o c /\ x = Said(0, x.v, c) /\ Len(c) = 0 /\ c \in Bstr
    BY <1>2, <1>4, <2>1, <2>2
  <2> HIDE DEF c
  <2>10. 0 \in {0, 1, 2, 3, 7} /\ 0 \notin {2, 3} OBVIOUS
  <2> QED BY <1>4, <2>9, <2>10
<1>5. CASE x.t = "nint" /\ x.v \in u64
  <2>1. put_value(x) = put_uint(1, x.v) \o << >> BY <1>3, <1>5 DEF put_value
  <2>2. x = Said(1, x.v, << >>) BY <1>1, <1>5 DEF Said
  <2> DEFINE c == << >>
  <2>9. put_value(x) = put_uint(1, x.v) \o c /\ x = Said(1, x.v, c) /\ Len(c) = 0 /\ c \in Bstr
    BY <1>2, <1>5, <2>1, <2>2
  <2> HIDE DEF c
  <2>10. 1 \in {0, 1, 2, 3, 7} /\ 1 \notin {2, 3} OBVIOUS
  <2> QED BY <1>5, <2>9, <2>10
<1>6. CASE x.t = "bytes" /\ x.v \in Seq(u8) /\ Len(x.v) \in u64
  <2>1. put_value(x) = put_uint(2, Len(x.v)) \o x.v BY <1>6 DEF put_value, put_bytes
  <2>2. x = Said(2, Len(x.v), x.v) BY <1>1, <1>6 DEF Said
  <2>3. x.v \in Bstr BY <1>6, ByteStrings8
  <2> QED BY <1>6, <2>1, <2>2, <2>3
<1>7. CASE x.t = "text" /\ x.v \in Seq(u8) /\ Len(x.v) \in u64
  <2>1. put_value(x) = put_uint(3, Len(x.v)) \o x.v BY <1>7 DEF put_value, put_text
  <2>2. x = Said(3, Len(x.v), x.v) BY <1>1, <1>7 DEF Said
  <2>3. x.v \in Bstr BY <1>7, ByteStrings8
  <2> QED BY <1>7, <2>1, <2>2, <2>3
<1>8. CASE x.t = "bool" /\ x.v \in BOOLEAN
  <2> DEFINE n == IF x.v THEN 21 ELSE 20
  <2>1. n \in 0 .. 31 /\ n < 24 /\ 32 * 7 = 224 /\ n \in u8 BY DEF u8
  <2>2. n \in u64 BY <2>1, Range8
  <2>3. put_uint(7, n) = <<224 + n>>
    <3>1. 7 \in 0 .. 7 OBVIOUS
    <3> HIDE DEF n
    <3>2. put_uint(7, n) = <<32 * 7 + n>> BY <2>1, <3>1, SmallHead, Zenon
    <3> QED BY <2>1, <3>2
  <2>4. put_value(x) = <<224 + n>> BY <1>8 DEF put_value
  <2>5. (n = 21) = x.v BY <1>8
  <2> HIDE DEF n
  <2>6. put_value(x) = put_uint(7, n) \o << >> BY <1>3, <2>2, <2>3, <2>4
  <2>7. x = Said(7, n, << >>) BY <1>1, <1>8, <2>5 DEF Said
  <2> DEFINE c == << >>
  <2>9. put_value(x) = put_uint(7, n) \o c /\ x = Said(7, n, c) /\ Len(c) = 0 /\ c \in Bstr
    BY <1>2, <2>2, <2>6, <2>7
  <2> HIDE DEF c
  <2>10. 7 \in {0, 1, 2, 3, 7} /\ 7 \notin {2, 3} OBVIOUS
  <2> QED BY <2>2, <2>9, <2>10
<1> QED BY <1>4, <1>5, <1>6, <1>7, <1>8 DEF Scalar

\* The bytes of single values tell where they end and what was said.
LEMMA SameScalar ==
  ASSUME NEW x, NEW y, Scalar(x), Scalar(y)
  PROVE  /\ put_value(x) \in Bstr /\ Sd(put_value(x), put_value(y))
         /\ put_value(x) = put_value(y) => x = y
<1>1. PICK m \in {0, 1, 2, 3, 7}, n \in u64, c \in Bstr :
        /\ put_value(x) = put_uint(m, n) \o c /\ x = Said(m, n, c)
        /\ Len(c) = IF m \in {2, 3} THEN n ELSE 0
  BY ScalarForm
<1>2. PICK i \in {0, 1, 2, 3, 7}, j \in u64, e \in Bstr :
        /\ put_value(y) = put_uint(i, j) \o e /\ y = Said(i, j, e)
        /\ Len(e) = IF i \in {2, 3} THEN j ELSE 0
  BY ScalarForm
<1> DEFINE h == put_uint(m, n)
           k == put_uint(i, j)
<1>3. m \in 0 .. 7 /\ i \in 0 .. 7 OBVIOUS
<1>4. h \in Bstr /\ k \in Bstr /\ Sd(h, k) /\ (h = k => m = i /\ n = j) BY <1>3, PutHead
<1>5. put_value(x) = h \o c /\ put_value(y) = k \o e BY <1>1, <1>2
<1> HIDE DEF h, k
<1>6. h = k => Len(c) = Len(e) BY <1>1, <1>2, <1>4
<1>7. Sd(h \o c, k \o e) /\ (h \o c = k \o e => h = k /\ c = e) BY <1>4, <1>6, Delimited
<1>8. h \o c \in Bstr BY <1>4, BstrProps
<1>9. h = k /\ c = e => x = y BY <1>1, <1>2, <1>4
<1> QED BY <1>5, <1>7, <1>8, <1>9

\* A field is its key and its value.
LEMMA SameField ==
  ASSUME NEW a \in 1 .. 14, NEW b \in 1 .. 14, NEW x, NEW y, Scalar(x), Scalar(y)
  PROVE  LET p == put_uint(0, a) \o put_value(x)
             q == put_uint(0, b) \o put_value(y)
         IN  p \in Bstr /\ Sd(p, q) /\ (p = q => a = b /\ x = y)
<1> DEFINE h == put_uint(0, a)
           k == put_uint(0, b)
           c == put_value(x)
           e == put_value(y)
<1>1. a \in u64 /\ b \in u64 /\ 0 \in 0 .. 7
  <2>1. a \in u8 /\ b \in u8 BY DEF u8
  <2> QED BY <2>1, Range8
<1>2. h \in Bstr /\ k \in Bstr /\ Sd(h, k) /\ (h = k => a = b) BY <1>1, PutHead
<1>3. c \in Bstr /\ e \in Bstr /\ Sd(c, e) /\ (c = e => x = y) BY SameScalar
<1> HIDE DEF h, k, c, e
<1>4. Sd(h \o c, k \o e) /\ (h \o c = k \o e => h = k /\ c = e) BY <1>2, <1>3, SdConcat
<1>5. h \o c \in Bstr BY <1>2, <1>3, BstrProps
<1> QED BY <1>2, <1>3, <1>4, <1>5 DEF h, k, c, e

\* There are few keys.
LEMMA KeySeqShort == \A s \in Seq(1 .. 14) : Ascending(s) => Len(s) \in u64
<1> SUFFICES ASSUME NEW s \in Seq(1 .. 14), Ascending(s) PROVE Len(s) \in u64 OBVIOUS
<1> DEFINE T == {n \in Nat : n <= Len(s) /\ n # 0 => s[n] >= n}
<1>1. Len(s) \in Nat /\ \A i \in 1 .. Len(s) : s[i] \in 1 .. 14 BY ElementOfSeq
<1>2. 0 \in T OBVIOUS
<1>3. ASSUME NEW n \in Nat, n \in T PROVE n + 1 \in T
  <2>1. ASSUME n + 1 <= Len(s) PROVE s[n + 1] >= n + 1
    <3>1. n + 1 \in 1 .. Len(s) BY <1>1, <2>1
    <3>2. s[n + 1] \in 1 .. 14 BY <1>1, <3>1
    <3>3. CASE n = 0 BY <3>2, <3>3
    <3>4. CASE n # 0
      <4>1. n \in 1 .. Len(s) /\ n < n + 1 BY <1>1, <2>1, <3>4
      <4>2. s[n] < s[n + 1] BY <3>1, <4>1 DEF Ascending
      <4>3. s[n] >= n BY <1>1, <1>3, <2>1, <3>4
      <4>4. s[n] \in 1 .. 14 BY <1>1, <4>1
      <4> DEFINE a == s[n]
                 b == s[n + 1]
      <4>5. a \in 1 .. 14 /\ b \in 1 .. 14 /\ a < b /\ a >= n BY <3>2, <4>2, <4>3, <4>4
      <4> HIDE DEF a, b
      <4>6. b >= n + 1 BY <4>5
      <4> QED BY <4>6 DEF b
    <3> QED BY <3>3, <3>4
  <2> QED BY <2>1
<1>4. \A n \in Nat : n \in T
  <2> HIDE DEF T
  <2> QED BY <1>2, <1>3, Induct, Zenon
<1>5. Len(s) # 0 => s[Len(s)] >= Len(s) BY <1>1, <1>4
<1>6. Len(s) <= 14
  <2>1. CASE Len(s) # 0
    <3>1. Len(s) \in 1 .. Len(s) BY <1>1, <2>1
    <3>2. s[Len(s)] \in 1 .. 14 BY <1>1, <3>1
    <3> QED BY <1>1, <1>5, <2>1, <3>2
  <2> QED BY <2>1
<1> DEFINE l == Len(s)
<1>7. l \in u8
  <2>1. l \in Nat /\ l <= 14 BY <1>1, <1>6
  <2> HIDE DEF l
  <2> QED BY <2>1 DEF u8
<1> QED BY <1>7, Range8

\* The keys of a set and their values make the bytes of a map.
MapBytes(K, d, keys, p) ==
    /\ keys = KeySeq(K) /\ keys \in Seq(1 .. 14) /\ K = {keys[i] : i \in 1 .. Len(keys)}
    /\ Len(keys) \in u64 /\ Len(keys) \in Nat
    /\ p \in Seq(Bstr) /\ Len(p) = Len(keys)
    /\ \A i \in 1 .. Len(keys) : p[i] = put_uint(0, keys[i]) \o put_value(d[keys[i]])
    /\ PutMap(d, K) = put_uint(5, Len(keys)) \o FlattenSeq(p)

\* The bytes of a map are a head and the fields, in the order of their keys.
LEMMA PutMapForm ==
  ASSUME NEW K, K \subseteq 1 .. 14, NEW d, \A k \in K : Scalar(d[k])
  PROVE  \E keys, p : MapBytes(K, d, keys, p)
<1> DEFINE keys == KeySeq(K)
           l == Len(keys)
           p == [i \in 1 .. l |-> put_uint(0, keys[i]) \o put_value(d[keys[i]])]
<1>1. keys \in Seq(1 .. 14) /\ Ascending(keys) /\ K = {keys[i] : i \in 1 .. l} BY KeySeqOf
<1>2. l \in u64 /\ l \in Nat /\ DOMAIN keys = 1 .. l
  <2> HIDE DEF keys
  <2> QED BY <1>1, KeySeqShort
<1>3. PutMap(d, K) = put_uint(5, l) \o FlattenSeq(p) BY <1>2 DEF PutMap
<1>4. p \in [1 .. l -> Bstr]
  <2> SUFFICES ASSUME NEW i \in 1 .. l PROVE put_uint(0, keys[i]) \o put_value(d[keys[i]]) \in Bstr
    OBVIOUS
  <2> DEFINE k == keys[i]
             x == d[k]
  <2>1. k \in 1 .. 14 /\ k \in K BY <1>1
  <2>2. Scalar(x) BY <2>1
  <2> HIDE DEF k, x
  <2>3. put_uint(0, k) \o put_value(x) \in Bstr BY <2>1, <2>2, SameField
  <2> QED BY <2>3 DEF k, x
<1>5. \A i \in 1 .. l : p[i] = put_uint(0, keys[i]) \o put_value(d[keys[i]]) OBVIOUS
<1>6. p \in Seq(Bstr) /\ Len(p) = l
  <2> HIDE DEF p, l
  <2> QED BY <1>2, <1>4
<1>7. keys = KeySeq(K) OBVIOUS
<1> HIDE DEF keys, p
<1>8. MapBytes(K, d, keys, p) BY <1>1, <1>2, <1>3, <1>5, <1>6, <1>7 DEF MapBytes
<1> QED BY <1>8

\* The same entries under the same keys.
SameOn(K, d, L, e) == K = L /\ \A k \in K : d[k] = e[k]

\* A map says its keys and their values.
LEMMA SameMapBytes ==
  ASSUME NEW K, K \subseteq 1 .. 14, NEW d, \A k \in K : Scalar(d[k]),
         NEW L, L \subseteq 1 .. 14, NEW e, \A k \in L : Scalar(e[k]),
         PutMap(d, K) = PutMap(e, L)
  PROVE  SameOn(K, d, L, e)
<1>1. PICK s, p : MapBytes(K, d, s, p) BY PutMapForm
<1>2. PICK t, q : MapBytes(L, e, t, q) BY PutMapForm
<1>3. /\ s \in Seq(1 .. 14) /\ K = {s[i] : i \in 1 .. Len(s)} /\ Len(s) \in u64 /\ Len(s) \in Nat
      /\ p \in Seq(Bstr) /\ Len(p) = Len(s) /\ s = KeySeq(K)
      /\ \A i \in 1 .. Len(s) : p[i] = put_uint(0, s[i]) \o put_value(d[s[i]])
      /\ PutMap(d, K) = put_uint(5, Len(s)) \o FlattenSeq(p)
  BY <1>1 DEF MapBytes
<1>4. /\ t \in Seq(1 .. 14) /\ L = {t[i] : i \in 1 .. Len(t)} /\ Len(t) \in u64 /\ Len(t) \in Nat
      /\ q \in Seq(Bstr) /\ Len(q) = Len(t)
      /\ \A i \in 1 .. Len(t) : q[i] = put_uint(0, t[i]) \o put_value(e[t[i]])
      /\ PutMap(e, L) = put_uint(5, Len(t)) \o FlattenSeq(q)
  BY <1>2 DEF MapBytes
<1>5. Len(s) = Len(t) /\ FlattenSeq(p) = FlattenSeq(q)
  <2> DEFINE h == put_uint(5, Len(s))
             k == put_uint(5, Len(t))
             a == FlattenSeq(p)
             b == FlattenSeq(q)
  <2>1. 5 \in 0 .. 7 OBVIOUS
  <2>2. h \in Bstr /\ k \in Bstr /\ Sd(h, k) /\ (h = k => Len(s) = Len(t)) BY <1>3, <1>4, <2>1, PutHead
  <2>3. a \in Bstr /\ b \in Bstr BY <1>3, <1>4, FlatBstr
  <2>4. h \o a = k \o b BY <1>3, <1>4
  <2> HIDE DEF h, k, a, b
  <2>5. h = k /\ a = b BY <2>2, <2>3, <2>4, SdSplit
  <2> QED BY <2>2, <2>5 DEF a, b
<1>6. ASSUME NEW i \in 1 .. Len(s)
      PROVE  Sd(p[i], q[i]) /\ (p[i] = q[i] => s[i] = t[i] /\ d[s[i]] = e[t[i]])
  <2> DEFINE a == s[i]
             b == t[i]
             x == d[a]
             y == e[b]
  <2>1. a \in 1 .. 14 /\ b \in 1 .. 14 /\ a \in K /\ b \in L BY <1>3, <1>4, <1>5, ElementOfSeq
  <2>2. Scalar(x) /\ Scalar(y) BY <2>1
  <2>3. p[i] = put_uint(0, a) \o put_value(x) /\ q[i] = put_uint(0, b) \o put_value(y)
    BY <1>3, <1>4, <1>5
  <2> HIDE DEF a, b, x, y
  <2> DEFINE u == put_uint(0, a) \o put_value(x)
             v == put_uint(0, b) \o put_value(y)
  <2>4. Sd(u, v) /\ (u = v => a = b /\ x = y) BY <2>1, <2>2, SameField
  <2>5. p[i] = u /\ q[i] = v BY <2>3
  <2> HIDE DEF u, v
  <2> QED BY <2>4, <2>5 DEF a, b, x, y
<1>7. p = q
  <2>1. CASE Len(p) = 0
    <3>1. Len(q) = 0 BY <1>3, <1>4, <1>5, <2>1
    <3> QED BY <1>3, <1>4, <2>1, <3>1, EmptySeq
  <2>2. CASE Len(p) > 0
    <3>1. \A i \in 1 .. Len(p) - 1 : Sd(p[i], q[i]) BY <1>3, <1>6
    <3> QED BY <1>3, <1>4, <1>5, <2>2, <3>1, EachField
  <2> QED BY <1>3, <2>1, <2>2
<1>8. \A i \in 1 .. Len(s) : s[i] = t[i] /\ d[s[i]] = e[t[i]] BY <1>6, <1>7
<1>9. K = L
  <2>1. {s[i] : i \in 1 .. Len(s)} = {t[i] : i \in 1 .. Len(s)} BY <1>8
  <2>2. K = {s[i] : i \in 1 .. Len(s)} /\ L = {t[i] : i \in 1 .. Len(s)} BY <1>3, <1>4, <1>5
  <2> QED BY <2>1, <2>2
<1>10. ASSUME NEW k \in K PROVE d[k] = e[k]
  <2>1. PICK i \in 1 .. Len(s) : k = s[i] BY <1>3
  <2>2. s[i] = t[i] /\ d[s[i]] = e[t[i]] BY <1>8
  <2> QED BY <2>1, <2>2
<1> QED BY <1>9, <1>10 DEF SameOn

\* And its bytes are a function of them.
LEMMA SameMapOf ==
  ASSUME NEW K, K \subseteq 1 .. 14, NEW d, NEW e, \A k \in K : d[k] = e[k]
  PROVE  PutMap(d, K) = PutMap(e, K)
<1> DEFINE keys == KeySeq(K)
           p == [i \in DOMAIN keys |-> put_uint(0, keys[i]) \o put_value(d[keys[i]])]
           q == [i \in DOMAIN keys |-> put_uint(0, keys[i]) \o put_value(e[keys[i]])]
<1>1. \A i \in DOMAIN keys : keys[i] \in K
  <2>1. keys \in Seq(1 .. 14) /\ K = {keys[i] : i \in 1 .. Len(keys)} BY KeySeqOf
  <2> HIDE DEF keys
  <2>2. DOMAIN keys = 1 .. Len(keys) BY <2>1
  <2> QED BY <2>1, <2>2
<1>2. p = q
  <2> HIDE DEF keys
  <2>1. \A i \in DOMAIN keys : d[keys[i]] = e[keys[i]] BY <1>1
  <2> QED BY <2>1
<1> QED BY <1>2, Zenon DEF PutMap

\* A document of its kind: no key but the kind's, none missing but an optional one, and
\* values of the kind's types.
OfKind(kind, d) ==
    /\ Document(Keys[kind], d) /\ DOMAIN Keys[kind] \ OptionalKeys(kind) \subseteq DOMAIN d
    /\ \A k \in DOMAIN d : d[k].t = Keys[kind][k].t

\* What a parser reads is a document of its kind, in the bytes its encoder makes.
LEMMA ParsedDocument ==
  ASSUME NEW buf \in Seq(u8), NEW kind \in DOMAIN Keys \ Requests, NEW d \in Parse(kind, buf)
  PROVE  OfKind(kind, d) /\ WireOf(d) = buf
<1> DEFINE rules == Keys[kind]
<1>1. d \in IF kind \in {"marks", "ack"} THEN ParsePositional(rules, buf) ELSE ParseMap(kind, rules, buf)
  BY DEF Parse
<1>2. CASE kind \notin {"marks", "ack"}
  <2>1. d \in ParseMap(kind, Keys[kind], buf) BY <1>1, <1>2
  <2>2. /\ Document(Keys[kind], d) /\ WireOf(d) = buf
        /\ DOMAIN Keys[kind] \ OptionalKeys(kind) \subseteq DOMAIN d
        /\ \A k \in DOMAIN d : Fits(Keys[kind][k], d[k])
    BY <2>1, MapDocument
  <2> QED BY <2>2 DEF OfKind, Fits
<1>3. CASE kind \in {"marks", "ack"}
  <2>1. rules = (IF kind = "marks" THEN MarksKeys ELSE AckKeys) BY <1>3 DEF Keys
  <2>2. \A k \in DOMAIN rules : rules[k].t \in {"uint", "bytes", "text"} BY <1>3, <2>1, PositionalTypes
  <2>3. d \in ParsePositional(rules, buf) BY <1>1, <1>3
  <2>4. KeyRules(rules) BY EveryKey
  <2> HIDE DEF rules
  <2>5. /\ Document(rules, d) /\ WireOf(d) = buf /\ DOMAIN rules \subseteq DOMAIN d
        /\ \A k \in DOMAIN d : d[k].t = rules[k].t
    BY <2>2, <2>3, <2>4, PositionalDocument
  <2> QED BY <2>5 DEF OfKind, rules
<1> QED BY <1>2, <1>3

\* The domain of a kind is its own.
LEMMA SameDomain ==
  ASSUME NEW v \in SignedKinds, NEW w \in SignedKinds, NEW a \in Bstr, NEW b \in Bstr,
         Domain(v) \o a = Domain(w) \o b
  PROVE  v = w /\ a = b
<1> DEFINE n == [freshness |-> 256, marks |-> 257, ack |-> 258, capability |-> 259, m3 |-> 260]
           i == n[v]
           j == n[w]
<1>1. /\ v \in {"freshness", "marks", "ack", "capability", "m3"}
      /\ w \in {"freshness", "marks", "ack", "capability", "m3"}
  BY DEF SignedKinds
<1>2. i \in Nat /\ j \in Nat /\ (i = j => v = w) BY <1>1
<1>3. <<i>> \o a = <<j>> \o b BY DEF Domain
<1> HIDE DEF i, j
<1> DEFINE p == <<i>> \o a
           q == <<j>> \o b
<1>4. p[1] = i BY <1>2, HeadByte
<1>5. q[1] = j BY <1>2, HeadByte
<1>6. i = j BY <1>3, <1>4, <1>5
<1>7. a = b BY <1>2, <1>3, <1>6, HeadTail
<1> QED BY <1>2, <1>6, <1>7

\* A kind's signed documents: the signature is a string beside what is signed.
LEMMA SignedParts ==
  ASSUME NEW kind \in SignedKinds, NEW d, OfKind(kind, d)
  PROVE  /\ DOMAIN d \subseteq 1 .. 14 /\ \A k \in DOMAIN d : Scalar(d[k])
         /\ SigKey(kind) \in DOMAIN d
         /\ d[SigKey(kind)] = [t |-> "bytes", v |-> d[SigKey(kind)].v]
         /\ SignedKeys(kind, d) \subseteq DOMAIN d
         /\ kind = "m3" => DOMAIN d = 1 .. 6 /\ SignedKeys(kind, d) = 1 .. 4
         /\ kind # "m3" => DOMAIN d = SignedKeys(kind, d) \cup {SigKey(kind)}
<1> DEFINE s == SigKey(kind)
<1>1. kind \in DOMAIN Keys \ Requests BY DEF SignedKinds, Keys, Requests
<1>2. /\ KeyRules(Keys[kind]) /\ s \in DOMAIN Keys[kind] \ OptionalKeys(kind)
      /\ Keys[kind][s] = Signature /\ (kind = "m3" => DOMAIN Keys[kind] = 1 .. 6)
  BY <1>1, EveryKey
<1>3. /\ DOMAIN d \subseteq DOMAIN Keys[kind] /\ (\A k \in DOMAIN d : Scalar(d[k]))
      /\ DOMAIN Keys[kind] \ OptionalKeys(kind) \subseteq DOMAIN d
      /\ \A k \in DOMAIN d : d[k].t = Keys[kind][k].t
  BY DEF OfKind, Document
<1> HIDE DEF s
<1>4. DOMAIN d \subseteq 1 .. 14 BY <1>2, <1>3 DEF KeyRules
<1>5. s \in DOMAIN d /\ d[s].t = "bytes"
  <2>1. s \in DOMAIN d BY <1>2, <1>3
  <2>2. Signature.t = "bytes" BY DEF Signature, Exactly, Rule
  <2> QED BY <1>2, <1>3, <2>1, <2>2
<1>6. d[s] = [t |-> "bytes", v |-> d[s].v] BY <1>3, <1>5 DEF Scalar
<1>7. SignedKeys(kind, d) = DOMAIN d \ (IF kind = "m3" THEN {5, 6} ELSE {s}) BY DEF SignedKeys, s
<1>8. ASSUME kind = "m3" PROVE DOMAIN d = 1 .. 6 /\ SignedKeys(kind, d) = 1 .. 4
  <2>1. OptionalKeys(kind) = {} BY <1>8 DEF OptionalKeys
  <2>2. DOMAIN d = 1 .. 6 BY <1>2, <1>3, <1>8, <2>1
  <2>3. (1 .. 6) \ {5, 6} = 1 .. 4 OBVIOUS
  <2> QED BY <1>7, <1>8, <2>2, <2>3
<1> QED BY <1>3, <1>4, <1>5, <1>6, <1>7, <1>8 DEF s

\* A verifier accepts a document only as the kind it was signed as and in its very bytes;
\* beside the provisioner's signature, which does not cover it, another certificate of
\* the same key may stand.  (verify_anchor_response, verify_marks_response,
\* verify_commit_ack, verify_capability, verify_provision_config)
THEOREM AcceptedAsSigned ==
  ASSUME NEW buf \in Seq(u8), NEW kind \in SignedKinds, NEW doc, OfKind(kind, doc),
         NEW v \in SignedKinds, Accepts(v, buf, Preimage(kind, doc), doc[SigKey(kind)].v)
  PROVE  v = kind /\ buf \in {WireOf(d) : d \in SameSigned(kind, doc)}
<1>1. PICK d \in Parse(v, buf) :
        /\ CertOk(v, d) /\ d[SigKey(v)].v = doc[SigKey(kind)].v
        /\ Preimage(v, d) = Preimage(kind, doc)
  BY DEF Accepts
<1>2. v \in DOMAIN Keys \ Requests BY DEF SignedKinds, Keys, Requests
<1>3. OfKind(v, d) /\ WireOf(d) = buf BY <1>2, ParsedDocument
<1> DEFINE K == SignedKeys(v, d)
           L == SignedKeys(kind, doc)
<1>4. /\ DOMAIN d \subseteq 1 .. 14 /\ (\A k \in DOMAIN d : Scalar(d[k])) /\ SigKey(v) \in DOMAIN d
      /\ d[SigKey(v)] = [t |-> "bytes", v |-> d[SigKey(v)].v] /\ K \subseteq DOMAIN d
      /\ v = "m3" => DOMAIN d = 1 .. 6 /\ K = 1 .. 4
      /\ v # "m3" => DOMAIN d = K \cup {SigKey(v)}
  BY <1>3, SignedParts
<1>5. /\ DOMAIN doc \subseteq 1 .. 14 /\ (\A k \in DOMAIN doc : Scalar(doc[k])) /\ SigKey(kind) \in DOMAIN doc
      /\ doc[SigKey(kind)] = [t |-> "bytes", v |-> doc[SigKey(kind)].v] /\ L \subseteq DOMAIN doc
      /\ kind = "m3" => DOMAIN doc = 1 .. 6 /\ L = 1 .. 4
      /\ kind # "m3" => DOMAIN doc = L \cup {SigKey(kind)}
  BY SignedParts
<1>6. Domain(v) \o PutMap(d, K) = Domain(kind) \o PutMap(doc, L) BY <1>1 DEF Preimage
<1> HIDE DEF K, L
<1>7. K \subseteq 1 .. 14 /\ (\A k \in K : Scalar(d[k])) /\ L \subseteq 1 .. 14 /\ \A k \in L : Scalar(doc[k])
  BY <1>4, <1>5
<1>8. PutMap(d, K) \in Bstr /\ PutMap(doc, L) \in Bstr
  <2>1. ASSUME NEW M, M \subseteq 1 .. 14, NEW e, \A k \in M : Scalar(e[k]) PROVE PutMap(e, M) \in Bstr
    <3>1. PICK s, p : MapBytes(M, e, s, p) BY <2>1, PutMapForm
    <3>2. Len(s) \in u64 /\ p \in Seq(Bstr) /\ PutMap(e, M) = put_uint(5, Len(s)) \o FlattenSeq(p)
      BY <3>1 DEF MapBytes
    <3>3. 5 \in 0 .. 7 OBVIOUS
    <3>4. put_uint(5, Len(s)) \in Bstr /\ FlattenSeq(p) \in Bstr BY <3>2, <3>3, PutHead, FlatBstr
    <3> QED BY <3>2, <3>4, BstrProps
  <2> QED BY <1>7, <2>1
<1>9. v = kind /\ PutMap(d, K) = PutMap(doc, L) BY <1>6, <1>8, SameDomain
<1>10. K = L /\ \A k \in K : d[k] = doc[k]
  <2>1. SameOn(K, d, L, doc) BY <1>7, <1>9, SameMapBytes
  <2> QED BY <2>1 DEF SameOn
<1>11. d[SigKey(kind)] = doc[SigKey(kind)] BY <1>1, <1>4, <1>5, <1>9
<1>12. CASE kind # "m3"
  <2>1. DOMAIN d = DOMAIN doc BY <1>4, <1>5, <1>9, <1>10, <1>12
  <2>2. \A k \in DOMAIN d : d[k] = doc[k] BY <1>4, <1>9, <1>10, <1>11, <1>12
  <2>3. PutMap(d, DOMAIN d) = PutMap(doc, DOMAIN d) BY <1>4, <2>2, SameMapOf
  <2>4. WireOf(doc) = buf BY <1>3, <2>1, <2>3 DEF WireOf
  <2>5. doc \in SameSigned(kind, doc) BY <1>12 DEF SameSigned
  <2> QED BY <1>9, <2>4, <2>5
<1>13. CASE kind = "m3"
  <2> DEFINE c == d[6].v
             e == [doc EXCEPT ![6].v = c]
  <2>1. c \in IssuedCerts BY <1>1, <1>9, <1>13 DEF CertOk
  <2>2. e \in SameSigned(kind, doc) BY <1>13, <2>1 DEF SameSigned
  <2>3. DOMAIN d = 1 .. 6 /\ DOMAIN doc = 1 .. 6 /\ K = 1 .. 4 BY <1>4, <1>5, <1>9, <1>13
  <2>4. d[6].t = "bytes" /\ doc[6].t = "bytes"
    <3>1. \A k \in 1 .. 6 : d[k].t = M3Keys[k].t /\ doc[k].t = M3Keys[k].t
      <4>1. Keys["m3"] = M3Keys BY DEF Keys
      <4> QED BY <1>3, <1>9, <1>13, <2>3, <4>1 DEF OfKind
    <3>2. M3Keys[6].t = "bytes" BY DEF M3Keys, AtMost, Rule
    <3> QED BY <3>1, <3>2
  <2>5. d[6] = [t |-> "bytes", v |-> c] /\ doc[6] = [t |-> "bytes", v |-> doc[6].v]
    BY <1>4, <1>5, <2>3, <2>4 DEF Scalar
  <2>6. /\ DOMAIN e = 1 .. 6 /\ e[6] = [doc[6] EXCEPT !.v = c]
        /\ \A k \in 1 .. 6 : k # 6 => e[k] = doc[k]
    BY <2>3
  <2>7. e[6] = d[6] BY <2>5, <2>6
  <2>8. \A k \in 1 .. 6 : e[k] = d[k]
    <3>1. SigKey(kind) = 5 BY <1>13 DEF SigKey
    <3> HIDE DEF e
    <3>2. \A k \in 1 .. 6 : k \in 1 .. 4 \/ k = 5 \/ k = 6 OBVIOUS
    <3> QED BY <1>10, <1>11, <2>3, <2>6, <2>7, <3>1, <3>2
  <2> HIDE DEF e, c
  <2>9. PutMap(e, 1 .. 6) = PutMap(d, 1 .. 6)
    <3>1. 1 .. 6 \subseteq 1 .. 14 OBVIOUS
    <3> QED BY <2>8, <3>1, SameMapOf
  <2>10. WireOf(e) = buf BY <1>3, <2>3, <2>6, <2>9 DEF WireOf
  <2> QED BY <1>9, <2>2, <2>10
<1> QED BY <1>12, <1>13

-----------------------------------------------------------------------------
(* Marks *)

\* The order of Rust's byte slices is strict.
LEMMA LexAsym ==
  ASSUME NEW a \in Bstr, NEW b \in Bstr, LexLess(a, b), LexLess(b, a)
  PROVE  FALSE
<1>1. PICK i \in 1 .. Len(b) : /\ i <= Len(a) + 1 /\ \A j \in 1 .. i - 1 : a[j] = b[j]
                               /\ i = Len(a) + 1 \/ a[i] < b[i]
  BY DEF LexLess
<1>2. PICK k \in 1 .. Len(a) : /\ k <= Len(b) + 1 /\ \A j \in 1 .. k - 1 : b[j] = a[j]
                               /\ k = Len(b) + 1 \/ b[k] < a[k]
  BY DEF LexLess
<1>3. Len(a) \in Nat /\ Len(b) \in Nat BY BstrProps
<1>4. \A j \in 1 .. Len(a) : a[j] \in Int BY BstrProps
<1>5. \A j \in 1 .. Len(b) : b[j] \in Int BY BstrProps
<1>6. CASE i < k
  <2>1. a[i] = b[i] /\ i <= Len(a) BY <1>2, <1>3, <1>6
  <2>2. a[i] \in Int /\ a[i] < b[i] BY <1>1, <1>3, <1>4, <2>1
  <2> QED BY <2>1, <2>2
<1>7. CASE k < i
  <2>1. a[k] = b[k] /\ k <= Len(b) BY <1>1, <1>3, <1>7
  <2>2. b[k] \in Int /\ b[k] < a[k] BY <1>2, <1>3, <1>5, <2>1
  <2> QED BY <2>1, <2>2
<1>8. CASE i = k
  <2> DEFINE x == a[i]
             y == b[i]
  <2>1. x < y /\ y < x BY <1>1, <1>2, <1>3, <1>8
  <2>2. x \in Int /\ y \in Int BY <1>3, <1>4, <1>5, <1>8
  <2> HIDE DEF x, y
  <2> QED BY <2>1, <2>2
<1> QED BY <1>6, <1>7, <1>8

\* And it is transitive.
LEMMA LexTrans ==
  ASSUME NEW a \in Bstr, NEW b \in Bstr, NEW c \in Bstr, LexLess(a, b), LexLess(b, c)
  PROVE  LexLess(a, c)
<1>1. PICK i \in 1 .. Len(b) : /\ i <= Len(a) + 1 /\ \A j \in 1 .. i - 1 : a[j] = b[j]
                               /\ i = Len(a) + 1 \/ a[i] < b[i]
  BY DEF LexLess
<1>2. PICK k \in 1 .. Len(c) : /\ k <= Len(b) + 1 /\ \A j \in 1 .. k - 1 : b[j] = c[j]
                               /\ k = Len(b) + 1 \/ b[k] < c[k]
  BY DEF LexLess
<1>3. Len(a) \in Nat /\ Len(b) \in Nat /\ Len(c) \in Nat BY BstrProps
<1>4. \A j \in 1 .. Len(a) : a[j] \in Int BY BstrProps
<1>5. \A j \in 1 .. Len(b) : b[j] \in Int BY BstrProps
<1>6. \A j \in 1 .. Len(c) : c[j] \in Int BY BstrProps
<1>7. CASE i < k
  <2>1. i \in 1 .. Len(c) /\ b[i] = c[i] BY <1>2, <1>3, <1>7
  <2>2. \A j \in 1 .. i - 1 : a[j] = c[j] BY <1>1, <1>2, <1>7
  <2>3. i = Len(a) + 1 \/ a[i] < c[i] BY <1>1, <2>1
  <2> QED BY <1>1, <2>1, <2>2, <2>3 DEF LexLess
<1>8. CASE k < i
  <2>1. k <= Len(b) /\ k <= Len(a) /\ a[k] = b[k] BY <1>1, <1>3, <1>8
  <2>2. a[k] < c[k] BY <1>2, <1>3, <2>1
  <2>3. \A j \in 1 .. k - 1 : a[j] = c[j] BY <1>1, <1>2, <1>8
  <2>4. k <= Len(a) + 1 BY <1>3, <2>1
  <2> QED BY <2>2, <2>3, <2>4 DEF LexLess
<1>9. CASE i = k
  <2>1. \A j \in 1 .. i - 1 : a[j] = c[j] BY <1>1, <1>2, <1>9
  <2>2. b[i] < c[i] BY <1>2, <1>3, <1>9
  <2>3. i = Len(a) + 1 \/ a[i] < c[i]
    <3>1. CASE i # Len(a) + 1
      <4> DEFINE x == a[i]
                 y == b[i]
                 z == c[i]
      <4>1. x < y /\ y < z BY <1>1, <2>2, <3>1
      <4>2. x \in Int /\ y \in Int /\ z \in Int BY <1>1, <1>3, <1>4, <1>5, <1>6, <1>9, <3>1
      <4> HIDE DEF x, y, z
      <4>3. x < z BY <4>1, <4>2
      <4> QED BY <4>3 DEF x, z
    <3> QED BY <3>1
  <2>4. i \in 1 .. Len(c) /\ i <= Len(a) + 1 BY <1>1, <1>9
  <2> QED BY <2>1, <2>3, <2>4 DEF LexLess
<1> QED BY <1>7, <1>8, <1>9

\* A row's key.
Row(r) == r.authority \in Bstr /\ r.scope_class \in Nat /\ r.scope_target \in Bstr

\* The order of rows is strict.  (MarkRow ordering of encode_marks_payload)
LEMMA RowAsym ==
  ASSUME NEW r, NEW s, Row(r), Row(s), RowLess(r, s), RowLess(s, r)
  PROVE  FALSE
<1> DEFINE a == r.authority
           b == s.authority
           c == r.scope_class
           d == s.scope_class
           e == r.scope_target
           f == s.scope_target
<1>1. a \in Bstr /\ b \in Bstr /\ c \in Int /\ d \in Int /\ e \in Bstr /\ f \in Bstr BY DEF Row
<1>2. LexLess(a, b) \/ (a = b /\ c < d) \/ (a = b /\ c = d /\ LexLess(e, f)) BY DEF RowLess
<1>3. LexLess(b, a) \/ (b = a /\ d < c) \/ (b = a /\ d = c /\ LexLess(f, e)) BY DEF RowLess
<1> HIDE DEF a, b, c, d, e, f
<1>4. ~ (LexLess(a, b) /\ LexLess(b, a)) BY <1>1, LexAsym
<1>5. ~ (LexLess(e, f) /\ LexLess(f, e)) BY <1>1, LexAsym
<1>6. a = b => ~ LexLess(a, b) /\ ~ LexLess(b, a)
  <2>1. ASSUME a = b, LexLess(a, b) PROVE FALSE
    <3>1. LexLess(b, a) BY <2>1
    <3> QED BY <1>4, <2>1, <3>1
  <2>2. ASSUME a = b, LexLess(b, a) PROVE FALSE
    <3>1. LexLess(a, b) BY <2>2
    <3> QED BY <1>4, <2>2, <3>1
  <2> QED BY <2>1, <2>2
<1>7. ~ (c < d /\ d < c) /\ (c = d => ~ c < d /\ ~ d < c) BY <1>1
<1> QED BY <1>2, <1>3, <1>4, <1>5, <1>6, <1>7

\* And it is transitive.
LEMMA RowTrans ==
  ASSUME NEW r, NEW s, NEW t, Row(r), Row(s), Row(t), RowLess(r, s), RowLess(s, t)
  PROVE  RowLess(r, t)
<1> DEFINE a == r.authority
           b == s.authority
           c == t.authority
           d == r.scope_class
           e == s.scope_class
           f == t.scope_class
           u == r.scope_target
           v == s.scope_target
           w == t.scope_target
<1>1. /\ a \in Bstr /\ b \in Bstr /\ c \in Bstr /\ d \in Int /\ e \in Int /\ f \in Int
      /\ u \in Bstr /\ v \in Bstr /\ w \in Bstr
  BY DEF Row
<1>2. LexLess(a, b) \/ (a = b /\ d < e) \/ (a = b /\ d = e /\ LexLess(u, v)) BY DEF RowLess
<1>3. LexLess(b, c) \/ (b = c /\ e < f) \/ (b = c /\ e = f /\ LexLess(v, w)) BY DEF RowLess
<1>4. RowLess(r, t) <=> LexLess(a, c) \/ (a = c /\ d < f) \/ (a = c /\ d = f /\ LexLess(u, w))
  BY DEF RowLess
<1> HIDE DEF a, b, c, d, e, f, u, v, w
<1>5. LexLess(a, b) /\ LexLess(b, c) => LexLess(a, c) BY <1>1, LexTrans
<1>6. LexLess(u, v) /\ LexLess(v, w) => LexLess(u, w) BY <1>1, LexTrans
<1>7. (d < e /\ e < f => d < f) /\ (d = e /\ e < f => d < f) /\ (d < e /\ e = f => d < f) BY <1>1
<1>8. (LexLess(a, b) /\ b = c => LexLess(a, c)) /\ (a = b /\ LexLess(b, c) => LexLess(a, c)) OBVIOUS
<1> QED BY <1>2, <1>3, <1>4, <1>5, <1>6, <1>7, <1>8

\* Rows that ascend from each to the next.
RowsAscend(s) ==
    /\ Len(s) \in Nat /\ DOMAIN s = 1 .. Len(s) /\ s = [i \in DOMAIN s |-> s[i]]
    /\ (\A i \in 1 .. Len(s) : Row(s[i]))
    /\ \A i \in 1 .. Len(s) : \A j \in 1 .. Len(s) : j = i + 1 => RowLess(s[i], s[j])

\* Each is then below all that follow.
LEMMA RowsOrdered ==
  ASSUME NEW s, RowsAscend(s), NEW i \in 1 .. Len(s), NEW j \in 1 .. Len(s), i < j
  PROVE  RowLess(s[i], s[j])
<1> DEFINE n == Len(s)
           T == {k \in Nat : i + k + 1 <= n => RowLess(s[i], s[i + k + 1])}
<1>1. n \in Nat /\ (\A l \in 1 .. n : Row(s[l])) /\ \A l, m \in 1 .. n : m = l + 1 => RowLess(s[l], s[m])
  BY DEF RowsAscend
<1>2. i \in 1 .. n /\ j \in 1 .. n OBVIOUS
<1> HIDE DEF n
<1>3. 0 \in T
  <2>1. i + 0 + 1 = i + 1 BY <1>2
  <2>2. i + 1 <= n => i + 1 \in 1 .. n BY <1>1, <1>2
  <2>3. i + 1 <= n => RowLess(s[i], s[i + 1]) BY <1>1, <1>2, <2>2
  <2> QED BY <2>1, <2>3
<1>4. ASSUME NEW k \in Nat, k \in T PROVE k + 1 \in T
  <2> DEFINE a == i + k + 1
             b == i + (k + 1) + 1
  <2>1. ASSUME b <= n PROVE RowLess(s[i], s[b])
    <3>1. a \in 1 .. n /\ b \in 1 .. n /\ b = a + 1 /\ a <= n BY <1>1, <1>2, <2>1
    <3>2. a <= n => RowLess(s[i], s[a]) BY <1>4
    <3> HIDE DEF a, b
    <3>3. RowLess(s[i], s[a]) /\ RowLess(s[a], s[b]) BY <1>1, <3>1, <3>2
    <3>4. Row(s[i]) /\ Row(s[a]) /\ Row(s[b]) BY <1>1, <1>2, <3>1
    <3> QED BY <3>3, <3>4, RowTrans
  <2> QED BY <2>1
<1>5. \A k \in Nat : k \in T
  <2> HIDE DEF T
  <2> QED BY <1>3, <1>4, Induct, Zenon
<1>6. j - i - 1 \in Nat /\ i + (j - i - 1) + 1 = j /\ j <= n BY <1>1, <1>2
<1>7. j - i - 1 \in T
  <2> HIDE DEF T
  <2> QED BY <1>5, <1>6
<1> QED BY <1>6, <1>7

\* Of as many places in ascending order there is one choice.
LEMMA OnlyOrder ==
  ASSUME NEW n \in Nat, NEW q \in [1 .. n -> 1 .. n], \A i, j \in 1 .. n : i < j => q[i] < q[j]
  PROVE  \A i \in 1 .. n : q[i] = i
<1> DEFINE T == {k \in Nat : k + 1 <= n => q[k + 1] >= k + 1}
           U == {k \in Nat : k < n => q[n - k] <= n - k}
<1>1. 0 \in T
  <2>1. 0 + 1 <= n => 1 \in 1 .. n OBVIOUS
  <2>2. 0 + 1 <= n => q[1] \in 1 .. n BY <2>1
  <2> QED BY <2>2
<1>2. ASSUME NEW k \in Nat, k \in T PROVE k + 1 \in T
  <2>1. ASSUME (k + 1) + 1 <= n PROVE q[(k + 1) + 1] >= (k + 1) + 1
    <3> DEFINE a == k + 1
               b == (k + 1) + 1
               x == q[a]
               y == q[b]
    <3>1. a \in 1 .. n /\ b \in 1 .. n /\ a < b /\ b = a + 1 /\ k + 1 <= n BY <2>1
    <3>2. x >= a BY <1>2, <3>1
    <3> HIDE DEF a, b
    <3>3. x < y /\ x \in 1 .. n /\ y \in 1 .. n BY <3>1
    <3> HIDE DEF x, y
    <3>4. y >= b BY <3>1, <3>2, <3>3
    <3> QED BY <3>4 DEF y, b
  <2> QED BY <2>1
<1>3. \A k \in Nat : k \in T
  <2> HIDE DEF T
  <2> QED BY <1>1, <1>2, Induct, Zenon
<1>4. 0 \in U
  <2>1. n - 0 = n /\ (0 < n => n \in 1 .. n) OBVIOUS
  <2>2. 0 < n => q[n] \in 1 .. n BY <2>1
  <2>3. 0 < n => q[n] <= n BY <2>2
  <2> QED BY <2>1, <2>3
<1>5. ASSUME NEW k \in Nat, k \in U PROVE k + 1 \in U
  <2>1. ASSUME k + 1 < n PROVE q[n - (k + 1)] <= n - (k + 1)
    <3> DEFINE a == n - (k + 1)
               b == n - k
               x == q[a]
               y == q[b]
    <3>1. a \in 1 .. n /\ b \in 1 .. n /\ a < b /\ b = a + 1 /\ k < n BY <2>1
    <3>2. y <= b BY <1>5, <3>1
    <3> HIDE DEF a, b
    <3>3. x < y /\ x \in 1 .. n /\ y \in 1 .. n BY <3>1
    <3> HIDE DEF x, y
    <3>4. x <= a BY <3>1, <3>2, <3>3
    <3> QED BY <3>4 DEF x, a
  <2> QED BY <2>1
<1>6. \A k \in Nat : k \in U
  <2> HIDE DEF U
  <2> QED BY <1>4, <1>5, Induct, Zenon
<1>7. ASSUME NEW i \in 1 .. n PROVE q[i] = i
  <2>1. i - 1 \in Nat /\ (i - 1) + 1 = i /\ n - i \in Nat /\ n - (n - i) = i /\ i <= n /\ n - i < n OBVIOUS
  <2>2. i - 1 \in T
    <3> HIDE DEF T
    <3> QED BY <1>3, <2>1
  <2>3. n - i \in U
    <3> HIDE DEF U
    <3> QED BY <1>6, <2>1
  <2>4. q[i] >= i
    <3>1. (i - 1) + 1 <= n => q[(i - 1) + 1] >= (i - 1) + 1 BY <2>2
    <3> QED BY <2>1, <3>1
  <2>5. q[i] <= i
    <3>1. n - i < n => q[n - (n - i)] <= n - (n - i) BY <2>3
    <3> QED BY <2>1, <3>1
  <2>6. q[i] \in 1 .. n OBVIOUS
  <2> QED BY <2>4, <2>5, <2>6
<1> QED BY <1>7

\* Rows that ascend are in order.
LEMMA SortSorted ==
  ASSUME NEW s, RowsAscend(s)
  PROVE  sort_by(s) = s
<1> DEFINE n == Len(s)
           Before(i, j) == RowLess(s[i], s[j]) \/ (~ RowLess(s[j], s[i]) /\ i < j)
           Good(q) == \A i, j \in DOMAIN s : i < j => Before(q[i], q[j])
           at == CHOOSE q \in [DOMAIN s -> DOMAIN s] : Good(q)
           id == [i \in DOMAIN s |-> i]
<1>1. sort_by(s) = [i \in DOMAIN s |-> s[at[i]]] BY Zenon DEF sort_by
<1>2. /\ n \in Nat /\ DOMAIN s = 1 .. n /\ s = [i \in DOMAIN s |-> s[i]]
      /\ \A i \in 1 .. n : Row(s[i])
  BY DEF RowsAscend
<1>3. \A i, j \in 1 .. n : i < j => RowLess(s[i], s[j])
  <2> SUFFICES ASSUME NEW i \in 1 .. n, NEW j \in 1 .. n, i < j PROVE RowLess(s[i], s[j]) OBVIOUS
  <2> QED BY RowsOrdered
<1>4. id \in [DOMAIN s -> DOMAIN s] /\ Good(id) BY <1>2, <1>3
<1>5. at \in [DOMAIN s -> DOMAIN s] /\ Good(at)
  <2> HIDE DEF id, Good
  <2> QED BY <1>4
<1> HIDE DEF at
<1>6. ASSUME NEW a \in 1 .. n, NEW b \in 1 .. n, Before(a, b) PROVE a < b
  <2>1. CASE b < a
    <3>1. RowLess(s[b], s[a]) BY <1>3, <2>1
    <3>2. RowLess(s[a], s[b]) BY <1>6, <3>1
    <3> QED BY <1>2, <3>1, <3>2, RowAsym
  <2>2. CASE a = b
    <3>1. RowLess(s[a], s[a]) BY <1>6, <2>2
    <3> QED BY <1>2, <3>1, RowAsym
  <2> QED BY <1>2, <2>1, <2>2
<1>7. at \in [1 .. n -> 1 .. n] BY <1>2, <1>5
<1>8. ASSUME NEW i \in 1 .. n, NEW j \in 1 .. n, i < j PROVE at[i] < at[j]
  <2>1. Before(at[i], at[j]) BY <1>2, <1>5, <1>8
  <2>2. at[i] \in 1 .. n /\ at[j] \in 1 .. n BY <1>7
  <2> DEFINE a == at[i]
             b == at[j]
  <2> HIDE DEF a, b, Before
  <2>3. Before(a, b) /\ a \in 1 .. n /\ b \in 1 .. n BY <2>1, <2>2 DEF a, b
  <2>4. a < b BY <1>6, <2>3
  <2> QED BY <2>4 DEF a, b
<1>9. \A i \in 1 .. n : at[i] = i
  <2> HIDE DEF n
  <2> QED BY <1>2, <1>7, <1>8, OnlyOrder
<1>10. [i \in DOMAIN s |-> s[at[i]]] = [i \in DOMAIN s |-> s[i]] BY <1>2, <1>9
<1> QED BY <1>1, <1>2, <1>10

\* A few strings, one after the other.
LEMMA FlatThree ==
  ASSUME NEW p \in Seq(Bstr), NEW f, Joins(p, f), 3 <= Len(p)
  PROVE  f[3] = (p[1] \o p[2]) \o p[3]
<1>1. \A k \in 1 .. Len(p) : f[k] = f[k - 1] \o p[k] BY DEF Joins
<1>2. 1 \in 1 .. Len(p) /\ 2 \in 1 .. Len(p) /\ 3 \in 1 .. Len(p) OBVIOUS
<1>3. 1 - 1 = 0 /\ 2 - 1 = 1 /\ 3 - 1 = 2 OBVIOUS
<1>4. f[1] = f[1 - 1] \o p[1] /\ f[2] = f[2 - 1] \o p[2] /\ f[3] = f[3 - 1] \o p[3]
  BY <1>1, <1>2, Zenon
<1>5. f[0] = << >> BY DEF Joins
<1>6. << >> \o p[1] = p[1]
  <2>1. p[1] \in Bstr BY <1>2, ElementOfSeq
  <2> QED BY <2>1, BstrProps
<1> QED BY <1>3, <1>4, <1>5, <1>6

\* Five strings, one after the other.
LEMMA FlatFive ==
  ASSUME NEW p \in Seq(Bstr), NEW f, Joins(p, f), 5 <= Len(p)
  PROVE  f[5] = (((p[1] \o p[2]) \o p[3]) \o p[4]) \o p[5]
<1>1. \A k \in 1 .. Len(p) : f[k] = f[k - 1] \o p[k] BY DEF Joins
<1>2. 3 <= Len(p) /\ 4 \in 1 .. Len(p) /\ 5 \in 1 .. Len(p) OBVIOUS
<1>3. 4 - 1 = 3 /\ 5 - 1 = 4 OBVIOUS
<1>4. f[4] = f[4 - 1] \o p[4] /\ f[5] = f[5 - 1] \o p[5] BY <1>1, <1>2, Zenon
<1>5. f[3] = (p[1] \o p[2]) \o p[3] BY <1>2, FlatThree
<1>6. f[4] = ((p[1] \o p[2]) \o p[3]) \o p[4] BY <1>3, <1>4, <1>5
<1> QED BY <1>3, <1>4, <1>6

\* And six.
LEMMA FlatSix ==
  ASSUME NEW p \in Seq(Bstr), NEW f, Joins(p, f), 6 <= Len(p)
  PROVE  f[6] = (((((p[1] \o p[2]) \o p[3]) \o p[4]) \o p[5]) \o p[6])
<1>1. \A k \in 1 .. Len(p) : f[k] = f[k - 1] \o p[k] BY DEF Joins
<1>2. 5 <= Len(p) /\ 6 \in 1 .. Len(p) /\ 6 - 1 = 5 OBVIOUS
<1>3. f[6] = f[6 - 1] \o p[6] BY <1>1, <1>2, Zenon
<1> DEFINE t == (((p[1] \o p[2]) \o p[3]) \o p[4]) \o p[5]
<1>4. f[5] = t BY <1>2, FlatFive
<1> HIDE DEF t
<1>5. f[6] = t \o p[6] BY <1>2, <1>3, <1>4
<1> QED BY <1>5 DEF t

\* Strings after one another are the same strings after what comes before them.
Behind(x, s, t) == s \in Bstr /\ t = x \o s

\* Behind, for one string more.
LEMMA NextAfter ==
  ASSUME NEW x \in Bstr, NEW s, NEW t, Behind(x, s, t), NEW c \in Bstr
  PROVE  Behind(x, s \o c, t \o c)
BY Assoc, Joined DEF Behind

\* Six strings put one by one after another are the six joined, after it.
LEMMA AfterSix ==
  ASSUME NEW x \in Bstr, NEW p \in Seq(Bstr), Len(p) = 6
  PROVE  (((((x \o p[1]) \o p[2]) \o p[3]) \o p[4]) \o p[5]) \o p[6] = x \o FlattenSeq(p)
<1> DEFINE a == p[1]
           b == p[2]
           c == p[3]
           d == p[4]
           e == p[5]
           f == p[6]
<1>1. /\ a \in Bstr /\ b \in Bstr /\ c \in Bstr /\ d \in Bstr /\ e \in Bstr /\ f \in Bstr
  <2>1. \A i \in 1 .. 6 : p[i] \in Bstr BY ElementOfSeq
  <2>2. 1 \in 1 .. 6 /\ 2 \in 1 .. 6 /\ 3 \in 1 .. 6 /\ 4 \in 1 .. 6 /\ 5 \in 1 .. 6 /\ 6 \in 1 .. 6
    OBVIOUS
  <2> QED BY <2>1, <2>2
<1>2. FlattenSeq(p) = ((((a \o b) \o c) \o d) \o e) \o f
  <2>1. PICK g : Joins(p, g) /\ FlattenSeq(p) = g[Len(p)] BY Flattened
  <2>2. 6 <= Len(p) OBVIOUS
  <2>3. FlattenSeq(p) = g[6] BY <2>1
  <2>4. g[6] = (((((p[1] \o p[2]) \o p[3]) \o p[4]) \o p[5]) \o p[6]) BY <2>1, <2>2, FlatSix, Zenon
  <2> QED BY <2>3, <2>4, Zenon
<1> HIDE DEF a, b, c, d, e, f
<1>3. Behind(x, a, x \o a) BY <1>1 DEF Behind
<1>4. Behind(x, a \o b, (x \o a) \o b) BY <1>1, <1>3, NextAfter
<1>5. Behind(x, (a \o b) \o c, ((x \o a) \o b) \o c) BY <1>1, <1>4, NextAfter
<1>6. Behind(x, ((a \o b) \o c) \o d, (((x \o a) \o b) \o c) \o d) BY <1>1, <1>5, NextAfter
<1>7. Behind(x, (((a \o b) \o c) \o d) \o e, ((((x \o a) \o b) \o c) \o d) \o e) BY <1>1, <1>6, NextAfter
<1>8. Behind(x, ((((a \o b) \o c) \o d) \o e) \o f, (((((x \o a) \o b) \o c) \o d) \o e) \o f)
  BY <1>1, <1>7, NextAfter
<1>9. (((((x \o a) \o b) \o c) \o d) \o e) \o f = x \o FlattenSeq(p)
  BY <1>2, <1>8, Zenon DEF Behind
<1> QED BY <1>9 DEF a, b, c, d, e, f

\* A list of few items that is read to its end.
LEMMA ListTaken ==
  ASSUME NEW buf \in Seq(u8), NEW list, ItemList(list), NEW pos \in Positions(buf),
         typed_list(buf, list)[pos].ok
  PROVE  \E v, p : ListForm(buf, list, pos, Len(list), typed_list(buf, list)[pos], v, p)
<1>1. typed_list(buf, list)[pos] = ListRead(buf, list, pos)[Len(list)] BY TypedList
<1>2. Len(list) \in 0 .. Len(list) BY DEF ItemList
<1> QED BY <1>1, <1>2, ListReads

\* Heads that announce one number, and numbers and strings with a name.
LEMMA TakenItems ==
  ASSUME NEW x, NEW s
  PROVE  /\ \A k \in Nat : TypedItem("uint", {k}, x, s) => s = put_uint(0, k)
         /\ \A k \in Nat : TypedItem("array", {k}, x, s) => s = put_uint(4, k)
         /\ \A k \in Nat : TypedItem("map", {k}, x, s) => s = put_uint(5, k)
         /\ \A args : TypedItem("array", args, x, s) => s = put_uint(4, x.v) /\ x.v \in args
         /\ \A args : TypedItem("uint", args, x, s) => s = put_uint(0, x.v) /\ x.v \in u64
         /\ \A args : TypedItem("bytes", args, x, s) => s = put_bytes(x.v) /\ x.v \in Bstr
<1>1. Major["uint"] = 0 /\ Major["array"] = 4 /\ Major["map"] = 5 BY DEF Major
<1>2. ASSUME NEW args, TypedItem("bytes", args, x, s) PROVE s = put_bytes(x.v) /\ x.v \in Bstr
  <2>1. x.t = "bytes" /\ Scalar(x) /\ s = put_value(x) BY <1>2 DEF TypedItem
  <2>2. x.v \in Seq(u8) BY <2>1 DEF Scalar
  <2>3. x.v \in Bstr BY <2>2, ByteStrings8
  <2>4. s = put_bytes(x.v) BY <2>1 DEF put_value
  <2> QED BY <2>3, <2>4
<1> QED BY <1>1, <1>2 DEF TypedItem

\* The three lists of a marks payload.
LEMMA MarksLists ==
  /\ ItemList(RowItems) /\ Len(RowItems) = 5
  /\ ItemList(MarksHead) /\ Len(MarksHead) = 3
  /\ ItemList(MarksTail) /\ Len(MarksTail) = 6
<1> DEFINE kinds == {"uint", "bytes", "text", "array", "map"}
           Apart(list, n) == \A i, j \in 1 .. n : i # j => ToSet(list[i][1]) \cap ToSet(list[j][1]) = {}
<1>1. /\ Len(RowItems) = 5 /\ \A i \in 1 .. 5 : RowItems[i][2] \in kinds
      /\ RowItems[1][1] = << >> /\ RowItems[2][1] = <<"authority">>
      /\ RowItems[3][1] = <<"scope_class">> /\ RowItems[4][1] = <<"scope_target">>
      /\ RowItems[5][1] = <<"counter">>
  BY DEF RowItems, Digest, Uint
<1>2. /\ Len(MarksHead) = 3 /\ \A i \in 1 .. 3 : MarksHead[i][2] \in kinds
      /\ MarksHead[1][1] = << >> /\ MarksHead[2][1] = << >> /\ MarksHead[3][1] = <<"rows">>
  BY DEF MarksHead, Key
<1>3. /\ Len(MarksTail) = 6 /\ \A i \in 1 .. 6 : MarksTail[i][2] \in kinds
      /\ MarksTail[1][1] = << >> /\ MarksTail[3][1] = << >> /\ MarksTail[5][1] = << >>
      /\ MarksTail[2][1] = <<"cumulative">> /\ MarksTail[4][1] = <<"lifetime">>
      /\ MarksTail[6][1] = <<"recovery">>
  BY DEF MarksTail, Key, Digest, Uint
<1>4. \A i \in 1 .. 3 : i = 1 \/ i = 2 \/ i = 3 OBVIOUS
<1>5. \A i \in 1 .. 5 : i = 1 \/ i = 2 \/ i = 3 \/ i = 4 \/ i = 5 OBVIOUS
<1>6. \A i \in 1 .. 6 : i = 1 \/ i = 2 \/ i = 3 \/ i = 4 \/ i = 5 \/ i = 6 OBVIOUS
<1> DEFINE RowPlace(i, f) == \/ (i = 2 /\ f = "authority")
                              \/ (i = 3 /\ f = "scope_class")
                              \/ (i = 4 /\ f = "scope_target")
                              \/ (i = 5 /\ f = "counter")
           TailPlace(i, f) == \/ (i = 2 /\ f = "cumulative")
                              \/ (i = 4 /\ f = "lifetime")
                              \/ (i = 6 /\ f = "recovery")
<1>7. \A i \in 1 .. 5 : \A f \in ToSet(RowItems[i][1]) : RowPlace(i, f) BY <1>1, <1>5, NameSets
<1>8. Apart(RowItems, 5)
  <2> SUFFICES ASSUME NEW i \in 1 .. 5, NEW j \in 1 .. 5, NEW f,
                      f \in ToSet(RowItems[i][1]), f \in ToSet(RowItems[j][1])
               PROVE  i = j
    OBVIOUS
  <2>1. RowPlace(i, f) /\ RowPlace(j, f) BY <1>7
  <2> QED BY <2>1
<1>9. Apart(MarksHead, 3) BY <1>2, <1>4, NameSets
<1>a. \A i \in 1 .. 6 : \A f \in ToSet(MarksTail[i][1]) : TailPlace(i, f)
  <2>1. /\ ToSet(MarksTail[1][1]) = {} /\ ToSet(MarksTail[3][1]) = {} /\ ToSet(MarksTail[5][1]) = {}
        /\ ToSet(MarksTail[2][1]) = {"cumulative"} /\ ToSet(MarksTail[4][1]) = {"lifetime"}
        /\ ToSet(MarksTail[6][1]) = {"recovery"}
    BY <1>3, NameSets
  <2> QED BY <1>6, <2>1
<1>10. Apart(MarksTail, 6)
  <2> SUFFICES ASSUME NEW i \in 1 .. 6, NEW j \in 1 .. 6, NEW f,
                      f \in ToSet(MarksTail[i][1]), f \in ToSet(MarksTail[j][1])
               PROVE  i = j
    OBVIOUS
  <2>1. TailPlace(i, f) /\ TailPlace(j, f) BY <1>a
  <2> QED BY <2>1
<1> QED BY <1>1, <1>2, <1>3, <1>8, <1>9, <1>10 DEF ItemList

\* A row that is read is written as it was read.
LEMMA RowReads ==
  ASSUME NEW buf \in Seq(u8), NEW pos \in Positions(buf), NEW r, r = typed_list(buf, RowItems)[pos], r.ok
  PROVE  /\ r.pos \in Positions(buf) /\ r.pos >= pos /\ Row(FieldValues(r.val))
         /\ Cut(buf, pos, r.pos) = EncodeRow(FieldValues(r.val))
<1>1. PICK v, p : ListForm(buf, RowItems, pos, 5, r, v, p) BY MarksLists, ListTaken
<1>2. /\ r.pos \in Positions(buf) /\ r.pos >= pos
      /\ p \in Seq(Bstr) /\ Len(p) = 5 /\ Cut(buf, pos, r.pos) = FlattenSeq(p)
      /\ \A i \in 1 .. 5 : TypedItem(RowItems[i][2], RowItems[i][3], v[i], p[i])
      /\ DOMAIN r.val = UNION {ToSet(RowItems[i][1]) : i \in 1 .. 5}
      /\ \A i \in 1 .. 5 : \A f \in ToSet(RowItems[i][1]) : r.val[f] = v[i]
  BY <1>1 DEF ListForm
<1>3. 1 \in 1 .. 5 /\ 2 \in 1 .. 5 /\ 3 \in 1 .. 5 /\ 4 \in 1 .. 5 /\ 5 \in 1 .. 5 OBVIOUS
<1>4. /\ RowItems[1] = <<<< >>, "array", {4}>> /\ RowItems[2] = <<<<"authority">>, "bytes", {DIGEST_LEN}>>
      /\ RowItems[3] = <<<<"scope_class">>, "uint", 0 .. 255>>
      /\ RowItems[4] = <<<<"scope_target">>, "bytes", 0 .. MAX_STR_LEN>>
      /\ RowItems[5] = <<<<"counter">>, "uint", Nat>>
  BY DEF RowItems, Digest, Uint
<1>5. p[1] = put_uint(4, 4)
  <2>1. TypedItem("array", {4}, v[1], p[1])
    <3>1. TypedItem(RowItems[1][2], RowItems[1][3], v[1], p[1]) BY <1>2, <1>3, Zenon
    <3> QED BY <1>4, <3>1
  <2>2. 4 \in Nat OBVIOUS
  <2> QED BY <2>1, <2>2, TakenItems
<1>6. p[2] = put_bytes(v[2].v) /\ v[2].v \in Bstr
  <2>1. TypedItem(RowItems[2][2], RowItems[2][3], v[2], p[2]) BY <1>2, <1>3, Zenon
  <2>2. TypedItem("bytes", {DIGEST_LEN}, v[2], p[2]) BY <1>4, <2>1
  <2> QED BY <2>2, TakenItems
<1>7. p[3] = put_uint(0, v[3].v) /\ v[3].v \in Nat
  <2>1. TypedItem(RowItems[3][2], RowItems[3][3], v[3], p[3]) BY <1>2, <1>3, Zenon
  <2>2. TypedItem("uint", 0 .. 255, v[3], p[3]) BY <1>4, <2>1
  <2>3. v[3].v \in u64 BY <2>2, TakenItems
  <2> QED BY <2>2, <2>3, TakenItems, Range8
<1>8. p[4] = put_bytes(v[4].v) /\ v[4].v \in Bstr
  <2>1. TypedItem(RowItems[4][2], RowItems[4][3], v[4], p[4]) BY <1>2, <1>3, Zenon
  <2>2. TypedItem("bytes", 0 .. MAX_STR_LEN, v[4], p[4]) BY <1>4, <2>1
  <2> QED BY <2>2, TakenItems
<1>9. p[5] = put_uint(0, v[5].v)
  <2>1. TypedItem(RowItems[5][2], RowItems[5][3], v[5], p[5]) BY <1>2, <1>3, Zenon
  <2>2. TypedItem("uint", Nat, v[5], p[5]) BY <1>4, <2>1
  <2> QED BY <2>2, TakenItems
<1> DEFINE row == FieldValues(r.val)
<1>10. \A i \in 1 .. 5 : \A f \in ToSet(RowItems[i][1]) : f \in DOMAIN r.val /\ r.val[f] = v[i]
  BY <1>2
<1>11. \A f \in DOMAIN r.val : row[f] = r.val[f].v BY DEF FieldValues
<1> HIDE DEF row
<1>12. row.authority = v[2].v /\ row.scope_class = v[3].v /\ row.scope_target = v[4].v /\ row.counter = v[5].v
  <2>1. \A i \in 1 .. 5 : \A f \in ToSet(RowItems[i][1]) : row[f] = v[i].v BY <1>10, <1>11
  <2>2. /\ ToSet(RowItems[2][1]) = {"authority"} /\ ToSet(RowItems[3][1]) = {"scope_class"}
        /\ ToSet(RowItems[4][1]) = {"scope_target"} /\ ToSet(RowItems[5][1]) = {"counter"}
    BY <1>4, NameSets
  <2> QED BY <1>3, <2>1, <2>2
<1>13. Row(row) BY <1>6, <1>7, <1>8, <1>12 DEF Row
<1>14. FlattenSeq(p) = (((p[1] \o p[2]) \o p[3]) \o p[4]) \o p[5]
  <2>1. PICK f : Joins(p, f) /\ FlattenSeq(p) = f[Len(p)] BY <1>2, Flattened
  <2>2. 5 <= Len(p) /\ FlattenSeq(p) = f[5] BY <1>2, <2>1
  <2>3. f[5] = (((p[1] \o p[2]) \o p[3]) \o p[4]) \o p[5] BY <1>2, <2>1, <2>2, FlatFive
  <2> QED BY <2>2, <2>3, Zenon
<1>15. EncodeRow(row) = (((put_uint(4, 4) \o put_bytes(row.authority)) \o put_uint(0, row.scope_class))
                           \o put_bytes(row.scope_target)) \o put_uint(0, row.counter)
  BY Zenon DEF EncodeRow
<1>16. EncodeRow(row) = FlattenSeq(p) BY <1>5, <1>6, <1>7, <1>8, <1>9, <1>12, <1>14, <1>15
<1> QED BY <1>2, <1>13, <1>16 DEF row

\* Rows read one after the other.
LEMMA RowsStep ==
  ASSUME NEW buf, NEW pos
  PROVE  /\ DecodeRows(buf, pos)[0] = Ok(pos, << >>)
         /\ \A n \in 1 .. MAX_COUNTER_ENTRIES :
               DecodeRows(buf, pos)[n] = NextRow(buf, DecodeRows(buf, pos)[n - 1])
<1> DEFINE m == MAX_COUNTER_ENTRIES
           seed == Ok(pos, << >>)
           F(r) == NextRow(buf, r)
           Is(k, f) == f = [n \in 0 .. k |-> IF n = 0 THEN seed ELSE F(f[n - 1])]
           T == {k \in Nat : \E f : Is(k, f)}
           read == DecodeRows(buf, pos)
<1>1. m \in Nat BY CborAssumption
<1>2. read = CHOOSE f : Is(m, f) BY DEF DecodeRows
<1> HIDE DEF seed, F, m, read
<1>3. 0 \in T
  <2> DEFINE f == [n \in 0 .. 0 |-> seed]
  <2>1. Is(0, f) OBVIOUS
  <2> QED BY <2>1
<1>4. ASSUME NEW k \in Nat, k \in T PROVE k + 1 \in T
  <2>1. PICK f : Is(k, f) BY <1>4
  <2> DEFINE g == [n \in 0 .. k + 1 |-> IF n = k + 1 THEN F(f[k]) ELSE f[n]]
  <2>2. ASSUME NEW n \in 0 .. k + 1 PROVE g[n] = IF n = 0 THEN seed ELSE F(g[n - 1])
    <3>1. CASE n = k + 1
      <4>1. n # 0 /\ n - 1 = k /\ g[k] = f[k] BY <3>1
      <4> QED BY <3>1, <4>1
    <3>2. CASE n # k + 1
      <4>1. n \in 0 .. k /\ g[n] = f[n] BY <3>2
      <4>2. n # 0 => n - 1 \in 0 .. k + 1 /\ n - 1 # k + 1 /\ g[n - 1] = f[n - 1] BY <4>1
      <4>3. f[n] = IF n = 0 THEN seed ELSE F(f[n - 1]) BY <2>1, <4>1
      <4> QED BY <4>1, <4>2, <4>3
    <3> QED BY <3>1, <3>2
  <2>3. Is(k + 1, g) BY <2>2
  <2>4. \E h : Is(k + 1, h)
    <3> HIDE DEF Is, g
    <3> QED BY <2>3
  <2> QED BY <2>4
<1>5. \A k \in Nat : k \in T
  <2> HIDE DEF T
  <2> QED BY <1>3, <1>4, Induct, Zenon
<1>6. \E f : Is(m, f) BY <1>1, <1>5
<1>7. Is(m, read)
  <2> HIDE DEF Is
  <2> QED BY <1>2, <1>6, Zenon
<1>8. read[0] = seed /\ \A n \in 1 .. m : read[n] = F(read[n - 1])
  <2>1. \A n \in 0 .. m : read[n] = IF n = 0 THEN seed ELSE F(read[n - 1]) BY <1>7
  <2> QED BY <1>1, <2>1
<1> QED BY <1>8 DEF read, seed, F, m

\* k rows read from pos, in ascending order, whose bytes are those of p.
RowsForm(buf, pos, r, k, p) ==
    /\ r.pos \in Positions(buf) /\ r.pos >= pos
    /\ p \in Seq(Bstr) /\ Len(p) = k /\ Cut(buf, pos, r.pos) = FlattenSeq(p)
    /\ (\E S : r.val \in Seq(S)) /\ Len(r.val) = k
    /\ \A i \in 1 .. k : Row(r.val[i]) /\ p[i] = EncodeRow(r.val[i])
    /\ \A i \in 1 .. k : \A j \in 1 .. k : j = i + 1 => RowLess(r.val[i], r.val[j])

\* A row more is read.
LEMMA RowMore ==
  ASSUME NEW buf \in Seq(u8), NEW pos \in Positions(buf), NEW r, NEW k \in Nat, NEW p,
         RowsForm(buf, pos, r, k, p), r.ok, NEW t, t = NextRow(buf, r), t.ok
  PROVE  \E q : RowsForm(buf, pos, t, k + 1, q)
<1> DEFINE x == typed_list(buf, RowItems)[r.pos]
           e == FieldValues(x.val)
           s == Cut(buf, r.pos, x.pos)
<1>1. t = IF r.ok /\ x.ok /\ (r.val # << >> => RowLess(r.val[Len(r.val)], e))
          THEN Ok(x.pos, Append(r.val, e)) ELSE Err
  BY DEF NextRow, AddRow
<1>2. t # Err BY DEF Err
<1> HIDE DEF x, e
<1>3. /\ x.ok /\ (r.val # << >> => RowLess(r.val[Len(r.val)], e))
      /\ t = Ok(x.pos, Append(r.val, e))
  BY <1>1, <1>2
<1>4. /\ r.pos \in Positions(buf) /\ r.pos >= pos
      /\ p \in Seq(Bstr) /\ Len(p) = k /\ Cut(buf, pos, r.pos) = FlattenSeq(p)
      /\ (\E S : r.val \in Seq(S)) /\ Len(r.val) = k
      /\ \A i \in 1 .. k : Row(r.val[i]) /\ p[i] = EncodeRow(r.val[i])
      /\ \A i \in 1 .. k : \A j \in 1 .. k : j = i + 1 => RowLess(r.val[i], r.val[j])
  BY DEF RowsForm
<1>5. x.pos \in Positions(buf) /\ x.pos >= r.pos /\ Row(e) /\ s = EncodeRow(e)
  BY <1>3, <1>4, RowReads DEF x, e
<1>6. pos \in Nat \ {0} /\ Len(buf) \in Nat /\ buf \in Bstr BY ByteStrings8 DEF Positions
<1>7. s \in Bstr /\ Cut(buf, pos, x.pos) = FlattenSeq(Append(p, s))
  <2> DEFINE i == pos
             j == r.pos
             l == x.pos
  <2>1. i \in Nat \ {0} /\ j \in Nat /\ l \in Nat /\ i <= j /\ j <= l /\ l <= Len(buf) + 1
    BY <1>4, <1>5, <1>6 DEF Positions
  <2>2. Cut(buf, j, l) \in Bstr /\ Cut(buf, i, l) = Cut(buf, i, j) \o Cut(buf, j, l)
    <3>1. j \in Nat \ {0} BY <1>4 DEF Positions
    <3> HIDE DEF i, j, l
    <3> QED BY <1>6, <2>1, <3>1, CutAt
  <2>3. s \in Bstr /\ Cut(buf, pos, x.pos) = Cut(buf, pos, r.pos) \o s BY <2>2
  <2> HIDE DEF s
  <2> QED BY <1>4, <2>3, FlattenAppend
<1> DEFINE q == Append(p, s)
           v == Append(r.val, e)
<1> HIDE DEF s
<1>8. t.pos = x.pos /\ t.val = v BY <1>3 DEF Ok
<1>9. q \in Seq(Bstr) /\ Len(q) = k + 1 /\ q[k + 1] = s /\ \A i \in 1 .. k : q[i] = p[i]
  BY <1>4, <1>7
<1>10. PICK S : r.val \in Seq(S) BY <1>4
<1>11. v \in Seq(S \cup {e}) /\ Len(v) = k + 1 /\ v[k + 1] = e /\ \A i \in 1 .. k : v[i] = r.val[i]
  <2>1. r.val \in Seq(S \cup {e}) BY <1>10
  <2>2. e \in S \cup {e} OBVIOUS
  <2> QED BY <1>4, <2>1, <2>2
<1> HIDE DEF q, v
<1>12. \A i \in 1 .. k + 1 : i \in 1 .. k \/ i = k + 1 OBVIOUS
<1>13. \A i \in 1 .. k + 1 : Row(v[i]) /\ q[i] = EncodeRow(v[i])
  BY <1>4, <1>5, <1>9, <1>11, <1>12
<1>14. \A i \in 1 .. k + 1 : \A j \in 1 .. k + 1 : j = i + 1 => RowLess(v[i], v[j])
  <2> SUFFICES ASSUME NEW i \in 1 .. k + 1, NEW j \in 1 .. k + 1, j = i + 1 PROVE RowLess(v[i], v[j])
    OBVIOUS
  <2>1. i \in 1 .. k OBVIOUS
  <2>2. CASE j \in 1 .. k BY <1>4, <1>11, <2>1, <2>2
  <2>3. CASE j = k + 1
    <3>1. i = k /\ k # 0 BY <2>1, <2>3
    <3>2. r.val # << >> BY <1>4, <3>1
    <3>3. RowLess(r.val[k], e) BY <1>3, <1>4, <3>2
    <3> QED BY <1>11, <2>1, <2>3, <3>1, <3>3
  <2> QED BY <1>12, <2>2, <2>3
<1>15. x.pos >= pos BY <1>4, <1>5, <1>6 DEF Positions
<1>16. \E R : v \in Seq(R) BY <1>11
<1>17. RowsForm(buf, pos, t, k + 1, q)
  <2>1. Cut(buf, pos, x.pos) = FlattenSeq(q) BY <1>7 DEF q
  <2> QED BY <1>5, <1>8, <1>9, <1>11, <1>13, <1>14, <1>15, <1>16, <2>1 DEF RowsForm
<1> QED BY <1>17

\* Rows that are read ascend, and have the bytes the encoder makes of them.
\* (strict_decode_marks_payload)
LEMMA RowsRead ==
  ASSUME NEW buf \in Seq(u8), NEW pos \in Positions(buf), NEW k \in 0 .. MAX_COUNTER_ENTRIES,
         DecodeRows(buf, pos)[k].ok
  PROVE  \E p : RowsForm(buf, pos, DecodeRows(buf, pos)[k], k, p)
<1> DEFINE m == MAX_COUNTER_ENTRIES
           read == DecodeRows(buf, pos)
           Good(r, n) == \E p : RowsForm(buf, pos, r, n, p)
           T == {n \in Nat : n <= m /\ read[n].ok => Good(read[n], n)}
<1>1. /\ read[0] = Ok(pos, << >>)
      /\ \A n \in 1 .. m : read[n] = NextRow(buf, read[n - 1])
  BY RowsStep
<1>2. m \in Nat BY CborAssumption
<1>3. k \in Nat /\ k <= m /\ read[k].ok BY <1>2
<1>4. pos \in Nat \ {0} BY ByteStrings8 DEF Positions
<1> HIDE DEF m, read
<1>5. 0 \in T
  <2>1. read[0].pos = pos /\ read[0].val = << >> BY <1>1 DEF Ok
  <2>2. Cut(buf, pos, pos) = << >> BY <1>4 DEF Cut
  <2>3. FlattenSeq(<< >>) = << >> BY DEF FlattenSeq
  <2>4. \E S : << >> \in Seq(S)
    <3>1. << >> \in Seq(Nat) OBVIOUS
    <3> QED BY <3>1
  <2>5. RowsForm(buf, pos, read[0], 0, << >>)
    BY <1>4, <2>1, <2>2, <2>3, <2>4 DEF RowsForm
  <2>6. Good(read[0], 0) BY <2>5
  <2> QED BY <2>6
<1>6. ASSUME NEW n \in Nat, n \in T PROVE n + 1 \in T
  <2>1. ASSUME n + 1 <= m, read[n + 1].ok PROVE Good(read[n + 1], n + 1)
    <3> DEFINE r == read[n]
               t == read[n + 1]
    <3>1. t = NextRow(buf, r)
      <4>1. n + 1 \in 1 .. m /\ (n + 1) - 1 = n BY <1>2, <2>1
      <4>2. read[n + 1] = NextRow(buf, read[(n + 1) - 1]) BY <1>1, <4>1, Zenon
      <4> QED BY <4>1, <4>2
    <3>2. t.ok BY <2>1
    <3>3. n <= m BY <1>2, <2>1
    <3> HIDE DEF r, t
    <3>4. r.ok
      <4>1. t # Err BY <3>2 DEF Err
      <4> QED BY <3>1, <4>1 DEF NextRow, AddRow
    <3>5. PICK p : RowsForm(buf, pos, r, n, p) BY <1>6, <3>3, <3>4 DEF r
    <3>6. \E q : RowsForm(buf, pos, t, n + 1, q) BY <3>1, <3>2, <3>4, <3>5, RowMore
    <3> QED BY <3>6 DEF t
  <2> QED BY <2>1
<1>7. \A n \in Nat : n \in T
  <2> HIDE DEF T
  <2> QED BY <1>5, <1>6, Induct, Zenon
<1>8. k \in T BY <1>3, <1>7
<1>9. Good(read[k], k)
  <2> HIDE DEF Good
  <2> QED BY <1>3, <1>8
<1> QED BY <1>9 DEF read

\* What comes before the rows, and after them.
LEMMA HeadOfMarks ==
  ASSUME NEW buf \in Seq(u8), NEW h, h = typed_list(buf, MarksHead)[1], h.ok, 1 \in Positions(buf)
  PROVE  /\ h.pos \in Positions(buf) /\ h.val.rows.v \in 0 .. MAX_COUNTER_ENTRIES
         /\ Cut(buf, 1, h.pos) = (put_uint(5, 4) \o put_uint(0, 1)) \o put_uint(4, h.val.rows.v)
<1>1. PICK v, p : ListForm(buf, MarksHead, 1, 3, h, v, p) BY MarksLists, ListTaken
<1>2. /\ h.pos \in Positions(buf)
      /\ p \in Seq(Bstr) /\ Len(p) = 3 /\ Cut(buf, 1, h.pos) = FlattenSeq(p)
      /\ \A i \in 1 .. 3 : TypedItem(MarksHead[i][2], MarksHead[i][3], v[i], p[i])
      /\ \A i \in 1 .. 3 : \A f \in ToSet(MarksHead[i][1]) : h.val[f] = v[i]
  BY <1>1 DEF ListForm
<1>3. 1 \in 1 .. 3 /\ 2 \in 1 .. 3 /\ 3 \in 1 .. 3 OBVIOUS
<1>4. /\ MarksHead[1] = <<<< >>, "map", {4}>> /\ MarksHead[2] = <<<< >>, "uint", {1}>>
      /\ MarksHead[3] = <<<<"rows">>, "array", 0 .. MAX_COUNTER_ENTRIES>>
  BY DEF MarksHead, Key
<1>5. p[1] = put_uint(5, 4)
  <2>1. TypedItem(MarksHead[1][2], MarksHead[1][3], v[1], p[1]) BY <1>2, <1>3, Zenon
  <2>2. TypedItem("map", {4}, v[1], p[1]) /\ 4 \in Nat BY <1>4, <2>1
  <2> QED BY <2>2, TakenItems
<1>6. p[2] = put_uint(0, 1)
  <2>1. TypedItem(MarksHead[2][2], MarksHead[2][3], v[2], p[2]) BY <1>2, <1>3, Zenon
  <2>2. TypedItem("uint", {1}, v[2], p[2]) /\ 1 \in Nat BY <1>4, <2>1
  <2> QED BY <2>2, TakenItems
<1>7. p[3] = put_uint(4, v[3].v) /\ v[3].v \in 0 .. MAX_COUNTER_ENTRIES
  <2>1. TypedItem(MarksHead[3][2], MarksHead[3][3], v[3], p[3]) BY <1>2, <1>3, Zenon
  <2>2. TypedItem("array", 0 .. MAX_COUNTER_ENTRIES, v[3], p[3]) BY <1>4, <2>1
  <2> QED BY <2>2, TakenItems
<1>8. h.val.rows = v[3]
  <2>1. ToSet(MarksHead[3][1]) = {"rows"} BY <1>4, NameSets
  <2> QED BY <1>2, <1>3, <2>1
<1>9. FlattenSeq(p) = (p[1] \o p[2]) \o p[3]
  <2>1. PICK f : Joins(p, f) /\ FlattenSeq(p) = f[Len(p)] BY <1>2, Flattened
  <2>2. 3 <= Len(p) /\ FlattenSeq(p) = f[3] BY <1>2, <2>1
  <2> QED BY <1>2, <2>1, <2>2, FlatThree
<1> QED BY <1>2, <1>5, <1>6, <1>7, <1>8, <1>9

\* Six strings are those of the fields after the rows.
TailBytes(p, c, l, n) ==
    /\ p \in Seq(Bstr) /\ Len(p) = 6
    /\ p[1] = put_uint(0, 2) /\ p[2] = put_bytes(c)
    /\ p[3] = put_uint(0, 3) /\ p[4] = put_bytes(l)
    /\ p[5] = put_uint(0, 4) /\ p[6] = put_uint(0, n)

\* The three fields after the rows have the bytes the encoder makes of them.
LEMMA TailOfMarks ==
  ASSUME NEW buf \in Seq(u8), NEW pos \in Positions(buf), NEW r, r = typed_list(buf, MarksTail)[pos], r.ok
  PROVE  /\ r.pos \in Positions(buf) /\ r.pos >= pos
         /\ \E p : /\ TailBytes(p, r.val.cumulative.v, r.val.lifetime.v, r.val.recovery.v)
                   /\ Cut(buf, pos, r.pos) = FlattenSeq(p)
<1>1. PICK v, p : ListForm(buf, MarksTail, pos, 6, r, v, p) BY MarksLists, ListTaken
<1>2. /\ r.pos \in Positions(buf) /\ r.pos >= pos
      /\ p \in Seq(Bstr) /\ Len(p) = 6 /\ Cut(buf, pos, r.pos) = FlattenSeq(p)
      /\ \A i \in 1 .. 6 : TypedItem(MarksTail[i][2], MarksTail[i][3], v[i], p[i])
      /\ \A i \in 1 .. 6 : \A f \in ToSet(MarksTail[i][1]) : r.val[f] = v[i]
  BY <1>1 DEF ListForm
<1>3. 1 \in 1 .. 6 /\ 2 \in 1 .. 6 /\ 3 \in 1 .. 6 /\ 4 \in 1 .. 6 /\ 5 \in 1 .. 6 /\ 6 \in 1 .. 6 OBVIOUS
<1>4. /\ MarksTail[1] = <<<< >>, "uint", {2}>> /\ MarksTail[3] = <<<< >>, "uint", {3}>>
      /\ MarksTail[5] = <<<< >>, "uint", {4}>>
      /\ MarksTail[2] = <<<<"cumulative">>, "bytes", {DIGEST_LEN}>>
      /\ MarksTail[4] = <<<<"lifetime">>, "bytes", {DIGEST_LEN}>>
      /\ MarksTail[6] = <<<<"recovery">>, "uint", Nat>>
  BY DEF MarksTail, Key, Digest, Uint
<1>5. ASSUME NEW i \in 1 .. 6, NEW k \in Nat, MarksTail[i] = <<<< >>, "uint", {k}>>
      PROVE  p[i] = put_uint(0, k)
  <2>1. TypedItem(MarksTail[i][2], MarksTail[i][3], v[i], p[i]) BY <1>2, Zenon
  <2>2. TypedItem("uint", {k}, v[i], p[i]) BY <1>5, <2>1
  <2> QED BY <2>2, TakenItems
<1>6. ASSUME NEW i \in 1 .. 6, NEW f, MarksTail[i] = <<<<f>>, "bytes", {DIGEST_LEN}>>
      PROVE  p[i] = put_bytes(r.val[f].v)
  <2>1. TypedItem(MarksTail[i][2], MarksTail[i][3], v[i], p[i]) BY <1>2, Zenon
  <2>2. TypedItem("bytes", {DIGEST_LEN}, v[i], p[i]) BY <1>6, <2>1
  <2>3. p[i] = put_bytes(v[i].v) BY <2>2, TakenItems
  <2>4. MarksTail[i][1] = <<f>> BY <1>6
  <2>5. r.val[f] = v[i] BY <1>2, <2>4, NameSets
  <2> QED BY <2>3, <2>5
<1>7. p[6] = put_uint(0, r.val.recovery.v)
  <2>1. TypedItem(MarksTail[6][2], MarksTail[6][3], v[6], p[6]) BY <1>2, <1>3, Zenon
  <2>2. TypedItem("uint", Nat, v[6], p[6]) BY <1>4, <2>1
  <2>3. p[6] = put_uint(0, v[6].v) BY <2>2, TakenItems
  <2>4. ToSet(MarksTail[6][1]) = {"recovery"} BY <1>4, NameSets
  <2>5. r.val.recovery = v[6] BY <1>2, <1>3, <2>4
  <2> QED BY <2>3, <2>5
<1>8. p[1] = put_uint(0, 2) /\ p[3] = put_uint(0, 3) /\ p[5] = put_uint(0, 4) BY <1>3, <1>4, <1>5
<1>9. p[2] = put_bytes(r.val.cumulative.v) BY <1>3, <1>4, <1>6
<1>10. p[4] = put_bytes(r.val.lifetime.v) BY <1>3, <1>4, <1>6
<1>11. TailBytes(p, r.val.cumulative.v, r.val.lifetime.v, r.val.recovery.v)
  BY <1>2, <1>7, <1>8, <1>9, <1>10 DEF TailBytes
<1> QED BY <1>2, <1>11

\* A marks payload that is accepted is the one encoding of the rows and fields read from
\* it, so the body that adopts it is encoded into the very payload, and no payload in any
\* other form reaches the digest.  (execute_adopt_forward, strict_decode_marks_payload,
\* encode_marks_payload)
THEOREM MarksAreCanonical ==
  ASSUME NEW buf \in Seq(u8), strict_decode_marks_payload(buf).ok
  PROVE  encode_marks_payload(strict_decode_marks_payload(buf).val) = buf
<1> DEFINE r == strict_decode_marks_payload(buf)
           h == typed_list(buf, MarksHead)[1]
           rows == DecodeRows(buf, h.pos)[h.val.rows.v]
           tail == typed_list(buf, MarksTail)[rows.pos]
           all == AfterRows(rows, tail)
<1>1. r = WholeOnly(buf, IF h.ok /\ h.val.rows.v * MIN_ROW_BYTES <= Remaining(buf, h.pos) THEN all ELSE Err)
  BY DEF strict_decode_marks_payload
<1>2. r # Err /\ ~ Err.ok BY DEF Err
<1> HIDE DEF r, h
<1>3. h.ok /\ r = all /\ r.pos = Len(buf) + 1 BY <1>1, <1>2 DEF WholeOnly, Whole
<1> HIDE DEF rows, tail
<1>4. /\ rows.ok /\ tail.ok
      /\ r = Ok(tail.pos, [rows |-> rows.val, cumulative |-> tail.val.cumulative.v,
                           lifetime |-> tail.val.lifetime.v, recovery |-> tail.val.recovery.v])
  BY <1>2, <1>3 DEF AfterRows
<1> DEFINE n == h.val.rows.v
           cum == tail.val.cumulative.v
           life == tail.val.lifetime.v
           rec == tail.val.recovery.v
<1>5. /\ r.val.rows = rows.val /\ r.val.cumulative = cum /\ r.val.lifetime = life /\ r.val.recovery = rec
      /\ tail.pos = Len(buf) + 1
  BY <1>3, <1>4 DEF Ok
<1>6. buf \in Bstr /\ Len(buf) \in Nat BY ByteStrings8
<1>7. 1 \in Positions(buf) BY <1>6 DEF Positions
<1>8. /\ h.pos \in Positions(buf) /\ n \in 0 .. MAX_COUNTER_ENTRIES
      /\ Cut(buf, 1, h.pos) = (put_uint(5, 4) \o put_uint(0, 1)) \o put_uint(4, n)
  BY <1>3, <1>7, HeadOfMarks DEF h
<1>9. PICK p : RowsForm(buf, h.pos, rows, n, p) BY <1>4, <1>8, RowsRead DEF rows
<1>10. /\ rows.pos \in Positions(buf) /\ rows.pos >= h.pos
       /\ p \in Seq(Bstr) /\ Len(p) = n /\ Cut(buf, h.pos, rows.pos) = FlattenSeq(p)
       /\ (\E S : rows.val \in Seq(S)) /\ Len(rows.val) = n
       /\ \A i \in 1 .. n : Row(rows.val[i]) /\ p[i] = EncodeRow(rows.val[i])
       /\ \A i \in 1 .. n : \A j \in 1 .. n : j = i + 1 => RowLess(rows.val[i], rows.val[j])
  BY <1>9 DEF RowsForm
<1>11. tail.pos >= rows.pos
  BY <1>4, <1>10, TailOfMarks DEF tail
<1>12. PICK q : TailBytes(q, cum, life, rec) /\ Cut(buf, rows.pos, tail.pos) = FlattenSeq(q)
  BY <1>4, <1>10, TailOfMarks DEF tail
<1> HIDE DEF n, cum, life, rec
<1> DEFINE a == rows.val
<1>13. DOMAIN a = 1 .. n /\ a = [i \in 1 .. n |-> a[i]] /\ n \in Nat
  <2>1. PICK S : a \in Seq(S) BY <1>10
  <2>2. Len(a) = n BY <1>10
  <2> HIDE DEF a
  <2> QED BY <2>1, <2>2
<1>14. sort_by(a) = a
  <2>1. RowsAscend(a) BY <1>10, <1>13 DEF RowsAscend
  <2> HIDE DEF a
  <2> QED BY <2>1, SortSorted
<1>15. [i \in DOMAIN a |-> EncodeRow(a[i])] = p
  <2>1. p = [i \in 1 .. n |-> p[i]] BY <1>10
  <2> QED BY <1>10, <1>13, <2>1
<1>16. Len(a) = n BY <1>10
<1> HIDE DEF a
<1> DEFINE x == ((put_uint(5, 4) \o put_uint(0, 1)) \o put_uint(4, n)) \o FlattenSeq(p)
<1>17. encode_marks_payload(r.val)
         = (((((x \o put_uint(0, 2)) \o put_bytes(cum)) \o put_uint(0, 3)) \o put_bytes(life))
               \o put_uint(0, 4)) \o put_uint(0, rec)
  <2> DEFINE E(m, s) == put_uint(5, 4)
          \o put_uint(0, 1) \o put_uint(4, Len(s))
          \o FlattenSeq([i \in DOMAIN s |-> EncodeRow(s[i])])
          \o put_uint(0, 2) \o put_bytes(m.cumulative)
          \o put_uint(0, 3) \o put_bytes(m.lifetime)
          \o put_uint(0, 4) \o put_uint(0, m.recovery)
  <2>1. encode_marks_payload(r.val) = E(r.val, sort_by(r.val.rows)) BY Zenon DEF encode_marks_payload
  <2>2. encode_marks_payload(r.val) = E(r.val, a)
    <3>1. sort_by(r.val.rows) = a BY <1>5, <1>14 DEF a
    <3> HIDE DEF E
    <3> QED BY <2>1, <3>1
  <2> QED BY <1>5, <1>15, <1>16, <2>2, Zenon
<1>18. /\ q \in Seq(Bstr) /\ Len(q) = 6
       /\ q[1] = put_uint(0, 2) /\ q[2] = put_bytes(cum) /\ q[3] = put_uint(0, 3)
       /\ q[4] = put_bytes(life) /\ q[5] = put_uint(0, 4) /\ q[6] = put_uint(0, rec)
  BY <1>12 DEF TailBytes
<1>19. /\ Cut(buf, 1, rows.pos) \in Bstr /\ Cut(buf, 1, rows.pos) = x
       /\ buf = x \o FlattenSeq(q)
  <2> DEFINE l == 1
             i == h.pos
             j == rows.pos
             k == tail.pos
  <2>1. /\ l \in Nat \ {0} /\ i \in Nat \ {0} /\ i \in Nat /\ j \in Nat /\ k \in Nat /\ l <= i
        /\ i <= j /\ l <= j /\ j <= k /\ k <= Len(buf) + 1 /\ j <= Len(buf) + 1
    BY <1>5, <1>6, <1>8, <1>10, <1>11 DEF Positions
  <2>2. /\ Cut(buf, 1, j) \in Bstr /\ Cut(buf, 1, j) = Cut(buf, 1, i) \o Cut(buf, i, j)
        /\ Cut(buf, 1, k) = Cut(buf, 1, j) \o Cut(buf, j, k)
    <3> HIDE DEF i, j, k, l
    <3>1. Cut(buf, l, j) \in Bstr /\ Cut(buf, l, j) = Cut(buf, l, i) \o Cut(buf, i, j)
      BY <1>6, <2>1, CutAt
    <3>2. Cut(buf, l, k) = Cut(buf, l, j) \o Cut(buf, j, k) BY <1>6, <2>1, CutAt
    <3> QED BY <3>1, <3>2 DEF l
  <2>3. Cut(buf, 1, k) = buf BY <1>5, <1>6, CutWhole
  <2>4. Cut(buf, 1, j) = x BY <1>8, <1>10, <2>2, Zenon
  <2> HIDE DEF x
  <2> QED BY <1>12, <2>2, <2>3, <2>4
<1> HIDE DEF x
<1>20. (((((x \o q[1]) \o q[2]) \o q[3]) \o q[4]) \o q[5]) \o q[6] = x \o FlattenSeq(q)
  <2>1. x \in Bstr BY <1>19
  <2> QED BY <1>18, <2>1, AfterSix
<1>21. encode_marks_payload(r.val) = buf BY <1>17, <1>18, <1>19, <1>20, Zenon
<1> QED BY <1>21 DEF r
=============================================================================
