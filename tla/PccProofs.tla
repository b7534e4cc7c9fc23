----------------------------- MODULE PccProofs -----------------------------
(***************************************************************************)
(* Proofs about the printable characters counting server and its clients,  *)
(* for every number of clients, every file, every size of a buffer and of  *)
(* an integer, whatever connections break and whoever is killed.           *)
(***************************************************************************)
EXTENDS PccSystem, FiniteSetTheorems, FunctionTheorems, WellFoundedInduction, TLAPS

-----------------------------------------------------------------------------
(***************************************************************************)
(* Byte order.                                                             *)
(***************************************************************************)
\* A set that holds 0, and d + 1 with d, holds every number up to n.
LEMMA UpTo ==
    ASSUME NEW n \in Nat, NEW S, 0 \in S, \A d \in 0 .. n - 1 : d \in S => d + 1 \in S
    PROVE  0 .. n \subseteq S
<1> DEFINE R == {ss \in Nat \X Nat : ss[1] < ss[2]}
           C == (0 .. n) \ S
<1> SUFFICES ASSUME C # {} PROVE FALSE
  OBVIOUS
<1>1. PICK m \in C : \A k \in C : ~(<<k, m>> \in R)
  <2>1. C \subseteq Nat
    OBVIOUS
  <2>2. IsWellFoundedOn(R, Nat)
    BY NatLessThanWellFounded DEF OpToRel
  <2> QED
    BY <2>1, <2>2, WFMin
<1>2. m \in 0 .. n /\ m # 0
  OBVIOUS
<1>3. m - 1 \in 0 .. n - 1
  BY <1>2
<1>4. m - 1 \notin S
  BY <1>2, <1>3
<1>5. m - 1 \in C /\ <<m - 1, m>> \in R
  BY <1>2, <1>3, <1>4
<1> QED
  BY <1>1, <1>5

\* g starts with "start" and goes on with the last value times factor, plus add.
Solves(g, n, start, factor, add) ==
    /\ g \in [0 .. n -> Nat]
    /\ g = [i \in 0 .. n |-> IF i = 0 THEN start ELSE g[i - 1] * factor + add[i]]

\* The recursion of ntohl has a solution for every sequence of factors and bytes; Power
\* is the one with no bytes.
LEMMA Recursion ==
    ASSUME NEW n \in Nat, NEW start \in Nat, NEW factor \in Nat, NEW add \in [1 .. n -> Nat]
    PROVE  \E g : Solves(g, n, start, factor, add)
<1> DEFINE To(m, g) == /\ g \in [0 .. m -> Nat]
                       /\ g[0] = start
                       /\ \A i \in 1 .. m : g[i] = g[i - 1] * factor + add[i]
           S == {m \in Nat : \E g : To(m, g)}
<1>1. 0 \in S
  <2>1. To(0, [i \in 0 .. 0 |-> start])
    OBVIOUS
  <2> QED
    BY <2>1
<1>2. ASSUME NEW m \in 0 .. n - 1, m \in S PROVE m + 1 \in S
  <2>1. PICK g : To(m, g)
    BY <1>2
  <2> DEFINE v == g[m] * factor + add[m + 1]
             h == [i \in 0 .. m + 1 |-> IF i = m + 1 THEN v ELSE g[i]]
  <2>2. v \in Nat
    <3>1. PICK x \in Nat, y \in Nat : x = g[m] /\ y = add[m + 1]
      BY <2>1
    <3>2. x * factor \in Nat
      OBVIOUS
    <3>3. x * factor + y \in Nat
      BY <3>2
    <3> QED
      BY <3>1, <3>3
  <2> HIDE DEF v
  <2>3. h \in [0 .. m + 1 -> Nat]
    BY <2>1, <2>2
  <2>4. ASSUME NEW i \in 1 .. m + 1 PROVE h[i] = h[i - 1] * factor + add[i]
    <3>1. CASE i = m + 1
      BY <3>1 DEF v
    <3>2. CASE i # m + 1
      <4>1. i \in 1 .. m
        BY <3>2
      <4>2. h[i] = g[i] /\ h[i - 1] = g[i - 1]
        BY <4>1
      <4> QED
        BY <2>1, <4>1, <4>2
    <3> QED
      BY <3>1, <3>2
  <2>5. h[0] = start
    BY <2>1
  <2> HIDE DEF h
  <2>6. To(m + 1, h) /\ m + 1 \in Nat
    BY <2>3, <2>4, <2>5
  <2> HIDE DEF To
  <2> QED
    BY <2>6
<1>3. 0 .. n \subseteq S
  <2> HIDE DEF S
  <2> QED
    BY <1>1, <1>2, UpTo
<1>4. PICK g : To(n, g)
  <2>1. n \in S
    <3> HIDE DEF S
    <3> QED
      BY <1>3
  <2> HIDE DEF To
  <2> QED
    BY <2>1
<1>5. g = [i \in 0 .. n |-> IF i = 0 THEN start ELSE g[i - 1] * factor + add[i]]
  <2>1. \A i \in 0 .. n : g[i] = IF i = 0 THEN start ELSE g[i - 1] * factor + add[i]
    BY <1>4
  <2>2. g = [i \in 0 .. n |-> g[i]]
    BY <1>4
  <2> QED
    BY <2>1, <2>2
<1> QED
  BY <1>4, <1>5 DEF Solves

\* The weights: 1, and BASE times the one before.
LEMMA PowerSteps ==
    /\ Power \in [0 .. SIZEOF -> Nat \ {0}]
    /\ Power[0] = 1
    /\ \A k \in 1 .. SIZEOF : Power[k] = BASE * Power[k - 1]
<1> DEFINE add == [i \in 1 .. SIZEOF |-> 0]
           P == [k \in 0 .. SIZEOF |-> IF k = 0 THEN 1 ELSE BASE * Power[k - 1]]
<1>1. BASE \in Nat \ {0, 1} /\ SIZEOF \in Nat \ {0}
  BY EncodingAssumption
<1>2. PICK g : Solves(g, SIZEOF, 1, BASE, add)
  <2>1. add \in [1 .. SIZEOF -> Nat]
    OBVIOUS
  <2>2. SIZEOF \in Nat /\ 1 \in Nat /\ BASE \in Nat
    BY <1>1
  <2> HIDE DEF add
  <2> QED
    BY <2>1, <2>2, Recursion
<1>3. g = [k \in 0 .. SIZEOF |-> IF k = 0 THEN 1 ELSE BASE * g[k - 1]]
  <2>1. ASSUME NEW k \in 1 .. SIZEOF PROVE g[k - 1] * BASE + add[k] = BASE * g[k - 1]
    <3>1. k - 1 \in 0 .. SIZEOF
      BY <1>1
    <3>2. g[k - 1] \in Nat /\ add[k] = 0
      BY <1>2, <3>1 DEF Solves
    <3> QED
      BY <1>1, <3>2
  <2> QED
    BY <1>1, <1>2, <2>1 DEF Solves
<1>4. Power = P
  BY <1>3 DEF Power
<1>5. Power[0] = 1 /\ \A k \in 1 .. SIZEOF : Power[k] = BASE * Power[k - 1]
  BY <1>1, <1>4
<1> DEFINE S == {k \in Nat : Power[k] \in Nat \ {0}}
<1>6. 0 \in S
  BY <1>5
<1>7. ASSUME NEW k \in 0 .. SIZEOF - 1, k \in S PROVE k + 1 \in S
  <2>1. k + 1 \in 1 .. SIZEOF /\ (k + 1) - 1 = k
    BY <1>1
  <2>2. Power[k + 1] = BASE * Power[k]
    BY <1>5, <2>1
  <2> QED
    BY <1>1, <1>7, <2>2
<1> HIDE DEF S
<1>8. 0 .. SIZEOF \subseteq S
  BY <1>1, <1>6, <1>7, UpTo
<1>9. DOMAIN Power = 0 .. SIZEOF /\ Power = [k \in 0 .. SIZEOF |-> Power[k]]
  BY <1>4
<1> QED
  BY <1>5, <1>8, <1>9 DEF S

\* Division with remainder.
LEMMA Division ==
    ASSUME NEW a \in Nat, NEW b \in Nat \ {0}
    PROVE  a \div b \in Nat /\ a % b \in 0 .. b - 1 /\ a = b * (a \div b) + (a % b)
OBVIOUS

\* A quotient and a remainder below the divisor are the quotient and the remainder.
LEMMA Quotient ==
    ASSUME NEW q \in Nat, NEW b \in Nat \ {0}, NEW r \in 0 .. b - 1, NEW a \in Nat, a = b * q + r
    PROVE  a \div b = q /\ a % b = r
OBVIOUS

\* Dividing twice.
LEMMA DivisionTwice ==
    ASSUME NEW n \in Nat, NEW b \in Nat \ {0}, NEW p \in Nat \ {0}
    PROVE  n \div p = (n \div (b * p)) * b + ((n \div p) % b)
<1> DEFINE m == n \div p
           r == n % p
           q == m \div b
           s == m % b
<1>1. m \in Nat /\ r \in 0 .. p - 1 /\ n = p * m + r
  BY Division
<1>2. q \in Nat /\ s \in 0 .. b - 1 /\ m = b * q + s
  BY <1>1, Division
<1> HIDE DEF m, r, q, s
<1>3. p * s + r \in Nat /\ p * s + r < b * p
  <2>1. p * s <= p * (b - 1)
    BY <1>2
  <2>2. p * (b - 1) = b * p - p
    OBVIOUS
  <2>3. p * s \in Nat /\ b * p \in Nat
    BY <1>2
  <2> QED
    BY <1>1, <2>1, <2>2, <2>3
<1>4. n = (b * p) * q + (p * s + r)
  <2>1. p * (b * q + s) = (b * p) * q + p * s
    BY <1>2
  <2> QED
    BY <1>1, <1>2, <2>1
<1>5. b * p \in Nat \ {0}
  OBVIOUS
<1>6. p * s + r \in 0 .. b * p - 1
  BY <1>3, <1>5
<1>7. n \div (b * p) = q
  BY <1>2, <1>4, <1>5, <1>6, Quotient
<1>8. m = q * b + s
  BY <1>2
<1> QED
  BY <1>7, <1>8 DEF m, s

\* The sequences a number is sent as.
Word == [1 .. SIZEOF -> 0 .. BASE - 1]

\* The partial values of ntohl.
LEMMA NtohlValues ==
    ASSUME NEW bytes \in Word
    PROVE  \E v : /\ v[0] = 0
                  /\ \A i \in 1 .. SIZEOF : v[i] = v[i - 1] * BASE + bytes[i]
                  /\ ntohl(bytes) = v[SIZEOF]
<1>1. BASE \in Nat /\ SIZEOF \in Nat /\ 0 \in Nat
  BY EncodingAssumption
<1>2. bytes \in [1 .. SIZEOF -> Nat]
  BY <1>1 DEF Word
<1>3. PICK g : Solves(g, SIZEOF, 0, BASE, bytes)
  BY <1>1, <1>2, Recursion
<1>4. g = [i \in 0 .. SIZEOF |-> IF i = 0 THEN 0 ELSE g[i - 1] * BASE + bytes[i]]
  BY <1>3 DEF Solves
<1> DEFINE v == CHOOSE v : v = [i \in 0 .. SIZEOF |->
                                   IF i = 0 THEN 0 ELSE v[i - 1] * BASE + bytes[i]]
<1>5. v = [i \in 0 .. SIZEOF |-> IF i = 0 THEN 0 ELSE v[i - 1] * BASE + bytes[i]]
  BY <1>4
<1>6. ntohl(bytes) = v[SIZEOF]
  BY DEF ntohl
<1> HIDE DEF v
<1> QED
  BY <1>1, <1>5, <1>6

\* UINT_MAX is one less than the number of values of a uint32_t.
LEMMA UintMax == UINT_MAX \in Nat /\ UINT_MAX + 1 = Power[SIZEOF] /\ UINT_MAX + 1 \in Nat \ {0}
<1>1. Power[SIZEOF] \in Nat \ {0}
  BY PowerSteps, EncodingAssumption
<1> QED
  BY <1>1 DEF UINT_MAX

\* A number of SIZEOF bytes fits its type.
LEMMA NtohlType ==
    ASSUME NEW bytes \in Word
    PROVE  ntohl(bytes) \in 0 .. UINT_MAX
<1>1. BASE \in Nat \ {0, 1} /\ SIZEOF \in Nat \ {0}
  BY EncodingAssumption
<1>2. PICK v : /\ v[0] = 0
               /\ \A i \in 1 .. SIZEOF : v[i] = v[i - 1] * BASE + bytes[i]
               /\ ntohl(bytes) = v[SIZEOF]
  BY NtohlValues
<1> DEFINE S == {i \in Nat : v[i] \in 0 .. Power[i] - 1}
<1>3. 0 \in S
  BY <1>2, PowerSteps
<1>4. ASSUME NEW i \in 0 .. SIZEOF - 1, i \in S PROVE i + 1 \in S
  <2>1. i + 1 \in 1 .. SIZEOF /\ (i + 1) - 1 = i /\ i \in 0 .. SIZEOF
    BY <1>1
  <2>2. Power[i + 1] = BASE * Power[i] /\ Power[i] \in Nat \ {0}
    BY <2>1, PowerSteps
  <2>3. v[i + 1] = v[i] * BASE + bytes[i + 1] /\ bytes[i + 1] \in 0 .. BASE - 1
    BY <1>2, <2>1 DEF Word
  <2>4. PICK x, p, b : x = v[i] /\ p = Power[i] /\ b = bytes[i + 1]
    OBVIOUS
  <2>5. x \in 0 .. p - 1 /\ p \in Nat \ {0} /\ b \in 0 .. BASE - 1
    BY <1>4, <2>2, <2>3, <2>4
  <2>6. x * BASE <= (p - 1) * BASE /\ (p - 1) * BASE = BASE * p - BASE /\ x * BASE \in Nat
    BY <1>1, <2>5
  <2>7. x * BASE + b \in 0 .. BASE * p - 1
    BY <1>1, <2>5, <2>6
  <2> QED
    BY <2>1, <2>2, <2>3, <2>4, <2>7
<1> HIDE DEF S
<1>5. SIZEOF \in S
  BY <1>1, <1>3, <1>4, UpTo
<1> QED
  BY <1>2, <1>5, UintMax DEF S, UINT_MAX

\* The bytes of a number.
LEMMA HtonlType ==
    ASSUME NEW n \in Nat
    PROVE  htonl(n) \in Word
<1>1. ASSUME NEW i \in 1 .. SIZEOF PROVE (n \div Power[SIZEOF - i]) % BASE \in 0 .. BASE - 1
  <2>1. SIZEOF - i \in 0 .. SIZEOF /\ BASE \in Nat \ {0}
    BY EncodingAssumption
  <2>2. Power[SIZEOF - i] \in Nat \ {0}
    BY <2>1, PowerSteps
  <2>3. n \div Power[SIZEOF - i] \in Nat
    BY <2>2, Division
  <2> QED
    BY <2>1, <2>3, Division
<1> QED
  BY <1>1 DEF htonl, Word

\* What one end packs, the other end unpacks.
LEMMA RoundTrip ==
    ASSUME NEW n \in 0 .. UINT_MAX
    PROVE  ntohl(htonl(n)) = n
<1>1. BASE \in Nat \ {0, 1} /\ SIZEOF \in Nat \ {0} /\ n \in Nat
  BY EncodingAssumption, UintMax
<1>2. PICK v : /\ v[0] = 0
               /\ \A i \in 1 .. SIZEOF : v[i] = v[i - 1] * BASE + htonl(n)[i]
               /\ ntohl(htonl(n)) = v[SIZEOF]
  BY <1>1, HtonlType, NtohlValues
<1> DEFINE S == {i \in Nat : v[i] = n \div Power[SIZEOF - i]}
<1>3. 0 \in S
  <2>1. n < Power[SIZEOF] /\ Power[SIZEOF] \in Nat \ {0}
    BY UintMax
  <2>2. n = Power[SIZEOF] * 0 + n /\ n \in 0 .. Power[SIZEOF] - 1
    BY <1>1, <2>1
  <2>3. n \div Power[SIZEOF] = 0
    BY <1>1, <2>1, <2>2, Quotient
  <2> QED
    BY <1>1, <1>2, <2>3
<1>4. ASSUME NEW i \in 0 .. SIZEOF - 1, i \in S PROVE i + 1 \in S
  <2>1. /\ i + 1 \in 1 .. SIZEOF /\ (i + 1) - 1 = i
        /\ SIZEOF - i \in 1 .. SIZEOF /\ (SIZEOF - i) - 1 = SIZEOF - (i + 1)
        /\ SIZEOF - (i + 1) \in 0 .. SIZEOF
    BY <1>1
  <2>2. PICK p : p = Power[SIZEOF - (i + 1)]
    OBVIOUS
  <2>3. p \in Nat \ {0} /\ Power[SIZEOF - i] = BASE * p
    BY <2>1, <2>2, PowerSteps
  <2>4. v[i + 1] = v[i] * BASE + htonl(n)[i + 1] /\ htonl(n)[i + 1] = (n \div p) % BASE
    BY <1>2, <2>1, <2>2 DEF htonl
  <2>5. v[i] = n \div (BASE * p)
    BY <1>4, <2>3
  <2>6. n \div p = (n \div (BASE * p)) * BASE + ((n \div p) % BASE)
    BY <1>1, <2>3, DivisionTwice
  <2> QED
    BY <2>1, <2>2, <2>4, <2>5, <2>6
<1> HIDE DEF S
<1>5. SIZEOF \in S
  BY <1>1, <1>3, <1>4, UpTo
<1>6. v[SIZEOF] = n \div Power[SIZEOF - SIZEOF]
  BY <1>5 DEF S
<1>7. SIZEOF - SIZEOF = 0 /\ Power[0] = 1 /\ n \div 1 = n
  BY <1>1, PowerSteps
<1> QED
  BY <1>2, <1>6, <1>7

\* Arithmetic of uint32_t: the counters wrap, and adding after wrapping wraps the sum.
LEMMA Uint32 ==
    ASSUME NEW a \in Nat, NEW b \in Nat
    PROVE  /\ uint32_t(a) \in 0 .. UINT_MAX
           /\ a <= UINT_MAX => uint32_t(a) = a
           /\ uint32_t(uint32_t(a) + b) = uint32_t(a + b)
<1> DEFINE w == UINT_MAX + 1
<1>1. w \in Nat \ {0} /\ UINT_MAX \in Nat
  BY UintMax
<1>2. uint32_t(a) = a % w /\ uint32_t(a + b) = (a + b) % w
  BY DEF uint32_t
<1> DEFINE q == a \div w
           r == a % w
<1>3. q \in Nat /\ r \in 0 .. w - 1 /\ a = w * q + r
  BY <1>1, Division
<1>4. uint32_t(r + b) = (r + b) % w
  BY DEF uint32_t
<1> HIDE DEF q, r
<1>5. r + b \in Nat
  BY <1>1, <1>3
<1> DEFINE p == (r + b) \div w
           t == (r + b) % w
<1>6. p \in Nat /\ t \in 0 .. w - 1 /\ r + b = w * p + t
  BY <1>1, <1>5, Division
<1> HIDE DEF p, t, w
<1>7. a + b = w * (q + p) + t
  <2>1. w * (q + p) = w * q + w * p
    BY <1>1, <1>3, <1>6
  <2>2. w * q \in Nat /\ w * p \in Nat
    BY <1>1, <1>3, <1>6
  <2> QED
    BY <1>1, <1>3, <1>6, <2>1, <2>2
<1>8. (a + b) % w = t
  <2>1. PICK x \in Nat, y \in Nat : x = a + b /\ y = q + p
    BY <1>3, <1>6
  <2>2. x = w * y + t
    BY <1>7, <2>1
  <2>3. x % w = t
    BY <1>1, <1>6, <2>2, Quotient
  <2> QED
    BY <2>1, <2>3
<1>9. a <= UINT_MAX => a % w = a
  <2>1. a <= UINT_MAX => a \in 0 .. w - 1 /\ a = w * 0 + a
    BY <1>1 DEF w
  <2> QED
    BY <1>1, <2>1, Quotient
<1>10. r \in 0 .. UINT_MAX
  BY <1>1, <1>3 DEF w
<1>11. uint32_t(a) = r /\ uint32_t(r + b) = t
  BY <1>2, <1>4 DEF r, t
<1>12. uint32_t(uint32_t(a) + b) = uint32_t(a + b)
  BY <1>2, <1>8, <1>11
<1> QED
  BY <1>2, <1>9, <1>10, <1>11, <1>12

-----------------------------------------------------------------------------
(***************************************************************************)
(* Streams.                                                                *)
(***************************************************************************)
Byte == 0 .. BASE - 1

\* A part of a sequence.
LEMMA Part ==
    ASSUME NEW S, NEW s \in Seq(S), NEW m \in Nat \ {0}, NEW n \in 0 .. Len(s)
    PROVE  /\ SubSeq(s, m, n) \in Seq(S)
           /\ Len(SubSeq(s, m, n)) = IF m <= n THEN n - m + 1 ELSE 0
           /\ \A i \in 1 .. Len(SubSeq(s, m, n)) : SubSeq(s, m, n)[i] = s[m + i - 1]
<1>1. CASE m <= n
  BY <1>1
<1>2. CASE m > n
  BY <1>2
<1> QED
  BY <1>1, <1>2

\* What a read takes from the front of a stream, and what it leaves.
LEMMA ReadBytes ==
    ASSUME NEW s \in Seq(Byte), NEW n \in Int, NEW bytes \in Arrived(s, n)
    PROVE  /\ bytes \in Seq(Byte) /\ Len(bytes) \in 1 .. Len(s) /\ Len(bytes) <= n
           /\ \A i \in 1 .. Len(bytes) : bytes[i] = s[i]
           /\ Rest(s, bytes) \in Seq(Byte) /\ Len(Rest(s, bytes)) = Len(s) - Len(bytes)
           /\ \A i \in 1 .. Len(Rest(s, bytes)) : Rest(s, bytes)[i] = s[Len(bytes) + i]
<1>1. PICK k \in 1 .. IF n < Len(s) THEN n ELSE Len(s) : bytes = SubSeq(s, 1, k)
  BY DEF Arrived
<1>2. k \in 1 .. Len(s) /\ k <= n /\ Len(s) \in Nat
  BY <1>1
<1>3. bytes \in Seq(Byte) /\ Len(bytes) = k /\ \A i \in 1 .. k : bytes[i] = s[i]
  BY <1>1, <1>2, Part
<1> DEFINE rest == SubSeq(s, k + 1, Len(s))
<1>4. /\ rest \in Seq(Byte) /\ Len(rest) = Len(s) - k
      /\ \A i \in 1 .. Len(rest) : rest[i] = s[(k + 1) + i - 1]
  BY <1>2, Part
<1>5. Rest(s, bytes) = rest
  BY <1>3 DEF Rest
<1> HIDE DEF rest
<1>6. \A i \in 1 .. Len(rest) : (k + 1) + i - 1 = k + i
  BY <1>2
<1> QED
  BY <1>2, <1>3, <1>4, <1>5, <1>6

\* A word is a sequence of SIZEOF bytes.
LEMMA WordSeq == \A w : w \in Word <=> w \in Seq(Byte) /\ Len(w) = SIZEOF
<1>1. SIZEOF \in Nat
  BY EncodingAssumption
<1>2. ASSUME NEW w \in [1 .. SIZEOF -> Byte] PROVE w \in Seq(Byte) /\ Len(w) = SIZEOF
  BY <1>1
<1>3. ASSUME NEW w \in Seq(Byte), Len(w) = SIZEOF PROVE w \in [1 .. SIZEOF -> Byte]
  BY <1>3
<1>4. Word = [1 .. SIZEOF -> Byte]
  BY DEF Word, Byte
<1> QED
  BY <1>2, <1>3, <1>4

\* A set of positions of a sequence is finite.
LEMMA PositionsFinite ==
    ASSUME NEW bytes \in Seq(Byte), NEW P \in SUBSET (DOMAIN bytes)
    PROVE  IsFiniteSet(P) /\ Cardinality(P) \in Nat
<1>1. IsFiniteSet(DOMAIN bytes)
  <2>1. DOMAIN bytes = 1 .. Len(bytes) /\ Len(bytes) \in Int
    OBVIOUS
  <2> QED
    BY <2>1, FS_Interval
<1> QED
  BY <1>1, FS_Subset, FS_CardinalityType

-----------------------------------------------------------------------------
(***************************************************************************)
(* Types.                                                                  *)
(***************************************************************************)
\* The control points at which the server holds a connection.
Serving == {"accepted", "size", "stream", "send", "update"}
Attached == spc \in Serving => connection_fd \in Clients

TypeInv == TypeOK /\ Attached

\* The files of the clients.
LEMMA FileType ==
    ASSUME TypeInv, NEW c \in Clients
    PROVE  file[c].length \in Nat /\ file[c].data \in Seq(Byte)
<1>1. file[c] \in Files
  BY DEF TypeInv, TypeOK, ClientTypeOK
<1> QED
  BY <1>1, ClientAssumption DEF Byte

ConnTypeOK ==
    /\ backlog \in Seq(Clients)
    /\ up \in [Clients -> Seq(Byte)] /\ down \in [Clients -> Seq(Byte)]
    /\ c_open \subseteq Clients /\ s_open \subseteq Clients /\ broken \subseteq Clients

\* TypeOK, with the types of the connections under a name.
LEMMA TypeParts == TypeOK <=> ServerTypeOK /\ ClientTypeOK /\ ConnTypeOK
BY DEF TypeOK, ConnTypeOK, Byte

\* The end of the server process.
LEMMA ServerEndType ==
    ASSUME TypeInv, NEW how \in {"success", "failure", "killed"}, ServerEnd(how)
    PROVE  /\ ConnTypeOK' /\ spc' = "ended" /\ status' = how /\ connection_fd' = NULL /\ Attached'
<1>1. s_open' = {} /\ backlog' = <<>> /\ UNCHANGED <<up, down, c_open>>
  BY DEF ServerEnd, ServerCloseAll
<1>2. broken' \subseteq Clients
  BY TypeParts DEF ServerEnd, ServerCloseAll, TypeInv, ConnTypeOK
<1>3. <<>> \in Seq(Clients)
  OBVIOUS
<1>4. ConnTypeOK'
  BY <1>1, <1>2, <1>3, TypeParts DEF TypeInv, ConnTypeOK
<1> QED
  BY <1>4 DEF ServerEnd, Attached, Serving

\* The server gives a client up.
LEMMA CloseClientType ==
    ASSUME TypeInv, connection_fd \in Clients, CloseClient
    PROVE  /\ ConnTypeOK' /\ failed' \subseteq Clients /\ spc' = "test" /\ connection_fd' = NULL
           /\ UNCHANGED status /\ Attached'
<1>1. ConnTypeOK'
  BY TypeParts DEF CloseClient, ServerClose, TypeInv, ConnTypeOK
<1>2. failed' \subseteq Clients
  BY DEF CloseClient, TypeInv, TypeOK, ServerTypeOK
<1> QED
  BY <1>1, <1>2 DEF CloseClient, Attached, Serving

\* The signal handler touches the flags and may end a wait.
LEMMA SigintType ==
    ASSUME TypeInv, Sigint
    PROVE  ServerTypeOK' /\ ConnTypeOK' /\ Attached'
<1>1. /\ sigints' \in Nat /\ disposition' \in {"default", "handler"}
      /\ UNCHANGED <<counts, request, answered>>
  BY DEF Sigint, TypeInv, TypeOK, ServerTypeOK
<1>2. ASSUME NEW how \in {"success", "failure", "killed"}, ServerEnd(how),
             g_server_is_running' \in BOOLEAN, g_server_is_processing' \in BOOLEAN,
             UNCHANGED failed
      PROVE  ServerTypeOK' /\ ConnTypeOK' /\ Attached'
  <2>1. /\ ConnTypeOK' /\ spc' = "ended" /\ status' = how /\ connection_fd' = NULL /\ Attached'
    BY <1>2, ServerEndType
  <2> QED
    BY <1>1, <1>2, <2>1 DEF ServerTypeOK, counts, request, TypeInv, TypeOK
<1>3. ASSUME CloseClient, connection_fd \in Clients, g_server_is_running' = FALSE,
             UNCHANGED g_server_is_processing
      PROVE  ServerTypeOK' /\ ConnTypeOK' /\ Attached'
  <2>1. /\ ConnTypeOK' /\ failed' \subseteq Clients /\ spc' = "test" /\ connection_fd' = NULL
        /\ UNCHANGED status /\ Attached'
    BY <1>3, CloseClientType
  <2> QED
    BY <1>1, <1>3, <2>1 DEF ServerTypeOK, counts, request, TypeInv, TypeOK
<1>4. ASSUME UNCHANGED <<conn_vars, spc, connection_fd, status, failed>>,
             g_server_is_running' = FALSE, UNCHANGED g_server_is_processing
      PROVE  ServerTypeOK' /\ ConnTypeOK' /\ Attached'
  BY <1>1, <1>4, TypeParts
     DEF ServerTypeOK, ConnTypeOK, Attached, counts, request, conn_vars, TypeInv
<1>5. CASE disposition = "handler" /\ g_server_is_processing
  <2>1. HandlerProcessing
    BY <1>5 DEF Sigint, sig_int_handler
  <2>2. spc \in {"size", "stream"} => connection_fd \in Clients
    BY DEF TypeInv, Attached, Serving
  <2> QED
    BY <1>2, <1>3, <1>4, <2>1, <2>2 DEF HandlerProcessing, TypeInv, TypeOK, ServerTypeOK
<1>6. CASE ~(disposition = "handler" /\ g_server_is_processing)
  BY <1>2, <1>6 DEF Sigint, sig_int_handler, TypeInv, TypeOK, ServerTypeOK
<1> QED
  BY <1>5, <1>6

\* The steps of the server up to and including the reads of a request.
LEMMA ReadType ==
    ASSUME TypeInv, read_stream_size_from_client \/ read_stream_from_client
    PROVE  ServerTypeOK' /\ ConnTypeOK' /\ Attached'
<1> DEFINE c == connection_fd
<1>0. spc \in {"size", "stream"} /\ c \in Clients
  BY DEF read_stream_size_from_client, read_stream_from_client, TypeInv, Attached, Serving
<1>1. /\ up \in [Clients -> Seq(Byte)] /\ up[c] \in Seq(Byte) /\ SIZEOF \in Nat
      /\ size_bytes \in Seq(Byte) /\ Len(size_bytes) <= SIZEOF /\ BUFFER_SZIE \in Nat
      /\ {stream_byte_size, total_bytes_read, printable_counter} \subseteq 0 .. UINT_MAX
      /\ pcc_client \in [Chars -> 0 .. UINT_MAX]
  BY <1>0, TypeParts, EncodingAssumption DEF TypeInv, ConnTypeOK, ServerTypeOK, Byte
<1>2. ASSUME NEW n \in Int, NEW bytes \in Arrived(up[c], n), ServerRecv(c, bytes)
      PROVE  /\ bytes \in Seq(Byte) /\ Len(bytes) \in Nat /\ Len(bytes) <= n /\ ConnTypeOK'
  <2>1. /\ bytes \in Seq(Byte) /\ Len(bytes) \in 1 .. Len(up[c]) /\ Len(bytes) <= n
        /\ Rest(up[c], bytes) \in Seq(Byte)
    BY <1>1, <1>2, ReadBytes
  <2>2. up' \in [Clients -> Seq(Byte)]
    BY <1>0, <1>1, <1>2, <2>1 DEF ServerRecv
  <2> QED
    BY <1>1, <1>2, <2>1, <2>2, TypeParts DEF ServerRecv, TypeInv, ConnTypeOK
<1>3. CASE read_stream_size_from_client
  <2>1. PICK bytes \in Arrived(up[c], SIZEOF - Len(size_bytes)) :
          ServerRecv(c, bytes) /\ ReadSize(bytes)
    BY <1>3 DEF read_stream_size_from_client
  <2>2. /\ bytes \in Seq(Byte) /\ Len(bytes) \in Nat /\ Len(bytes) <= SIZEOF - Len(size_bytes)
        /\ ConnTypeOK'
    BY <1>1, <1>2, <2>1
  <2>3. size_bytes' \in Seq(Byte) /\ Len(size_bytes') <= SIZEOF
    BY <1>1, <2>1, <2>2 DEF ReadSize
  <2>4. Len(size_bytes') = SIZEOF => ntohl(size_bytes') \in 0 .. UINT_MAX
    BY <2>3, WordSeq, NtohlType
  <2>5. Zero \in [Chars -> 0 .. UINT_MAX]
    BY UintMax DEF Zero
  <2>6. /\ stream_byte_size' \in 0 .. UINT_MAX /\ spc' \in {"size", "stream"}
        /\ total_bytes_read' = 0 /\ printable_counter' = 0 /\ 0 \in 0 .. UINT_MAX
        /\ pcc_client' \in [Chars -> 0 .. UINT_MAX]
    BY <1>1, <1>3, <2>1, <2>4, <2>5, UintMax DEF ReadSize, read_stream_size_from_client
  <2>7. UNCHANGED <<pcc_total, flags, unsent, history, connection_fd, status>>
    BY <1>3 DEF read_stream_size_from_client
  <2>8. Attached'
    BY <1>0, <2>7 DEF Attached
  <2> QED
    BY <1>0, <2>2, <2>3, <2>6, <2>7, <2>8 DEF TypeInv, TypeOK, ServerTypeOK, flags, history, Byte
<1>4. CASE read_stream_from_client
  <2>1. PICK bytes \in Arrived(up[c], BUFFER_SZIE) :
          /\ ServerRecv(c, bytes)
          /\ total_bytes_read' = uint32_t(total_bytes_read + Len(bytes))
          /\ printable_counter' = uint32_t(printable_counter + Printables(bytes))
          /\ update_pcc_client(bytes)
    BY <1>4 DEF read_stream_from_client
  <2>2. bytes \in Seq(Byte) /\ Len(bytes) \in Nat /\ ConnTypeOK'
    BY <1>1, <1>2, <2>1
  <2>3. Printables(bytes) \in Nat
    BY <2>2, PositionsFinite DEF Printables
  <2>4. /\ total_bytes_read + Len(bytes) \in Nat
        /\ printable_counter + Printables(bytes) \in Nat
    <3>1. total_bytes_read \in Nat /\ printable_counter \in Nat
      BY <1>1, UintMax
    <3> QED
      BY ONLY <2>2, <2>3, <3>1
  <2>5. total_bytes_read' \in 0 .. UINT_MAX /\ printable_counter' \in 0 .. UINT_MAX
    BY <2>1, <2>4, Uint32
  <2>6. ASSUME NEW k \in Chars
        PROVE  uint32_t(pcc_client[k] + Cardinality({i \in DOMAIN bytes :
                                                       bytes[i] = k + MIN_PRINTABLE_CHAR}))
                 \in 0 .. UINT_MAX
    <3>1. PICK n \in Nat : n = Cardinality({i \in DOMAIN bytes : bytes[i] = k + MIN_PRINTABLE_CHAR})
      BY <2>2, PositionsFinite
    <3>2. pcc_client[k] + n \in Nat
      BY <1>1, UintMax
    <3> QED
      BY <3>1, <3>2, Uint32
  <2>7. pcc_client' \in [Chars -> 0 .. UINT_MAX]
    BY <2>1, <2>6 DEF update_pcc_client
  <2>8. /\ UNCHANGED <<pcc_total, flags, size_bytes, stream_byte_size, unsent, history,
                       spc, connection_fd, status>>
    BY <1>4 DEF read_stream_from_client
  <2>9. Attached'
    BY <2>8 DEF Attached, TypeInv
  <2> QED
    BY <2>2, <2>5, <2>7, <2>8, <2>9 DEF TypeInv, TypeOK, ServerTypeOK, flags, history
<1> QED
  BY <1>3, <1>4

\* The answer to a client, and its end.
LEMMA AnswerType ==
    ASSUME TypeInv, StreamRead \/ send_printable_counter_to_client \/ update_pcc_total
    PROVE  ServerTypeOK' /\ ConnTypeOK' /\ Attached'
<1> DEFINE c == connection_fd
<1>0. c \in Clients
  BY DEF StreamRead, send_printable_counter_to_client, update_pcc_total, TypeInv, Attached, Serving
<1>1. /\ ConnTypeOK /\ ServerTypeOK
  BY TypeParts DEF TypeInv
<1>2. CASE StreamRead
  <2>1. printable_counter \in Nat
    BY <1>1, UintMax DEF ServerTypeOK
  <2>2. unsent' \in Seq(Byte)
    BY <1>2, <2>1, HtonlType, WordSeq DEF StreamRead
  <2> QED
    BY <1>0, <1>1, <1>2, <2>2
       DEF StreamRead, ServerTypeOK, ConnTypeOK, Attached, conn_vars, counts, flags, history, Byte
<1>3. CASE send_printable_counter_to_client
  <2>1. PICK bytes \in Arrived(unsent, SIZEOF) :
          /\ ServerSend(c, bytes) /\ unsent' = Rest(unsent, bytes)
          /\ spc' \in {"update", "send"}
          /\ answered' \in {answered, answered \cup {c}}
    BY <1>3 DEF send_printable_counter_to_client
  <2>2. unsent \in Seq(Byte) /\ SIZEOF \in Int
    BY <1>1, EncodingAssumption DEF ServerTypeOK, Byte
  <2>3. bytes \in Seq(Byte) /\ unsent' \in Seq(Byte)
    BY <2>1, <2>2, ReadBytes
  <2>4. down[c] \o bytes \in Seq(Byte)
    BY <1>0, <1>1, <2>3 DEF ConnTypeOK
  <2>5. down' \in [Clients -> Seq(Byte)]
    BY <1>0, <1>1, <2>1, <2>4 DEF ServerSend, ConnTypeOK
  <2>6. ConnTypeOK'
    BY <1>0, <1>1, <2>1, <2>5 DEF ServerSend, ConnTypeOK
  <2>7. UNCHANGED <<counts, flags, size_bytes, stream_byte_size, total_bytes_read,
                    printable_counter, sigints, failed, connection_fd, status>>
    BY <1>3 DEF send_printable_counter_to_client
  <2>8. Attached'
    BY <1>0, <2>7 DEF Attached
  <2> QED
    BY <1>0, <1>1, <2>1, <2>3, <2>6, <2>7, <2>8 DEF ServerTypeOK, counts, flags, Byte
<1>4. CASE update_pcc_total
  <2>1. ConnTypeOK'
    BY <1>0, <1>1, <1>4 DEF update_pcc_total, ServerClose, ConnTypeOK
  <2>2. ASSUME NEW k \in Chars PROVE uint32_t(pcc_total[k] + pcc_client[k]) \in 0 .. UINT_MAX
    <3>1. pcc_total[k] + pcc_client[k] \in Nat
      BY <1>1, UintMax DEF ServerTypeOK
    <3> QED
      BY <3>1, Uint32
  <2>3. pcc_total' \in [Chars -> 0 .. UINT_MAX]
    BY <1>4, <2>2 DEF update_pcc_total
  <2> QED
    BY <1>1, <1>4, <2>1, <2>3
       DEF update_pcc_total, ServerTypeOK, Attached, Serving, flags, request, history
<1> QED
  BY <1>2, <1>3, <1>4

\* The loop of main, and its errors.
LEMMA ServerType ==
    ASSUME TypeInv, Server \/ AcceptError
    PROVE  ServerTypeOK' /\ ConnTypeOK' /\ Attached'
<1>1. ConnTypeOK /\ ServerTypeOK /\ Attached
  BY TypeParts DEF TypeInv
<1>2. ASSUME NEW how \in {"success", "failure", "killed"}, ServerEnd(how),
             UNCHANGED <<counts, flags, request, history>>
      PROVE  ServerTypeOK' /\ ConnTypeOK' /\ Attached'
  <2>1. /\ ConnTypeOK' /\ spc' = "ended" /\ status' = how /\ connection_fd' = NULL /\ Attached'
    BY <1>2, ServerEndType
  <2> QED
    BY <1>1, <1>2, <2>1 DEF ServerTypeOK, counts, flags, request, history
<1>3. ASSUME GiveUp, connection_fd \in Clients, UNCHANGED flags
      PROVE  ServerTypeOK' /\ ConnTypeOK' /\ Attached'
  <2>1. /\ ConnTypeOK' /\ failed' \subseteq Clients /\ spc' = "test" /\ connection_fd' = NULL
        /\ UNCHANGED status /\ Attached'
    BY <1>3, CloseClientType DEF GiveUp
  <2> QED
    BY <1>1, <1>3, <2>1 DEF ServerTypeOK, counts, flags, request, GiveUp
<1>4. CASE Setup
  <2>1. CASE spc' = "signal" /\ UNCHANGED <<conn_vars, connection_fd, status>>
    BY <1>1, <1>4, <2>1
       DEF Setup, ServerTypeOK, ConnTypeOK, Attached, Serving, conn_vars, counts, flags, request,
           history
  <2> QED
    BY <1>2, <1>4, <2>1 DEF Setup
<1>5. CASE InstallHandler
  BY <1>1, <1>5 DEF InstallHandler, ServerTypeOK, ConnTypeOK, Attached, Serving, conn_vars, counts,
                    request, history
<1>6. CASE WhileRunning
  BY <1>1, <1>6 DEF WhileRunning, ServerTypeOK, ConnTypeOK, Attached, Serving, conn_vars, counts,
                    flags, request, history
<1>7. CASE Accept
  <2>1. connection_fd' \in Clients /\ backlog' \in Seq(Clients)
    BY <1>1, <1>7 DEF Accept, ConnTypeOK
  <2> QED
    BY <1>1, <1>7, <2>1 DEF Accept, ServerTypeOK, ConnTypeOK, Attached, counts, flags, request,
                            history
<1>8. CASE MarkProcessing
  <2>1. size_bytes' \in Seq(0 .. BASE - 1) /\ Len(size_bytes') <= SIZEOF
    BY <1>8, EncodingAssumption DEF MarkProcessing
  <2> QED
    BY <1>1, <1>8, <2>1 DEF MarkProcessing, ServerTypeOK, ConnTypeOK, Attached, Serving, conn_vars,
                            counts, history
<1>9. CASE ReadError
  BY <1>1, <1>3, <1>9 DEF ReadError, Attached, Serving
<1>10. CASE WriteError
  <2>1. connection_fd \in Clients
    BY <1>1, <1>10 DEF WriteError, Attached, Serving
  <2> QED
    BY <1>2, <1>3, <1>10, <2>1 DEF WriteError
<1>11. CASE ClearProcessing
  BY <1>1, <1>11 DEF ClearProcessing, ServerTypeOK, ConnTypeOK, Attached, Serving, conn_vars, counts,
                     request, history
<1>12. CASE PrintAndReturn \/ AcceptError
  BY <1>2, <1>12 DEF PrintAndReturn, AcceptError
<1> QED
  BY <1>4, <1>5, <1>6, <1>7, <1>8, <1>9, <1>10, <1>11, <1>12, ReadType, AnswerType DEF Server

\* The client's buffer after the next read of its file.
LEMMA ReadFileType ==
    ASSUME TypeInv, NEW c \in Clients, ReadFile(c)
    PROVE  ClientTypeOK'
<1> DEFINE left == SubSeq(file[c].data, file_read[c] + 1, Len(file[c].data))
           n == IF Len(left) < BUFFER_SZIE THEN Len(left) ELSE BUFFER_SZIE
<1>1. ClientTypeOK /\ file_read[c] \in Nat /\ file[c].data \in Seq(Byte) /\ BUFFER_SZIE \in Nat
  BY FileType, EncodingAssumption DEF TypeInv, TypeOK, ClientTypeOK
<1>2. left \in Seq(Byte) /\ Len(left) \in Nat
  BY <1>1, Part
<1>3. n \in 0 .. Len(left) /\ n \in Nat
  BY <1>1, <1>2
<1> HIDE DEF left, n
<1>4. SubSeq(left, 1, n) \in Seq(Byte)
  BY <1>2, <1>3, Part
<1>5. \/ /\ buffer' = [buffer EXCEPT ![c] = SubSeq(left, 1, n)]
         /\ file_read' = [file_read EXCEPT ![c] = @ + n]
         /\ UNCHANGED cpc
      \/ CGoto(c, "result") /\ UNCHANGED <<buffer, file_read>>
  BY DEF ReadFile, left, n
<1>6. UNCHANGED <<file, pcc_from_server>>
  BY DEF ReadFile
<1>7. CASE CGoto(c, "result") /\ UNCHANGED <<buffer, file_read>>
  BY <1>1, <1>6, <1>7 DEF ClientTypeOK, CGoto
<1>8. CASE /\ buffer' = [buffer EXCEPT ![c] = SubSeq(left, 1, n)]
           /\ file_read' = [file_read EXCEPT ![c] = @ + n]
           /\ UNCHANGED cpc
  <2>1. PICK b \in Seq(Byte) : b = SubSeq(left, 1, n)
    BY <1>4
  <2>2. buffer' \in [Clients -> Seq(Byte)]
    BY <1>1, <1>8, <2>1 DEF ClientTypeOK, Byte
  <2>3. file_read' \in [Clients -> Nat]
    BY <1>1, <1>3, <1>8 DEF ClientTypeOK
  <2> QED
    BY <1>1, <1>6, <1>8, <2>2, <2>3 DEF ClientTypeOK, Byte
<1> QED
  BY <1>5, <1>7, <1>8

\* The steps of a client.
LEMMA ClientType ==
    ASSUME TypeInv, NEW c \in Clients, Connect(c) \/ Client(c) \/ ClientError(c) \/ Kill(c)
    PROVE  ClientTypeOK' /\ ConnTypeOK'
<1>1. ConnTypeOK /\ ClientTypeOK
  BY TypeParts DEF TypeInv
<1>2. CASE Connect(c)
  <2>1. htonl(file[c].length) \in Seq(Byte)
    BY FileType, HtonlType, WordSeq
  <2>2. ClientTypeOK'
    BY <1>1, <1>2, <2>1 DEF Connect, CGoto, ClientTypeOK, Byte
  <2>3. ConnTypeOK'
    BY <1>1, <1>2 DEF Connect, Establish, ConnTypeOK
  <2> QED
    BY <2>2, <2>3
<1>3. CASE WriteBuffer(c)
  <2>1. up[c] \o buffer[c] \in Seq(Byte) /\ <<>> \in Seq(Byte)
    BY <1>1 DEF ConnTypeOK, ClientTypeOK, Byte
  <2>2. up' \in [Clients -> Seq(Byte)]
    BY <1>1, <1>3, <2>1 DEF WriteBuffer, ClientSend, ConnTypeOK
  <2>3. ConnTypeOK'
    BY <1>1, <1>3, <2>2 DEF WriteBuffer, ClientSend, ConnTypeOK
  <2>4. ClientTypeOK'
    BY <1>1, <1>3, <2>1 DEF WriteBuffer, CGoto, ClientTypeOK, Byte
  <2> QED
    BY <2>3, <2>4
<1>4. CASE ReadFile(c)
  <2>1. UNCHANGED conn_vars
    BY <1>4 DEF ReadFile
  <2> QED
    BY <1>1, <1>4, <2>1, ReadFileType DEF conn_vars, ConnTypeOK
<1>5. CASE read_result_from_server(c)
  <2> DEFINE n == SIZEOF - Len(pcc_from_server[c])
  <2>1. down[c] \in Seq(Byte) /\ pcc_from_server[c] \in Seq(Byte) /\ n \in Int
    BY <1>1, EncodingAssumption DEF ConnTypeOK, ClientTypeOK, Byte
  <2>2. PICK bytes \in Arrived(down[c], n) :
          /\ pcc_from_server' = [pcc_from_server EXCEPT ![c] = @ \o bytes]
          /\ down' = [down EXCEPT ![c] = Rest(@, bytes)]
          /\ CGoto(c, "done") \/ UNCHANGED cpc
          /\ c_open' \in {c_open, c_open \ {c}}
          /\ UNCHANGED <<backlog, up, s_open, broken>>
    BY <1>5 DEF read_result_from_server, ClientRecv
  <2>3. bytes \in Seq(Byte) /\ Rest(down[c], bytes) \in Seq(Byte)
    BY <2>1, <2>2, ReadBytes
  <2>4. pcc_from_server[c] \o bytes \in Seq(Byte)
    BY <2>1, <2>3
  <2>5. UNCHANGED <<file, buffer, file_read>>
    BY <1>5 DEF read_result_from_server
  <2>6. ClientTypeOK'
    BY <1>1, <2>2, <2>4, <2>5 DEF ClientTypeOK, CGoto, Byte
  <2>7. ConnTypeOK'
    BY <1>1, <2>2, <2>3 DEF ConnTypeOK
  <2> QED
    BY <2>6, <2>7
<1>6. CASE ClientEnd(c, "failed") \/ ClientEnd(c, "killed")
  BY <1>1, <1>6 DEF ClientEnd, ClientClose, CGoto, ClientTypeOK, ConnTypeOK
<1> QED
  BY <1>2, <1>3, <1>4, <1>5, <1>6
     DEF Client, write_stream_size_to_server, write_file_to_socket, ClientError, Kill

\* Every step keeps the types and what connection_fd is at each control point.
LEMMA TypeInvStep == TypeInv /\ [Next]_vars => TypeInv'
<1> SUFFICES ASSUME TypeInv, [Next]_vars PROVE TypeInv'
  OBVIOUS
<1>1. ServerTypeOK /\ ClientTypeOK /\ ConnTypeOK /\ Attached
  BY TypeParts DEF TypeInv
<1>2. (ServerTypeOK' /\ ClientTypeOK' /\ ConnTypeOK' /\ Attached') => TypeInv'
  <2>1. (TypeOK <=> ServerTypeOK /\ ClientTypeOK /\ ConnTypeOK)'
    BY TypeParts, PTL
  <2> QED
    BY <2>1 DEF TypeInv
<1>3. UNCHANGED client_vars => ClientTypeOK'
  BY <1>1 DEF client_vars, ClientTypeOK
<1>4. UNCHANGED server_vars => ServerTypeOK' /\ Attached'
  BY <1>1 DEF server_vars, counts, flags, request, history, ServerTypeOK, Attached
<1>5. CASE (Server \/ Sigint \/ AcceptError) /\ UNCHANGED client_vars
  BY <1>2, <1>3, <1>5, ServerType, SigintType
<1>6. ASSUME NEW c \in Clients, Connect(c) \/ Client(c) \/ ClientError(c) \/ Kill(c),
             UNCHANGED server_vars
      PROVE  TypeInv'
  BY <1>2, <1>4, <1>6, ClientType
<1>7. ASSUME NEW c \in Clients, Reset(c), UNCHANGED <<client_vars, server_vars>> PROVE TypeInv'
  <2>1. ConnTypeOK'
    BY <1>1, <1>7 DEF Reset, ConnTypeOK
  <2> QED
    BY <1>2, <1>3, <1>4, <1>7, <2>1
<1>8. CASE UNCHANGED vars
  <2>1. ConnTypeOK'
    BY <1>1, <1>8 DEF vars, conn_vars, ConnTypeOK
  <2> QED
    BY <1>2, <1>3, <1>4, <1>8, <2>1 DEF vars
<1> QED
  BY <1>5, <1>6, <1>7, <1>8 DEF Next

\* They hold throughout.
LEMMA TypeInvAlways == Spec => []TypeInv
<1>1. Init => TypeInv
  <2> SUFFICES ASSUME Init PROVE TypeInv
    OBVIOUS
  <2>1. <<>> \in Seq(Clients) /\ <<>> \in Seq(0 .. BASE - 1) /\ Len(<<>>) = 0
    OBVIOUS
  <2>2. ServerTypeOK
    <3>1. /\ pcc_total \in [Chars -> 0 .. UINT_MAX] /\ pcc_client \in [Chars -> 0 .. UINT_MAX]
          /\ {stream_byte_size, total_bytes_read, printable_counter} \subseteq 0 .. UINT_MAX
      BY UintMax DEF Init, ServerInit, Zero
    <3>2. /\ size_bytes \in Seq(0 .. BASE - 1) /\ Len(size_bytes) <= SIZEOF
          /\ unsent \in Seq(0 .. BASE - 1)
      BY EncodingAssumption DEF Init, ServerInit
    <3>3. /\ g_server_is_running \in BOOLEAN /\ g_server_is_processing \in BOOLEAN
          /\ sigints \in Nat /\ answered \subseteq Clients /\ failed \subseteq Clients
      BY DEF Init, ServerInit
    <3> QED
      BY <3>1, <3>2, <3>3 DEF Init, ServerInit, ServerTypeOK
  <2>3. ClientTypeOK
    BY <2>1 DEF Init, ClientInit, ClientTypeOK
  <2>4. ConnTypeOK
    BY <2>1 DEF Init, ConnInit, ConnTypeOK, Byte
  <2>5. Attached
    BY DEF Init, ServerInit, Attached, Serving
  <2> QED
    BY <2>2, <2>3, <2>4, <2>5, TypeParts DEF TypeInv
<1> QED
  BY <1>1, TypeInvStep, PTL DEF Spec

\* The state keeps its types: in particular, every number that the server computes fits
\* its uint32_t, and no stream is read on a connection that was closed.
THEOREM TypeCorrect == Spec => []TypeOK
<1>1. TypeInv => TypeOK
  BY DEF TypeInv
<1> QED
  BY <1>1, TypeInvAlways, PTL

-----------------------------------------------------------------------------
(***************************************************************************)
(* SIGINT.                                                                 *)
(***************************************************************************)
\* g_server_is_processing is set exactly from the first read of a client to the end of
\* its service, as long as no client was given up; and a SIGINT that did not end the
\* server has left it no way back to accept.
SignalInv ==
    /\ spc \in {"size", "stream", "send", "update", "clear"} => g_server_is_processing = TRUE
    /\ failed = {} /\ spc \in {"setup", "signal", "test", "accept", "accepted"} =>
         g_server_is_processing = FALSE
    /\ sigints > 0 /\ failed = {} =>
         /\ g_server_is_running = FALSE \/ spc = "ended"
         /\ spc \notin {"setup", "signal", "accept", "accepted"}

\* The signal itself.
LEMMA SignalOfSigint ==
    ASSUME TypeInv, SignalInv, Sigint
    PROVE  SignalInv'
<1>1. sigints' \in Nat /\ sigints \in Nat
  BY DEF Sigint, TypeInv, TypeOK, ServerTypeOK
<1>2. ASSUME NEW how, ServerEnd(how) PROVE SignalInv'
  BY <1>2 DEF ServerEnd, SignalInv
<1>3. CASE ~(disposition = "handler" /\ g_server_is_processing)
  BY <1>2, <1>3 DEF Sigint, sig_int_handler
<1>4. CASE disposition = "handler" /\ g_server_is_processing
  <2>1. HandlerProcessing
    BY <1>4 DEF Sigint, sig_int_handler
  <2>2. CASE CloseClient
    <3>1. failed' # {} /\ spc' = "test"
      BY <2>2 DEF CloseClient
    <3> QED
      BY <3>1 DEF SignalInv
  <2>3. CASE UNCHANGED <<spc, failed>>
    <3>1. g_server_is_running' = FALSE /\ UNCHANGED g_server_is_processing
      BY <2>1 DEF HandlerProcessing
    <3>2. g_server_is_processing = TRUE
      BY <1>4 DEF TypeInv, TypeOK, ServerTypeOK
    <3> QED
      BY <2>3, <3>1, <3>2 DEF SignalInv
  <2> QED
    BY <1>2, <2>1, <2>2, <2>3 DEF HandlerProcessing
<1> QED
  BY <1>3, <1>4

\* The steps of the server.
LEMMA SignalOfServer ==
    ASSUME TypeInv, SignalInv, Server \/ AcceptError
    PROVE  SignalInv'
<1>1. ASSUME NEW how, ServerEnd(how) PROVE SignalInv'
  BY <1>1 DEF ServerEnd, SignalInv
<1>2. ASSUME CloseClient PROVE SignalInv'
  BY <1>2 DEF CloseClient, SignalInv
<1>3. CASE Setup
  BY <1>1, <1>3 DEF Setup, SignalInv, flags, history
<1>4. CASE InstallHandler
  BY <1>4 DEF InstallHandler, SignalInv, history
<1>5. CASE WhileRunning
  BY <1>5 DEF WhileRunning, SignalInv, flags, history
<1>6. CASE Accept
  BY <1>6 DEF Accept, SignalInv, flags, history
<1>7. CASE MarkProcessing
  BY <1>7 DEF MarkProcessing, SignalInv, history
<1>8. CASE read_stream_size_from_client
  <2>1. spc' \in {"size", "stream"} /\ spc = "size" /\ UNCHANGED <<flags, history>>
    BY <1>8 DEF read_stream_size_from_client, ReadSize
  <2> QED
    BY <2>1 DEF SignalInv, flags, history
<1>9. CASE read_stream_from_client \/ StreamRead
  BY <1>9 DEF read_stream_from_client, StreamRead, SignalInv, flags, history
<1>10. CASE send_printable_counter_to_client
  <2>1. /\ spc' \in {"update", "send"} /\ spc = "send"
        /\ UNCHANGED <<flags, sigints, failed>>
    BY <1>10 DEF send_printable_counter_to_client
  <2> QED
    BY <2>1 DEF SignalInv, flags
<1>11. CASE update_pcc_total
  BY <1>11 DEF update_pcc_total, SignalInv, flags, history
<1>12. CASE ClearProcessing
  BY <1>12 DEF ClearProcessing, SignalInv, history
<1>13. CASE ReadError \/ WriteError \/ PrintAndReturn \/ AcceptError
  BY <1>1, <1>2, <1>13 DEF ReadError, WriteError, PrintAndReturn, AcceptError, GiveUp
<1> QED
  BY <1>3, <1>4, <1>5, <1>6, <1>7, <1>8, <1>9, <1>10, <1>11, <1>12, <1>13 DEF Server

\* Every step keeps what the signal handler relies on.
LEMMA SignalInvStep == TypeInv /\ SignalInv /\ [Next]_vars => SignalInv'
<1> SUFFICES ASSUME TypeInv, SignalInv, [Next]_vars PROVE SignalInv'
  OBVIOUS
<1>1. CASE UNCHANGED server_vars
  BY <1>1 DEF server_vars, flags, history, SignalInv
<1>2. CASE UNCHANGED vars
  BY <1>1, <1>2 DEF vars
<1> QED
  BY <1>1, <1>2, SignalOfSigint, SignalOfServer DEF Next

\* It holds throughout.
LEMMA SignalInvAlways == Spec => []SignalInv
<1>1. Init => SignalInv
  BY DEF Init, ServerInit, SignalInv
<1> QED
  BY <1>1, SignalInvStep, TypeInvAlways, PTL DEF Spec

\* After a SIGINT no client is accepted, however the signal falls between the steps of the
\* server, unless a client has failed before: then line 252 has left
\* g_server_is_processing set.
THEOREM AcceptStops == Spec => NoAcceptAfterSigint
<1> DEFINE A == spc = "accept" /\ spc' = "accepted" => sigints = 0 \/ failed # {}
<1>1. TypeInv /\ SignalInv => [A]_vars
  <2> SUFFICES ASSUME TypeInv, SignalInv, spc = "accept" PROVE sigints = 0 \/ failed # {}
    OBVIOUS
  <2>1. sigints \in Nat
    BY DEF TypeInv, TypeOK, ServerTypeOK
  <2> QED
    BY <2>1 DEF SignalInv
<1> QED
  BY <1>1, TypeInvAlways, SignalInvAlways, PTL DEF NoAcceptAfterSigint

-----------------------------------------------------------------------------
(***************************************************************************)
(* The statistics and the answers. The bytes of a client are followed from *)
(* its file to its buffer, through the connection, to the counters of the  *)
(* server, and those of the answer back to the client.                     *)
(***************************************************************************)
\* Every file is sent as stat saw it, and its length fits a uint32_t.
WholeFiles == \A f \in Files : f.length = Len(f.data) /\ Len(f.data) <= UINT_MAX

\* What a client sends: position i of the length and the bytes of its file.
Wire(f, i) == IF i <= SIZEOF THEN htonl(f.length)[i] ELSE f.data[i - SIZEOF]

Queued == {backlog[i] : i \in 1 .. Len(backlog)}

\* Where a client is: waiting in the backlog, being served, or answered, once.
Places ==
    /\ \A i, j \in 1 .. Len(backlog) : backlog[i] = backlog[j] => i = j
    /\ connection_fd \notin Queued
    /\ Queued \subseteq s_open /\ (spc \in Serving => connection_fd \in s_open)
    /\ spc \notin Serving => connection_fd = NULL
    /\ \A c \in Queued \cup {connection_fd} \cup answered : c \in Clients => cpc[c] # "start"
    /\ answered \cap Queued = {}
    /\ connection_fd \in answered <=> spc = "update"
    /\ IsFiniteSet(answered)

\* What a client has read of its file and not yet sent.
BufferOf(c) ==
    /\ cpc[c] = "start" => file_read[c] = 0
    /\ cpc[c] = "size" => file_read[c] = 0 /\ buffer[c] = htonl(file[c].length)
    /\ cpc[c] = "file" =>
         /\ Len(buffer[c]) <= file_read[c] /\ file_read[c] <= Len(file[c].data)
         /\ \A i \in 1 .. Len(buffer[c]) :
               buffer[c][i] = file[c].data[file_read[c] - Len(buffer[c]) + i]
Buffered == \A c \in Clients : BufferOf(c)

\* The clients whose request is still to be read, the bytes the server has read of it
\* and the bytes the client has sent.
Unread(c) == c \in Queued \/ (c = connection_fd /\ spc \in {"accepted", "size", "stream"})
Consumed(c) == IF c = connection_fd /\ spc = "size" THEN Len(size_bytes)
               ELSE IF c = connection_fd /\ spc = "stream" THEN SIZEOF + total_bytes_read
               ELSE 0
Produced(c) == IF cpc[c] = "size" THEN 0 ELSE SIZEOF + (file_read[c] - Len(buffer[c]))

\* The bytes on their way to the server are the ones of the wire that come next.
StreamOf(c) ==
    /\ cpc[c] = "start" => up[c] = <<>>
    /\ Unread(c) =>
         /\ Consumed(c) + Len(up[c]) <= SIZEOF + Len(file[c].data)
         /\ \A i \in 1 .. Len(up[c]) : up[c][i] = Wire(file[c], Consumed(c) + i)
         /\ cpc[c] \in {"size", "file"} => Consumed(c) + Len(up[c]) = Produced(c)
Streams == \A c \in Clients : StreamOf(c)

\* The bytes among the first n of data that are in S.
Count(data, n, S) == Cardinality({j \in 1 .. n : data[j] \in S})
Printable == MIN_PRINTABLE_CHAR .. MAX_PRINTABLE_CHAR

\* The counters are those of the bytes of the client's file up to n.
CountedTo(c, n) ==
    /\ printable_counter = Count(file[c].data, n, Printable)
    /\ \A k \in Chars : pcc_client[k] = Count(file[c].data, n, {k + MIN_PRINTABLE_CHAR})

\* What the server knows of the request it reads.
Requests ==
    /\ spc = "size" =>
         /\ Len(size_bytes) < SIZEOF
         /\ \A i \in 1 .. Len(size_bytes) : size_bytes[i] = htonl(file[connection_fd].length)[i]
    /\ spc = "stream" =>
         /\ stream_byte_size = Len(file[connection_fd].data)
         /\ total_bytes_read <= Len(file[connection_fd].data)
         /\ CountedTo(connection_fd, total_bytes_read)
    /\ spc \in {"send", "update"} => CountedTo(connection_fd, Len(file[connection_fd].data))

\* The answer to a client, and its bytes on the way.
Answer(c) == htonl(Count(file[c].data, Len(file[c].data), Printable))
Arriving(c) == Len(pcc_from_server[c]) + Len(down[c])
AnswerOf(c) ==
    /\ cpc[c] = "start" \/ Unread(c) => Arriving(c) = 0
    /\ Arriving(c) <= SIZEOF
    /\ \A i \in 1 .. Len(pcc_from_server[c]) : pcc_from_server[c][i] = Answer(c)[i]
    /\ \A i \in 1 .. Len(down[c]) : down[c][i] = Answer(c)[Len(pcc_from_server[c]) + i]
    /\ cpc[c] = "done" => Len(pcc_from_server[c]) = SIZEOF
Sending ==
    spc = "send" =>
        /\ Len(unsent) <= SIZEOF
        /\ \A i \in 1 .. Len(unsent) :
              unsent[i] = Answer(connection_fd)[SIZEOF - Len(unsent) + i]
        /\ connection_fd \in c_open => Arriving(connection_fd) + Len(unsent) = SIZEOF
Answers == Sending /\ \A c \in Clients : AnswerOf(c)

\* pcc_total counts the answered clients, but for the one whose counts are still to be added.
Totals ==
    /\ status # "running" => spc = "ended"
    /\ status # "killed" =>
         \A k \in Chars :
             pcc_total[k] = uint32_t(Cardinality(Occurrences(answered \ {connection_fd}, k)))

\* A count among the first n bytes is at most n.
LEMMA CountType ==
    ASSUME NEW data \in Seq(Byte), NEW n \in 0 .. Len(data), NEW S
    PROVE  /\ IsFiniteSet({j \in 1 .. n : data[j] \in S})
           /\ Count(data, n, S) \in 0 .. n
<1>1. n \in Int /\ n \in Nat /\ IsFiniteSet(1 .. n) /\ Cardinality(1 .. n) = n
  <2>1. n \in Int /\ n \in Nat
    OBVIOUS
  <2>2. 1 \in Int /\ (IF 1 > n THEN 0 ELSE n - 1 + 1) = n
    BY <2>1
  <2> QED
    BY <2>1, <2>2, FS_Interval
<1> DEFINE T == {j \in 1 .. n : data[j] \in S}
<1>2. T \subseteq 1 .. n
  OBVIOUS
<1> HIDE DEF T
<1>3. IsFiniteSet(T) /\ Cardinality(T) <= n
  BY <1>1, <1>2, FS_Subset
<1>4. Cardinality(T) \in Nat
  BY <1>3, FS_CardinalityType
<1> QED
  BY <1>1, <1>3, <1>4 DEF T, Count

\* A bijection between two sets of numbers, by a shift.
LEMMA Shifted ==
    ASSUME NEW n \in Nat, NEW T, T \subseteq Nat, IsFiniteSet(T)
    PROVE  LET U == {n + i : i \in T} IN IsFiniteSet(U) /\ Cardinality(U) = Cardinality(T)
<1> DEFINE U == {n + i : i \in T}
           f == [i \in T |-> n + i]
<1>1. f \in Bijection(T, U)
  <2>1. f \in [T -> U]
    OBVIOUS
  <2>2. \A a, b \in T : f[a] = f[b] => a = b
    OBVIOUS
  <2>3. \A u \in U : \E a \in T : f[a] = u
    OBVIOUS
  <2> QED
    BY <2>1, <2>2, <2>3 DEF Bijection, Injection, Surjection, IsInjective
<1> HIDE DEF f, U
<1>2. IsFiniteSet(U)
  BY <1>1, FS_Surjection DEF Bijection
<1>3. Cardinality(T) = Cardinality(U)
  BY <1>1, FS_Bijection DEF ExistsBijection
<1> QED
  BY <1>2, <1>3 DEF U

\* The positions of a part whose bytes are in S.
Hits(bytes, S) == {i \in DOMAIN bytes : bytes[i] \in S}

\* Counting part after part counts the whole.
LEMMA CountStep ==
    ASSUME NEW data \in Seq(Byte), NEW n \in Nat, NEW bytes \in Seq(Byte), NEW S,
           n + Len(bytes) <= Len(data),
           \A i \in 1 .. Len(bytes) : bytes[i] = data[n + i]
    PROVE  /\ Cardinality(Hits(bytes, S)) \in Nat
           /\ Count(data, n + Len(bytes), S) = Count(data, n, S) + Cardinality(Hits(bytes, S))
<1> DEFINE T == {i \in DOMAIN bytes : bytes[i] \in S}
           U == {n + i : i \in T}
           A == {j \in 1 .. n : data[j] \in S}
           B == {j \in 1 .. n + Len(bytes) : data[j] \in S}
<1>1. n \in 0 .. Len(data) /\ Len(bytes) \in Nat
  OBVIOUS
<1>2. IsFiniteSet(A)
  BY <1>1, CountType
<1>3. T \subseteq DOMAIN bytes /\ T \subseteq Nat
  OBVIOUS
<1>4. IsFiniteSet(T) /\ Cardinality(T) \in Nat
  BY <1>3, PositionsFinite
<1>5. IsFiniteSet(U) /\ Cardinality(U) = Cardinality(T)
  BY <1>3, <1>4, Shifted
<1>6. B = A \cup U
  <2>1. ASSUME NEW j \in B PROVE j \in A \cup U
    <3>1. CASE j <= n
      BY <1>1, <3>1
    <3>2. CASE j > n
      <4>1. j - n \in 1 .. Len(bytes) /\ n + (j - n) = j
        <5>1. n \in Int /\ j \in 1 .. n + Len(bytes) /\ Len(bytes) \in Int
          BY <1>1
        <5> QED
          BY ONLY <3>2, <5>1
      <4>2. j - n \in DOMAIN bytes /\ bytes[j - n] = data[n + (j - n)]
        <5>1. PICK m \in 1 .. Len(bytes) : m = j - n
          BY <4>1
        <5>2. m \in DOMAIN bytes /\ bytes[m] = data[n + m]
          OBVIOUS
        <5> QED
          BY <5>1, <5>2
      <4>3. j - n \in T
        BY <4>1, <4>2
      <4> QED
        BY <4>1, <4>3
    <3> QED
      BY <1>1, <3>1, <3>2
  <2>2. ASSUME NEW i \in T PROVE n + i \in B
    <3>1. i \in 1 .. Len(bytes) /\ n \in Nat /\ Len(bytes) \in Nat
      BY <1>1
    <3>2. n + i \in 1 .. n + Len(bytes)
      BY ONLY <3>1
    <3> QED
      BY <3>1, <3>2
  <2>3. A \subseteq B
    BY <1>1
  <2> QED
    BY <2>1, <2>2, <2>3
<1>7. A \cap U = {}
  BY <1>1
<1> HIDE DEF A, U, B, T
<1>8. Cardinality(A \cup U) = Cardinality(A) + Cardinality(U) - Cardinality(A \cap U)
  BY <1>2, <1>5, FS_Union
<1>9. Cardinality(A \cap U) = 0
  BY <1>7, FS_EmptySet
<1>10. Cardinality(A) \in Nat
  BY <1>2, FS_CardinalityType
<1>11. Cardinality(B) = Cardinality(A) + Cardinality(T)
  BY <1>4, <1>5, <1>6, <1>8, <1>9, <1>10
<1> QED
  BY <1>4, <1>11 DEF A, B, T, Count, Hits

-----------------------------------------------------------------------------
\* A client that waits for accept is not one of the others.
LEMMA Established ==
    ASSUME TypeInv, Places, NEW c \in Clients, backlog' = Append(backlog, c), c \notin Queued
    PROVE  /\ Queued' = Queued \cup {c}
           /\ \A i, j \in 1 .. Len(backlog') : backlog'[i] = backlog'[j] => i = j
<1>1. backlog \in Seq(Clients)
  BY DEF TypeInv, TypeOK
<1>2. PICK q : q = backlog'
  OBVIOUS
<1>3. /\ Len(q) = Len(backlog) + 1 /\ q[Len(backlog) + 1] = c
      /\ \A i \in 1 .. Len(backlog) : q[i] = backlog[i]
  BY <1>1, <1>2
<1>4. \A i \in 1 .. Len(q) : i \in 1 .. Len(backlog) \/ i = Len(backlog) + 1
  BY <1>1, <1>3
<1>5. {q[i] : i \in 1 .. Len(q)} = Queued \cup {c}
  <2>1. \A i \in 1 .. Len(backlog) : i \in 1 .. Len(q)
    BY <1>1, <1>3
  <2>2. Len(backlog) + 1 \in 1 .. Len(q)
    BY <1>1, <1>3
  <2> QED
    BY <1>3, <1>4, <2>1, <2>2 DEF Queued
<1>6. \A i \in 1 .. Len(backlog) : q[i] # c
  BY <1>3 DEF Queued
<1>7. \A i, j \in 1 .. Len(backlog) : q[i] = q[j] => i = j
  BY <1>3 DEF Places
<1>8. \A i, j \in 1 .. Len(q) : q[i] = q[j] => i = j
  BY <1>3, <1>4, <1>6, <1>7
<1> QED
  BY <1>2, <1>5, <1>8 DEF Queued

\* accept takes the oldest client out of the backlog and nobody else.
LEMMA Accepted ==
    ASSUME TypeInv, Places, backlog # <<>>, backlog' = Tail(backlog)
    PROVE  /\ Head(backlog) \in Queued /\ Queued' = Queued \ {Head(backlog)}
           /\ \A i, j \in 1 .. Len(backlog') : backlog'[i] = backlog'[j] => i = j
<1>1. backlog \in Seq(Clients)
  BY DEF TypeInv, TypeOK
<1>2. PICK q : q = backlog'
  OBVIOUS
<1>3. /\ Len(backlog) \in Nat \ {0} /\ Len(q) = Len(backlog) - 1
      /\ \A i \in 1 .. Len(q) : q[i] = backlog[i + 1] /\ i + 1 \in 1 .. Len(backlog)
      /\ Head(backlog) = backlog[1] /\ 1 \in 1 .. Len(backlog)
  BY <1>1, <1>2
<1>4. \A i, j \in 1 .. Len(backlog) : backlog[i] = backlog[j] => i = j
  BY DEF Places
<1>5. Head(backlog) \in Queued
  BY <1>3 DEF Queued
<1>6. \A i \in 1 .. Len(q) : q[i] \in Queued \ {Head(backlog)}
  <2> SUFFICES ASSUME NEW i \in 1 .. Len(q) PROVE q[i] \in Queued \ {Head(backlog)}
    OBVIOUS
  <2>1. i + 1 \in 1 .. Len(backlog) /\ q[i] = backlog[i + 1] /\ i + 1 # 1
    BY <1>3
  <2> QED
    BY <1>3, <1>4, <2>1 DEF Queued
<1>7. ASSUME NEW x \in Queued \ {Head(backlog)} PROVE \E i \in 1 .. Len(q) : q[i] = x
  <2>1. PICK i \in 1 .. Len(backlog) : x = backlog[i]
    BY DEF Queued
  <2>2. i # 1
    BY <1>3, <2>1
  <2>3. i - 1 \in 1 .. Len(q) /\ (i - 1) + 1 = i
    BY <1>3, <2>2
  <2> QED
    BY <1>3, <2>1, <2>3
<1>8. {q[i] : i \in 1 .. Len(q)} = Queued \ {Head(backlog)}
  BY <1>6, <1>7
<1>9. \A i, j \in 1 .. Len(q) : q[i] = q[j] => i = j
  <2> SUFFICES ASSUME NEW i \in 1 .. Len(q), NEW j \in 1 .. Len(q), q[i] = q[j] PROVE i = j
    OBVIOUS
  <2>1. i + 1 = j + 1
    BY <1>3, <1>4
  <2> QED
    BY <2>1
<1>10. Queued' = {q[i] : i \in 1 .. Len(q)}
  BY <1>2 DEF Queued
<1>11. \A i, j \in 1 .. Len(backlog') : backlog'[i] = backlog'[j] => i = j
  BY <1>2, <1>9
<1> QED
  BY <1>5, <1>8, <1>10, <1>11

\* Steps that only move the server between points of the same kind.
LEMMA PlacesKept ==
    ASSUME TypeInv, Places, UNCHANGED <<backlog, connection_fd, s_open, answered>>,
           spc' \in Serving <=> spc \in Serving, spc' = "update" <=> spc = "update",
           \A c \in Clients : cpc'[c] = "start" => cpc[c] = "start"
    PROVE  Places'
<1>1. Queued' = Queued
  BY DEF Queued
<1> QED
  BY <1>1 DEF Places

\* The end of the server, and of a connection.
LEMMA PlacesEnd ==
    ASSUME TypeInv, Places, UNCHANGED <<cpc, answered>>, NEW how, ServerEnd(how)
    PROVE  Places'
<1>1. Queued' = {} /\ Len(backlog') = 0 /\ \A i \in 1 .. 0 : FALSE
  BY DEF ServerEnd, ServerCloseAll, Queued
<1>2. connection_fd' = NULL /\ spc' = "ended"
  BY DEF ServerEnd
<1>3. NULL \notin answered
  BY ServerAssumption DEF TypeInv, TypeOK, ServerTypeOK
<1>4. \A i, j \in 1 .. Len(backlog') : backlog'[i] = backlog'[j] => i = j
  BY <1>1
<1>5. \A c \in Queued' \cup {connection_fd'} \cup answered' : c \in Clients => cpc'[c] # "start"
  BY <1>1, <1>2, ServerAssumption DEF Places
<1> QED
  BY <1>1, <1>2, <1>3, <1>4, <1>5 DEF Places, Serving

\* Closing the connection of the client being served.
LEMMA PlacesClose ==
    ASSUME TypeInv, Places, UNCHANGED <<cpc, answered, backlog>>, spc \in Serving,
           s_open' = s_open \ {connection_fd}, connection_fd' = NULL, spc' \in {"test", "clear"}
    PROVE  Places'
<1>1. Queued' = Queued /\ Queued \subseteq Clients
  BY DEF Queued, TypeInv, TypeOK
<1>2. NULL \notin answered /\ NULL \notin Queued
  BY <1>1, ServerAssumption DEF TypeInv, TypeOK, ServerTypeOK
<1>3. Queued' \subseteq s_open'
  BY <1>1 DEF Places
<1> QED
  BY <1>1, <1>2, <1>3, ServerAssumption DEF Places, Serving

\* The steps of the server keep the clients in their places.
LEMMA PlacesServer ==
    ASSUME TypeInv, Places, Server \/ Sigint \/ AcceptError, UNCHANGED client_vars
    PROVE  Places'
<1>0. UNCHANGED cpc
  BY DEF client_vars
<1>1. ASSUME UNCHANGED <<backlog, connection_fd, s_open, answered>>,
             spc' \in Serving <=> spc \in Serving, spc' = "update" <=> spc = "update"
      PROVE  Places'
  BY <1>0, <1>1, PlacesKept
<1>2. ASSUME NEW how, ServerEnd(how), UNCHANGED answered PROVE Places'
  BY <1>0, <1>2, PlacesEnd
<1>3. ASSUME CloseClient, UNCHANGED answered, spc \in Serving PROVE Places'
  BY <1>0, <1>3, PlacesClose DEF CloseClient, ServerClose
<1>4. CASE Setup
  BY <1>1, <1>2, <1>4 DEF Setup, history, conn_vars, Serving
<1>5. CASE InstallHandler \/ WhileRunning \/ MarkProcessing \/ read_stream_from_client
              \/ StreamRead \/ ClearProcessing
  BY <1>1, <1>5 DEF InstallHandler, WhileRunning, MarkProcessing, read_stream_from_client, StreamRead,
                    ClearProcessing, ServerRecv, history, conn_vars, Serving
<1>6. CASE Accept
  <2>1. /\ Head(backlog) \in Queued /\ Queued' = Queued \ {Head(backlog)}
        /\ \A i, j \in 1 .. Len(backlog') : backlog'[i] = backlog'[j] => i = j
    BY <1>6, Accepted DEF Accept
  <2>2. /\ connection_fd' = Head(backlog) /\ spc' = "accepted" /\ UNCHANGED <<s_open, answered>>
    BY <1>6 DEF Accept, history
  <2> QED
    BY <1>0, <2>1, <2>2 DEF Places, Serving
<1>7. CASE read_stream_size_from_client
  <2>1. spc = "size" /\ spc' \in {"size", "stream"}
        /\ UNCHANGED <<backlog, connection_fd, s_open, answered>>
    BY <1>7 DEF read_stream_size_from_client, ReadSize, ServerRecv, history
  <2> QED
    BY <1>1, <2>1 DEF Serving
<1>8. CASE ReadError
  BY <1>3, <1>8 DEF ReadError, GiveUp, Serving
<1>9. CASE send_printable_counter_to_client
  <2>1. /\ spc = "send" /\ UNCHANGED <<backlog, connection_fd, s_open>>
        /\ \/ spc' = "update" /\ answered' = answered \cup {connection_fd}
           \/ spc' = "send" /\ answered' = answered
    BY <1>9 DEF send_printable_counter_to_client, ServerSend
  <2>2. Queued' = Queued
    BY <2>1 DEF Queued
  <2>3. IsFiniteSet(answered')
    BY <2>1, FS_AddElement DEF Places
  <2> QED
    BY <1>0, <2>1, <2>2, <2>3 DEF Places, Serving
<1>10. CASE WriteError
  BY <1>2, <1>3, <1>10 DEF WriteError, GiveUp, Serving, history
<1>11. CASE update_pcc_total
  <2>1. /\ UNCHANGED <<answered, backlog>> /\ spc \in Serving
        /\ s_open' = s_open \ {connection_fd} /\ connection_fd' = NULL /\ spc' \in {"test", "clear"}
    BY <1>11 DEF update_pcc_total, ServerClose, history, Serving
  <2> QED
    BY <1>0, <2>1, PlacesClose
<1>12. CASE PrintAndReturn \/ AcceptError
  BY <1>2, <1>12 DEF PrintAndReturn, AcceptError, history
<1>13. CASE Sigint
  <2>1. UNCHANGED answered
    BY <1>13 DEF Sigint
  <2>2. \/ \E how : ServerEnd(how)
        \/ UNCHANGED <<conn_vars, spc, connection_fd>>
        \/ CloseClient /\ spc \in {"size", "stream"}
    BY <1>13 DEF Sigint, sig_int_handler, HandlerProcessing
  <2> QED
    BY <1>1, <1>2, <1>3, <2>1, <2>2 DEF conn_vars, Serving
<1> QED
  BY <1>4, <1>5, <1>6, <1>7, <1>8, <1>9, <1>10, <1>11, <1>12, <1>13 DEF Server

\* The steps of a client, as the others see them.
LEMMA ClientMoves ==
    ASSUME TypeInv, NEW c \in Clients, Client(c) \/ ClientError(c) \/ Kill(c)
    PROVE  /\ UNCHANGED <<backlog, s_open, file>>
           /\ \A d \in Clients : cpc'[d] = "start" => cpc[d] = "start"
<1>1. cpc \in [Clients -> {"start", "size", "file", "result", "done", "failed", "killed"}]
  BY DEF TypeInv, TypeOK, ClientTypeOK
<1>2. CASE WriteBuffer(c)
  BY <1>1, <1>2 DEF WriteBuffer, ClientSend, CGoto
<1>3. CASE ReadFile(c)
  <2>1. UNCHANGED <<backlog, s_open, file>> /\ (CGoto(c, "result") \/ UNCHANGED cpc)
    BY <1>3 DEF ReadFile, conn_vars
  <2> QED
    BY <1>1, <2>1 DEF CGoto
<1>4. CASE read_result_from_server(c)
  <2>1. UNCHANGED <<backlog, s_open, file>> /\ (CGoto(c, "done") \/ UNCHANGED cpc)
    BY <1>4 DEF read_result_from_server, ClientRecv
  <2> QED
    BY <1>1, <2>1 DEF CGoto
<1>5. CASE ClientEnd(c, "failed") \/ ClientEnd(c, "killed")
  BY <1>1, <1>5 DEF ClientEnd, ClientClose, CGoto
<1> QED
  BY <1>2, <1>3, <1>4, <1>5
     DEF Client, write_stream_size_to_server, write_file_to_socket, ClientError, Kill

\* A client that connects is queued once.
LEMMA PlacesConnect ==
    ASSUME TypeInv, Places, NEW c \in Clients, Connect(c), UNCHANGED server_vars
    PROVE  Places'
<1>1. /\ cpc[c] = "start" /\ backlog' = Append(backlog, c) /\ s_open' = s_open \cup {c}
      /\ cpc' = [cpc EXCEPT ![c] = "size"] /\ UNCHANGED <<connection_fd, spc, answered>>
  BY DEF Connect, Establish, CGoto, server_vars, history
<1>2. c \notin Queued /\ c # connection_fd /\ c \notin answered
  BY <1>1 DEF Places
<1>3. /\ Queued' = Queued \cup {c}
      /\ \A i, j \in 1 .. Len(backlog') : backlog'[i] = backlog'[j] => i = j
  BY <1>1, <1>2, Established
<1>4. \A d \in Clients : cpc'[d] = "start" => cpc[d] = "start" /\ d # c
  BY <1>1 DEF TypeInv, TypeOK, ClientTypeOK
<1> QED
  BY <1>1, <1>2, <1>3, <1>4 DEF Places, Serving

\* Every step keeps the clients in their places.
LEMMA PlacesStep == TypeInv /\ Places /\ [Next]_vars => Places'
<1> SUFFICES ASSUME TypeInv, Places, [Next]_vars PROVE Places'
  OBVIOUS
<1>1. ASSUME UNCHANGED <<backlog, s_open, server_vars>>,
             \A d \in Clients : cpc'[d] = "start" => cpc[d] = "start"
      PROVE  Places'
  BY <1>1, PlacesKept DEF server_vars, history
<1>2. CASE (Server \/ Sigint \/ AcceptError) /\ UNCHANGED client_vars
  BY <1>2, PlacesServer
<1>3. ASSUME NEW c \in Clients, Client(c) \/ ClientError(c) \/ Kill(c), UNCHANGED server_vars
      PROVE  Places'
  BY <1>1, <1>3, ClientMoves
<1>4. ASSUME NEW c \in Clients, Reset(c), UNCHANGED <<client_vars, server_vars>> PROVE Places'
  BY <1>1, <1>4 DEF Reset, client_vars
<1>5. CASE UNCHANGED vars
  BY <1>1, <1>5 DEF vars, conn_vars, client_vars
<1> QED
  BY <1>2, <1>3, <1>4, <1>5, PlacesConnect DEF Next

-----------------------------------------------------------------------------
\* What ReadFile puts into the buffer of a client.
LEMMA NextPart ==
    ASSUME TypeInv, NEW c \in Clients, ReadFile(c), file_read[c] <= Len(file[c].data)
    PROVE  \/ \E b \in Seq(Byte) :
                /\ buffer' = [buffer EXCEPT ![c] = b]
                /\ file_read' = [file_read EXCEPT ![c] = @ + Len(b)]
                /\ UNCHANGED cpc
                /\ file_read[c] + Len(b) <= Len(file[c].data)
                /\ \A i \in 1 .. Len(b) : b[i] = file[c].data[file_read[c] + i]
           \/ CGoto(c, "result") /\ UNCHANGED <<buffer, file_read>>
<1> DEFINE left == SubSeq(file[c].data, file_read[c] + 1, Len(file[c].data))
           n == IF Len(left) < BUFFER_SZIE THEN Len(left) ELSE BUFFER_SZIE
<1>1. file_read[c] \in Nat /\ file[c].data \in Seq(Byte) /\ BUFFER_SZIE \in Nat
  BY FileType, EncodingAssumption DEF TypeInv, TypeOK, ClientTypeOK
<1>2. PICK m, h, data : m = file_read[c] + 1 /\ data = file[c].data /\ h = Len(data)
  OBVIOUS
<1>3. m \in Nat \ {0} /\ h \in 0 .. Len(data) /\ data \in Seq(Byte) /\ m <= h + 1
  BY <1>1, <1>2
<1>4. left = SubSeq(data, m, h)
  BY <1>2
<1> HIDE DEF left
<1>5. /\ left \in Seq(Byte) /\ Len(left) = h - m + 1
      /\ \A i \in 1 .. Len(left) : left[i] = data[m + i - 1]
  <2>1. /\ left \in Seq(Byte) /\ Len(left) = IF m <= h THEN h - m + 1 ELSE 0
        /\ \A i \in 1 .. Len(left) : left[i] = data[m + i - 1]
    BY <1>3, <1>4, Part
  <2>2. (IF m <= h THEN h - m + 1 ELSE 0) = h - m + 1
    BY <1>3
  <2> QED
    BY <2>1, <2>2
<1>6. n \in 0 .. Len(left)
  BY <1>1, <1>5
<1> DEFINE b == SubSeq(left, 1, n)
<1> HIDE DEF n
<1>7. b \in Seq(Byte) /\ Len(b) = n /\ \A i \in 1 .. n : b[i] = left[i]
  BY <1>5, <1>6, Part
<1>8. \/ /\ buffer' = [buffer EXCEPT ![c] = b]
         /\ file_read' = [file_read EXCEPT ![c] = @ + n]
         /\ UNCHANGED cpc
      \/ CGoto(c, "result") /\ UNCHANGED <<buffer, file_read>>
  BY DEF ReadFile, left, n
<1> HIDE DEF b
<1>9. file_read[c] + Len(b) <= Len(file[c].data)
  <2>1. PICK r \in Nat, l \in Nat : r = file_read[c] /\ l = n
    BY <1>1, <1>5, <1>6
  <2>2. m = r + 1 /\ l <= h - m + 1 /\ h \in Nat
    BY <1>2, <1>3, <1>5, <1>6, <2>1
  <2>3. r + l <= h
    BY <2>2
  <2> QED
    BY <1>2, <1>7, <2>1, <2>3
<1>10. \A i \in 1 .. Len(b) : b[i] = file[c].data[file_read[c] + i]
  <2> SUFFICES ASSUME NEW i \in 1 .. Len(b) PROVE b[i] = file[c].data[file_read[c] + i]
    OBVIOUS
  <2>1. i \in 1 .. n /\ i \in 1 .. Len(left)
    BY <1>5, <1>6, <1>7
  <2>2. b[i] = data[m + i - 1]
    BY <1>5, <1>7, <2>1
  <2>3. m + i - 1 = file_read[c] + i
    BY <1>1, <1>2, <2>1
  <2> QED
    BY <1>2, <2>2, <2>3
<1> QED
  BY <1>7, <1>8, <1>9, <1>10

\* The buffer of a client holds what it read last of its file.
LEMMA BufferStep ==
    ASSUME TypeInv, Buffered, NEW c \in Clients, NEW d \in Clients,
           Connect(c) \/ Client(c) \/ ClientError(c) \/ Kill(c)
    PROVE  BufferOf(d)'
<1>1. /\ cpc \in [Clients -> {"start", "size", "file", "result", "done", "failed", "killed"}]
      /\ file_read \in [Clients -> Nat] /\ buffer \in [Clients -> Seq(Byte)] /\ BufferOf(d)
  BY DEF TypeInv, TypeOK, ClientTypeOK, Buffered, Byte
<1>2. ASSUME UNCHANGED <<file, file_read, buffer>>, NEW l \in {"result", "done", "failed", "killed"},
             CGoto(c, l) \/ UNCHANGED cpc
      PROVE  BufferOf(d)'
  BY <1>1, <1>2 DEF CGoto, BufferOf
<1>3. CASE Connect(c)
  <2>1. /\ cpc[c] = "start" /\ cpc' = [cpc EXCEPT ![c] = "size"]
        /\ buffer' = [buffer EXCEPT ![c] = htonl(file[c].length)]
        /\ UNCHANGED <<file, file_read>>
    BY <1>3 DEF Connect, CGoto
  <2> QED
    BY <1>1, <2>1 DEF BufferOf
<1>4. CASE WriteBuffer(c) /\ cpc[c] \in {"size", "file"}
  <2>1. /\ cpc' = [cpc EXCEPT ![c] = "file"] /\ buffer' = [buffer EXCEPT ![c] = <<>>]
        /\ UNCHANGED <<file, file_read>>
    BY <1>4 DEF WriteBuffer, CGoto
  <2>2. CASE d # c
    BY <1>1, <2>1, <2>2 DEF BufferOf
  <2>3. CASE d = c
    <3>1. file_read[c] \in Nat /\ Len(file[c].data) \in Nat
      BY <1>1, FileType
    <3>2. file_read[c] <= Len(file[c].data)
      BY <1>1, <1>4, <2>3, <3>1 DEF BufferOf
    <3>3. cpc'[c] = "file" /\ buffer'[c] = <<>> /\ Len(<<>>) = 0
      BY <1>1, <2>1
    <3> QED
      BY <2>1, <2>3, <3>1, <3>2, <3>3 DEF BufferOf
  <2> QED
    BY <2>2, <2>3
<1>5. CASE ReadFile(c)
  <2>1. cpc[c] = "file" /\ UNCHANGED file
    BY <1>5 DEF ReadFile
  <2>2. file_read[c] <= Len(file[c].data)
    BY <2>1 DEF Buffered, BufferOf
  <2>3. CASE CGoto(c, "result") /\ UNCHANGED <<buffer, file_read>>
    BY <1>2, <2>1, <2>3
  <2>4. CASE \E b \in Seq(Byte) :
                /\ buffer' = [buffer EXCEPT ![c] = b]
                /\ file_read' = [file_read EXCEPT ![c] = @ + Len(b)]
                /\ UNCHANGED cpc
                /\ file_read[c] + Len(b) <= Len(file[c].data)
                /\ \A i \in 1 .. Len(b) : b[i] = file[c].data[file_read[c] + i]
    <3>1. PICK b \in Seq(Byte) :
                /\ buffer' = [buffer EXCEPT ![c] = b]
                /\ file_read' = [file_read EXCEPT ![c] = @ + Len(b)]
                /\ UNCHANGED cpc
                /\ file_read[c] + Len(b) <= Len(file[c].data)
                /\ \A i \in 1 .. Len(b) : b[i] = file[c].data[file_read[c] + i]
      BY <2>4
    <3>2. CASE d # c
      BY <1>1, <2>1, <3>1, <3>2 DEF BufferOf
    <3>3. CASE d = c
      <4>1. PICK r \in Nat : r = file_read[c]
        BY <1>1
      <4>2. buffer'[c] = b /\ file_read'[c] = r + Len(b) /\ Len(b) \in Nat
        BY <1>1, <3>1, <4>1
      <4>3. Len(b) <= r + Len(b) /\ (r + Len(b)) - Len(b) = r
        BY <4>2
      <4>4. cpc'[c] = "file" /\ UNCHANGED file
        BY <2>1, <3>1
      <4>5. /\ Len(buffer'[c]) <= file_read'[c] /\ file_read'[c] <= Len(file'[c].data)
            /\ file_read'[c] - Len(buffer'[c]) = r
        BY <3>1, <4>1, <4>2, <4>3, <4>4
      <4>6. \A i \in 1 .. Len(buffer'[c]) : buffer'[c][i] = file'[c].data[r + i]
        BY <3>1, <4>1, <4>2, <4>4
      <4> QED
        BY <3>3, <4>4, <4>5, <4>6 DEF BufferOf
    <3> QED
      BY <3>2, <3>3
  <2> QED
    BY <1>5, <2>2, <2>3, <2>4, NextPart
<1>6. CASE read_result_from_server(c)
  <2>1. UNCHANGED <<file, file_read, buffer>> /\ (CGoto(c, "done") \/ UNCHANGED cpc)
    BY <1>6 DEF read_result_from_server
  <2> QED
    BY <1>2, <2>1
<1>7. CASE ClientEnd(c, "failed") \/ ClientEnd(c, "killed")
  <2>1. UNCHANGED <<file, file_read, buffer>> /\ (CGoto(c, "failed") \/ CGoto(c, "killed"))
    BY <1>7 DEF ClientEnd
  <2> QED
    BY <1>2, <2>1
<1> QED
  BY <1>3, <1>4, <1>5, <1>6, <1>7
     DEF Client, write_stream_size_to_server, write_file_to_socket, ClientError, Kill

\* What a client writes next, on the wire.
LEMMA ToSend ==
    ASSUME TypeInv, Buffered, WholeFiles, NEW c \in Clients, cpc[c] \in {"size", "file"}
    PROVE  /\ Produced(c) \in Nat /\ Produced(c) + Len(buffer[c]) <= SIZEOF + Len(file[c].data)
           /\ Produced(c) + Len(buffer[c]) = SIZEOF + file_read[c]
           /\ \A i \in 1 .. Len(buffer[c]) : buffer[c][i] = Wire(file[c], Produced(c) + i)
<1>1. /\ BufferOf(c) /\ SIZEOF \in Nat /\ file_read[c] \in Nat /\ buffer[c] \in Seq(Byte)
      /\ file[c].data \in Seq(Byte) /\ file[c].length \in Nat
  BY EncodingAssumption, FileType DEF TypeInv, TypeOK, ClientTypeOK, Buffered, Byte
<1>2. CASE cpc[c] = "size"
  <2>1. htonl(file[c].length) \in Seq(Byte) /\ Len(htonl(file[c].length)) = SIZEOF
    BY <1>1, HtonlType, WordSeq
  <2>2. Produced(c) = 0 /\ Len(buffer[c]) = SIZEOF /\ file_read[c] = 0
    BY <1>1, <1>2, <2>1 DEF Produced, BufferOf
  <2>3. \A i \in 1 .. Len(buffer[c]) : 0 + i = i /\ i <= SIZEOF
    BY <1>1, <2>2
  <2>4. \A i \in 1 .. Len(buffer[c]) : buffer[c][i] = Wire(file[c], Produced(c) + i)
    BY <1>1, <1>2, <2>2, <2>3 DEF BufferOf, Wire
  <2>5. Len(file[c].data) \in Nat
    BY <1>1
  <2> QED
    BY <1>1, <2>2, <2>4, <2>5
<1>3. CASE cpc[c] = "file"
  <2>1. PICK l \in Nat : l = Len(buffer[c])
    BY <1>1
  <2>2. l <= file_read[c] /\ file_read[c] <= Len(file[c].data)
    BY <1>1, <1>3, <2>1 DEF BufferOf
  <2>3. Produced(c) = SIZEOF + (file_read[c] - l)
    BY <1>3, <2>1 DEF Produced
  <2>4. ASSUME NEW i \in 1 .. l PROVE buffer[c][i] = Wire(file[c], Produced(c) + i)
    <3>1. /\ Produced(c) + i > SIZEOF /\ (Produced(c) + i) - SIZEOF = file_read[c] - l + i
      <4>1. SIZEOF \in Nat /\ file_read[c] \in Nat /\ l \in Nat /\ i \in Nat \ {0}
        BY <1>1
      <4> QED
        BY ONLY <2>2, <2>3, <4>1
    <3>2. buffer[c][i] = file[c].data[file_read[c] - l + i]
      BY <1>1, <1>3, <2>1 DEF BufferOf
    <3>3. ~(Produced(c) + i <= SIZEOF)
      BY <1>1, <2>1, <2>2, <2>3, <3>1
    <3> QED
      BY <3>1, <3>2, <3>3 DEF Wire
  <2>5. Len(file[c].data) \in Nat
    BY <1>1
  <2>6. /\ Produced(c) \in Nat /\ Produced(c) + l = SIZEOF + file_read[c]
        /\ Produced(c) + l <= SIZEOF + Len(file[c].data)
    <3>1. SIZEOF \in Nat /\ file_read[c] \in Nat /\ l \in Nat
      BY <1>1
    <3> QED
      BY ONLY <2>2, <2>3, <2>5, <3>1
  <2> QED
    BY <2>1, <2>4, <2>6
<1> QED
  BY <1>2, <1>3

-----------------------------------------------------------------------------
\* What is known of the stream of a client that a step does not touch.
LEMMA StreamKept ==
    ASSUME NEW c \in Clients, StreamOf(c), UNCHANGED <<up[c], file[c]>>,
           cpc'[c] = "start" => cpc[c] = "start",
           Unread(c)' => Unread(c) /\ Consumed(c)' = Consumed(c),
           cpc'[c] \in {"size", "file"} => cpc[c] \in {"size", "file"} /\ Produced(c)' = Produced(c)
    PROVE  StreamOf(c)'
BY DEF StreamOf

\* The bytes of a read are the next ones of the wire, and leave the ones after them.
LEMMA NextBytes ==
    ASSUME TypeInv, Streams, NEW c \in Clients, Unread(c), NEW k \in Nat, k = Consumed(c),
           NEW n \in Int, NEW bytes \in Arrived(up[c], n)
    PROVE  /\ bytes \in Seq(Byte) /\ Len(bytes) \in Nat \ {0} /\ Len(bytes) <= n
           /\ k + Len(bytes) <= SIZEOF + Len(file[c].data)
           /\ \A i \in 1 .. Len(bytes) : bytes[i] = Wire(file[c], k + i)
           /\ Rest(up[c], bytes) \in Seq(Byte)
           /\ Len(Rest(up[c], bytes)) = Len(up[c]) - Len(bytes)
           /\ \A i \in 1 .. Len(Rest(up[c], bytes)) :
                 Rest(up[c], bytes)[i] = Wire(file[c], (k + Len(bytes)) + i)
<1>1. up[c] \in Seq(Byte) /\ SIZEOF \in Nat /\ Len(file[c].data) \in Nat
  BY FileType, EncodingAssumption DEF TypeInv, TypeOK, Byte
<1>2. /\ bytes \in Seq(Byte) /\ Len(bytes) \in 1 .. Len(up[c]) /\ Len(bytes) <= n
      /\ \A i \in 1 .. Len(bytes) : bytes[i] = up[c][i]
      /\ Rest(up[c], bytes) \in Seq(Byte) /\ Len(Rest(up[c], bytes)) = Len(up[c]) - Len(bytes)
      /\ \A i \in 1 .. Len(Rest(up[c], bytes)) : Rest(up[c], bytes)[i] = up[c][Len(bytes) + i]
  BY <1>1, ReadBytes
<1>3. /\ k + Len(up[c]) <= SIZEOF + Len(file[c].data)
      /\ \A i \in 1 .. Len(up[c]) : up[c][i] = Wire(file[c], k + i)
  BY DEF Streams, StreamOf
<1>4. PICK u \in Nat, b \in Nat : u = Len(up[c]) /\ b = Len(bytes)
  BY <1>1, <1>2
<1>5. b \in 1 .. u /\ k + b <= SIZEOF + Len(file[c].data)
  <2>1. PICK h \in Nat : h = Len(file[c].data)
    BY <1>1
  <2>2. b \in 1 .. u /\ k + u <= SIZEOF + h
    BY <1>2, <1>3, <1>4, <2>1
  <2>3. k + b <= SIZEOF + h
    BY <1>1, <2>2
  <2> QED
    BY <2>1, <2>2, <2>3
<1>6. \A i \in 1 .. b : i \in 1 .. u
  BY <1>5
<1>7. ASSUME NEW i \in 1 .. u - b PROVE Rest(up[c], bytes)[i] = Wire(file[c], (k + b) + i)
  <2>1. b + i \in 1 .. u /\ k + (b + i) = (k + b) + i
    BY <1>5
  <2>2. Rest(up[c], bytes)[i] = up[c][b + i]
    BY <1>2, <1>4
  <2>3. up[c][b + i] = Wire(file[c], k + (b + i))
    BY <1>3, <1>4, <2>1
  <2> QED
    BY <2>1, <2>2, <2>3
<1>8. \A i \in 1 .. Len(bytes) : bytes[i] = Wire(file[c], k + i)
  BY <1>2, <1>3, <1>4, <1>6
<1>9. \A i \in 1 .. Len(Rest(up[c], bytes)) :
        Rest(up[c], bytes)[i] = Wire(file[c], (k + Len(bytes)) + i)
  BY <1>2, <1>4, <1>7
<1> QED
  BY <1>2, <1>4, <1>5, <1>8, <1>9

\* A read by the server moves bytes from the stream to what was consumed.
LEMMA StreamRecv ==
    ASSUME TypeInv, Streams, NEW c \in Clients, Unread(c), NEW k \in Nat, k = Consumed(c),
           NEW n \in Int, NEW bytes \in Arrived(up[c], n), ServerRecv(c, bytes),
           UNCHANGED <<file, cpc, buffer, file_read>>, Consumed(c)' = k + Len(bytes)
    PROVE  StreamOf(c)'
<1>1. PICK l, r : l = Len(bytes) /\ r = Rest(up[c], bytes)
  OBVIOUS
<1>2. /\ l \in Nat /\ r \in Seq(Byte) /\ Len(r) = Len(up[c]) - l
      /\ \A i \in 1 .. Len(r) : r[i] = Wire(file[c], (k + l) + i)
  <2>1. /\ Len(bytes) \in Nat \ {0} /\ Rest(up[c], bytes) \in Seq(Byte)
        /\ Len(Rest(up[c], bytes)) = Len(up[c]) - Len(bytes)
        /\ \A i \in 1 .. Len(Rest(up[c], bytes)) :
              Rest(up[c], bytes)[i] = Wire(file[c], (k + Len(bytes)) + i)
    BY NextBytes
  <2> QED
    BY <1>1, <2>1
<1>3. up \in [Clients -> Seq(Byte)] /\ Len(up[c]) \in Nat
  BY DEF TypeInv, TypeOK, Byte
<1>4. up'[c] = r
  BY <1>1, <1>3 DEF ServerRecv
<1>5. (k + l) + Len(r) = k + Len(up[c])
  BY <1>2, <1>3
<1>6. Produced(c)' = Produced(c)
  BY DEF Produced
<1>7. StreamOf(c)
  BY DEF Streams
<1>8. cpc[c] = "start" => up'[c] = <<>>
  <2>1. ASSUME cpc[c] = "start" PROVE FALSE
    <3>1. up[c] = <<>> /\ Len(<<>>) = 0
      BY <1>7, <2>1 DEF StreamOf
    <3>2. l \in Nat \ {0}
      BY <1>1, NextBytes
    <3>3. Len(r) \in Nat
      BY <1>2
    <3> QED
      BY <1>2, <3>1, <3>2, <3>3
  <2> QED
    BY <2>1
<1> QED
  BY <1>1, <1>2, <1>4, <1>5, <1>6, <1>7, <1>8 DEF StreamOf

\* What the server does to the streams.
LEMMA StreamServer ==
    ASSUME TypeInv, Places, Streams, Requests, WholeFiles, Server \/ Sigint \/ AcceptError, UNCHANGED client_vars,
           NEW c \in Clients
    PROVE  StreamOf(c)'
<1>0. UNCHANGED <<cpc, file, buffer, file_read>> /\ Produced(c)' = Produced(c) /\ StreamOf(c)
  BY DEF client_vars, Produced, Streams
<1>1. ASSUME UNCHANGED up, Unread(c)' => Unread(c) /\ Consumed(c)' = Consumed(c)
      PROVE  StreamOf(c)'
  BY <1>0, <1>1, StreamKept
<1>2. ASSUME UNCHANGED <<backlog, connection_fd, up>>,
             spc' \in {"setup", "signal", "test", "accept", "send", "update", "clear", "print"}
      PROVE  StreamOf(c)'
  <2>1. UNCHANGED Queued
    BY <1>2 DEF Queued
  <2>2. connection_fd \notin Queued
    BY DEF Places
  <2>3. Unread(c)' => c \in Queued
    BY <1>2, <2>1 DEF Unread
  <2>4. c \in Queued => Unread(c) /\ Consumed(c) = 0 /\ Consumed(c)' = 0
    BY <1>2, <2>2 DEF Unread, Consumed
  <2> QED
    BY <1>1, <1>2, <2>3, <2>4
<1>3. ASSUME connection_fd' = NULL, UNCHANGED up,
             backlog' = backlog \/ backlog' = <<>>
      PROVE  StreamOf(c)'
  <2>1. Queued' \subseteq Queued
    <3>1. ASSUME backlog' = <<>> PROVE Queued' = {}
      <4>1. Len(backlog') = 0 /\ \A i \in 1 .. 0 : FALSE
        BY <3>1
      <4> QED
        BY <4>1 DEF Queued
    <3> QED
      BY <1>3, <3>1 DEF Queued
  <2>2. connection_fd \notin Queued
    BY DEF Places
  <2>3. Unread(c)' => c \in Queued
    BY <1>3, <2>1, ServerAssumption DEF Unread
  <2>4. c \in Queued => Unread(c) /\ Consumed(c) = 0 /\ Consumed(c)' = 0
    BY <1>3, <2>2, ServerAssumption DEF Unread, Consumed
  <2> QED
    BY <1>1, <1>3, <2>3, <2>4
<1>4. ASSUME NEW how, ServerEnd(how) PROVE StreamOf(c)'
  BY <1>3, <1>4 DEF ServerEnd, ServerCloseAll
<1>5. ASSUME CloseClient PROVE StreamOf(c)'
  BY <1>3, <1>5 DEF CloseClient, ServerClose
<1>6. CASE Setup
  BY <1>2, <1>4, <1>6 DEF Setup, conn_vars
<1>7. CASE InstallHandler \/ WhileRunning \/ StreamRead \/ ClearProcessing
  BY <1>2, <1>7 DEF InstallHandler, WhileRunning, StreamRead, ClearProcessing, conn_vars
<1>8. CASE Accept
  <2>1. Head(backlog) \in Queued /\ Queued' = Queued \ {Head(backlog)}
    BY <1>8, Accepted DEF Accept
  <2>2. connection_fd' = Head(backlog) /\ spc' = "accepted" /\ UNCHANGED up /\ spc = "accept"
    BY <1>8 DEF Accept
  <2>3. connection_fd \notin Queued
    BY DEF Places
  <2>4. Unread(c)' => c \in Queued
    BY <2>1, <2>2 DEF Unread
  <2>5. c \in Queued => Unread(c) /\ Consumed(c) = 0 /\ Consumed(c)' = 0
    BY <2>2, <2>3 DEF Unread, Consumed
  <2> QED
    BY <1>1, <2>2, <2>4, <2>5
<1>9. CASE MarkProcessing
  <2>1. /\ spc = "accepted" /\ spc' = "size" /\ UNCHANGED <<backlog, connection_fd, up>>
        /\ Len(size_bytes') = 0
    BY <1>9 DEF MarkProcessing, conn_vars
  <2>2. Queued' = Queued
    BY <2>1 DEF Queued
  <2>3. Unread(c)' => Unread(c) /\ Consumed(c)' = Consumed(c)
    BY <2>1, <2>2 DEF Unread, Consumed
  <2> QED
    BY <1>1, <2>1, <2>3
<1>10. CASE read_stream_size_from_client \/ read_stream_from_client
  <2> DEFINE d == connection_fd
  <2>1. spc \in {"size", "stream"} /\ d \in Clients
    BY <1>10 DEF read_stream_size_from_client, read_stream_from_client, TypeInv, Attached, Serving
  <2>2. /\ SIZEOF \in Nat /\ BUFFER_SZIE \in Nat /\ size_bytes \in Seq(Byte)
        /\ total_bytes_read \in Nat /\ up \in [Clients -> Seq(Byte)] /\ Len(file[d].data) \in Nat
        /\ Len(file[d].data) <= UINT_MAX /\ UINT_MAX \in Nat
    <3>1. file[d] \in Files /\ up \in [Clients -> Seq(Byte)] /\ size_bytes \in Seq(Byte)
      BY <2>1 DEF TypeInv, TypeOK, ServerTypeOK, ClientTypeOK, Byte
    <3>2. Len(file[d].data) <= UINT_MAX /\ Len(file[d].data) \in Nat
      BY <2>1, <3>1, FileType DEF WholeFiles
    <3>3. total_bytes_read \in Nat
      BY UintMax DEF TypeInv, TypeOK, ServerTypeOK
    <3> QED
      BY <3>1, <3>2, <3>3, EncodingAssumption, UintMax
  <2>3. PICK n, bytes :
          /\ n \in Int /\ bytes \in Arrived(up[d], n)
          /\ ServerRecv(d, bytes)
          /\ spc = "size" => ReadSize(bytes)
          /\ spc = "stream" => /\ spc' = "stream"
                               /\ total_bytes_read' = uint32_t(total_bytes_read + Len(bytes))
    BY <1>10, <2>2 DEF read_stream_size_from_client, read_stream_from_client
  <2>4. UNCHANGED <<backlog, connection_fd>>
    BY <1>10 DEF read_stream_size_from_client, read_stream_from_client, ServerRecv
  <2>5. Unread(d) /\ Consumed(d) \in Nat
    BY <2>1, <2>2 DEF Unread, Consumed
  <2>6. PICK k, l : k \in Nat /\ k = Consumed(d) /\ l = Len(bytes)
    BY <2>5
  <2>7. /\ l \in Nat \ {0} /\ k + l <= SIZEOF + Len(file[d].data) /\ bytes \in Seq(Byte)
    BY <2>1, <2>3, <2>5, <2>6, NextBytes
  <2>8. Consumed(d)' = k + l
    <3>1. CASE spc = "size"
      <4>1. size_bytes' = size_bytes \o bytes /\ k = Len(size_bytes)
        BY <2>3, <2>6, <3>1 DEF ReadSize, Consumed
      <4>2. Len(size_bytes') = k + l
        BY <2>2, <2>6, <2>7, <4>1
      <4>3. /\ total_bytes_read' = 0
            /\ (spc' = "stream" /\ Len(size_bytes') = SIZEOF) \/ spc' = "size"
        BY <2>3, <3>1 DEF ReadSize
      <4> QED
        BY <2>2, <2>4, <4>2, <4>3 DEF Consumed
    <3>2. CASE spc = "stream"
      <4>1. k = SIZEOF + total_bytes_read
        BY <2>6, <3>2 DEF Consumed
      <4>2. PICK t \in Nat : t = total_bytes_read + l
        BY <2>2, <2>7
      <4>3. t <= UINT_MAX
        BY <2>2, <2>7, <4>1, <4>2
      <4>4. total_bytes_read' = t
        BY <2>3, <2>6, <3>2, <4>2, <4>3, Uint32
      <4>5. SIZEOF + t = k + l
        BY <2>2, <2>7, <4>1, <4>2
      <4> QED
        BY <2>3, <2>4, <3>2, <4>4, <4>5 DEF Consumed
    <3> QED
      BY <2>1, <3>1, <3>2
  <2>9. CASE c = d
    <3>1. /\ Unread(c) /\ k = Consumed(c) /\ bytes \in Arrived(up[c], n) /\ ServerRecv(c, bytes)
      BY <2>3, <2>5, <2>6, <2>9
    <3>2. Consumed(c)' = k + Len(bytes)
      <4>1. c = connection_fd /\ c = connection_fd'
        BY <2>4, <2>9
      <4>2. Consumed(c)' = Consumed(d)'
        BY <4>1 DEF Consumed
      <4> QED
        BY <2>6, <2>8, <4>2
    <3> QED
      BY <1>0, <2>3, <2>6, <3>1, <3>2, StreamRecv
  <2>10. CASE c # d
    <3>1. up'[c] = up[c]
      BY <2>2, <2>3, <2>10 DEF ServerRecv
    <3>2. Queued' = Queued
      BY <2>4 DEF Queued
    <3>3. Unread(c)' => Unread(c) /\ Consumed(c)' = Consumed(c)
      BY <2>4, <2>10, <3>2 DEF Unread, Consumed
    <3> QED
      BY <1>0, <3>1, <3>3, StreamKept
  <2> QED
    BY <2>9, <2>10
<1>11. CASE ReadError \/ WriteError
  BY <1>4, <1>5, <1>11 DEF ReadError, WriteError, GiveUp
<1>12. CASE send_printable_counter_to_client
  <2>1. UNCHANGED <<backlog, connection_fd, up>> /\ spc' \in {"send", "update"}
    BY <1>12 DEF send_printable_counter_to_client, ServerSend
  <2> QED
    BY <1>2, <2>1
<1>13. CASE update_pcc_total
  BY <1>3, <1>13 DEF update_pcc_total, ServerClose
<1>14. CASE PrintAndReturn \/ AcceptError
  BY <1>4, <1>14 DEF PrintAndReturn, AcceptError
<1>15. CASE Sigint
  <2>1. CASE UNCHANGED <<conn_vars, spc, connection_fd>>
    <3>1. UNCHANGED <<backlog, up, spc, connection_fd, size_bytes, total_bytes_read>>
      BY <1>15, <2>1 DEF Sigint, conn_vars, request
    <3>2. Unread(c)' => Unread(c) /\ Consumed(c)' = Consumed(c)
      BY <3>1 DEF Unread, Consumed, Queued
    <3> QED
      BY <1>1, <3>1, <3>2
  <2>2. \/ \E how : ServerEnd(how)
        \/ UNCHANGED <<conn_vars, spc, connection_fd>>
        \/ CloseClient
    BY <1>15 DEF Sigint, sig_int_handler, HandlerProcessing
  <2> QED
    BY <1>4, <1>5, <2>1, <2>2
<1> QED
  BY <1>6, <1>7, <1>8, <1>9, <1>10, <1>11, <1>12, <1>13, <1>14, <1>15 DEF Server

\* What the clients do to the streams.
LEMMA StreamClient ==
    ASSUME TypeInv, Places, Buffered, Streams, WholeFiles, NEW c \in Clients, NEW d \in Clients,
           Connect(c) \/ Client(c) \/ ClientError(c) \/ Kill(c), UNCHANGED server_vars
    PROVE  StreamOf(d)'
<1>1. /\ cpc \in [Clients -> {"start", "size", "file", "result", "done", "failed", "killed"}]
      /\ file_read \in [Clients -> Nat] /\ buffer \in [Clients -> Seq(Byte)]
      /\ up \in [Clients -> Seq(Byte)] /\ StreamOf(d) /\ SIZEOF \in Nat
  BY EncodingAssumption DEF TypeInv, TypeOK, ClientTypeOK, Streams, Byte
<1>2. UNCHANGED <<connection_fd, spc, size_bytes, total_bytes_read>>
  BY DEF server_vars, request
<1>3. UNCHANGED backlog => (Unread(d)' <=> Unread(d))
  BY <1>2 DEF Unread, Queued
<1>4. Consumed(d)' = Consumed(d)
  BY <1>2 DEF Consumed
<1>5. ASSUME UNCHANGED <<backlog, up, file>>,
             cpc'[d] = "start" => cpc[d] = "start",
             cpc'[d] \in {"size", "file"} => /\ cpc[d] \in {"size", "file"}
                                             /\ Produced(d)' = Produced(d)
      PROVE  StreamOf(d)'
  BY <1>1, <1>3, <1>4, <1>5, StreamKept
<1>6. ASSUME UNCHANGED <<backlog, up, file, buffer, file_read>>,
             NEW l \in {"result", "done", "failed", "killed"}, CGoto(c, l) \/ UNCHANGED cpc
      PROVE  StreamOf(d)'
  <2>1. /\ cpc'[d] = "start" => cpc[d] = "start"
        /\ cpc'[d] \in {"size", "file"} => cpc'[d] = cpc[d]
    BY <1>1, <1>6 DEF CGoto
  <2>2. cpc'[d] = cpc[d] => Produced(d)' = Produced(d)
    BY <1>6 DEF Produced
  <2> QED
    BY <1>5, <1>6, <2>1, <2>2
<1>7. CASE Connect(c)
  <2>1. /\ cpc[c] = "start" /\ backlog' = Append(backlog, c) /\ UNCHANGED <<up, file, file_read>>
        /\ cpc' = [cpc EXCEPT ![c] = "size"]
        /\ buffer' = [buffer EXCEPT ![c] = htonl(file[c].length)]
    BY <1>7 DEF Connect, Establish, CGoto
  <2>2. c \notin Queued /\ c # connection_fd
    BY <2>1 DEF Places
  <2>3. Queued' = Queued \cup {c}
    BY <2>1, <2>2, Established
  <2>4. CASE d = c
    <3>1. up'[d] = <<>> /\ Len(<<>>) = 0 /\ cpc'[d] = "size"
      BY <1>1, <2>1, <2>4 DEF StreamOf
    <3>2. Consumed(d)' = 0 /\ Produced(d)' = 0
      BY <1>2, <2>2, <2>4, <3>1 DEF Consumed, Produced
    <3>3. Len(file'[d].data) \in Nat
      BY <2>1, FileType
    <3>4. 0 + Len(up'[d]) <= SIZEOF + Len(file'[d].data) /\ 0 + Len(up'[d]) = 0
      BY <1>1, <3>1, <3>3
    <3>5. \A i \in 1 .. Len(up'[d]) : FALSE
      BY <3>1
    <3> QED
      BY <3>1, <3>2, <3>4, <3>5 DEF StreamOf
  <2>5. CASE d # c
    <3>1. cpc'[d] = cpc[d] /\ buffer'[d] = buffer[d]
      BY <1>1, <2>1, <2>5
    <3>2. Produced(d)' = Produced(d)
      BY <2>1, <3>1 DEF Produced
    <3>3. Unread(d)' => Unread(d)
      BY <1>2, <2>3, <2>5 DEF Unread
    <3> QED
      BY <1>1, <1>4, <2>1, <3>1, <3>2, <3>3, StreamKept
  <2> QED
    BY <2>4, <2>5
<1>8. CASE WriteBuffer(c) /\ cpc[c] \in {"size", "file"}
  <2>1. /\ up' = [up EXCEPT ![c] = IF c \in s_open THEN @ \o buffer[c] ELSE @]
        /\ buffer' = [buffer EXCEPT ![c] = <<>>] /\ cpc' = [cpc EXCEPT ![c] = "file"]
        /\ UNCHANGED <<backlog, file, file_read>>
    BY <1>8 DEF WriteBuffer, ClientSend, CGoto
  <2>2. CASE d # c
    <3>1. cpc'[d] = cpc[d] /\ buffer'[d] = buffer[d] /\ up'[d] = up[d]
      BY <1>1, <2>1, <2>2
    <3>2. Produced(d)' = Produced(d)
      BY <2>1, <3>1 DEF Produced
    <3> QED
      BY <1>1, <1>3, <1>4, <2>1, <3>1, <3>2, StreamKept
  <2>3. CASE d = c
    <3>1. cpc'[d] = "file"
      BY <1>1, <2>1, <2>3
    <3>2. SUFFICES ASSUME Unread(d)
                   PROVE  /\ Consumed(d) + Len(up'[d]) <= SIZEOF + Len(file[d].data)
                          /\ \A i \in 1 .. Len(up'[d]) : up'[d][i] = Wire(file[d], Consumed(d) + i)
                          /\ Consumed(d) + Len(up'[d]) = Produced(d)'
      BY <1>3, <1>4, <2>1, <3>1 DEF StreamOf
    <3>3. d \in s_open
      BY <3>2 DEF Unread, Places, Serving
    <3>4. up'[d] = up[d] \o buffer[d]
      BY <1>1, <2>1, <2>3, <3>3
    <3>5. /\ Produced(d) \in Nat /\ Produced(d) + Len(buffer[d]) <= SIZEOF + Len(file[d].data)
          /\ Produced(d) + Len(buffer[d]) = SIZEOF + file_read[d]
          /\ \A i \in 1 .. Len(buffer[d]) : buffer[d][i] = Wire(file[d], Produced(d) + i)
      BY <1>8, <2>3, ToSend
    <3>6. /\ Consumed(d) + Len(up[d]) = Produced(d)
          /\ \A i \in 1 .. Len(up[d]) : up[d][i] = Wire(file[d], Consumed(d) + i)
      BY <1>1, <1>8, <2>3, <3>2 DEF StreamOf
    <3>7. PICK u, b, p, k : u = Len(up[d]) /\ b = Len(buffer[d]) /\ p = Produced(d) /\ k = Consumed(d)
      OBVIOUS
    <3>8. u \in Nat /\ b \in Nat /\ p \in Nat /\ k \in Nat /\ k + u = p
      <4>1. Consumed(d) \in Nat
        <5>1. Len(size_bytes) \in Nat /\ total_bytes_read \in Nat
          BY UintMax DEF TypeInv, TypeOK, ServerTypeOK
        <5> QED
          BY <1>1, <5>1 DEF Consumed
      <4> QED
        BY <1>1, <3>5, <3>6, <3>7, <4>1
    <3>9. Len(up'[d]) = u + b
      BY <1>1, <3>4, <3>7
    <3>10. k + (u + b) = p + b
      BY <3>8
    <3>11. Produced(d)' = p + b
      <4>1. Len(buffer'[d]) = 0 /\ file_read'[d] = file_read[d] /\ file_read[d] \in Nat
        BY <1>1, <2>1, <2>3
      <4>2. Produced(d)' = SIZEOF + (file_read[d] - 0)
        BY <3>1, <4>1 DEF Produced
      <4> QED
        BY <1>1, <3>5, <3>7, <4>1, <4>2
    <3>12. ASSUME NEW i \in 1 .. u + b PROVE up'[d][i] = Wire(file[d], k + i)
      <4>1. CASE i <= u
        <5>1. i \in 1 .. u
          BY <3>8, <4>1
        <5> QED
          BY <1>1, <3>4, <3>6, <3>7, <5>1
      <4>2. CASE i > u
        <5>1. PICK j \in 1 .. b : i = u + j
          <6>1. i - u \in 1 .. b /\ i = u + (i - u)
            BY <3>8, <4>2
          <6> QED
            BY <6>1
        <5>2. up'[d][i] = buffer[d][j]
          BY <1>1, <3>4, <3>7, <3>8, <4>2, <5>1
        <5>3. k + i = p + j
          BY <3>8, <5>1
        <5> QED
          BY <3>5, <3>7, <5>1, <5>2, <5>3
      <4> QED
        BY <3>8, <4>1, <4>2
    <3> QED
      BY <3>5, <3>7, <3>9, <3>10, <3>11, <3>12
  <2> QED
    BY <2>2, <2>3
<1>9. CASE ReadFile(c)
  <2>1. cpc[c] = "file" /\ buffer[c] = <<>> /\ UNCHANGED <<backlog, up, file>>
    BY <1>9 DEF ReadFile, conn_vars
  <2>2. file_read[c] <= Len(file[c].data)
    BY <2>1 DEF Buffered, BufferOf
  <2>3. CASE CGoto(c, "result") /\ UNCHANGED <<buffer, file_read>>
    BY <1>6, <2>1, <2>3
  <2>4. CASE \E b \in Seq(Byte) :
                /\ buffer' = [buffer EXCEPT ![c] = b]
                /\ file_read' = [file_read EXCEPT ![c] = @ + Len(b)]
                /\ UNCHANGED cpc
    <3>1. PICK b \in Seq(Byte) :
                /\ buffer' = [buffer EXCEPT ![c] = b]
                /\ file_read' = [file_read EXCEPT ![c] = @ + Len(b)]
                /\ UNCHANGED cpc
      BY <2>4
    <3>2. Produced(d)' = Produced(d)
      <4>1. CASE d # c
        BY <1>1, <3>1, <4>1 DEF Produced
      <4>2. CASE d = c
        <5>1. Len(b) \in Nat /\ Len(buffer[d]) = 0 /\ file_read[d] \in Nat
          BY <1>1, <2>1, <4>2
        <5>2. buffer'[d] = b /\ file_read'[d] = file_read[d] + Len(b)
          BY <1>1, <3>1, <4>2
        <5>3. file_read'[d] - Len(buffer'[d]) = file_read[d] - Len(buffer[d])
          BY <5>1, <5>2
        <5> QED
          BY <3>1, <5>3 DEF Produced
      <4> QED
        BY <4>1, <4>2
    <3> QED
      BY <1>5, <2>1, <3>1, <3>2
  <2> QED
    BY <1>9, <2>2, <2>3, <2>4, NextPart
<1>10. CASE read_result_from_server(c)
  <2>1. UNCHANGED <<backlog, up, file, buffer, file_read>> /\ (CGoto(c, "done") \/ UNCHANGED cpc)
    BY <1>10 DEF read_result_from_server, ClientRecv
  <2> QED
    BY <1>6, <2>1
<1>11. CASE ClientEnd(c, "failed") \/ ClientEnd(c, "killed")
  <2>1. /\ UNCHANGED <<backlog, up, file, buffer, file_read>>
        /\ CGoto(c, "failed") \/ CGoto(c, "killed")
    BY <1>11 DEF ClientEnd, ClientClose
  <2> QED
    BY <1>6, <2>1
<1> QED
  BY <1>7, <1>8, <1>9, <1>10, <1>11
     DEF Client, write_stream_size_to_server, write_file_to_socket, ClientError, Kill

-----------------------------------------------------------------------------
\* Numbers on the wire with the same bytes are the same.
LEMMA SameWord ==
    ASSUME NEW v \in Word, NEW w \in Word, \A i \in 1 .. SIZEOF : v[i] = w[i]
    PROVE  v = w
<1>1. v = [i \in 1 .. SIZEOF |-> v[i]] /\ w = [i \in 1 .. SIZEOF |-> w[i]]
  BY DEF Word
<1>2. [i \in 1 .. SIZEOF |-> v[i]] = [i \in 1 .. SIZEOF |-> w[i]]
  BY Zenon
<1> QED
  BY <1>1, <1>2

\* The length that a client announced, and its counters at the start.
LEMMA LengthRead ==
    ASSUME TypeInv, Places, Streams, Requests, WholeFiles, read_stream_size_from_client, UNCHANGED file
    PROVE  Requests'
<1> DEFINE c == connection_fd
<1>1. /\ spc = "size" /\ c \in Clients /\ UNCHANGED connection_fd
  BY DEF read_stream_size_from_client, TypeInv, Attached, Serving
<1>2. /\ size_bytes \in Seq(Byte) /\ SIZEOF \in Nat \ {0} /\ file[c].length \in Nat
      /\ file[c].data \in Seq(Byte) /\ file[c] \in Files
  BY <1>1, EncodingAssumption, FileType DEF TypeInv, TypeOK, ServerTypeOK, ClientTypeOK, Byte
<1>3. PICK bytes \in Arrived(up[c], SIZEOF - Len(size_bytes)) : ReadSize(bytes)
  BY DEF read_stream_size_from_client
<1>4. Unread(c) /\ Consumed(c) = Len(size_bytes) /\ Len(size_bytes) \in Nat
  BY <1>1, <1>2 DEF Unread, Consumed
<1>5. PICK k, l, w : k = Len(size_bytes) /\ l = Len(bytes) /\ w = htonl(file[c].length)
  OBVIOUS
<1>6. SIZEOF - Len(size_bytes) \in Int
  BY <1>2, <1>4
<1>7. /\ bytes \in Seq(Byte) /\ l \in Nat \ {0} /\ l <= SIZEOF - k /\ k \in Nat
      /\ \A i \in 1 .. l : bytes[i] = Wire(file[c], k + i)
  <2>1. k \in Nat /\ k = Consumed(c) /\ Unread(c) /\ c \in Clients
    BY <1>1, <1>4, <1>5
  <2>2. /\ bytes \in Seq(Byte) /\ Len(bytes) \in Nat \ {0} /\ Len(bytes) <= SIZEOF - Len(size_bytes)
        /\ \A i \in 1 .. Len(bytes) : bytes[i] = Wire(file[c], k + i)
    <3>1. PICK m \in Int : m = SIZEOF - Len(size_bytes)
      BY <1>6
    <3>2. bytes \in Arrived(up[c], m)
      BY <3>1
    <3>3. /\ bytes \in Seq(Byte) /\ Len(bytes) \in Nat \ {0} /\ Len(bytes) <= m
          /\ \A i \in 1 .. Len(bytes) : bytes[i] = Wire(file[c], k + i)
      BY <2>1, <3>2, NextBytes
    <3> QED
      BY <3>1, <3>3
  <2> QED
    BY <1>5, <2>1, <2>2
<1>8. \A i \in 1 .. l : bytes[i] = w[k + i]
  <2> SUFFICES ASSUME NEW i \in 1 .. l PROVE bytes[i] = w[k + i]
    OBVIOUS
  <2>1. k + i <= SIZEOF
    BY <1>2, <1>7
  <2> QED
    BY <1>5, <1>7, <2>1 DEF Wire
<1>9. \A i \in 1 .. k : size_bytes[i] = w[i]
  BY <1>1, <1>5 DEF Requests
<1>10. PICK s : s = size_bytes \o bytes
  OBVIOUS
<1>11. s \in Seq(Byte) /\ Len(s) = k + l /\ k + l <= SIZEOF
  BY <1>2, <1>5, <1>7, <1>10
<1>12. ASSUME NEW i \in 1 .. k + l PROVE s[i] = w[i]
  <2>1. CASE i <= k
    BY <1>2, <1>5, <1>7, <1>9, <1>10, <2>1
  <2>2. CASE i > k
    <3>1. PICK j \in 1 .. l : i = k + j
      <4>1. i - k \in 1 .. l /\ i = k + (i - k)
        BY <1>7, <2>2
      <4> QED
        BY <4>1
    <3>2. s[i] = bytes[j]
      BY <1>2, <1>5, <1>7, <1>10, <2>2, <3>1
    <3> QED
      BY <1>8, <3>1, <3>2
  <2> QED
    BY <1>7, <2>1, <2>2
<1>13. size_bytes' = s /\ connection_fd' = c
  BY <1>1, <1>3, <1>10 DEF ReadSize
<1>14. CASE k + l # SIZEOF
  <2>1. spc' = "size"
    BY <1>1, <1>3, <1>11, <1>13, <1>14 DEF ReadSize
  <2>2. Len(s) < SIZEOF
    BY <1>2, <1>7, <1>11, <1>14
  <2> QED
    BY <1>5, <1>11, <1>12, <1>13, <2>1, <2>2 DEF Requests
<1>15. CASE k + l = SIZEOF
  <2>1. /\ spc' = "stream" /\ stream_byte_size' = ntohl(s) /\ total_bytes_read' = 0
        /\ printable_counter' = 0 /\ pcc_client' = Zero
    BY <1>3, <1>11, <1>13, <1>15 DEF ReadSize
  <2>2. s = w
    <3>1. w \in Word
      BY <1>2, <1>5, HtonlType
    <3>2. s \in Word
      BY <1>11, <1>15, WordSeq
    <3>3. \A i \in 1 .. SIZEOF : s[i] = w[i]
      BY <1>12, <1>15
    <3> QED
      BY <3>1, <3>2, <3>3, SameWord
  <2>3. file[c].length = Len(file[c].data) /\ file[c].length \in 0 .. UINT_MAX
    <3>1. file[c].length = Len(file[c].data) /\ file[c].length <= UINT_MAX
      BY <1>2 DEF WholeFiles
    <3> QED
      BY <1>2, <3>1, UintMax
  <2>4. stream_byte_size' = Len(file[c].data)
    BY <1>5, <2>1, <2>2, <2>3, RoundTrip
  <2>5. \A S : Count(file[c].data, 0, S) = 0
    <3> SUFFICES ASSUME NEW S PROVE Count(file[c].data, 0, S) = 0
      OBVIOUS
    <3>1. {j \in 1 .. 0 : file[c].data[j] \in S} = {}
      OBVIOUS
    <3> QED
      BY <3>1, FS_EmptySet DEF Count
  <2>6. \A k_ \in Chars : pcc_client'[k_] = 0
    BY <2>1 DEF Zero
  <2>7. CountedTo(connection_fd, total_bytes_read)'
    BY <1>13, <2>1, <2>5, <2>6 DEF CountedTo
  <2>8. 0 <= Len(file[c].data)
    BY <1>2
  <2> QED
    BY <1>13, <2>1, <2>4, <2>7, <2>8 DEF Requests
<1> QED
  BY <1>14, <1>15

\* The bytes of the file, counted as they come.
LEMMA PartRead ==
    ASSUME TypeInv, Places, Streams, Requests, WholeFiles, read_stream_from_client, UNCHANGED file
    PROVE  Requests'
<1> DEFINE c == connection_fd
<1>1. /\ spc = "stream" /\ spc' = "stream" /\ c \in Clients /\ connection_fd' = c
      /\ stream_byte_size' = stream_byte_size
  BY DEF read_stream_from_client, TypeInv, Attached, Serving
<1>2. /\ SIZEOF \in Nat /\ BUFFER_SZIE \in Int /\ total_bytes_read \in Nat /\ UINT_MAX \in Nat
      /\ pcc_client \in [Chars -> 0 .. UINT_MAX]
  BY EncodingAssumption, UintMax DEF TypeInv, TypeOK, ServerTypeOK
<1>3. file[c].data \in Seq(Byte) /\ Len(file[c].data) <= UINT_MAX
  <2>1. file[c] \in Files
    BY <1>1 DEF TypeInv, TypeOK, ClientTypeOK
  <2> QED
    BY <1>1, <2>1, FileType DEF WholeFiles
<1>4. PICK bytes \in Arrived(up[c], BUFFER_SZIE) :
          /\ total_bytes_read' = uint32_t(total_bytes_read + Len(bytes))
          /\ printable_counter' = uint32_t(printable_counter + Printables(bytes))
          /\ update_pcc_client(bytes)
  BY DEF read_stream_from_client
<1>5. PICK n, l, data, k :
        n = total_bytes_read /\ l = Len(bytes) /\ data = file[c].data /\ k = SIZEOF + n
  OBVIOUS
<1>6. Unread(c) /\ Consumed(c) = k /\ k \in Nat /\ n \in Nat
  BY <1>1, <1>2, <1>5 DEF Unread, Consumed
<1>7. /\ bytes \in Seq(Byte) /\ l \in Nat \ {0} /\ k + l <= SIZEOF + Len(data)
      /\ \A i \in 1 .. l : bytes[i] = Wire(file[c], k + i)
  <2>1. /\ bytes \in Seq(Byte) /\ Len(bytes) \in Nat \ {0}
        /\ k + Len(bytes) <= SIZEOF + Len(file[c].data)
        /\ \A i \in 1 .. Len(bytes) : bytes[i] = Wire(file[c], k + i)
    BY <1>1, <1>2, <1>4, <1>6, NextBytes
  <2> QED
    BY <1>5, <2>1
<1>8. data \in Seq(Byte) /\ Len(data) \in Nat /\ Len(data) <= UINT_MAX
  BY <1>3, <1>5
<1>9. n + l <= Len(data) /\ n + l \in 0 .. Len(data) /\ n + l <= UINT_MAX /\ n + l \in Nat
  BY <1>2, <1>5, <1>6, <1>7, <1>8
<1>10. \A i \in 1 .. l : bytes[i] = data[n + i]
  <2> SUFFICES ASSUME NEW i \in 1 .. l PROVE bytes[i] = data[n + i]
    OBVIOUS
  <2>1. ~(k + i <= SIZEOF) /\ (k + i) - SIZEOF = n + i
    BY <1>2, <1>5, <1>6, <1>7
  <2> QED
    BY <1>5, <1>7, <2>1 DEF Wire
<1>11. total_bytes_read' = n + l
  BY <1>4, <1>5, <1>9, Uint32
<1>12. ASSUME NEW S
       PROVE  /\ Cardinality(Hits(bytes, S)) \in Nat
              /\ Count(data, n + l, S)
                   = Count(data, n, S) + Cardinality(Hits(bytes, S))
              /\ Count(data, n + l, S) \in Nat /\ Count(data, n + l, S) <= UINT_MAX
  <2>1. /\ Cardinality(Hits(bytes, S)) \in Nat
        /\ Count(data, n + l, S)
             = Count(data, n, S) + Cardinality(Hits(bytes, S))
    <3>1. n + Len(bytes) <= Len(data) /\ \A i \in 1 .. Len(bytes) : bytes[i] = data[n + i]
      BY <1>5, <1>9, <1>10
    <3>2. /\ Cardinality(Hits(bytes, S)) \in Nat
          /\ Count(data, n + Len(bytes), S)
               = Count(data, n, S) + Cardinality(Hits(bytes, S))
      BY <1>6, <1>7, <1>8, <3>1, CountStep
    <3> QED
      BY <1>5, <3>2
  <2>2. PICK m \in 0 .. Len(data) : m = n + l
    BY <1>9
  <2>3. Count(data, m, S) \in 0 .. m
    BY <1>8, CountType
  <2>4. Count(data, n + l, S) \in Nat /\ Count(data, n + l, S) <= UINT_MAX
    BY <1>2, <1>8, <2>2, <2>3
  <2> QED
    BY <2>1, <2>4
<1>13. CountedTo(c, n)
  BY <1>1, <1>5 DEF Requests
<1>14. printable_counter' = Count(data, n + l, Printable)
  <2>1. {i \in DOMAIN bytes : is_printable(bytes[i])} = {i \in DOMAIN bytes : bytes[i] \in Printable}
    <3>1. \A i \in DOMAIN bytes : bytes[i] \in Int
      BY <1>7, EncodingAssumption DEF Byte
    <3> QED
      BY <3>1, EncodingAssumption DEF is_printable, Printable
  <2>2. Printables(bytes) = Cardinality(Hits(bytes, Printable))
    BY <2>1 DEF Printables, Hits
  <2>3. printable_counter + Printables(bytes) = Count(data, n + l, Printable)
    BY <1>5, <1>12, <1>13, <2>2 DEF CountedTo
  <2> QED
    BY <1>4, <1>12, <2>3, Uint32
<1>15. ASSUME NEW h \in Chars
       PROVE  pcc_client'[h] = Count(data, n + l, {h + MIN_PRINTABLE_CHAR})
  <2>1. {i \in DOMAIN bytes : bytes[i] = h + MIN_PRINTABLE_CHAR}
          = Hits(bytes, {h + MIN_PRINTABLE_CHAR})
    BY DEF Hits
  <2>2. pcc_client'[h] = uint32_t(pcc_client[h] + Cardinality({i \in DOMAIN bytes :
                                                       bytes[i] = h + MIN_PRINTABLE_CHAR}))
    BY <1>4 DEF update_pcc_client
  <2>3. pcc_client[h] + Cardinality({i \in DOMAIN bytes : bytes[i] = h + MIN_PRINTABLE_CHAR})
          = Count(data, n + l, {h + MIN_PRINTABLE_CHAR})
    BY <1>5, <1>12, <1>13, <2>1 DEF CountedTo
  <2> QED
    BY <1>12, <2>2, <2>3, Uint32
<1>16. CountedTo(connection_fd, total_bytes_read)'
  BY <1>1, <1>5, <1>11, <1>14, <1>15 DEF CountedTo
<1>17. stream_byte_size' = Len(data)
  BY <1>1, <1>5 DEF Requests
<1> QED
  BY <1>1, <1>5, <1>9, <1>11, <1>16, <1>17 DEF Requests

\* What the server knows of the request that it reads.
LEMMA RequestStep ==
    ASSUME TypeInv, Places, Streams, Requests, WholeFiles, [Next]_vars
    PROVE  Requests'
<1>0. UNCHANGED file
  <2>1. \A c \in Clients : Connect(c) \/ Client(c) \/ ClientError(c) \/ Kill(c) => UNCHANGED file
    BY ClientMoves DEF Connect
  <2> QED
    BY <2>1 DEF Next, vars, client_vars
<1>1. ASSUME UNCHANGED <<spc, request, counts, connection_fd>> PROVE Requests'
  BY <1>0, <1>1 DEF Requests, CountedTo, request, counts
<1>2. ASSUME spc' \notin {"size", "stream", "send", "update"} PROVE Requests'
  BY <1>2 DEF Requests
<1>3. CASE UNCHANGED server_vars
  BY <1>1, <1>3 DEF server_vars
<1>4. ASSUME NEW how, ServerEnd(how) PROVE Requests'
  BY <1>2, <1>4 DEF ServerEnd
<1>5. ASSUME CloseClient PROVE Requests'
  BY <1>2, <1>5 DEF CloseClient
<1>6. CASE Setup \/ InstallHandler \/ WhileRunning \/ Accept \/ update_pcc_total \/ ClearProcessing
              \/ PrintAndReturn
  BY <1>2, <1>4, <1>6 DEF Setup, InstallHandler, WhileRunning, Accept, update_pcc_total,
                          ClearProcessing, PrintAndReturn
<1>7. CASE MarkProcessing
  <2>1. spc' = "size" /\ size_bytes' = <<>> /\ Len(<<>>) = 0
    BY <1>7 DEF MarkProcessing
  <2>2. Len(size_bytes') < SIZEOF /\ \A i \in 1 .. Len(size_bytes') : FALSE
    BY <2>1, EncodingAssumption
  <2> QED
    BY <2>1, <2>2 DEF Requests
<1>8. CASE StreamRead
  <2>1. /\ spc = "stream" /\ total_bytes_read >= stream_byte_size /\ spc' = "send"
        /\ UNCHANGED <<counts, connection_fd, printable_counter>>
    BY <1>8 DEF StreamRead
  <2>2. PICK n : n = Len(file[connection_fd].data)
    OBVIOUS
  <2>3. total_bytes_read \in Nat /\ stream_byte_size \in Nat
    BY UintMax DEF TypeInv, TypeOK, ServerTypeOK
  <2>4. total_bytes_read = n /\ CountedTo(connection_fd, total_bytes_read)
    BY <2>1, <2>2, <2>3 DEF Requests
  <2>5. CountedTo(connection_fd, n)
    BY <2>4
  <2>6. CountedTo(connection_fd, n)'
    BY <1>0, <2>1, <2>5 DEF CountedTo, counts
  <2>7. CountedTo(connection_fd, Len(file[connection_fd].data))'
    BY <1>0, <2>1, <2>2, <2>6
  <2> QED
    BY <2>1, <2>7 DEF Requests
<1>9. CASE send_printable_counter_to_client
  <2>1. /\ spc = "send" /\ spc' \in {"send", "update"}
        /\ UNCHANGED <<counts, connection_fd, printable_counter>>
    BY <1>9 DEF send_printable_counter_to_client
  <2>2. CountedTo(connection_fd, Len(file[connection_fd].data))'
    BY <1>0, <2>1 DEF Requests, CountedTo, counts
  <2> QED
    BY <2>1, <2>2 DEF Requests
<1>10. CASE ReadError \/ WriteError
  BY <1>4, <1>5, <1>10 DEF ReadError, WriteError, GiveUp
<1>11. CASE Sigint
  <2>1. \/ \E how : ServerEnd(how)
        \/ UNCHANGED <<spc, connection_fd, request, counts>>
        \/ CloseClient
    BY <1>11 DEF Sigint, sig_int_handler, HandlerProcessing
  <2> QED
    BY <1>1, <1>4, <1>5, <2>1
<1>12. CASE Server
  BY <1>0, <1>6, <1>7, <1>8, <1>9, <1>10, <1>12, LengthRead, PartRead DEF Server
<1>13. CASE UNCHANGED vars
  BY <1>3, <1>13 DEF vars
<1>14. CASE AcceptError
  BY <1>4, <1>14 DEF AcceptError
<1> QED
  BY <1>3, <1>11, <1>12, <1>13, <1>14 DEF Next

-----------------------------------------------------------------------------
\* The number of printable bytes of a file fits the answer.
LEMMA AnswerWord ==
    ASSUME TypeInv, WholeFiles, NEW c \in Clients
    PROVE  /\ Answer(c) \in Seq(Byte) /\ Len(Answer(c)) = SIZEOF
           /\ Count(file[c].data, Len(file[c].data), Printable) \in 0 .. UINT_MAX
<1>1. file[c].data \in Seq(Byte) /\ file[c] \in Files
  BY FileType DEF TypeInv, TypeOK, ClientTypeOK
<1>2. PICK data, n : data = file[c].data /\ n = Len(data)
  OBVIOUS
<1>3. data \in Seq(Byte) /\ n \in 0 .. Len(data) /\ n \in Nat /\ n <= UINT_MAX
  BY <1>1, <1>2 DEF WholeFiles
<1>4. Count(data, n, Printable) \in 0 .. n
  BY <1>3, CountType
<1>5. Count(data, n, Printable) \in 0 .. UINT_MAX /\ Count(data, n, Printable) \in Nat
  BY <1>3, <1>4, UintMax
<1> QED
  BY <1>2, <1>5, HtonlType, WordSeq DEF Answer

\* What is known of an answer that a step does not touch.
LEMMA AnswerKept ==
    ASSUME NEW c \in Clients, AnswerOf(c), UNCHANGED <<down[c], pcc_from_server[c], file[c]>>,
           cpc'[c] = "start" => cpc[c] = "start", cpc'[c] = "done" => cpc[c] = "done",
           Unread(c)' => Unread(c) \/ cpc[c] = "start"
    PROVE  AnswerOf(c)'
<1>1. Answer(c)' = Answer(c) /\ Arriving(c)' = Arriving(c)
  BY DEF Answer, Arriving
<1> QED
  BY <1>1 DEF AnswerOf

\* The server leaves the connections of the clients that it does not answer alone.
LEMMA UnreadShrinks ==
    ASSUME TypeInv, Places, Server \/ Sigint \/ AcceptError, NEW c \in Clients
    PROVE  Unread(c)' => Unread(c)
<1>1. ASSUME UNCHANGED <<backlog, connection_fd>>,
             spc' \in {"accepted", "size", "stream"} => spc \in {"accepted", "size", "stream"}
      PROVE  Unread(c)' => Unread(c)
  BY <1>1 DEF Unread, Queued
<1>2. ASSUME connection_fd' = NULL, backlog' = backlog \/ backlog' = <<>>
      PROVE  Unread(c)' => Unread(c)
  <2>1. Queued' \subseteq Queued
    <3>1. ASSUME backlog' = <<>> PROVE Queued' = {}
      <4>1. Len(backlog') = 0 /\ \A i \in 1 .. 0 : FALSE
        BY <3>1
      <4> QED
        BY <4>1 DEF Queued
    <3> QED
      BY <1>2, <3>1 DEF Queued
  <2> QED
    BY <1>2, <2>1, ServerAssumption DEF Unread
<1>3. ASSUME NEW how, ServerEnd(how) PROVE Unread(c)' => Unread(c)
  BY <1>2, <1>3 DEF ServerEnd, ServerCloseAll
<1>4. ASSUME CloseClient PROVE Unread(c)' => Unread(c)
  BY <1>2, <1>4 DEF CloseClient, ServerClose
<1>5. CASE Setup
  BY <1>1, <1>3, <1>5 DEF Setup, conn_vars
<1>6. CASE InstallHandler \/ WhileRunning \/ StreamRead \/ ClearProcessing \/ MarkProcessing
              \/ read_stream_from_client
  BY <1>1, <1>6 DEF InstallHandler, WhileRunning, StreamRead, ClearProcessing, MarkProcessing,
                    read_stream_from_client, ServerRecv, conn_vars
<1>7. CASE Accept
  <2>1. Head(backlog) \in Queued /\ Queued' = Queued \ {Head(backlog)}
    BY <1>7, Accepted DEF Accept
  <2>2. connection_fd' = Head(backlog)
    BY <1>7 DEF Accept
  <2> QED
    BY <2>1, <2>2 DEF Unread
<1>8. CASE read_stream_size_from_client
  <2>1. UNCHANGED <<backlog, connection_fd>> /\ spc = "size"
    BY <1>8 DEF read_stream_size_from_client, ServerRecv
  <2> QED
    BY <1>1, <2>1
<1>9. CASE ReadError \/ WriteError
  BY <1>3, <1>4, <1>9 DEF ReadError, WriteError, GiveUp
<1>10. CASE send_printable_counter_to_client
  <2>1. UNCHANGED <<backlog, connection_fd>> /\ spc' \in {"send", "update"}
    BY <1>10 DEF send_printable_counter_to_client, ServerSend
  <2> QED
    BY <1>1, <2>1
<1>11. CASE update_pcc_total \/ PrintAndReturn \/ AcceptError
  BY <1>2, <1>3, <1>11 DEF update_pcc_total, ServerClose, PrintAndReturn, AcceptError
<1>12. CASE Sigint
  <2>1. \/ \E how : ServerEnd(how)
        \/ UNCHANGED <<conn_vars, spc, connection_fd>>
        \/ CloseClient
    BY <1>12 DEF Sigint, sig_int_handler, HandlerProcessing
  <2> QED
    BY <1>1, <1>3, <1>4, <2>1 DEF conn_vars
<1> QED
  BY <1>5, <1>6, <1>7, <1>8, <1>9, <1>10, <1>11, <1>12 DEF Server

\* Appending what recv brought adds its length.
LEMMA JoinedLength ==
    ASSUME NEW v \in Seq(Byte), NEW w \in Seq(Byte)
    PROVE  Len(v \o w) = Len(v) + Len(w)
OBVIOUS

\* A write of the answer.
LEMMA AnswerSent ==
    ASSUME TypeInv, Places, Answers, WholeFiles, send_printable_counter_to_client,
           UNCHANGED client_vars, NEW d \in Clients
    PROVE  Sending' /\ AnswerOf(d)'
<1> DEFINE c == connection_fd
<1>1. /\ spc = "send" /\ c \in Clients /\ connection_fd' = c /\ spc' \in {"send", "update"}
  BY DEF send_printable_counter_to_client, TypeInv, Attached, Serving
<1>2. UNCHANGED <<cpc, file, pcc_from_server>>
  BY DEF client_vars
<1>3. PICK bytes \in Arrived(unsent, SIZEOF) : ServerSend(c, bytes) /\ unsent' = Rest(unsent, bytes)
  BY DEF send_printable_counter_to_client
<1>4. /\ unsent \in Seq(Byte) /\ SIZEOF \in Int /\ SIZEOF \in Nat
      /\ down \in [Clients -> Seq(Byte)] /\ pcc_from_server \in [Clients -> Seq(Byte)]
  <2>1. SIZEOF \in Int /\ SIZEOF \in Nat
    BY EncodingAssumption
  <2>2. unsent \in Seq(Byte)
    BY DEF TypeInv, TypeOK, ServerTypeOK, Byte
  <2>3. down \in [Clients -> Seq(Byte)]
    BY DEF TypeInv, TypeOK, Byte
  <2>4. pcc_from_server \in [Clients -> Seq(Byte)]
    BY DEF TypeInv, TypeOK, ClientTypeOK, Byte
  <2> QED
    BY <2>1, <2>2, <2>3, <2>4
<1>5. /\ bytes \in Seq(Byte) /\ Len(bytes) \in 1 .. Len(unsent)
      /\ \A i \in 1 .. Len(bytes) : bytes[i] = unsent[i]
      /\ Len(Rest(unsent, bytes)) = Len(unsent) - Len(bytes)
      /\ \A i \in 1 .. Len(Rest(unsent, bytes)) : Rest(unsent, bytes)[i] = unsent[Len(bytes) + i]
  BY <1>3, <1>4, ReadBytes
<1>6. PICK l, b, a : l = Len(unsent) /\ b = Len(bytes) /\ a = Answer(c)
  OBVIOUS
<1>7. /\ l \in Nat /\ b \in 1 .. l /\ Len(unsent') = l - b
      /\ \A i \in 1 .. b : bytes[i] = unsent[i]
      /\ \A i \in 1 .. l - b : unsent'[i] = unsent[b + i]
  BY <1>3, <1>4, <1>5, <1>6
<1>8. /\ l <= SIZEOF /\ \A i \in 1 .. l : unsent[i] = a[SIZEOF - l + i]
      /\ c \in c_open => Arriving(c) + l = SIZEOF
  BY <1>1, <1>6 DEF Answers, Sending
<1>9. ASSUME NEW i \in 1 .. l - b PROVE unsent'[i] = a[SIZEOF - (l - b) + i]
  <2>1. b + i \in 1 .. l /\ SIZEOF - l + (b + i) = SIZEOF - (l - b) + i
    BY <1>4, <1>7
  <2>2. unsent'[i] = unsent[b + i]
    BY <1>7
  <2>3. unsent[b + i] = a[SIZEOF - l + (b + i)]
    BY <1>8, <2>1
  <2> QED
    BY <2>1, <2>2, <2>3
<1>10. Answer(c)' = a
  BY <1>1, <1>2, <1>6 DEF Answer
<1>11. PICK p, q : p = Len(pcc_from_server[c]) /\ q = Len(down[c])
  OBVIOUS
<1>12. p \in Nat /\ q \in Nat /\ Arriving(c) = p + q
  BY <1>1, <1>4, <1>11 DEF Arriving
<1>13. CASE c \notin c_open
  <2>1. UNCHANGED <<down, c_open>>
    BY <1>3, <1>4, <1>13 DEF ServerSend
  <2>2. AnswerOf(d) /\ (Unread(d)' => Unread(d))
    BY UnreadShrinks DEF Answers, Server
  <2>3. AnswerOf(d)'
    BY <1>2, <2>1, <2>2, AnswerKept
  <2>4. Sending'
    <3>1. Len(unsent') <= SIZEOF
      BY <1>4, <1>7, <1>8
    <3>2. connection_fd' \notin c_open'
      BY <1>1, <1>13, <2>1
    <3> QED
      BY <1>1, <1>7, <1>9, <1>10, <3>1, <3>2 DEF Sending
  <2> QED
    BY <2>3, <2>4
<1>14. CASE c \in c_open
  <2>1. down' = [down EXCEPT ![c] = down[c] \o bytes] /\ UNCHANGED c_open
    BY <1>3, <1>14 DEF ServerSend
  <2>2. down'[c] = down[c] \o bytes /\ Len(down'[c]) = q + b
    <3>1. down[c] \in Seq(Byte) /\ bytes \in Seq(Byte) /\ down'[c] = down[c] \o bytes
      BY <1>1, <1>4, <1>5, <2>1
    <3>2. Len(down[c] \o bytes) = Len(down[c]) + Len(bytes)
      BY ONLY <3>1, JoinedLength
    <3> QED
      BY <1>6, <1>11, <3>1, <3>2
  <2>3. Arriving(c)' = p + (q + b)
    BY <1>1, <1>2, <1>11, <2>2 DEF Arriving
  <2>4. p + (q + b) + (l - b) = SIZEOF /\ p + (q + b) <= SIZEOF
    BY <1>4, <1>7, <1>8, <1>12, <1>14
  <2>5. Sending'
    <3>1. Len(unsent') <= SIZEOF
      BY <1>4, <1>7, <1>8
    <3> QED
      BY <1>1, <1>7, <1>9, <1>10, <2>3, <2>4, <3>1 DEF Sending
  <2>6. ~Unread(c) /\ ~Unread(c)' /\ AnswerOf(c)
    <3>1. c \notin Queued
      BY DEF Places
    <3>2. UNCHANGED backlog
      BY <1>3 DEF ServerSend
    <3> QED
      BY <1>1, <3>1, <3>2 DEF Unread, Answers, Queued
  <2>7. cpc[c] # "start"
    BY <1>1 DEF Places
  <2>8. ASSUME NEW i \in 1 .. q + b PROVE down'[c][i] = a[p + i]
    <3>1. CASE i <= q
      <4>1. i \in 1 .. q
        BY <1>12, <3>1
      <4>2. down[c][i] = a[p + i]
        BY <1>6, <1>11, <2>6, <4>1 DEF AnswerOf
      <4> QED
        BY <1>1, <1>4, <1>5, <1>11, <2>2, <4>1, <4>2
    <3>2. CASE i > q
      <4>1. PICK j \in 1 .. b : i = q + j
        <5>1. i - q \in 1 .. b /\ i = q + (i - q)
          BY <1>7, <1>12, <3>2
        <5> QED
          BY <5>1
      <4>2. down'[c][i] = bytes[j]
        BY <1>1, <1>4, <1>5, <1>6, <1>7, <1>11, <1>12, <2>2, <3>2, <4>1
      <4>3. j \in 1 .. l
        BY <1>7, <4>1
      <4>4. bytes[j] = a[SIZEOF - l + j]
        BY <1>7, <1>8, <4>1, <4>3
      <4>5. SIZEOF - l + j = p + i
        BY <1>4, <1>7, <1>8, <1>12, <1>14, <4>1
      <4> QED
        BY <4>2, <4>4, <4>5
    <3> QED
      BY <1>7, <1>12, <3>1, <3>2
  <2>9. CASE d = c
    <3>1. Len(pcc_from_server'[c]) = p
      BY <1>2, <1>11
    <3>2. \A i \in 1 .. p : pcc_from_server'[c][i] = a[i]
      BY <1>2, <1>6, <1>11, <2>6 DEF AnswerOf
    <3>3. cpc'[c] = "done" => p = SIZEOF
      BY <1>2, <1>11, <2>6 DEF AnswerOf
    <3>4. PICK e : e = c /\ e \in Clients
      BY <1>1
    <3>5. e = connection_fd /\ e = connection_fd'
      BY <1>1, <3>4
    <3>6. Answer(e)' = a /\ Arriving(e)' = p + (q + b) /\ Len(down'[e]) = q + b
      BY <1>10, <2>2, <2>3, <3>4, <3>5 DEF Answer, Arriving
    <3>7. ~Unread(e)' /\ cpc'[e] # "start"
      BY <1>2, <2>6, <2>7, <3>4, <3>5 DEF Unread
    <3>8. AnswerOf(e)'
      BY <2>4, <2>8, <3>1, <3>2, <3>3, <3>4, <3>6, <3>7 DEF AnswerOf
    <3> QED
      BY <2>5, <2>9, <3>4, <3>8
  <2>10. CASE d # c
    <3>1. down'[d] = down[d]
      BY <1>4, <2>1, <2>10
    <3>2. AnswerOf(d) /\ (Unread(d)' => Unread(d))
      BY UnreadShrinks DEF Answers, Server
    <3> QED
      BY <1>2, <2>5, <3>1, <3>2, AnswerKept
  <2> QED
    BY <2>5, <2>9, <2>10
<1> QED
  BY <1>13, <1>14

\* What the server does to the answers.
LEMMA AnswerServer ==
    ASSUME TypeInv, Places, Requests, Answers, WholeFiles, Server \/ Sigint \/ AcceptError, UNCHANGED client_vars
    PROVE  Answers'
<1>0. UNCHANGED <<cpc, file, pcc_from_server>>
  BY DEF client_vars
<1>1. ASSUME UNCHANGED down, NEW c \in Clients PROVE AnswerOf(c)'
  <2>1. AnswerOf(c) /\ (Unread(c)' => Unread(c))
    BY UnreadShrinks DEF Answers
  <2> QED
    BY <1>0, <1>1, <2>1, AnswerKept
<1>2. ASSUME UNCHANGED down, spc' # "send" PROVE Answers'
  BY <1>1, <1>2 DEF Answers, Sending
<1>3. ASSUME NEW how, ServerEnd(how) PROVE Answers'
  BY <1>2, <1>3 DEF ServerEnd, ServerCloseAll
<1>4. ASSUME CloseClient PROVE Answers'
  BY <1>2, <1>4 DEF CloseClient, ServerClose
<1>5. CASE Setup \/ PrintAndReturn \/ AcceptError
  BY <1>2, <1>3, <1>5 DEF Setup, PrintAndReturn, AcceptError, conn_vars
<1>6. CASE InstallHandler \/ WhileRunning \/ Accept \/ MarkProcessing \/ ClearProcessing
              \/ update_pcc_total \/ read_stream_from_client
  BY <1>2, <1>6 DEF InstallHandler, WhileRunning, Accept, MarkProcessing, ClearProcessing,
                    update_pcc_total, read_stream_from_client, ServerRecv, ServerClose, conn_vars
<1>7. CASE read_stream_size_from_client
  <2>1. UNCHANGED down /\ spc' # "send"
    BY <1>7 DEF read_stream_size_from_client, ServerRecv, ReadSize
  <2> QED
    BY <1>2, <2>1
<1>8. CASE StreamRead
  <2>1. /\ spc = "stream" /\ connection_fd \in Clients /\ UNCHANGED <<conn_vars, connection_fd>>
        /\ unsent' = htonl(printable_counter) /\ total_bytes_read >= stream_byte_size
    BY <1>8 DEF StreamRead, TypeInv, Attached, Serving
  <2>2. PICK c \in Clients : c = connection_fd
    BY <2>1
  <2>3. total_bytes_read = Len(file[c].data)
    <3>1. total_bytes_read \in Nat /\ stream_byte_size \in Nat
      BY UintMax DEF TypeInv, TypeOK, ServerTypeOK
    <3> QED
      BY <2>1, <2>2, <3>1 DEF Requests
  <2>4. unsent' = Answer(c)
    <3>1. CountedTo(c, Len(file[c].data))
      BY <2>1, <2>2, <2>3 DEF Requests
    <3> QED
      BY <2>1, <3>1 DEF CountedTo, Answer
  <2>5. Arriving(c) = 0
    BY <2>1, <2>2 DEF Answers, AnswerOf, Unread
  <2>6. Answer(c)' = Answer(c) /\ Arriving(c)' = 0
    BY <1>0, <2>1, <2>5 DEF Answer, Arriving, conn_vars
  <2>7. Len(unsent') = SIZEOF /\ SIZEOF \in Nat
    BY <2>2, <2>4, AnswerWord, EncodingAssumption
  <2>8. \A i \in 1 .. SIZEOF : SIZEOF - SIZEOF + i = i
    BY <2>7
  <2>9. \A i \in 1 .. SIZEOF : unsent'[i] = Answer(c)'[SIZEOF - SIZEOF + i]
    BY <2>4, <2>6, <2>8
  <2>10. SIZEOF <= SIZEOF /\ 0 + SIZEOF = SIZEOF
    BY <2>7
  <2>11. connection_fd' = c
    BY <2>1, <2>2
  <2>12. Sending'
    BY <2>6, <2>7, <2>9, <2>10, <2>11 DEF Sending
  <2> QED
    BY <1>1, <2>1, <2>12 DEF Answers, conn_vars
<1>9. CASE send_printable_counter_to_client
  <2>1. connection_fd \in Clients
    BY <1>9 DEF send_printable_counter_to_client, TypeInv, Attached, Serving
  <2>2. \A d \in Clients : Sending' /\ AnswerOf(d)'
    BY <1>9, AnswerSent
  <2> QED
    BY <2>1, <2>2 DEF Answers
<1>10. CASE ReadError \/ WriteError
  BY <1>3, <1>4, <1>10 DEF ReadError, WriteError, GiveUp
<1>11. CASE Sigint
  <2>1. CASE UNCHANGED <<conn_vars, spc, connection_fd>>
    <3>1. UNCHANGED <<down, c_open, spc, connection_fd, unsent>>
      BY <1>11, <2>1 DEF Sigint, conn_vars, request
    <3>2. Sending'
      BY <1>0, <3>1 DEF Answers, Sending, Answer, Arriving
    <3> QED
      BY <1>1, <3>1, <3>2 DEF Answers
  <2>2. \/ \E how : ServerEnd(how)
        \/ UNCHANGED <<conn_vars, spc, connection_fd>>
        \/ CloseClient
    BY <1>11 DEF Sigint, sig_int_handler, HandlerProcessing
  <2> QED
    BY <1>3, <1>4, <2>1, <2>2
<1> QED
  BY <1>5, <1>6, <1>7, <1>8, <1>9, <1>10, <1>11 DEF Server

\* What the clients do to the answers.
LEMMA AnswerClient ==
    ASSUME TypeInv, Places, Answers, WholeFiles, NEW c \in Clients,
           Connect(c) \/ Client(c) \/ ClientError(c) \/ Kill(c), UNCHANGED server_vars
    PROVE  Answers'
<1>1. /\ cpc \in [Clients -> {"start", "size", "file", "result", "done", "failed", "killed"}]
      /\ pcc_from_server \in [Clients -> Seq(Byte)] /\ down \in [Clients -> Seq(Byte)]
      /\ SIZEOF \in Nat
  BY EncodingAssumption DEF TypeInv, TypeOK, ClientTypeOK, Byte
<1>2. UNCHANGED <<connection_fd, spc, unsent>>
  BY DEF server_vars, request
<1>3. ASSUME UNCHANGED file, \A d \in Clients : Arriving(d)' = Arriving(d),
             connection_fd \in c_open' => connection_fd \in c_open \/ spc # "send"
      PROVE  Sending'
  <2>1. SUFFICES ASSUME spc = "send" PROVE Sending'
    BY <1>2 DEF Sending
  <2>2. PICK e \in Clients : e = connection_fd
    BY <2>1 DEF TypeInv, Attached, Serving
  <2>3. Answer(e)' = Answer(e) /\ Arriving(e)' = Arriving(e) /\ connection_fd' = e
    BY <1>2, <1>3, <2>2 DEF Answer
  <2> QED
    BY <1>2, <1>3, <2>1, <2>2, <2>3 DEF Answers, Sending
<1>4. ASSUME UNCHANGED <<down, pcc_from_server, file>>,
             \A d \in Clients : /\ cpc'[d] = "start" => cpc[d] = "start"
                                /\ cpc'[d] = "done" => cpc[d] = "done"
                                /\ Unread(d)' => Unread(d) \/ cpc[d] = "start",
             connection_fd \in c_open' => connection_fd \in c_open \/ spc # "send"
      PROVE  Answers'
  <2>1. Sending'
    BY <1>3, <1>4 DEF Arriving
  <2>2. ASSUME NEW d \in Clients PROVE AnswerOf(d)'
    <3>1. AnswerOf(d)
      BY DEF Answers
    <3> QED
      BY <1>4, <3>1, AnswerKept
  <2> QED
    BY <2>1, <2>2 DEF Answers
<1>5. UNCHANGED backlog => \A d \in Clients : Unread(d)' => Unread(d)
  BY <1>2 DEF Unread, Queued
<1>6. ASSUME UNCHANGED <<backlog, down, pcc_from_server, file>>, c_open' \subseteq c_open,
             NEW l \in {"file", "result", "failed", "killed"}, CGoto(c, l) \/ UNCHANGED cpc
      PROVE  Answers'
  <2>1. \A d \in Clients : /\ cpc'[d] = "start" => cpc[d] = "start"
                           /\ cpc'[d] = "done" => cpc[d] = "done"
    BY <1>1, <1>6 DEF CGoto
  <2> QED
    BY <1>4, <1>5, <1>6, <2>1
<1>7. CASE Connect(c)
  <2>1. /\ cpc[c] = "start" /\ backlog' = Append(backlog, c) /\ UNCHANGED <<down, file, pcc_from_server>>
        /\ cpc' = [cpc EXCEPT ![c] = "size"] /\ c_open' = c_open \cup {c}
    BY <1>7 DEF Connect, Establish, CGoto
  <2>2. c \notin Queued /\ c # connection_fd
    BY <2>1 DEF Places
  <2>3. Queued' = Queued \cup {c}
    BY <2>1, <2>2, Established
  <2>4. \A d \in Clients : /\ cpc'[d] = "start" => cpc[d] = "start"
                           /\ cpc'[d] = "done" => cpc[d] = "done"
    BY <1>1, <2>1
  <2>5. \A d \in Clients : Unread(d)' => Unread(d) \/ cpc[d] = "start"
    BY <1>2, <2>1, <2>3 DEF Unread
  <2> QED
    BY <1>4, <2>1, <2>2, <2>4, <2>5
<1>8. CASE WriteBuffer(c)
  <2>1. UNCHANGED <<backlog, down, pcc_from_server, file, c_open>> /\ CGoto(c, "file")
    BY <1>8 DEF WriteBuffer, ClientSend
  <2> QED
    BY <1>6, <2>1
<1>9. CASE ReadFile(c)
  <2>1. /\ UNCHANGED <<backlog, down, pcc_from_server, file, c_open>>
        /\ CGoto(c, "result") \/ UNCHANGED cpc
    BY <1>9 DEF ReadFile, conn_vars
  <2> QED
    BY <1>6, <2>1
<1>10. CASE ClientEnd(c, "failed") \/ ClientEnd(c, "killed")
  <2>1. /\ UNCHANGED <<backlog, down, pcc_from_server, file>> /\ c_open' \subseteq c_open
        /\ CGoto(c, "failed") \/ CGoto(c, "killed")
    BY <1>10 DEF ClientEnd, ClientClose
  <2> QED
    BY <1>6, <2>1
<1>11. CASE read_result_from_server(c)
  <2>1. PICK p, q, a, s : /\ p = Len(pcc_from_server[c]) /\ q = Len(down[c]) /\ a = Answer(c)
                          /\ s = pcc_from_server[c]
    OBVIOUS
  <2>2. /\ s \in Seq(Byte) /\ p \in Nat /\ q \in Nat /\ Len(s) = p /\ Arriving(c) = p + q
    BY <1>1, <2>1 DEF Arriving
  <2>3. PICK n \in Int : n = SIZEOF - p
    BY <1>1, <2>2
  <2>4. PICK bytes :
          /\ bytes \in Arrived(down[c], n)
          /\ pcc_from_server' = [pcc_from_server EXCEPT ![c] = s \o bytes]
          /\ down' = [down EXCEPT ![c] = Rest(down[c], bytes)]
          /\ \/ CGoto(c, "done") /\ Len(pcc_from_server'[c]) = SIZEOF
             \/ UNCHANGED cpc
          /\ c_open' \subseteq c_open /\ UNCHANGED backlog
    BY <1>11, <2>1, <2>3 DEF read_result_from_server, ClientRecv
  <2>5. PICK b, r : b = Len(bytes) /\ r = Rest(down[c], bytes)
    OBVIOUS
  <2>6. /\ bytes \in Seq(Byte) /\ b \in 1 .. q /\ b <= n
        /\ \A i \in 1 .. b : bytes[i] = down[c][i]
        /\ r \in Seq(Byte) /\ Len(r) = q - b /\ \A i \in 1 .. q - b : r[i] = down[c][b + i]
    <3>1. down[c] \in Seq(Byte)
      BY <1>1
    <3>2. /\ bytes \in Seq(Byte) /\ Len(bytes) \in 1 .. Len(down[c]) /\ Len(bytes) <= n
          /\ \A i \in 1 .. Len(bytes) : bytes[i] = down[c][i]
          /\ Rest(down[c], bytes) \in Seq(Byte)
          /\ Len(Rest(down[c], bytes)) = Len(down[c]) - Len(bytes)
          /\ \A i \in 1 .. Len(Rest(down[c], bytes)) :
                Rest(down[c], bytes)[i] = down[c][Len(bytes) + i]
      BY <2>4, <3>1, ReadBytes
    <3> QED
      BY <2>1, <2>5, <3>2
  <2>7. UNCHANGED file /\ cpc[c] = "result"
    BY <1>11 DEF read_result_from_server
  <2>8. pcc_from_server'[c] = s \o bytes /\ down'[c] = r
    BY <1>1, <2>4, <2>5
  <2>9. Len(pcc_from_server'[c]) = p + b /\ Len(down'[c]) = q - b
    <3>1. s \in Seq(Byte) /\ bytes \in Seq(Byte)
      BY <2>2, <2>6
    <3>2. Len(s \o bytes) = Len(s) + Len(bytes)
      BY ONLY <3>1, JoinedLength
    <3> QED
      BY <2>2, <2>5, <2>6, <2>8, <3>2
  <2>10. Arriving(c)' = Arriving(c)
    <3>1. (p + b) + (q - b) = p + q
      BY <2>2, <2>6
    <3> QED
      BY <2>2, <2>9, <3>1 DEF Arriving
  <2>11. ASSUME NEW d \in Clients, d # c
         PROVE  /\ pcc_from_server'[d] = pcc_from_server[d] /\ down'[d] = down[d]
                /\ cpc'[d] = cpc[d]
    BY <1>1, <2>4, <2>11 DEF CGoto
  <2>12. Sending'
    <3>1. \A d \in Clients : Arriving(d)' = Arriving(d)
      BY <2>10, <2>11 DEF Arriving
    <3> QED
      BY <1>3, <2>4, <2>7, <3>1
  <2>13. ASSUME NEW d \in Clients, d # c PROVE AnswerOf(d)'
    <3>1. AnswerOf(d) /\ (Unread(d)' => Unread(d))
      BY <1>5, <2>4 DEF Answers
    <3> QED
      BY <2>7, <2>11, <2>13, <3>1, AnswerKept
  <2>14. AnswerOf(c)'
    <3>1. AnswerOf(c) /\ (Unread(c)' => Unread(c)) /\ Answer(c)' = a
      BY <1>5, <2>1, <2>4, <2>7 DEF Answers, Answer
    <3>2. /\ \A i \in 1 .. p : s[i] = a[i]
          /\ \A i \in 1 .. q : down[c][i] = a[p + i]
      BY <2>1, <3>1 DEF AnswerOf
    <3>3. ASSUME NEW i \in 1 .. p + b PROVE (s \o bytes)[i] = a[i]
      <4>1. CASE i <= p
        BY <2>2, <2>6, <3>2, <4>1
      <4>2. CASE i > p
        <5>1. PICK j \in 1 .. b : i = p + j
          <6>1. i - p \in 1 .. b /\ i = p + (i - p)
            BY <2>2, <2>6, <4>2
          <6> QED
            BY <6>1
        <5>2. (s \o bytes)[i] = bytes[j]
          BY <2>2, <2>5, <2>6, <4>2, <5>1
        <5>3. j \in 1 .. q
          BY <2>2, <2>6, <5>1
        <5> QED
          BY <2>6, <3>2, <5>1, <5>2, <5>3
      <4>3. i \in Int /\ (i <= p \/ i > p)
        BY <2>2
      <4> QED
        BY <4>1, <4>2, <4>3
    <3>4. ASSUME NEW i \in 1 .. q - b PROVE r[i] = a[(p + b) + i]
      <4>1. b + i \in 1 .. q /\ p + (b + i) = (p + b) + i
        BY <2>2, <2>6
      <4>2. r[i] = down[c][b + i]
        BY <2>6
      <4>3. down[c][b + i] = a[p + (b + i)]
        BY <3>2, <4>1
      <4> QED
        BY <4>1, <4>2, <4>3
    <3>5. cpc'[c] = "done" => Len(pcc_from_server'[c]) = SIZEOF
      BY <2>4, <2>7
    <3>6. cpc'[c] # "start"
      BY <1>1, <2>4, <2>7 DEF CGoto
    <3>7. (cpc'[c] = "start" \/ Unread(c)') => Arriving(c)' = 0
      BY <2>10, <3>1, <3>6 DEF AnswerOf
    <3>8. Arriving(c)' <= SIZEOF
      BY <2>10, <3>1 DEF AnswerOf
    <3>9. \A i \in 1 .. Len(pcc_from_server'[c]) : pcc_from_server'[c][i] = Answer(c)'[i]
      BY <2>8, <2>9, <3>1, <3>3
    <3>10. \A i \in 1 .. Len(down'[c]) : down'[c][i] = Answer(c)'[Len(pcc_from_server'[c]) + i]
      BY <2>8, <2>9, <3>1, <3>4
    <3> QED
      BY <3>5, <3>7, <3>8, <3>9, <3>10 DEF AnswerOf
  <2> QED
    BY <2>12, <2>13, <2>14 DEF Answers
<1> QED
  BY <1>7, <1>8, <1>9, <1>10, <1>11
     DEF Client, write_stream_size_to_server, write_file_to_socket, ClientError, Kill

-----------------------------------------------------------------------------
(***************************************************************************)
(* The totals.                                                             *)
(***************************************************************************)
\* Where character k occurs in the file of one client.
Own(c, k) == {<<c, i>> : i \in {j \in DOMAIN file[c].data :
                                  file[c].data[j] = k + MIN_PRINTABLE_CHAR}}

\* A file holds as many occurrences of a character as were counted.
LEMMA OwnCount ==
    ASSUME TypeInv, NEW c \in Clients, NEW k
    PROVE  /\ IsFiniteSet(Own(c, k))
           /\ Cardinality(Own(c, k)) = Count(file[c].data, Len(file[c].data), {k + MIN_PRINTABLE_CHAR})
<1>1. PICK data, n, b : data = file[c].data /\ n = Len(data) /\ b = k + MIN_PRINTABLE_CHAR
  OBVIOUS
<1>2. data \in Seq(Byte) /\ n \in 0 .. Len(data) /\ DOMAIN data = 1 .. n
  BY <1>1, FileType
<1> DEFINE T == {j \in 1 .. n : data[j] \in {b}}
           U == {<<c, i>> : i \in T}
           f == [i \in T |-> <<c, i>>]
<1>3. IsFiniteSet(T)
  BY <1>2, CountType
<1>4. f \in Bijection(T, U)
  <2>1. f \in [T -> U]
    OBVIOUS
  <2>2. \A x, y \in T : f[x] = f[y] => x = y
    OBVIOUS
  <2>3. \A u \in U : \E x \in T : f[x] = u
    OBVIOUS
  <2> QED
    BY <2>1, <2>2, <2>3 DEF Bijection, Injection, Surjection, IsInjective
<1>5. U = Own(c, k)
  BY <1>1, <1>2 DEF Own
<1>6. Cardinality(T) = Count(data, n, {b})
  BY DEF Count
<1> HIDE DEF T, U, f
<1>7. IsFiniteSet(U) /\ Cardinality(U) = Cardinality(T)
  BY <1>3, <1>4, FS_Bijection DEF ExistsBijection
<1> QED
  BY <1>1, <1>5, <1>6, <1>7

\* The occurrences in finitely many files are finitely many.
LEMMA OccurrencesFinite ==
    ASSUME TypeInv, NEW C, C \subseteq Clients, IsFiniteSet(C), NEW k
    PROVE  IsFiniteSet(Occurrences(C, k)) /\ Cardinality(Occurrences(C, k)) \in Nat
<1>1. Occurrences(C, k) = UNION {Own(c, k) : c \in C}
  BY DEF Occurrences, Own
<1> DEFINE f == [c \in C |-> Own(c, k)]
           Z == {Own(c, k) : c \in C}
<1>2. f \in Surjection(C, Z)
  <2>1. f \in [C -> Z] /\ \A z \in Z : \E c \in C : f[c] = z
    OBVIOUS
  <2> QED
    BY <2>1 DEF Surjection
<1> HIDE DEF f
<1>3. \A z \in Z : IsFiniteSet(z)
  BY OwnCount
<1> HIDE DEF Z
<1>4. IsFiniteSet(Z)
  BY <1>2, FS_Surjection
<1>5. IsFiniteSet(UNION Z)
  BY <1>3, <1>4, FS_UNION
<1> QED
  BY <1>1, <1>5, FS_CardinalityType DEF Z

\* One client more.
LEMMA OneMore ==
    ASSUME TypeInv, NEW C, C \subseteq Clients, IsFiniteSet(C), NEW c \in C, NEW k
    PROVE  Cardinality(Occurrences(C, k))
             = Cardinality(Occurrences(C \ {c}, k))
                 + Count(file[c].data, Len(file[c].data), {k + MIN_PRINTABLE_CHAR})
<1>1. PICK A, B : A = Occurrences(C \ {c}, k) /\ B = Own(c, k)
  OBVIOUS
<1>2. IsFiniteSet(C \ {c}) /\ C \ {c} \subseteq Clients /\ c \in Clients
  BY FS_Subset
<1>3. IsFiniteSet(A) /\ Cardinality(A) \in Nat
  BY <1>1, <1>2, OccurrencesFinite
<1>4. IsFiniteSet(B)
  BY <1>1, <1>2, OwnCount
<1>5. Occurrences(C, k) = A \cup B
  BY <1>1 DEF Occurrences, Own
<1>6. A \cap B = {}
  BY <1>1 DEF Occurrences, Own
<1>7. Cardinality(A \cup B) = Cardinality(A) + Cardinality(B) - Cardinality(A \cap B)
  BY <1>3, <1>4, FS_Union
<1>8. Cardinality(A \cap B) = 0
  BY <1>6, FS_EmptySet
<1>9. Cardinality(B) \in Nat
  BY <1>4, FS_CardinalityType
<1>10. Cardinality(A \cup B) = Cardinality(A) + Cardinality(B)
  BY <1>3, <1>7, <1>8, <1>9
<1>11. Cardinality(B) = Count(file[c].data, Len(file[c].data), {k + MIN_PRINTABLE_CHAR})
  BY <1>1, <1>2, OwnCount
<1> QED
  BY <1>1, <1>5, <1>10, <1>11

\* What is counted does not change when the clients to count and the totals do not.
LEMMA TotalsKept ==
    ASSUME Totals, UNCHANGED <<pcc_total, file>>,
           answered' \ {connection_fd'} = answered \ {connection_fd},
           status' # "running" => spc' = "ended", status' # "killed" => status # "killed"
    PROVE  Totals'
<1>1. \A k : Occurrences(answered \ {connection_fd}, k)' = Occurrences(answered \ {connection_fd}, k)
  BY DEF Occurrences
<1> QED
  BY <1>1 DEF Totals

\* The totals before and after every step.
LEMMA TotalsStep ==
    ASSUME TypeInv, SignalInv, Places, Requests, Totals, WholeFiles, [Next]_vars
    PROVE  Totals'
<1>0. UNCHANGED file
  <2>1. \A c \in Clients : Connect(c) \/ Client(c) \/ ClientError(c) \/ Kill(c) => UNCHANGED file
    BY ClientMoves DEF Connect
  <2> QED
    BY <2>1 DEF Next, vars, client_vars
<1>1. /\ NULL \notin answered /\ answered \subseteq Clients
      /\ spc # "update" => connection_fd \notin answered
  BY ServerAssumption DEF TypeInv, TypeOK, ServerTypeOK, Places
<1>2. ASSUME UNCHANGED <<pcc_total, connection_fd, answered, status>>, spc # "ended" \/ spc' = spc
      PROVE  Totals'
  <2>1. status' # "running" => spc' = "ended"
    BY <1>2 DEF Totals
  <2> QED
    BY <1>0, <1>2, <2>1, TotalsKept
<1>3. ASSUME connection_fd' \notin answered, UNCHANGED <<pcc_total, answered, status>>,
             spc \notin {"update", "ended"}
      PROVE  Totals'
  <2>1. status' # "running" => spc' = "ended"
    BY <1>3 DEF Totals
  <2> QED
    BY <1>0, <1>1, <1>3, <2>1, TotalsKept
<1>4. ASSUME NEW how, ServerEnd(how), UNCHANGED <<pcc_total, answered>>, spc # "ended",
             how = "killed" \/ spc # "update"
      PROVE  Totals'
  <2>1. spc' = "ended" /\ status' = how /\ connection_fd' = NULL /\ status = "running"
    BY <1>4 DEF ServerEnd, Totals
  <2>2. CASE how = "killed"
    BY <2>1, <2>2 DEF Totals
  <2>3. CASE spc # "update"
    BY <1>0, <1>1, <1>4, <2>1, <2>3, TotalsKept
  <2> QED
    BY <1>4, <2>2, <2>3
<1>5. ASSUME CloseClient, UNCHANGED <<pcc_total, answered>>, spc \in {"size", "stream", "send"}
      PROVE  Totals'
  BY <1>1, <1>3, <1>5 DEF CloseClient
<1>6. CASE UNCHANGED server_vars
  BY <1>2, <1>6 DEF server_vars, counts, history
<1>7. CASE Setup
  <2>1. UNCHANGED <<pcc_total, answered>> /\ spc = "setup"
    BY <1>7 DEF Setup, counts, history
  <2> QED
    BY <1>2, <1>4, <1>7, <2>1 DEF Setup
<1>8. CASE InstallHandler \/ WhileRunning \/ MarkProcessing \/ StreamRead \/ ClearProcessing
              \/ read_stream_from_client
  BY <1>2, <1>8 DEF InstallHandler, WhileRunning, MarkProcessing, StreamRead, ClearProcessing,
                    read_stream_from_client, counts, history
<1>9. CASE Accept
  <2>1. /\ connection_fd' = Head(backlog) /\ UNCHANGED <<pcc_total, answered, status>>
        /\ spc = "accept" /\ backlog # <<>> /\ backlog' = Tail(backlog)
    BY <1>9 DEF Accept, counts, history
  <2>2. Head(backlog) \in Queued
    BY <2>1, Accepted
  <2>3. Head(backlog) \notin answered
    BY <2>2 DEF Places
  <2> QED
    BY <1>3, <2>1, <2>3
<1>10. CASE read_stream_size_from_client
  <2>1. UNCHANGED <<pcc_total, connection_fd, answered, status>> /\ spc = "size"
    BY <1>10 DEF read_stream_size_from_client, history
  <2> QED
    BY <1>2, <2>1
<1>11. CASE ReadError
  <2>1. CloseClient /\ UNCHANGED <<pcc_total, answered>> /\ spc \in {"size", "stream"}
    BY <1>11 DEF ReadError, GiveUp, counts
  <2> QED
    BY <1>5, <2>1
<1>12. CASE send_printable_counter_to_client
  <2>1. /\ spc = "send" /\ UNCHANGED <<pcc_total, connection_fd, status>>
        /\ answered' \in {answered, answered \cup {connection_fd}}
    BY <1>12 DEF send_printable_counter_to_client, counts
  <2>2. answered' \ {connection_fd'} = answered \ {connection_fd}
    BY <2>1
  <2>3. status' # "running" => spc' = "ended"
    BY <2>1 DEF Totals
  <2> QED
    BY <1>0, <2>1, <2>2, <2>3, TotalsKept
<1>13. CASE WriteError
  <2>1. /\ UNCHANGED <<pcc_total, answered>> /\ spc = "send"
        /\ CloseClient \/ ServerEnd("killed")
    BY <1>13 DEF WriteError, GiveUp, counts, history
  <2> QED
    BY <1>4, <1>5, <2>1
<1>14. CASE update_pcc_total
  <2>1. /\ spc = "update" /\ connection_fd' = NULL /\ UNCHANGED <<answered, status>>
        /\ pcc_total' = [k \in Chars |-> uint32_t(pcc_total[k] + pcc_client[k])]
    BY <1>14 DEF update_pcc_total, history
  <2>2. PICK c : c = connection_fd /\ c \in answered /\ c \in Clients
    BY <1>1, <2>1 DEF Places
  <2>3. status = "running" /\ IsFiniteSet(answered)
    BY <2>1 DEF Totals, Places
  <2>4. ASSUME NEW k \in Chars
        PROVE  pcc_total'[k] = uint32_t(Cardinality(Occurrences(answered, k)))
    <3>1. PICK x, y : /\ x = Cardinality(Occurrences(answered \ {c}, k))
                      /\ y = Count(file[c].data, Len(file[c].data), {k + MIN_PRINTABLE_CHAR})
      OBVIOUS
    <3>2. IsFiniteSet(answered \ {c}) /\ answered \ {c} \subseteq Clients
      BY <1>1, <2>3, FS_Subset
    <3>3. x \in Nat
      BY <3>1, <3>2, OccurrencesFinite
    <3>4. y \in Nat
      <4>1. PICK data, n : data = file[c].data /\ n = Len(data)
        OBVIOUS
      <4>2. data \in Seq(Byte) /\ n \in 0 .. Len(data)
        BY <2>2, <4>1, FileType
      <4>3. Count(data, n, {k + MIN_PRINTABLE_CHAR}) \in 0 .. n
        BY <4>2, CountType
      <4> QED
        BY <3>1, <4>1, <4>2, <4>3
    <3>5. pcc_total[k] = uint32_t(x) /\ pcc_client[k] = y
      BY <2>1, <2>2, <2>3, <3>1 DEF Totals, Requests, CountedTo
    <3>6. pcc_total'[k] = uint32_t(uint32_t(x) + y)
      BY <2>1, <3>5
    <3>7. Cardinality(Occurrences(answered, k)) = x + y
      BY <1>1, <2>2, <2>3, <3>1, OneMore
    <3> QED
      BY <3>3, <3>4, <3>6, <3>7, Uint32
  <2>5. answered' \ {connection_fd'} = answered
    BY <1>1, <2>1
  <2>6. \A k : Occurrences(answered \ {connection_fd}, k)' = Occurrences(answered, k)
    BY <1>0, <2>5 DEF Occurrences
  <2> QED
    BY <2>1, <2>3, <2>4, <2>6 DEF Totals
<1>15. CASE PrintAndReturn \/ AcceptError
  BY <1>4, <1>15 DEF PrintAndReturn, AcceptError, counts, history
<1>16. CASE Sigint
  <2>1. UNCHANGED <<pcc_total, answered>> /\ spc # "ended"
    BY <1>16 DEF Sigint, counts
  <2>2. CASE disposition = "handler" /\ g_server_is_processing
    <3>1. HandlerProcessing
      BY <1>16, <2>2 DEF Sigint, sig_int_handler
    <3>2. \/ UNCHANGED <<spc, connection_fd, status>>
          \/ spc = "accept" /\ ServerEnd("failure")
          \/ spc \in {"size", "stream"} /\ CloseClient
      BY <3>1 DEF HandlerProcessing
    <3> QED
      BY <1>2, <1>4, <1>5, <2>1, <3>2
  <2>3. CASE disposition # "handler"
    BY <1>4, <1>16, <2>1, <2>3 DEF Sigint
  <2>4. CASE disposition = "handler" /\ ~g_server_is_processing
    <3>1. ServerEnd("success")
      BY <1>16, <2>4 DEF Sigint, sig_int_handler
    <3>2. spc # "update"
      BY <2>4 DEF SignalInv
    <3> QED
      BY <1>4, <2>1, <3>1, <3>2
  <2> QED
    BY <2>2, <2>3, <2>4
<1>17. CASE UNCHANGED vars
  BY <1>6, <1>17 DEF vars
<1> QED
  BY <1>6, <1>7, <1>8, <1>9, <1>10, <1>11, <1>12, <1>13, <1>14, <1>15, <1>16, <1>17 DEF Next, Server

-----------------------------------------------------------------------------
\* Everything that the two theorems rest on.
CountInv == Places /\ Buffered /\ Streams /\ Requests /\ Answers /\ Totals

\* Nothing has been sent at the start.
LEMMA CountInvInit == ASSUME WholeFiles, Init, TypeInv PROVE CountInv
<1>1. /\ backlog = <<>> /\ Len(<<>>) = 0 /\ connection_fd = NULL /\ spc = "setup"
      /\ answered = {} /\ status = "running" /\ pcc_total = Zero
      /\ \A c \in Clients : /\ cpc[c] = "start" /\ up[c] = <<>> /\ down[c] = <<>>
                            /\ file_read[c] = 0 /\ pcc_from_server[c] = <<>>
  BY DEF Init, ConnInit, ServerInit, ClientInit
<1>2. Queued = {}
  <2>1. \A i \in 1 .. Len(backlog) : FALSE
    BY <1>1
  <2> QED
    BY <2>1 DEF Queued
<1>3. \A c \in Clients : ~Unread(c)
  BY <1>1, <1>2 DEF Unread
<1>4. Places
  <2>1. IsFiniteSet(answered)
    BY <1>1, FS_EmptySet
  <2>2. \A i, j \in 1 .. Len(backlog) : backlog[i] = backlog[j] => i = j
    BY <1>1
  <2> QED
    BY <1>1, <1>2, <2>1, <2>2, ServerAssumption DEF Places, Serving
<1>5. Buffered
  BY <1>1 DEF Buffered, BufferOf
<1>6. Streams
  BY <1>1, <1>3 DEF Streams, StreamOf
<1>7. Requests
  BY <1>1 DEF Requests
<1>8. Answers
  <2>1. ASSUME NEW c \in Clients PROVE AnswerOf(c)
    <3>1. Len(down[c]) = 0 /\ Len(pcc_from_server[c]) = 0 /\ cpc[c] # "done"
      BY <1>1
    <3>2. Arriving(c) = 0 /\ 0 <= SIZEOF
      BY <3>1, EncodingAssumption DEF Arriving
    <3>3. \A i \in 1 .. 0 : FALSE
      OBVIOUS
    <3> QED
      BY <3>1, <3>2, <3>3 DEF AnswerOf
  <2> QED
    BY <1>1, <2>1 DEF Answers, Sending
<1>9. Totals
  <2>1. \A k : Occurrences(answered \ {connection_fd}, k) = {}
    BY <1>1 DEF Occurrences
  <2>2. Cardinality({}) = 0 /\ uint32_t(0) = 0
    <3>1. 0 \in Nat /\ 0 <= UINT_MAX
      BY UintMax
    <3> QED
      BY <3>1, FS_EmptySet, Uint32
  <2> QED
    BY <1>1, <2>1, <2>2 DEF Totals, Zero
<1> QED
  BY <1>4, <1>5, <1>6, <1>7, <1>8, <1>9 DEF CountInv

\* Every step keeps all of it, the clients taken one by one.
LEMMA CountInvStep ==
    ASSUME WholeFiles, TypeInv, SignalInv, CountInv, [Next]_vars
    PROVE  CountInv'
<1>0. Places /\ Buffered /\ Streams /\ Requests /\ Answers /\ Totals
  BY DEF CountInv
<1>1. Places' /\ Requests' /\ Totals'
  BY <1>0, PlacesStep, RequestStep, TotalsStep
<1>2. ASSUME UNCHANGED <<client_vars, server_vars, backlog, up, down, c_open>>
      PROVE  Buffered' /\ Streams' /\ Answers'
  <2>1. UNCHANGED <<cpc, file, buffer, file_read, pcc_from_server, connection_fd, spc, size_bytes,
                    total_bytes_read, unsent>>
    BY <1>2 DEF client_vars, server_vars, request
  <2>2. Queued' = Queued
    BY <1>2 DEF Queued
  <2>3. \A c \in Clients : /\ Unread(c)' = Unread(c) /\ Consumed(c)' = Consumed(c)
                           /\ Produced(c)' = Produced(c)
    BY <2>1, <2>2 DEF Unread, Consumed, Produced
  <2>4. Buffered'
    BY <1>0, <2>1 DEF Buffered, BufferOf
  <2>5. Streams'
    BY <1>0, <1>2, <2>1, <2>3 DEF Streams, StreamOf
  <2>6. Sending'
    BY <1>0, <1>2, <2>1 DEF Answers, Sending, Answer, Arriving
  <2>7. ASSUME NEW c \in Clients PROVE AnswerOf(c)'
    <3>1. AnswerOf(c)
      BY <1>0 DEF Answers
    <3> QED
      BY <1>2, <2>1, <2>3, <3>1, AnswerKept
  <2> QED
    BY <2>4, <2>5, <2>6, <2>7 DEF Answers
<1>3. CASE (Server \/ Sigint \/ AcceptError) /\ UNCHANGED client_vars
  <2>1. Buffered'
    BY <1>0, <1>3 DEF client_vars, Buffered, BufferOf
  <2>2. Streams'
    BY <1>0, <1>3, StreamServer DEF Streams
  <2>3. Answers'
    BY <1>0, <1>3, AnswerServer
  <2> QED
    BY <1>1, <2>1, <2>2, <2>3 DEF CountInv
<1>4. ASSUME NEW c \in Clients, Connect(c) \/ Client(c) \/ ClientError(c) \/ Kill(c),
             UNCHANGED server_vars
      PROVE  CountInv'
  <2>1. Buffered'
    BY <1>0, <1>4, BufferStep DEF Buffered
  <2>2. Streams'
    BY <1>0, <1>4, StreamClient DEF Streams
  <2>3. Answers'
    BY <1>0, <1>4, AnswerClient
  <2> QED
    BY <1>1, <2>1, <2>2, <2>3 DEF CountInv
<1>5. ASSUME NEW c \in Clients, Reset(c), UNCHANGED <<client_vars, server_vars>> PROVE CountInv'
  BY <1>1, <1>2, <1>5 DEF Reset, CountInv
<1>6. CASE UNCHANGED vars
  BY <1>1, <1>2, <1>6 DEF vars, conn_vars, CountInv
<1> QED
  BY <1>3, <1>4, <1>5, <1>6 DEF Next

\* It holds throughout.
LEMMA CountInvAlways == ASSUME WholeFiles PROVE Spec => []CountInv
<1>1. Init /\ TypeInv => CountInv
  BY CountInvInit
<1>2. TypeInv /\ SignalInv /\ CountInv /\ [Next]_vars => CountInv'
  BY CountInvStep
<1> QED
  BY <1>1, <1>2, TypeInvAlways, SignalInvAlways, PTL DEF Spec

\* Whatever is cut, reset, killed or interrupted, pcc_total counts exactly the files of the
\* clients that were sent their whole answer, modulo the width of its counters, when the
\* files have the length that stat reported: the server counts no byte after that length.
THEOREM TotalsAreExact == ASSUME WholeFiles PROVE Spec => []TotalsExact
<1>1. TypeInv /\ CountInv => TotalsExact
  <2> SUFFICES ASSUME TypeInv, CountInv, spc # "update", status # "killed", NEW k \in Chars
               PROVE  pcc_total[k] = uint32_t(Cardinality(Occurrences(answered, k)))
    BY DEF TotalsExact
  <2>1. answered \ {connection_fd} = answered
    BY DEF CountInv, Places
  <2>2. pcc_total[k] = uint32_t(Cardinality(Occurrences(answered \ {connection_fd}, k)))
    BY DEF CountInv, Totals
  <2> QED
    BY <2>1, <2>2
<1> QED
  BY <1>1, TypeInvAlways, CountInvAlways, PTL

\* A client that prints a number prints how many printable bytes its file has, when the file
\* has the length that stat reported, however its bytes and the answer are cut into reads and
\* writes, and whatever other clients, SIGINT and the network do.
THEOREM AnswersAreExact == ASSUME WholeFiles PROVE Spec => []AnswerExact
<1>1. TypeInv /\ CountInv => AnswerExact
  <2> SUFFICES ASSUME TypeInv, CountInv, NEW c \in Clients, cpc[c] = "done"
               PROVE  ntohl(pcc_from_server[c]) =
                        Cardinality({i \in DOMAIN file[c].data :
                                       file[c].data[i] \in MIN_PRINTABLE_CHAR .. MAX_PRINTABLE_CHAR})
    BY DEF AnswerExact
  <2>1. PICK n : n = Count(file[c].data, Len(file[c].data), Printable)
    OBVIOUS
  <2>2. n \in 0 .. UINT_MAX /\ Answer(c) = htonl(n)
    BY <2>1, AnswerWord DEF Answer
  <2>3. AnswerOf(c) /\ pcc_from_server[c] \in Seq(Byte)
    BY DEF CountInv, Answers, TypeInv, TypeOK, ClientTypeOK, Byte
  <2>4. /\ Len(pcc_from_server[c]) = SIZEOF
        /\ \A i \in 1 .. SIZEOF : pcc_from_server[c][i] = Answer(c)[i]
    BY <2>3 DEF AnswerOf
  <2>5. pcc_from_server[c] \in Word /\ Answer(c) \in Word
    BY <2>3, <2>4, AnswerWord, WordSeq
  <2>6. pcc_from_server[c] = htonl(n)
    BY <2>2, <2>4, <2>5, SameWord
  <2>7. ntohl(pcc_from_server[c]) = n
    BY <2>2, <2>6, RoundTrip
  <2>8. DOMAIN file[c].data = 1 .. Len(file[c].data)
    BY FileType
  <2> QED
    BY <2>1, <2>7, <2>8 DEF Count, Printable
<1> QED
  BY <1>1, TypeInvAlways, CountInvAlways, PTL
=============================================================================
