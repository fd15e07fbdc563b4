--------------------------- MODULE MqttFramesProofs ---------------------------
(***************************************************************************)
(* One connection through the gateway, for any clients, any Base and any   *)
(* way of cutting bytes into messages and chunks.                          *)
(*                                                                         *)
(* First the codec: the reader of variable integers inverts the encoder,   *)
(* a length that is known from the first bytes stays what it is when more  *)
(* arrive, and parseConnectCredentials reads from CONNECT what the client  *)
(* encoded.  Recursive definitions are reasoned about with sets of natural *)
(* numbers (Induction) and functions built step by step (Recursion).       *)
(*                                                                         *)
(* Then the connection: no byte is lost but those that came with the end   *)
(* of CONNECT, CONNECT is understood, both pumps cut where frames end, a   *)
(* user's frame reaches the broker only for a device the user has owned,   *)
(* and a lively client is not taken for dead.                              *)
(***************************************************************************)
EXTENDS MqttFrames, SequenceTheorems, WellFoundedInduction, TLAPS

-----------------------------------------------------------------------------
(* Cutting a sequence of bytes and putting it together again.              *)

LEMMA Cut ==
    ASSUME NEW s \in Seq(Byte), NEW n \in 0 .. Len(s)
    PROVE  /\ FirstOf(s, n) \in Seq(Byte)
           /\ RestOf(s, n) \in Seq(Byte)
           /\ FirstOf(s, n) \o RestOf(s, n) = s
           /\ Len(FirstOf(s, n)) = n
<1>1. Len(s) \in Nat /\ \A i \in 1 .. Len(s) : s[i] \in Byte
  BY LenProperties, ElementOfSeq
<1>2. FirstOf(s, n) \in Seq(Byte) /\ Len(FirstOf(s, n)) = n
  BY <1>1, SubSeqProperties DEF FirstOf
<1>3. RestOf(s, n) \in Seq(Byte)
  BY <1>1, SubSeqProperties DEF RestOf
<1>4. FirstOf(s, n) \o RestOf(s, n) = SubSeq(s, 1, Len(s))
  <2>1. 1 \in 1 .. Len(s) + 1 /\ n \in 1 - 1 .. Len(s) /\ Len(s) \in n .. Len(s)
    BY <1>1
  <2>2. SubSeq(s, 1, n) \o SubSeq(s, n + 1, Len(s)) = SubSeq(s, 1, Len(s))
    BY <2>1, ConcatAdjacentSubSeq, Zenon
  <2> QED
    BY <2>2 DEF FirstOf, RestOf
<1>5. SubSeq(s, 1, Len(s)) = s
  BY SubSeqFull
<1> QED
  BY <1>2, <1>3, <1>4, <1>5, Zenon

LEMMA Joined ==
    ASSUME NEW s \in Seq(Byte), NEW t \in Seq(Byte)
    PROVE  s \o t \in Seq(Byte)
BY ConcatProperties

LEMMA Empty ==
    /\ <<>> \in Seq(Byte)
    /\ \A s \in Seq(Byte) : s \o <<>> = s /\ <<>> \o s = s
BY EmptySeq, ConcatEmptySeq

LEMMA Regrouped ==
    ASSUME NEW s \in Seq(Byte), NEW t \in Seq(Byte), NEW u \in Seq(Byte)
    PROVE  (s \o t) \o u = s \o (t \o u)
BY ConcatAssociative

\* The same as a relation of three sequences, for the places where the equation itself would send
\* a prover round in circles.
Regroups(s, t, u) == (s \o t) \o u = s \o (t \o u)

LEMMA RegroupsAll ==
    ASSUME NEW s \in Seq(Byte), NEW t \in Seq(Byte), NEW u \in Seq(Byte)
    PROVE  Regroups(s, t, u)
BY Regrouped DEF Regroups

\* Taking the head of what follows s and putting it after s changes nothing.
LEMMA Moved ==
    ASSUME NEW s \in Seq(Byte), NEW t \in Seq(Byte), NEW n \in 0 .. Len(t)
    PROVE  (s \o FirstOf(t, n)) \o RestOf(t, n) = s \o t
<1>1. /\ FirstOf(t, n) \in Seq(Byte) /\ RestOf(t, n) \in Seq(Byte)
      /\ FirstOf(t, n) \o RestOf(t, n) = t
  BY Cut
<1>2. (s \o FirstOf(t, n)) \o RestOf(t, n) = s \o (FirstOf(t, n) \o RestOf(t, n))
  BY <1>1, Regrouped
<1> QED
  BY <1>1, <1>2, Zenon

LEMMA FrameKept ==
    ASSUME NEW s \in Seq(Byte), NEW t \in Seq(Byte), NEW m \in Nat, NEW n \in Nat,
           m >= 1, n <= Len(s)
    PROVE  SubSeq(s \o t, m, n) = SubSeq(s, m, n)
OBVIOUS

LEMMA FrameAdded ==
    ASSUME NEW s \in Seq(Byte), NEW t \in Seq(Byte)
    PROVE  SubSeq(s \o t, Len(s) + 1, Len(s \o t)) = t
OBVIOUS

-----------------------------------------------------------------------------
(* Induction and recursion, stated with sets and functions.                *)

\* A nonempty set of natural numbers has a smallest one, which Min finds.
LEMMA Smallest ==
    ASSUME NEW T, T \subseteq Nat, T # {}
    PROVE  Min(T) \in T /\ \A n \in T : Min(T) <= n
<1> DEFINE Less == {p \in Nat \X Nat : p[1] < p[2]}
<1>1. IsWellFoundedOn(Less, Nat)
  BY NatLessThanWellFounded DEF OpToRel
<1> HIDE DEF Less
<1>2. PICK m \in T : \A n \in T : <<n, m>> \notin Less
  BY <1>1, WFMin
<1>3. \A n \in T : m <= n
  <2> SUFFICES ASSUME NEW n \in T, n < m PROVE FALSE
    OBVIOUS
  <2>1. <<n, m>> \in Less
    BY DEF Less
  <2> QED
    BY <1>2, <2>1
<1> QED
  BY <1>3 DEF Min

LEMMA Induction ==
    ASSUME NEW S, 0 \in S, \A n \in Nat : n \in S => n + 1 \in S
    PROVE  Nat \subseteq S
<1> DEFINE T == Nat \ S
<1>1. ASSUME T # {} PROVE FALSE
  <2>1. Min(T) \in T /\ \A n \in T : Min(T) <= n
    BY <1>1, Smallest
  <2>2. Min(T) # 0 /\ Min(T) \in Nat
    BY <2>1
  <2>3. Min(T) - 1 \in Nat /\ Min(T) - 1 \notin T
    BY <2>1, <2>2
  <2> QED
    BY <2>1, <2>3
<1> QED
  BY <1>1

\* f begins with c, and G says how it goes on.
Follows(f, c, m, G) == f[0] = c /\ \A i \in 1 .. m : f[i] = G[i][f[i - 1]]

StaysIn(T, m, G) == \A i \in 1 .. m : \A x \in T : G[i][x] \in T

\* A function defined step by step exists.
LEMMA Recursion ==
    ASSUME NEW T, NEW c \in T, NEW m \in Nat, NEW G, StaysIn(T, m, G)
    PROVE  \E f \in [0 .. m -> T] : Follows(f, c, m, G)
<1> DEFINE S == {n \in Nat : n <= m => \E f \in [0 .. n -> T] : Follows(f, c, n, G)}
<1>1. 0 \in S
  <2> DEFINE f == [i \in 0 .. 0 |-> c]
  <2>1. f \in [0 .. 0 -> T] /\ Follows(f, c, 0, G)
    BY DEF Follows
  <2> HIDE DEF f
  <2> QED
    BY <2>1
<1>2. ASSUME NEW n \in Nat, n \in S PROVE n + 1 \in S
  <2> SUFFICES ASSUME n + 1 <= m
               PROVE  \E f \in [0 .. n + 1 -> T] : Follows(f, c, n + 1, G)
    OBVIOUS
  <2>1. PICK f \in [0 .. n -> T] : Follows(f, c, n, G)
    BY <1>2
  <2> DEFINE g == [i \in 0 .. n + 1 |-> IF i = n + 1 THEN G[i][f[n]] ELSE f[i]]
  <2>2. g \in [0 .. n + 1 -> T]
    BY <2>1 DEF StaysIn
  <2>3. g[0] = c /\ \A i \in 1 .. n + 1 : g[i] = G[i][g[i - 1]]
    BY <2>1 DEF Follows
  <2> QED
    BY <2>2, <2>3 DEF Follows
<1>3. Nat \subseteq S
  <2> HIDE DEF S
  <2> QED
    BY <1>1, <1>2, Induction
<1> QED
  BY <1>3

-----------------------------------------------------------------------------
(* The variable integers of the protocol.                                  *)

\* What value is in Number.
LEMMA NumberValue ==
    ASSUME NEW s \in Seq(Byte)
    PROVE  \E v \in [0 .. Len(s) -> Nat] :
               /\ v[0] = 0
               /\ \A i \in 1 .. Len(s) : v[i] = (s[Len(s) + 1 - i] % Base) + Base * v[i - 1]
               /\ Number(s) = v[Len(s)]
<1> DEFINE n == Len(s)
           G == [i \in 1 .. n |-> [x \in Nat |-> (s[n + 1 - i] % Base) + Base * x]]
           value == CHOOSE g : g = [i \in 0 .. n |->
                        IF i = 0 THEN 0 ELSE (s[n + 1 - i] % Base) + Base * g[i - 1]]
<1>1. n \in Nat /\ \A i \in 1 .. n : s[n + 1 - i] % Base \in Nat
  <2>1. n \in Nat
    OBVIOUS
  <2>2. ASSUME NEW i \in 1 .. n PROVE s[n + 1 - i] % Base \in Nat
    <3>1. s[n + 1 - i] \in Nat
      BY <2>1, CodecAssumptions DEF Byte
    <3> QED
      BY <3>1, CodecAssumptions
  <2> QED
    BY <2>1, <2>2
<1>2. \A i \in 1 .. n : \A x \in Nat : G[i][x] \in Nat
  <2> SUFFICES ASSUME NEW i \in 1 .. n, NEW x \in Nat PROVE G[i][x] \in Nat
    OBVIOUS
  <2>1. G[i][x] = (s[n + 1 - i] % Base) + Base * x
    OBVIOUS
  <2>2. Base * x \in Nat
    BY CodecAssumptions
  <2> QED
    BY <1>1, <2>1, <2>2
<1> HIDE DEF n
<1>3. \E f \in [0 .. n -> Nat] : Follows(f, 0, n, G)
  <2> HIDE DEF G
  <2>1. 0 \in Nat /\ n \in Nat /\ StaysIn(Nat, n, G)
    BY <1>1, <1>2 DEF StaysIn
  <2> QED
    BY <2>1, Recursion
<1>4. \E v : v = [i \in 0 .. n |-> IF i = 0 THEN 0 ELSE (s[n + 1 - i] % Base) + Base * v[i - 1]]
  <2>1. PICK v \in [0 .. n -> Nat] : v[0] = 0 /\ \A i \in 1 .. n : v[i] = G[i][v[i - 1]]
    BY <1>3 DEF Follows
  <2>2. ASSUME NEW i \in 1 .. n PROVE v[i] = (s[n + 1 - i] % Base) + Base * v[i - 1]
    <3>1. v[i - 1] \in Nat
      BY <1>1, <2>1
    <3> QED
      BY <2>1, <3>1
  <2> HIDE DEF G
  <2>3. \A i \in 0 .. n : v[i] = IF i = 0 THEN 0 ELSE (s[n + 1 - i] % Base) + Base * v[i - 1]
    BY <1>1, <2>1, <2>2
  <2>4. v = [i \in 0 .. n |-> IF i = 0 THEN 0 ELSE (s[n + 1 - i] % Base) + Base * v[i - 1]]
    BY <2>1, <2>3
  <2> QED
    BY <2>4
<1> HIDE DEF G
<1>5. value = [i \in 0 .. n |-> IF i = 0 THEN 0 ELSE (s[n + 1 - i] % Base) + Base * value[i - 1]]
  BY <1>4
<1> HIDE DEF value
<1>6. /\ value[0] = 0
      /\ \A i \in 1 .. n : value[i] = (s[n + 1 - i] % Base) + Base * value[i - 1]
  <2>1. \A i \in 0 .. n : value[i] = IF i = 0 THEN 0 ELSE (s[n + 1 - i] % Base) + Base * value[i - 1]
    BY <1>5
  <2> QED
    BY <1>1, <2>1
<1>7. value \in [0 .. n -> Nat]
  <2> DEFINE S == {k \in Nat : k <= n => value[k] \in Nat}
  <2>1. 0 \in S
    BY <1>6
  <2>2. ASSUME NEW k \in Nat, k \in S PROVE k + 1 \in S
    <3> SUFFICES ASSUME k + 1 <= n PROVE value[k + 1] \in Nat
      OBVIOUS
    <3>1. value[k + 1] = (s[n + 1 - (k + 1)] % Base) + Base * value[k]
      BY <1>1, <1>6
    <3>2. value[k] \in Nat /\ Base * value[k] \in Nat
      BY <1>1, <2>2, CodecAssumptions
    <3>3. s[n + 1 - (k + 1)] % Base \in Nat
      <4>1. k + 1 \in 1 .. n
        BY <1>1
      <4> QED
        BY <1>1, <4>1
    <3> QED
      BY <3>1, <3>2, <3>3
  <2>3. Nat \subseteq S
    <3> HIDE DEF S
    <3> QED
      BY <2>1, <2>2, Induction
  <2>4. \A k \in 0 .. n : value[k] \in Nat
    BY <1>1, <2>3
  <2> QED
    BY <1>5, <2>4
<1>8. Number(s) = value[n]
  BY DEF Number, value, n
<1> QED
  BY <1>6, <1>7, <1>8 DEF n

LEMMA NumberTyped == ASSUME NEW s \in Seq(Byte) PROVE Number(s) \in Nat
BY NumberValue

\* Where an integer that begins at start may end.
Ends(whole, start) == {i \in start .. start + MaxDigits - 1 : i \in 1 .. Len(whole) /\ whole[i] < Base}

LEMMA VarintCases ==
    ASSUME NEW s \in Seq(Byte), NEW start \in Nat
    PROVE  IF start = Nowhere \/ Ends(s, start) = {} THEN Varint(s, start) = Outside
           ELSE Varint(s, start) = [ok |-> TRUE, value |-> Number(SubSeq(s, start, Min(Ends(s, start)))),
                                    next |-> Min(Ends(s, start)) + 1]
BY DEF Varint, Ends

\* An integer that is read to its end lies inside the bytes ...
LEMMA VarintInside ==
    ASSUME NEW s \in Seq(Byte), NEW start \in Nat, Varint(s, start).ok
    PROVE  /\ start \in 1 .. Len(s) /\ Varint(s, start).next \in start + 1 .. Len(s) + 1
           /\ Varint(s, start).value \in Nat
<1>1. start # Nowhere /\ Ends(s, start) # {}
  BY VarintCases DEF Outside
<1> DEFINE e == Min(Ends(s, start))
<1>2. Varint(s, start).next = e + 1 /\ Varint(s, start).value = Number(SubSeq(s, start, e))
  BY <1>1, VarintCases
<1>3. e \in Ends(s, start)
  <2>1. Ends(s, start) \subseteq Nat
    BY CodecAssumptions DEF Ends
  <2> QED
    BY <1>1, <2>1, Smallest
<1> HIDE DEF e
<1>4. e \in start .. start + MaxDigits - 1 /\ e \in 1 .. Len(s)
  BY <1>3 DEF Ends
<1>5. start \in 1 .. Len(s) /\ e \in Nat /\ start <= e
  BY <1>1, <1>4, CodecAssumptions DEF Nowhere
<1>6. SubSeq(s, start, e) \in Seq(Byte)
  BY <1>4, <1>5
<1>7. Varint(s, start).value \in Nat
  BY <1>2, <1>6, NumberTyped
<1> QED
  BY <1>2, <1>4, <1>5, <1>7

\* ... and does not depend on what comes after them.
LEMMA VarintPrefix ==
    ASSUME NEW s \in Seq(Byte), NEW t \in Seq(Byte), NEW start \in Nat, Varint(s, start).ok
    PROVE  Varint(s \o t, start) = Varint(s, start)
<1> DEFINE A == Ends(s, start)
           B == Ends(s \o t, start)
<1>1. start # Nowhere /\ A # {}
  BY VarintCases DEF Outside
<1>2. s \o t \in Seq(Byte) /\ Len(s) \in Nat /\ \A i \in 1 .. Len(s) : (s \o t)[i] = s[i]
  BY Joined, ConcatProperties
<1>3. A \subseteq Nat /\ B \subseteq Nat
  BY CodecAssumptions DEF Ends
<1>4. A \subseteq B /\ \A i \in B : i <= Len(s) => i \in A
  BY <1>2, ConcatProperties DEF Ends
<1>5. A \subseteq 1 .. Len(s)
  BY DEF Ends
<1> HIDE DEF A, B
<1>6. /\ Min(A) \in A /\ \A i \in A : Min(A) <= i
      /\ Min(B) \in B /\ \A i \in B : Min(B) <= i
  BY <1>1, <1>3, <1>4, Smallest
<1>7. Min(A) = Min(B)
  <2>1. Min(A) \in 1 .. Len(s) /\ Min(A) \in B /\ Min(B) \in Nat
    BY <1>3, <1>4, <1>5, <1>6
  <2>2. Min(B) <= Min(A)
    BY <1>6, <2>1
  <2>3. Min(B) \in A
    BY <1>2, <1>4, <1>6, <2>1, <2>2
  <2> QED
    BY <1>6, <2>1, <2>2, <2>3
<1>8. SubSeq(s \o t, start, Min(A)) = SubSeq(s, start, Min(A))
  <2>1. Min(A) \in 1 .. Len(s)
    BY <1>5, <1>6
  <2>2. start >= 1
    BY <1>1 DEF Nowhere
  <2> QED
    BY <2>1, <2>2, FrameKept
<1> QED
  BY <1>1, <1>2, <1>4, <1>7, <1>8, VarintCases DEF A, B

\* So the length of a packet is known once its first bytes are.
LEMMA LengthPrefix ==
    ASSUME NEW s \in Seq(Byte), NEW t \in Seq(Byte)
    PROVE  /\ TotalLength(s) # 0 => TotalLength(s \o t) = TotalLength(s)
           /\ ReaderLength(s) # 0 => ReaderLength(s \o t) = ReaderLength(s)
           /\ TotalLength(s) \in Nat /\ ReaderLength(s) \in Nat
<1>1. Varint(s, 2).ok => /\ Varint(s \o t, 2) = Varint(s, 2)
                         /\ Varint(s, 2).next \in Nat /\ Varint(s, 2).next >= 3 /\ Varint(s, 2).value \in Nat
  BY VarintPrefix, VarintInside
<1>2. /\ Len(s) \in Nat /\ Len(s \o t) \in Nat
      /\ Len(s) >= 2 => Len(s \o t) >= 2 /\ (s \o t)[1] = s[1]
  <2>1. Len(s \o t) = Len(s) + Len(t) /\ Len(s) \in Nat /\ Len(t) \in Nat
    BY ConcatProperties
  <2> QED
    BY <2>1, ConcatProperties
<1>3. CASE Varint(s, 2).ok
  <2> DEFINE n == Varint(s, 2).next - 1 + Varint(s, 2).value
  <2>1. n \in Nat /\ ReaderLength(s) = n /\ ReaderLength(s \o t) = n
    BY <1>1, <1>3 DEF ReaderLength
  <2>2. TotalLength(s) = IF Len(s) < 2 \/ s[1] = 0 THEN 0 ELSE n
    BY <1>3 DEF TotalLength
  <2>3. TotalLength(s \o t) = IF Len(s \o t) < 2 \/ (s \o t)[1] = 0 THEN 0 ELSE n
    BY <1>1, <1>3 DEF TotalLength
  <2> HIDE DEF n
  <2> QED
    BY <1>2, <2>1, <2>2, <2>3
<1>4. CASE ~Varint(s, 2).ok
  BY <1>4 DEF TotalLength, ReaderLength
<1> QED
  BY <1>3, <1>4

LEMMA DivMod ==
    ASSUME NEW x \in Nat
    PROVE  /\ x \div Base \in Nat /\ x % Base \in 0 .. Base - 1
           /\ x = Base * (x \div Base) + (x % Base)
           /\ x < Base => x \div Base = 0
BY CodecAssumptions

LEMMA RestValue ==
    ASSUME NEW n \in Nat
    PROVE  /\ Rest(n) \in [0 .. MaxDigits -> Nat]
           /\ Rest(n)[0] = n
           /\ \A i \in 1 .. MaxDigits : Rest(n)[i] = Rest(n)[i - 1] \div Base
<1> DEFINE m == MaxDigits
           G == [i \in 1 .. m |-> [x \in Nat |-> x \div Base]]
<1>1. m \in Nat /\ n \in Nat /\ StaysIn(Nat, m, G)
  BY CodecAssumptions, DivMod DEF StaysIn
<1>2. \E f \in [0 .. m -> Nat] : Follows(f, n, m, G)
  <2> HIDE DEF G, m
  <2> QED
    BY <1>1, Recursion
<1>3. \E v : v = [i \in 0 .. m |-> IF i = 0 THEN n ELSE v[i - 1] \div Base]
  <2>1. PICK v \in [0 .. m -> Nat] : v[0] = n /\ \A i \in 1 .. m : v[i] = G[i][v[i - 1]]
    BY <1>2 DEF Follows
  <2>2. ASSUME NEW i \in 1 .. m PROVE v[i] = v[i - 1] \div Base
    <3>1. v[i - 1] \in Nat
      BY <1>1, <2>1
    <3> QED
      BY <2>1, <3>1
  <2>3. \A i \in 0 .. m : v[i] = IF i = 0 THEN n ELSE v[i - 1] \div Base
    <3> HIDE DEF G
    <3> QED
      BY <1>1, <2>1, <2>2
  <2>4. v = [i \in 0 .. m |-> IF i = 0 THEN n ELSE v[i - 1] \div Base]
    BY <2>1, <2>3
  <2> QED
    BY <2>4
<1>4. Rest(n) = [i \in 0 .. m |-> IF i = 0 THEN n ELSE Rest(n)[i - 1] \div Base]
  BY <1>3 DEF Rest
<1> DEFINE r == Rest(n)
<1> HIDE DEF r
<1>5. r[0] = n /\ \A i \in 1 .. m : r[i] = r[i - 1] \div Base
  <2>1. \A i \in 0 .. m : r[i] = IF i = 0 THEN n ELSE r[i - 1] \div Base
    BY <1>4 DEF r
  <2> QED
    BY <1>1, <2>1
<1>6. \A i \in 0 .. m : r[i] \in Nat
  <2> DEFINE S == {k \in Nat : k <= m => r[k] \in Nat}
  <2>1. 0 \in S
    BY <1>5
  <2>2. \A k \in Nat : k \in S => k + 1 \in S
    <3> SUFFICES ASSUME NEW k \in Nat, k \in S, k + 1 <= m PROVE r[k + 1] \in Nat
      OBVIOUS
    <3>1. r[k + 1] = r[k] \div Base /\ r[k] \in Nat
      BY <1>1, <1>5
    <3> QED
      BY <3>1, DivMod
  <2>3. Nat \subseteq S
    <3> HIDE DEF S
    <3> QED
      BY <2>1, <2>2, Induction
  <2> QED
    BY <2>3
<1>7. r \in [0 .. m -> Nat]
  BY <1>4, <1>6 DEF r
<1> QED
  BY <1>5, <1>7 DEF r

\* The digits of n, each but the last with the continuation bit.
LEMMA EncodedDigits ==
    ASSUME NEW n \in Nat, Encodable(n)
    PROVE  \E d \in 1 .. MaxDigits :
               /\ Rest(n)[d - 1] < Base
               /\ EncodeVarint(n) \in Seq(Byte) /\ Len(EncodeVarint(n)) = d
               /\ \A i \in 1 .. d : EncodeVarint(n)[i] % Base = Rest(n)[i - 1] % Base
               /\ \A i \in 1 .. d : EncodeVarint(n)[i] < Base <=> i = d
<1> DEFINE K == {k \in 1 .. MaxDigits : Rest(n)[k - 1] < Base}
           d == Min(K)
           e == EncodeVarint(n)
           r == Rest(n)
<1>1. d \in K
  <2>1. K \subseteq Nat
    BY CodecAssumptions
  <2>2. K # {}
    BY DEF Encodable
  <2> HIDE DEF K
  <2> QED
    BY <2>1, <2>2, Smallest
<1>2. e = [i \in 1 .. d |-> (r[i - 1] % Base) + (IF i < d THEN Base ELSE 0)]
  BY DEF EncodeVarint
<1> HIDE DEF d, e, r
<1>3. d \in 1 .. MaxDigits /\ d \in Nat /\ r[d - 1] < Base
  BY <1>1 DEF r
<1>4. \A i \in 1 .. d : r[i - 1] % Base \in 0 .. Base - 1
  <2>1. ASSUME NEW i \in 1 .. d PROVE r[i - 1] \in Nat
    <3>1. i - 1 \in 0 .. MaxDigits
      BY <1>3, CodecAssumptions
    <3>2. r \in [0 .. MaxDigits -> Nat]
      BY RestValue DEF r
    <3> QED
      BY <3>1, <3>2
  <2> QED
    BY <2>1, DivMod
<1>5. ASSUME NEW i \in 1 .. d
      PROVE e[i] \in Byte /\ e[i] % Base = r[i - 1] % Base /\ (e[i] < Base <=> i = d)
  <2> DEFINE x == r[i - 1] % Base
  <2>1. e[i] = x + (IF i < d THEN Base ELSE 0) /\ x \in 0 .. Base - 1
    BY <1>2, <1>4
  <2> HIDE DEF x
  <2>2. x % Base = x /\ (x + Base) % Base = x
    BY <2>1, CodecAssumptions
  <2>3. e[i] \in Byte /\ e[i] % Base = x /\ (e[i] < Base <=> i = d)
    BY <1>3, <2>1, <2>2, CodecAssumptions DEF Byte
  <2> QED
    BY <2>3 DEF x
<1>6. e \in Seq(Byte) /\ Len(e) = d
  BY <1>2, <1>3, <1>5
<1> QED
  BY <1>3, <1>5, <1>6 DEF e, r

\* Its digits are all of n.
LEMMA NumberEncoded ==
    ASSUME NEW n \in Nat, Encodable(n)
    PROVE  Number(EncodeVarint(n)) = n
<1> DEFINE e == EncodeVarint(n)
           r == Rest(n)
<1>1. PICK d \in 1 .. MaxDigits :
          /\ r[d - 1] < Base
          /\ e \in Seq(Byte) /\ Len(e) = d
          /\ \A i \in 1 .. d : e[i] % Base = r[i - 1] % Base
  BY EncodedDigits
<1>2. r \in [0 .. MaxDigits -> Nat] /\ r[0] = n /\ \A i \in 1 .. MaxDigits : r[i] = r[i - 1] \div Base
  BY RestValue
<1>3. d \in Nat /\ 1 <= d /\ d <= MaxDigits /\ MaxDigits \in Nat
  BY CodecAssumptions
<1>4. PICK v \in [0 .. d -> Nat] :
          /\ v[0] = 0
          /\ \A i \in 1 .. d : v[i] = (e[d + 1 - i] % Base) + Base * v[i - 1]
          /\ Number(e) = v[d]
  BY <1>1, NumberValue
<1> HIDE DEF e, r
<1> DEFINE S == {k \in Nat : k <= d => v[k] = r[d - k]}
<1>5. 0 \in S
  <2>1. r[d - 1] \in Nat /\ r[d] = r[d - 1] \div Base
    BY <1>2, <1>3
  <2>2. r[d] = 0
    BY <1>1, <2>1, DivMod
  <2> QED
    BY <1>3, <1>4, <2>2
<1>6. \A k \in Nat : k \in S => k + 1 \in S
  <2> SUFFICES ASSUME NEW k \in Nat, v[k] = r[d - k], k + 1 <= d PROVE v[k + 1] = r[d - (k + 1)]
    BY <1>3
  <2> DEFINE x == r[d - (k + 1)]
  <2>1. x \in Nat /\ r[d - k] = x \div Base
    <3>1. d - k \in 1 .. MaxDigits /\ d - (k + 1) = (d - k) - 1 /\ d - (k + 1) \in 0 .. MaxDigits
      BY <1>3
    <3> QED
      BY <1>2, <3>1
  <2>2. v[k + 1] = (e[d + 1 - (k + 1)] % Base) + Base * v[k]
    <3>1. k + 1 \in 1 .. d /\ (k + 1) - 1 = k
      BY <1>3
    <3> QED
      BY <1>4, <3>1
  <2>3. e[d + 1 - (k + 1)] % Base = x % Base
    <3>1. d + 1 - (k + 1) \in 1 .. d /\ (d + 1 - (k + 1)) - 1 = d - (k + 1)
      BY <1>3
    <3> QED
      BY <1>1, <3>1
  <2> HIDE DEF x
  <2>4. v[k + 1] = x
    <3>1. x = Base * (x \div Base) + (x % Base) /\ x \div Base \in Nat /\ x % Base \in 0 .. Base - 1
      BY <2>1, DivMod
    <3>2. v[k + 1] = (x % Base) + Base * (x \div Base)
      BY <2>1, <2>2, <2>3
    <3>3. Base * (x \div Base) \in Nat
      <4>1. \A y \in Nat : Base * y \in Nat
        BY CodecAssumptions
      <4> QED
        BY <3>1, <4>1
    <3> QED
      BY <3>1, <3>2, <3>3
  <2> QED
    BY <2>4 DEF x
<1>7. Nat \subseteq S
  <2> HIDE DEF S
  <2> QED
    BY <1>5, <1>6, Induction
<1>8. v[d] = r[0]
  BY <1>3, <1>7
<1> QED
  BY <1>2, <1>4, <1>8 DEF e

-----------------------------------------------------------------------------
(* The parts of a packet.                                                  *)

\* The bytes x stand in whole from pos on.
At(whole, pos, x) ==
    /\ pos \in Nat \ {0} /\ pos + Len(x) <= Len(whole) + 1
    /\ \A i \in 1 .. Len(x) : whole[pos + i - 1] = x[i]

LEMMA AtStart == ASSUME NEW s \in Seq(Byte) PROVE At(s, 1, s)
BY DEF At

LEMMA AtParts ==
    ASSUME NEW whole \in Seq(Byte), NEW x \in Seq(Byte), NEW y \in Seq(Byte), NEW pos, At(whole, pos, x \o y)
    PROVE  At(whole, pos, x) /\ At(whole, pos + Len(x), y) /\ pos + Len(x) \in Nat
<1>1. /\ Len(x) \in Nat /\ Len(y) \in Nat /\ Len(whole) \in Nat /\ Len(x \o y) = Len(x) + Len(y)
      /\ \A i \in 1 .. Len(x) : (x \o y)[i] = x[i]
      /\ \A i \in 1 .. Len(y) : (x \o y)[Len(x) + i] = y[i]
  BY ConcatProperties
<1>2. pos \in Nat \ {0} /\ pos + Len(x) + Len(y) <= Len(whole) + 1
  BY <1>1 DEF At
<1>3. \A i \in 1 .. Len(x) + Len(y) : whole[pos + i - 1] = (x \o y)[i]
  BY <1>1 DEF At
<1>4. ASSUME NEW i \in 1 .. Len(y) PROVE whole[pos + Len(x) + i - 1] = y[i]
  <2>1. Len(x) + i \in 1 .. Len(x) + Len(y) /\ pos + (Len(x) + i) - 1 = pos + Len(x) + i - 1
    BY <1>1, <1>2
  <2> QED
    BY <1>1, <1>3, <2>1
<1>5. \A i \in 1 .. Len(x) : whole[pos + i - 1] = x[i]
  BY <1>1, <1>3
<1> QED
  BY <1>1, <1>2, <1>4, <1>5 DEF At

LEMMA CutOut ==
    ASSUME NEW whole \in Seq(Byte), NEW x \in Seq(Byte), NEW pos, At(whole, pos, x)
    PROVE  SubSeq(whole, pos, pos + Len(x) - 1) = x
<1> DEFINE d == Len(x)
<1>1. d \in Nat /\ Len(whole) \in Nat /\ \A j \in 1 .. Len(whole) : whole[j] \in Byte
  OBVIOUS
<1> HIDE DEF d
<1>2. pos \in Nat \ {0} /\ pos + d <= Len(whole) + 1 /\ \A i \in 1 .. d : whole[pos + i - 1] = x[i]
  BY DEF At, d
<1>3. pos \in Int /\ pos + d - 1 \in Int /\ \A j \in pos .. pos + d - 1 : whole[j] \in Byte
  BY <1>1, <1>2
<1>4. /\ SubSeq(whole, pos, pos + d - 1) \in Seq(Byte) /\ Len(SubSeq(whole, pos, pos + d - 1)) = d
      /\ \A i \in 1 .. d : SubSeq(whole, pos, pos + d - 1)[i] = whole[pos + i - 1]
  <2>1. pos \in 1 .. Len(whole) + 1 /\ pos + d - 1 \in pos - 1 .. Len(whole)
    BY <1>1, <1>2
  <2> QED
    BY <1>1, <1>2, <1>3, <2>1, SubSeqProperties
<1>5. \A i \in 1 .. d : SubSeq(whole, pos, pos + d - 1)[i] = x[i]
  BY <1>2, <1>4
<1> QED
  BY <1>4, <1>5, SeqEqual DEF d

\* An encoded integer is read where it stands.
LEMMA VarintAt ==
    ASSUME NEW whole \in Seq(Byte), NEW n \in Nat, Encodable(n), NEW pos, At(whole, pos, EncodeVarint(n))
    PROVE  Varint(whole, pos) = [ok |-> TRUE, value |-> n, next |-> pos + Len(EncodeVarint(n))]
<1> DEFINE e == EncodeVarint(n)
           E == Ends(whole, pos)
<1>1. PICK d \in 1 .. MaxDigits :
          e \in Seq(Byte) /\ Len(e) = d /\ \A i \in 1 .. d : e[i] < Base <=> i = d
  BY EncodedDigits
<1>2. d \in Nat /\ 1 <= d /\ MaxDigits \in Nat
  BY CodecAssumptions
<1> HIDE DEF e
<1>3. /\ pos \in Nat \ {0} /\ pos + d <= Len(whole) + 1 /\ Len(whole) \in Nat
      /\ \A i \in 1 .. d : whole[pos + i - 1] = e[i]
  BY <1>1 DEF At, e
<1>4. pos + d - 1 \in E
  <2>1. whole[pos + d - 1] = e[d]
    BY <1>2, <1>3
  <2>2. whole[pos + d - 1] < Base
    BY <1>1, <1>2, <2>1
  <2> QED
    BY <1>2, <1>3, <2>2 DEF Ends
<1>5. ASSUME NEW i \in E PROVE pos + d - 1 <= i /\ i \in Nat
  <2>1. i \in pos .. pos + MaxDigits - 1 /\ whole[i] < Base
    BY DEF Ends
  <2>2. ASSUME i < pos + d - 1 PROVE FALSE
    <3>1. i - pos + 1 \in 1 .. d /\ pos + (i - pos + 1) - 1 = i /\ i - pos + 1 # d
      BY <1>2, <1>3, <2>1, <2>2
    <3>2. whole[i] = e[i - pos + 1]
      BY <1>3, <3>1
    <3> QED
      BY <1>1, <2>1, <3>1, <3>2
  <2> QED
    BY <1>2, <1>3, <2>1, <2>2
<1> HIDE DEF E
<1>6. Min(E) = pos + d - 1
  <2>1. E \subseteq Nat /\ E # {}
    BY <1>4, <1>5
  <2>2. Min(E) \in E /\ Min(E) <= pos + d - 1
    BY <1>4, <2>1, Smallest
  <2>3. pos + d - 1 <= Min(E) /\ Min(E) \in Nat /\ pos + d - 1 \in Nat
    <3>1. pos + d - 1 <= Min(E) /\ Min(E) \in Nat
      BY <1>5, <2>2
    <3> QED
      BY <1>2, <1>3, <3>1
  <2> QED
    BY <2>2, <2>3
<1>7. SubSeq(whole, pos, pos + d - 1) = e
  BY <1>1, CutOut DEF e
<1>8. Varint(whole, pos) = [ok |-> TRUE, value |-> Number(e), next |-> pos + d]
  <2>1. pos # Nowhere /\ E # {} /\ Min(E) + 1 = pos + d
    BY <1>2, <1>3, <1>4, <1>6 DEF Nowhere
  <2> QED
    BY <1>3, <1>6, <1>7, <2>1, VarintCases DEF E
<1>9. Number(e) = n
  BY NumberEncoded DEF e
<1> QED
  BY <1>1, <1>8, <1>9 DEF e

LEMMA EncodedTyped ==
    ASSUME NEW n \in Nat, Encodable(n)
    PROVE  /\ EncodeVarint(n) \in Seq(Byte) /\ Len(EncodeVarint(n)) \in Nat \ {0}
           /\ n < Base => EncodeVarint(n) = <<n>>
<1> DEFINE e == EncodeVarint(n)
<1>1. PICK d \in 1 .. MaxDigits :
          /\ e \in Seq(Byte) /\ Len(e) = d
  BY EncodedDigits
<1>2. ASSUME n < Base PROVE e = <<n>>
  <2>1. Rest(n)[0] = n /\ 1 \in 1 .. MaxDigits
    BY RestValue, CodecAssumptions
  <2> DEFINE K == {k \in 1 .. MaxDigits : Rest(n)[k - 1] < Base}
  <2>2. 1 \in K /\ K \subseteq Nat /\ \A k \in K : 1 <= k
    BY <1>2, <2>1, CodecAssumptions
  <2>3. Min(K) = 1
    <3> HIDE DEF K
    <3>1. Min(K) \in K /\ Min(K) <= 1
      BY <2>2, Smallest
    <3>2. Min(K) \in Nat /\ 1 <= Min(K)
      BY <2>2, <3>1
    <3> QED
      BY <3>1, <3>2
  <2>4. e = [i \in 1 .. 1 |-> (Rest(n)[i - 1] % Base) + (IF i < 1 THEN Base ELSE 0)]
    BY <2>3 DEF EncodeVarint
  <2>5. n % Base = n
    BY <1>2, CodecAssumptions
  <2>6. Len(e) = 1 /\ e[1] = n
    BY <2>1, <2>4, <2>5
  <2> QED
    BY <1>1, <2>6
<1> QED
  BY <1>1, <1>2

\* A field, and a block of properties, is skipped and read where it stands.
LEMMA FieldAt ==
    ASSUME NEW whole \in Seq(Byte), NEW text \in Seq(Byte), Len(text) \in Byte, NEW pos, At(whole, pos, Field(text))
    PROVE  /\ pos \in 1 .. Len(whole) /\ Len(Field(text)) = Len(text) + 1
           /\ Skip(whole, pos) = pos + Len(Field(text))
           /\ Readable(whole, pos) /\ Text(whole, pos) = text
<1>1. <<Len(text)>> \in Seq(Byte) /\ Len(<<Len(text)>>) = 1 /\ Len(text) \in Nat /\ Len(whole) \in Nat
  OBVIOUS
<1>2. /\ At(whole, pos, <<Len(text)>>) /\ At(whole, pos + 1, text)
      /\ Len(Field(text)) = Len(text) + 1
  <2>1. Field(text) = <<Len(text)>> \o text
    BY DEF Field
  <2>2. At(whole, pos, <<Len(text)>>) /\ At(whole, pos + Len(<<Len(text)>>), text)
    BY <1>1, <2>1, AtParts
  <2>3. Len(Field(text)) = Len(<<Len(text)>>) + Len(text)
    BY <1>1, <2>1, ConcatProperties
  <2> QED
    BY <1>1, <2>2, <2>3
<1>3. pos \in 1 .. Len(whole) /\ whole[pos] = Len(text) /\ pos + Len(text) <= Len(whole)
  BY <1>1, <1>2 DEF At
<1>4. Text(whole, pos) = text
  <2>1. SubSeq(whole, pos + 1, pos + 1 + Len(text) - 1) = text
    BY <1>2, CutOut
  <2>2. pos + 1 + Len(text) - 1 = pos + Len(text)
    BY <1>1, <1>3
  <2> QED
    BY <1>3, <2>1, <2>2 DEF Text
<1> QED
  BY <1>1, <1>2, <1>3, <1>4 DEF Skip, Readable

LEMMA FieldTyped ==
    ASSUME NEW text \in Seq(Byte), Len(text) \in Byte
    PROVE  Field(text) \in Seq(Byte) /\ Len(Field(text)) \in Nat
<1>1. <<Len(text)>> \in Seq(Byte)
  OBVIOUS
<1> QED
  BY <1>1, Joined DEF Field

LEMMA BlockTyped ==
    ASSUME NEW bytes \in Seq(Byte), Encodable(Len(bytes))
    PROVE  Block(bytes) \in Seq(Byte) /\ Len(Block(bytes)) \in Nat
<1>1. Len(bytes) \in Nat
  OBVIOUS
<1> QED
  BY <1>1, EncodedTyped, Joined DEF Block

LEMMA BlockAt ==
    ASSUME NEW whole \in Seq(Byte), NEW bytes \in Seq(Byte), Encodable(Len(bytes)), NEW pos,
           At(whole, pos, Block(bytes))
    PROVE  /\ SkipProperties(whole, pos) = pos + Len(Block(bytes))
           /\ Len(bytes) < Base => Block(bytes) = Field(bytes)
<1> DEFINE e == EncodeVarint(Len(bytes))
<1>1. /\ Len(bytes) \in Nat /\ e \in Seq(Byte) /\ Len(e) \in Nat
      /\ Len(bytes) < Base => e = <<Len(bytes)>>
  BY EncodedTyped
<1>2. Block(bytes) = e \o bytes
  BY DEF Block
<1>3. At(whole, pos, e) /\ At(whole, pos + Len(e), bytes)
  BY <1>1, <1>2, AtParts
<1>4. Varint(whole, pos) = [ok |-> TRUE, value |-> Len(bytes), next |-> pos + Len(e)]
  BY <1>1, <1>3, VarintAt
<1> HIDE DEF e
<1>5. pos + Len(e) + Len(bytes) <= Len(whole) + 1 /\ pos \in Nat
  BY <1>3 DEF At
<1>6. SkipProperties(whole, pos) = pos + Len(e) + Len(bytes)
  BY <1>4, <1>5 DEF SkipProperties
<1>7. Len(Block(bytes)) = Len(e) + Len(bytes)
  BY <1>1, <1>2, ConcatProperties
<1>8. Len(bytes) < Base => Block(bytes) = <<Len(bytes)>> \o bytes
  BY <1>1, <1>2
<1>9. pos + Len(Block(bytes)) = pos + Len(e) + Len(bytes)
  BY <1>1, <1>5, <1>7
<1> QED
  BY <1>6, <1>8, <1>9 DEF Field

\* A packet is as long as its second field says, for both readers.
LEMMA PacketLength ==
    ASSUME NEW type \in Byte, NEW body \in Seq(Byte), Encodable(Len(body))
    PROVE  /\ Packet(type, body) \in Seq(Byte) /\ Len(Packet(type, body)) >= 2
           /\ ReaderLength(Packet(type, body)) = Len(Packet(type, body))
           /\ type # 0 => TotalLength(Packet(type, body)) = Len(Packet(type, body))
           /\ Varint(Packet(type, body), 2).next \in Nat
           /\ At(Packet(type, body), Varint(Packet(type, body), 2).next, body)
           /\ Packet(type, body)[1] = type
           /\ Len(Packet(type, body)) = Varint(Packet(type, body), 2).next + Len(body) - 1
<1> DEFINE p == Packet(type, body)
           e == EncodeVarint(Len(body))
<1>1. /\ Len(body) \in Nat /\ e \in Seq(Byte) /\ Len(e) \in Nat \ {0}
      /\ <<type>> \in Seq(Byte) /\ Len(<<type>>) = 1
  BY EncodedTyped
<1>2. p = <<type>> \o (e \o body) /\ e \o body \in Seq(Byte) /\ p \in Seq(Byte)
  BY <1>1, Joined DEF Packet, Block
<1>3. At(p, 1, <<type>>) /\ At(p, 2, e \o body)
  <2>1. At(p, 1, <<type>> \o (e \o body))
    BY <1>2, AtStart
  <2>2. At(p, 1 + Len(<<type>>), e \o body) /\ At(p, 1, <<type>>)
    BY <1>1, <1>2, <2>1, AtParts
  <2> QED
    BY <1>1, <2>2
<1>4. At(p, 2, e) /\ At(p, 2 + Len(e), body)
  BY <1>1, <1>2, <1>3, AtParts, Zenon
<1>5. Varint(p, 2) = [ok |-> TRUE, value |-> Len(body), next |-> 2 + Len(e)]
  BY <1>1, <1>2, <1>4, VarintAt
<1>6. Len(p) = 1 + Len(e) + Len(body) /\ p[1] = type
  BY <1>1, <1>2, ConcatProperties
<1> HIDE DEF p, e
<1>7. Len(p) >= 2 /\ Len(p) \in Nat /\ 2 + Len(e) - 1 + Len(body) = Len(p)
  BY <1>1, <1>6
<1>8. ReaderLength(p) = Len(p) /\ (type # 0 => TotalLength(p) = Len(p))
  BY <1>5, <1>6, <1>7 DEF ReaderLength, TotalLength
<1>9. Varint(p, 2).next = 2 + Len(e) /\ Len(p) = Varint(p, 2).next + Len(body) - 1
  <2>1. Varint(p, 2).next = 2 + Len(e)
    BY <1>5
  <2>2. Len(e) \in Nat /\ Len(body) \in Nat
    BY <1>1 DEF e
  <2> QED
    BY <1>7, <2>1, <2>2
<1> QED
  BY <1>1, <1>2, <1>4, <1>6, <1>7, <1>8, <1>9 DEF p

-----------------------------------------------------------------------------
(* CONNECT.                                                                *)

LEMMA FlagsRead ==
    ASSUME NEW c, c.will \in BOOLEAN
    PROVE  /\ Will(Flags(c)) <=> c.will
           /\ HasPassword(Flags(c)) <=> c.password # <<>>
           /\ HasUsername(Flags(c)) <=> c.username # <<>>
<1> DEFINE w == IF c.will THEN 1 ELSE 0
           p == IF c.password # <<>> THEN 2 ELSE 0
           u == IF c.username # <<>> THEN 4 ELSE 0
<1>1. Flags(c) = w + p + u
  BY DEF Flags
<1>2. w \in {0, 1} /\ p \in {0, 2} /\ u \in {0, 4}
  OBVIOUS
<1>3. (w = 1 <=> c.will) /\ (p = 2 <=> c.password # <<>>) /\ (u = 4 <=> c.username # <<>>)
  OBVIOUS
<1> HIDE DEF w, p, u
<1>4. /\ (w + p + u) % 2 = 1 <=> w = 1
      /\ ((w + p + u) \div 2) % 2 = 1 <=> p = 2
      /\ ((w + p + u) \div 4) % 2 = 1 <=> u = 4
  BY <1>2
<1> QED
  BY <1>1, <1>3, <1>4 DEF Will, HasPassword, HasUsername

LEMMA PartsTyped ==
    ASSUME NEW c, WellFormed(c)
    PROVE  /\ Field(<<>>) \in Seq(Byte)
           /\ <<c.level, Flags(c), c.keepAlive>> \in Seq(Byte)
           /\ Properties(c.level, c.properties) \in Seq(Byte)
           /\ Properties(c.level, c.willProperties) \in Seq(Byte)
           /\ Field(c.clientID) \in Seq(Byte)
           /\ Field(<<1>>) \in Seq(Byte)
           /\ WillFields(c) \in Seq(Byte)
           /\ Optional(c.username) \in Seq(Byte)
           /\ Optional(c.password) \in Seq(Byte)
           /\ ConnectBody(c) \in Seq(Byte)
<1>1. Field(<<>>) \in Seq(Byte) /\ Field(<<1>>) \in Seq(Byte)
  <2>1. /\ <<>> \in Seq(Byte) /\ Len(<<>>) \in Byte
        /\ <<1>> \in Seq(Byte) /\ Len(<<1>>) \in Byte
    BY CodecAssumptions DEF Byte
  <2> QED
    BY <2>1, FieldTyped
<1>2. <<c.level, Flags(c), c.keepAlive>> \in Seq(Byte)
  BY DEF WellFormed
<1>3. /\ Properties(c.level, c.properties) \in Seq(Byte)
      /\ Properties(c.level, c.willProperties) \in Seq(Byte)
  BY BlockTyped DEF WellFormed, Properties
<1>4. /\ Field(c.clientID) \in Seq(Byte)
      /\ Optional(c.username) \in Seq(Byte)
      /\ Optional(c.password) \in Seq(Byte)
  BY FieldTyped DEF WellFormed, Optional
<1>5. WillFields(c) \in Seq(Byte)
  BY <1>1, <1>3, Joined DEF WillFields
<1>6. ConnectBody(c) \in Seq(Byte)
  BY <1>1, <1>2, <1>3, <1>4, <1>5, Joined DEF ConnectBody
<1> QED
  BY <1>1, <1>2, <1>3, <1>4, <1>5, <1>6

\* Where the parts of CONNECT stand.
LEMMA ConnectParts ==
    ASSUME NEW c, WellFormed(c), NEW p \in Seq(Byte), NEW q1, At(p, q1, ConnectBody(c))
    PROVE  \E q2, q3, q4, q5, q6, q7 \in Nat :
               /\ q2 = q1 + Len(Field(<<>>)) /\ q3 = q2 + 3
               /\ q4 = q3 + Len(Properties(c.level, c.properties))
               /\ q5 = q4 + Len(Field(c.clientID)) /\ q6 = q5 + Len(WillFields(c))
               /\ q7 = q6 + Len(Optional(c.username))
               /\ At(p, q1, Field(<<>>)) /\ At(p, q2, <<c.level, Flags(c), c.keepAlive>>)
               /\ At(p, q3, Properties(c.level, c.properties)) /\ At(p, q4, Field(c.clientID))
               /\ At(p, q5, WillFields(c)) /\ At(p, q6, Optional(c.username))
               /\ At(p, q7, Optional(c.password))
<1> DEFINE x1 == Field(<<>>)
           x2 == <<c.level, Flags(c), c.keepAlive>>
           x3 == Properties(c.level, c.properties)
           x4 == Field(c.clientID)
           x5 == WillFields(c)
           x6 == Optional(c.username)
           x7 == Optional(c.password)
           s2 == x1 \o x2
           s3 == s2 \o x3
           s4 == s3 \o x4
           s5 == s4 \o x5
           s6 == s5 \o x6
<1>1. /\ x1 \in Seq(Byte) /\ x2 \in Seq(Byte) /\ x3 \in Seq(Byte) /\ x4 \in Seq(Byte)
      /\ x5 \in Seq(Byte) /\ x6 \in Seq(Byte) /\ x7 \in Seq(Byte) /\ Len(x2) = 3
  BY PartsTyped
<1>2. /\ ConnectBody(c) = s6 \o x7 /\ s6 = s5 \o x6 /\ s5 = s4 \o x5 /\ s4 = s3 \o x4
      /\ s3 = s2 \o x3 /\ s2 = x1 \o x2
  BY Zenon DEF ConnectBody
<1> HIDE DEF x1, x2, x3, x4, x5, x6, x7
<1>3. /\ s2 \in Seq(Byte) /\ s3 \in Seq(Byte) /\ s4 \in Seq(Byte) /\ s5 \in Seq(Byte) /\ s6 \in Seq(Byte)
  BY <1>1, Joined
<1>4. /\ Len(s2) = Len(x1) + 3 /\ Len(s3) = Len(s2) + Len(x3) /\ Len(s4) = Len(s3) + Len(x4)
      /\ Len(s5) = Len(s4) + Len(x5) /\ Len(s6) = Len(s5) + Len(x6)
  <2>1. \A a, b \in Seq(Byte) : Len(a \o b) = Len(a) + Len(b)
    BY ConcatProperties
  <2>2. Len(s2) = Len(x1) + Len(x2)
    BY <1>1, <2>1
  <2>3. Len(s3) = Len(s2) + Len(x3) /\ Len(s4) = Len(s3) + Len(x4)
    BY <1>1, <1>3, <2>1
  <2>4. Len(s5) = Len(s4) + Len(x5) /\ Len(s6) = Len(s5) + Len(x6)
    BY <1>1, <1>3, <2>1
  <2> QED
    BY <1>1, <2>2, <2>3, <2>4
<1> HIDE DEF s2, s3, s4, s5, s6
<1>5. At(p, q1, s6) /\ At(p, q1 + Len(s6), x7)
  <2>1. At(p, q1, s6 \o x7)
    BY <1>2, Zenon
  <2> QED
    BY <1>1, <1>3, <2>1, AtParts
<1>6. At(p, q1, s5) /\ At(p, q1 + Len(s5), x6)
  BY <1>1, <1>2, <1>3, <1>5, AtParts
<1>7. At(p, q1, s4) /\ At(p, q1 + Len(s4), x5)
  BY <1>1, <1>2, <1>3, <1>6, AtParts
<1>8. At(p, q1, s3) /\ At(p, q1 + Len(s3), x4)
  BY <1>1, <1>2, <1>3, <1>7, AtParts
<1>9. At(p, q1, s2) /\ At(p, q1 + Len(s2), x3)
  BY <1>1, <1>2, <1>3, <1>8, AtParts
<1>10. At(p, q1, x1) /\ At(p, q1 + Len(x1), x2)
  BY <1>1, <1>2, <1>9, AtParts
<1>11. q1 \in Nat
  BY <1>10 DEF At
<1>12. /\ Len(x1) \in Nat /\ Len(x3) \in Nat /\ Len(x4) \in Nat /\ Len(x5) \in Nat /\ Len(x6) \in Nat
       /\ Len(s2) \in Nat /\ Len(s3) \in Nat /\ Len(s4) \in Nat /\ Len(s5) \in Nat /\ Len(s6) \in Nat
  BY <1>1, <1>3, LenProperties
<1> DEFINE q2 == q1 + Len(x1)
           q3 == q1 + Len(s2)
           q4 == q1 + Len(s3)
           q5 == q1 + Len(s4)
           q6 == q1 + Len(s5)
           q7 == q1 + Len(s6)
<1>13. /\ q2 \in Nat /\ q3 \in Nat /\ q4 \in Nat /\ q5 \in Nat /\ q6 \in Nat /\ q7 \in Nat
       /\ q3 = q2 + 3 /\ q4 = q3 + Len(x3) /\ q5 = q4 + Len(x4) /\ q6 = q5 + Len(x5) /\ q7 = q6 + Len(x6)
  <2>1. q2 \in Nat /\ q3 \in Nat /\ q3 = q2 + 3
    BY <1>4, <1>11, <1>12
  <2>2. q4 \in Nat /\ q5 \in Nat /\ q4 = q3 + Len(x3) /\ q5 = q4 + Len(x4)
    BY <1>4, <1>11, <1>12
  <2>3. q6 \in Nat /\ q7 \in Nat /\ q6 = q5 + Len(x5) /\ q7 = q6 + Len(x6)
    BY <1>4, <1>11, <1>12
  <2> QED
    BY <2>1, <2>2, <2>3
<1>14. /\ At(p, q1, x1) /\ At(p, q2, x2) /\ At(p, q3, x3) /\ At(p, q4, x4)
       /\ At(p, q5, x5) /\ At(p, q6, x6) /\ At(p, q7, x7) /\ q2 = q1 + Len(x1)
  BY <1>5, <1>6, <1>7, <1>8, <1>9, <1>10
<1> HIDE DEF q2, q3, q4, q5, q6, q7
<1> QED
  BY <1>13, <1>14 DEF x1, x2, x3, x4, x5, x6, x7

\* The gateway understands what a client says in CONNECT.
LEMMA ConnectParsed ==
    ASSUME NEW c, WellFormed(c), Understandable(c)
    PROVE  ParseConnect(ConnectPacket(c)) = Meant(c)
<1> DEFINE p == ConnectPacket(c)
           q1 == Varint(p, 2).next
           flags == Flags(c)
<1>1. p \in Seq(Byte) /\ q1 \in Nat /\ At(p, q1, ConnectBody(c)) /\ p[1] = CONNECT
  <2>1. CONNECT \in Byte /\ Encodable(Len(ConnectBody(c)))
    BY CodecAssumptions DEF CONNECT, Byte, WellFormed
  <2> QED
    BY <2>1, PartsTyped, PacketLength DEF ConnectPacket
<1> HIDE DEF p, q1
<1>2. PICK q2, q3, q4, q5, q6, q7 \in Nat :
               /\ q2 = q1 + Len(Field(<<>>)) /\ q3 = q2 + 3
               /\ q4 = q3 + Len(Properties(c.level, c.properties))
               /\ q5 = q4 + Len(Field(c.clientID)) /\ q6 = q5 + Len(WillFields(c))
               /\ q7 = q6 + Len(Optional(c.username))
               /\ At(p, q1, Field(<<>>)) /\ At(p, q2, <<c.level, Flags(c), c.keepAlive>>)
               /\ At(p, q3, Properties(c.level, c.properties)) /\ At(p, q4, Field(c.clientID))
               /\ At(p, q5, WillFields(c)) /\ At(p, q6, Optional(c.username))
               /\ At(p, q7, Optional(c.password))
  BY <1>1, ConnectParts
<1>3. /\ c.clientID \in Seq(Byte) /\ c.username \in Seq(Byte) /\ c.password \in Seq(Byte)
      /\ c.properties \in Seq(Byte) /\ c.willProperties \in Seq(Byte)
      /\ Len(c.clientID) \in Byte /\ Len(c.username) \in Byte /\ Len(c.password) \in Byte
      /\ Encodable(Len(c.properties)) /\ Encodable(Len(c.willProperties)) /\ c.will \in BOOLEAN
  BY DEF WellFormed
<1>4. /\ <<>> \in Seq(Byte) /\ Len(<<>>) \in Byte
      /\ <<1>> \in Seq(Byte) /\ Len(<<1>>) \in Byte
  BY CodecAssumptions DEF Byte
<1>5. Skip(p, q1) = q2
  BY <1>1, <1>2, <1>4, FieldAt
<1>6. q2 # Nowhere /\ q2 + 2 <= Len(p) /\ p[q2] = c.level /\ p[q2 + 1] = flags /\ p[q2 + 2] = c.keepAlive
  <2> DEFINE x == <<c.level, flags, c.keepAlive>>
  <2>1. Len(x) = 3 /\ x[1] = c.level /\ x[2] = flags /\ x[3] = c.keepAlive
    OBVIOUS
  <2> HIDE DEF x
  <2>2. At(p, q2, x)
    BY <1>2 DEF x
  <2>3. q2 # 0 /\ q2 + 3 <= Len(p) + 1 /\ \A i \in 1 .. 3 : p[q2 + i - 1] = x[i]
    BY <2>1, <2>2 DEF At
  <2>4. p[q2 + 1 - 1] = x[1] /\ p[q2 + 2 - 1] = x[2] /\ p[q2 + 3 - 1] = x[3] /\ Len(p) \in Nat
    BY <1>1, <2>3
  <2>5. q2 + 1 - 1 = q2 /\ q2 + 2 - 1 = q2 + 1 /\ q2 + 3 - 1 = q2 + 2
    OBVIOUS
  <2> QED
    BY <2>1, <2>3, <2>4, <2>5 DEF Nowhere
<1>7. (IF c.level = V5 THEN SkipProperties(p, q2 + 3) ELSE q2 + 3) = q4
  <2>1. CASE c.level = V5
    BY <1>1, <1>2, <1>3, <2>1, BlockAt DEF Properties
  <2>2. CASE c.level # V5
    BY <1>2, <2>2 DEF Properties
  <2> QED
    BY <2>1, <2>2
<1>8. q4 \in 1 .. Len(p) /\ Skip(p, q4) = q5
  BY <1>1, <1>2, <1>3, FieldAt
<1>9. (IF c.will THEN Skip(p, Skip(p, IF c.level = V5 THEN Skip(p, q5) ELSE q5)) ELSE q5) = q6
  <2>1. CASE c.will
    <3> DEFINE w == Properties(c.level, c.willProperties)
               topic == IF c.level = V5 THEN Skip(p, q5) ELSE q5
    <3>1. w \in Seq(Byte) /\ Field(<<1>>) \in Seq(Byte) /\ Field(<<>>) \in Seq(Byte)
      BY PartsTyped
    <3>2. WillFields(c) = (w \o Field(<<1>>)) \o Field(<<>>) /\ w \o Field(<<1>>) \in Seq(Byte)
      BY <2>1, <3>1, Joined DEF WillFields
    <3>a. At(p, q5, WillFields(c)) /\ q5 \in Nat /\ q6 \in Nat /\ q6 = q5 + Len(WillFields(c))
      BY <1>2
    <3>3. At(p, q5, w \o Field(<<1>>)) /\ At(p, q5 + Len(w \o Field(<<1>>)), Field(<<>>))
      <4> HIDE DEF w
      <4> QED
        BY <1>1, <3>1, <3>2, <3>a, AtParts
    <3>4. At(p, q5, w) /\ At(p, q5 + Len(w), Field(<<1>>))
      BY <1>1, <3>1, <3>3, AtParts
    <3>5. topic = q5 + Len(w)
      <4>1. CASE c.level = V5
        <5>1. Len(c.willProperties) < Base /\ w = Block(c.willProperties)
          BY <2>1, <4>1 DEF Understandable, Properties
        <5>2. w = Field(c.willProperties) /\ Len(c.willProperties) \in Byte
          <6>1. At(p, q5, Block(c.willProperties))
            BY <3>4, <5>1
          <6>2. Block(c.willProperties) = Field(c.willProperties)
            BY <1>1, <1>3, <5>1, <6>1, BlockAt
          <6>3. Len(c.willProperties) \in Byte
            <7>1. Len(c.willProperties) \in Nat
              BY <1>3, LenProperties
            <7>2. \A k \in Nat : k < Base => k \in Byte
              BY CodecAssumptions DEF Byte
            <7> QED
              BY <5>1, <7>1, <7>2
          <6> QED
            BY <5>1, <6>2, <6>3
        <5> QED
          BY <1>1, <1>3, <3>4, <4>1, <5>2, FieldAt
      <4>2. CASE c.level # V5
        BY <1>2, <4>2 DEF Properties
      <4> QED
        BY <4>1, <4>2
    <3>6. /\ Len(w \o Field(<<1>>)) = Len(w) + Len(Field(<<1>>))
          /\ Len(WillFields(c)) = Len(w \o Field(<<1>>)) + Len(Field(<<>>))
          /\ Len(w) \in Nat /\ Len(Field(<<1>>)) \in Nat /\ Len(Field(<<>>)) \in Nat
      BY <3>1, <3>2, ConcatProperties
    <3> HIDE DEF w, topic
    <3>7. Skip(p, topic) = q5 + Len(w) + Len(Field(<<1>>))
      BY <1>1, <1>4, <3>4, <3>5, FieldAt
    <3>8. Skip(p, Skip(p, topic)) = q5 + Len(w) + Len(Field(<<1>>)) + Len(Field(<<>>))
      <4>1. At(p, q5 + Len(w) + Len(Field(<<1>>)), Field(<<>>))
        <5>1. q5 + Len(w \o Field(<<1>>)) = q5 + Len(w) + Len(Field(<<1>>))
          BY <3>a, <3>6
        <5> QED
          BY <3>3, <5>1
      <4>2. Skip(p, q5 + Len(w) + Len(Field(<<1>>))) = q5 + Len(w) + Len(Field(<<1>>)) + Len(Field(<<>>))
        BY <1>1, <1>4, <4>1, FieldAt
      <4> QED
        BY <3>7, <4>2
    <3>9. Skip(p, Skip(p, topic)) = q6
      <4>1. q6 = q5 + (Len(w) + Len(Field(<<1>>)) + Len(Field(<<>>)))
        BY <3>a, <3>6
      <4> QED
        BY <3>a, <3>6, <3>8, <4>1
    <3> QED
      BY <2>1, <3>9 DEF topic
  <2>2. CASE ~c.will
    BY <1>2, <2>2 DEF WillFields
  <2> QED
    BY <2>1, <2>2
<1>10. c.username # <<>> => Readable(p, q6) /\ Text(p, q6) = c.username /\ Skip(p, q6) = q7
  <2> SUFFICES ASSUME c.username # <<>>
               PROVE  Readable(p, q6) /\ Text(p, q6) = c.username /\ Skip(p, q6) = q7
    OBVIOUS
  <2>1. At(p, q6, Field(c.username)) /\ q7 = q6 + Len(Field(c.username))
    BY <1>2 DEF Optional
  <2> QED
    BY <1>1, <1>3, <2>1, FieldAt
<1>11. c.username = <<>> => q7 = q6
  BY <1>2 DEF Optional
<1>12. c.password # <<>> => Readable(p, q7) /\ Text(p, q7) = c.password
  <2> SUFFICES ASSUME c.password # <<>> PROVE Readable(p, q7) /\ Text(p, q7) = c.password
    OBVIOUS
  <2>1. At(p, q7, Field(c.password))
    BY <1>2 DEF Optional
  <2> QED
    BY <1>1, <1>3, <2>1, FieldAt
<1>13. /\ Will(flags) <=> c.will
       /\ HasPassword(flags) <=> c.password # <<>>
       /\ HasUsername(flags) <=> c.username # <<>>
  BY <1>3, FlagsRead
<1>14. q6 # Nowhere
  BY <1>2 DEF At, Nowhere
<1> HIDE DEF flags
<1>15. ParseConnect(p) = [ok |-> TRUE,
                          username |-> IF HasUsername(flags) THEN Text(p, q6) ELSE <<>>,
                          password |-> IF HasPassword(flags) THEN Text(p, q7) ELSE <<>>,
                          level |-> c.level, keepAlive |-> c.keepAlive]
  <2> DEFINE fixed == Skip(p, Varint(p, 2).next)
             id == IF p[fixed] = V5 THEN SkipProperties(p, fixed + 3) ELSE fixed + 3
             will == Skip(p, id)
             topic == IF p[fixed] = V5 THEN Skip(p, will) ELSE will
             user == IF Will(p[fixed + 1]) THEN Skip(p, Skip(p, topic)) ELSE will
             pass == IF HasUsername(p[fixed + 1]) THEN Skip(p, user) ELSE user
  <2>1. fixed = q2
    BY <1>5 DEF q1
  <2>2. p[fixed] = c.level /\ p[fixed + 1] = flags /\ p[fixed + 2] = c.keepAlive
    BY <1>6, <2>1
  <2> HIDE DEF fixed
  <2>3. id = q4
    BY <1>7, <2>1, <2>2
  <2> HIDE DEF id
  <2>4. will = q5
    BY <1>8, <2>3
  <2> HIDE DEF will
  <2>5. user = q6
    BY <1>9, <1>13, <2>2, <2>4
  <2> HIDE DEF user
  <2>6. pass = q7
    BY <1>10, <1>11, <1>13, <2>2, <2>5
  <2> HIDE DEF pass
  <2>7. ParseConnect(p) =
          IF /\ p[1] = CONNECT /\ fixed # Nowhere /\ fixed + 2 <= Len(p)
             /\ id \in 1 .. Len(p) /\ user # Nowhere
             /\ HasUsername(p[fixed + 1]) => Readable(p, user)
             /\ HasPassword(p[fixed + 1]) => Readable(p, pass)
          THEN [ok        |-> TRUE,
                username  |-> IF HasUsername(p[fixed + 1]) THEN Text(p, user) ELSE <<>>,
                password  |-> IF HasPassword(p[fixed + 1]) THEN Text(p, pass) ELSE <<>>,
                level     |-> p[fixed],
                keepAlive |-> p[fixed + 2]]
          ELSE Unparsed
    BY DEF ParseConnect, fixed, id, will, user, pass
  <2> QED
    BY <1>1, <1>6, <1>8, <1>10, <1>12, <1>13, <1>14, <2>1, <2>2, <2>3, <2>5, <2>6, <2>7
<1> QED
  BY <1>10, <1>12, <1>13, <1>15 DEF Meant, p

-----------------------------------------------------------------------------
(* Frames one behind the other.                                            *)

\* What flatten is in FlattenSeq.
LEMMA FlattenValue ==
    ASSUME NEW s \in Seq(Seq(Byte)), s # <<>>
    PROVE  \E f \in [1 .. Len(s) -> Seq(Byte)] :
               /\ f[1] = s[1]
               /\ \A i \in 1 .. Len(s) - 1 : f[i + 1] = f[i] \o s[i + 1]
               /\ FlattenSeq(s) = f[Len(s)]
<1> DEFINE n == Len(s)
           G == [i \in 1 .. n |-> [x \in Seq(Byte) |-> x \o s[i]]]
           flat == CHOOSE f : f = [i \in 1 .. n |-> IF i = 1 THEN s[i] ELSE f[i - 1] \o s[i]]
<1>1. n \in Nat /\ n >= 1 /\ \A i \in 1 .. n : s[i] \in Seq(Byte)
  BY EmptySeq, LenProperties, ElementOfSeq
<1>2. FlattenSeq(s) = flat[n]
  BY <1>1 DEF FlattenSeq, flat, n
<1> HIDE DEF n
<1>3. \A i \in 1 .. n : \A x \in Seq(Byte) : G[i][x] = x \o s[i] /\ G[i][x] \in Seq(Byte)
  <2> SUFFICES ASSUME NEW i \in 1 .. n, NEW x \in Seq(Byte)
               PROVE  G[i][x] = x \o s[i] /\ G[i][x] \in Seq(Byte)
    OBVIOUS
  <2>1. G[i][x] = x \o s[i]
    OBVIOUS
  <2> QED
    BY <1>1, <2>1, Joined
<1> HIDE DEF G
<1>4. PICK h \in [0 .. n -> Seq(Byte)] : Follows(h, <<>>, n, G)
  BY <1>1, <1>3, Empty, Recursion DEF StaysIn
<1>5. h[0] = <<>> /\ \A i \in 1 .. n : h[i - 1] \in Seq(Byte) /\ h[i] = h[i - 1] \o s[i]
  <2>1. h[0] = <<>> /\ \A i \in 1 .. n : h[i] = G[i][h[i - 1]]
    BY <1>4 DEF Follows
  <2>2. ASSUME NEW i \in 1 .. n PROVE h[i - 1] \in Seq(Byte)
    <3>1. i - 1 \in 0 .. n
      BY <1>1
    <3> QED
      BY <1>4, <3>1
  <2> QED
    BY <1>3, <2>1, <2>2
<1>6. \E f : f = [i \in 1 .. n |-> IF i = 1 THEN s[i] ELSE f[i - 1] \o s[i]]
  <2> DEFINE g == [i \in 1 .. n |-> h[i]]
  <2>1. ASSUME NEW i \in 1 .. n PROVE g[i] = IF i = 1 THEN s[i] ELSE g[i - 1] \o s[i]
    <3>1. CASE i = 1
      <4>1. h[1] = <<>> \o s[1]
        <5>1. 1 \in 1 .. n /\ 1 - 1 = 0
          BY <1>1
        <5>2. h[1] = h[1 - 1] \o s[1]
          BY <1>5, <5>1
        <5> QED
          BY <1>5, <5>1, <5>2
      <4> QED
        BY <1>1, <3>1, <4>1, Empty
    <3>2. CASE i # 1
      <4>1. i - 1 \in 1 .. n
        BY <1>1, <3>2
      <4> QED
        BY <1>5, <3>2, <4>1
    <3> QED
      BY <3>1, <3>2
  <2>2. g = [i \in 1 .. n |-> IF i = 1 THEN s[i] ELSE g[i - 1] \o s[i]]
    BY <2>1
  <2> QED
    BY <2>2
<1>7. flat = [i \in 1 .. n |-> IF i = 1 THEN s[i] ELSE flat[i - 1] \o s[i]]
  BY <1>6, Zenon
<1> HIDE DEF flat
<1>8. flat[1] = s[1] /\ \A i \in 1 .. n - 1 : flat[i + 1] = flat[i] \o s[i + 1]
  <2>1. \A i \in 1 .. n : flat[i] = IF i = 1 THEN s[i] ELSE flat[i - 1] \o s[i]
    BY <1>7, Zenon
  <2>2. flat[1] = s[1]
    BY <1>1, <2>1
  <2>3. ASSUME NEW i \in 1 .. n - 1 PROVE flat[i + 1] = flat[i] \o s[i + 1]
    <3> DEFINE j == i + 1
    <3>1. j \in 1 .. n /\ j # 1 /\ j - 1 = i
      BY <1>1
    <3> HIDE DEF j
    <3>2. flat[j] = flat[j - 1] \o s[j]
      BY <2>1, <3>1, Zenon
    <3> QED
      BY <3>1, <3>2, Zenon DEF j
  <2> QED
    BY <2>2, <2>3
<1>9. \A i \in 1 .. n : flat[i] \in Seq(Byte)
  <2> DEFINE S == {k \in Nat : k \in 1 .. n => flat[k] \in Seq(Byte)}
  <2>1. 0 \in S
    OBVIOUS
  <2>2. ASSUME NEW k \in Nat, k \in S PROVE k + 1 \in S
    <3> SUFFICES ASSUME k + 1 \in 1 .. n PROVE flat[k + 1] \in Seq(Byte)
      OBVIOUS
    <3>1. CASE k = 0
      BY <1>1, <1>8, <3>1
    <3>2. CASE k # 0
      <4>1. k \in 1 .. n - 1 /\ flat[k] \in Seq(Byte)
        BY <1>1, <2>2, <3>2
      <4>2. flat[k + 1] = flat[k] \o s[k + 1]
        BY <1>8, <4>1
      <4> QED
        BY <1>1, <4>1, <4>2, Joined
    <3> QED
      BY <3>1, <3>2
  <2>3. Nat \subseteq S
    <3> HIDE DEF S
    <3> QED
      BY <2>1, <2>2, Induction
  <2> QED
    BY <1>1, <2>3
<1>10. flat \in [1 .. n -> Seq(Byte)]
  BY <1>7, <1>9
<1> QED
  BY <1>2, <1>8, <1>10 DEF n

\* One frame more.
LEMMA FlattenAppend ==
    ASSUME NEW s \in Seq(Seq(Byte)), NEW x \in Seq(Byte)
    PROVE  /\ FlattenSeq(s) \in Seq(Byte)
           /\ FlattenSeq(Append(s, x)) = FlattenSeq(s) \o x
<1> DEFINE n == Len(s)
           t == Append(s, x)
<1>1. /\ t \in Seq(Seq(Byte)) /\ t # <<>> /\ Len(t) = n + 1 /\ n \in Nat
      /\ t[n + 1] = x /\ \A i \in 1 .. n : t[i] = s[i]
  BY AppendProperties, LenProperties
<1> HIDE DEF t
<1>2. PICK g \in [1 .. n + 1 -> Seq(Byte)] :
               /\ g[1] = t[1]
               /\ \A i \in 1 .. n : g[i + 1] = g[i] \o t[i + 1]
               /\ FlattenSeq(t) = g[n + 1]
  <2>1. \E g \in [1 .. Len(t) -> Seq(Byte)] :
               /\ g[1] = t[1]
               /\ \A i \in 1 .. Len(t) - 1 : g[i + 1] = g[i] \o t[i + 1]
               /\ FlattenSeq(t) = g[Len(t)]
    BY <1>1, FlattenValue
  <2>2. Len(t) - 1 = n
    BY <1>1
  <2> QED
    BY <1>1, <2>1, <2>2, Zenon
<1>3. CASE s = <<>>
  <2>1. n = 0 /\ FlattenSeq(s) = <<>>
    BY <1>3 DEF FlattenSeq
  <2>2. FlattenSeq(t) = x
    BY <1>1, <1>2, <2>1
  <2> QED
    BY <2>1, <2>2, Empty DEF t
<1>4. CASE s # <<>>
  <2>1. PICK f \in [1 .. n -> Seq(Byte)] :
               /\ f[1] = s[1]
               /\ \A i \in 1 .. n - 1 : f[i + 1] = f[i] \o s[i + 1]
               /\ FlattenSeq(s) = f[n]
    BY <1>4, FlattenValue
  <2>2. n >= 1
    BY <1>4, EmptySeq, LenProperties
  <2> HIDE DEF n
  <2>3. \A i \in 1 .. n : f[i] = g[i]
    <3> DEFINE S == {k \in Nat : k \in 1 .. n => f[k] = g[k]}
    <3>1. 0 \in S
      OBVIOUS
    <3>2. ASSUME NEW k \in Nat, k \in S PROVE k + 1 \in S
      <4> SUFFICES ASSUME k + 1 \in 1 .. n PROVE f[k + 1] = g[k + 1]
        OBVIOUS
      <4>1. CASE k = 0
        BY <1>1, <1>2, <2>1, <2>2, <4>1
      <4>2. CASE k # 0
        <5>1. k \in 1 .. n /\ k \in 1 .. n - 1
          BY <1>1, <3>2, <4>2
        <5>2. f[k + 1] = f[k] \o s[k + 1] /\ g[k + 1] = g[k] \o t[k + 1]
          BY <1>2, <2>1, <5>1
        <5> QED
          BY <1>1, <3>2, <5>1, <5>2
      <4> QED
        BY <4>1, <4>2
    <3>3. Nat \subseteq S
      <4> HIDE DEF S
      <4> QED
        BY <3>1, <3>2, Induction
    <3> QED
      BY <1>1, <3>3
  <2>4. n \in 1 .. n
    BY <1>1, <2>2
  <2>5. FlattenSeq(t) = g[n] \o x
    BY <1>1, <1>2, <2>4
  <2> QED
    BY <2>1, <2>3, <2>4, <2>5 DEF t
<1> QED
  BY <1>3, <1>4

\* The first k frames.
FirstFrames(s, k) == FlattenSeq(SubSeq(s, 1, k))

LEMMA FirstFramesStep ==
    ASSUME NEW s \in Seq(Seq(Byte)), NEW k \in 0 .. Len(s)
    PROVE  /\ FirstFrames(s, k) \in Seq(Byte) /\ FirstFrames(s, 0) = <<>> /\ FirstFrames(s, Len(s)) = FlattenSeq(s)
           /\ k < Len(s) => FirstFrames(s, k + 1) = FirstFrames(s, k) \o s[k + 1] /\ s[k + 1] \in Seq(Byte)
<1>1. Len(s) \in Nat /\ \A i \in 1 .. Len(s) : s[i] \in Seq(Byte)
  BY LenProperties, ElementOfSeq
<1>2. SubSeq(s, 1, k) \in Seq(Seq(Byte))
  BY <1>1, SubSeqProperties
<1>3. FirstFrames(s, 0) = <<>>
  <2>1. SubSeq(s, 1, 0) = <<>>
    BY <1>1
  <2> QED
    BY <2>1 DEF FirstFrames, FlattenSeq
<1>4. k < Len(s) => SubSeq(s, 1, k + 1) = Append(SubSeq(s, 1, k), s[k + 1]) /\ s[k + 1] \in Seq(Byte)
  BY <1>1
<1>5. SubSeq(s, 1, Len(s)) = s
  BY SubSeqFull
<1> QED
  <2>1. FirstFrames(s, k) \in Seq(Byte)
    BY <1>2, EmptySeq, FlattenAppend DEF FirstFrames
  <2>2. k < Len(s) => FirstFrames(s, k + 1) = FirstFrames(s, k) \o s[k + 1] /\ s[k + 1] \in Seq(Byte)
    <3> SUFFICES ASSUME k < Len(s)
                 PROVE  FirstFrames(s, k + 1) = FirstFrames(s, k) \o s[k + 1] /\ s[k + 1] \in Seq(Byte)
      OBVIOUS
    <3>1. SubSeq(s, 1, k + 1) = Append(SubSeq(s, 1, k), s[k + 1]) /\ s[k + 1] \in Seq(Byte)
      BY <1>4
    <3>2. FlattenSeq(Append(SubSeq(s, 1, k), s[k + 1])) = FlattenSeq(SubSeq(s, 1, k)) \o s[k + 1]
      BY <1>2, <3>1, FlattenAppend
    <3> QED
      BY <3>1, <3>2 DEF FirstFrames
  <2> QED
    BY <1>3, <1>5, <2>1, <2>2 DEF FirstFrames

\* What comes after a frame of s in FlattenSeq(s).
LEMMA Behind ==
    ASSUME NEW s \in Seq(Seq(Byte)), NEW k \in 1 .. Len(s)
    PROVE  \E tail \in Seq(Byte) : FlattenSeq(s) = FirstFrames(s, k) \o tail
<1> DEFINE S == {j \in Nat : j \in k .. Len(s) => \E tail \in Seq(Byte) : FirstFrames(s, j) = FirstFrames(s, k) \o tail}
<1>1. Len(s) \in Nat /\ k \in Nat /\ k >= 1 /\ FirstFrames(s, k) \in Seq(Byte)
  BY LenProperties, FirstFramesStep
<1>2. 0 \in S
  BY <1>1
<1>3. ASSUME NEW j \in Nat, j \in S PROVE j + 1 \in S
  <2> SUFFICES ASSUME j + 1 \in k .. Len(s)
               PROVE  \E tail \in Seq(Byte) : FirstFrames(s, j + 1) = FirstFrames(s, k) \o tail
    OBVIOUS
  <2>1. CASE j + 1 = k
    <3>1. FirstFrames(s, k) = FirstFrames(s, k) \o <<>> /\ <<>> \in Seq(Byte)
      BY <1>1, Empty
    <3> QED
      BY <2>1, <3>1, Zenon
  <2>2. CASE j + 1 # k
    <3>1. j \in k .. Len(s) /\ j \in 0 .. Len(s) /\ j < Len(s)
      BY <1>1, <2>2
    <3>2. PICK tail \in Seq(Byte) : FirstFrames(s, j) = FirstFrames(s, k) \o tail
      BY <1>3, <3>1
    <3>3. FirstFrames(s, j + 1) = FirstFrames(s, j) \o s[j + 1] /\ s[j + 1] \in Seq(Byte)
      BY <3>1, FirstFramesStep
    <3>4. FirstFrames(s, j + 1) = FirstFrames(s, k) \o (tail \o s[j + 1]) /\ tail \o s[j + 1] \in Seq(Byte)
      <4>1. (FirstFrames(s, k) \o tail) \o s[j + 1] = FirstFrames(s, k) \o (tail \o s[j + 1])
        BY <1>1, <3>3, Regrouped
      <4>2. tail \o s[j + 1] \in Seq(Byte)
        BY <3>3, Joined
      <4> QED
        BY <3>2, <3>3, <4>1, <4>2, Zenon
    <3> QED
      BY <3>4
  <2> QED
    BY <2>1, <2>2
<1>4. Nat \subseteq S
  <2> HIDE DEF S
  <2> QED
    BY <1>2, <1>3, Induction
<1>5. Len(s) \in k .. Len(s) /\ FirstFrames(s, Len(s)) = FlattenSeq(s)
  BY <1>1, FirstFramesStep
<1> QED
  BY <1>1, <1>4, <1>5

LEMMA Cancel ==
    ASSUME NEW a \in Seq(Byte), NEW b \in Seq(Byte), NEW c \in Seq(Byte), a \o b = a \o c
    PROVE  b = c
<1>1. /\ Len(a) \in Nat /\ Len(b) \in Nat /\ Len(c) \in Nat
      /\ Len(a \o b) = Len(a) + Len(b) /\ Len(a \o c) = Len(a) + Len(c)
      /\ \A i \in 1 .. Len(b) : (a \o b)[Len(a) + i] = b[i]
      /\ \A i \in 1 .. Len(c) : (a \o c)[Len(a) + i] = c[i]
  BY ConcatProperties
<1>2. Len(b) = Len(c) /\ \A i \in 1 .. Len(b) : b[i] = c[i]
  BY <1>1
<1> QED
  BY <1>2, SeqEqual

\* Both readers cut a packet out where it ends.
LEMMA PacketCut ==
    ASSUME NEW x, IsPacket(x), NEW tail \in Seq(Byte)
    PROVE  /\ x \in Seq(Byte) /\ Len(x) \in Nat \ {0}
           /\ TotalLength(x \o tail) = Len(x) /\ ReaderLength(x \o tail) = Len(x)
<1>1. PICK start \in 3 .. Len(x) + 1 :
          /\ x[1] # 0 /\ Encodable(Len(SubSeq(x, start, Len(x))))
          /\ x = Packet(x[1], SubSeq(x, start, Len(x)))
  BY DEF IsPacket
<1> DEFINE body == SubSeq(x, start, Len(x))
<1>2. x \in Seq(Byte) /\ Len(x) \in Nat /\ Len(x) >= 2 /\ x[1] \in Byte
  <2>1. x \in Seq(Byte) /\ Len(x) \in Nat
    BY LenProperties DEF IsPacket
  <2>2. Len(x) >= 2
    BY <1>1, <2>1
  <2> QED
    BY <2>1, <2>2, ElementOfSeq
<1>3. body \in Seq(Byte)
  <2>1. \A i \in start .. Len(x) : x[i] \in Byte
    BY <1>1, <1>2, ElementOfSeq
  <2> QED
    BY <1>1, <1>2, <2>1, SubSeqProperties
<1>4. Encodable(Len(body)) /\ x = Packet(x[1], body)
  BY <1>1
<1> HIDE DEF body
<1>5. TotalLength(x) = Len(x) /\ ReaderLength(x) = Len(x)
  <2>1. /\ ReaderLength(Packet(x[1], body)) = Len(Packet(x[1], body))
        /\ TotalLength(Packet(x[1], body)) = Len(Packet(x[1], body))
    BY <1>1, <1>2, <1>3, <1>4, PacketLength
  <2> QED
    BY <1>4, <2>1
<1> QED
  BY <1>2, <1>5, LengthPrefix

LEMMA PingIsPacket == IsPacket(PingPacket) /\ PingPacket \in Seq(Byte)
<1> DEFINE p == PingPacket
           e == EncodeVarint(0)
<1>1. PINGREQ \in Byte /\ PINGREQ # 0 /\ <<>> \in Seq(Byte) /\ Len(<<>>) = 0
  BY CodecAssumptions, Empty DEF PINGREQ, Byte
<1>2. Encodable(0)
  <2>1. 0 \in Nat /\ 1 \in 1 .. MaxDigits /\ 0 < Base
    BY CodecAssumptions
  <2>2. Rest(0)[1 - 1] = 0
    BY <2>1, RestValue
  <2> QED
    BY <2>1, <2>2 DEF Encodable
<1>3. e \in Seq(Byte) /\ Len(e) \in Nat \ {0}
  BY <1>1, <1>2, EncodedTyped
<1>4. p = <<PINGREQ>> \o e /\ <<PINGREQ>> \in Seq(Byte)
  <2>1. e \o <<>> = e
    BY <1>3, Empty
  <2> QED
    BY <1>1, <2>1 DEF PingPacket, Packet, Block
<1>5. p \in Seq(Byte) /\ Len(p) = 1 + Len(e) /\ p[1] = PINGREQ
  BY <1>3, <1>4, ConcatProperties
<1> DEFINE start == Len(p) + 1
<1>6. start \in 3 .. Len(p) + 1 /\ SubSeq(p, start, Len(p)) = <<>>
  BY <1>3, <1>5
<1>7. p = Packet(p[1], SubSeq(p, start, Len(p)))
  BY <1>5, <1>6 DEF PingPacket
<1>8. p[1] # 0 /\ Encodable(Len(SubSeq(p, start, Len(p))))
  BY <1>1, <1>2, <1>5, <1>6
<1> HIDE DEF p
<1>9. IsPacket(p)
  BY <1>5, <1>6, <1>7, <1>8 DEF IsPacket
<1> QED
  BY <1>5, <1>9 DEF p

\* What the assumption says of a client.
LEMMA ClientTyped ==
    ASSUME NEW c \in Clients
    PROVE  /\ WellFormed(c.connect)
           /\ ConnectPacket(c.connect) \in Seq(Byte)
           /\ Len(ConnectPacket(c.connect)) \in Nat \ {0}
           /\ TotalLength(ConnectPacket(c.connect)) = Len(ConnectPacket(c.connect))
           /\ c.plan \in Seq(Seq(Byte)) /\ \A i \in 1 .. Len(c.plan) : IsPacket(c.plan[i])
           /\ c.down \in Seq(Seq(Byte)) /\ \A i \in 1 .. Len(c.down) : IsPacket(c.down[i])
           /\ FlattenSeq(c.plan) \in Seq(Byte) /\ FlattenSeq(c.down) \in Seq(Byte)
<1>1. /\ WellFormed(c.connect)
      /\ c.plan \in Seq(Seq(Byte)) /\ \A i \in 1 .. Len(c.plan) : IsPacket(c.plan[i])
      /\ c.down \in Seq(Seq(Byte)) /\ \A i \in 1 .. Len(c.down) : IsPacket(c.down[i])
  BY FramesAssumptions
<1>2. FlattenSeq(c.plan) \in Seq(Byte) /\ FlattenSeq(c.down) \in Seq(Byte)
  BY <1>1, Empty, FlattenAppend
<1>3. CONNECT \in Byte /\ CONNECT # 0 /\ Encodable(Len(ConnectBody(c.connect)))
  BY <1>1, CodecAssumptions DEF CONNECT, Byte, WellFormed
<1>4. /\ ConnectPacket(c.connect) \in Seq(Byte) /\ Len(ConnectPacket(c.connect)) >= 2
      /\ TotalLength(ConnectPacket(c.connect)) = Len(ConnectPacket(c.connect))
  BY <1>1, <1>3, PartsTyped, PacketLength DEF ConnectPacket
<1>5. Len(ConnectPacket(c.connect)) \in Nat
  BY <1>4, LenProperties
<1> QED
  BY <1>1, <1>2, <1>4, <1>5

\* The frames of a plan are packets.
PacketsOnly(plan) == plan \in Seq(Seq(Byte)) /\ \A i \in 1 .. Len(plan) : IsPacket(plan[i])

\* Of the frames s the first k are taken; a and b are what follows, a has been read.
FollowedBy(s, k, a, b) ==
    /\ k \in 0 .. Len(s) /\ a \in Seq(Byte) /\ b \in Seq(Byte)
    /\ FirstFrames(s, k) \o (a \o b) = FlattenSeq(s)

\* The length a reader has found for the frame a begins with, when a holds that many bytes.
FoundLength(n, a) == n \in {TotalLength(a), ReaderLength(a)} /\ n \in 1 .. Len(a)

LEMMA NextFrame ==
    ASSUME NEW s, PacketsOnly(s), NEW k, NEW a, NEW b, FollowedBy(s, k, a, b),
           NEW n, FoundLength(n, a)
    PROVE  /\ k < Len(s) /\ FirstOf(a, n) \in Seq(Byte)
           /\ FirstFrames(s, k + 1) = FirstFrames(s, k) \o FirstOf(a, n)
<1>0. /\ s \in Seq(Seq(Byte)) /\ \A i \in 1 .. Len(s) : IsPacket(s[i])
      /\ k \in 0 .. Len(s) /\ a \in Seq(Byte) /\ b \in Seq(Byte)
      /\ FirstFrames(s, k) \o (a \o b) = FlattenSeq(s)
      /\ n \in {TotalLength(a), ReaderLength(a)} /\ n \in 1 .. Len(a)
  BY DEF PacketsOnly, FollowedBy, FoundLength
<1>1. Len(s) \in Nat /\ a \o b \in Seq(Byte) /\ Len(a) \in Nat /\ FirstFrames(s, k) \in Seq(Byte)
  BY <1>0, LenProperties, Joined, FirstFramesStep
<1>2. k < Len(s)
  <2>1. ASSUME k = Len(s) PROVE FALSE
    <3>1. FirstFrames(s, k) \o (a \o b) = FirstFrames(s, k)
      BY <1>0, <2>1, FirstFramesStep
    <3>2. FirstFrames(s, k) \o (a \o b) = FirstFrames(s, k) \o <<>>
      BY <1>1, <3>1, Empty
    <3>3. a \o b = <<>>
      BY <1>1, <3>2, Empty, Cancel
    <3>4. Len(a) = 0
      BY <1>0, <3>3, ConcatProperties, LenProperties
    <3> QED
      BY <1>0, <3>4
  <2> QED
    BY <1>0, <1>1, <2>1
<1>3. /\ k + 1 \in 1 .. Len(s) /\ k + 1 \in 0 .. Len(s)
      /\ FirstFrames(s, k + 1) = FirstFrames(s, k) \o s[k + 1] /\ s[k + 1] \in Seq(Byte)
  <2>1. k + 1 \in 1 .. Len(s) /\ k + 1 \in 0 .. Len(s)
    BY <1>0, <1>1, <1>2
  <2>2. FirstFrames(s, k + 1) = FirstFrames(s, k) \o s[k + 1] /\ s[k + 1] \in Seq(Byte)
    BY <1>0, <1>2, FirstFramesStep
  <2> QED
    BY <2>1, <2>2
<1>4. PICK tail \in Seq(Byte) : FlattenSeq(s) = FirstFrames(s, k + 1) \o tail
  BY <1>0, <1>3, Behind
<1> DEFINE x == s[k + 1]
<1>5. IsPacket(x) /\ x \in Seq(Byte)
  BY <1>0, <1>3
<1>6. a \o b = x \o tail
  <2>1. FirstFrames(s, k) \o (a \o b) = FirstFrames(s, k) \o (x \o tail)
    <3>1. (FirstFrames(s, k) \o x) \o tail = FirstFrames(s, k) \o (x \o tail)
      <4>1. Regroups(FirstFrames(s, k), x, tail)
        BY <1>1, <1>4, <1>5, RegroupsAll
      <4> QED
        BY <4>1, Zenon DEF Regroups
    <3>2. FlattenSeq(s) = (FirstFrames(s, k) \o x) \o tail
      BY <1>0, <1>3, <1>4, Zenon
    <3> QED
      BY <1>0, <3>1, <3>2, Zenon
  <2>2. x \o tail \in Seq(Byte)
    BY <1>5, Joined
  <2> QED
    BY <1>1, <2>1, <2>2, Cancel
<1> HIDE DEF x
<1>7. /\ Len(x) \in Nat \ {0} /\ TotalLength(a \o b) = Len(x) /\ ReaderLength(a \o b) = Len(x)
  BY <1>5, <1>6, PacketCut
<1>8. n = Len(x)
  <2>1. n # 0
    BY <1>0
  <2> QED
    BY <1>0, <1>7, <2>1, LengthPrefix
<1>9. FirstOf(a, n) = x
  <2>1. SubSeq(a \o b, 1, n) = SubSeq(a, 1, n)
    BY <1>0, <1>1, FrameKept
  <2>2. SubSeq(x \o tail, 1, n) = SubSeq(x, 1, n)
    BY <1>5, <1>7, <1>8, FrameKept
  <2>3. SubSeq(x, 1, n) = x
    BY <1>5, <1>8, SubSeqFull
  <2> QED
    BY <1>6, <2>1, <2>2, <2>3 DEF FirstOf
<1> QED
  BY <1>2, <1>3, <1>5, <1>9 DEF x

-----------------------------------------------------------------------------
(* Type correctness.                                                       *)

\* The keepalive is a byte of the packet, or zero.
LEMMA KeepAliveTyped ==
    ASSUME NEW p \in Seq(Byte) PROVE ParseConnect(p).keepAlive \in Byte
<1> DEFINE start == Varint(p, 2).next
           fixed == Skip(p, start)
<1>1. Unparsed.keepAlive \in Byte
  BY CodecAssumptions DEF Unparsed, Byte
<1>2. ASSUME fixed # Nowhere, fixed + 2 <= Len(p) PROVE p[fixed + 2] \in Byte
  <2>1. start \in 1 .. Len(p) /\ fixed = start + 1 + p[start]
    BY <1>2 DEF Skip
  <2> HIDE DEF start, fixed
  <2>2. Len(p) \in Nat /\ p[start] \in Nat
    BY <2>1, LenProperties, ElementOfSeq, CodecAssumptions DEF Byte
  <2>3. fixed + 2 \in 1 .. Len(p)
    BY <1>2, <2>1, <2>2
  <2> QED
    BY <2>3, ElementOfSeq
<1>3. CASE fixed # Nowhere /\ fixed + 2 <= Len(p)
  <2>1. p[fixed + 2] \in Byte
    BY <1>2, <1>3
  <2>2. ParseConnect(p) = Unparsed \/ ParseConnect(p).keepAlive = p[fixed + 2]
    <3>1. ParseConnect(p) = Unparsed
            \/ \E name, word, level : ParseConnect(p) = [ok |-> TRUE, username |-> name,
                 password |-> word, level |-> level, keepAlive |-> p[fixed + 2]]
      BY Zenon DEF ParseConnect
    <3> QED
      BY <3>1
  <2> QED
    BY <1>1, <2>1, <2>2
<1>4. CASE ~(fixed # Nowhere /\ fixed + 2 <= Len(p))
  <2>1. ParseConnect(p) = Unparsed
    BY <1>4 DEF ParseConnect
  <2> QED
    BY <1>1, <2>1
<1> QED
  BY <1>3, <1>4

LEMMA IdleTimeoutTyped ==
    ASSUME NEW k \in Byte PROVE IdleTimeout(k) \in Nat
BY FramesAssumptions, CodecAssumptions DEF IdleTimeout, Byte

LEMMA TypeInit == Init => TypeOK
<1> SUFFICES ASSUME Init PROVE TypeOK
  OBVIOUS
<1>1. /\ stream \in Seq(Byte) /\ hello \in Seq(Byte) /\ toDevice \in Seq(Byte)
  BY ClientTyped DEF Init
<1>2. out \in Seq(Byte)
  BY <1>1, Joined DEF Init
<1>3. /\ buf \in Seq(Byte) /\ packet \in Seq(Byte) /\ lost \in Seq(Byte)
      /\ taken \in Seq(Byte) /\ tcp \in Seq(Byte) /\ received \in Seq(Byte)
  BY Empty DEF Init
<1>4. cuts \in Seq(Nat) /\ deliveries \in Seq(Nat)
  BY EmptySeq DEF Init
<1>5. /\ owned \in SUBSET Devices /\ held \in SUBSET Devices /\ missed \in SUBSET Devices
      /\ copies \in [Devices -> SUBSET Answers]
  BY DEF Init
<1>6. acl \in [Devices -> Verdicts] /\ refused \in SUBSET Nat /\ changes \in 0 .. MaxChanges
  BY FramesAssumptions DEF Init, Verdicts
<1>7. phase \in Phases /\ timeout \in Nat /\ quiet \in Nat /\ parsed.keepAlive \in Byte
  BY CodecAssumptions DEF Init, Phases, Unparsed, Byte
<1> QED
  BY <1>1, <1>2, <1>3, <1>4, <1>5, <1>6, <1>7 DEF TypeOK

LEMMA TypeStep == TypeOK /\ [Next]_vars => TypeOK'
<1> SUFFICES ASSUME TypeOK, [Next]_vars PROVE TypeOK'
  OBVIOUS
<1>0. MaxChanges \in Nat
  BY FramesAssumptions
<1>1. ASSUME NEW n \in 1 .. Len(out), ReadConnect(n) PROVE TypeOK'
  <2>1. n \in 0 .. Len(out) /\ out \in Seq(Byte) /\ buf \in Seq(Byte)
    BY DEF TypeOK
  <2>2. FirstOf(out, n) \in Seq(Byte) /\ RestOf(out, n) \in Seq(Byte)
    BY <2>1, Cut
  <2>3. out' \in Seq(Byte)
    BY <1>1, <2>2 DEF ReadConnect, Sends
  <2>4. buf \o FirstOf(out, n) \in Seq(Byte)
    BY <2>1, <2>2, Joined
  <2>5. CASE HasPacket(buf \o FirstOf(out, n))
    <3> DEFINE bytes == buf \o FirstOf(out, n)
               total == TotalLength(bytes)
    <3>1. total \in 0 .. Len(bytes)
      BY <2>5, <2>4, LenProperties DEF HasPacket
    <3>2. FirstOf(bytes, total) \in Seq(Byte) /\ RestOf(bytes, total) \in Seq(Byte)
      BY <2>4, <3>1, Cut
    <3>3. packet' \in Seq(Byte) /\ lost' \in Seq(Byte) /\ buf' \in Seq(Byte)
      BY <1>1, <2>5, <3>2, Empty DEF ReadConnect
    <3> QED
      BY <1>1, <2>3, <2>5, <3>3 DEF ReadConnect, Sends, TypeOK, Phases, idleVars, ownerVars, downVars
  <2>6. CASE ~HasPacket(buf \o FirstOf(out, n))
    BY <1>1, <2>3, <2>4, <2>6
       DEF ReadConnect, Sends, TypeOK, idleVars, ownerVars, downVars
  <2> QED
    BY <2>5, <2>6
<1>2. ASSUME NEW n \in 1 .. Len(out), ReadMessage(n) PROVE TypeOK'
  <2>1. n \in 0 .. Len(out) /\ out \in Seq(Byte) /\ buf \in Seq(Byte)
    BY DEF TypeOK
  <2>2. FirstOf(out, n) \in Seq(Byte) /\ RestOf(out, n) \in Seq(Byte)
    BY <2>1, Cut
  <2>3. buf' \in Seq(Byte) /\ out' \in Seq(Byte)
    BY <1>2, <2>1, <2>2, Joined DEF ReadMessage, Sends
  <2> QED
    BY <1>2, <2>3 DEF ReadMessage, Sends, TypeOK, connectVars, ownerVars, downVars
<1>3. CASE Ping
  <2>1. stream' \in Seq(Byte) /\ out' \in Seq(Byte)
    BY <1>3, PingIsPacket, Joined DEF Ping, TypeOK
  <2> QED
    BY <1>3, <2>1 DEF Ping, TypeOK, connectVars, pumpVars, idleVars, ownerVars, downVars
<1>4. CASE ConnectTimeout \/ BrokerUnreached \/ Idle \/ Break
  BY <1>4 DEF ConnectTimeout, BrokerUnreached, Idle, Break, TypeOK, Phases, Ended,
              clientVars, connectVars, pumpVars, idleVars, ownerVars, downVars
<1>5. CASE Bridge
  <2>1. timeout' \in Nat
    BY <1>5, IdleTimeoutTyped DEF Bridge, TypeOK
  <2> QED
    BY <1>5, <2>1 DEF Bridge, TypeOK, Phases, clientVars, connectVars, pumpVars, ownerVars, downVars
<1>6. ASSUME NEW frame \in Seq(Byte), Len(frame) \in 0 .. Len(buf), Take(frame),
             NEW looked, NEW says, LookUp(looked, says),
             refused' = refused \/ refused' = refused \cup {Len(cuts')}
      PROVE  TypeOK'
  <2>1. buf' \in Seq(Byte) /\ taken' \in Seq(Byte)
    BY <1>6, Cut, Joined DEF Take, TypeOK
  <2>2. cuts' \in Seq(Nat) /\ Len(cuts') \in Nat
    <3>1. cuts' = Append(cuts, Len(taken')) /\ cuts \in Seq(Nat)
      BY <1>6 DEF Take, TypeOK
    <3>2. Len(taken') \in Nat
      BY <2>1, LenProperties
    <3> QED
      BY <3>1, <3>2, AppendProperties, LenProperties
  <2>3. /\ refused' \in SUBSET Nat /\ acl' \in [Devices -> Verdicts] /\ missed' \in SUBSET Devices
        /\ copies' \in [Devices -> SUBSET Answers]
    BY <1>6, <2>2 DEF LookUp, TypeOK, Verdicts
  <2> QED
    BY <1>6, <2>1, <2>2, <2>3 DEF Take, TypeOK, clientVars, connectVars, idleVars, downVars
<1>7. CASE TakeDeviceFrame
  <2>1. TotalLength(buf) \in 0 .. Len(buf) /\ buf \in Seq(Byte)
    BY <1>7, LenProperties DEF TakeDeviceFrame, HasPacket, TypeOK
  <2>2. FirstOf(buf, TotalLength(buf)) \in Seq(Byte)
        /\ Len(FirstOf(buf, TotalLength(buf))) \in 0 .. Len(buf)
    BY <2>1, Cut
  <2> QED
    BY <1>6, <1>7, <2>2 DEF TakeDeviceFrame, Forward
<1>8. CASE TakeUserFrame
  <2>1. TotalLength(buf) \in 0 .. Len(buf) /\ buf \in Seq(Byte)
    BY <1>8, LenProperties DEF TakeUserFrame, HasPacket, TypeOK
  <2>2. FirstOf(buf, TotalLength(buf)) \in Seq(Byte)
        /\ Len(FirstOf(buf, TotalLength(buf))) \in 0 .. Len(buf)
    BY <2>1, Cut
  <2> QED
    BY <1>6, <1>8, <2>2 DEF TakeUserFrame, Forward, Drop
<1>9. CASE TextMessage \/ Tick
  <2>1. quiet' \in Nat
    BY <1>9 DEF TextMessage, Tick, TypeOK
  <2> QED
    BY <1>9, <2>1
       DEF TextMessage, Tick, TypeOK, clientVars, connectVars, pumpVars, ownerVars, downVars
<1>10. ASSUME NEW n \in 1 .. Len(toDevice), BrokerWrites(n) PROVE TypeOK'
  <2>1. n \in 0 .. Len(toDevice) /\ toDevice \in Seq(Byte) /\ tcp \in Seq(Byte)
    BY DEF TypeOK
  <2>2. tcp' \in Seq(Byte) /\ toDevice' \in Seq(Byte)
    BY <1>10, <2>1, Cut, Joined DEF BrokerWrites
  <2> QED
    BY <1>10, <2>2 DEF BrokerWrites, TypeOK, clientVars, connectVars, pumpVars, idleVars, ownerVars
<1>11. CASE ReadFrame
  <2>1. ReaderLength(tcp) \in 0 .. Len(tcp) /\ tcp \in Seq(Byte) /\ received \in Seq(Byte)
    BY <1>11, LenProperties DEF ReadFrame, ReaderHasFrame, TypeOK
  <2>2. tcp' \in Seq(Byte) /\ received' \in Seq(Byte)
    BY <1>11, <2>1, Cut, Joined DEF ReadFrame
  <2>3. deliveries' \in Seq(Nat)
    BY <1>11, <2>2 DEF ReadFrame, TypeOK
  <2> QED
    BY <1>11, <2>2, <2>3 DEF ReadFrame, TypeOK, clientVars, connectVars, pumpVars, idleVars, ownerVars
<1>12. CASE Elsewhere
  <2>1. PICK d \in Devices : RowChanges(d) \/ CopyRow(d) \/ \E answer \in copies[d] : DropCopy(d, answer)
    BY <1>12 DEF Elsewhere
  <2>2. CASE RowChanges(d)
    <3>1. changes' \in 0 .. MaxChanges /\ owned' \in SUBSET Devices /\ held' \in SUBSET Devices
          /\ missed' \in SUBSET Devices
      BY <1>0, <2>2 DEF RowChanges, TypeOK
    <3> QED
      BY <2>2, <3>1 DEF RowChanges, TypeOK, clientVars, connectVars, pumpVars, idleVars, downVars
  <2>3. CASE CopyRow(d) \/ \E answer \in copies[d] : DropCopy(d, answer)
    <3>1. copies' \in [Devices -> SUBSET Answers]
      <4>1. copies \in [Devices -> SUBSET Answers]
        BY DEF TypeOK
      <4>2. \E s \in SUBSET Answers : copies' = [copies EXCEPT ![d] = s]
        <5>1. Row(d) \in Answers /\ copies[d] \in SUBSET Answers
          BY <4>1 DEF Row, Answers
        <5>2. CASE CopyRow(d)
          <6>1. copies' = [copies EXCEPT ![d] = copies[d] \cup {Row(d)}]
            BY <5>2 DEF CopyRow
          <6> QED
            BY <5>1, <6>1
        <5>3. ASSUME NEW answer \in copies[d], DropCopy(d, answer)
              PROVE  \E s \in SUBSET Answers : copies' = [copies EXCEPT ![d] = s]
          <6>1. copies' = [copies EXCEPT ![d] = copies[d] \ {answer}]
            BY <5>3 DEF DropCopy
          <6> QED
            BY <5>1, <6>1
        <5> QED
          BY <2>3, <5>2, <5>3
      <4> QED
        BY <4>1, <4>2
    <3> QED
      BY <2>3, <3>1 DEF CopyRow, DropCopy, TypeOK, clientVars, connectVars, pumpVars, idleVars, downVars
  <2> QED
    BY <2>1, <2>2, <2>3
<1>14. CASE Authenticate
  <2>1. parsed'.keepAlive \in Byte
    BY <1>14, KeepAliveTyped DEF Authenticate, TypeOK
  <2> QED
    BY <1>14, <2>1
       DEF Authenticate, TypeOK, Phases, Ended, clientVars, pumpVars, idleVars, ownerVars, downVars
<1>13. CASE UNCHANGED vars
  BY <1>13 DEF vars, TypeOK, clientVars, connectVars, pumpVars, idleVars, ownerVars, downVars
<1> QED
  BY <1>1, <1>2, <1>3, <1>4, <1>5, <1>7, <1>8, <1>9, <1>10, <1>11, <1>12, <1>13, <1>14
     DEF Next, Receives, Pumps, Sending

(* Every variable of a connection keeps its type (HandleWebSocket). *)
THEOREM TypeCorrect == Spec => []TypeOK
  BY TypeInit, TypeStep, PTL DEF Spec

-----------------------------------------------------------------------------
(* The streams.                                                            *)

\* The first n bytes of the last part of a stream move to the end of the part before it.
MovesBehind(r, s, t, n) == (r \o (s \o FirstOf(t, n))) \o RestOf(t, n) = (r \o s) \o t

LEMMA MovedBehind ==
    ASSUME NEW r \in Seq(Byte), NEW s \in Seq(Byte), NEW t \in Seq(Byte), NEW n \in 0 .. Len(t)
    PROVE  MovesBehind(r, s, t, n)
<1> DEFINE f == FirstOf(t, n)
           g == RestOf(t, n)
<1>1. f \in Seq(Byte) /\ g \in Seq(Byte) /\ r \o s \in Seq(Byte)
  BY Cut, Joined
<1>2. f \o g = t
  BY Cut
<1> HIDE DEF f, g
<1>3. Regroups(r, s, f) /\ Regroups(r \o s, f, g)
  BY <1>1, RegroupsAll
<1>4. (r \o s) \o f = r \o (s \o f) /\ ((r \o s) \o f) \o g = (r \o s) \o (f \o g)
  BY <1>3, Zenon DEF Regroups
<1>5. (r \o (s \o f)) \o g = (r \o s) \o t
  BY <1>2, <1>4, Zenon
<1> QED
  BY <1>5, Zenon DEF MovesBehind, f, g

\* Nothing is taken, lost or forwarded before CONNECT is complete.
NothingYet == phase = "connect" => packet = <<>> /\ lost = <<>> /\ taken = <<>>

StreamInv == TypeOK /\ NothingYet /\ BytesConserved

LEMMA StreamInit == Init => NothingYet /\ BytesConserved
<1> SUFFICES ASSUME Init PROVE NothingYet /\ BytesConserved
  OBVIOUS
<1>1. /\ hello \in Seq(Byte) /\ stream \in Seq(Byte) /\ toDevice \in Seq(Byte)
      /\ out = hello \o stream
  BY ClientTyped DEF Init
<1>2. out \in Seq(Byte)
  BY <1>1, Joined
<1>3. packet \o lost \o taken \o buf \o out = out
  BY <1>2, Empty DEF Init
<1>4. received \o tcp \o toDevice = toDevice
  BY <1>1, Empty DEF Init
<1> QED
  BY <1>1, <1>3, <1>4 DEF Init, NothingYet, BytesConserved

LEMMA StreamStep == StreamInv /\ [Next]_vars => NothingYet' /\ BytesConserved'
<1> SUFFICES ASSUME StreamInv, [Next]_vars PROVE NothingYet' /\ BytesConserved'
  OBVIOUS
<1> DEFINE gone == packet \o lost
<1>0. /\ gone \in Seq(Byte) /\ gone \o taken \in Seq(Byte) /\ gone \o taken \o buf \in Seq(Byte)
      /\ received \o tcp \in Seq(Byte)
  BY Joined DEF StreamInv, TypeOK
<1> HIDE DEF gone
<1>1. ASSUME NEW n \in 1 .. Len(out), ReadConnect(n) PROVE NothingYet' /\ BytesConserved'
  <2>1. n \in 0 .. Len(out) /\ out \in Seq(Byte) /\ buf \in Seq(Byte)
    BY DEF StreamInv, TypeOK
  <2>2. /\ packet = <<>> /\ lost = <<>> /\ taken = <<>> /\ taken' = taken
        /\ out' = RestOf(out, n) /\ UNCHANGED <<hello, stream, downVars, client>>
    BY <1>1 DEF ReadConnect, Sends, StreamInv, NothingYet
  <2>3. /\ FirstOf(out, n) \in Seq(Byte) /\ RestOf(out, n) \in Seq(Byte)
        /\ buf \o FirstOf(out, n) \in Seq(Byte)
    BY <2>1, Cut, Joined
  <2>4. packet \o lost \o taken \o buf = buf
    BY <2>1, <2>2, Empty
  <2>5. (buf \o FirstOf(out, n)) \o RestOf(out, n) = hello \o stream
    <3>1. (buf \o FirstOf(out, n)) \o RestOf(out, n) = buf \o out
      BY <2>1, Moved
    <3> QED
      BY <2>4, <3>1 DEF StreamInv, BytesConserved
  <2>6. CASE HasPacket(buf \o FirstOf(out, n))
    <3> DEFINE bytes == buf \o FirstOf(out, n)
               total == TotalLength(bytes)
    <3>1. total \in 0 .. Len(bytes)
      BY <2>6, <2>3, LenProperties DEF HasPacket
    <3>2. /\ FirstOf(bytes, total) \in Seq(Byte) /\ RestOf(bytes, total) \in Seq(Byte)
          /\ FirstOf(bytes, total) \o RestOf(bytes, total) = bytes
      BY <2>3, <3>1, Cut
    <3>3. packet' = FirstOf(bytes, total) /\ lost' = RestOf(bytes, total) /\ buf' = <<>>
          /\ phase' = "credentials"
      BY <1>1, <2>6 DEF ReadConnect
    <3>4. packet' \o lost' = bytes
      BY <3>2, <3>3, Zenon
    <3>5. packet' \o lost' \o taken' \o buf' = bytes
      BY <2>2, <2>3, <3>3, <3>4, Empty
    <3> QED
      BY <2>2, <2>5, <3>3, <3>5 DEF NothingYet, BytesConserved, StreamInv, downVars
  <2>7. CASE ~HasPacket(buf \o FirstOf(out, n))
    <3>1. buf' = buf \o FirstOf(out, n) /\ UNCHANGED <<packet, lost>>
      BY <1>1, <2>7 DEF ReadConnect
    <3>2. packet' \o lost' \o taken' \o buf' = buf \o FirstOf(out, n)
      BY <2>2, <2>3, <3>1, Empty
    <3> QED
      BY <2>2, <2>5, <3>1, <3>2 DEF NothingYet, BytesConserved, StreamInv, downVars
  <2> QED
    BY <2>6, <2>7
<1>2. ASSUME NEW n \in 1 .. Len(out), ReadMessage(n) PROVE NothingYet' /\ BytesConserved'
  <2>1. n \in 0 .. Len(out) /\ out \in Seq(Byte) /\ buf \in Seq(Byte)
    BY DEF StreamInv, TypeOK
  <2>2. /\ buf' = buf \o FirstOf(out, n) /\ out' = RestOf(out, n) /\ phase' = "bridged"
        /\ UNCHANGED <<packet, lost, taken, client, hello, stream, toDevice, tcp, received>>
    BY <1>2 DEF ReadMessage, Sends, connectVars, downVars
  <2>3. ((gone \o taken) \o buf') \o out' = ((gone \o taken) \o buf) \o out
    <3> DEFINE front == gone \o taken
    <3>1. front \in Seq(Byte)
      BY <1>0
    <3> HIDE DEF front
    <3>2. (front \o (buf \o FirstOf(out, n))) \o RestOf(out, n) = (front \o buf) \o out
      <4>1. MovesBehind(front, buf, out, n)
        BY <2>1, <3>1, MovedBehind
      <4> QED
        BY <4>1, Zenon DEF MovesBehind
    <3> QED
      BY <2>2, <3>2, Zenon DEF front
  <2> QED
    BY <2>2, <2>3 DEF NothingYet, BytesConserved, StreamInv, gone
<1>3. CASE Ping
  <2> DEFINE before == packet \o lost \o taken \o buf
  <2>1. /\ out = <<>> /\ out' = PingPacket /\ stream' = stream \o PingPacket /\ phase' = "bridged"
        /\ UNCHANGED <<packet, lost, taken, buf, client, hello, toDevice, tcp, received>>
    BY <1>3 DEF Ping, connectVars, pumpVars, downVars
  <2>2. /\ before \in Seq(Byte) /\ PingPacket \in Seq(Byte)
        /\ hello \in Seq(Byte) /\ stream \in Seq(Byte)
    BY <1>0, PingIsPacket DEF StreamInv, TypeOK, gone
  <2>3. before = hello \o stream
    <3>1. before \o <<>> = before
      BY <2>2, Empty
    <3> QED
      BY <2>1, <3>1 DEF StreamInv, BytesConserved
  <2>4. (hello \o stream) \o PingPacket = hello \o (stream \o PingPacket)
    <3>1. Regroups(hello, stream, PingPacket)
      BY <2>2, RegroupsAll
    <3> QED
      BY <3>1, Zenon DEF Regroups
  <2> QED
    BY <2>1, <2>3, <2>4 DEF NothingYet, BytesConserved, StreamInv
<1>4. CASE ConnectTimeout \/ Authenticate \/ Bridge \/ BrokerUnreached \/ Idle \/ Break
           \/ TextMessage \/ Tick
  BY <1>4 DEF ConnectTimeout, Authenticate, Bridge, BrokerUnreached, Idle, Break, TextMessage, Tick,
              clientVars, connectVars, pumpVars, downVars, NothingYet, BytesConserved, StreamInv
<1>5. ASSUME TotalLength(buf) \in 0 .. Len(buf), phase = "bridged",
             Take(FirstOf(buf, TotalLength(buf)))
      PROVE  NothingYet' /\ BytesConserved'
  <2>1. buf \in Seq(Byte) /\ taken \in Seq(Byte)
    BY DEF StreamInv, TypeOK
  <2>2. Len(FirstOf(buf, TotalLength(buf))) = TotalLength(buf)
    BY <1>5, <2>1, Cut
  <2>3. /\ taken' = taken \o FirstOf(buf, TotalLength(buf)) /\ buf' = RestOf(buf, TotalLength(buf))
        /\ UNCHANGED <<packet, lost, phase, client, hello, stream, out, toDevice, tcp, received>>
    BY <1>5, <2>2 DEF Take, clientVars, connectVars, downVars
  <2>4. (gone \o taken') \o buf' = (gone \o taken) \o buf
    <3> DEFINE n == TotalLength(buf)
    <3>1. n \in 0 .. Len(buf) /\ gone \in Seq(Byte)
      BY <1>0, <1>5
    <3> HIDE DEF n
    <3>2. (gone \o (taken \o FirstOf(buf, n))) \o RestOf(buf, n) = (gone \o taken) \o buf
      <4>1. MovesBehind(gone, taken, buf, n)
        BY <2>1, <3>1, MovedBehind
      <4> QED
        BY <4>1, Zenon DEF MovesBehind
    <3> QED
      BY <2>3, <3>2, Zenon DEF n
  <2> QED
    BY <1>5, <2>3, <2>4 DEF NothingYet, BytesConserved, StreamInv, gone
<1>6. CASE Pumps
  <2>1. /\ phase = "bridged" /\ TotalLength(buf) \in 1 .. Len(buf)
        /\ Take(FirstOf(buf, TotalLength(buf)))
    BY <1>6 DEF Pumps, TakeDeviceFrame, TakeUserFrame, Forward, Drop, HasPacket
  <2>2. TotalLength(buf) \in 0 .. Len(buf)
    BY <2>1, LenProperties DEF StreamInv, TypeOK
  <2> QED
    BY <1>5, <2>1, <2>2
<1>7. ASSUME NEW n \in 1 .. Len(toDevice), BrokerWrites(n) PROVE NothingYet' /\ BytesConserved'
  <2>1. n \in 0 .. Len(toDevice) /\ toDevice \in Seq(Byte) /\ tcp \in Seq(Byte)
        /\ received \in Seq(Byte)
    BY DEF StreamInv, TypeOK
  <2>2. /\ tcp' = tcp \o FirstOf(toDevice, n) /\ toDevice' = RestOf(toDevice, n)
        /\ UNCHANGED <<packet, lost, taken, buf, phase, client, hello, stream, out, received>>
    BY <1>7 DEF BrokerWrites, clientVars, connectVars, pumpVars
  <2>3. (received \o tcp') \o toDevice' = (received \o tcp) \o toDevice
    <3>1. (received \o (tcp \o FirstOf(toDevice, n))) \o RestOf(toDevice, n)
            = (received \o tcp) \o toDevice
      <4>1. MovesBehind(received, tcp, toDevice, n)
        BY <2>1, MovedBehind
      <4> QED
        BY <4>1, Zenon DEF MovesBehind
    <3> QED
      BY <2>2, <3>1, Zenon
  <2> QED
    BY <2>2, <2>3 DEF NothingYet, BytesConserved, StreamInv
<1>8. CASE ReadFrame
  <2>1. ReaderLength(tcp) \in 0 .. Len(tcp) /\ tcp \in Seq(Byte) /\ received \in Seq(Byte)
    <3>1. tcp \in Seq(Byte) /\ received \in Seq(Byte)
      BY DEF StreamInv, TypeOK
    <3>2. ReaderLength(tcp) \in 1 .. Len(tcp) /\ Len(tcp) \in Nat
      BY <1>8, <3>1, LenProperties DEF ReadFrame, ReaderHasFrame
    <3> QED
      BY <3>1, <3>2
  <2>2. /\ received' = received \o FirstOf(tcp, ReaderLength(tcp))
        /\ tcp' = RestOf(tcp, ReaderLength(tcp))
        /\ UNCHANGED <<packet, lost, taken, buf, phase, client, hello, stream, out, toDevice>>
    BY <1>8 DEF ReadFrame, clientVars, connectVars, pumpVars
  <2>3. received' \o tcp' = received \o tcp
    BY <2>1, <2>2, Moved
  <2> QED
    BY <2>2, <2>3 DEF NothingYet, BytesConserved, StreamInv
<1>9. CASE Elsewhere
  BY <1>9 DEF Elsewhere, RowChanges, CopyRow, DropCopy,
              clientVars, connectVars, pumpVars, downVars, NothingYet, BytesConserved,
              StreamInv
<1>10. CASE UNCHANGED vars
  BY <1>10 DEF vars, clientVars, connectVars, pumpVars, downVars, NothingYet, BytesConserved, StreamInv
<1> QED
  BY <1>1, <1>2, <1>3, <1>4, <1>6, <1>7, <1>8, <1>9, <1>10 DEF Next, Receives, Sending

(* However the client and the broker cut their bytes into messages and chunks, and whenever the
   connection ends, both streams keep every byte in its place; the only bytes that leave the
   stream are those read together with the end of CONNECT (HandleWebSocket). *)
THEOREM StreamsConserved == Spec => []BytesConserved
<1>1. Init => StreamInv
  BY StreamInit, TypeInit DEF StreamInv
<1>2. StreamInv /\ [Next]_vars => StreamInv'
  BY StreamStep, TypeStep DEF StreamInv
<1>3. StreamInv => BytesConserved
  BY DEF StreamInv
<1> QED
  BY <1>1, <1>2, <1>3, PTL DEF Spec

-----------------------------------------------------------------------------
(* Whose topics reach the broker.                                          *)

\* What a lookup may say, and what conn.acl holds, is known to held and missed.
VerdictsWereTrue ==
    \A d \in Devices : /\ "yes" \in MayAnswer(d) \cup {acl[d]} => d \in held
                       /\ "no" \in MayAnswer(d) \cup {acl[d]} => d \in missed

\* The frames taken lie one behind the other and fill taken; nothing is taken before the bridge.
FramesInOrder ==
    /\ phase \in {"connect", "late", "credentials", "dial"} => cuts = <<>>
    /\ cuts = <<>> => taken = <<>>
    /\ cuts # <<>> => cuts[Len(cuts)] = Len(taken)
    /\ \A i \in 1 .. Len(cuts) : cuts[i] <= Len(taken)
    /\ refused \subseteq 1 .. Len(cuts)

\* OnlyOwnTopics of the topics the gateway reads.
TopicsHold ==
    \A i \in 1 .. Len(cuts) :
        LET named == ToSet(Topics(Frame(i), parsed.level))
        IN  IF i \in refused
            THEN client.how = "login" /\ \E d \in named : d \in missed \/ d \notin Devices
            ELSE client.how = "login" => named \subseteq held

TopicInv == TypeOK /\ VerdictsWereTrue /\ FramesInOrder /\ TopicsHold

LEMMA TopicInit == Init => VerdictsWereTrue /\ FramesInOrder /\ TopicsHold
BY DEF Init, VerdictsWereTrue, FramesInOrder, TopicsHold, MayAnswer, Row

\* One more end behind the ends there are.
LEMMA Appended ==
    ASSUME NEW s \in Seq(Nat), NEW x \in Nat
    PROVE  /\ Len(Append(s, x)) = Len(s) + 1 /\ Append(s, x) # <<>>
           /\ Append(s, x)[Len(s) + 1] = x
           /\ \A i \in 1 .. Len(s) : Append(s, x)[i] = s[i]
<1>1. Len(s) \in Nat /\ Len(Append(s, x)) = Len(s) + 1
  OBVIOUS
<1>2. Append(s, x)[Len(s) + 1] = x
  OBVIOUS
<1>3. ASSUME NEW i \in 1 .. Len(s) PROVE Append(s, x)[i] = s[i]
  OBVIOUS
<1>4. Append(s, x) # <<>>
  BY <1>1
<1> QED
  BY <1>1, <1>2, <1>3, <1>4, Zenon

\* What one frame adds: its end, and the frames before it stay what they were.
LEMMA FramesOfTake ==
    ASSUME TopicInv, NEW frame \in Seq(Byte), Take(frame)
    PROVE  /\ Len(cuts') = Len(cuts) + 1 /\ Len(cuts) \in Nat
           /\ \A i \in 1 .. Len(cuts) : Frame(i)' = Frame(i) /\ cuts'[i] <= Len(taken')
           /\ \A n \in Nat : n = Len(cuts) + 1 => Frame(n)' = frame
           /\ cuts' # <<>> /\ cuts'[Len(cuts')] = Len(taken')
<1>1. /\ taken \in Seq(Byte) /\ cuts \in Seq(Nat) /\ taken' = taken \o frame
      /\ cuts' = Append(cuts, Len(taken'))
  BY DEF Take, TopicInv, TypeOK
<1>2. taken' \in Seq(Byte) /\ Len(taken') \in Nat /\ Len(taken) \in Nat /\ Len(taken) <= Len(taken')
  BY <1>1
<1>3. /\ Len(cuts') = Len(cuts) + 1 /\ Len(cuts) \in Nat /\ cuts' # <<>>
      /\ cuts'[Len(cuts')] = Len(taken')
      /\ \A i \in 1 .. Len(cuts) : cuts'[i] = cuts[i] /\ cuts[i] \in Nat
  <2>1. /\ Len(cuts') = Len(cuts) + 1 /\ cuts' # <<>> /\ cuts'[Len(cuts) + 1] = Len(taken')
        /\ \A i \in 1 .. Len(cuts) : cuts'[i] = cuts[i]
    BY <1>1, <1>2, Appended, Zenon
  <2>2. Len(cuts) \in Nat /\ \A i \in 1 .. Len(cuts) : cuts[i] \in Nat
    BY <1>1
  <2> QED
    BY <2>1, <2>2
<1>4. ASSUME NEW i \in 1 .. Len(cuts) PROVE Frame(i)' = Frame(i) /\ cuts'[i] <= Len(taken')
  <2> DEFINE m == (IF i = 1 THEN 0 ELSE cuts[i - 1]) + 1
  <2>1. m \in Nat /\ m >= 1
    <3>1. CASE i = 1
      BY <3>1
    <3>2. CASE i # 1
      <4>1. i - 1 \in 1 .. Len(cuts)
        BY <1>3, <3>2
      <4>2. cuts[i - 1] \in Nat
        BY <1>3, <4>1, Zenon
      <4> QED
        BY <3>2, <4>2
    <3> QED
      BY <3>1, <3>2
  <2>2. cuts[i] <= Len(taken)
    BY DEF TopicInv, FramesInOrder
  <2>3. Frame(i) = SubSeq(taken, m, cuts[i])
    BY DEF Frame
  <2>4. Frame(i)' = SubSeq(taken', m, cuts[i])
    <3>1. i # 1 => i - 1 \in 1 .. Len(cuts)
      BY <1>3
    <3> QED
      BY <1>3, <3>1 DEF Frame
  <2> HIDE DEF m
  <2>5. SubSeq(taken \o frame, m, cuts[i]) = SubSeq(taken, m, cuts[i])
    BY <1>1, <1>3, <2>1, <2>2, FrameKept
  <2> QED
    BY <1>1, <1>2, <1>3, <2>2, <2>3, <2>4, <2>5
<1>5. ASSUME NEW n \in Nat, n = Len(cuts) + 1 PROVE Frame(n)' = frame
  <2>1. n = Len(cuts) + 1 /\ n = Len(cuts')
    BY <1>3, <1>5
  <2>2. (IF n = 1 THEN 0 ELSE cuts'[n - 1]) = Len(taken)
    <3>1. CASE n = 1
      <4>1. cuts = <<>>
        BY <1>1, <2>1, <3>1
      <4>2. taken = <<>>
        BY <4>1 DEF TopicInv, FramesInOrder
      <4> QED
        BY <3>1, <4>2
    <3>2. CASE n # 1
      <4>1. Len(cuts) \in 1 .. Len(cuts) /\ cuts # <<>>
        BY <1>1, <1>3, <2>1, <3>2
      <4>2. cuts'[Len(cuts)] = Len(taken)
        BY <1>3, <4>1 DEF TopicInv, FramesInOrder
      <4> QED
        BY <1>3, <2>1, <3>2, <4>2
    <3> QED
      BY <3>1, <3>2
  <2>3. Frame(n)' = SubSeq(taken \o frame, Len(taken) + 1, Len(taken \o frame))
    <3>1. Frame(n)' = SubSeq(taken', (IF n = 1 THEN 0 ELSE cuts'[n - 1]) + 1, cuts'[n])
      BY DEF Frame
    <3> QED
      BY <1>1, <1>3, <2>1, <2>2, <3>1
  <2> QED
    BY <1>1, <2>3, FrameAdded
<1> QED
  BY <1>3, <1>4, <1>5

LEMMA TopicStep ==
    TopicInv /\ [Next]_vars => VerdictsWereTrue' /\ FramesInOrder' /\ TopicsHold'
<1> SUFFICES ASSUME TopicInv, [Next]_vars
             PROVE  VerdictsWereTrue' /\ FramesInOrder' /\ TopicsHold'
  OBVIOUS
<1> DEFINE Named(i) == ToSet(Topics(Frame(i), parsed.level))
<1>1. ASSUME UNCHANGED <<client, parsed, taken, cuts, refused, acl, ownerVars>>,
             cuts # <<>> => phase' \notin {"connect", "late", "credentials", "dial"}
      PROVE  VerdictsWereTrue' /\ FramesInOrder' /\ TopicsHold'
  <2>1. VerdictsWereTrue' /\ FramesInOrder'
    BY <1>1 DEF ownerVars, TopicInv, VerdictsWereTrue, FramesInOrder, MayAnswer, Row
  <2>2. TopicsHold'
    BY <1>1 DEF ownerVars, TopicInv, TopicsHold, Frame
  <2> QED
    BY <2>1, <2>2
<1>2. CASE Receives \/ Ping \/ ConnectTimeout \/ Bridge \/ BrokerUnreached \/ Idle \/ Break
           \/ TextMessage \/ Tick \/ Sending \/ ReadFrame \/ UNCHANGED vars
  <2>1. UNCHANGED <<client, parsed, taken, cuts, refused, acl, ownerVars>>
    BY <1>2 DEF Receives, ReadConnect, ReadMessage, Sends, Ping, ConnectTimeout, Bridge,
                BrokerUnreached, Idle, Break, TextMessage, Tick, Sending, BrokerWrites, ReadFrame,
                vars, clientVars, connectVars, pumpVars
  <2>2. cuts # <<>> => phase' \notin {"connect", "late", "credentials", "dial"}
    BY <1>2 DEF Receives, ReadConnect, ReadMessage, Ping, ConnectTimeout, Bridge,
                BrokerUnreached, Idle, Break, TextMessage, Tick, Sending, BrokerWrites, ReadFrame,
                vars, TopicInv, FramesInOrder
  <2> QED
    BY <1>1, <2>1, <2>2
<1>3. CASE Authenticate
  <2>1. cuts = <<>> /\ cuts' = <<>> /\ UNCHANGED <<client, taken, refused, acl, ownerVars>>
    BY <1>3 DEF Authenticate, pumpVars, clientVars, TopicInv, FramesInOrder
  <2> QED
    BY <2>1 DEF ownerVars, TopicInv, VerdictsWereTrue, FramesInOrder, TopicsHold, MayAnswer, Row
<1>4. CASE Elsewhere
  <2>1. PICK d \in Devices : RowChanges(d) \/ CopyRow(d) \/ \E answer \in copies[d] : DropCopy(d, answer)
    BY <1>4 DEF Elsewhere
  <2>2. /\ held \subseteq held' /\ missed \subseteq missed'
        /\ UNCHANGED <<phase, client, parsed, taken, cuts, refused, acl>>
    BY <2>1 DEF RowChanges, CopyRow, DropCopy, clientVars, connectVars, pumpVars
  <2>3. ASSUME NEW e \in Devices PROVE /\ "yes" \in MayAnswer(e)' => e \in held'
                                       /\ "no" \in MayAnswer(e)' => e \in missed'
    <3>1. CASE RowChanges(d)
      BY <3>1 DEF RowChanges, MayAnswer, Row, TopicInv, TypeOK, VerdictsWereTrue
    <3>2. CASE CopyRow(d)
      BY <3>2 DEF CopyRow, MayAnswer, Row, TopicInv, TypeOK, VerdictsWereTrue
    <3>3. CASE \E answer \in copies[d] : DropCopy(d, answer)
      BY <3>3 DEF DropCopy, MayAnswer, Row, TopicInv, TypeOK, VerdictsWereTrue
    <3> QED
      BY <2>1, <3>1, <3>2, <3>3
  <2>4. VerdictsWereTrue' /\ FramesInOrder'
    BY <2>2, <2>3 DEF TopicInv, VerdictsWereTrue, FramesInOrder
  <2>5. TopicsHold'
    BY <2>2 DEF TopicInv, TopicsHold, Frame
  <2> QED
    BY <2>4, <2>5
<1>5. ASSUME NEW frame \in Seq(Byte), NEW says \in Lookups, NEW looked, phase = "bridged",
             Take(frame), LookUp(looked, says),
             refused' \in {refused, refused \cup {Len(cuts')}}
      PROVE  /\ VerdictsWereTrue' /\ FramesInOrder'
             /\ \A i \in 1 .. Len(cuts) :
                    Frame(i)' = Frame(i) /\ (i \in refused' <=> i \in refused)
             /\ \A n \in Nat : n = Len(cuts) + 1 =>
                    Frame(n)' = frame /\ (n \in refused' <=> refused' # refused)
             /\ missed \subseteq missed' /\ held' = held
             /\ Len(cuts') = Len(cuts) + 1 /\ Len(cuts) \in Nat
  <2>1. missed \subseteq missed' /\ held' = held /\ owned' = owned
    BY <1>5 DEF Take, LookUp
  <2>6. ASSUME NEW d \in Devices
        PROVE  /\ "yes" \in MayAnswer(d)' \cup {acl'[d]} => d \in held'
               /\ "no" \in MayAnswer(d)' \cup {acl'[d]} => d \in missed'
    <3>1. says[d] \in MayAnswer(d) \cup {"error"}
      BY DEF Lookups
    <3> QED
      BY <1>5, <2>1, <3>1 DEF LookUp, Owns, MayAnswer, Row, Answers, TopicInv, TypeOK, VerdictsWereTrue
  <2>7. VerdictsWereTrue'
    BY <2>6 DEF VerdictsWereTrue
  <2>2. /\ Len(cuts') = Len(cuts) + 1 /\ Len(cuts) \in Nat
        /\ \A i \in 1 .. Len(cuts) : Frame(i)' = Frame(i) /\ cuts'[i] <= Len(taken')
        /\ \A n \in Nat : n = Len(cuts) + 1 => Frame(n)' = frame
        /\ cuts' # <<>> /\ cuts'[Len(cuts')] = Len(taken')
    BY <1>5, FramesOfTake
  <2>3. refused \subseteq 1 .. Len(cuts)
    BY DEF TopicInv, FramesInOrder
  <2>4. Len(taken') \in Nat
    BY <1>5, Joined, LenProperties DEF Take, TopicInv, TypeOK
  <2>5. FramesInOrder'
    <3>1. phase' = "bridged"
      BY <1>5 DEF Take
    <3>2. \A i \in 1 .. Len(cuts') : cuts'[i] <= Len(taken')
      BY <2>2, <2>4
    <3>3. refused' \subseteq 1 .. Len(cuts')
      BY <1>5, <2>2, <2>3
    <3> QED
      BY <2>2, <3>1, <3>2, <3>3 DEF FramesInOrder
  <2> QED
    BY <1>5, <2>1, <2>2, <2>3, <2>5, <2>7
<1>6. ASSUME NEW frame \in Seq(Byte), NEW says \in Lookups, NEW topics, phase = "bridged",
             Forward(frame, topics, says),
             client.how = "login" => topics = Topics(frame, parsed.level)
      PROVE  VerdictsWereTrue' /\ FramesInOrder' /\ TopicsHold'
  <2>1. /\ VerdictsWereTrue' /\ FramesInOrder'
        /\ \A i \in 1 .. Len(cuts) :
                    Frame(i)' = Frame(i) /\ (i \in refused' <=> i \in refused)
        /\ \A n \in Nat : n = Len(cuts) + 1 =>
                    Frame(n)' = frame /\ (n \in refused' <=> refused' # refused)
        /\ missed \subseteq missed' /\ held' = held
        /\ Len(cuts') = Len(cuts) + 1 /\ Len(cuts) \in Nat
    BY <1>5, <1>6 DEF Forward
  <2>2. refused' = refused /\ UNCHANGED <<client, parsed>>
    BY <1>6 DEF Forward, Take, clientVars, connectVars
  <2>3. ToSet(topics) \subseteq held
    <3>1. ASSUME NEW i \in DOMAIN topics PROVE topics[i] \in held
      <4>1. topics[i] \in Devices /\ Verdict(topics[i], says)
        BY <1>6 DEF Forward, Addressable
      <4>2. "yes" \in MayAnswer(topics[i]) \cup {acl[topics[i]]}
        BY <4>1 DEF Lookups, Verdict, Owns
      <4> QED
        BY <4>1, <4>2 DEF TopicInv, VerdictsWereTrue
    <3> QED
      BY <3>1 DEF ToSet
  <2>4. TopicsHold'
    BY <1>6, <2>1, <2>2, <2>3 DEF TopicInv, TopicsHold
  <2> QED
    BY <2>1, <2>4
<1>7. ASSUME NEW frame \in Seq(Byte), NEW says \in Lookups, NEW topics, phase = "bridged",
             NEW stop \in DOMAIN topics, Drop(frame, topics, stop, says),
             client.how = "login", topics = Topics(frame, parsed.level)
      PROVE  VerdictsWereTrue' /\ FramesInOrder' /\ TopicsHold'
  <2>1. /\ VerdictsWereTrue' /\ FramesInOrder'
        /\ \A i \in 1 .. Len(cuts) :
                    Frame(i)' = Frame(i) /\ (i \in refused' <=> i \in refused)
        /\ \A n \in Nat : n = Len(cuts) + 1 =>
                    Frame(n)' = frame /\ (n \in refused' <=> refused' # refused)
        /\ missed \subseteq missed' /\ held' = held
        /\ Len(cuts') = Len(cuts) + 1 /\ Len(cuts) \in Nat
    BY <1>5, <1>7 DEF Drop
  <2>2. refused' = refused \cup {Len(cuts')} /\ UNCHANGED <<client, parsed>>
    BY <1>7 DEF Drop, Take, clientVars, connectVars
  <2>3. topics[stop] \notin Devices \/ topics[stop] \in missed'
    <3>1. CASE topics[stop] \in Devices
      <4>1. ~Verdict(topics[stop], says)
        BY <1>7, <3>1 DEF Drop, Addressable
      <4>2. CASE acl[topics[stop]] # "unknown"
        <5>1. acl[topics[stop]] = "no"
          BY <3>1, <4>1, <4>2 DEF Verdict, TopicInv, TypeOK, Verdicts
        <5> QED
          BY <2>1, <3>1, <5>1 DEF TopicInv, VerdictsWereTrue
      <4>3. CASE acl[topics[stop]] = "unknown"
        <5>1. says[topics[stop]] \in {"no", "error"}
          BY <3>1, <4>1, <4>3 DEF Verdict, Owns, Lookups, Answers
        <5>2. says[topics[stop]] = "error" => topics[stop] \in missed'
          BY <1>7, <3>1, <4>3 DEF Drop, LookUp
        <5>3. says[topics[stop]] = "no" => topics[stop] \in missed
          BY <3>1 DEF Lookups, TopicInv, VerdictsWereTrue
        <5> QED
          BY <2>1, <5>1, <5>2, <5>3
      <4> QED
        BY <4>2, <4>3
    <3> QED
      BY <3>1
  <2>4. topics[stop] \in ToSet(topics)
    BY DEF ToSet
  <2>5. TopicsHold'
    BY <1>7, <2>1, <2>2, <2>3, <2>4 DEF TopicInv, TopicsHold
  <2> QED
    BY <2>1, <2>5
<1>8. CASE TakeDeviceFrame
  <2>1. FirstOf(buf, TotalLength(buf)) \in Seq(Byte)
    BY <1>8, Cut, LenProperties DEF TakeDeviceFrame, HasPacket, TopicInv, TypeOK
  <2> QED
    BY <1>6, <1>8, <2>1 DEF TakeDeviceFrame, Lookups
<1>9. CASE TakeUserFrame
  <2>1. FirstOf(buf, TotalLength(buf)) \in Seq(Byte)
    BY <1>9, Cut, LenProperties DEF TakeUserFrame, HasPacket, TopicInv, TypeOK
  <2> QED
    BY <1>6, <1>7, <1>9, <2>1 DEF TakeUserFrame
<1> QED
  BY <1>2, <1>3, <1>4, <1>8, <1>9 DEF Next, Pumps

-----------------------------------------------------------------------------
(* What the gateway takes for CONNECT.                                     *)

\* CONNECT is forwarded as the client sent it, and parsed is read from it.
GotHello ==
    /\ client \in Clients /\ hello = ConnectPacket(client.connect)
    /\ phase \in {"connect", "late"} => packet = <<>>
    /\ phase \notin {"connect", "late"} => packet = hello
    /\ phase \notin {"connect", "late", "credentials"} => parsed = ParseConnect(hello)

HelloInv == StreamInv /\ GotHello

LEMMA HelloInit == Init => GotHello
BY DEF Init, GotHello

LEMMA HelloStep == HelloInv /\ [Next]_vars => GotHello'
<1> SUFFICES ASSUME HelloInv, [Next]_vars PROVE GotHello'
  OBVIOUS
<1>1. ASSUME NEW n \in 1 .. Len(out), ReadConnect(n) PROVE GotHello'
  <2> DEFINE bytes == buf \o FirstOf(out, n)
             rest == RestOf(out, n)
  <2>1. n \in 0 .. Len(out) /\ out \in Seq(Byte) /\ buf \in Seq(Byte)
        /\ hello \in Seq(Byte) /\ stream \in Seq(Byte)
    BY DEF HelloInv, StreamInv, TypeOK
  <2>2. bytes \in Seq(Byte) /\ rest \in Seq(Byte)
    BY <2>1, Cut, Joined
  <2>3. bytes \o rest = hello \o stream
    <3>1. packet = <<>> /\ lost = <<>> /\ taken = <<>>
      BY <1>1 DEF ReadConnect, HelloInv, StreamInv, NothingYet
    <3>2. packet \o lost \o taken \o buf = buf
      BY <2>1, <3>1, Empty
    <3>3. bytes \o rest = buf \o out
      BY <2>1, Moved
    <3> QED
      BY <3>2, <3>3 DEF HelloInv, StreamInv, BytesConserved
  <2>4. client' = client /\ hello' = hello /\ phase = "connect"
    BY <1>1 DEF ReadConnect, Sends
  <2>5. CASE HasPacket(bytes)
    <3>1. packet' = SubSeq(bytes, 1, TotalLength(bytes)) /\ phase' = "credentials"
      BY <1>1, <2>5 DEF ReadConnect, FirstOf
    <3>2. TotalLength(bytes) \in 1 .. Len(bytes)
      BY <2>5 DEF HasPacket
    <3> HIDE DEF bytes, rest
    <3>3. /\ TotalLength(hello) = Len(hello) /\ Len(hello) \in Nat \ {0} /\ Len(bytes) \in Nat
      BY <2>2, ClientTyped, LenProperties DEF HelloInv, GotHello
    <3>4. TotalLength(bytes) = Len(hello)
      <4>1. TotalLength(hello \o stream) = Len(hello)
        BY <2>1, <3>3, LengthPrefix
      <4>2. TotalLength(bytes) # 0
        BY <3>2, <3>3
      <4>3. TotalLength(bytes \o rest) = TotalLength(bytes)
        BY <2>2, <4>2, LengthPrefix
      <4> QED
        BY <2>3, <4>1, <4>3
    <3>5. packet' = hello
      <4>1. SubSeq(bytes \o rest, 1, Len(hello)) = SubSeq(bytes, 1, Len(hello))
        BY <2>2, <3>2, <3>3, <3>4, FrameKept
      <4>2. SubSeq(hello \o stream, 1, Len(hello)) = SubSeq(hello, 1, Len(hello))
        BY <2>1, <3>3, FrameKept
      <4>3. SubSeq(hello, 1, Len(hello)) = hello
        BY <2>1, SubSeqFull
      <4> QED
        BY <2>3, <3>1, <3>4, <4>1, <4>2, <4>3
    <3> QED
      BY <2>4, <3>1, <3>5 DEF HelloInv, GotHello
  <2>6. CASE ~HasPacket(bytes)
    BY <1>1, <2>4, <2>6 DEF ReadConnect, HelloInv, GotHello
  <2> QED
    BY <2>5, <2>6
<1>2. CASE Authenticate
  BY <1>2 DEF Authenticate, clientVars, HelloInv, GotHello
<1>3. ASSUME UNCHANGED <<client, hello, packet, parsed>>,
             \/ phase' = phase
             \/ phase = "connect" /\ phase' = "late"
             \/ phase \in {"dial", "bridged"} /\ phase' \in {"bridged", "unreached", "idle", "broken"}
      PROVE  GotHello'
  BY <1>3 DEF HelloInv, GotHello
<1>4. CASE ConnectTimeout \/ Bridge \/ BrokerUnreached \/ Idle \/ Break
  <2>1. UNCHANGED <<client, hello, packet, parsed>>
    BY <1>4 DEF ConnectTimeout, Bridge, BrokerUnreached, Idle, Break, clientVars, connectVars
  <2> QED
    BY <1>3, <1>4, <2>1 DEF ConnectTimeout, Bridge, BrokerUnreached, Idle, Break
<1>5. CASE (\E n \in 1 .. Len(out) : ReadMessage(n)) \/ Ping \/ Pumps \/ TextMessage \/ Tick
           \/ Sending \/ ReadFrame \/ Elsewhere \/ UNCHANGED vars
  <2>1. UNCHANGED <<client, hello, packet, parsed, phase>>
    BY <1>5 DEF ReadMessage, Sends, Ping, Pumps, TakeDeviceFrame, TakeUserFrame, Forward, Drop, Take,
                TextMessage, Tick, Sending, BrokerWrites, ReadFrame, vars, clientVars, connectVars,
                Elsewhere, RowChanges, CopyRow, DropCopy
  <2> QED
    BY <1>3, <2>1
<1> QED
  BY <1>1, <1>2, <1>4, <1>5 DEF Next, Receives

LEMMA HelloAlways == Spec => []HelloInv
<1>1. Init => HelloInv
  BY StreamInit, TypeInit, HelloInit DEF StreamInv, HelloInv
<1>2. HelloInv /\ [Next]_vars => HelloInv'
  BY StreamStep, TypeStep, HelloStep DEF StreamInv, HelloInv
<1> QED
  BY <1>1, <1>2, PTL DEF Spec

LEMMA HelloUnderstood == HelloInv => ConnectUnderstood
<1> SUFFICES ASSUME HelloInv PROVE ConnectUnderstood
  OBVIOUS
<1>1. client \in Clients /\ hello = ConnectPacket(client.connect) /\ WellFormed(client.connect)
  BY ClientTyped DEF HelloInv, GotHello
<1>2. Understandable(client.connect) => ParseConnect(hello) = Meant(client.connect)
  BY <1>1, ConnectParsed
<1> QED
  BY <1>2 DEF HelloInv, GotHello, ConnectUnderstood

(* However a client cuts its CONNECT, whatever it says in it and however many messages come with
   its end, the packet that goes to the broker is the client's, and what parseConnectCredentials
   reads from it is what the client encoded (HandleWebSocket). *)
THEOREM ConnectAlwaysUnderstood == Spec => []ConnectUnderstood
BY HelloAlways, HelloUnderstood, PTL

-----------------------------------------------------------------------------
(* The topics the gateway reads are those the client named.                *)

LEMMA PublishRead ==
    ASSUME NEW topics \in Seq(Byte), Len(topics) = 1, NEW level
    PROVE  Topics(PublishPacket(topics), level) = topics
<1> DEFINE p == PublishPacket(topics)
           q == Varint(p, 2).next
           body == Field(topics) \o <<0>>
<1>1. 1 \in Byte /\ 0 \in Byte /\ PUBLISH \in Byte /\ Len(topics) \in Byte
  BY CodecAssumptions DEF Byte, PUBLISH
<1>2. Field(topics) \in Seq(Byte) /\ <<0>> \in Seq(Byte)
  <2>1. Field(topics) \in Seq(Byte)
    BY <1>1, FieldTyped
  <2>2. <<0>> \in Seq(Byte)
    BY <1>1
  <2> QED
    BY <2>1, <2>2
<1>3. body \in Seq(Byte) /\ Len(body) = 3
  <2>1. Len(Field(topics)) = 2
    BY DEF Field
  <2> QED
    BY <1>2, <2>1, ConcatProperties
<1>4. Encodable(Len(body))
  <2>1. Rest(3)[0] = 3 /\ 1 \in 1 .. MaxDigits /\ 3 < Base
    BY RestValue, CodecAssumptions
  <2> QED
    BY <1>3, <2>1 DEF Encodable
<1>5. p \in Seq(Byte) /\ q \in Nat /\ At(p, q, body) /\ p[1] = PUBLISH
  BY <1>1, <1>3, <1>4, PacketLength DEF PublishPacket
<1>6. At(p, q, Field(topics))
  BY <1>2, <1>5, AtParts
<1>7. Readable(p, q) /\ q \in 1 .. Len(p)
  BY <1>1, <1>5, <1>6, FieldAt
<1>8. p[q] = 1 /\ p[q + 1] = topics[1]
  <2>1. Field(topics) = <<1>> \o topics /\ <<1>> \in Seq(Byte) /\ Len(<<1>>) = 1
    BY <1>1 DEF Field
  <2> HIDE DEF p, q
  <2>2. At(p, q, <<1>>) /\ At(p, q + 1, topics)
    <3>1. At(p, q, <<1>> \o topics)
      BY <1>6, <2>1
    <3>2. At(p, q, <<1>>) /\ At(p, q + Len(<<1>>), topics)
      BY <1>5, <2>1, <3>1, AtParts
    <3> QED
      BY <2>1, <3>2
  <2>3. p[q + 1 - 1] = <<1>>[1] /\ p[(q + 1) + 1 - 1] = topics[1]
    BY <2>2 DEF At
  <2> QED
    BY <1>5, <2>3
<1> HIDE DEF p, q
<1>9. PublishTopics(p) = <<topics[1]>>
  <2>1. q # Nowhere
    BY <1>7 DEF Nowhere
  <2> QED
    BY <1>7, <1>8, <2>1 DEF PublishTopics, q
<1>11. Topics(p, level) = PublishTopics(p)
  BY <1>5 DEF Topics, PUBLISH, SUBSCRIBE
<1>10. topics = <<topics[1]>>
  OBVIOUS
<1> QED
  BY <1>9, <1>10, <1>11 DEF p

LEMMA FiltersTyped ==
    ASSUME NEW topics \in Seq(Byte)
    PROVE  /\ Filters(topics) \in Seq(Byte) /\ Len(Filters(topics)) = 3 * Len(topics)
           /\ \A i \in 1 .. Len(topics) : Filters(topics)[3 * i - 1] = topics[i]
<1>1. Len(topics) \in Nat /\ 0 \in Byte /\ 1 \in Byte /\ \A i \in 1 .. Len(topics) : topics[i] \in Byte
  BY CodecAssumptions DEF Byte
<1>2. ASSUME NEW j \in 1 .. 3 * Len(topics) PROVE Filters(topics)[j] \in Byte
  <2>1. CASE j % 3 = 2
    <3>1. (j + 1) \div 3 \in 1 .. Len(topics)
      BY <1>1, <2>1
    <3> QED
      BY <1>1, <2>1, <3>1 DEF Filters
  <2>2. CASE j % 3 # 2
    BY <1>1, <2>2 DEF Filters
  <2> QED
    BY <2>1, <2>2
<1>3. Filters(topics) \in Seq(Byte) /\ Len(Filters(topics)) = 3 * Len(topics)
  <2>1. 3 * Len(topics) \in Nat
    BY <1>1
  <2>2. Filters(topics) \in [1 .. 3 * Len(topics) -> Byte]
    BY <1>2 DEF Filters
  <2> QED
    BY <2>1, <2>2
<1>4. ASSUME NEW i \in 1 .. Len(topics) PROVE Filters(topics)[3 * i - 1] = topics[i]
  <2>1. 3 * i - 1 \in 1 .. 3 * Len(topics) /\ (3 * i - 1) % 3 = 2 /\ (3 * i - 1 + 1) \div 3 = i
    BY <1>1
  <2> QED
    BY <2>1 DEF Filters
<1> QED
  BY <1>3, <1>4

LEMMA SubscribeRead ==
    ASSUME NEW topics \in Seq(Byte), NEW level, Encodable(Len(SubscribeBody(level, topics)))
    PROVE  Topics(SubscribePacket(level, topics), level) = topics
<1> DEFINE p == SubscribePacket(level, topics)
           q == Varint(p, 2).next
           x == Properties(level, <<>>)
           f == Filters(topics)
           n == Len(topics)
<1>1. 1 \in Byte /\ SUBSCRIBE \in Byte /\ <<1>> \in Seq(Byte) /\ Len(<<1>>) = 1 /\ n \in Nat
  BY CodecAssumptions DEF Byte, SUBSCRIBE
<1>2. /\ <<>> \in Seq(Byte) /\ Len(<<>>) = 0 /\ Encodable(Len(<<>>))
  <2>1. Rest(0)[0] = 0 /\ 1 \in 1 .. MaxDigits /\ 0 < Base
    BY RestValue, CodecAssumptions
  <2> QED
    BY <2>1 DEF Encodable
<1>3. x \in Seq(Byte) /\ Len(x) \in Nat
  BY <1>2, BlockTyped DEF Properties
<1>4. f \in Seq(Byte) /\ Len(f) = 3 * n /\ \A i \in 1 .. n : f[3 * i - 1] = topics[i]
  BY FiltersTyped
<1>5. /\ SubscribeBody(level, topics) = (<<1>> \o x) \o f
  BY DEF SubscribeBody
<1> HIDE DEF x, f
<1>6. /\ <<1>> \o x \in Seq(Byte) /\ Len(<<1>> \o x) = 1 + Len(x)
      /\ (<<1>> \o x) \o f \in Seq(Byte) /\ Len((<<1>> \o x) \o f) = 1 + Len(x) + 3 * n
  <2>1. <<1>> \o x \in Seq(Byte) /\ Len(<<1>> \o x) = 1 + Len(x)
    BY <1>1, <1>3, ConcatProperties
  <2> DEFINE y == <<1>> \o x
  <2> HIDE DEF y
  <2>2. y \o f \in Seq(Byte) /\ Len(y \o f) = Len(y) + Len(f)
    BY <1>4, <2>1, ConcatProperties DEF y
  <2> QED
    BY <1>3, <1>4, <2>1, <2>2 DEF y
<1>7. /\ p \in Seq(Byte) /\ q \in Nat /\ At(p, q, (<<1>> \o x) \o f) /\ p[1] = SUBSCRIBE
      /\ Len(p) = q + (1 + Len(x) + 3 * n) - 1
  <2> DEFINE body == SubscribeBody(level, topics)
  <2>1. body \in Seq(Byte) /\ Encodable(Len(body)) /\ Len(body) = 1 + Len(x) + 3 * n
    BY <1>5, <1>6
  <2>2. p = Packet(SUBSCRIBE, body)
    BY DEF SubscribePacket
  <2> HIDE DEF body, p
  <2>3. /\ p \in Seq(Byte) /\ q \in Nat /\ At(p, q, body) /\ p[1] = SUBSCRIBE
        /\ Len(p) = q + Len(body) - 1
    BY <1>1, <2>1, <2>2, PacketLength
  <2> QED
    BY <1>5, <2>1, <2>3 DEF body
<1> HIDE DEF p, q
<1>8. At(p, q, <<1>> \o x) /\ At(p, q + 1 + Len(x), f)
  <2>1. At(p, q, <<1>> \o x) /\ At(p, q + Len(<<1>> \o x), f)
    BY <1>4, <1>6, <1>7, AtParts
  <2> QED
    BY <1>3, <1>6, <1>7, <2>1
<1>9. At(p, q + 1, x)
  BY <1>1, <1>3, <1>7, <1>8, AtParts
<1> DEFINE first == IF level = V5 THEN SkipProperties(p, q + 1) ELSE q + 1
<1>10. first = q + 1 + Len(x)
  <2>1. CASE level = V5
    <3>1. x = Block(<<>>)
      BY <2>1 DEF x, Properties
    <3> QED
      BY <1>2, <1>7, <1>9, <2>1, <3>1, BlockAt
  <2>2. CASE level # V5
    BY <1>7, <2>2 DEF x, Properties
  <2> QED
    BY <2>1, <2>2
<1> HIDE DEF first
<1>11. q # 0 /\ first # Nowhere /\ q + 1 # 1
  BY <1>3, <1>7, <1>8, <1>10 DEF At, Nowhere
<1>12. (Len(p) + 1 - first) % 3 = 0 /\ (Len(p) + 1 - first) \div 3 = n
  <2>1. Len(p) + 1 - first = 3 * n
    BY <1>1, <1>3, <1>7, <1>10
  <2> QED
    BY <1>1, <2>1
<1> DEFINE read == [i \in 1 .. n |-> p[first + 3 * i - 2]]
<1>13. SubscribeTopics(p, level) = read
  BY <1>11, <1>12 DEF SubscribeTopics, q, first
<1>14. ASSUME NEW i \in 1 .. n PROVE p[first + 3 * i - 2] = topics[i]
  <2>1. 3 * i - 1 \in 1 .. Len(f) /\ (q + 1 + Len(x)) + (3 * i - 1) - 1 = first + 3 * i - 2
    BY <1>1, <1>3, <1>4, <1>7, <1>10
  <2>2. p[(q + 1 + Len(x)) + (3 * i - 1) - 1] = f[3 * i - 1]
    BY <1>8, <2>1 DEF At
  <2> QED
    BY <1>4, <2>1, <2>2
<1>15. read = topics
  <2>1. read = [i \in 1 .. n |-> topics[i]]
    BY <1>14
  <2>2. topics = [i \in 1 .. n |-> topics[i]]
    OBVIOUS
  <2> QED
    BY <2>1, <2>2
<1> QED
  BY <1>7, <1>13, <1>15 DEF Topics, p, PUBLISH, SUBSCRIBE

LEMMA TopicsNamed == TopicInv /\ HelloInv => OnlyOwnTopics
<1> SUFFICES ASSUME TopicInv, HelloInv, NEW i \in 1 .. Len(cuts)
             PROVE  /\ i \in refused => client.how = "login"
                    /\ client.how = "login" /\ Understandable(client.connect) =>
                          \A topics \in TopicLists : Names(Frame(i), client.connect.level, topics) =>
                              IF i \in refused THEN \E d \in ToSet(topics) : d \in missed \/ d \notin Devices
                                               ELSE ToSet(topics) \subseteq held
  BY DEF OnlyOwnTopics
<1>1. i \in refused => client.how = "login"
  BY DEF TopicInv, TopicsHold
<1>2. ASSUME client.how = "login", Understandable(client.connect), NEW topics \in TopicLists,
             Names(Frame(i), client.connect.level, topics)
      PROVE  IF i \in refused THEN \E d \in ToSet(topics) : d \in missed \/ d \notin Devices
                              ELSE ToSet(topics) \subseteq held
  <2>1. WellFormed(client.connect) /\ client.connect.level \in Byte
    BY ClientTyped DEF HelloInv, GotHello, WellFormed
  <2>2. parsed.level = client.connect.level
    <3>1. phase \notin {"connect", "late", "credentials"}
      BY DEF TopicInv, FramesInOrder
    <3>2. parsed = Meant(client.connect)
      BY <1>2, <2>1, <3>1, ConnectParsed DEF HelloInv, GotHello
    <3> QED
      BY <3>2 DEF Meant
  <2>3. Topics(Frame(i), parsed.level) = topics
    <3>1. topics \in Seq(Byte) /\ Encodable(Len(SubscribeBody(client.connect.level, topics)))
      BY <2>1, FramesAssumptions
    <3> QED
      BY <1>2, <2>2, <3>1, PublishRead, SubscribeRead DEF Names
  <2> QED
    BY <1>2, <2>3 DEF TopicInv, TopicsHold
<1> QED
  BY <1>1, <1>2

(* Whatever the order of a user's frames, of the changes of the devices' rows, of what two caches
   still hold of them and of failing lookups, no frame goes to the broker that names a device the
   user never owned, in the rows during the connection or in a copy that was there when it began,
   and none is dropped without a topic that does not name a device, or one that was not the
   user's or could not be looked up: the topics are those the client encoded, of any number and
   at any length (userFrameAllowed, conn.acl, parsePublishTopic, parseSubscribeTopics). *)
THEOREM TopicsWereOwned == Spec => []OnlyOwnTopics
<1>1. Init => TopicInv
  BY TopicInit, TypeInit DEF TopicInv
<1>2. TopicInv /\ [Next]_vars => TopicInv'
  BY TopicStep, TypeStep DEF TopicInv
<1> QED
  BY <1>1, <1>2, HelloAlways, TopicsNamed, PTL DEF Spec

-----------------------------------------------------------------------------
(* How long a connection may be silent.                                    *)

(* The silence a connection is allowed is within the two bounds, whatever the keepalive announced
   in CONNECT; it is one and a half keepalives or more as long as the upper bound lets it, and the
   upper bound itself otherwise (computeIdleTimeout). *)
THEOREM KeepaliveIsTolerated ==
    ASSUME NEW k \in Nat \ {0}
    PROVE  /\ IdleTimeout(k) \in MinIdle .. MaxIdle
           /\ 3 * k <= MaxIdle => IdleTimeout(k) >= 3 * k
           /\ 3 * k > MaxIdle => IdleTimeout(k) = MaxIdle
<1>1. MinIdle \in Nat /\ MaxIdle \in Nat /\ MinIdle <= MaxIdle /\ k # 0
  BY FramesAssumptions
<1>2. CASE 3 * k < MinIdle
  BY <1>1, <1>2 DEF IdleTimeout
<1>3. CASE 3 * k > MaxIdle
  BY <1>1, <1>3 DEF IdleTimeout
<1>4. CASE 3 * k >= MinIdle /\ 3 * k <= MaxIdle
  BY <1>1, <1>4 DEF IdleTimeout
<1> QED
  BY <1>1, <1>2, <1>3, <1>4

\* The threshold is the one of the announced keepalive, and a lively client is below it.
SilenceBounded ==
    /\ phase \in {"bridged", "idle"} =>
           /\ timeout = IdleTimeout(parsed.keepAlive)
           /\ client.lively => quiet <= 2 * client.connect.keepAlive
    /\ phase = "idle" => quiet = timeout

SilenceInv == HelloInv /\ SilenceBounded

LEMMA SilenceStep == SilenceInv /\ [Next]_vars => SilenceBounded'
<1> SUFFICES ASSUME SilenceInv, [Next]_vars PROVE SilenceBounded'
  OBVIOUS
<1>0. quiet \in Nat /\ client.connect.keepAlive \in Nat
  <2>1. quiet \in Nat /\ client \in Clients
    BY DEF SilenceInv, HelloInv, GotHello, StreamInv, TypeOK
  <2>2. client.connect.keepAlive \in Byte
    BY <2>1, ClientTyped DEF WellFormed
  <2> QED
    BY <2>1, <2>2, CodecAssumptions DEF Byte
<1>1. CASE Receives
  <2>1. CASE phase = "connect"
    <3>1. phase' \in {"connect", "credentials"}
      BY <1>1, <2>1 DEF Receives, ReadConnect, ReadMessage
    <3> QED
      BY <3>1 DEF SilenceBounded
  <2>2. CASE phase # "connect"
    <3>1. phase' = phase /\ phase = "bridged" /\ quiet' = 0 /\ UNCHANGED <<timeout, parsed, client>>
      BY <1>1, <2>2 DEF Receives, ReadConnect, ReadMessage, Sends, connectVars
    <3> QED
      BY <1>0, <3>1 DEF SilenceInv, SilenceBounded
  <2> QED
    BY <2>1, <2>2
<1>2. CASE ConnectTimeout \/ Authenticate \/ BrokerUnreached \/ Break
  <2>1. phase' \notin {"bridged", "idle"}
    BY <1>2 DEF ConnectTimeout, Authenticate, BrokerUnreached, Break
  <2> QED
    BY <2>1 DEF SilenceBounded
<1>3. CASE Bridge
  BY <1>0, <1>3 DEF Bridge, SilenceBounded, clientVars, connectVars
<1>4. CASE TextMessage
  BY <1>0, <1>4 DEF TextMessage, SilenceInv, SilenceBounded, clientVars, connectVars
<1>5. CASE Tick
  BY <1>0, <1>5 DEF Tick, SilenceInv, SilenceBounded, clientVars, connectVars
<1>6. CASE Idle
  BY <1>6 DEF Idle, SilenceInv, SilenceBounded, clientVars, connectVars, idleVars
<1>7. CASE Ping \/ Pumps \/ Sending \/ ReadFrame \/ Elsewhere \/ UNCHANGED vars
  <2>1. UNCHANGED <<phase, timeout, quiet, parsed, client>>
    BY <1>7 DEF Ping, Pumps, TakeDeviceFrame, TakeUserFrame, Forward, Drop, Take, Sending, BrokerWrites,
                ReadFrame, vars, clientVars, connectVars, idleVars,
                Elsewhere, RowChanges, CopyRow, DropCopy
  <2> QED
    BY <2>1 DEF SilenceInv, SilenceBounded
<1> QED
  BY <1>1, <1>2, <1>3, <1>4, <1>5, <1>6, <1>7 DEF Next

LEMMA SilenceTolerated == SilenceInv => LivelyStaysConnected
<1>0. SilenceInv => client.connect.keepAlive \in Nat /\ MaxIdle \in Nat
  <2>1. MaxIdle \in Nat /\ Byte \subseteq Nat
    BY CodecAssumptions, FramesAssumptions DEF Byte
  <2>2. \A c \in Clients : c.connect.keepAlive \in Byte
    BY ClientTyped, Zenon DEF WellFormed
  <2>3. SilenceInv => client \in Clients
    BY DEF SilenceInv, HelloInv, GotHello
  <2> QED
    BY <2>1, <2>2, <2>3
<1> SUFFICES ASSUME SilenceInv, phase = "idle", client.lively, client.connect.keepAlive # 0,
                    2 * client.connect.keepAlive < MaxIdle, Understandable(client.connect)
             PROVE  FALSE
  BY <1>0 DEF LivelyStaysConnected
<1> DEFINE k == client.connect.keepAlive
<1>1. k \in Nat
  BY <1>0
<1>2. parsed.keepAlive = k
  <2>1. parsed = Meant(client.connect)
    BY ConnectParsed, ClientTyped DEF SilenceInv, HelloInv, GotHello
  <2> QED
    BY <2>1 DEF Meant
<1>3. quiet = IdleTimeout(k) /\ quiet <= 2 * k
  BY <1>2 DEF SilenceInv, SilenceBounded
<1> HIDE DEF k
<1>4. IdleTimeout(k) > 2 * k
  <2>1. k \in Nat \ {0} /\ 2 * k < MaxIdle /\ MaxIdle \in Nat
    BY <1>0, <1>1 DEF k
  <2>2. /\ IdleTimeout(k) \in MinIdle .. MaxIdle
        /\ 3 * k <= MaxIdle => IdleTimeout(k) >= 3 * k
        /\ 3 * k > MaxIdle => IdleTimeout(k) = MaxIdle
    BY <2>1, KeepaliveIsTolerated
  <2> QED
    BY <2>1, <2>2, FramesAssumptions
<1>5. IdleTimeout(k) \in Nat
  BY <1>1, FramesAssumptions DEF IdleTimeout
<1> QED
  BY <1>1, <1>3, <1>4, <1>5

(* A client that sends something every keepalive it announced is never taken for dead, for every
   configuration of the bounds, unless the keepalive is not below the upper one: the number it
   encoded is the one computeIdleTimeout starts from, and the deadline is set again with every
   message (HandleWebSocket, computeIdleTimeout). *)
THEOREM LivelyAlwaysConnected == Spec => []LivelyStaysConnected
<1>1. Init => SilenceInv
  <2>1. Init => HelloInv /\ SilenceBounded
    BY StreamInit, TypeInit, HelloInit DEF StreamInv, HelloInv, Init, SilenceBounded
  <2> QED
    BY <2>1 DEF SilenceInv
<1>2. SilenceInv /\ [Next]_vars => SilenceInv'
  BY StreamStep, TypeStep, HelloStep, SilenceStep DEF StreamInv, HelloInv, SilenceInv
<1> QED
  BY <1>1, <1>2, SilenceTolerated, PTL DEF Spec


-----------------------------------------------------------------------------
(* Where the pumps cut the streams.                                        *)

\* The first m frames of a client: those of its plan, then PINGREQs.
Sent(plan, m) == [i \in 1 .. m |-> IF i <= Len(plan) THEN plan[i] ELSE PingPacket]

LEMMA SentTyped ==
    ASSUME NEW plan, PacketsOnly(plan), NEW m \in Nat
    PROVE  /\ PacketsOnly(Sent(plan, m)) /\ Len(Sent(plan, m)) = m
           /\ \A i \in 1 .. m : Sent(plan, m)[i] = IF i <= Len(plan) THEN plan[i] ELSE PingPacket
<1>1. Len(plan) \in Nat /\ \A i \in 1 .. Len(plan) : plan[i] \in Seq(Byte) /\ IsPacket(plan[i])
  BY LenProperties, ElementOfSeq DEF PacketsOnly
<1>2. ASSUME NEW i \in 1 .. m
      PROVE  /\ (IF i <= Len(plan) THEN plan[i] ELSE PingPacket) \in Seq(Byte)
             /\ IsPacket(IF i <= Len(plan) THEN plan[i] ELSE PingPacket)
  <2>1. CASE i <= Len(plan)
    BY <1>1, <2>1
  <2>2. CASE ~(i <= Len(plan))
    BY <2>2, PingIsPacket
  <2> QED
    BY <2>1, <2>2
<1>3. Sent(plan, m) \in Seq(Seq(Byte)) /\ Len(Sent(plan, m)) = m
  BY <1>2 DEF Sent
<1>4. \A i \in 1 .. m : Sent(plan, m)[i] = IF i <= Len(plan) THEN plan[i] ELSE PingPacket
  BY DEF Sent
<1> QED
  BY <1>2, <1>3, <1>4 DEF PacketsOnly

LEMMA SentPrefix ==
    ASSUME NEW plan, PacketsOnly(plan), NEW m \in Nat, NEW k \in 0 .. m
    PROVE  SubSeq(Sent(plan, m), 1, k) = Sent(plan, k)
<1>1. k \in Nat /\ k <= m
  OBVIOUS
<1>2. /\ Sent(plan, m) \in Seq(Seq(Byte)) /\ Len(Sent(plan, m)) = m
      /\ \A i \in 1 .. m : Sent(plan, m)[i] = IF i <= Len(plan) THEN plan[i] ELSE PingPacket
  BY SentTyped DEF PacketsOnly
<1>3. /\ Sent(plan, k) \in Seq(Seq(Byte)) /\ Len(Sent(plan, k)) = k
      /\ \A i \in 1 .. k : Sent(plan, k)[i] = IF i <= Len(plan) THEN plan[i] ELSE PingPacket
  BY <1>1, SentTyped DEF PacketsOnly
<1> DEFINE t == SubSeq(Sent(plan, m), 1, k)
<1>4. t \in Seq(Seq(Byte)) /\ Len(t) = k /\ \A i \in 1 .. k : t[i] = Sent(plan, m)[i]
  BY <1>1, <1>2
<1>5. \A i \in 1 .. k : i \in 1 .. m
  BY <1>1
<1> HIDE DEF t
<1>6. \A i \in 1 .. k : t[i] = Sent(plan, k)[i]
  BY <1>2, <1>3, <1>4, <1>5
<1> QED
  BY <1>3, <1>4, <1>6, SeqEqual DEF t

LEMMA SentNext ==
    ASSUME NEW plan, PacketsOnly(plan), NEW m \in Nat, m >= Len(plan)
    PROVE  Sent(plan, m + 1) = Append(Sent(plan, m), PingPacket)
<1>1. Len(plan) \in Nat /\ m + 1 \in Nat /\ ~(m + 1 <= Len(plan)) /\ m + 1 \in 1 .. m + 1
  BY LenProperties DEF PacketsOnly
<1>2. /\ Sent(plan, m) \in Seq(Seq(Byte)) /\ Len(Sent(plan, m)) = m
      /\ \A i \in 1 .. m : Sent(plan, m)[i] = IF i <= Len(plan) THEN plan[i] ELSE PingPacket
  BY SentTyped DEF PacketsOnly
<1>3. /\ Sent(plan, m + 1) \in Seq(Seq(Byte)) /\ Len(Sent(plan, m + 1)) = m + 1
      /\ \A i \in 1 .. m + 1 : Sent(plan, m + 1)[i] = IF i <= Len(plan) THEN plan[i] ELSE PingPacket
  BY <1>1, SentTyped DEF PacketsOnly
<1> DEFINE t == Append(Sent(plan, m), PingPacket)
<1>4. t \in Seq(Seq(Byte)) /\ Len(t) = m + 1 /\ t[m + 1] = PingPacket
      /\ \A i \in 1 .. m : t[i] = Sent(plan, m)[i]
  BY <1>2, PingIsPacket, AppendProperties
<1>5. Sent(plan, m + 1)[m + 1] = PingPacket
  BY <1>1, <1>3
<1>6. ASSUME NEW i \in 1 .. m PROVE Sent(plan, m + 1)[i] = Sent(plan, m)[i]
  <2>1. i \in 1 .. m + 1
    OBVIOUS
  <2> QED
    BY <1>2, <1>3, <2>1
<1> HIDE DEF t
<1>7. \A i \in 1 .. m + 1 : Sent(plan, m + 1)[i] = t[i]
  <2>1. \A i \in 1 .. m + 1 : i \in 1 .. m \/ i = m + 1
    OBVIOUS
  <2> QED
    BY <1>4, <1>5, <1>6, <2>1
<1> QED
  BY <1>3, <1>4, <1>7, SeqEqual DEF t

LEMMA SentPlan ==
    ASSUME NEW plan, PacketsOnly(plan), NEW m \in Nat, m <= Len(plan)
    PROVE  Sent(plan, m) = SubSeq(plan, 1, m)
<1>1. plan \in Seq(Seq(Byte)) /\ Len(plan) \in Nat
  BY LenProperties DEF PacketsOnly
<1>2. /\ Sent(plan, m) \in Seq(Seq(Byte)) /\ Len(Sent(plan, m)) = m
      /\ \A i \in 1 .. m : Sent(plan, m)[i] = plan[i]
  <2>1. /\ Sent(plan, m) \in Seq(Seq(Byte)) /\ Len(Sent(plan, m)) = m
        /\ \A i \in 1 .. m : Sent(plan, m)[i] = IF i <= Len(plan) THEN plan[i] ELSE PingPacket
    BY SentTyped DEF PacketsOnly
  <2>2. \A i \in 1 .. m : i <= Len(plan)
    BY <1>1
  <2> QED
    BY <2>1, <2>2
<1> DEFINE t == SubSeq(plan, 1, m)
<1>3. t \in Seq(Seq(Byte)) /\ Len(t) = m /\ \A i \in 1 .. m : t[i] = plan[i]
  BY <1>1
<1> HIDE DEF t
<1> QED
  BY <1>2, <1>3, SeqEqual DEF t

\* Where they end.
LEMMA SentEnds ==
    ASSUME NEW plan, PacketsOnly(plan), NEW m \in Nat
    PROVE  Len(FlattenSeq(Sent(plan, m))) = EndOf(plan, m)
<1> DEFINE n == Len(plan)
           e == Len(PingPacket)
           base == Len(FlattenSeq(plan))
           T == {k \in Nat : Len(FlattenSeq(Sent(plan, n + k))) = base + k * e}
<1>1. n \in Nat /\ e \in Nat /\ base \in Nat
  <2>1. FlattenSeq(plan) \in Seq(Byte) /\ PingPacket \in Seq(Byte)
    BY PingIsPacket, FlattenAppend DEF PacketsOnly
  <2> QED
    BY <2>1, LenProperties DEF PacketsOnly
<1>2. Sent(plan, n) = plan
  <2>1. Sent(plan, n) = SubSeq(plan, 1, n)
    BY <1>1, SentPlan
  <2> QED
    BY <2>1, SubSeqFull DEF PacketsOnly
<1> HIDE DEF n, e, base
<1>3. 0 \in T
  BY <1>1, <1>2 DEF base
<1>4. ASSUME NEW k \in Nat, k \in T PROVE k + 1 \in T
  <2>1. n + k \in Nat /\ n + k >= n /\ n + (k + 1) = (n + k) + 1
    BY <1>1
  <2>2. /\ Sent(plan, n + k) \in Seq(Seq(Byte))
        /\ Sent(plan, n + (k + 1)) = Append(Sent(plan, n + k), PingPacket)
    BY <2>1, SentTyped, SentNext DEF n, PacketsOnly
  <2>3. /\ FlattenSeq(Sent(plan, n + k)) \in Seq(Byte)
        /\ FlattenSeq(Sent(plan, n + (k + 1))) = FlattenSeq(Sent(plan, n + k)) \o PingPacket
    BY <2>2, PingIsPacket, FlattenAppend
  <2>4. Len(FlattenSeq(Sent(plan, n + (k + 1)))) = Len(FlattenSeq(Sent(plan, n + k))) + e
    BY <2>3, PingIsPacket, ConcatProperties DEF e
  <2>5. base + k * e + e = base + (k + 1) * e
    BY <1>1
  <2> QED
    BY <1>4, <2>4, <2>5
<1>5. Nat \subseteq T
  <2> HIDE DEF T
  <2> QED
    BY <1>3, <1>4, Induction
<1>6. CASE m <= n
  BY <1>6, SentPlan DEF EndOf, n
<1>7. CASE m > n
  <2>1. m - n \in Nat /\ n + (m - n) = m
    BY <1>1, <1>7
  <2>2. Len(FlattenSeq(Sent(plan, m))) = base + (m - n) * e
    BY <1>5, <2>1
  <2>3. EndOf(plan, m) = base + (m - n) * e
    BY <1>1, <1>7 DEF EndOf, n, base, e
  <2> QED
    BY <2>2, <2>3
<1> QED
  BY <1>1, <1>6, <1>7

\* The client sends whole frames, and those taken are the first of them.
OnlyFrames ==
    \E m \in Nat : /\ m >= Len(client.plan) /\ stream = FlattenSeq(Sent(client.plan, m))
                   /\ lost = <<>> => Len(cuts) <= m

CutUp ==
    lost = <<>> => /\ taken = FlattenSeq(Sent(client.plan, Len(cuts)))
                   /\ \A i \in 1 .. Len(cuts) : cuts[i] = Len(FlattenSeq(Sent(client.plan, i)))

CutDown ==
    /\ Len(deliveries) <= Len(client.down)
    /\ received = FirstFrames(client.down, Len(deliveries))
    /\ \A i \in 1 .. Len(deliveries) : deliveries[i] = Len(FirstFrames(client.down, i))

CutInv == HelloInv /\ TopicInv /\ OnlyFrames /\ CutUp /\ CutDown

LEMMA CutInit == Init => OnlyFrames /\ CutUp /\ CutDown
<1> SUFFICES ASSUME Init PROVE OnlyFrames /\ CutUp /\ CutDown
  OBVIOUS
<1>1. /\ client \in Clients /\ stream = FlattenSeq(client.plan) /\ taken = <<>> /\ cuts = <<>>
      /\ received = <<>> /\ deliveries = <<>>
  BY DEF Init
<1>2. PacketsOnly(client.plan) /\ client.plan \in Seq(Seq(Byte)) /\ client.down \in Seq(Seq(Byte))
  BY <1>1, ClientTyped DEF PacketsOnly
<1>3. Len(client.plan) \in Nat /\ Len(client.down) \in Nat
  BY <1>2, LenProperties
<1>4. Sent(client.plan, Len(client.plan)) = client.plan
  <2>1. Sent(client.plan, Len(client.plan)) = SubSeq(client.plan, 1, Len(client.plan))
    <3>1. Len(client.plan) <= Len(client.plan)
      BY <1>3
    <3> QED
      BY <1>2, <1>3, <3>1, SentPlan
  <2> QED
    BY <1>2, <2>1, SubSeqFull
<1>5. FlattenSeq(Sent(client.plan, 0)) = <<>>
  <2>1. Sent(client.plan, 0) \in Seq(Seq(Byte)) /\ Len(Sent(client.plan, 0)) = 0
    BY <1>2, SentTyped DEF PacketsOnly
  <2>2. Sent(client.plan, 0) = <<>>
    BY <2>1, EmptySeq
  <2> QED
    BY <2>2, EmptySeq DEF FlattenSeq
<1>6. FirstFrames(client.down, 0) = <<>>
  BY <1>2, <1>3, FirstFramesStep
<1>7. Len(cuts) = 0 /\ Len(deliveries) = 0
  BY <1>1
<1>8. OnlyFrames
  BY <1>1, <1>3, <1>4, <1>7 DEF OnlyFrames
<1>9. CutUp
  BY <1>1, <1>5, <1>7 DEF CutUp
<1>10. CutDown
  BY <1>1, <1>3, <1>6, <1>7 DEF CutDown
<1> QED
  BY <1>8, <1>9, <1>10

LEMMA CutStep == CutInv /\ [Next]_vars => OnlyFrames' /\ CutUp' /\ CutDown'
<1> SUFFICES ASSUME CutInv, [Next]_vars PROVE OnlyFrames' /\ CutUp' /\ CutDown'
  OBVIOUS
<1> DEFINE plan == client.plan
           down == client.down
<1>0. PacketsOnly(plan) /\ PacketsOnly(down) /\ Len(plan) \in Nat /\ Len(down) \in Nat
  <2>1. client \in Clients
    BY DEF CutInv, HelloInv, GotHello
  <2> QED
    BY <2>1, ClientTyped, LenProperties DEF PacketsOnly
<1>1. /\ hello \in Seq(Byte) /\ stream \in Seq(Byte) /\ out \in Seq(Byte) /\ buf \in Seq(Byte)
      /\ taken \in Seq(Byte) /\ cuts \in Seq(Nat) /\ tcp \in Seq(Byte) /\ toDevice \in Seq(Byte)
      /\ received \in Seq(Byte) /\ deliveries \in Seq(Nat)
      /\ Len(cuts) \in Nat /\ Len(deliveries) \in Nat
  BY LenProperties DEF CutInv, HelloInv, StreamInv, TypeOK
<1>2. ASSUME UNCHANGED <<client, stream, lost, taken, cuts>> PROVE OnlyFrames' /\ CutUp'
  BY <1>2 DEF CutInv, OnlyFrames, CutUp
<1>3. ASSUME UNCHANGED <<client, received, deliveries>> PROVE CutDown'
  BY <1>3 DEF CutInv, CutDown
<1>4. ASSUME NEW n \in 1 .. Len(out), ReadConnect(n) PROVE OnlyFrames' /\ CutUp' /\ CutDown'
  <2>1. /\ UNCHANGED <<client, stream, taken, cuts, received, deliveries>>
        /\ lost = <<>>
    BY <1>4 DEF ReadConnect, Sends, downVars, CutInv, HelloInv, StreamInv, NothingYet
  <2> QED
    BY <1>3, <2>1 DEF CutInv, OnlyFrames, CutUp
<1>5. CASE Ping
  <2>1. /\ stream' = stream \o PingPacket
        /\ UNCHANGED <<client, lost, taken, cuts, received, deliveries>>
    BY <1>5 DEF Ping, connectVars, pumpVars, downVars
  <2>2. PICK m \in Nat : /\ m >= Len(plan) /\ stream = FlattenSeq(Sent(plan, m))
                         /\ lost = <<>> => Len(cuts) <= m
    BY DEF CutInv, OnlyFrames
  <2>3. Sent(plan, m) \in Seq(Seq(Byte)) /\ Sent(plan, m + 1) = Append(Sent(plan, m), PingPacket)
    BY <1>0, <2>2, SentTyped, SentNext DEF PacketsOnly
  <2>4. stream' = FlattenSeq(Sent(plan, m + 1))
    BY <2>1, <2>2, <2>3, PingIsPacket, FlattenAppend
  <2>5. m + 1 \in Nat /\ m + 1 >= Len(plan) /\ (lost = <<>> => Len(cuts) <= m + 1)
    <3>1. lost = <<>> => Len(cuts) <= m
      BY <2>2
    <3>2. m >= Len(plan)
      BY <2>2
    <3> HIDE DEF plan
    <3> QED
      BY <1>0, <1>1, <3>1, <3>2
  <2>6. OnlyFrames'
    BY <2>1, <2>4, <2>5 DEF OnlyFrames
  <2>7. CutUp'
    BY <2>1 DEF CutInv, CutUp
  <2> QED
    BY <1>3, <2>1, <2>6, <2>7
<1>6. CASE Pumps
  <2>1. /\ phase = "bridged" /\ TotalLength(buf) \in 1 .. Len(buf)
        /\ Take(FirstOf(buf, TotalLength(buf)))
    BY <1>6 DEF Pumps, TakeDeviceFrame, TakeUserFrame, Forward, Drop, HasPacket
  <2> DEFINE frame == FirstOf(buf, TotalLength(buf))
  <2>2. /\ taken' = taken \o frame /\ cuts' = Append(cuts, Len(taken'))
        /\ UNCHANGED <<client, stream, lost, received, deliveries>>
    BY <2>1 DEF Take, clientVars, connectVars, downVars
  <2>3. PICK m \in Nat : /\ m >= Len(plan) /\ stream = FlattenSeq(Sent(plan, m))
                         /\ lost = <<>> => Len(cuts) <= m
    BY DEF CutInv, OnlyFrames
  <2>4. CASE lost # <<>>
    BY <1>3, <2>2, <2>3, <2>4 DEF OnlyFrames, CutUp
  <2>5. CASE lost = <<>>
    <3> DEFINE s == Sent(plan, m)
               k == Len(cuts)
    <3>1. /\ PacketsOnly(s) /\ Len(s) = m
          /\ \A i \in 0 .. m : SubSeq(s, 1, i) = Sent(plan, i)
      <4> HIDE DEF plan
      <4> QED
        BY <1>0, SentTyped, SentPrefix
    <3>2. k \in 0 .. m /\ k + 1 \in Nat
      BY <1>1, <2>3, <2>5
    <3>3. taken = FirstFrames(s, k)
      BY <2>5, <3>1, <3>2 DEF CutInv, CutUp, FirstFrames
    <3>4. taken \o (buf \o out) = stream
      <4>1. packet = hello
        BY <2>1 DEF CutInv, HelloInv, GotHello
      <4>2. ((hello \o taken) \o buf) \o out = hello \o stream
        <5>1. hello \o <<>> = hello
          BY <1>1, Empty
        <5> QED
          BY <2>5, <4>1, <5>1 DEF CutInv, HelloInv, StreamInv, BytesConserved
      <4>3. /\ buf \o out \in Seq(Byte) /\ taken \o (buf \o out) \in Seq(Byte) /\ hello \o taken \in Seq(Byte)
        BY <1>1, Joined
      <4>4. hello \o (taken \o (buf \o out)) = hello \o stream
        <5>1. ((hello \o taken) \o buf) \o out = (hello \o taken) \o (buf \o out)
          <6> DEFINE x == hello \o taken
          <6>1. x \in Seq(Byte) /\ buf \in Seq(Byte) /\ out \in Seq(Byte)
            BY <1>1, <4>3
          <6> HIDE DEF x
          <6>2. (x \o buf) \o out = x \o (buf \o out)
            BY <6>1, RegroupsAll DEF Regroups
          <6> QED
            BY <6>2 DEF x
        <5>2. (hello \o taken) \o (buf \o out) = hello \o (taken \o (buf \o out))
          <6> DEFINE x == buf \o out
          <6>1. x \in Seq(Byte) /\ hello \in Seq(Byte) /\ taken \in Seq(Byte)
            BY <1>1, <4>3
          <6> HIDE DEF x
          <6>2. (hello \o taken) \o x = hello \o (taken \o x)
            BY <6>1, RegroupsAll DEF Regroups
          <6> QED
            BY <6>2 DEF x
        <5> QED
          BY <4>2, <5>1, <5>2
      <4> QED
        BY <1>1, <4>3, <4>4, Cancel
    <3> HIDE DEF s, k
    <3>5. /\ k < Len(s) /\ frame \in Seq(Byte)
          /\ FirstFrames(s, k + 1) = FirstFrames(s, k) \o frame
      <4>1. FirstFrames(s, k) \o (buf \o out) = FlattenSeq(s)
        BY <2>3, <3>3, <3>4 DEF s
      <4>2. FollowedBy(s, k, buf, out)
        BY <1>1, <3>1, <3>2, <4>1 DEF FollowedBy
      <4>3. FoundLength(TotalLength(buf), buf)
        BY <2>1 DEF FoundLength
      <4> QED
        BY <3>1, <4>2, <4>3, NextFrame
    <3>6. k + 1 \in 0 .. m
      BY <3>1, <3>2, <3>5
    <3>7. taken' = FlattenSeq(Sent(plan, k + 1))
      <4>1. SubSeq(s, 1, k + 1) = Sent(plan, k + 1)
        BY <3>1, <3>6
      <4> QED
        BY <2>2, <3>3, <3>5, <4>1 DEF FirstFrames
    <3>8. /\ Len(cuts') = k + 1 /\ cuts'[k + 1] = Len(taken')
          /\ \A i \in 1 .. k : cuts'[i] = cuts[i]
      <4>1. Len(taken') \in Nat
        BY <1>1, <2>2, <3>5, Joined, LenProperties
      <4> HIDE DEF frame
      <4> QED
        BY <1>1, <2>2, <4>1, AppendProperties DEF k
    <3>9. \A i \in 1 .. Len(cuts') : cuts'[i] = Len(FlattenSeq(Sent(plan, i)))
      <4>1. \A i \in 1 .. k : cuts[i] = Len(FlattenSeq(Sent(plan, i)))
        BY <2>5 DEF CutInv, CutUp, k
      <4>2. \A i \in 1 .. k + 1 : i \in 1 .. k \/ i = k + 1
        BY <3>2
      <4> QED
        BY <3>7, <3>8, <4>1, <4>2
    <3>10. CutUp'
      BY <2>2, <3>7, <3>8, <3>9 DEF CutUp
    <3>11. OnlyFrames'
      BY <2>2, <2>3, <3>6, <3>8 DEF OnlyFrames
    <3> QED
      BY <1>3, <2>2, <3>10, <3>11
  <2> QED
    BY <2>4, <2>5
<1>7. CASE ReadFrame
  <2> DEFINE n == ReaderLength(tcp)
             frame == FirstOf(tcp, n)
             k == Len(deliveries)
  <2>1. /\ n \in 1 .. Len(tcp) /\ received' = received \o frame
        /\ deliveries' = Append(deliveries, Len(received'))
        /\ UNCHANGED <<client, stream, lost, taken, cuts>>
    BY <1>7 DEF ReadFrame, ReaderHasFrame, clientVars, connectVars, pumpVars
  <2>2. k \in 0 .. Len(down) /\ received = FirstFrames(down, k)
    BY <1>0, <1>1 DEF CutInv, CutDown
  <2>3. FirstFrames(down, k) \o (tcp \o toDevice) = FlattenSeq(down)
    <3>1. (received \o tcp) \o toDevice = FlattenSeq(down)
      BY DEF CutInv, HelloInv, StreamInv, BytesConserved
    <3>2. received \in Seq(Byte) /\ tcp \in Seq(Byte) /\ toDevice \in Seq(Byte)
      BY <1>1
    <3>3. (received \o tcp) \o toDevice = received \o (tcp \o toDevice)
      <4>1. Regroups(received, tcp, toDevice)
        BY <3>2, RegroupsAll
      <4> QED
        BY <4>1, Zenon DEF Regroups
    <3> QED
      BY <2>2, <3>1, <3>3
  <2> HIDE DEF k, n
  <2>4. k < Len(down) /\ frame \in Seq(Byte) /\ FirstFrames(down, k + 1) = FirstFrames(down, k) \o frame
    <3>1. FoundLength(n, tcp)
      BY <2>1 DEF FoundLength, n
    <3>2. FollowedBy(down, k, tcp, toDevice)
      BY <1>1, <2>2, <2>3 DEF FollowedBy
    <3> HIDE DEF down
    <3> QED
      BY <1>0, <3>1, <3>2, NextFrame
  <2>5. received' = FirstFrames(down, k + 1)
    BY <2>1, <2>2, <2>4
  <2>6. /\ Len(deliveries') = k + 1 /\ deliveries'[k + 1] = Len(received')
        /\ \A i \in 1 .. k : deliveries'[i] = deliveries[i]
    <3>1. Len(received') \in Nat
      BY <1>1, <2>1, <2>4, Joined, LenProperties
    <3> HIDE DEF frame
    <3> QED
      BY <1>1, <2>1, <3>1, AppendProperties DEF k
  <2>7. \A i \in 1 .. Len(deliveries') : deliveries'[i] = Len(FirstFrames(down, i))
    <3>1. \A i \in 1 .. k : deliveries[i] = Len(FirstFrames(down, i))
      BY DEF CutInv, CutDown, k
    <3>2. \A i \in 1 .. k + 1 : i \in 1 .. k \/ i = k + 1
      BY <2>2
    <3> QED
      BY <2>5, <2>6, <3>1, <3>2
  <2>8. k + 1 <= Len(down)
    BY <1>0, <2>2, <2>4
  <2>9. CutDown'
    BY <2>1, <2>5, <2>6, <2>7, <2>8 DEF CutDown
  <2> QED
    BY <1>2, <2>1, <2>9
<1>8. CASE (\E n \in 1 .. Len(out) : ReadMessage(n)) \/ ConnectTimeout \/ Authenticate \/ Bridge
           \/ BrokerUnreached \/ TextMessage \/ Tick \/ Idle \/ Break \/ Sending
           \/ Elsewhere \/ UNCHANGED vars
  <2>1. UNCHANGED <<client, stream, lost, taken, cuts, received, deliveries>>
    BY <1>8 DEF ReadMessage, Sends, ConnectTimeout, Authenticate, Bridge, BrokerUnreached, TextMessage,
                Tick, Idle, Break, Sending, BrokerWrites, Elsewhere, RowChanges, CopyRow, DropCopy, vars, clientVars, connectVars,
                pumpVars, downVars
  <2> QED
    BY <1>2, <1>3, <2>1
<1> QED
  BY <1>4, <1>5, <1>6, <1>7, <1>8 DEF Next, Receives

LEMMA CutRight == CutInv => CutAtFrames
<1> SUFFICES ASSUME CutInv PROVE CutAtFrames
  OBVIOUS
<1>1. /\ PacketsOnly(client.plan)
      /\ client.down \in Seq(Seq(Byte)) /\ Len(client.down) \in Nat /\ Len(deliveries) \in Nat
  <2>1. client \in Clients /\ deliveries \in Seq(Nat)
    BY DEF CutInv, HelloInv, GotHello, StreamInv, TypeOK
  <2> QED
    BY <2>1, ClientTyped, LenProperties DEF PacketsOnly
<1>2. ASSUME lost = <<>>, NEW i \in 1 .. Len(cuts) PROVE cuts[i] = EndOf(client.plan, i)
  <2>1. cuts[i] = Len(FlattenSeq(Sent(client.plan, i)))
    BY <1>2 DEF CutInv, CutUp
  <2> QED
    BY <1>1, <2>1, SentEnds
<1>3. ASSUME NEW i \in 1 .. Len(deliveries) PROVE deliveries[i] = EndOf(client.down, i)
  <2>1. deliveries[i] = Len(FirstFrames(client.down, i)) /\ Len(deliveries) <= Len(client.down)
    BY DEF CutInv, CutDown
  <2>2. i <= Len(client.down)
    BY <1>1, <2>1
  <2> QED
    BY <2>1, <2>2 DEF FirstFrames, EndOf
<1> QED
  BY <1>2, <1>3 DEF CutAtFrames

(* For any frames either side sends and however they are cut into messages and chunks, each pump
   takes a frame out exactly where the sender ended it: the length read from an incomplete buffer
   is the final one, and the two readers agree with the encoder (mqttPacketTotalLength, ReadFrame). *)
THEOREM AlwaysCutAtFrames == Spec => []CutAtFrames
<1>1. Init => CutInv
  BY StreamInit, TypeInit, HelloInit, TopicInit, CutInit DEF StreamInv, HelloInv, TopicInv, CutInv
<1>2. CutInv /\ [Next]_vars => CutInv'
  BY StreamStep, TypeStep, HelloStep, TopicStep, CutStep DEF StreamInv, HelloInv, TopicInv, CutInv
<1> QED
  BY <1>1, <1>2, CutRight, PTL DEF Spec

=============================================================================
