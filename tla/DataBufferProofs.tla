-------------------------- MODULE DataBufferProofs --------------------------
(***************************************************************************)
(* The write buffer, for any number of reports and any sizes of list and   *)
(* batch.  The proofs are about three properties of one sequence, the      *)
(* list followed by the worker's batch: nothing is in it twice, it is not  *)
(* too long, and it is in order.                                           *)
(***************************************************************************)
EXTENDS DataBuffer, FiniteSetTheorems, SequenceTheorems, TLAPS

-----------------------------------------------------------------------------
(* Sequences are put together and cut in two; what is said of them is said of the parts. *)

\* A sequence is what comes before a place and what comes after it.
LEMMA CutInTwo ==
    ASSUME NEW S, NEW s \in Seq(S), NEW n \in 0 .. Len(s)
    PROVE  /\ SubSeq(s, 1, n) \in Seq(S) /\ Len(SubSeq(s, 1, n)) = n
           /\ SubSeq(s, n + 1, Len(s)) \in Seq(S) /\ Len(SubSeq(s, n + 1, Len(s))) = Len(s) - n
           /\ s = SubSeq(s, 1, n) \o SubSeq(s, n + 1, Len(s))
<1> DEFINE a == SubSeq(s, 1, n)
           b == SubSeq(s, n + 1, Len(s))
<1>1. /\ a \in Seq(S) /\ Len(a) = n /\ \A i \in 1 .. n : a[i] = s[i]
      /\ b \in Seq(S) /\ Len(b) = Len(s) - n /\ \A i \in 1 .. Len(s) - n : b[i] = s[n + i]
  OBVIOUS
<1> HIDE DEF a, b
<1>2. /\ a \o b \in Seq(S) /\ Len(a \o b) = Len(s)
      /\ \A i \in 1 .. Len(s) : (a \o b)[i] = IF i <= n THEN a[i] ELSE b[i - n]
  BY <1>1, ConcatProperties
<1>3. \A i \in 1 .. Len(s) : (a \o b)[i] = s[i]
  BY <1>1, <1>2
<1>4. s = a \o b
  BY <1>2, <1>3, SeqEqual
<1> QED
  BY <1>1, <1>4 DEF a, b

LEMMA ElementsOfConcat ==
    ASSUME NEW S, NEW s \in Seq(S), NEW t \in Seq(S)
    PROVE  Elements(s) \subseteq S /\ Elements(s \o t) = Elements(s) \cup Elements(t)
<1>1. /\ Len(s \o t) = Len(s) + Len(t) /\ Len(s) \in Nat /\ Len(t) \in Nat
      /\ \A i \in 1 .. Len(s) + Len(t) : (s \o t)[i] = IF i <= Len(s) THEN s[i] ELSE t[i - Len(s)]
  BY ConcatProperties
<1>2. Elements(s \o t) \subseteq Elements(s) \cup Elements(t)
  <2> SUFFICES ASSUME NEW i \in 1 .. Len(s) + Len(t)
               PROVE  (s \o t)[i] \in Elements(s) \cup Elements(t)
    BY <1>1 DEF Elements
  <2>1. CASE i <= Len(s)
    BY <1>1, <2>1 DEF Elements
  <2>2. CASE i > Len(s)
    <3>1. i - Len(s) \in 1 .. Len(t) /\ (s \o t)[i] = t[i - Len(s)]
      BY <1>1, <2>2
    <3> QED
      BY <3>1 DEF Elements
  <2> QED
    BY <1>1, <2>1, <2>2
<1>3. Elements(s) \subseteq Elements(s \o t)
  BY <1>1 DEF Elements
<1>4. Elements(t) \subseteq Elements(s \o t)
  <2> SUFFICES ASSUME NEW i \in 1 .. Len(t) PROVE t[i] \in Elements(s \o t)
    BY DEF Elements
  <2>1. i + Len(s) \in 1 .. Len(s) + Len(t) /\ (i + Len(s)) - Len(s) = i
    BY <1>1
  <2>2. (s \o t)[i + Len(s)] = t[i]
    BY <1>1, <2>1
  <2> QED
    BY <1>1, <2>1, <2>2 DEF Elements
<1>5. Elements(s) \subseteq S
  BY DEF Elements
<1> QED
  BY <1>2, <1>3, <1>4, <1>5, Zenon

\* The same of three.
LEMMA ElementsOfThree ==
    ASSUME NEW S, NEW s \in Seq(S), NEW t \in Seq(S), NEW u \in Seq(S)
    PROVE  /\ Elements((s \o t) \o u) = Elements(s) \cup Elements(t) \cup Elements(u)
           /\ Elements(s \o (t \o u)) = Elements(s) \cup Elements(t) \cup Elements(u)
<1>1. ASSUME NEW x, x = s \o t PROVE Elements(x \o u) = Elements(s) \cup Elements(t) \cup Elements(u)
  <2>1. x \in Seq(S)
    BY <1>1, ConcatProperties
  <2>2. Elements(x) = Elements(s) \cup Elements(t)
    BY <1>1, ElementsOfConcat
  <2>3. Elements(x \o u) = Elements(x) \cup Elements(u)
    BY <2>1, ElementsOfConcat
  <2> QED
    BY <2>2, <2>3
<1>2. ASSUME NEW x, x = t \o u PROVE Elements(s \o x) = Elements(s) \cup Elements(t) \cup Elements(u)
  <2>1. x \in Seq(S)
    BY <1>2, ConcatProperties
  <2>2. Elements(x) = Elements(t) \cup Elements(u)
    BY <1>2, ElementsOfConcat
  <2>3. Elements(s \o x) = Elements(s) \cup Elements(x)
    BY <2>1, ElementsOfConcat
  <2> QED
    BY <2>2, <2>3
<1> QED
  BY <1>1, <1>2

LEMMA ElementsOfFew ==
    /\ Elements(<< >>) = {}
    /\ \A r : Elements(<<r>>) = {r}
BY DEF Elements

\* Each entry stands to each later one in the relation R.
Pairwise(s, R) == \A i, j \in 1 .. Len(s) : i < j => <<s[i], s[j]>> \in R

LEMMA PairwiseConcat ==
    ASSUME NEW S, NEW s \in Seq(S), NEW t \in Seq(S), NEW R
    PROVE  Pairwise(s \o t, R) <=> /\ Pairwise(s, R) /\ Pairwise(t, R)
                                   /\ \A x \in Elements(s), y \in Elements(t) : <<x, y>> \in R
<1>1. /\ Len(s \o t) = Len(s) + Len(t) /\ Len(s) \in Nat /\ Len(t) \in Nat
      /\ \A i \in 1 .. Len(s) + Len(t) : (s \o t)[i] = IF i <= Len(s) THEN s[i] ELSE t[i - Len(s)]
  BY ConcatProperties
<1>2. /\ \A i \in 1 .. Len(s) : i \in 1 .. Len(s \o t) /\ (s \o t)[i] = s[i]
      /\ \A i \in 1 .. Len(t) : Len(s) + i \in 1 .. Len(s \o t) /\ (s \o t)[Len(s) + i] = t[i]
  BY <1>1
<1>3. ASSUME Pairwise(s \o t, R)
      PROVE  /\ Pairwise(s, R) /\ Pairwise(t, R)
             /\ \A x \in Elements(s), y \in Elements(t) : <<x, y>> \in R
  <2>1. Pairwise(s, R)
    BY <1>2, <1>3 DEF Pairwise
  <2>2. Pairwise(t, R)
    <3> SUFFICES ASSUME NEW i \in 1 .. Len(t), NEW j \in 1 .. Len(t), i < j
                 PROVE  <<t[i], t[j]>> \in R
      BY DEF Pairwise
    <3>1. Len(s) + i < Len(s) + j
      BY <1>1
    <3> QED
      BY <1>2, <1>3, <3>1 DEF Pairwise
  <2>3. ASSUME NEW i \in 1 .. Len(s), NEW j \in 1 .. Len(t) PROVE <<s[i], t[j]>> \in R
    <3>1. i < Len(s) + j
      BY <1>1
    <3> QED
      BY <1>2, <1>3, <3>1 DEF Pairwise
  <2> QED
    BY <2>1, <2>2, <2>3 DEF Elements
<1>4. ASSUME Pairwise(s, R), Pairwise(t, R),
             \A x \in Elements(s), y \in Elements(t) : <<x, y>> \in R
      PROVE  Pairwise(s \o t, R)
  <2> SUFFICES ASSUME NEW i \in 1 .. Len(s) + Len(t), NEW j \in 1 .. Len(s) + Len(t), i < j
               PROVE  <<(s \o t)[i], (s \o t)[j]>> \in R
    BY <1>1 DEF Pairwise
  <2>1. CASE j <= Len(s)
    <3>1. i \in 1 .. Len(s) /\ j \in 1 .. Len(s)
      BY <1>1, <2>1
    <3> QED
      BY <1>2, <1>4, <3>1 DEF Pairwise
  <2>2. CASE i > Len(s)
    <3>1. /\ i - Len(s) \in 1 .. Len(t) /\ j - Len(s) \in 1 .. Len(t) /\ i - Len(s) < j - Len(s)
          /\ (s \o t)[i] = t[i - Len(s)] /\ (s \o t)[j] = t[j - Len(s)]
      BY <1>1, <2>2
    <3> QED
      BY <1>4, <3>1 DEF Pairwise
  <2>3. CASE i <= Len(s) /\ j > Len(s)
    <3>1. /\ i \in 1 .. Len(s) /\ j - Len(s) \in 1 .. Len(t)
          /\ (s \o t)[i] = s[i] /\ (s \o t)[j] = t[j - Len(s)]
      BY <1>1, <2>3
    <3> QED
      BY <1>4, <3>1 DEF Elements
  <2>4. i \in Int /\ j \in Int /\ Len(s) \in Int
    BY <1>1
  <2>5. j <= Len(s) \/ i > Len(s) \/ (i <= Len(s) /\ j > Len(s))
    BY <2>4
  <2> QED
    BY <2>1, <2>2, <2>3, <2>5
<1> QED
  BY <1>3, <1>4

LEMMA PairwiseOfFew ==
    ASSUME NEW R
    PROVE  Pairwise(<< >>, R) /\ \A r : Pairwise(<<r>>, R)
BY DEF Pairwise

\* Counting: parts add up, a member counts one, and a larger set counts more.
LEMMA AmongIsFinite ==
    ASSUME NEW S, NEW s \in Seq(S), NEW R
    PROVE  /\ IsFiniteSet({i \in 1 .. Len(s) : s[i] \in R})
           /\ Among(s, R) \in Nat /\ Among(s, R) <= Len(s)
<1>1. Len(s) \in Nat /\ 1 \in Int
  OBVIOUS
<1>2. IsFiniteSet(1 .. Len(s)) /\ Cardinality(1 .. Len(s)) = Len(s)
  BY <1>1, FS_Interval
<1>3. {i \in 1 .. Len(s) : s[i] \in R} \in SUBSET (1 .. Len(s))
  OBVIOUS
<1> QED
  BY <1>2, <1>3, FS_Subset, FS_CardinalityType DEF Among

LEMMA AmongConcat ==
    ASSUME NEW S, NEW s \in Seq(S), NEW t \in Seq(S), NEW R
    PROVE  Among(s \o t, R) = Among(s, R) + Among(t, R)
<1> DEFINE A == {i \in 1 .. Len(s) : s[i] \in R}
           B == {i \in 1 .. Len(t) : t[i] \in R}
           D == {i \in 1 .. Len(s \o t) : (s \o t)[i] \in R}
           moved == [i \in B |-> Len(s) + i]
           C == {Len(s) + i : i \in B}
<1>1. /\ s \o t \in Seq(S) /\ Len(s \o t) = Len(s) + Len(t) /\ Len(s) \in Nat /\ Len(t) \in Nat
      /\ \A i \in 1 .. Len(s) + Len(t) : (s \o t)[i] = IF i <= Len(s) THEN s[i] ELSE t[i - Len(s)]
  BY ConcatProperties
<1>2. IsFiniteSet(A) /\ IsFiniteSet(B)
  BY AmongIsFinite
<1>3. D = A \cup C
  <2>1. ASSUME NEW i \in A PROVE i \in D
    BY <1>1
  <2>2. ASSUME NEW i \in B PROVE Len(s) + i \in D
    <3>1. Len(s) + i \in 1 .. Len(s) + Len(t) /\ (Len(s) + i) - Len(s) = i /\ ~(Len(s) + i <= Len(s))
      BY <1>1
    <3> QED
      BY <1>1, <3>1
  <2>3. ASSUME NEW i \in D PROVE i \in A \cup C
    <3>1. CASE i <= Len(s)
      BY <1>1, <3>1
    <3>2. CASE i > Len(s)
      <4>1. i - Len(s) \in 1 .. Len(t) /\ (s \o t)[i] = t[i - Len(s)]
        BY <1>1, <3>2
      <4>2. i - Len(s) \in B /\ i = Len(s) + (i - Len(s))
        BY <1>1, <4>1
      <4> QED
        BY <4>2
    <3> QED
      BY <1>1, <3>1, <3>2
  <2> QED
    BY <2>1, <2>2, <2>3
<1>4. A \cap C = {}
  BY <1>1
<1>5. IsFiniteSet(C) /\ Cardinality(C) = Cardinality(B)
  <2>1. moved \in [B -> C] /\ \A i, j \in B : moved[i] = moved[j] => i = j
    BY <1>1
  <2>2. \A k \in C : \E i \in B : moved[i] = k
    OBVIOUS
  <2>3. moved \in Injection(B, C) /\ moved \in Surjection(B, C)
    BY <2>1, <2>2 DEF Injection, Surjection, IsInjective
  <2> QED
    BY <1>2, <2>3, FS_Surjection
<1>6. Cardinality(A \cup C) = Cardinality(A) + Cardinality(C) - Cardinality(A \cap C)
  BY <1>2, <1>5, FS_Union
<1>7. Cardinality(A) \in Nat /\ Cardinality(C) \in Nat
  BY <1>2, <1>5, FS_CardinalityType
<1>8. Cardinality(A \cap C) = 0
  BY <1>4, FS_EmptySet
<1> HIDE DEF A, B, C, D
<1>9. Cardinality(D) = Cardinality(A) + Cardinality(B)
  BY <1>3, <1>5, <1>6, <1>7, <1>8
<1> QED
  BY <1>9 DEF Among, A, B, D

LEMMA AmongOfFew ==
    ASSUME NEW R
    PROVE  /\ Among(<< >>, R) = 0
           /\ \A r \in R : Among(<<r>>, R) = 1
<1>1. {i \in 1 .. Len(<< >>) : << >>[i] \in R} = {}
  OBVIOUS
<1>2. ASSUME NEW r \in R PROVE Among(<<r>>, R) = 1
  <2>1. {i \in 1 .. Len(<<r>>) : <<r>>[i] \in R} = {1}
    OBVIOUS
  <2> QED
    BY <2>1, FS_Singleton DEF Among
<1> QED
  BY <1>1, <1>2, FS_EmptySet DEF Among

LEMMA AmongMore ==
    ASSUME NEW S, NEW s \in Seq(S), NEW R, NEW T, R \cap S \subseteq T
    PROVE  Among(s, R) <= Among(s, T)
<1> DEFINE A == {i \in 1 .. Len(s) : s[i] \in R}
           B == {i \in 1 .. Len(s) : s[i] \in T}
<1>1. A \in SUBSET B
  OBVIOUS
<1>2. IsFiniteSet(B)
  BY AmongIsFinite
<1> QED
  BY <1>1, <1>2, FS_Subset DEF Among

-----------------------------------------------------------------------------
(* What the steps do to the list and the batch. *)

LEMMA BufferBounds ==
    /\ MaxLen \in Nat \ {0} /\ BatchSize \in Nat \ {0} /\ MaxFaults \in Nat
    /\ PopSize \in 1 .. BatchSize
BY DataBufferAssumptions DEF PopSize

\* LTRIM keeps a first part of the list and cuts off the rest.
LEMMA TrimParts ==
    ASSUME queue \in Seq(Reports)
    PROVE  /\ Kept(queue) \in Seq(Reports) /\ Len(Kept(queue)) <= MaxLen
           /\ \E rest \in Seq(Reports) : queue = Kept(queue) \o rest /\ Cut(queue) = Elements(rest)
<1>1. Len(queue) \in Nat /\ MaxLen \in Nat
  BY BufferBounds
<1>2. CASE Len(queue) > MaxLen
  <2>1. MaxLen \in 0 .. Len(queue) /\ Kept(queue) = SubSeq(queue, 1, MaxLen)
    BY <1>1, <1>2 DEF Kept
  <2>2. /\ Kept(queue) \in Seq(Reports) /\ Len(Kept(queue)) = MaxLen
        /\ SubSeq(queue, MaxLen + 1, Len(queue)) \in Seq(Reports)
        /\ queue = Kept(queue) \o SubSeq(queue, MaxLen + 1, Len(queue))
    <3>1. \A n \in 0 .. Len(queue) :
             /\ SubSeq(queue, 1, n) \in Seq(Reports) /\ Len(SubSeq(queue, 1, n)) = n
             /\ SubSeq(queue, n + 1, Len(queue)) \in Seq(Reports)
             /\ queue = SubSeq(queue, 1, n) \o SubSeq(queue, n + 1, Len(queue))
      BY CutInTwo
    <3>2. /\ SubSeq(queue, 1, MaxLen) \in Seq(Reports) /\ Len(SubSeq(queue, 1, MaxLen)) = MaxLen
          /\ SubSeq(queue, MaxLen + 1, Len(queue)) \in Seq(Reports)
          /\ queue = SubSeq(queue, 1, MaxLen) \o SubSeq(queue, MaxLen + 1, Len(queue))
      BY <2>1, <3>1, Zenon
    <3> QED
      BY <2>1, <3>2, Zenon
  <2>3. Cut(queue) = Elements(SubSeq(queue, MaxLen + 1, Len(queue)))
    BY DEF Cut
  <2>4. Len(Kept(queue)) <= MaxLen
    BY <1>1, <2>2
  <2> QED
    BY <2>2, <2>3, <2>4
<1>3. CASE ~(Len(queue) > MaxLen)
  <2>1. Kept(queue) = queue
    BY <1>1, <1>3 DEF Kept
  <2>2. SubSeq(queue, MaxLen + 1, Len(queue)) = << >>
    BY <1>1, <1>3, SubSeqEmpty
  <2>3. << >> \in Seq(Reports) /\ queue = queue \o << >>
    BY ConcatEmptySeq
  <2>4. Cut(queue) = Elements(<< >>)
    BY <2>2 DEF Cut
  <2>5. Len(Kept(queue)) <= MaxLen
    BY <1>1, <1>3, <2>1
  <2> QED
    BY <2>1, <2>3, <2>4, <2>5
<1> QED
  BY <1>2, <1>3

\* What Pop and PopFails take of the list, and what they leave.
Count == IF Len(queue) > PopSize THEN PopSize ELSE Len(queue)
Taken == SubSeq(queue, Len(queue) - Count + 1, Len(queue))

LEMMA PopParts ==
    ASSUME queue \in Seq(Reports)
    PROVE  /\ Rest(Count) \in Seq(Reports) /\ Taken \in Seq(Reports)
           /\ queue = Rest(Count) \o Taken
           /\ Len(Taken) = Count /\ Len(Rest(Count)) = Len(queue) - Count
           /\ Count <= PopSize /\ (queue # << >> => Count > 0)
           /\ Len(queue) \in Nat /\ Count \in Nat
<1>1. Len(queue) \in Nat /\ PopSize \in Nat \ {0}
  BY BufferBounds
<1>2. Count \in Nat /\ Len(queue) - Count \in 0 .. Len(queue) /\ Count <= PopSize
  BY <1>1 DEF Count
<1>3. queue # << >> => Len(queue) > 0
  BY <1>1, EmptySeq
<1>4. queue # << >> => Count > 0
  BY <1>1, <1>3 DEF Count
<1>5. Len(queue) - (Len(queue) - Count) = Count
  BY <1>1, <1>2
<1> QED
  BY <1>1, <1>2, <1>4, <1>5, CutInTwo DEF Rest, Taken

\* LPUSH puts a report before the others.
LEMMA PushParts ==
    ASSUME queue \in Seq(Reports), NEW r \in Reports
    PROVE  <<r>> \in Seq(Reports) /\ Pushed(r) = <<r>> \o queue /\ Pushed(r) \in Seq(Reports)
BY DEF Pushed

\* requeue takes the first report of the batch.
LEMMA RequeueParts ==
    ASSUME batch \in Seq(Reports), batch # << >>
    PROVE  /\ batch[1] \in Reports /\ <<batch[1]>> \in Seq(Reports)
           /\ Tail(batch) \in Seq(Reports) /\ batch = <<batch[1]>> \o Tail(batch)
           /\ Len(batch) \in Nat \ {0} /\ Len(Tail(batch)) = Len(batch) - 1
<1>1. Len(batch) \in Nat \ {0}
  BY EmptySeq
<1>2. batch[1] \in Reports /\ <<batch[1]>> \in Seq(Reports)
  BY <1>1
<1>3. Tail(batch) \in Seq(Reports) /\ Len(Tail(batch)) = Len(batch) - 1
      /\ \A i \in 1 .. Len(Tail(batch)) : Tail(batch)[i] = batch[i + 1]
  BY HeadTailProperties
<1>4. /\ <<batch[1]>> \o Tail(batch) \in Seq(Reports) /\ Len(<<batch[1]>> \o Tail(batch)) = Len(batch)
      /\ \A i \in 1 .. Len(batch) :
             (<<batch[1]>> \o Tail(batch))[i] = IF i <= 1 THEN batch[1] ELSE Tail(batch)[i - 1]
  <2>1. Len(<<batch[1]>>) = 1 /\ <<batch[1]>>[1] = batch[1]
    OBVIOUS
  <2> QED
    BY <1>1, <1>2, <1>3, <2>1, ConcatProperties
<1>5. \A i \in 1 .. Len(batch) : (<<batch[1]>> \o Tail(batch))[i] = batch[i]
  BY <1>1, <1>3, <1>4
<1>6. batch = <<batch[1]>> \o Tail(batch)
  BY <1>4, <1>5, SeqEqual
<1> QED
  BY <1>1, <1>2, <1>3, <1>6

-----------------------------------------------------------------------------
(* Types, and what the worker holds where. *)

\* The worker waits, trims and ends with nothing in its hands, writes and puts back only what
\* it has, and never has more than a batch.
WorkerHolds ==
    /\ Len(batch) <= BatchSize
    /\ worker \in {"wait", "trim", "over"} => batch = << >>
    /\ worker \in {"flush", "requeue"} => batch # << >>
    /\ worker = "pop" => Len(batch) < BatchSize /\ (fallback \/ batch = << >>)
    /\ ~Running => worker = "over"

LEMMA TypeInit == Init => TypeOK /\ WorkerHolds
<1> SUFFICES ASSUME Init PROVE TypeOK /\ WorkerHolds
  OBVIOUS
<1>1. << >> \in Seq(Reports) /\ Len(<< >>) = 0 /\ 0 \in 0 .. MaxFaults /\ 0 <= BatchSize
  BY BufferBounds, EmptySeq
<1>2. TypeOK
  BY <1>1 DEF Init, TypeOK
<1>3. WorkerHolds
  BY <1>1 DEF Init, WorkerHolds, Running
<1> QED
  BY <1>2, <1>3

\* Every step keeps the types and what the worker holds.
LEMMA TypeStep == ASSUME TypeOK, WorkerHolds, [Next]_vars PROVE TypeOK' /\ WorkerHolds'
<1> USE BufferBounds DEF workerVars, storeVars, deployVars, processVars, Running
<1>t. /\ queue \in Seq(Reports) /\ batch \in Seq(Reports) /\ arrived \in Seq(Reports)
      /\ Len(batch) \in Nat /\ faults \in 0 .. MaxFaults
      /\ writes \in SUBSET Reports /\ stored \in SUBSET Reports /\ trimmed \in SUBSET Reports
      /\ pipe \in [Reports -> {"new", "trim", "answered", "direct", "lost"}]
  BY DEF TypeOK
<1>e. << >> \in Seq(Reports) /\ Len(<< >>) = 0
  BY EmptySeq
<1>w. DrainOver => worker' \in {"wait", "over"}
  BY DEF DrainOver
<1>f. Fault => faults' \in 0 .. MaxFaults
  BY <1>t DEF Fault
<1>l. ASSUME LTrim PROVE queue' \in Seq(Reports) /\ trimmed' \in SUBSET Reports
  <2>1. PICK rest \in Seq(Reports) : Cut(queue) = Elements(rest)
    BY <1>t, TrimParts
  <2> QED
    BY <1>t, <1>l, <2>1, TrimParts, ElementsOfConcat DEF LTrim
<1>p. ASSUME NEW r \in Reports, LPush(r) PROVE queue' \in Seq(Reports) /\ arrived' \in Seq(Reports)
  <2>1. Append(arrived, r) \in Seq(Reports)
    BY <1>t
  <2> QED
    BY <1>t, <1>p, <2>1, PushParts DEF LPush
<1>1. ASSUME NEW r \in Reports, ReportPush(r) PROVE TypeOK' /\ WorkerHolds'
  <2>1. pipe' \in [Reports -> {"new", "trim", "answered", "direct", "lost"}]
    BY <1>t, <1>1 DEF ReportPush
  <2> QED
    BY <1>p, <1>1, <2>1 DEF ReportPush, TypeOK, WorkerHolds
<1>2. ASSUME NEW r \in Reports, ReportTrim(r) PROVE TypeOK' /\ WorkerHolds'
  <2>1. pipe' \in [Reports -> {"new", "trim", "answered", "direct", "lost"}]
    BY <1>t, <1>2 DEF ReportTrim
  <2> QED
    BY <1>l, <1>2, <2>1 DEF ReportTrim, TypeOK, WorkerHolds
<1>3. ASSUME NEW r \in Reports, ReportDirect(r) \/ WriteEnds(r) PROVE TypeOK' /\ WorkerHolds'
  <2>1. /\ pipe' \in [Reports -> {"new", "trim", "answered", "direct", "lost"}]
        /\ writes' \in SUBSET Reports /\ stored' \in SUBSET Reports
        /\ faults' \in 0 .. MaxFaults
    BY <1>t, <1>f, <1>3 DEF ReportDirect, WriteEnds
  <2>2. UNCHANGED <<queue, worker, batch, writer, fallback, server, trimmed, arrived>>
    BY <1>3 DEF ReportDirect, WriteEnds
  <2> QED
    BY <2>1, <2>2 DEF TypeOK, WorkerHolds
<1>4. CASE Tick \/ StopBuffer
  <2>1. /\ worker = "wait" /\ worker' = "pop" /\ server' \in {"up", "stopping"}
        /\ UNCHANGED <<queue, pipe, batch, storeVars, deployVars, faults, trimmed, arrived>>
    BY <1>4 DEF Tick, StopBuffer
  <2> QED
    BY <1>e, <2>1 DEF TypeOK, WorkerHolds
<1>5. CASE Pop
  <2>1. /\ worker = "pop" /\ queue # << >> /\ queue' = Rest(Count) /\ batch' = Taken \o batch
        /\ worker' = IF fallback /\ Len(batch) + 1 < BatchSize THEN "pop" ELSE "flush"
        /\ server \in {"up", "stopping"} /\ UNCHANGED <<pipe, storeVars, processVars, trimmed, arrived>>
    BY <1>5 DEF Pop, Count, Taken
  <2>2. /\ queue' \in Seq(Reports) /\ batch' \in Seq(Reports) /\ Len(batch') = Count + Len(batch)
        /\ Count \in Nat /\ Count <= PopSize /\ Count > 0
    <3>1. /\ Rest(Count) \in Seq(Reports) /\ Taken \in Seq(Reports) /\ Len(Taken) = Count
          /\ Count <= PopSize /\ Count > 0 /\ Count \in Nat
      BY <1>t, <2>1, PopParts
    <3>2. /\ Taken \o batch \in Seq(Reports) /\ Len(Taken \o batch) = Len(Taken) + Len(batch)
      BY <1>t, <3>1, ConcatProperties
    <3> QED
      BY <2>1, <3>1, <3>2
  <2>3. batch' # << >>
    BY <1>t, <1>e, <2>2
  <2>4. fallback => Count = 1
    BY <2>2 DEF PopSize
  <2>5. ~fallback => Len(batch) = 0
    BY <1>e, <2>1 DEF WorkerHolds
  <2>6. Len(batch) < BatchSize
    BY <2>1 DEF WorkerHolds
  <2>7. WorkerHolds'
    BY <1>t, <2>1, <2>2, <2>3, <2>4, <2>5, <2>6 DEF WorkerHolds
  <2>8. TypeOK'
    BY <2>1, <2>2 DEF TypeOK
  <2> QED
    BY <2>7, <2>8
<1>6. CASE PopNothing
  <2>1. /\ worker = "pop" /\ UNCHANGED <<queue, pipe, batch, storeVars, processVars, trimmed, arrived>>
        /\ \/ batch # << >> /\ worker' = "flush"
           \/ batch = << >> /\ worker' \in {"wait", "over"}
    BY <1>w, <1>6 DEF PopNothing
  <2> QED
    BY <2>1 DEF TypeOK, WorkerHolds
<1>7. CASE PopFails
  <2>1. /\ queue' \in {queue, Rest(Count)} /\ batch' = << >> /\ worker' \in {"wait", "over"}
        /\ server \in {"up", "stopping"} /\ faults' \in 0 .. MaxFaults
        /\ UNCHANGED <<pipe, storeVars, server, deployVars, trimmed, arrived>>
    BY <1>f, <1>w, <1>7 DEF PopFails, Count
  <2>2. queue' \in Seq(Reports)
    BY <1>t, <2>1, PopParts
  <2> QED
    BY <1>e, <2>1, <2>2 DEF TypeOK, WorkerHolds
<1>8. CASE FlushAsync \/ FlushSync
  <2>1. /\ batch' = << >> /\ worker' = "pop"
        /\ writes' \in SUBSET Reports /\ stored' \in SUBSET Reports
        /\ server \in {"up", "stopping"} /\ UNCHANGED <<queue, pipe, processVars, trimmed, arrived>>
    BY <1>t, <1>8, ElementsOfConcat DEF FlushAsync, FlushSync
  <2> QED
    BY <1>e, <2>1 DEF TypeOK, WorkerHolds
<1>9. CASE FlushRefused
  BY <1>9 DEF FlushRefused, TypeOK, WorkerHolds
<1>10. CASE Requeue
  <2>0. batch # << >>
    BY <1>10 DEF Requeue, WorkerHolds
  <2>1. /\ worker = "requeue" /\ batch # << >> /\ batch' = Tail(batch)
        /\ worker' = IF Len(batch) = 1 THEN "trim" ELSE "requeue"
        /\ (LPush(batch[1]) /\ UNCHANGED faults) \/ (Fault /\ UNCHANGED <<queue, arrived>>)
        /\ server \in {"up", "stopping"} /\ UNCHANGED <<pipe, storeVars, server, deployVars, trimmed>>
    BY <1>10, <2>0 DEF Requeue
  <2>2. /\ batch[1] \in Reports /\ batch' \in Seq(Reports)
        /\ Len(batch) \in Nat \ {0} /\ Len(batch') = Len(batch) - 1
    BY <1>t, <2>1, RequeueParts
  <2>3. queue' \in Seq(Reports) /\ arrived' \in Seq(Reports) /\ faults' \in 0 .. MaxFaults
    BY <1>t, <1>p, <1>f, <2>1, <2>2
  <2>4. TypeOK'
    BY <2>1, <2>2, <2>3 DEF TypeOK
  <2>5. Len(batch) = 1 => batch' = << >>
    BY <2>2, EmptySeq
  <2>6. Len(batch) # 1 => batch' # << >>
    BY <1>e, <2>2
  <2>7. WorkerHolds'
    BY <2>1, <2>2, <2>5, <2>6 DEF WorkerHolds
  <2> QED
    BY <2>4, <2>7
<1>11. CASE RequeueTrim
  <2>1. /\ worker = "trim" /\ worker' \in {"wait", "over"}
        /\ queue' \in Seq(Reports) /\ trimmed' \in SUBSET Reports /\ faults' \in 0 .. MaxFaults
        /\ UNCHANGED <<pipe, batch, storeVars, server, deployVars, arrived>>
    BY <1>t, <1>f, <1>l, <1>w, <1>11 DEF RequeueTrim
  <2> QED
    BY <2>1 DEF TypeOK, WorkerHolds
<1>12. CASE Exit \/ Crash
  <2>1. /\ batch' = << >> /\ worker' = "over" /\ writes' = {} /\ server' \in {"exited", "crashed"}
        /\ pipe' = [r \in Reports |-> IF pipe[r] = "trim" THEN "lost" ELSE pipe[r]]
        /\ faults' \in 0 .. MaxFaults
        /\ UNCHANGED <<queue, stored, deployVars, trimmed, arrived>>
    BY <1>t, <1>f, <1>12 DEF Exit, Crash, Gone
  <2>2. pipe' \in [Reports -> {"new", "trim", "answered", "direct", "lost"}]
    BY <1>t, <2>1
  <2> QED
    BY <1>e, <2>1, <2>2 DEF TypeOK, WorkerHolds
<1>13. CASE Restart
  BY <1>13 DEF Restart, TypeOK, WorkerHolds
<1>14. CASE UNCHANGED vars
  BY <1>14 DEF vars, TypeOK, WorkerHolds
<1> QED
  BY <1>1, <1>2, <1>3, <1>4, <1>5, <1>6, <1>7, <1>8, <1>9, <1>10, <1>11, <1>12, <1>13, <1>14
  DEF Next, Drain

\* Every variable keeps its type, for any number of reports and any sizes.
THEOREM TypeCorrect == Spec => [](TypeOK /\ WorkerHolds)
<1>1. TypeOK /\ WorkerHolds /\ [Next]_vars => (TypeOK /\ WorkerHolds)'
  BY TypeStep
<1> QED
  BY TypeInit, <1>1, PTL DEF Spec

-----------------------------------------------------------------------------
(* What is in the list q and with the worker, b, as one sequence. *)

LEMMA HeldParts ==
    ASSUME NEW S, NEW q \in Seq(S), NEW b \in Seq(S), NEW R
    PROVE  /\ q \o b \in Seq(S) /\ Elements(q \o b) = Elements(q) \cup Elements(b)
           /\ Elements(q) \subseteq S /\ Elements(b) \subseteq S
           /\ Pairwise(q \o b, R) <=>
                  /\ Pairwise(q, R) /\ Pairwise(b, R)
                  /\ \A x \in Elements(q), y \in Elements(b) : <<x, y>> \in R
<1>1. q \o b \in Seq(S)
  BY ConcatProperties
<1>2. Elements(q \o b) = Elements(q) \cup Elements(b) /\ Elements(q) \subseteq S /\ Elements(b) \subseteq S
  BY ElementsOfConcat
<1> QED
  BY <1>1, <1>2, PairwiseConcat

\* A last part of the list, end, is cut off, dropped, or taken into the batch; or the batch goes.
LEMMA HeldLoses ==
    ASSUME NEW S, NEW q \in Seq(S), NEW b \in Seq(S), NEW end \in Seq(S), NEW R,
           NEW c \in {b, end \o b, << >>}
    PROVE  /\ Pairwise((q \o end) \o b, R) => Pairwise(q \o c, R)
           /\ Elements(q \o c) \subseteq Elements((q \o end) \o b)
           /\ c = end \o b => Elements(q \o c) = Elements((q \o end) \o b)
<1>1. q \o end \in Seq(S) /\ end \o b \in Seq(S) /\ c \in Seq(S)
  <2>1. q \o end \in Seq(S) /\ end \o b \in Seq(S) /\ << >> \in Seq(S)
    BY ConcatProperties
  <2> QED
    BY <2>1
<1>2. /\ Elements(q \o end) = Elements(q) \cup Elements(end)
      /\ Elements(end \o b) = Elements(end) \cup Elements(b)
      /\ Elements((q \o end) \o b) = Elements(q \o end) \cup Elements(b)
  <2>1. Elements(q \o end) = Elements(q) \cup Elements(end)
    BY ElementsOfConcat
  <2>2. Elements(end \o b) = Elements(end) \cup Elements(b)
    BY ElementsOfConcat
  <2>3. Elements((q \o end) \o b) = Elements(q) \cup Elements(end) \cup Elements(b)
    BY ElementsOfThree
  <2> QED
    BY <2>1, <2>2, <2>3
<1>3. Elements(q \o c) = Elements(q) \cup Elements(c)
  BY <1>1, ElementsOfConcat
<1>4. Elements(c) \subseteq Elements(end) \cup Elements(b)
  BY <1>2, ElementsOfFew
<1>5. ASSUME Pairwise((q \o end) \o b, R) PROVE Pairwise(q \o c, R)
  <2>1. /\ Pairwise(q \o end, R) /\ Pairwise(b, R)
        /\ \A x \in Elements(q \o end), y \in Elements(b) : <<x, y>> \in R
    BY <1>1, <1>5, PairwiseConcat
  <2>2. /\ Pairwise(q, R) /\ Pairwise(end, R)
        /\ \A x \in Elements(q), y \in Elements(end) : <<x, y>> \in R
    BY <2>1, PairwiseConcat
  <2>3. \A x \in Elements(end), y \in Elements(b) : <<x, y>> \in R
    BY <1>2, <2>1
  <2>4. Pairwise(end \o b, R)
    BY <2>1, <2>2, <2>3, PairwiseConcat
  <2>5. Pairwise(c, R)
    BY <2>1, <2>4, PairwiseOfFew
  <2>6. \A x \in Elements(q), y \in Elements(c) : <<x, y>> \in R
    BY <1>2, <1>4, <2>1, <2>2
  <2> QED
    BY <1>1, <2>2, <2>5, <2>6, PairwiseConcat
<1> QED
  BY <1>2, <1>3, <1>4, <1>5

\* A report enters.
LEMMA HeldGains ==
    ASSUME NEW S, NEW q \in Seq(S), NEW b \in Seq(S), NEW R, NEW r \in S
    PROVE  /\ Elements((<<r>> \o q) \o b) = Elements(q \o b) \cup {r}
           /\ Pairwise(q \o b, R) /\ (\A x \in Elements(q \o b) : <<r, x>> \in R) =>
                  Pairwise((<<r>> \o q) \o b, R)
<1>1. <<r>> \in Seq(S) /\ <<r>> \o q \in Seq(S)
  OBVIOUS
<1>2. Elements(<<r>>) = {r}
  BY ElementsOfFew
<1>3. /\ Elements(<<r>> \o q) = {r} \cup Elements(q)
      /\ Elements((<<r>> \o q) \o b) = Elements(<<r>> \o q) \cup Elements(b)
      /\ Elements(q \o b) = Elements(q) \cup Elements(b)
  <2>1. ASSUME NEW x \in Seq(S) PROVE Elements(x \o q) = Elements(x) \cup Elements(q)
    BY ElementsOfConcat
  <2>2. ASSUME NEW x \in Seq(S)
        PROVE  Elements((x \o q) \o b) = Elements(x) \cup Elements(q) \cup Elements(b)
    BY ElementsOfThree
  <2>3. Elements(q \o b) = Elements(q) \cup Elements(b)
    BY ElementsOfConcat
  <2> QED
    BY <1>1, <1>2, <2>1, <2>2, <2>3
<1>4. ASSUME Pairwise(q \o b, R), \A x \in Elements(q \o b) : <<r, x>> \in R
      PROVE  Pairwise((<<r>> \o q) \o b, R)
  <2>1. /\ Pairwise(q, R) /\ Pairwise(b, R)
        /\ \A x \in Elements(q), y \in Elements(b) : <<x, y>> \in R
    BY <1>4, PairwiseConcat
  <2>2. Pairwise(<<r>>, R)
    BY PairwiseOfFew
  <2>3. \A x \in Elements(<<r>>), y \in Elements(q) : <<x, y>> \in R
    BY <1>2, <1>3, <1>4
  <2>4. Pairwise(<<r>> \o q, R)
    BY <1>1, <2>1, <2>2, <2>3, PairwiseConcat
  <2>5. \A x \in Elements(<<r>> \o q), y \in Elements(b) : <<x, y>> \in R
    BY <1>3, <1>4, <2>1
  <2> QED
    BY <1>1, <2>1, <2>4, <2>5, PairwiseConcat
<1> QED
  BY <1>3, <1>4

\* The worker puts the first report of its batch back.
LEMMA HeldBack ==
    ASSUME NEW S, NEW q \in Seq(S), NEW a \in Seq(S), NEW b \in Seq(S), NEW R
    PROVE  /\ Elements((a \o q) \o b) = Elements(q \o (a \o b))
           /\ Pairwise(q \o (a \o b), R) /\ (\A x, y : <<x, y>> \in R => <<y, x>> \in R) =>
                  Pairwise((a \o q) \o b, R)
<1>1. a \o q \in Seq(S) /\ a \o b \in Seq(S)
  BY ConcatProperties
<1>2. /\ Elements(a \o b) = Elements(a) \cup Elements(b)
      /\ Elements(a \o q) = Elements(a) \cup Elements(q)
      /\ Elements((a \o q) \o b) = Elements(a \o q) \cup Elements(b)
      /\ Elements(q \o (a \o b)) = Elements(q) \cup Elements(a \o b)
  <2>1. Elements(a \o b) = Elements(a) \cup Elements(b)
    BY ElementsOfConcat
  <2>2. Elements(a \o q) = Elements(a) \cup Elements(q)
    BY ElementsOfConcat
  <2>3. Elements((a \o q) \o b) = Elements(a) \cup Elements(q) \cup Elements(b)
    BY ElementsOfThree
  <2>4. Elements(q \o (a \o b)) = Elements(q) \cup Elements(a) \cup Elements(b)
    BY ElementsOfThree
  <2> QED
    BY <2>1, <2>2, <2>3, <2>4
<1>3. ASSUME Pairwise(q \o (a \o b), R), \A x, y : <<x, y>> \in R => <<y, x>> \in R
      PROVE  Pairwise((a \o q) \o b, R)
  <2>1. /\ Pairwise(q, R) /\ Pairwise(a \o b, R)
        /\ \A x \in Elements(q), y \in Elements(a \o b) : <<x, y>> \in R
    BY <1>1, <1>3, PairwiseConcat
  <2>2. /\ Pairwise(a, R) /\ Pairwise(b, R)
        /\ \A x \in Elements(a), y \in Elements(b) : <<x, y>> \in R
    BY <2>1, PairwiseConcat
  <2>3. \A x \in Elements(a), y \in Elements(q) : <<x, y>> \in R
    BY <1>2, <1>3, <2>1
  <2>4. Pairwise(a \o q, R)
    BY <2>1, <2>2, <2>3, PairwiseConcat
  <2>5. \A x \in Elements(a \o q), y \in Elements(b) : <<x, y>> \in R
    BY <1>2, <2>1, <2>2
  <2> QED
    BY <1>1, <2>2, <2>4, <2>5, PairwiseConcat
<1> QED
  BY <1>2, <1>3

-----------------------------------------------------------------------------
(* Each report is in one place. *)

\* What the steps that take from the list leave, and where the rest goes.
LEMMA ListLoses ==
    ASSUME TypeOK
    PROVE  /\ LTrim => \E end \in Seq(Reports) :
                           queue = queue' \o end /\ trimmed' = trimmed \cup Elements(end)
                           /\ queue' \in Seq(Reports) /\ Len(queue') <= MaxLen
           /\ Pop => \E end \in Seq(Reports) :
                           queue = queue' \o end /\ batch' = end \o batch /\ queue' \in Seq(Reports)
           /\ PopFails => \E end \in Seq(Reports) : queue = queue' \o end /\ queue' \in Seq(Reports)
<1>1. queue \in Seq(Reports) /\ << >> \in Seq(Reports) /\ queue = queue \o << >>
  BY ConcatEmptySeq DEF TypeOK
<1>2. ASSUME LTrim
      PROVE  \E end \in Seq(Reports) : queue = queue' \o end /\ trimmed' = trimmed \cup Elements(end)
                 /\ queue' \in Seq(Reports) /\ Len(queue') <= MaxLen
  <2>1. PICK end \in Seq(Reports) : queue = Kept(queue) \o end /\ Cut(queue) = Elements(end)
    BY <1>1, TrimParts
  <2>2. Kept(queue) \in Seq(Reports) /\ Len(Kept(queue)) <= MaxLen
    BY <1>1, TrimParts
  <2> QED
    BY <1>2, <2>1, <2>2 DEF LTrim
<1>3. ASSUME Pop
      PROVE  \E end \in Seq(Reports) :
                 queue = queue' \o end /\ batch' = end \o batch /\ queue' \in Seq(Reports)
  <2>1. queue' = Rest(Count) /\ batch' = Taken \o batch
    BY <1>3 DEF Pop, Count, Taken
  <2> QED
    BY <1>1, <2>1, PopParts
<1>4. ASSUME PopFails
      PROVE  \E end \in Seq(Reports) : queue = queue' \o end /\ queue' \in Seq(Reports)
  <2>1. queue' = queue \/ queue' = Rest(Count)
    BY <1>4 DEF PopFails, Count
  <2>2. CASE queue' = queue
    BY <1>1, <2>2
  <2>3. CASE queue' = Rest(Count)
    BY <1>1, <2>3, PopParts
  <2> QED
    BY <2>1, <2>2, <2>3
<1> QED
  BY <1>2, <1>3, <1>4

Differ == {p \in Reports \X Reports : p[1] # p[2]}

\* While nothing failed, a report is once in the list or with the worker, or it is being written,
\* or it is stored; one that has not come in is nowhere.  With a writer that tells a failed
\* write, one that came in is somewhere.
OnceInv ==
    faults = 0 =>
        /\ Pairwise(queue \o batch, Differ)
        /\ Elements(queue \o batch) \cap (writes \cup stored) = {}
        /\ writes \cap stored = {}
        /\ \A r \in Reports :
               /\ pipe[r] # "direct"
               /\ pipe[r] = "new" => r \notin Elements(queue \o batch) \cup writes \cup stored
               /\ writer = "sync" /\ pipe[r] \in {"trim", "answered"} =>
                      r \in Elements(queue \o batch) \cup stored \cup trimmed
        /\ writer = "sync" => writes = {}

LEMMA OnceStep ==
    ASSUME TypeOK, TypeOK', WorkerHolds, OnceInv, [Next]_vars
    PROVE  OnceInv'
<1> SUFFICES ASSUME faults' = 0 PROVE OnceInv'
  BY DEF OnceInv
<1> USE DEF workerVars, storeVars, deployVars, processVars
<1>f. ~Fault
  BY DEF Fault, TypeOK
<1>t. /\ queue \in Seq(Reports) /\ batch \in Seq(Reports)
      /\ queue' \in Seq(Reports) /\ batch' \in Seq(Reports) /\ << >> \in Seq(Reports)
      /\ pipe \in [Reports -> {"new", "trim", "answered", "direct", "lost"}]
      /\ writes \subseteq Reports /\ stored \subseteq Reports
  BY DEF TypeOK
<1> DEFINE E == Elements(queue \o batch)
           E2 == Elements(queue' \o batch')
           P == Pairwise(queue \o batch, Differ)
           P2 == Pairwise(queue' \o batch', Differ)
<1>z. ASSUME faults = 0
      PROVE  /\ P /\ E \cap (writes \cup stored) = {} /\ writes \cap stored = {}
             /\ \A r \in Reports :
                  /\ pipe[r] # "direct"
                  /\ pipe[r] = "new" => r \notin E \cup writes \cup stored
                  /\ writer = "sync" /\ pipe[r] \in {"trim", "answered"} => r \in E \cup stored \cup trimmed
             /\ writer = "sync" => writes = {}
  BY <1>z DEF OnceInv
<1>g. ASSUME /\ P2 /\ E2 \cap (writes' \cup stored') = {} /\ writes' \cap stored' = {}
             /\ \A r \in Reports :
                  /\ pipe'[r] # "direct"
                  /\ pipe'[r] = "new" => r \notin E2 \cup writes' \cup stored'
                  /\ writer' = "sync" /\ pipe'[r] \in {"trim", "answered"} => r \in E2 \cup stored' \cup trimmed'
             /\ writer' = "sync" => writes' = {}
      PROVE  OnceInv'
  BY <1>g DEF OnceInv
<1>e. E = Elements(queue) \cup Elements(batch) /\ E \subseteq Reports
  BY <1>t, HeldParts
<1>a. E2 = Elements(queue') \cup Elements(batch')
  BY <1>t, HeldParts
\* A trim moves what it cuts off to trimmed.
<1>l. ASSUME LTrim, batch' = batch
      PROVE  (P => P2) /\ E2 \subseteq E /\ E \subseteq E2 \cup trimmed' /\ trimmed \subseteq trimmed'
  <2>1. PICK end \in Seq(Reports) : queue = queue' \o end /\ trimmed' = trimmed \cup Elements(end)
    BY <1>l, ListLoses
  <2>2. Elements(queue) = Elements(queue') \cup Elements(end)
    BY <1>t, <2>1, ElementsOfConcat
  <2>3. Pairwise((queue' \o end) \o batch, Differ) => Pairwise(queue' \o batch, Differ)
    BY <1>t, HeldLoses
  <2> QED
    BY <1>e, <1>a, <1>l, <2>1, <2>2, <2>3
<1> HIDE DEF E, E2, P, P2
<1>1. ASSUME NEW r \in Reports, ReportPush(r) PROVE OnceInv'
  <2>1. /\ pipe[r] = "new" /\ pipe' = [pipe EXCEPT ![r] = "trim"] /\ queue' = <<r>> \o queue
        /\ UNCHANGED <<workerVars, storeVars, processVars, trimmed>> /\ faults = 0
    BY <1>1 DEF ReportPush, LPush, Pushed
  <2>2. r \notin E
    BY <1>z, <2>1
  <2>3. \A x \in E : <<r, x>> \in Differ
    BY <1>e, <2>2 DEF Differ
  <2>g. /\ Elements((<<r>> \o queue) \o batch) = Elements(queue \o batch) \cup {r}
        /\ Pairwise(queue \o batch, Differ) /\ (\A x \in Elements(queue \o batch) : <<r, x>> \in Differ) =>
               Pairwise((<<r>> \o queue) \o batch, Differ)
    BY <1>t, HeldGains
  <2>4. E2 = E \cup {r}
    BY <2>1, <2>g DEF E, E2
  <2>5. P /\ (\A x \in E : <<r, x>> \in Differ) => P2
    BY <2>1, <2>g DEF E, P, P2
  <2>6. P2
    BY <1>z, <2>1, <2>3, <2>5
  <2>7. \A x \in Reports : pipe'[x] = IF x = r THEN "trim" ELSE pipe[x]
    BY <1>t, <2>1
  <2> QED
    BY <1>z, <1>g, <2>1, <2>4, <2>6, <2>7
<1>2. ASSUME NEW r \in Reports, ReportTrim(r) PROVE OnceInv'
  <2>1. /\ pipe[r] = "trim" /\ pipe' = [pipe EXCEPT ![r] = "answered"] /\ LTrim /\ batch' = batch
        /\ UNCHANGED <<storeVars, processVars>> /\ faults = 0
    BY <1>2 DEF ReportTrim
  <2>2. \A x \in Reports : pipe'[x] = IF x = r THEN "answered" ELSE pipe[x]
    BY <1>t, <2>1
  <2> QED
    BY <1>z, <1>g, <1>l, <2>1, <2>2
<1>3. ASSUME NEW r \in Reports, ReportDirect(r) \/ WriteEnds(r) PROVE OnceInv'
  <2>1. /\ r \in writes /\ writes' = writes \ {r} /\ stored' \in {stored, stored \cup {r}}
        /\ UNCHANGED <<queue, pipe, workerVars, processVars, trimmed>> /\ faults = 0
    BY <1>f, <1>3 DEF ReportDirect, WriteEnds
  <2>2. E2 = E /\ P2 = P
    BY <2>1 DEF E, E2, P, P2
  <2>3. r \notin E /\ writer # "sync" /\ pipe[r] # "new"
    BY <1>z, <2>1
  <2> QED
    BY <1>z, <1>g, <2>1, <2>2, <2>3
<1>4. CASE Tick \/ StopBuffer \/ PopNothing \/ FlushRefused \/ Restart \/ UNCHANGED vars
  <2>1. UNCHANGED <<queue, pipe, batch, storeVars, deployVars, faults, trimmed>>
    BY <1>4 DEF Tick, StopBuffer, PopNothing, FlushRefused, Restart, vars
  <2>2. E2 = E /\ P2 = P
    BY <2>1 DEF E, E2, P, P2
  <2> QED
    BY <1>z, <1>g, <2>1, <2>2
<1>5. CASE Pop
  <2>1. PICK end \in Seq(Reports) : queue = queue' \o end /\ batch' = end \o batch
    BY <1>5, ListLoses
  <2>2. UNCHANGED <<pipe, storeVars, processVars, trimmed>>
    BY <1>5 DEF Pop
  <2>3. E2 = E
    <3>1. ASSUME NEW q \in Seq(Reports), NEW b \in Seq(Reports)
          PROVE  Elements((q \o end) \o b) = Elements(q \o (end \o b))
      <4>1. /\ Elements((q \o end) \o b) = Elements(q) \cup Elements(end) \cup Elements(b)
            /\ Elements(q \o (end \o b)) = Elements(q) \cup Elements(end) \cup Elements(b)
        BY ElementsOfThree
      <4> QED
        BY <4>1
    <3>2. Elements((queue' \o end) \o batch) = Elements(queue' \o (end \o batch))
      BY <1>t, <3>1
    <3> QED
      BY <2>1, <3>2 DEF E, E2
  <2>4. end \o batch \in {batch, end \o batch, << >>}
    OBVIOUS
  <2>5. Pairwise((queue' \o end) \o batch, Differ) => Pairwise(queue' \o (end \o batch), Differ)
    BY <1>t, <2>4, HeldLoses
  <2>6. P => P2
    BY <2>1, <2>5 DEF P, P2
  <2> QED
    BY <1>z, <1>g, <2>2, <2>3, <2>6
<1>6. CASE FlushAsync \/ FlushSync
  <2>1. /\ UNCHANGED <<queue, pipe, processVars, trimmed>> /\ faults = 0 /\ batch' = << >>
        /\ \/ writer = "async" /\ writes' = writes \cup Elements(batch) /\ UNCHANGED stored
           \/ writer = "sync" /\ stored' = stored \cup Elements(batch) /\ UNCHANGED writes
    BY <1>6 DEF FlushAsync, FlushSync
  <2>2. E2 = Elements(queue)
    BY <1>a, <2>1, ElementsOfFew
  <2>3. /\ Pairwise(queue, Differ)
        /\ \A x \in Elements(queue), y \in Elements(batch) : <<x, y>> \in Differ
    BY <1>t, <1>z, <2>1, PairwiseConcat DEF P
  <2>4. Elements(queue) \cap Elements(batch) = {}
    BY <2>3 DEF Differ
  <2>5. queue' \o batch' = queue
    BY <1>t, <2>1, ConcatEmptySeq
  <2>6. P2
    BY <2>3, <2>5 DEF P2
  <2>7. E \cap (writes \cup stored) = {} /\ writes \cap stored = {}
    BY <1>z, <2>1
  <2>8. E2 \cap (writes' \cup stored') = {} /\ writes' \cap stored' = {}
    BY <1>e, <2>1, <2>2, <2>4, <2>7
  <2>9. ASSUME NEW r \in Reports
        PROVE  /\ pipe'[r] # "direct"
               /\ pipe'[r] = "new" => r \notin E2 \cup writes' \cup stored'
               /\ writer' = "sync" /\ pipe'[r] \in {"trim", "answered"} => r \in E2 \cup stored' \cup trimmed'
    BY <1>e, <1>z, <2>1, <2>2
  <2> QED
    BY <1>z, <1>g, <2>1, <2>6, <2>8, <2>9
<1>7. CASE Requeue
  <2>1. /\ queue' = <<batch[1]>> \o queue /\ batch' = Tail(batch) /\ faults = 0
        /\ UNCHANGED <<pipe, storeVars, writer, trimmed>> /\ batch # << >>
    BY <1>f, <1>7 DEF Requeue, LPush, Pushed, WorkerHolds
  <2>2. /\ <<batch[1]>> \in Seq(Reports) /\ Tail(batch) \in Seq(Reports)
        /\ batch = <<batch[1]>> \o Tail(batch)
    BY <1>t, <2>1, RequeueParts
  <2>3. \A x, y : <<x, y>> \in Differ => <<y, x>> \in Differ
    BY DEF Differ
  <2>4. ASSUME NEW a \in Seq(Reports), NEW b \in Seq(Reports)
        PROVE  /\ Elements((a \o queue) \o b) = Elements(queue \o (a \o b))
               /\ Pairwise(queue \o (a \o b), Differ) => Pairwise((a \o queue) \o b, Differ)
    BY <1>t, <2>3, HeldBack
  <2>5. /\ Elements((<<batch[1]>> \o queue) \o Tail(batch)) = Elements(queue \o batch)
        /\ Pairwise(queue \o batch, Differ) => Pairwise((<<batch[1]>> \o queue) \o Tail(batch), Differ)
    BY <2>2, <2>4
  <2>6. E2 = E /\ (P => P2)
    BY <2>1, <2>5 DEF E, E2, P, P2
  <2> QED
    BY <1>z, <1>g, <2>1, <2>6
<1>8. CASE RequeueTrim
  <2>1. LTrim /\ batch' = batch /\ UNCHANGED <<pipe, storeVars, writer>> /\ faults = 0
    BY <1>f, <1>8 DEF RequeueTrim
  <2> QED
    BY <1>z, <1>g, <1>l, <2>1
<1>9. CASE Exit
  <2>1. /\ batch = << >> /\ batch' = << >> /\ writes' = {} /\ faults = 0
        /\ pipe' = [r \in Reports |-> IF pipe[r] = "trim" THEN "lost" ELSE pipe[r]]
        /\ UNCHANGED <<queue, stored, deployVars, trimmed>>
    BY <1>9 DEF Exit, Gone, WorkerHolds
  <2>2. E2 = E /\ P2 = P
    BY <2>1 DEF E, E2, P, P2
  <2>3. \A r \in Reports : pipe'[r] = IF pipe[r] = "trim" THEN "lost" ELSE pipe[r]
    BY <2>1
  <2> QED
    BY <1>z, <1>g, <2>1, <2>2, <2>3
<1>10. ~PopFails /\ ~Crash
  BY <1>f DEF PopFails, Crash
<1> QED
  BY <1>1, <1>2, <1>3, <1>4, <1>5, <1>6, <1>7, <1>8, <1>9, <1>10 DEF Next, Drain

LEMMA InitOnce == Init => OnceInv
<1> SUFFICES ASSUME Init PROVE OnceInv
  OBVIOUS
<1>1. << >> \o << >> = << >>
  BY ConcatEmptySeq
<1>2. Pairwise(<< >> \o << >>, Differ) /\ Elements(<< >> \o << >>) = {}
  BY <1>1, PairwiseOfFew, ElementsOfFew
<1> QED
  BY <1>2 DEF Init, OnceInv

\* No report is lost and none is doubled on its way from the list to the store, while neither
\* Redis nor the process fails: what requeue, the trims and the two kinds of write leave of
\* the list, the batch and the store (device_data_buffer.go, redis.go).
THEOREM ReportsAlwaysOnce == Spec => []EachReportOnce
<1> DEFINE Inv == TypeOK /\ WorkerHolds /\ OnceInv
<1>1. Init => Inv
  BY TypeInit, InitOnce
<1>2. Inv /\ [Next]_vars => Inv'
  <2> SUFFICES ASSUME Inv, [Next]_vars PROVE Inv'
    OBVIOUS
  <2>1. TypeOK' /\ WorkerHolds'
    BY TypeStep
  <2> QED
    BY <2>1, OnceStep
<1>3. Inv => EachReportOnce
  <2> SUFFICES ASSUME Inv PROVE EachReportOnce
    OBVIOUS
  <2>1. NothingVanishes
    <3>1. queue \in Seq(Reports) /\ batch \in Seq(Reports)
      BY DEF TypeOK
    <3>2. Elements(queue \o batch) = Elements(queue) \cup Elements(batch)
      BY <3>1, ElementsOfConcat
    <3> QED
      BY <3>2 DEF OnceInv, NothingVanishes, Accounted
  <2>2. ASSUME faults = 0, NEW i \in 1 .. Len(queue \o batch), NEW j \in 1 .. Len(queue \o batch),
               (queue \o batch)[i] = (queue \o batch)[j]
        PROVE  i = j
    <3>1. Pairwise(queue \o batch, Differ)
      BY <2>2 DEF OnceInv
    <3>2. \A x : <<x, x>> \notin Differ
      BY DEF Differ
    <3>3. ~(i < j) /\ ~(j < i)
      BY <2>2, <3>1, <3>2 DEF Pairwise
    <3>4. i \in Int /\ j \in Int
      OBVIOUS
    <3> QED
      BY <3>3, <3>4
  <2>3. ASSUME faults = 0
        PROVE  (\A r \in Elements(queue \o batch) : r \notin writes \cup stored) /\ writes \cap stored = {}
    BY <2>3 DEF OnceInv
  <2>4. OnePlace
    BY <2>2, <2>3 DEF OnePlace
  <2> QED
    BY <2>1, <2>4 DEF EachReportOnce
<1> QED
  BY <1>1, <1>2, <1>3, PTL DEF Spec

-----------------------------------------------------------------------------
(* The list does not grow beyond its limit. *)

\* What the worker may still put back before it trims.
Reserve == IF worker \in {"requeue", "trim"} THEN BatchSize - Len(batch) ELSE 0

\* The list and the batch together are beyond MaxLen only by the reports that still have their own
\* trim to do, or missed it, and by a batch; and so is the list alone, by what the worker may
\* still put back, unless that went wrong.
RoomInv ==
    /\ writer = "sync" =>
           Len(queue) + Len(batch) <= MaxLen + Among(queue, Untrimmed) + Among(batch, Untrimmed) + BatchSize
    /\ faults = 0 \/ writer = "async" => Len(queue) <= MaxLen + Among(queue, Untrimmed) + Reserve
    /\ writer = "async" => worker \notin {"requeue", "trim"}

\* A part counts no more than it is long, and no more among the fewer.
LEMMA AmongParts ==
    ASSUME NEW s \in Seq(Reports), NEW t \in Seq(Reports), NEW R
    PROVE  /\ Len(s \o t) = Len(s) + Len(t) /\ Among(s \o t, R) = Among(s, R) + Among(t, R)
           /\ Len(s) \in Nat /\ Len(t) \in Nat /\ Among(s, R) \in Nat /\ Among(t, R) \in Nat
           /\ Among(s, R) <= Len(s) /\ Among(t, R) <= Len(t)
<1>1. Among(s \o t, R) = Among(s, R) + Among(t, R)
  BY AmongConcat
<1>2. Len(s \o t) = Len(s) + Len(t) /\ Len(s) \in Nat /\ Len(t) \in Nat
  BY ConcatProperties
<1>3. Among(s, R) \in Nat /\ Among(s, R) <= Len(s)
  BY AmongIsFinite
<1>4. Among(t, R) \in Nat /\ Among(t, R) <= Len(t)
  BY AmongIsFinite
<1> QED
  BY <1>1, <1>2, <1>3, <1>4

LEMMA RoomStep ==
    ASSUME TypeOK, TypeOK', WorkerHolds, RoomInv, [Next]_vars
    PROVE  RoomInv'
<1> USE DEF workerVars, storeVars, deployVars, processVars
<1> DEFINE U == Untrimmed
           U2 == Untrimmed'
           q == Len(queue)
           b == Len(batch)
           aq == Among(queue, U)
           ab == Among(batch, U)
           q2 == Len(queue')
           b2 == Len(batch')
           aq2 == Among(queue', U2)
           ab2 == Among(batch', U2)
           reserve2 == IF worker' \in {"requeue", "trim"} THEN BatchSize - b2 ELSE 0
<1>t. /\ queue \in Seq(Reports) /\ batch \in Seq(Reports)
      /\ queue' \in Seq(Reports) /\ batch' \in Seq(Reports)
      /\ pipe \in [Reports -> {"new", "trim", "answered", "direct", "lost"}]
      /\ writer \in {"sync", "async"} /\ faults \in Nat
  BY DataBufferAssumptions DEF TypeOK
<1>f. Fault => faults' # 0
  BY <1>t DEF Fault
<1>c. MaxLen \in Nat /\ BatchSize \in Nat /\ b <= BatchSize
  BY BufferBounds DEF WorkerHolds
<1>n. /\ q \in Nat /\ aq \in Nat /\ aq <= q /\ b \in Nat /\ ab \in Nat /\ ab <= b
      /\ q2 \in Nat /\ aq2 \in Nat /\ b2 \in Nat /\ ab2 \in Nat
  <2>1. ASSUME NEW s \in Seq(Reports), NEW R
        PROVE  Len(s) \in Nat /\ Among(s, R) \in Nat /\ Among(s, R) <= Len(s)
    <3>1. Among(s, R) \in Nat /\ Among(s, R) <= Len(s)
      BY AmongIsFinite
    <3> QED
      BY <3>1
  <2> QED
    BY <1>t, <2>1
<1>z. /\ writer = "sync" => q + b <= MaxLen + aq + ab + BatchSize
      /\ faults = 0 \/ writer = "async" =>
             q <= MaxLen + aq + (IF worker \in {"requeue", "trim"} THEN BatchSize - b ELSE 0)
      /\ writer = "async" => worker \notin {"requeue", "trim"}
  BY DEF RoomInv, Reserve
<1>g. ASSUME /\ writer' = "sync" => q2 + b2 <= MaxLen + aq2 + ab2 + BatchSize
             /\ faults' = 0 \/ writer' = "async" => q2 <= MaxLen + aq2 + reserve2
             /\ writer' = "async" => worker' \notin {"requeue", "trim"}
      PROVE  RoomInv'
  BY <1>g DEF RoomInv, Reserve
<1>w. DrainOver => worker' \in {"wait", "over"}
  BY DEF DrainOver
\* More reports untrimmed, and the same in the list and the batch.
<1>m. /\ queue' = queue /\ U \subseteq U2 => aq <= aq2 /\ q2 = q
      /\ batch' = batch /\ U \subseteq U2 => ab <= ab2 /\ b2 = b
  <2>1. ASSUME NEW s \in Seq(Reports), U \subseteq U2 PROVE Among(s, U) <= Among(s, U2)
    BY <2>1, AmongMore
  <2> QED
    BY <1>t, <2>1
<1>u. pipe' = pipe => U2 = U
  BY DEF Untrimmed
\* After a trim the list is within its limit.
<1>l. ASSUME LTrim, batch' = batch PROVE q2 <= MaxLen /\ b2 = b
  BY <1>l, ListLoses
<1> HIDE DEF U, U2, q, b, aq, ab, q2, b2, aq2, ab2
<1>1. ASSUME NEW r \in Reports, ReportPush(r) PROVE RoomInv'
  <2>1. /\ pipe' = [pipe EXCEPT ![r] = "trim"] /\ queue' = <<r>> \o queue /\ <<r>> \in Seq(Reports)
        /\ UNCHANGED <<worker, batch, writer, faults>>
    BY <1>1 DEF ReportPush, LPush, Pushed
  <2>2. r \in U2 /\ U \subseteq U2
    BY <1>t, <2>1 DEF U, U2, Untrimmed
  <2> DEFINE older == Among(queue, U2)
  <2>3. q2 = 1 + q /\ aq2 = 1 + older
    <3>1. ASSUME NEW s \in Seq(Reports)
          PROVE  Len(s \o queue) = Len(s) + Len(queue) /\ Among(s \o queue, U2) = Among(s, U2) + Among(queue, U2)
      BY <1>t, AmongParts
    <3>2. Len(<<r>>) = 1 /\ Among(<<r>>, U2) = 1
      BY <2>2, AmongOfFew
    <3> QED
      BY <2>1, <3>1, <3>2 DEF q2, q, aq2
  <2>4. aq <= older /\ older \in Nat
    BY <1>t, <2>2, AmongMore, AmongIsFinite DEF aq
  <2> HIDE DEF older
  <2>5. aq2 >= 1 + aq
    BY <2>3, <2>4, <1>n
  <2>6. ab <= ab2 /\ b2 = b
    BY <1>m, <2>1, <2>2
  <2>7. writer' = "sync" => q2 + b2 <= MaxLen + aq2 + ab2 + BatchSize
    BY <1>c, <1>n, <1>z, <2>1, <2>3, <2>5, <2>6
  <2>8. /\ faults' = 0 \/ writer' = "async" => q2 <= MaxLen + aq2 + reserve2
        /\ writer' = "async" => worker' \notin {"requeue", "trim"}
    BY <1>c, <1>n, <1>z, <2>1, <2>3, <2>5, <2>6
  <2> QED
    BY <1>g, <2>7, <2>8
<1>2. ASSUME NEW r \in Reports, ReportTrim(r) PROVE RoomInv'
  <2>1. LTrim /\ UNCHANGED <<worker, batch, writer, faults>>
    BY <1>2 DEF ReportTrim
  <2> QED
    BY <1>c, <1>n, <1>z, <1>g, <1>l, <2>1
<1>3. ASSUME NEW r \in Reports, ReportDirect(r) \/ WriteEnds(r) PROVE RoomInv'
  <2>1. /\ UNCHANGED <<queue, worker, batch, writer>> /\ (faults' = 0 => faults = 0)
        /\ pipe' = pipe \/ pipe' = [pipe EXCEPT ![r] = "direct"]
    BY <1>f, <1>3 DEF ReportDirect, WriteEnds
  <2>2. U \subseteq U2
    BY <1>t, <2>1 DEF U, U2, Untrimmed
  <2>3. aq <= aq2 /\ q2 = q /\ ab <= ab2 /\ b2 = b
    BY <1>m, <2>1, <2>2
  <2> QED
    BY <1>c, <1>n, <1>z, <1>g, <2>1, <2>3
<1>4. CASE Tick \/ StopBuffer \/ PopNothing \/ FlushRefused \/ Restart \/ UNCHANGED vars
  <2>1. /\ UNCHANGED <<queue, pipe, batch, writer, faults>>
        /\ \/ worker' = worker
           \/ worker' \in {"wait", "pop", "flush", "over"} /\ worker \notin {"requeue", "trim"}
           \/ worker' = "requeue" /\ worker = "flush" /\ writer = "sync"
    BY <1>4, <1>w
    DEF Tick, StopBuffer, PopNothing, FlushRefused, Restart, vars, WorkerHolds, Running
  <2>2. aq <= aq2 /\ q2 = q /\ ab <= ab2 /\ b2 = b
    BY <1>m, <1>u, <2>1
  <2> QED
    BY <1>c, <1>n, <1>z, <1>g, <2>1, <2>2
<1>5. CASE Pop
  <2>1. PICK end \in Seq(Reports) : queue = queue' \o end /\ batch' = end \o batch
    BY <1>5, ListLoses
  <2>2. /\ pipe' = pipe /\ UNCHANGED <<writer, faults>>
        /\ worker = "pop" /\ worker' \in {"pop", "flush"}
    BY <1>5 DEF Pop
  <2> DEFINE moved == Len(end)
             untrimmed == Among(end, U)
  <2>3. /\ q = q2 + moved /\ aq = aq2 + untrimmed /\ b2 = moved + b /\ ab2 = untrimmed + ab
        /\ moved \in Nat /\ untrimmed \in Nat /\ untrimmed <= moved
    <3>1. /\ Len(queue' \o end) = Len(queue') + Len(end)
          /\ Among(queue' \o end, U) = Among(queue', U) + Among(end, U)
          /\ Len(end) \in Nat /\ Among(end, U) \in Nat /\ Among(end, U) <= Len(end)
      BY <1>t, AmongParts
    <3>2. /\ Len(end \o batch) = Len(end) + Len(batch)
          /\ Among(end \o batch, U) = Among(end, U) + Among(batch, U)
      BY <1>t, AmongParts
    <3> QED
      BY <1>u, <2>1, <2>2, <3>1, <3>2 DEF q, q2, b, b2, aq, aq2, ab, ab2
  <2> HIDE DEF moved, untrimmed
  <2>4. q2 + b2 = q + b /\ aq2 + ab2 = aq + ab /\ q2 + aq <= q + aq2
    <3>1. q2 + b2 = q + b
      BY <1>n, <2>3
    <3>2. aq2 + ab2 = aq + ab
      BY <1>n, <2>3
    <3> QED
      BY <1>n, <2>3, <3>1, <3>2
  <2>5. writer' = "sync" => q2 + b2 <= MaxLen + aq2 + ab2 + BatchSize
    BY <1>c, <1>n, <1>z, <2>2, <2>4
  <2>6. faults' = 0 \/ writer' = "async" => q2 <= MaxLen + aq2 + reserve2
    BY <1>c, <1>n, <1>z, <2>2, <2>4
  <2>7. writer' = "async" => worker' \notin {"requeue", "trim"}
    BY <2>2
  <2> QED
    BY <1>g, <2>5, <2>6, <2>7
<1>6. CASE PopFails
  <2>1. PICK end \in Seq(Reports) : queue = queue' \o end
    BY <1>6, ListLoses
  <2>2. /\ pipe' = pipe /\ writer' = writer /\ faults' # 0 /\ batch' = << >>
        /\ worker = "pop" /\ worker' \in {"wait", "over"}
    BY <1>6, <1>f, <1>w DEF PopFails
  <2> DEFINE lost == Len(end)
             untrimmed == Among(end, U)
  <2>3. /\ q = q2 + lost /\ aq = aq2 + untrimmed /\ b2 = 0
        /\ lost \in Nat /\ untrimmed \in Nat /\ untrimmed <= lost
    <3>1. /\ Len(queue' \o end) = Len(queue') + Len(end)
          /\ Among(queue' \o end, U) = Among(queue', U) + Among(end, U)
          /\ Len(end) \in Nat /\ Among(end, U) \in Nat /\ Among(end, U) <= Len(end)
      BY <1>t, AmongParts
    <3> QED
      BY <1>u, <2>1, <2>2, <3>1 DEF q, q2, b2, aq, aq2
  <2> HIDE DEF lost, untrimmed
  <2>4. writer' = "sync" => q2 + b2 <= MaxLen + aq2 + ab2 + BatchSize
    BY <1>c, <1>n, <1>z, <2>2, <2>3
  <2>5. faults' = 0 \/ writer' = "async" => q2 <= MaxLen + aq2 + reserve2
    BY <1>c, <1>n, <1>z, <2>2, <2>3
  <2>6. writer' = "async" => worker' \notin {"requeue", "trim"}
    BY <2>2
  <2> QED
    BY <1>g, <2>4, <2>5, <2>6
<1>7. CASE FlushAsync \/ FlushSync \/ Exit \/ Crash
  <2>1. /\ queue' = queue /\ writer' = writer /\ batch' = << >> /\ (faults' = 0 => faults = 0)
        /\ worker' \in {"pop", "over"}
        /\ faults' = 0 => worker \in {"flush", "over"}
    BY <1>7, <1>f DEF FlushAsync, FlushSync, Exit, Crash, Gone
  <2>2. U2 = U
    <3>1. \/ pipe' = pipe
          \/ pipe' = [r \in Reports |-> IF pipe[r] = "trim" THEN "lost" ELSE pipe[r]]
      BY <1>7 DEF FlushAsync, FlushSync, Exit, Crash, Gone
    <3>2. ASSUME pipe' = [r \in Reports |-> IF pipe[r] = "trim" THEN "lost" ELSE pipe[r]]
          PROVE  U2 = U
      BY <1>t, <3>2 DEF U, U2, Untrimmed
    <3> QED
      BY <1>u, <3>1, <3>2
  <2>3. aq2 = aq /\ q2 = q /\ b2 = 0
    BY <2>1, <2>2 DEF aq, aq2, q, q2, b2
  <2> QED
    BY <1>c, <1>n, <1>z, <1>g, <2>1, <2>3
<1>8. CASE Requeue
  <2>1. /\ batch' = Tail(batch) /\ pipe' = pipe /\ writer' = writer
        /\ worker = "requeue" /\ worker' \in {"requeue", "trim"} /\ batch # << >>
        /\ \/ queue' = <<batch[1]>> \o queue /\ faults' = faults
           \/ queue' = queue /\ faults' # 0
    BY <1>8, <1>f DEF Requeue, LPush, Pushed, WorkerHolds
  <2> DEFINE first == <<batch[1]>>
             x == Among(first, U)
  <2>2. first \in Seq(Reports) /\ Tail(batch) \in Seq(Reports) /\ batch = first \o Tail(batch) /\ Len(first) = 1
    BY <1>t, <2>1, RequeueParts
  <2> HIDE DEF first
  <2>3. /\ b = 1 + b2 /\ ab = x + ab2 /\ x \in Nat /\ x <= 1
    <3>1. /\ Len(first \o Tail(batch)) = Len(first) + Len(Tail(batch))
          /\ Among(first \o Tail(batch), U) = Among(first, U) + Among(Tail(batch), U)
          /\ Among(first, U) \in Nat /\ Among(first, U) <= Len(first)
      BY <2>2, AmongParts
    <3> QED
      BY <1>u, <2>1, <2>2, <3>1 DEF b, b2, ab, ab2
  <2>4. \/ q2 = 1 + q /\ aq2 = x + aq
        \/ q2 = q /\ aq2 = aq /\ faults' # 0
    <3>1. CASE queue' = <<batch[1]>> \o queue
      <4>1. /\ Len(first \o queue) = Len(first) + Len(queue)
            /\ Among(first \o queue, U) = Among(first, U) + Among(queue, U)
        BY <1>t, <2>2, AmongParts
      <4>2. queue' = first \o queue
        BY <3>1 DEF first
      <4> QED
        BY <1>u, <2>1, <2>2, <4>1, <4>2 DEF q, q2, aq, aq2
    <3>2. CASE queue' = queue /\ faults' # 0
      BY <1>u, <2>1, <3>2 DEF q, q2, aq, aq2
    <3> QED
      BY <2>1, <3>1, <3>2
  <2> HIDE DEF x
  <2>5. writer = "sync"
    BY <1>t, <1>z, <2>1
  <2>6. faults' = 0 => faults = 0 /\ q2 = 1 + q /\ aq2 = x + aq
    BY <2>1, <2>4
  <2> QED
    BY <1>c, <1>n, <1>z, <1>g, <2>1, <2>3, <2>4, <2>5, <2>6
<1>9. CASE RequeueTrim
  <2>1. /\ UNCHANGED <<pipe, batch, writer>> /\ worker = "trim" /\ worker' \in {"wait", "over"}
        /\ LTrim \/ (queue' = queue /\ faults' # 0)
    BY <1>9, <1>f, <1>w DEF RequeueTrim
  <2>2. writer = "sync"
    BY <1>t, <1>z, <2>1
  <2>3. CASE LTrim
    BY <1>c, <1>n, <1>g, <1>l, <2>1, <2>2, <2>3
  <2>4. CASE queue' = queue /\ faults' # 0
    <3>1. aq <= aq2 /\ q2 = q /\ ab <= ab2 /\ b2 = b
      BY <1>m, <1>u, <2>1, <2>4
    <3> QED
      BY <1>c, <1>n, <1>z, <1>g, <2>1, <2>2, <2>4, <3>1
  <2> QED
    BY <2>1, <2>3, <2>4
<1> QED
  BY <1>1, <1>2, <1>3, <1>4, <1>5, <1>6, <1>7, <1>8, <1>9 DEF Next, Drain

LEMMA InitRoom == Init => RoomInv
<1> SUFFICES ASSUME Init PROVE RoomInv
  OBVIOUS
<1>1. << >> \in Seq(Reports) /\ Len(<< >>) = 0 /\ Among(<< >>, Untrimmed) = 0
  BY EmptySeq, AmongOfFew
<1> QED
  BY <1>1, BufferBounds DEF Init, RoomInv, Reserve

\* The list stays within BufferQueueMaxLen up to the reports whose own LTRIM is still to come or
\* was lost with its pipeline, and up to the one batch requeue puts back
\* (redis.go FastReportWrite; device_data_buffer.go requeue).
THEOREM QueueAlwaysBounded == Spec => []QueueBounded
<1> DEFINE Inv == TypeOK /\ WorkerHolds /\ RoomInv
<1>1. Init => Inv
  BY TypeInit, InitRoom
<1>2. Inv /\ [Next]_vars => Inv'
  <2> SUFFICES ASSUME Inv, [Next]_vars PROVE Inv'
    OBVIOUS
  <2>1. TypeOK' /\ WorkerHolds'
    BY TypeStep
  <2> QED
    BY <2>1, RoomStep
<1>3. Inv => QueueBounded
  <2> SUFFICES ASSUME Inv PROVE QueueBounded
    OBVIOUS
  <2>1. /\ queue \in Seq(Reports) /\ batch \in Seq(Reports) /\ faults \in Nat
        /\ writer \in {"sync", "async"} /\ MaxLen \in Nat /\ BatchSize \in Nat
        /\ Len(batch) <= BatchSize
    BY DataBufferAssumptions DEF TypeOK, WorkerHolds
  <2>2. /\ Len(queue) \in Nat /\ Among(queue, Untrimmed) \in Nat
        /\ Len(batch) \in Nat /\ Among(batch, Untrimmed) \in Nat /\ Among(batch, Untrimmed) <= Len(batch)
    <3>1. Among(queue, Untrimmed) \in Nat
      BY <2>1, AmongIsFinite
    <3>2. Among(batch, Untrimmed) \in Nat /\ Among(batch, Untrimmed) <= Len(batch)
      BY <2>1, AmongIsFinite
    <3> QED
      BY <2>1, <3>1, <3>2
  <2>3. CASE faults > 0 /\ writer = "sync"
    <3>1. PutBack = BatchSize
      BY <2>3 DEF PutBack
    <3> QED
      BY <2>1, <2>2, <2>3, <3>1 DEF RoomInv, QueueBounded
  <2>4. CASE faults = 0 /\ worker \in {"requeue", "trim"}
    <3>1. PutBack = BatchSize - Len(batch)
      BY <2>4 DEF PutBack
    <3> QED
      BY <2>1, <2>2, <2>4, <3>1 DEF RoomInv, QueueBounded, Reserve
  <2>5. CASE ~(faults > 0 /\ writer = "sync") /\ ~(faults = 0 /\ worker \in {"requeue", "trim"})
    <3>1. PutBack = 0
      BY <2>5 DEF PutBack
    <3>2. faults = 0 \/ writer = "async"
      BY <2>1, <2>5
    <3>3. worker \notin {"requeue", "trim"}
      BY <2>5, <3>2 DEF RoomInv
    <3> QED
      BY <2>1, <2>2, <3>1, <3>2, <3>3 DEF RoomInv, QueueBounded, Reserve
  <2> QED
    BY <2>3, <2>4, <2>5
<1> QED
  BY <1>1, <1>2, <1>3, PTL DEF Spec

-----------------------------------------------------------------------------
(* The list is in the order of arrival. *)

\* The pairs of reports of a of which the first arrived no earlier than the second.
Newer(a) == {p \in Reports \X Reports :
                 \E i, j \in 1 .. Len(a) : i >= j /\ a[i] = p[1] /\ a[j] = p[2]}

\* Reports arrive once, and those of the list and the batch have arrived; with a writer that never
\* makes the worker put anything back, they are there the newest first.
OrderInv ==
    /\ \A i, j \in 1 .. Len(arrived) : arrived[i] = arrived[j] => i = j
    /\ \A r \in Reports : pipe[r] = "new" => r \notin Elements(arrived)
    /\ Elements(queue \o batch) \subseteq Elements(arrived)
    /\ writer = "async" =>
           worker \notin {"requeue", "trim"} /\ Pairwise(queue \o batch, Newer(arrived))

\* One more report arrives: the order of the others stays, and it is newer than all.
LEMMA NewerAppend ==
    ASSUME NEW a \in Seq(Reports), NEW r \in Reports
    PROVE  /\ Newer(a) \subseteq Newer(Append(a, r))
           /\ \A x \in Elements(a) : <<r, x>> \in Newer(Append(a, r))
           /\ Elements(Append(a, r)) = Elements(a) \cup {r}
<1>1. /\ Append(a, r) \in Seq(Reports) /\ Len(Append(a, r)) = Len(a) + 1 /\ Len(a) \in Nat
      /\ \A i \in 1 .. Len(a) : Append(a, r)[i] = a[i] /\ a[i] \in Reports
      /\ Append(a, r)[Len(a) + 1] = r
  OBVIOUS
<1>2. Newer(a) \subseteq Newer(Append(a, r))
  <2> SUFFICES ASSUME NEW p \in Reports \X Reports, NEW i \in 1 .. Len(a), NEW j \in 1 .. Len(a),
                      i >= j, a[i] = p[1], a[j] = p[2]
               PROVE  p \in Newer(Append(a, r))
    BY DEF Newer
  <2>1. i \in 1 .. Len(Append(a, r)) /\ j \in 1 .. Len(Append(a, r))
    BY <1>1
  <2> QED
    BY <1>1, <2>1 DEF Newer
<1>3. ASSUME NEW j \in 1 .. Len(a) PROVE <<r, a[j]>> \in Newer(Append(a, r))
  <2> DEFINE i == Len(a) + 1
  <2>1. i \in 1 .. Len(Append(a, r)) /\ j \in 1 .. Len(Append(a, r)) /\ i >= j
    BY <1>1
  <2>2. Append(a, r)[i] = r /\ Append(a, r)[j] = a[j] /\ <<r, a[j]>> \in Reports \X Reports
    BY <1>1
  <2> HIDE DEF i
  <2> QED
    BY <2>1, <2>2 DEF Newer
<1>4. Elements(Append(a, r)) = Elements(a) \cup {r}
  BY <1>1 DEF Elements
<1>5. \A x \in Elements(a) : <<r, x>> \in Newer(Append(a, r))
  BY <1>3 DEF Elements
<1> QED
  BY <1>2, <1>4, <1>5

LEMMA OrderStep ==
    ASSUME TypeOK, TypeOK', WorkerHolds, OrderInv, [Next]_vars
    PROVE  OrderInv'
<1> USE DEF workerVars, storeVars, deployVars, processVars
<1>t. /\ queue \in Seq(Reports) /\ batch \in Seq(Reports) /\ arrived \in Seq(Reports)
      /\ queue' \in Seq(Reports) /\ batch' \in Seq(Reports) /\ << >> \in Seq(Reports)
      /\ pipe \in [Reports -> {"new", "trim", "answered", "direct", "lost"}]
      /\ writer \in {"sync", "async"}
  BY DataBufferAssumptions DEF TypeOK
<1>w. DrainOver => worker' \in {"wait", "over"}
  BY DEF DrainOver
<1> DEFINE E == Elements(queue \o batch)
           E2 == Elements(queue' \o batch')
           P(a) == Pairwise(queue \o batch, Newer(a))
           P2(a) == Pairwise(queue' \o batch', Newer(a))
<1>z. /\ \A i, j \in 1 .. Len(arrived) : arrived[i] = arrived[j] => i = j
      /\ \A r \in Reports : pipe[r] = "new" => r \notin Elements(arrived)
      /\ E \subseteq Elements(arrived)
      /\ writer = "async" => worker \notin {"requeue", "trim"} /\ P(arrived)
  BY DEF OrderInv
<1>g. ASSUME /\ \A i, j \in 1 .. Len(arrived') : arrived'[i] = arrived'[j] => i = j
             /\ \A r \in Reports : pipe'[r] = "new" => r \notin Elements(arrived')
             /\ E2 \subseteq Elements(arrived')
             /\ writer' = "async" => worker' \notin {"requeue", "trim"} /\ P2(arrived')
      PROVE  OrderInv'
  BY <1>g DEF OrderInv
\* Something leaves the list or the batch, or nothing changes there.
<1>k. ASSUME writer' = writer, arrived' = arrived,
             \A r \in Reports : pipe'[r] = "new" => pipe[r] = "new",
             E2 \subseteq E,
             writer = "async" => worker' \notin {"requeue", "trim"} /\ (P(arrived) => P2(arrived))
      PROVE  OrderInv'
  BY <1>z, <1>g, <1>k
<1>l. ASSUME NEW end \in Seq(Reports), queue = queue' \o end, batch' \in {batch, end \o batch, << >>}
      PROVE  E2 \subseteq E /\ (P(arrived) => P2(arrived))
  <2>1. ASSUME NEW c \in {batch, end \o batch, << >>}
        PROVE  /\ Pairwise((queue' \o end) \o batch, Newer(arrived)) => Pairwise(queue' \o c, Newer(arrived))
               /\ Elements(queue' \o c) \subseteq Elements((queue' \o end) \o batch)
    BY <1>t, HeldLoses
  <2> QED
    BY <1>l, <2>1
<1>s. queue = queue \o << >>
  BY <1>t, ConcatEmptySeq
<1>1. ASSUME NEW r \in Reports, ReportPush(r) PROVE OrderInv'
  <2>1. /\ pipe[r] = "new" /\ pipe' = [pipe EXCEPT ![r] = "trim"]
        /\ queue' = <<r>> \o queue /\ batch' = batch /\ worker' = worker /\ writer' = writer
    BY <1>1 DEF ReportPush, LPush, Pushed
  <2>2. r \notin Elements(arrived) /\ arrived' = Append(arrived, r)
    BY <1>1, <1>z, <2>1 DEF ReportPush, LPush
  <2> DEFINE more == Append(arrived, r)
  <2>3. /\ Newer(arrived) \subseteq Newer(more)
        /\ \A x \in Elements(arrived) : <<r, x>> \in Newer(more)
        /\ Elements(more) = Elements(arrived) \cup {r}
    BY <1>t, NewerAppend
  <2>4. \A i, j \in 1 .. Len(arrived') : arrived'[i] = arrived'[j] => i = j
    <3>1. /\ Len(arrived') = Len(arrived) + 1 /\ Len(arrived) \in Nat /\ arrived'[Len(arrived) + 1] = r
          /\ \A i \in 1 .. Len(arrived) : arrived'[i] = arrived[i] /\ arrived[i] # r
      BY <1>t, <2>2 DEF Elements
    <3> QED
      BY <1>z, <3>1
  <2>5. \A x \in Reports : pipe'[x] = "new" => x \notin Elements(arrived')
    <3>1. \A x \in Reports : pipe'[x] = "new" => pipe[x] = "new" /\ x # r
      BY <1>t, <2>1
    <3> QED
      BY <1>z, <2>2, <2>3, <3>1
  <2>h. /\ Elements((<<r>> \o queue) \o batch) = Elements(queue \o batch) \cup {r}
        /\ Pairwise(queue \o batch, Newer(more))
               /\ (\A x \in Elements(queue \o batch) : <<r, x>> \in Newer(more)) =>
               Pairwise((<<r>> \o queue) \o batch, Newer(more))
    BY <1>t, HeldGains
  <2>6. E2 \subseteq Elements(arrived')
    BY <1>z, <2>1, <2>2, <2>3, <2>h
  <2>7. ASSUME writer = "async" PROVE P2(arrived')
    <3>1. Pairwise(queue \o batch, Newer(more))
      BY <1>z, <2>3, <2>7 DEF Pairwise
    <3>2. \A x \in Elements(queue \o batch) : <<r, x>> \in Newer(more)
      BY <1>z, <2>3
    <3> QED
      BY <2>1, <2>2, <2>h, <3>1, <3>2
  <2> HIDE DEF E, E2, P, P2, more
  <2> QED
    BY <1>z, <1>g, <2>1, <2>4, <2>5, <2>6, <2>7
<1>2. ASSUME NEW r \in Reports, ReportTrim(r) PROVE OrderInv'
  <2>1. PICK end \in Seq(Reports) : queue = queue' \o end
    BY <1>2, ListLoses DEF ReportTrim
  <2>2. /\ pipe' = [pipe EXCEPT ![r] = "answered"]
        /\ UNCHANGED <<worker, batch, writer, arrived>>
    BY <1>2 DEF ReportTrim
  <2>3. E2 \subseteq E /\ (P(arrived) => P2(arrived))
    BY <1>l, <2>1, <2>2
  <2>4. \A x \in Reports : pipe'[x] = "new" => pipe[x] = "new"
    BY <1>t, <2>2
  <2> HIDE DEF E, E2, P, P2
  <2> QED
    BY <1>z, <1>k, <2>2, <2>3, <2>4
<1>3. ASSUME NEW r \in Reports, ReportDirect(r) \/ WriteEnds(r) PROVE OrderInv'
  <2>1. /\ UNCHANGED <<queue, worker, batch, writer, arrived>>
        /\ pipe' = pipe \/ pipe' = [pipe EXCEPT ![r] = "direct"]
    BY <1>3 DEF ReportDirect, WriteEnds
  <2>2. E2 = E /\ P2(arrived) = P(arrived)
    BY <2>1
  <2>3. \A x \in Reports : pipe'[x] = "new" => pipe[x] = "new"
    BY <1>t, <2>1
  <2> HIDE DEF E, E2, P, P2
  <2> QED
    BY <1>z, <1>k, <2>1, <2>2, <2>3
<1>4. CASE Tick \/ StopBuffer \/ PopNothing \/ FlushRefused \/ Restart \/ UNCHANGED vars
  <2>1. /\ UNCHANGED <<queue, pipe, batch, writer, arrived>>
        /\ worker' = worker \/ worker' \in {"wait", "pop", "flush", "over"} \/ writer = "sync"
    BY <1>4, <1>w DEF Tick, StopBuffer, PopNothing, FlushRefused, Restart, vars
  <2>2. E2 = E /\ P2(arrived) = P(arrived)
    BY <2>1
  <2> HIDE DEF E, E2, P, P2
  <2> QED
    BY <1>z, <1>k, <2>1, <2>2
<1>5. CASE Pop \/ PopFails
  <2>1. PICK end \in Seq(Reports) : queue = queue' \o end /\ batch' \in {batch, end \o batch, << >>}
    <3>1. CASE Pop
      BY <3>1, ListLoses
    <3>2. CASE PopFails
      <4>1. batch' = << >>
        BY <3>2 DEF PopFails
      <4> QED
        BY <3>2, <4>1, ListLoses
    <3> QED
      BY <1>5, <3>1, <3>2
  <2>2. UNCHANGED <<pipe, writer, arrived>> /\ worker' \in {"pop", "flush", "wait", "over"}
    BY <1>5, <1>w DEF Pop, PopFails
  <2>3. E2 \subseteq E /\ (P(arrived) => P2(arrived))
    BY <1>l, <2>1
  <2> HIDE DEF E, E2, P, P2
  <2> QED
    BY <1>k, <2>2, <2>3
<1>6. CASE FlushAsync \/ FlushSync \/ Exit \/ Crash
  <2>1. /\ UNCHANGED <<queue, writer, arrived>> /\ batch' = << >> /\ worker' \in {"pop", "over"}
        /\ \/ pipe' = pipe
           \/ pipe' = [r \in Reports |-> IF pipe[r] = "trim" THEN "lost" ELSE pipe[r]]
    BY <1>6 DEF FlushAsync, FlushSync, Exit, Crash, Gone
  <2>2. E2 \subseteq E /\ (P(arrived) => P2(arrived))
    <3>1. queue = queue' \o << >> /\ batch' \in {batch, << >> \o batch, << >>}
      BY <1>s, <2>1
    <3> QED
      BY <1>t, <1>l, <3>1
  <2>3. \A x \in Reports : pipe'[x] = "new" => pipe[x] = "new"
    BY <1>t, <2>1
  <2> HIDE DEF E, E2, P, P2
  <2> QED
    BY <1>k, <2>1, <2>2, <2>3
\* The worker puts a report back, which has arrived before, or trims: not with an async writer.
<1>7. CASE Requeue \/ RequeueTrim
  <2>1. worker \in {"requeue", "trim"} /\ UNCHANGED <<pipe, writer>>
    BY <1>7 DEF Requeue, RequeueTrim
  <2>2. writer = "sync"
    BY <1>t, <1>z, <2>1
  <2>3. ASSUME Requeue PROVE E2 \subseteq E /\ arrived' = arrived
    <3>1. /\ batch # << >> /\ batch' = Tail(batch)
          /\ \/ LPush(batch[1])
             \/ queue' = queue /\ arrived' = arrived
      BY <2>3 DEF Requeue, WorkerHolds
    <3>2. /\ batch[1] \in Reports /\ <<batch[1]>> \in Seq(Reports)
          /\ Tail(batch) \in Seq(Reports) /\ batch = <<batch[1]>> \o Tail(batch)
      BY <1>t, <3>1, RequeueParts
    <3>3. ASSUME NEW s \in Seq(Reports), NEW u \in Seq(Reports), batch = s \o u
          PROVE  /\ Elements((s \o queue) \o u) = Elements(queue \o batch)
                 /\ Elements(queue \o u) \subseteq Elements(queue \o batch)
                 /\ Elements(s) \subseteq Elements(batch)
      <4>1. /\ Elements((s \o queue) \o u) = Elements(s) \cup Elements(queue) \cup Elements(u)
            /\ Elements(queue \o (s \o u)) = Elements(queue) \cup Elements(s) \cup Elements(u)
        BY <1>t, ElementsOfThree
      <4>2. Elements(queue \o u) = Elements(queue) \cup Elements(u)
        BY <1>t, ElementsOfConcat
      <4>3. Elements(batch) = Elements(s) \cup Elements(u)
        <5>1. Elements(s \o u) = Elements(s) \cup Elements(u)
          BY <1>t, ElementsOfConcat
        <5> QED
          BY <3>3, <5>1, Zenon
      <4> QED
        BY <3>3, <4>1, <4>2, <4>3
    <3>4. /\ Elements((<<batch[1]>> \o queue) \o Tail(batch)) = E
          /\ Elements(queue \o Tail(batch)) \subseteq E
          /\ Elements(<<batch[1]>>) \subseteq Elements(batch)
      BY <3>2, <3>3
    <3>5. E = Elements(queue) \cup Elements(batch)
      BY <1>t, ElementsOfConcat
    <3>6. Elements(<<batch[1]>>) = {batch[1]}
      BY ElementsOfFew
    <3>7. batch[1] \in Elements(arrived)
      BY <1>z, <3>4, <3>5, <3>6
    <3>8. CASE LPush(batch[1])
      <4>1. queue' = <<batch[1]>> \o queue /\ arrived' = arrived
        BY <3>7, <3>8 DEF LPush, Pushed
      <4> QED
        BY <3>1, <3>4, <4>1
    <3> QED
      BY <3>1, <3>4, <3>8
  <2>4. ASSUME RequeueTrim PROVE E2 \subseteq E /\ arrived' = arrived
    <3>1. \E end \in Seq(Reports) : queue = queue' \o end
      BY <1>s, <1>t, <2>4, ListLoses DEF RequeueTrim
    <3>2. batch' = batch /\ arrived' = arrived
      BY <2>4 DEF RequeueTrim
    <3> QED
      BY <1>l, <3>1, <3>2
  <2> HIDE DEF E, E2, P, P2
  <2> QED
    BY <1>7, <1>k, <2>1, <2>2, <2>3, <2>4
<1> QED
  BY <1>1, <1>2, <1>3, <1>4, <1>5, <1>6, <1>7 DEF Next, Drain

LEMMA InitOrder == Init => OrderInv
<1> SUFFICES ASSUME Init PROVE OrderInv
  OBVIOUS
<1>1. << >> \o << >> = << >>
  BY ConcatEmptySeq
<1>2. /\ Pairwise(<< >> \o << >>, Newer(<< >>)) /\ Elements(<< >> \o << >>) = {} /\ Elements(<< >>) = {}
      /\ Len(<< >>) = 0
  BY <1>1, PairwiseOfFew, ElementsOfFew, EmptySeq
<1> QED
  BY <1>2 DEF Init, OrderInv

\* The place of a report in arrived is the one at which it arrived.
LEMMA PositionOf ==
    ASSUME NEW i \in 1 .. Len(arrived),
           \A k, l \in 1 .. Len(arrived) : arrived[k] = arrived[l] => k = l
    PROVE  Position(arrived[i]) = i
BY DEF Position

\* With the platform's writer the list is in the order of arrival, so that LTRIM cuts the oldest
\* reports and RPOP takes the oldest first (redis.go FastReportWrite; device_data_buffer.go drain).
THEOREM ListAlwaysInOrder == Spec => []ListInOrder
<1> DEFINE Inv == TypeOK /\ WorkerHolds /\ OrderInv
<1>1. Init => Inv
  BY TypeInit, InitOrder
<1>2. Inv /\ [Next]_vars => Inv'
  <2> SUFFICES ASSUME Inv, [Next]_vars PROVE Inv'
    OBVIOUS
  <2>1. TypeOK' /\ WorkerHolds'
    BY TypeStep
  <2> QED
    BY <2>1, OrderStep
<1>3. Inv => ListInOrder
  <2> SUFFICES ASSUME Inv, writer = "async",
                      NEW k \in 1 .. Len(queue \o batch), NEW l \in 1 .. Len(queue \o batch), k < l
               PROVE  Position((queue \o batch)[k]) >= Position((queue \o batch)[l])
    BY DEF ListInOrder
  <2>1. <<(queue \o batch)[k], (queue \o batch)[l]>> \in Newer(arrived)
    BY DEF OrderInv, Pairwise
  <2>2. PICK i \in 1 .. Len(arrived), j \in 1 .. Len(arrived) :
            i >= j /\ arrived[i] = (queue \o batch)[k] /\ arrived[j] = (queue \o batch)[l]
    BY <2>1 DEF Newer
  <2>3. \A m \in 1 .. Len(arrived) : Position(arrived[m]) = m
    BY PositionOf DEF OrderInv
  <2> QED
    BY <2>2, <2>3
<1> QED
  BY <1>1, <1>2, <1>3, PTL DEF Spec

=============================================================================
