--------------------------- MODULE OperatorProofs ---------------------------
(***************************************************************************)
(* What the operators that BuildGraph is made of compute, for every input: *)
(* filters and sorted sequences, the table of strings of the snapshot and  *)
(* its reading back.                                                       *)
(*                                                                         *)
(* An induction is put as a fact about a set of numbers (SetInduction,     *)
(* Descent), and that a recursive function has the value its definition    *)
(* says as a fact about functions (Recursion, DownwardRecursion).          *)
(***************************************************************************)
EXTENDS Commands, DepfileLexer, CommandLine, WorkEstimate,
        FiniteSetTheorems, SequenceTheorems, WellFoundedInduction, TLAPS

-----------------------------------------------------------------------------
(* Induction and recursion. *)

\* Any nonempty set of natural numbers has a least element.
LEMMA LeastNumber ==
  ASSUME NEW T, T \subseteq Nat, T # {}
  PROVE  \E x \in T : \A y \in T : x <= y
<1>1. PICK R : /\ IsWellFoundedOn(R, Nat)
               /\ \A x, y \in Nat : x < y => <<x, y>> \in R
  <2>1. IsWellFoundedOn(OpToRel(<, Nat), Nat)
    BY NatLessThanWellFounded, Zenon
  <2>2. \A x, y \in Nat : x < y => <<x, y>> \in OpToRel(<, Nat)
    BY DEF OpToRel
  <2> QED
    BY <2>1, <2>2, Zenon
<1>2. PICK x \in T : \A y \in T : ~ (<<y, x>> \in R)
  <2>1. T \subseteq Nat /\ T # {} /\ IsWellFoundedOn(R, Nat)
    BY <1>1
  <2> QED
    BY <2>1, WFMin, Zenon
<1>3. \A y \in T : ~ (y < x)
  BY <1>1, <1>2
<1> QED
  BY <1>3

\* What holds of 0, and of the next number whenever it holds of one, holds of
\* all up to n.
LEMMA SetInduction ==
  ASSUME NEW n \in Nat, NEW T, 0 \in T,
         \A k \in 1 .. n : k - 1 \in T => k \in T
  PROVE  \A k \in 0 .. n : k \in T
<1> SUFFICES ASSUME \E k \in 0 .. n : k \notin T PROVE FALSE
  OBVIOUS
<1> DEFINE Out == {k \in 0 .. n : k \notin T}
<1>1. Out \subseteq Nat /\ Out # {}
  OBVIOUS
<1>2. PICK x \in Out : \A y \in Out : x <= y
  BY <1>1, LeastNumber
<1>3. x # 0 /\ x - 1 \in 0 .. n /\ x - 1 \notin Out
  BY <1>2
<1> QED
  BY <1>2, <1>3

\* What holds of a number whenever it holds of all between it and n holds of
\* all from 1 on.
LEMMA Descent ==
  ASSUME NEW n \in Nat, NEW T,
         \A k \in 1 .. n : (\A j \in k + 1 .. n : j \in T) => k \in T
  PROVE  \A k \in 1 .. n : k \in T
<1> SUFFICES ASSUME \E k \in 1 .. n : k \notin T PROVE FALSE
  OBVIOUS
<1> DEFINE Out == {i \in 0 .. n : n - i \in 1 .. n /\ n - i \notin T}
<1>1. Out \subseteq Nat /\ Out # {}
  <2>1. PICK k \in 1 .. n : k \notin T
    OBVIOUS
  <2>2. n - k \in 0 .. n /\ n - (n - k) = k
    OBVIOUS
  <2>3. n - k \in Out
    BY <2>1, <2>2
  <2>4. Out \subseteq Nat
    OBVIOUS
  <2> HIDE DEF Out
  <2> QED
    BY <2>3, <2>4
<1>2. PICK x \in Out : \A y \in Out : x <= y
  BY <1>1, LeastNumber
<1>3. \A j \in (n - x) + 1 .. n : j \in T
  <2> SUFFICES ASSUME NEW j \in (n - x) + 1 .. n, j \notin T PROVE FALSE
    OBVIOUS
  <2>1. n - j \in 0 .. n /\ n - (n - j) = j
    BY <1>2
  <2>2. n - j \in Out
    BY <2>1, <1>2
  <2> QED
    BY <1>2, <2>1, <2>2
<1> QED
  BY <1>2, <1>3

\* A function on 0 .. n may be defined by its first value and by how each value
\* follows from the one before.
Iterates(f, a, n, s) == f[0] = a /\ \A k \in 1 .. n : f[k] = s[k][f[k - 1]]

LEMMA Recursion ==
  ASSUME NEW T, NEW a \in T, NEW n \in Nat, NEW s \in [1 .. n -> [T -> T]]
  PROVE  \E f \in [0 .. n -> T] : Iterates(f, a, n, s)
<1> DEFINE Good(k) == \E f \in [0 .. k -> T] : Iterates(f, a, k, s)
           All == {k \in 0 .. n : Good(k)}
<1>1. 0 \in All
  <2> DEFINE g == [i \in 0 .. 0 |-> a]
  <2>1. g \in [0 .. 0 -> T] /\ Iterates(g, a, 0, s)
    BY DEF Iterates
  <2> HIDE DEF g
  <2> QED
    BY <2>1
<1>2. ASSUME NEW k \in 1 .. n, k - 1 \in All PROVE k \in All
  <2>1. PICK f \in [0 .. k - 1 -> T] : Iterates(f, a, k - 1, s)
    BY <1>2
  <2> DEFINE v == s[k][f[k - 1]]
             g == [i \in 0 .. k |-> IF i = k THEN v ELSE f[i]]
  <2>2. g \in [0 .. k -> T]
    <3>1. f[k - 1] \in T
      BY <2>1
    <3>2. v \in T
      BY <3>1
    <3> QED
      BY <2>1, <3>2
  <2>3. g[0] = a
    BY <2>1 DEF Iterates
  <2>4. ASSUME NEW i \in 1 .. k PROVE g[i] = s[i][g[i - 1]]
    <3>1. g[i - 1] = f[i - 1]
      OBVIOUS
    <3>2. CASE i = k
      <4>1. g[i] = v
        BY <3>2
      <4> HIDE DEF g
      <4> QED
        BY <4>1, <3>1, <3>2
    <3>3. CASE i # k
      <4>1. g[i] = f[i] /\ i \in 1 .. k - 1
        BY <3>3
      <4>2. f[i] = s[i][f[i - 1]]
        BY <4>1, <2>1 DEF Iterates
      <4> HIDE DEF g
      <4> QED
        BY <4>1, <4>2, <3>1
    <3> QED
      BY <3>2, <3>3
  <2> HIDE DEF g
  <2>5. Iterates(g, a, k, s)
    BY <2>3, <2>4 DEF Iterates
  <2> QED
    BY <2>2, <2>5
<1>3. \A k \in 0 .. n : k \in All
  <2> HIDE DEF All
  <2> QED
    BY <1>1, <1>2, SetInduction
<1> QED
  BY <1>3

\* The same for a function on 1 .. n each value of which stops the recursion or
\* follows from the value at a larger number.
Descends(f, m, n, next, b, s) ==
  \A k \in m .. n : f[k] = IF next[k] = 0 THEN b[k] ELSE s[k][f[next[k]]]

LEMMA DownwardRecursion ==
  ASSUME NEW T, NEW n \in Nat, NEW b \in [1 .. n -> T],
         NEW next \in [1 .. n -> Nat], NEW s \in [1 .. n -> [T -> T]],
         \A k \in 1 .. n : next[k] = 0 \/ next[k] \in k + 1 .. n
  PROVE  \E f \in [1 .. n -> T] : Descends(f, 1, n, next, b, s)
<1> DEFINE Good(m) == \E f \in [m .. n -> T] : Descends(f, m, n, next, b, s)
           All == {m \in 1 .. n + 1 : Good(m)}
<1>1. n + 1 \in All
  <2> DEFINE g == [k \in n + 1 .. n |-> b[k]]
  <2>1. g \in [n + 1 .. n -> T]
    OBVIOUS
  <2>2. Descends(g, n + 1, n, next, b, s)
    BY DEF Descends
  <2> HIDE DEF g
  <2>3. Good(n + 1)
    BY <2>1, <2>2
  <2> HIDE DEF Good
  <2> QED
    BY <2>3
<1>2. ASSUME NEW m \in 1 .. n, m + 1 \in All PROVE m \in All
  <2>1. PICK f \in [m + 1 .. n -> T] : Descends(f, m + 1, n, next, b, s)
    BY <1>2
  <2> DEFINE v == IF next[m] = 0 THEN b[m] ELSE s[m][f[next[m]]]
             g == [k \in m .. n |-> IF k = m THEN v ELSE f[k]]
  <2>2. g \in [m .. n -> T]
    <3>1. v \in T
      <4>1. CASE next[m] = 0
        BY <4>1
      <4>2. CASE next[m] # 0
        <5>1. f[next[m]] \in T
          BY <4>2, <2>1
        <5>2. s[m][f[next[m]]] \in T
          BY <5>1
        <5> QED
          BY <5>2, <4>2
      <4> QED
        BY <4>1, <4>2
    <3> QED
      BY <3>1
  <2>3. ASSUME NEW k \in m .. n
        PROVE  g[k] = IF next[k] = 0 THEN b[k] ELSE s[k][g[next[k]]]
    <3>1. next[k] # 0 => g[next[k]] = f[next[k]]
      <4> SUFFICES ASSUME next[k] # 0 PROVE g[next[k]] = f[next[k]]
        OBVIOUS
      <4>1. k \in 1 .. n /\ next[k] \in k + 1 .. n
        OBVIOUS
      <4>2. next[k] \in m .. n /\ next[k] # m
        BY <4>1
      <4> QED
        BY <4>2
    <3>2. CASE k = m
      <4>1. g[k] = v
        BY <3>2
      <4> HIDE DEF g
      <4> QED
        BY <4>1, <3>1, <3>2
    <3>3. CASE k # m
      <4>1. k \in m + 1 .. n /\ g[k] = f[k]
        BY <3>3
      <4>2. f[k] = IF next[k] = 0 THEN b[k] ELSE s[k][f[next[k]]]
        BY <4>1, <2>1 DEF Descends
      <4> HIDE DEF g
      <4> QED
        BY <4>1, <4>2, <3>1
    <3> HIDE DEF g
    <3> QED
      BY <3>2, <3>3
  <2> HIDE DEF g
  <2>4. Descends(g, m, n, next, b, s)
    BY <2>3 DEF Descends
  <2>5. Good(m)
    BY <2>2, <2>4
  <2> HIDE DEF Good
  <2> QED
    BY <2>5
<1>3. 1 \in All
  <2> DEFINE Up == {k \in 0 .. n : n + 1 - k \in All}
  <2> HIDE DEF All
  <2>1. 0 \in Up
    BY <1>1
  <2>2. ASSUME NEW k \in 1 .. n, k - 1 \in Up PROVE k \in Up
    <3>1. n + 1 - k \in 1 .. n /\ (n + 1 - k) + 1 = n + 1 - (k - 1)
      OBVIOUS
    <3>2. (n + 1 - k) + 1 \in All
      BY <2>2, <3>1
    <3>3. n + 1 - k \in All
      BY <1>2, <3>1, <3>2
    <3> QED
      BY <3>3
  <2>3. \A k \in 0 .. n : k \in Up
    <3> HIDE DEF Up
    <3> QED
      BY <2>1, <2>2, SetInduction
  <2>4. n \in Up
    <3> HIDE DEF Up
    <3> QED
      BY <2>3
  <2>5. n + 1 - n = 1
    OBVIOUS
  <2> QED
    BY <2>4, <2>5
<1> QED
  BY <1>3 DEF All

\* What a filter keeps, number by number.
Filters(only, seq, S) ==
  /\ only[0] = <<>>
  /\ \A k \in 1 .. Len(seq) :
       only[k] = IF seq[k] \in S THEN Append(only[k - 1], seq[k]) ELSE only[k - 1]
  /\ Only(seq, S) = only[Len(seq)]

LEMMA OnlyRecursion ==
  ASSUME NEW T, NEW seq \in Seq(T), NEW S
  PROVE  \E only \in [0 .. Len(seq) -> Seq(T)] : Filters(only, seq, S)
<1> DEFINE n == Len(seq)
           s == [k \in 1 .. n |-> [u \in Seq(T) |->
                   IF seq[k] \in S THEN Append(u, seq[k]) ELSE u]]
           body(f) == [k \in 0 .. n |->
                         IF k = 0 THEN <<>>
                         ELSE IF seq[k] \in S THEN Append(f[k - 1], seq[k])
                                              ELSE f[k - 1]]
           only == CHOOSE f : f = body(f)
<1>1. n \in Nat /\ <<>> \in Seq(T)
  OBVIOUS
<1>2. s \in [1 .. n -> [Seq(T) -> Seq(T)]]
  OBVIOUS
<1>3. PICK f \in [0 .. n -> Seq(T)] : Iterates(f, <<>>, n, s)
  <2> HIDE DEF s, n
  <2> QED
    BY <1>1, <1>2, Recursion, Zenon
<1>4. f[0] = <<>> /\ \A k \in 1 .. n :
        f[k] = IF seq[k] \in S THEN Append(f[k - 1], seq[k]) ELSE f[k - 1]
  <2>1. ASSUME NEW k \in 1 .. n
        PROVE  f[k] = IF seq[k] \in S THEN Append(f[k - 1], seq[k]) ELSE f[k - 1]
    <3>1. f[k] = s[k][f[k - 1]]
      BY <1>3 DEF Iterates
    <3>2. f[k - 1] \in Seq(T)
      BY <1>3
    <3> QED
      BY <3>1, <3>2
  <2>2. f[0] = <<>>
    BY <1>3 DEF Iterates
  <2> HIDE DEF n, s
  <2> QED
    BY <2>1, <2>2
<1>5. f = body(f)
  <2>1. f = [k \in 0 .. n |-> f[k]]
    BY <1>3
  <2> HIDE DEF s, n
  <2>2. ASSUME NEW k \in 0 .. n
        PROVE  f[k] = IF k = 0 THEN <<>>
                      ELSE IF seq[k] \in S THEN Append(f[k - 1], seq[k])
                                           ELSE f[k - 1]
    <3>1. CASE k = 0
      BY <3>1, <1>4
    <3>2. CASE k # 0
      <4>1. k \in 1 .. n
        BY <1>1, <3>2
      <4> QED
        BY <4>1, <3>2, <1>4
    <3> QED
      BY <3>1, <3>2
  <2> QED
    BY <2>1, <2>2
<1>6. only = body(only)
  <2> HIDE DEF body
  <2> QED
    BY <1>5
<1>7. Only(seq, S) = only[n]
  BY DEF Only
<1>8. ASSUME NEW k \in 0 .. n PROVE only[k] = f[k]
  <2> DEFINE Same == {j \in 0 .. n : only[j] = f[j]}
  <2> HIDE DEF only, s, n
  <2>1. 0 \in Same
    <3>1. only[0] = <<>>
      BY <1>1, <1>6
    <3> QED
      BY <3>1, <1>1, <1>4
  <2>2. ASSUME NEW j \in 1 .. n, j - 1 \in Same PROVE j \in Same
    <3>1. only[j] = body(only)[j] /\ j \in 0 .. n /\ j # 0
      <4> HIDE DEF body
      <4> QED
        BY <1>1, <1>6
    <3>2. only[j] = IF seq[j] \in S THEN Append(only[j - 1], seq[j]) ELSE only[j - 1]
      BY <3>1
    <3> QED
      BY <3>1, <3>2, <2>2, <1>4
  <2>3. \A j \in 0 .. n : j \in Same
    <3> HIDE DEF Same
    <3> QED
      BY <1>1, <2>1, <2>2, SetInduction
  <2> QED
    BY <2>3
<1>9. Only(seq, S) = f[n]
  <2> HIDE DEF only, s, n
  <2> QED
    BY <1>1, <1>7, <1>8
<1> QED
  <2> HIDE DEF s
  <2>1. Filters(f, seq, S)
    BY <1>4, <1>9 DEF Filters
  <2> QED
    BY <1>3, <2>1

\* A function on the numbers up to n is a sequence.
LEMMA FunctionIsSeq ==
  ASSUME NEW T, NEW n \in Nat, NEW f \in [1 .. n -> T]
  PROVE  f \in Seq(T) /\ Len(f) = n
<1>1. f \in Seq(T)
  BY SeqDef
<1>2. DOMAIN f = 1 .. Len(f) /\ Len(f) \in Nat /\ DOMAIN f = 1 .. n
  BY <1>1, LenProperties
<1> QED
  BY <1>1, <1>2

LEMMA MappedSeq ==
  ASSUME NEW T, NEW U, NEW s \in Seq(U), NEW f \in [DOMAIN s -> T]
  PROVE  f \in Seq(T) /\ Len(f) = Len(s)
<1>1. DOMAIN s = 1 .. Len(s) /\ Len(s) \in Nat
  BY LenProperties
<1> QED
  BY <1>1, FunctionIsSeq

-----------------------------------------------------------------------------
(* Counting. *)

\* The places up to k where seq has an element of P, and how many there are in
\* all.
Upto(seq, k, P) == {i \in 1 .. k : seq[i] \in P}
CountIn(seq, P) == Cardinality({i \in DOMAIN seq : seq[i] \in P})

\* Their number is a number, and grows by one with each such place.
LEMMA UptoCounts ==
  ASSUME NEW seq, NEW P, NEW k \in Nat
  PROVE  /\ IsFiniteSet(Upto(seq, k, P))
         /\ Cardinality(Upto(seq, k, P)) \in Nat
         /\ k = 0 => Cardinality(Upto(seq, k, P)) = 0
         /\ k > 0 => Cardinality(Upto(seq, k, P)) =
                       Cardinality(Upto(seq, k - 1, P))
                         + IF seq[k] \in P THEN 1 ELSE 0
<1>1. ASSUME NEW m \in Nat PROVE IsFiniteSet(Upto(seq, m, P))
  <2>1. IsFiniteSet(1 .. m)
    BY FS_Interval
  <2>2. Upto(seq, m, P) \in SUBSET (1 .. m)
    BY DEF Upto
  <2> QED
    BY <2>1, <2>2, FS_Subset
<1>2. Cardinality(Upto(seq, k, P)) \in Nat
  BY <1>1, FS_CardinalityType
<1>3. ASSUME k = 0 PROVE Cardinality(Upto(seq, k, P)) = 0
  <2>1. Upto(seq, k, P) = {}
    BY <1>3 DEF Upto
  <2> QED
    BY <2>1, FS_EmptySet
<1>4. ASSUME k > 0
      PROVE  Cardinality(Upto(seq, k, P)) =
               Cardinality(Upto(seq, k - 1, P)) + IF seq[k] \in P THEN 1 ELSE 0
  <2>1. k - 1 \in Nat
    BY <1>4
  <2>2. IsFiniteSet(Upto(seq, k - 1, P))
    BY <1>1, <2>1
  <2>3. Cardinality(Upto(seq, k - 1, P)) \in Nat
    BY <2>2, FS_CardinalityType
  <2>4. k \notin Upto(seq, k - 1, P)
    BY DEF Upto
  <2>5. CASE seq[k] \in P
    <3>1. Upto(seq, k, P) = Upto(seq, k - 1, P) \cup {k}
      BY <1>4, <2>5 DEF Upto
    <3>2. Cardinality(Upto(seq, k, P)) = Cardinality(Upto(seq, k - 1, P)) + 1
      BY <2>2, <2>4, <3>1, FS_AddElement
    <3> QED
      BY <2>5, <3>2
  <2>6. CASE seq[k] \notin P
    <3>1. Upto(seq, k, P) = Upto(seq, k - 1, P)
      BY <1>4, <2>6 DEF Upto
    <3> QED
      BY <2>3, <2>6, <3>1
  <2> QED
    BY <2>5, <2>6
<1> QED
  BY <1>1, <1>2, <1>3, <1>4

LEMMA CountIsUpto ==
  ASSUME NEW T, NEW seq \in Seq(T), NEW P
  PROVE  /\ CountIn(seq, P) = Cardinality(Upto(seq, Len(seq), P))
         /\ CountIn(seq, P) \in Nat
         /\ CountIn(seq, P) = 0 <=> \A i \in DOMAIN seq : seq[i] \notin P
<1>1. CountIn(seq, P) = Cardinality(Upto(seq, Len(seq), P))
  <2>1. DOMAIN seq = 1 .. Len(seq)
    BY LenProperties
  <2> QED
    BY <2>1 DEF CountIn, Upto
<1>2. Len(seq) \in Nat /\ DOMAIN seq = 1 .. Len(seq)
  BY LenProperties
<1>3. IsFiniteSet(Upto(seq, Len(seq), P)) /\ CountIn(seq, P) \in Nat
  BY <1>1, <1>2, UptoCounts
<1>4. CountIn(seq, P) = 0 <=> Upto(seq, Len(seq), P) = {}
  BY <1>1, <1>3, FS_EmptySet
<1>5. Upto(seq, Len(seq), P) = {} <=> \A i \in DOMAIN seq : seq[i] \notin P
  BY <1>2 DEF Upto
<1> QED
  BY <1>1, <1>3, <1>4, <1>5

\* What is counted in two sequences is counted in the one after the other.
LEMMA CountConcat ==
  ASSUME NEW T, NEW s \in Seq(T), NEW t \in Seq(T), NEW P
  PROVE  CountIn(s \o t, P) = CountIn(s, P) + CountIn(t, P)
<1> DEFINE st == s \o t
           C(q, k) == Cardinality(Upto(q, k, P))
           Fine == {k \in 0 .. Len(t) : C(st, Len(s) + k) = C(s, Len(s)) + C(t, k)}
<1>1. /\ st \in Seq(T) /\ Len(st) = Len(s) + Len(t)
      /\ Len(s) \in Nat /\ Len(t) \in Nat
      /\ \A i \in 1 .. Len(s) + Len(t) :
           st[i] = IF i <= Len(s) THEN s[i] ELSE t[i - Len(s)]
  BY ConcatProperties, LenProperties
<1> HIDE DEF st
<1>2. \A k \in Nat : C(st, k) \in Nat /\ C(s, k) \in Nat /\ C(t, k) \in Nat
  BY UptoCounts
<1>3. 0 \in Fine
  <2>1. Upto(st, Len(s), P) = Upto(s, Len(s), P)
    BY <1>1 DEF Upto
  <2>2. C(t, 0) = 0
    BY UptoCounts
  <2>3. Len(s) + 0 = Len(s)
    BY <1>1
  <2> QED
    BY <1>1, <1>2, <2>1, <2>2, <2>3
<1>4. ASSUME NEW k \in 1 .. Len(t), k - 1 \in Fine PROVE k \in Fine
  <2>1. Len(s) + k \in Nat /\ Len(s) + k > 0 /\ k \in Nat /\ k > 0
    BY <1>1
  <2>2. (Len(s) + k) - 1 = Len(s) + (k - 1)
    BY <1>1
  <2>3. st[Len(s) + k] = t[k]
    <3>1. Len(s) + k \in 1 .. Len(s) + Len(t) /\ ~(Len(s) + k <= Len(s))
            /\ (Len(s) + k) - Len(s) = k
      BY <1>1
    <3> QED
      BY <1>1, <3>1
  <2>4. C(st, Len(s) + k) = C(st, (Len(s) + k) - 1) + IF st[Len(s) + k] \in P THEN 1 ELSE 0
    BY <2>1, UptoCounts
  <2>5. C(t, k) = C(t, k - 1) + IF t[k] \in P THEN 1 ELSE 0
    BY <2>1, UptoCounts
  <2>6. C(st, Len(s) + (k - 1)) = C(s, Len(s)) + C(t, k - 1)
    BY <1>4
  <2>7. C(s, Len(s)) \in Nat /\ C(t, k - 1) \in Nat
    <3>1. k - 1 \in Nat
      BY <2>1
    <3> HIDE DEF C
    <3> QED
      BY <1>1, <1>2, <3>1
  <2> HIDE DEF C
  <2>8. C(st, Len(s) + k) = C(s, Len(s)) + C(t, k)
    BY <2>2, <2>3, <2>4, <2>5, <2>6, <2>7
  <2> QED
    BY <2>8
<1>5. Len(t) \in Fine
  <2> HIDE DEF Fine
  <2>1. \A k \in 0 .. Len(t) : k \in Fine
    BY <1>1, <1>3, <1>4, SetInduction
  <2> QED
    BY <1>1, <2>1
<1>6. CountIn(st, P) = C(st, Len(st)) /\ CountIn(s, P) = C(s, Len(s))
        /\ CountIn(t, P) = C(t, Len(t))
  BY <1>1, CountIsUpto
<1> HIDE DEF C
<1> QED
  BY <1>1, <1>5, <1>6 DEF st

LEMMA CountOne ==
  ASSUME NEW x, NEW P
  PROVE  CountIn(<<x>>, P) = IF x \in P THEN 1 ELSE 0
<1>1. <<x>> \in Seq({x}) /\ Len(<<x>>) = 1 /\ <<x>>[1] = x
  OBVIOUS
<1>2. CountIn(<<x>>, P) = Cardinality(Upto(<<x>>, 1, P))
  BY <1>1, CountIsUpto
<1>3. 1 - 1 = 0 /\ 1 > 0 /\ 0 \in Nat /\ 1 \in Nat
  OBVIOUS
<1>4. Cardinality(Upto(<<x>>, 1, P)) =
        Cardinality(Upto(<<x>>, 0, P)) + IF <<x>>[1] \in P THEN 1 ELSE 0
  BY <1>3, UptoCounts
<1>5. Cardinality(Upto(<<x>>, 0, P)) = 0
  BY UptoCounts
<1> QED
  BY <1>1, <1>2, <1>4, <1>5

LEMMA CountAppend ==
  ASSUME NEW T, NEW seq \in Seq(T), NEW x \in T, NEW P
  PROVE  CountIn(Append(seq, x), P) = CountIn(seq, P) + IF x \in P THEN 1 ELSE 0
<1>1. Append(seq, x) = seq \o <<x>> /\ <<x>> \in Seq(T)
  BY AppendIsConcat
<1>2. CountIn(seq \o <<x>>, P) = CountIn(seq, P) + CountIn(<<x>>, P)
  BY <1>1, CountConcat
<1>3. CountIn(<<x>>, P) = IF x \in P THEN 1 ELSE 0
  BY CountOne
<1> QED
  BY <1>1, <1>2, <1>3

\* How often the elements of either of two sets without common elements occur.
LEMMA CountUnion ==
  ASSUME NEW T, NEW seq \in Seq(T), NEW P, NEW Q, P \cap Q = {}
  PROVE  CountIn(seq, P \cup Q) = CountIn(seq, P) + CountIn(seq, Q)
<1> DEFINE C(k, R) == Cardinality(Upto(seq, k, R))
           Fine == {k \in 0 .. Len(seq) : C(k, P \cup Q) = C(k, P) + C(k, Q)}
<1>1. Len(seq) \in Nat
  BY LenProperties
<1>2. 0 \in Fine
  <2>1. C(0, P \cup Q) = 0 /\ C(0, P) = 0 /\ C(0, Q) = 0
    BY UptoCounts
  <2> QED
    BY <1>1, <2>1
<1>3. ASSUME NEW k \in 1 .. Len(seq), k - 1 \in Fine PROVE k \in Fine
  <2>1. /\ C(k, P \cup Q) = C(k - 1, P \cup Q) + IF seq[k] \in P \cup Q THEN 1 ELSE 0
        /\ C(k, P) = C(k - 1, P) + IF seq[k] \in P THEN 1 ELSE 0
        /\ C(k, Q) = C(k - 1, Q) + IF seq[k] \in Q THEN 1 ELSE 0
    BY UptoCounts
  <2>2. C(k - 1, P) \in Nat /\ C(k - 1, Q) \in Nat
    BY UptoCounts
  <2>3. C(k - 1, P \cup Q) = C(k - 1, P) + C(k - 1, Q)
    BY <1>3
  <2> HIDE DEF C
  <2> QED
    BY <2>1, <2>2, <2>3
<1>4. Len(seq) \in Fine
  <2> HIDE DEF Fine
  <2>1. \A k \in 0 .. Len(seq) : k \in Fine
    BY <1>1, <1>2, <1>3, SetInduction
  <2> QED
    BY <1>1, <2>1
<1> QED
  BY <1>4, CountIsUpto

-----------------------------------------------------------------------------
(* Filters. *)

\* A filter keeps elements of the sequence that are in the set.
LEMMA OnlyType ==
  ASSUME NEW T, NEW seq \in Seq(T), NEW S
  PROVE  Only(seq, S) \in Seq(T \cap S)
<1> DEFINE n == Len(seq)
<1>0. PICK only \in [0 .. n -> Seq(T)] : Filters(only, seq, S)
  BY OnlyRecursion
<1>1. /\ only[0] = <<>>
      /\ \A k \in 1 .. n : only[k] = IF seq[k] \in S THEN Append(only[k - 1], seq[k])
                                                     ELSE only[k - 1]
      /\ Only(seq, S) = only[n]
  BY <1>0 DEF Filters
<1> DEFINE U == Seq(T \cap S)
           Fine == {k \in 0 .. n : only[k] \in U}
<1>2. n \in Nat
  BY LenProperties
<1>3. 0 \in Fine
  <2>1. <<>> \in U
    OBVIOUS
  <2> QED
    BY <1>1, <1>2, <2>1
<1>4. ASSUME NEW k \in 1 .. n, k - 1 \in Fine PROVE k \in Fine
  <2>1. only[k - 1] \in U
    BY <1>4
  <2>2. CASE seq[k] \in S
    <3>1. seq[k] \in T \cap S
      BY <2>2, ElementOfSeq
    <3>2. only[k] = Append(only[k - 1], seq[k])
      BY <1>1, <2>2
    <3>3. only[k] \in U
      BY <2>1, <3>1, <3>2, AppendProperties
    <3> HIDE DEF U
    <3> QED
      BY <1>2, <3>3
  <2>3. CASE seq[k] \notin S
    <3>1. only[k] = only[k - 1]
      BY <1>1, <2>3
    <3> HIDE DEF U
    <3> QED
      BY <1>2, <2>1, <3>1
  <2> QED
    BY <2>2, <2>3
<1>5. n \in Fine
  <2> HIDE DEF Fine, n
  <2>1. \A k \in 0 .. n : k \in Fine
    BY <1>2, <1>3, <1>4, SetInduction
  <2> QED
    BY <1>2, <2>1
<1> QED
  BY <1>1, <1>5

\* A filter that every element passes changes nothing.
LEMMA OnlyAll ==
  ASSUME NEW T, NEW seq \in Seq(T), NEW S, \A i \in DOMAIN seq : seq[i] \in S
  PROVE  Only(seq, S) = seq
<1> DEFINE n == Len(seq)
<1>0. PICK only \in [0 .. n -> Seq(T)] : Filters(only, seq, S)
  BY OnlyRecursion
<1>1. /\ only[0] = <<>>
      /\ \A k \in 1 .. n : only[k] = IF seq[k] \in S THEN Append(only[k - 1], seq[k])
                                                     ELSE only[k - 1]
      /\ Only(seq, S) = only[n]
  BY <1>0 DEF Filters
<1> DEFINE Fine == {k \in 0 .. n : only[k] = SubSeq(seq, 1, k)}
<1>2. n \in Nat /\ DOMAIN seq = 1 .. n
  BY LenProperties
<1>3. 0 \in Fine
  <2>1. SubSeq(seq, 1, 0) = <<>>
    BY SubSeqEmpty
  <2> QED
    BY <1>1, <1>2, <2>1
<1>4. ASSUME NEW k \in 1 .. n, k - 1 \in Fine PROVE k \in Fine
  <2>1. only[k] = Append(only[k - 1], seq[k])
    BY <1>1, <1>2
  <2>2. only[k - 1] = SubSeq(seq, 1, k - 1)
    BY <1>4
  <2>3. SubSeq(seq, 1, k) = SubSeq(seq, 1, k - 1) \o <<seq[k]>>
    <3>1. 1 \in 1 .. Len(seq) /\ k \in 1 .. Len(seq)
      BY <1>2
    <3> QED
      BY <3>1, SubSeqRecursiveSecond
  <2>4. SubSeq(seq, 1, k - 1) \in Seq(T) /\ seq[k] \in T
    BY <1>1, <1>2, <2>2, ElementOfSeq
  <2>5. only[k] = SubSeq(seq, 1, k)
    BY <2>1, <2>2, <2>3, <2>4, AppendIsConcat
  <2> QED
    BY <1>2, <2>5
<1>5. n \in Fine
  <2> HIDE DEF Fine, n
  <2>1. \A k \in 0 .. n : k \in Fine
    BY <1>2, <1>3, <1>4, SetInduction
  <2> QED
    BY <1>2, <2>1
<1> QED
  BY <1>1, <1>5, SubSeqFull

\* What is in P after the filter is what was in P and in S before.
LEMMA OnlyCount ==
  ASSUME NEW T, NEW seq \in Seq(T), NEW S, NEW P
  PROVE  CountIn(Only(seq, S), P) = CountIn(seq, P \cap S)
<1> DEFINE n == Len(seq)
<1>0. PICK only \in [0 .. n -> Seq(T)] : Filters(only, seq, S)
  BY OnlyRecursion
<1>1. /\ only[0] = <<>>
      /\ \A k \in 1 .. n : only[k] = IF seq[k] \in S THEN Append(only[k - 1], seq[k])
                                                     ELSE only[k - 1]
      /\ Only(seq, S) = only[n]
  BY <1>0 DEF Filters
<1> DEFINE C(k) == Cardinality(Upto(seq, k, P \cap S))
           Fine == {k \in 0 .. n : CountIn(only[k], P) = C(k)}
<1>2. n \in Nat
  BY LenProperties
<1>3. 0 \in Fine
  <2>1. C(0) = 0
    BY UptoCounts
  <2>2. <<>> \in Seq(T) /\ \A i \in DOMAIN <<>> : <<>>[i] \notin P
    BY EmptySeq
  <2>3. CountIn(<<>>, P) = 0
    BY <2>2, CountIsUpto
  <2> QED
    BY <1>1, <1>2, <2>1, <2>3
<1>4. ASSUME NEW k \in 1 .. n, k - 1 \in Fine PROVE k \in Fine
  <2>1. C(k) = C(k - 1) + IF seq[k] \in P \cap S THEN 1 ELSE 0
    BY UptoCounts
  <2>2. CountIn(only[k - 1], P) = C(k - 1) /\ C(k - 1) \in Nat
    BY <1>4, UptoCounts
  <2>3. only[k - 1] \in Seq(T) /\ seq[k] \in T
    BY <1>1, <1>2, ElementOfSeq
  <2>4. CASE seq[k] \in S
    <3>1. only[k] = only[k - 1] \o <<seq[k]>>
      BY <1>1, <2>3, <2>4, AppendIsConcat
    <3>2. <<seq[k]>> \in Seq(T)
      BY <2>3
    <3>3. CountIn(only[k - 1] \o <<seq[k]>>, P) =
            CountIn(only[k - 1], P) + CountIn(<<seq[k]>>, P)
      BY <2>3, <3>2, CountConcat, Zenon
    <3>4. CountIn(<<seq[k]>>, P) = IF seq[k] \in P THEN 1 ELSE 0
      BY CountOne
    <3> HIDE DEF C
    <3>5. CountIn(only[k], P) = C(k)
      BY <2>1, <2>2, <2>4, <3>1, <3>3, <3>4
    <3> QED
      BY <1>2, <3>5
  <2>5. CASE seq[k] \notin S
    <3>1. only[k] = only[k - 1]
      BY <1>1, <2>5
    <3> HIDE DEF C
    <3>2. CountIn(only[k], P) = C(k)
      BY <2>1, <2>2, <2>5, <3>1
    <3> QED
      BY <1>2, <3>2
  <2> QED
    BY <2>4, <2>5
<1>5. n \in Fine
  <2> HIDE DEF Fine, n
  <2>1. \A k \in 0 .. n : k \in Fine
    BY <1>2, <1>3, <1>4, SetInduction
  <2> QED
    BY <1>2, <2>1
<1> QED
  BY <1>1, <1>5, CountIsUpto

\* Where a filter keeps nothing, the filter by what is not in its set keeps all.
LEMMA OnlyNone ==
  ASSUME NEW T, NEW seq \in Seq(T), NEW S, Only(seq, S) = <<>>
  PROVE  Only(seq, ToSet(seq) \ S) = seq
<1>1. CountIn(Only(seq, S), S) = CountIn(seq, S \cap S)
  BY OnlyCount
<1>2. S \cap S = S
  OBVIOUS
<1>3. <<>> \in Seq(T) /\ \A i \in DOMAIN <<>> : <<>>[i] \notin S
  BY EmptySeq
<1>4. CountIn(<<>>, S) = 0
  BY <1>3, CountIsUpto
<1>5. CountIn(seq, S) = 0
  BY <1>1, <1>2, <1>4
<1>6. \A i \in DOMAIN seq : seq[i] \notin S
  BY <1>5, CountIsUpto
<1>7. \A i \in DOMAIN seq : seq[i] \in ToSet(seq) \ S
  BY <1>6 DEF ToSet
<1> QED
  BY <1>7, OnlyAll

\* A filter of a longer sequence.
LEMMA OnlyAppend ==
  ASSUME NEW T, NEW seq \in Seq(T), NEW e \in T, NEW S
  PROVE  Only(Append(seq, e), S) =
           IF e \in S THEN Append(Only(seq, S), e) ELSE Only(seq, S)
<1> DEFINE n == Len(seq)
           longer == Append(seq, e)
<1>1. /\ n \in Nat /\ longer \in Seq(T) /\ Len(longer) = n + 1
      /\ longer[n + 1] = e /\ \A k \in 1 .. n : longer[k] = seq[k]
  BY AppendProperties, LenProperties
<1> HIDE DEF longer
<1>2. PICK f \in [0 .. Len(longer) -> Seq(T)] : Filters(f, longer, S)
  BY <1>1, OnlyRecursion
<1>3. PICK g \in [0 .. Len(seq) -> Seq(T)] : Filters(g, seq, S)
  BY OnlyRecursion
<1> DEFINE Fine == {k \in 0 .. n : f[k] = g[k]}
<1>4. 0 \in Fine
  BY <1>1, <1>2, <1>3 DEF Filters
<1>5. ASSUME NEW k \in 1 .. n, k - 1 \in Fine PROVE k \in Fine
  <2>1. k \in 1 .. Len(longer) /\ longer[k] = seq[k] /\ f[k - 1] = g[k - 1]
    BY <1>1, <1>5
  <2>2. /\ f[k] = IF longer[k] \in S THEN Append(f[k - 1], longer[k]) ELSE f[k - 1]
        /\ g[k] = IF seq[k] \in S THEN Append(g[k - 1], seq[k]) ELSE g[k - 1]
    BY <1>2, <1>3, <2>1 DEF Filters
  <2> QED
    BY <1>1, <2>1, <2>2
<1>6. n \in Fine
  <2> HIDE DEF Fine, n
  <2>1. \A k \in 0 .. n : k \in Fine
    BY <1>1, <1>4, <1>5, SetInduction
  <2> QED
    BY <1>1, <2>1
<1>7. f[n] = g[n] /\ n + 1 \in 1 .. Len(longer) /\ (n + 1) - 1 = n
  BY <1>1, <1>6
<1>8. f[n + 1] = IF longer[n + 1] \in S THEN Append(f[n], longer[n + 1]) ELSE f[n]
  BY <1>2, <1>7 DEF Filters
<1>9. Only(longer, S) = f[n + 1] /\ Only(seq, S) = g[n]
  BY <1>1, <1>2, <1>3 DEF Filters
<1> QED
  BY <1>1, <1>7, <1>8, <1>9 DEF longer

\* Two filters one after the other are one.
LEMMA OnlyTwice ==
  ASSUME NEW T, NEW seq \in Seq(T), NEW S, NEW R, NEW Q,
         \A i \in DOMAIN seq : seq[i] \in Q <=> seq[i] \in S /\ seq[i] \in R
  PROVE  Only(Only(seq, S), R) = Only(seq, Q)
<1> DEFINE n == Len(seq)
<1>1. n \in Nat /\ DOMAIN seq = 1 .. n
  BY LenProperties
<1>2. PICK f \in [0 .. n -> Seq(T)] : Filters(f, seq, S)
  BY OnlyRecursion
<1>3. PICK g \in [0 .. n -> Seq(T)] : Filters(g, seq, Q)
  BY OnlyRecursion
<1> DEFINE Fine == {k \in 0 .. n : Only(f[k], R) = g[k]}
<1>4. 0 \in Fine
  <2>1. f[0] = <<>> /\ g[0] = <<>>
    BY <1>2, <1>3 DEF Filters
  <2>2. <<>> \in Seq(T) /\ \A i \in DOMAIN <<>> : <<>>[i] \in R
    BY EmptySeq
  <2>3. Only(<<>>, R) = <<>>
    BY <2>2, OnlyAll
  <2> QED
    BY <1>1, <2>1, <2>3
<1>5. ASSUME NEW k \in 1 .. n, k - 1 \in Fine PROVE k \in Fine
  <2>1. f[k - 1] \in Seq(T) /\ seq[k] \in T /\ Only(f[k - 1], R) = g[k - 1]
    BY <1>1, <1>2, <1>5, ElementOfSeq
  <2>2. /\ f[k] = IF seq[k] \in S THEN Append(f[k - 1], seq[k]) ELSE f[k - 1]
        /\ g[k] = IF seq[k] \in Q THEN Append(g[k - 1], seq[k]) ELSE g[k - 1]
    BY <1>2, <1>3 DEF Filters
  <2>3. Only(Append(f[k - 1], seq[k]), R) =
          IF seq[k] \in R THEN Append(Only(f[k - 1], R), seq[k]) ELSE Only(f[k - 1], R)
    <3> DEFINE u == f[k - 1]
               e == seq[k]
    <3>1. u \in Seq(T) /\ e \in T
      BY <2>1
    <3> HIDE DEF u, e
    <3>2. Only(Append(u, e), R) = IF e \in R THEN Append(Only(u, R), e) ELSE Only(u, R)
      BY <3>1, OnlyAppend
    <3> QED
      BY <3>2 DEF u, e
  <2>4. seq[k] \in Q <=> seq[k] \in S /\ seq[k] \in R
    BY <1>1
  <2>5. Only(f[k], R) = g[k]
    BY <2>1, <2>2, <2>3, <2>4
  <2> QED
    BY <1>1, <2>5
<1>6. n \in Fine
  <2> HIDE DEF Fine, n
  <2>1. \A k \in 0 .. n : k \in Fine
    BY <1>1, <1>4, <1>5, SetInduction
  <2> QED
    BY <1>1, <2>1
<1>7. Only(seq, S) = f[n] /\ Only(seq, Q) = g[n]
  BY <1>2, <1>3 DEF Filters
<1> QED
  BY <1>6, <1>7

-----------------------------------------------------------------------------
(* The table of strings. *)

Occurs(x, seq) == \E j \in DOMAIN seq : seq[j] = x

\* What occurs in either of two sequences occurs in the one after the other.
LEMMA ConcatHas ==
  ASSUME NEW T, NEW s \in Seq(T), NEW t \in Seq(T), NEW x,
         Occurs(x, s) \/ Occurs(x, t)
  PROVE  Occurs(x, s \o t)
<1>1. /\ DOMAIN s = 1 .. Len(s) /\ DOMAIN t = 1 .. Len(t)
      /\ Len(s) \in Nat /\ Len(t) \in Nat
      /\ DOMAIN (s \o t) = 1 .. Len(s) + Len(t)
      /\ \A i \in 1 .. Len(s) + Len(t) :
           (s \o t)[i] = IF i <= Len(s) THEN s[i] ELSE t[i - Len(s)]
  BY LenProperties, ConcatProperties
<1>2. ASSUME NEW j \in DOMAIN s, s[j] = x PROVE Occurs(x, s \o t)
  <2>1. j \in 1 .. Len(s) + Len(t) /\ j <= Len(s)
    BY <1>1
  <2>2. (s \o t)[j] = s[j]
    BY <1>1, <2>1
  <2> QED
    BY <1>1, <1>2, <2>1, <2>2 DEF Occurs
<1>3. ASSUME NEW j \in DOMAIN t, t[j] = x PROVE Occurs(x, s \o t)
  <2> DEFINE i == Len(s) + j
  <2>1. i \in 1 .. Len(s) + Len(t) /\ ~(i <= Len(s)) /\ i - Len(s) = j
    BY <1>1
  <2> HIDE DEF i
  <2>2. (s \o t)[i] = t[j]
    BY <1>1, <2>1
  <2> QED
    BY <1>1, <1>3, <2>1, <2>2 DEF Occurs
<1> QED
  BY <1>2, <1>3 DEF Occurs

\* Flattening keeps every element of every sequence.
LEMMA FlattenHas ==
  ASSUME NEW T, NEW seqs \in Seq(Seq(T))
  PROVE  /\ FlattenSeq(seqs) \in Seq(T)
         /\ \A i \in DOMAIN seqs : \A x : Occurs(x, seqs[i]) => Occurs(x, FlattenSeq(seqs))
<1> DEFINE n == Len(seqs)
           s == [k \in 1 .. n |-> [u \in Seq(T) |-> u \o seqs[k]]]
           body(f) == [i \in 1 .. n |-> IF i = 1 THEN seqs[i] ELSE f[i - 1] \o seqs[i]]
           flatten == CHOOSE f : f = body(f)
<1>1. n \in Nat /\ <<>> \in Seq(T) /\ DOMAIN seqs = 1 .. n
  BY LenProperties, EmptySeq
<1>2. ASSUME NEW k \in 1 .. n PROVE seqs[k] \in Seq(T)
  BY <1>2, ElementOfSeq
<1>3. s \in [1 .. n -> [Seq(T) -> Seq(T)]]
  <2>1. ASSUME NEW k \in 1 .. n, NEW u \in Seq(T) PROVE u \o seqs[k] \in Seq(T)
    BY <1>2, ConcatProperties
  <2> QED
    BY <2>1
<1>4. PICK g \in [0 .. n -> Seq(T)] : Iterates(g, <<>>, n, s)
  <2> HIDE DEF s, n
  <2> QED
    BY <1>1, <1>3, Recursion, Zenon
<1>5. ASSUME NEW k \in 1 .. n PROVE g[k] = g[k - 1] \o seqs[k] /\ g[k - 1] \in Seq(T)
  <2>1. g[k] = s[k][g[k - 1]]
    BY <1>4 DEF Iterates
  <2>2. g[k - 1] \in Seq(T)
    <3> HIDE DEF s, n
    <3>1. k - 1 \in 0 .. n
      BY <1>1
    <3> QED
      BY <1>4, <3>1
  <2>3. s[k][g[k - 1]] = g[k - 1] \o seqs[k]
    BY <2>2
  <2> QED
    BY <2>1, <2>2, <2>3
<1>6. g[0] = <<>>
  BY <1>4 DEF Iterates
<1> DEFINE f == [k \in 1 .. n |-> g[k]]
<1> HIDE DEF s
<1>7. f = body(f)
  <2>1. ASSUME NEW k \in 1 .. n
        PROVE  g[k] = IF k = 1 THEN seqs[k] ELSE f[k - 1] \o seqs[k]
    <3>1. CASE k = 1
      <4>1. g[k - 1] = <<>>
        BY <1>6, <3>1
      <4>2. <<>> \o seqs[k] = seqs[k]
        BY <1>2, ConcatEmptySeq
      <4> QED
        BY <1>5, <3>1, <4>1, <4>2
    <3>2. CASE k # 1
      <4>1. f[k - 1] = g[k - 1]
        BY <3>2, <1>1
      <4> HIDE DEF f, n
      <4> QED
        BY <1>5, <3>2, <4>1
    <3> HIDE DEF f, n
    <3> QED
      BY <3>1, <3>2
  <2> QED
    BY <2>1
<1>8. flatten = body(flatten)
  <2> HIDE DEF body, f
  <2> QED
    BY <1>7
<1>9. \A k \in 1 .. n : flatten[k] = g[k]
  <2> DEFINE Same == {j \in 0 .. n : j = 0 \/ flatten[j] = g[j]}
  <2> HIDE DEF flatten, n, f
  <2>1. 0 \in Same
    BY <1>1
  <2>2. ASSUME NEW j \in 1 .. n, j - 1 \in Same PROVE j \in Same
    <3>1. flatten[j] = body(flatten)[j]
      <4> HIDE DEF body
      <4> QED
        BY <1>8
    <3>2. flatten[j] = IF j = 1 THEN seqs[j] ELSE flatten[j - 1] \o seqs[j]
      BY <3>1
    <3>3. CASE j = 1
      <4>1. g[j] = g[j - 1] \o seqs[j]
        BY <1>5
      <4>3. g[j - 1] = <<>>
        <5>1. j - 1 = 0
          BY <3>3
        <5> QED
          BY <1>6, <5>1
      <4>2. <<>> \o seqs[j] = seqs[j]
        BY <1>2, ConcatEmptySeq
      <4> QED
        BY <1>1, <3>2, <3>3, <4>1, <4>2, <4>3
    <3>4. CASE j # 1
      <4>1. flatten[j - 1] = g[j - 1]
        BY <1>1, <2>2, <3>4
      <4>2. g[j] = g[j - 1] \o seqs[j]
        BY <1>5
      <4>3. flatten[j] = g[j]
        BY <3>2, <3>4, <4>1, <4>2
      <4> QED
        BY <1>1, <4>3
    <3> QED
      BY <3>3, <3>4
  <2>3. \A j \in 0 .. n : j \in Same
    <3> HIDE DEF Same
    <3> QED
      BY <1>1, <2>1, <2>2, SetInduction
  <2> QED
    BY <1>1, <2>3
<1> DEFINE Fine == {k \in 0 .. n : \A i \in 1 .. k : \A x :
                      Occurs(x, seqs[i]) => Occurs(x, g[k])}
<1>10. 0 \in Fine
  BY <1>1
<1>11. ASSUME NEW k \in 1 .. n, k - 1 \in Fine PROVE k \in Fine
  <2>1. ASSUME NEW i \in 1 .. k, NEW x, Occurs(x, seqs[i]) PROVE Occurs(x, g[k])
    <3>1. Occurs(x, g[k - 1]) \/ Occurs(x, seqs[k])
      BY <1>11, <2>1
    <3> HIDE DEF n, f
    <3> QED
      BY <1>2, <1>5, <3>1, ConcatHas
  <2> QED
    BY <1>1, <2>1
<1>12. n \in Fine
  <2> HIDE DEF Fine, n, f
  <2>1. \A k \in 0 .. n : k \in Fine
    BY <1>1, <1>10, <1>11, SetInduction
  <2> QED
    BY <1>1, <2>1
<1>13. CASE n = 0
  <2>1. FlattenSeq(seqs) = seqs /\ seqs = <<>>
    BY <1>13, EmptySeq DEF FlattenSeq
  <2> QED
    BY <1>1, <1>13, <2>1
<1>14. CASE n # 0
  <2>1. FlattenSeq(seqs) = flatten[n]
    BY <1>14 DEF FlattenSeq
  <2>2. flatten[n] = g[n] /\ n \in 1 .. n
    <3> HIDE DEF flatten, n, f
    <3> QED
      BY <1>1, <1>9, <1>14
  <2>3. g[n] \in Seq(T)
    BY <1>1, <1>4
  <2> HIDE DEF flatten
  <2> QED
    BY <1>1, <1>12, <2>1, <2>2, <2>3
<1> QED
  BY <1>13, <1>14

\* Adding a string keeps what is there and makes sure of the new one.
Grown(new, table, str) ==
  /\ Occurs(str, new)
  /\ \A j \in DOMAIN table : j \in DOMAIN new /\ new[j] = table[j]

LEMMA InternHas ==
  ASSUME NEW T, NEW table \in Seq(T), NEW str \in T
  PROVE  Intern(table, str) \in Seq(T) /\ Grown(Intern(table, str), table, str)
<1>1. CASE \E i \in DOMAIN table : table[i] = str
  BY <1>1 DEF Intern, Grown, Occurs
<1>2. CASE ~\E i \in DOMAIN table : table[i] = str
  <2>1. Intern(table, str) = Append(table, str)
    BY <1>2 DEF Intern
  <2>2. /\ Append(table, str) \in Seq(T)
        /\ Len(Append(table, str)) = Len(table) + 1
        /\ \A i \in 1 .. Len(table) : Append(table, str)[i] = table[i]
        /\ Append(table, str)[Len(table) + 1] = str
    BY AppendProperties
  <2>3. /\ DOMAIN table = 1 .. Len(table) /\ Len(table) \in Nat
        /\ DOMAIN Append(table, str) = 1 .. Len(table) + 1
    BY <2>2, LenProperties
  <2>4. Len(table) + 1 \in 1 .. Len(table) + 1
    BY <2>3
  <2>5. \A j \in 1 .. Len(table) : j \in 1 .. Len(table) + 1
    BY <2>3
  <2> QED
    BY <2>1, <2>2, <2>3, <2>4, <2>5 DEF Grown, Occurs
<1> QED
  BY <1>1, <1>2

\* The table, string by string.
Interns(table, strs) ==
  /\ table[0] = <<>>
  /\ \A k \in 1 .. Len(strs) : table[k] = Intern(table[k - 1], strs[k])
  /\ TableOf(strs) = table[Len(strs)]

LEMMA TableRecursion ==
  ASSUME NEW T, NEW strs \in Seq(T)
  PROVE  \E table \in [0 .. Len(strs) -> Seq(T)] : Interns(table, strs)
<1> DEFINE n == Len(strs)
           s == [k \in 1 .. n |-> [u \in Seq(T) |-> Intern(u, strs[k])]]
           body(f) == [k \in 0 .. n |-> IF k = 0 THEN <<>> ELSE Intern(f[k - 1], strs[k])]
           table == CHOOSE f : f = body(f)
<1>1. n \in Nat /\ <<>> \in Seq(T)
  BY LenProperties, EmptySeq
<1>2. s \in [1 .. n -> [Seq(T) -> Seq(T)]]
  <2>1. ASSUME NEW k \in 1 .. n, NEW u \in Seq(T) PROVE Intern(u, strs[k]) \in Seq(T)
    BY InternHas, ElementOfSeq
  <2> QED
    BY <2>1
<1>3. PICK f \in [0 .. n -> Seq(T)] : Iterates(f, <<>>, n, s)
  <2> HIDE DEF s, n
  <2> QED
    BY <1>1, <1>2, Recursion, Zenon
<1>4. f[0] = <<>> /\ \A k \in 1 .. n : f[k] = Intern(f[k - 1], strs[k])
  <2>1. ASSUME NEW k \in 1 .. n PROVE f[k] = Intern(f[k - 1], strs[k])
    <3>1. f[k] = s[k][f[k - 1]]
      BY <1>3 DEF Iterates
    <3>2. f[k - 1] \in Seq(T)
      BY <1>3
    <3> QED
      BY <3>1, <3>2
  <2>2. f[0] = <<>>
    BY <1>3 DEF Iterates
  <2> HIDE DEF n, s
  <2> QED
    BY <2>1, <2>2
<1>5. f = body(f)
  <2>1. f = [k \in 0 .. n |-> f[k]]
    BY <1>3
  <2> HIDE DEF s, n
  <2>2. ASSUME NEW k \in 0 .. n
        PROVE  f[k] = IF k = 0 THEN <<>> ELSE Intern(f[k - 1], strs[k])
    <3>1. CASE k = 0
      BY <3>1, <1>4
    <3>2. CASE k # 0
      <4>1. k \in 1 .. n
        BY <1>1, <3>2
      <4> QED
        BY <4>1, <3>2, <1>4
    <3> QED
      BY <3>1, <3>2
  <2> QED
    BY <2>1, <2>2
<1>6. table = body(table)
  <2> HIDE DEF body
  <2> QED
    BY <1>5
<1>7. TableOf(strs) = table[n]
  BY DEF TableOf
<1>8. ASSUME NEW k \in 0 .. n PROVE table[k] = f[k]
  <2> DEFINE Same == {j \in 0 .. n : table[j] = f[j]}
  <2> HIDE DEF table, s, n
  <2>1. 0 \in Same
    <3>1. table[0] = <<>>
      BY <1>1, <1>6
    <3> QED
      BY <3>1, <1>1, <1>4
  <2>2. ASSUME NEW j \in 1 .. n, j - 1 \in Same PROVE j \in Same
    <3>1. table[j] = body(table)[j] /\ j \in 0 .. n /\ j # 0
      <4> HIDE DEF body
      <4> QED
        BY <1>1, <1>6
    <3>2. table[j] = Intern(table[j - 1], strs[j])
      BY <3>1
    <3> QED
      BY <3>1, <3>2, <2>2, <1>4
  <2>3. \A j \in 0 .. n : j \in Same
    <3> HIDE DEF Same
    <3> QED
      BY <1>1, <2>1, <2>2, SetInduction
  <2> QED
    BY <2>3
<1>9. TableOf(strs) = f[n]
  <2> HIDE DEF table, s, n
  <2> QED
    BY <1>1, <1>7, <1>8
<1> QED
  <2> HIDE DEF s
  <2>1. Interns(f, strs)
    BY <1>4, <1>9 DEF Interns
  <2> QED
    BY <1>3, <2>1

\* Every string is in the table, and nothing else.
LEMMA TableHolds ==
  ASSUME NEW T, NEW strs \in Seq(T)
  PROVE  /\ TableOf(strs) \in Seq(T)
         /\ \A i \in DOMAIN strs : Occurs(strs[i], TableOf(strs))
<1> DEFINE n == Len(strs)
<1>1. PICK table \in [0 .. n -> Seq(T)] : Interns(table, strs)
  BY TableRecursion
<1>2. /\ \A k \in 1 .. n : table[k] = Intern(table[k - 1], strs[k])
      /\ TableOf(strs) = table[n]
  BY <1>1 DEF Interns
<1> DEFINE Has(k, i) == Occurs(strs[i], table[k])
           Fine == {k \in 0 .. n : \A i \in 1 .. k : Has(k, i)}
<1>3. n \in Nat /\ DOMAIN strs = 1 .. n
  BY LenProperties
<1>4. 0 \in Fine
  BY <1>3
<1>5. ASSUME NEW k \in 1 .. n, k - 1 \in Fine PROVE k \in Fine
  <2>1. table[k - 1] \in Seq(T) /\ strs[k] \in T
    BY <1>1, <1>3, ElementOfSeq
  <2>2. table[k] = Intern(table[k - 1], strs[k])
    BY <1>2
  <2>a. Grown(table[k], table[k - 1], strs[k])
    BY <2>1, <2>2, InternHas
  <2>3. Has(k, k)
    BY <2>a DEF Grown, Occurs
  <2>4. ASSUME NEW i \in 1 .. k - 1 PROVE Has(k, i)
    <3>1. Has(k - 1, i)
      BY <1>5
    <3>2. PICK j \in DOMAIN table[k - 1] : table[k - 1][j] = strs[i]
      BY <3>1 DEF Occurs
    <3>3. j \in DOMAIN table[k] /\ table[k][j] = table[k - 1][j]
      BY <2>a DEF Grown, Occurs
    <3> QED
      BY <3>2, <3>3 DEF Occurs
  <2> HIDE DEF Has
  <2>5. \A i \in 1 .. k : Has(k, i)
    BY <2>3, <2>4
  <2> QED
    BY <2>5
<1>6. n \in Fine
  <2> HIDE DEF Fine, n
  <2>1. \A k \in 0 .. n : k \in Fine
    BY <1>3, <1>4, <1>5, SetInduction
  <2> QED
    BY <1>3, <2>1
<1> QED
  BY <1>1, <1>2, <1>3, <1>6

\* What a reference stands for is what it was made from.
LEMMA RefReads ==
  ASSUME NEW table, NEW str, Occurs(str, table)
  PROVE  Ref(table, str) \in DOMAIN table /\ table[Ref(table, str)] = str
BY DEF Ref, Occurs

\* The keys of the definitions are walked without leaving one out.
LEMMA WalkedOnce ==
  ASSUME NEW S, IsFiniteSet(S)
  PROVE  /\ SetToSeq(S) \in Seq(S)
         /\ DOMAIN SetToSeq(S) = 1 .. Cardinality(S)
         /\ \A x \in S : Occurs(x, SetToSeq(S))
<1> DEFINE n == Cardinality(S)
<1>1. n \in Nat /\ ExistsBijection(1 .. n, S)
  BY FS_CardinalityType
<1>2. PICK f \in [1 .. n -> S] :
        /\ \A i, j \in 1 .. n : f[i] = f[j] => i = j
  BY <1>1 DEF ExistsBijection, Bijection, Injection, IsInjective
<1>3. \E f1 \in [1 .. n -> S] : IsInjective(f1)
  BY <1>2 DEF IsInjective
<1>4. SetToSeq(S) \in [1 .. n -> S] /\ IsInjective(SetToSeq(S))
  BY <1>3 DEF SetToSeq
<1>5. SetToSeq(S) \in Injection(1 .. n, S)
  BY <1>4 DEF Injection, IsInjective
<1>6. Cardinality(1 .. n) = n
  BY <1>1, FS_Interval
<1>7. SetToSeq(S) \in Surjection(1 .. n, S)
  BY <1>5, <1>6, FS_Injection
<1>8. ASSUME NEW x \in S PROVE Occurs(x, SetToSeq(S))
  BY <1>4, <1>7 DEF Surjection, Occurs
<1> QED
  BY <1>1, <1>4, <1>8

-----------------------------------------------------------------------------
(* The snapshot, written and read back. *)

StepRecord(V) ==
  [tool : V, inputs : Seq(V), output : V, opaque_inputs : Seq(V),
   depfile_inputs : Seq(V), parsed_inputs : Seq(V)]

\* What emit_bin puts into the table of strings.
LEMMA StringsListed ==
  ASSUME NEW V, NEW W, NEW X,
         NEW defs \in Seq([key : Seq(V), val : Seq(V)]),
         NEW ns \in Seq([path : V, step_id : W, out_edges : X]),
         NEW ss \in Seq(StepRecord(V))
  PROVE  LET strs == StringsOf(defs, ns, ss)
         IN  /\ strs \in Seq(Seq(V))
             /\ \A i \in DOMAIN defs : Occurs(defs[i].key, strs) /\ Occurs(defs[i].val, strs)
             /\ \A i \in DOMAIN ns : Occurs(<<ns[i].path>>, strs)
             /\ \A i \in DOMAIN ss :
                  /\ Occurs(<<ss[i].tool>>, strs) /\ Occurs(ss[i].inputs, strs)
                  /\ Occurs(<<ss[i].output>>, strs)
                  /\ \A j \in DOMAIN ss[i].depfile_inputs :
                       Occurs(<<ss[i].depfile_inputs[j]>>, strs)
<1> DEFINE T == Seq(V)
           ofDef(i) == <<defs[i].key, defs[i].val>>
           three(i) == <<<<ss[i].tool>>, ss[i].inputs, <<ss[i].output>>>>
           deps(i) == [j \in DOMAIN ss[i].depfile_inputs |-> <<ss[i].depfile_inputs[j]>>]
           ofStep(i) == three(i) \o deps(i)
           D == [i \in DOMAIN defs |-> ofDef(i)]
           N == [i \in DOMAIN ns |-> <<ns[i].path>>]
           S == [i \in DOMAIN ss |-> ofStep(i)]
           strs == StringsOf(defs, ns, ss)
<1>1. /\ \A i \in DOMAIN defs : defs[i] \in [key : T, val : T]
      /\ \A i \in DOMAIN ns : ns[i] \in [path : V, step_id : W, out_edges : X]
      /\ \A i \in DOMAIN ss : ss[i] \in StepRecord(V)
  BY LenProperties, ElementOfSeq
<1>2. D \in Seq(Seq(T))
  <2>1. \A i \in DOMAIN defs : ofDef(i) \in Seq(T)
    BY <1>1
  <2>2. D \in [DOMAIN defs -> Seq(T)]
    BY <2>1
  <2> HIDE DEF D, T
  <2> QED
    BY <2>2, MappedSeq
<1>3. N \in Seq(T)
  <2>1. \A i \in DOMAIN ns : <<ns[i].path>> \in T
    BY <1>1
  <2>2. N \in [DOMAIN ns -> T]
    BY <2>1
  <2> HIDE DEF N, T
  <2> QED
    BY <2>2, MappedSeq
<1>4. ASSUME NEW i \in DOMAIN ss
      PROVE  three(i) \in Seq(T) /\ deps(i) \in Seq(T) /\ ofStep(i) \in Seq(T)
  <2>1. ss[i].tool \in V /\ ss[i].inputs \in T /\ ss[i].output \in V
          /\ ss[i].depfile_inputs \in Seq(V)
    BY <1>1 DEF StepRecord
  <2>2. three(i) \in Seq(T)
    BY <2>1
  <2>3. \A j \in DOMAIN ss[i].depfile_inputs : <<ss[i].depfile_inputs[j]>> \in T
    BY <2>1
  <2>4. deps(i) \in Seq(T)
    <3>1. deps(i) \in [DOMAIN ss[i].depfile_inputs -> T]
      BY <2>3
    <3> HIDE DEF deps, T
    <3> QED
      BY <2>1, <3>1, MappedSeq
  <2> QED
    BY <2>2, <2>4, ConcatProperties
<1>5. S \in Seq(Seq(T))
  <2> HIDE DEF ofStep, T
  <2>1. S \in [DOMAIN ss -> Seq(T)]
    BY <1>4
  <2> HIDE DEF S
  <2> QED
    BY <2>1, MappedSeq
<1>6. strs = FlattenSeq(D) \o N \o FlattenSeq(S)
  BY DEF StringsOf
<1>7. /\ FlattenSeq(D) \in Seq(T) /\ FlattenSeq(S) \in Seq(T)
      /\ FlattenSeq(D) \o N \in Seq(T) /\ strs \in Seq(T)
  <2> HIDE DEF D, N, S, T, strs
  <2>1. FlattenSeq(D) \in Seq(T) /\ FlattenSeq(S) \in Seq(T)
    BY <1>2, <1>5, FlattenHas
  <2>2. FlattenSeq(D) \o N \in Seq(T)
    BY <1>3, <2>1, ConcatProperties
  <2>3. strs \in Seq(T)
    BY <1>6, <2>1, <2>2, ConcatProperties
  <2> QED
    BY <2>1, <2>2, <2>3
<1>8. ASSUME NEW x, Occurs(x, FlattenSeq(D)) \/ Occurs(x, N) \/ Occurs(x, FlattenSeq(S))
      PROVE  Occurs(x, strs)
  <2> HIDE DEF D, N, S, T, strs
  <2>1. CASE Occurs(x, FlattenSeq(D)) \/ Occurs(x, N)
    <3>1. Occurs(x, FlattenSeq(D) \o N)
      BY <1>3, <1>7, <2>1, ConcatHas
    <3> QED
      BY <1>6, <1>7, <3>1, ConcatHas
  <2>2. CASE Occurs(x, FlattenSeq(S))
    BY <1>6, <1>7, <2>2, ConcatHas
  <2> QED
    BY <1>8, <2>1, <2>2
<1>9. ASSUME NEW i \in DOMAIN defs
      PROVE  Occurs(defs[i].key, strs) /\ Occurs(defs[i].val, strs)
  <2>1. i \in DOMAIN D /\ D[i] = <<defs[i].key, defs[i].val>>
    OBVIOUS
  <2>2. Occurs(defs[i].key, D[i]) /\ Occurs(defs[i].val, D[i])
    BY <2>1 DEF Occurs
  <2>3. \A x : Occurs(x, D[i]) => Occurs(x, FlattenSeq(D))
    <3> HIDE DEF D, T
    <3> QED
      BY <1>2, <2>1, FlattenHas
  <2> HIDE DEF D, strs
  <2> QED
    BY <1>8, <2>2, <2>3
<1>10. ASSUME NEW i \in DOMAIN ns PROVE Occurs(<<ns[i].path>>, strs)
  <2>1. Occurs(<<ns[i].path>>, N)
    BY DEF Occurs
  <2> HIDE DEF N, strs
  <2> QED
    BY <1>8, <2>1
<1>11. ASSUME NEW i \in DOMAIN ss, NEW x, Occurs(x, three(i)) \/ Occurs(x, deps(i))
       PROVE  Occurs(x, strs)
  <2>1. Occurs(x, ofStep(i))
    <3> HIDE DEF three, deps, T
    <3> QED
      BY <1>4, <1>11, ConcatHas
  <2>2. i \in DOMAIN S /\ S[i] = ofStep(i)
    OBVIOUS
  <2> HIDE DEF S, ofStep, T, strs
  <2>3. Occurs(x, FlattenSeq(S))
    BY <1>5, <2>1, <2>2, FlattenHas
  <2> QED
    BY <1>8, <2>3
<1>12. ASSUME NEW i \in DOMAIN ss
       PROVE  /\ Occurs(<<ss[i].tool>>, strs) /\ Occurs(ss[i].inputs, strs)
              /\ Occurs(<<ss[i].output>>, strs)
              /\ \A j \in DOMAIN ss[i].depfile_inputs :
                   Occurs(<<ss[i].depfile_inputs[j]>>, strs)
  <2>1. /\ Occurs(<<ss[i].tool>>, three(i)) /\ Occurs(ss[i].inputs, three(i))
        /\ Occurs(<<ss[i].output>>, three(i))
    <3>1. three(i)[1] = <<ss[i].tool>> /\ three(i)[2] = ss[i].inputs
            /\ three(i)[3] = <<ss[i].output>> /\ DOMAIN three(i) = 1 .. 3
      OBVIOUS
    <3> HIDE DEF three
    <3> QED
      BY <3>1 DEF Occurs
  <2>2. \A j \in DOMAIN ss[i].depfile_inputs :
          Occurs(<<ss[i].depfile_inputs[j]>>, deps(i))
    BY DEF Occurs
  <2> HIDE DEF three, deps, strs
  <2> QED
    BY <1>11, <2>1, <2>2
<1> HIDE DEF D, N, S
<1> QED
  BY <1>7, <1>9, <1>10, <1>12

\* What a parse of the snapshot makes of a step.
Reloaded(st) ==
  [tool |-> st.tool, inputs |-> st.inputs, output |-> st.output,
   opaque_inputs |-> <<>>, depfile_inputs |-> st.depfile_inputs,
   parsed_inputs |-> NonEmpty(st.inputs)]

\* What a snapshot may be made from, and what is read back from one.
Storable(V, W, X, K, defs, ns, ss) ==
  /\ IsFiniteSet(K) /\ K \subseteq V /\ defs \in [K -> V]
  /\ ns \in Seq([path : V, step_id : W, out_edges : X])
  /\ ss \in Seq(StepRecord(V))

ReadBack(b, defs, ns, ss) ==
  /\ b.definitions = defs /\ b.nodes = ns
  /\ b.steps = [i \in DOMAIN ss |-> Reloaded(ss[i])]

\* What is read back is what was written, but for what a step keeps of its
\* opaque inputs.
LEMMA SnapshotRoundTrip ==
  ASSUME NEW V, NEW W, NEW X, NEW K, NEW defs, NEW ns, NEW ss,
         Storable(V, W, X, K, defs, ns, ss)
  PROVE  ReadBack(ParseBin(EmitBin(defs, ns, ss)), defs, ns, ss)
<1>0. /\ IsFiniteSet(K) /\ K \subseteq V /\ defs \in [K -> V]
      /\ ns \in Seq([path : V, step_id : W, out_edges : X])
      /\ ss \in Seq(StepRecord(V))
  BY DEF Storable
<1> USE <1>0
<1> DEFINE keys == SetToSeq(DOMAIN defs)
           ds == [i \in DOMAIN keys |-> [key |-> <<keys[i]>>, val |-> <<defs[keys[i]]>>]]
           strs == StringsOf(ds, ns, ss)
           table == TableOf(strs)
           ref(str) == Ref(table, str)
           E == EmitBin(defs, ns, ss)
           b == ParseBin(E)
           part(r) == E.strings[r][1]
<1>1. /\ keys \in Seq(K) /\ DOMAIN keys = 1 .. Len(keys)
      /\ \A k \in K : Occurs(k, keys)
      /\ \A i \in DOMAIN keys : keys[i] \in K
  <2>1. DOMAIN defs = K
    OBVIOUS
  <2>2. keys \in Seq(K) /\ \A k \in K : Occurs(k, keys)
    BY <2>1, WalkedOnce
  <2> QED
    BY <2>2, LenProperties, ElementOfSeq
<1> HIDE DEF keys
<1>2. ds \in Seq([key : Seq(V), val : Seq(V)]) /\ DOMAIN ds = DOMAIN keys
  <2>1. \A i \in DOMAIN keys : keys[i] \in V /\ defs[keys[i]] \in V
    BY <1>1
  <2>2. \A i \in DOMAIN keys : <<keys[i]>> \in Seq(V) /\ <<defs[keys[i]]>> \in Seq(V)
    BY <2>1
  <2>3. ds \in [DOMAIN keys -> [key : Seq(V), val : Seq(V)]]
    BY <2>2
  <2> HIDE DEF ds
  <2> QED
    BY <1>1, <2>3, MappedSeq
<1>3. ASSUME NEW i \in DOMAIN keys
      PROVE  ds[i].key = <<keys[i]>> /\ ds[i].val = <<defs[keys[i]]>>
  OBVIOUS
<1>4. /\ E.definitions = [i \in DOMAIN ds |->
                            [key |-> ref(ds[i].key), val |-> ref(ds[i].val)]]
      /\ E.nodes = [i \in DOMAIN ns |->
                      [path |-> ref(<<ns[i].path>>), step_id |-> ns[i].step_id,
                       out_edges |-> ns[i].out_edges]]
      /\ E.steps = [i \in DOMAIN ss |->
                      [tool |-> ref(<<ss[i].tool>>), inputs |-> ref(ss[i].inputs),
                       output |-> ref(<<ss[i].output>>),
                       depfile_inputs |-> [j \in DOMAIN ss[i].depfile_inputs |->
                                             ref(<<ss[i].depfile_inputs[j]>>)]]]
      /\ E.strings = table
  <2> HIDE DEF table
  <2> QED
    BY DEF EmitBin, keys, table
<1> HIDE DEF E
<1>5. /\ strs \in Seq(Seq(V))
      /\ \A i \in DOMAIN ds : Occurs(ds[i].key, strs) /\ Occurs(ds[i].val, strs)
      /\ \A i \in DOMAIN ns : Occurs(<<ns[i].path>>, strs)
      /\ \A i \in DOMAIN ss :
           /\ Occurs(<<ss[i].tool>>, strs) /\ Occurs(ss[i].inputs, strs)
           /\ Occurs(<<ss[i].output>>, strs)
           /\ \A j \in DOMAIN ss[i].depfile_inputs :
                Occurs(<<ss[i].depfile_inputs[j]>>, strs)
  <2> HIDE DEF ds
  <2> QED
    BY <1>2, StringsListed
<1> HIDE DEF ds, strs
<1>6. ASSUME NEW str, Occurs(str, strs) PROVE table[ref(str)] = str
  <2>1. \A i \in DOMAIN strs : Occurs(strs[i], table)
    BY <1>5, TableHolds
  <2> HIDE DEF table
  <2>2. Occurs(str, table)
    BY <1>6, <2>1 DEF Occurs
  <2> QED
    BY <2>2, RefReads
<1>7. ASSUME NEW x, Occurs(<<x>>, strs) PROVE part(ref(<<x>>)) = x
  <2>1. table[ref(<<x>>)] = <<x>>
    BY <1>6, <1>7
  <2> HIDE DEF table, ref
  <2> QED
    BY <1>4, <2>1
<1> HIDE DEF table, ref, part
<1>8. \A i \in DOMAIN ns : ns[i] \in [path : V, step_id : W, out_edges : X]
  BY LenProperties, ElementOfSeq
<1>9. b.nodes = ns
  <2>1. b.nodes = [i \in DOMAIN E.nodes |->
                     [path |-> part(E.nodes[i].path),
                      step_id |-> E.nodes[i].step_id,
                      out_edges |-> E.nodes[i].out_edges]]
    BY DEF ParseBin, part
  <2>2. ASSUME NEW i \in DOMAIN ns
        PROVE  /\ part(E.nodes[i].path) = ns[i].path
               /\ E.nodes[i].step_id = ns[i].step_id
               /\ E.nodes[i].out_edges = ns[i].out_edges
    <3>1. E.nodes[i] = [path |-> ref(<<ns[i].path>>), step_id |-> ns[i].step_id,
                        out_edges |-> ns[i].out_edges]
      BY <1>4
    <3>2. part(ref(<<ns[i].path>>)) = ns[i].path
      BY <1>5, <1>7
    <3> QED
      BY <3>1, <3>2
  <2>3. DOMAIN E.nodes = DOMAIN ns
    BY <1>4
  <2>4. b.nodes = [i \in DOMAIN ns |-> [path |-> ns[i].path, step_id |-> ns[i].step_id,
                                        out_edges |-> ns[i].out_edges]]
    BY <2>1, <2>2, <2>3
  <2>5. \A i \in DOMAIN ns : [path |-> ns[i].path, step_id |-> ns[i].step_id,
                              out_edges |-> ns[i].out_edges] = ns[i]
    BY <1>8
  <2>6. ns = [i \in DOMAIN ns |-> ns[i]]
    BY LenProperties
  <2> QED
    BY <2>4, <2>5, <2>6
<1>10. b.steps = [i \in DOMAIN ss |-> Reloaded(ss[i])]
  <2>1. b.steps = [i \in DOMAIN E.steps |->
                     [tool |-> part(E.steps[i].tool),
                      inputs |-> E.strings[E.steps[i].inputs],
                      output |-> part(E.steps[i].output),
                      opaque_inputs |-> <<>>,
                      depfile_inputs |-> [j \in DOMAIN E.steps[i].depfile_inputs |->
                                            part(E.steps[i].depfile_inputs[j])],
                      parsed_inputs |-> NonEmpty(E.strings[E.steps[i].inputs])]]
    BY DEF ParseBin, DepfileRefs, part
  <2>2. ASSUME NEW i \in DOMAIN ss
        PROVE  /\ part(E.steps[i].tool) = ss[i].tool
               /\ E.strings[E.steps[i].inputs] = ss[i].inputs
               /\ part(E.steps[i].output) = ss[i].output
               /\ [j \in DOMAIN E.steps[i].depfile_inputs |->
                     part(E.steps[i].depfile_inputs[j])] = ss[i].depfile_inputs
    <3>1. /\ E.steps[i].tool = ref(<<ss[i].tool>>)
          /\ E.steps[i].inputs = ref(ss[i].inputs)
          /\ E.steps[i].output = ref(<<ss[i].output>>)
          /\ E.steps[i].depfile_inputs =
               [j \in DOMAIN ss[i].depfile_inputs |-> ref(<<ss[i].depfile_inputs[j]>>)]
      <4> DEFINE entry(k) ==
                   [tool |-> ref(<<ss[k].tool>>), inputs |-> ref(ss[k].inputs),
                    output |-> ref(<<ss[k].output>>),
                    depfile_inputs |-> [j \in DOMAIN ss[k].depfile_inputs |->
                                          ref(<<ss[k].depfile_inputs[j]>>)]]
      <4>1. E.steps = [k \in DOMAIN ss |-> entry(k)]
        BY <1>4
      <4>2. E.steps[i] = entry(i)
        <5> HIDE DEF entry
        <5> QED
          BY <4>1
      <4> QED
        BY <4>2
    <3>2. /\ Occurs(<<ss[i].tool>>, strs) /\ Occurs(ss[i].inputs, strs)
          /\ Occurs(<<ss[i].output>>, strs)
          /\ \A j \in DOMAIN ss[i].depfile_inputs :
               Occurs(<<ss[i].depfile_inputs[j]>>, strs)
      BY <1>5
    <3>3. part(E.steps[i].tool) = ss[i].tool /\ part(E.steps[i].output) = ss[i].output
      BY <1>7, <3>1, <3>2
    <3>4. E.strings[E.steps[i].inputs] = ss[i].inputs
      BY <1>4, <1>6, <3>1, <3>2
    <3>5. ss[i].depfile_inputs \in Seq(V)
      <4>1. ss[i] \in StepRecord(V)
        BY LenProperties, ElementOfSeq
      <4> QED
        BY <4>1 DEF StepRecord
    <3>6. ss[i].depfile_inputs =
            [j \in DOMAIN ss[i].depfile_inputs |-> ss[i].depfile_inputs[j]]
      BY <3>5, LenProperties
    <3>7. \A j \in DOMAIN ss[i].depfile_inputs :
            part(E.steps[i].depfile_inputs[j]) = ss[i].depfile_inputs[j]
      BY <1>7, <3>1, <3>2
    <3>8. DOMAIN E.steps[i].depfile_inputs = DOMAIN ss[i].depfile_inputs
      BY <3>1
    <3> QED
      BY <3>3, <3>4, <3>6, <3>7, <3>8
  <2>3. DOMAIN E.steps = DOMAIN ss
    BY <1>4
  <2> QED
    BY <2>1, <2>2, <2>3 DEF Reloaded
<1>11. b.definitions = defs
  <2> DEFINE keyAt(i) == part(E.definitions[i].key)
             defAt(k) == CHOOSE i \in DOMAIN E.definitions :
                           keyAt(i) = k /\ \A j \in 1 .. i - 1 : keyAt(j) # k
             ks == {keyAt(i) : i \in DOMAIN E.definitions}
  <2>1. b.definitions = [k \in ks |-> part(E.definitions[defAt(k)].val)]
    BY DEF ParseBin, part
  <2>2. DOMAIN E.definitions = DOMAIN keys
    BY <1>2, <1>4
  <2>3. ASSUME NEW i \in DOMAIN keys
        PROVE  keyAt(i) = keys[i] /\ part(E.definitions[i].val) = defs[keys[i]]
    <3>1. E.definitions[i].key = ref(<<keys[i]>>)
            /\ E.definitions[i].val = ref(<<defs[keys[i]]>>)
      <4>1. E.definitions[i] = [key |-> ref(ds[i].key), val |-> ref(ds[i].val)]
        BY <1>2, <1>4
      <4>2. ds[i].key = <<keys[i]>> /\ ds[i].val = <<defs[keys[i]]>>
        BY <1>3
      <4>3. E.definitions[i].key = ref(ds[i].key) /\ E.definitions[i].val = ref(ds[i].val)
        BY <4>1
      <4> QED
        BY <4>2, <4>3
    <3>2. Occurs(<<keys[i]>>, strs) /\ Occurs(<<defs[keys[i]]>>, strs)
      BY <1>2, <1>3, <1>5
    <3> QED
      BY <1>7, <3>1, <3>2
  <2>4. ks = K
    <3>1. \A k \in K : \E i \in DOMAIN keys : keys[i] = k
      BY <1>1 DEF Occurs
    <3> HIDE DEF keyAt
    <3> QED
      BY <1>1, <2>2, <2>3, <3>1
  <2>5. ASSUME NEW k \in K PROVE part(E.definitions[defAt(k)].val) = defs[k]
    <3> DEFINE At == {i \in DOMAIN keys : keys[i] = k}
    <3>1. At \subseteq Nat /\ At # {}
      BY <1>1 DEF Occurs
    <3>2. PICK i \in At : \A j \in At : i <= j
      BY <3>1, LeastNumber
    <3>3. keyAt(i) = k /\ \A j \in 1 .. i - 1 : keyAt(j) # k
      <4>1. i \in DOMAIN keys /\ keys[i] = k /\ i \in 1 .. Len(keys) /\ Len(keys) \in Nat
        BY <1>1, <3>2, LenProperties
      <4>2. ASSUME NEW j \in 1 .. i - 1 PROVE keyAt(j) # k
        <5>1. j \in DOMAIN keys /\ j < i
          BY <1>1, <4>1
        <5>2. keys[j] # k
          BY <3>2, <4>1, <5>1
        <5> QED
          BY <2>3, <5>1, <5>2
      <4> QED
        BY <2>3, <4>1, <4>2
    <3>4. i \in DOMAIN E.definitions
      BY <2>2, <3>2
    <3> HIDE DEF keyAt
    <3>5. defAt(k) \in DOMAIN E.definitions /\ keyAt(defAt(k)) = k
      BY <3>3, <3>4
    <3> HIDE DEF defAt
    <3> QED
      BY <2>2, <2>3, <3>5
  <2> HIDE DEF ks, defAt
  <2> QED
    BY <2>1, <2>4, <2>5
<1> QED
  BY <1>9, <1>10, <1>11 DEF E, ReadBack

-----------------------------------------------------------------------------
(* The command line. *)

\* What cliArgs returns, and its loop keeps, if the definitions among the words
\* are in D
\* and the words in W.
JobCount == {0} \cup {Number[w] : w \in DOMAIN Number}

ArgsRecord(D, W) ==
  [dry_run : BOOLEAN, silent : BOOLEAN, keep_going : BOOLEAN,
   jobs : JobCount,
   clean : BOOLEAN, compdb : BOOLEAN, graph : BOOLEAN, commands : BOOLEAN,
   build_file : W \cup {"catalyst.build"},
   estimates_file : W \cup {"catalyst.estimates"}, work_dir : W \cup {"."},
   definition_overrides : Seq(D)]

ReadingRecord(D, W) ==
  [outcome : {"ok", "help", "error"}, option : Valued \cup {Nothing},
   args : ArgsRecord(D, W)]

LEMMA ReadingType ==
  ASSUME NEW D, NEW W, Assignment \in [DOMAIN Assignment -> D]
  PROVE  DefaultArgs \in ArgsRecord(D, W) /\ Reading \in ReadingRecord(D, W)
<1>1. <<>> \in Seq(D)
  BY EmptySeq
<1>2. DefaultArgs \in ArgsRecord(D, W)
  <2>1. 0 \in JobCount
    BY DEF JobCount
  <2> QED
    BY <1>1, <2>1 DEF DefaultArgs, ArgsRecord
<1> QED
  BY <1>2 DEF Reading, ReadingRecord

LEMMA ReadWordType ==
  ASSUME NEW D, NEW W, Assignment \in [DOMAIN Assignment -> D],
         NEW r \in ReadingRecord(D, W), NEW word \in W
  PROVE  ReadWord(r, word) \in ReadingRecord(D, W)
<1>1. /\ r.args \in ArgsRecord(D, W) /\ r.option \in Valued \cup {Nothing}
      /\ r = [outcome |-> r.outcome, option |-> r.option, args |-> r.args]
      /\ r.outcome \in {"ok", "help", "error"}
  BY DEF ReadingRecord
<1>2. Fails(r) \in ReadingRecord(D, W)
  BY DEF Fails, ReadingRecord
<1>3. ASSUME r.option # Nothing PROVE Value(r, word) \in ReadingRecord(D, W)
  <2> DEFINE read == [r EXCEPT !.option = Nothing]
  <2>1. read \in ReadingRecord(D, W) /\ read.args = r.args
    BY DEF ReadingRecord
  <2>2. r.option \in {"-C", "-f", "--estimates", "-j", "--jobs", "-t"}
    BY <1>1, <1>3 DEF Valued
  <2>3. CASE r.option = "-C"
    <3>1. Value(r, word) = [read EXCEPT !.args.work_dir = word]
      BY <2>3 DEF Value
    <3>2. [r.args EXCEPT !.work_dir = word] \in ArgsRecord(D, W)
      BY <1>1 DEF ArgsRecord
    <3> QED
      BY <2>1, <3>1, <3>2 DEF ReadingRecord
  <2>4. CASE r.option = "-f"
    <3>1. Value(r, word) = [read EXCEPT !.args.build_file = word]
      BY <2>4 DEF Value
    <3>2. [r.args EXCEPT !.build_file = word] \in ArgsRecord(D, W)
      BY <1>1 DEF ArgsRecord
    <3> QED
      BY <2>1, <3>1, <3>2 DEF ReadingRecord
  <2>5. CASE r.option = "--estimates"
    <3>1. Value(r, word) = [read EXCEPT !.args.estimates_file = word]
      BY <2>5 DEF Value
    <3>2. [r.args EXCEPT !.estimates_file = word] \in ArgsRecord(D, W)
      BY <1>1 DEF ArgsRecord
    <3> QED
      BY <2>1, <3>1, <3>2 DEF ReadingRecord
  <2>6. CASE r.option \in {"-j", "--jobs"}
    <3>1. Value(r, word) = IF word \in DOMAIN Number
                             THEN [read EXCEPT !.args.jobs = Number[word]] ELSE Fails(r)
      BY <2>6 DEF Value
    <3>2. ASSUME word \in DOMAIN Number
          PROVE  [read EXCEPT !.args.jobs = Number[word]] \in ReadingRecord(D, W)
      <4>1. Number[word] \in JobCount
        BY <3>2 DEF JobCount
      <4>2. [r.args EXCEPT !.jobs = Number[word]] \in ArgsRecord(D, W)
        BY <1>1, <4>1 DEF ArgsRecord
      <4> QED
        BY <2>1, <4>2 DEF ReadingRecord
    <3> QED
      BY <1>2, <3>1, <3>2
  <2>7. CASE r.option = "-t"
    <3>1. Value(r, word) = IF word \in Tools
                             THEN [read EXCEPT !.args[word] = TRUE] ELSE Fails(r)
      BY <2>7 DEF Value
    <3>2. ASSUME word \in Tools
          PROVE  [read EXCEPT !.args[word] = TRUE] \in ReadingRecord(D, W)
      <4>1. [r.args EXCEPT ![word] = TRUE] \in ArgsRecord(D, W)
        BY <1>1, <3>2 DEF ArgsRecord, Tools
      <4> QED
        BY <2>1, <4>1 DEF ReadingRecord
    <3> QED
      BY <1>2, <3>1, <3>2
  <2> QED
    BY <2>2, <2>3, <2>4, <2>5, <2>6, <2>7
<1>4. Option(r, word) \in ReadingRecord(D, W)
  <2>1. CASE word \in Questions
    <3>1. Option(r, word) = [r EXCEPT !.outcome = "help"]
      BY <2>1, CommandLineAssumption DEF Option, Questions, Valued, Switches
    <3> QED
      BY <3>1 DEF ReadingRecord
  <2>2. CASE word \in Valued
    <3>1. Option(r, word) = [r EXCEPT !.option = word]
      BY <2>2, CommandLineAssumption DEF Option, Questions, Valued, Switches
    <3> QED
      BY <2>2, <3>1 DEF ReadingRecord
  <2>3. CASE word \in {"-n", "--dry-run"}
    <3>1. Option(r, word) = [r EXCEPT !.args.dry_run = TRUE]
      BY <2>3, CommandLineAssumption DEF Option, Questions, Valued, Switches
    <3>2. [r.args EXCEPT !.dry_run = TRUE] \in ArgsRecord(D, W)
      BY <1>1 DEF ArgsRecord
    <3> QED
      BY <3>1, <3>2 DEF ReadingRecord
  <2>4. CASE word \in {"-s", "--silent"}
    <3>1. Option(r, word) = [r EXCEPT !.args.silent = TRUE]
      BY <2>4, CommandLineAssumption DEF Option, Questions, Valued, Switches
    <3>2. [r.args EXCEPT !.silent = TRUE] \in ArgsRecord(D, W)
      BY <1>1 DEF ArgsRecord
    <3> QED
      BY <3>1, <3>2 DEF ReadingRecord
  <2>5. CASE word \in {"-k", "--keep-going"}
    <3>1. Option(r, word) = [r EXCEPT !.args.keep_going = TRUE]
      BY <2>5, CommandLineAssumption DEF Option, Questions, Valued, Switches
    <3>2. [r.args EXCEPT !.keep_going = TRUE] \in ArgsRecord(D, W)
      BY <1>1 DEF ArgsRecord
    <3> QED
      BY <3>1, <3>2 DEF ReadingRecord
  <2>6. CASE word \notin Questions \cup Valued \cup Switches
    <3>1. Option(r, word) =
            IF word \in DOMAIN Assignment
              THEN [r EXCEPT !.args.definition_overrides = Append(@, Assignment[word])]
              ELSE Fails(r)
      BY <2>6 DEF Option, Switches
    <3>2. ASSUME word \in DOMAIN Assignment
          PROVE  [r EXCEPT !.args.definition_overrides = Append(@, Assignment[word])]
                   \in ReadingRecord(D, W)
      <4> DEFINE more == Append(r.args.definition_overrides, Assignment[word])
      <4>1. Assignment[word] \in D
        BY <3>2
      <4>2. more \in Seq(D)
        BY <1>1, <4>1 DEF ArgsRecord
      <4> HIDE DEF more
      <4>3. [r.args EXCEPT !.definition_overrides = more] \in ArgsRecord(D, W)
        BY <1>1, <4>2 DEF ArgsRecord
      <4>4. [r EXCEPT !.args.definition_overrides = more] \in ReadingRecord(D, W)
        BY <4>3 DEF ReadingRecord
      <4> QED
        BY <4>4 DEF more
    <3> QED
      BY <1>2, <3>1, <3>2
  <2> QED
    BY <2>1, <2>2, <2>3, <2>4, <2>5, <2>6 DEF Switches
<1> QED
  BY <1>3, <1>4 DEF ReadWord

\* What the loop over the words has found after each of them.
LastWord(r) == IF r.outcome = "ok" /\ r.option # Nothing THEN Fails(r) ELSE r

Reads(read, argv) ==
  /\ read[0] = Reading
  /\ \A k \in 1 .. Len(argv) : read[k] = ReadWord(read[k - 1], argv[k])
  /\ CliArgs(argv) = LastWord(read[Len(argv)])

LEMMA ReadRecursion ==
  ASSUME NEW D, NEW W, Assignment \in [DOMAIN Assignment -> D], NEW argv \in Seq(W)
  PROVE  \E read \in [0 .. Len(argv) -> ReadingRecord(D, W)] : Reads(read, argv)
<1> DEFINE n == Len(argv)
           s == [k \in 1 .. n |-> [u \in ReadingRecord(D, W) |-> ReadWord(u, argv[k])]]
           body(f) == [k \in 0 .. n |-> IF k = 0 THEN Reading ELSE ReadWord(f[k - 1], argv[k])]
           read == CHOOSE f : f = body(f)
<1>1. n \in Nat /\ Reading \in ReadingRecord(D, W)
  BY LenProperties, ReadingType
<1>2. s \in [1 .. n -> [ReadingRecord(D, W) -> ReadingRecord(D, W)]]
  <2>1. ASSUME NEW k \in 1 .. n, NEW u \in ReadingRecord(D, W)
        PROVE  ReadWord(u, argv[k]) \in ReadingRecord(D, W)
    BY ReadWordType, ElementOfSeq
  <2> QED
    BY <2>1
<1>3. PICK f \in [0 .. n -> ReadingRecord(D, W)] : Iterates(f, Reading, n, s)
  <2> HIDE DEF s, n
  <2> QED
    BY <1>1, <1>2, Recursion, Zenon
<1>4. f[0] = Reading /\ \A k \in 1 .. n : f[k] = ReadWord(f[k - 1], argv[k])
  <2>1. ASSUME NEW k \in 1 .. n PROVE f[k] = ReadWord(f[k - 1], argv[k])
    <3>1. f[k] = s[k][f[k - 1]]
      BY <1>3 DEF Iterates
    <3>2. f[k - 1] \in ReadingRecord(D, W)
      BY <1>3
    <3> QED
      BY <3>1, <3>2
  <2>2. f[0] = Reading
    BY <1>3 DEF Iterates
  <2> HIDE DEF n, s
  <2> QED
    BY <2>1, <2>2
<1>5. f = body(f)
  <2>1. f = [k \in 0 .. n |-> f[k]]
    BY <1>3
  <2> HIDE DEF s, n
  <2>2. ASSUME NEW k \in 0 .. n
        PROVE  f[k] = IF k = 0 THEN Reading ELSE ReadWord(f[k - 1], argv[k])
    <3>1. CASE k = 0
      BY <3>1, <1>4
    <3>2. CASE k # 0
      <4>1. k \in 1 .. n
        BY <1>1, <3>2
      <4> QED
        BY <4>1, <3>2, <1>4
    <3> QED
      BY <3>1, <3>2
  <2> QED
    BY <2>1, <2>2
<1>6. read = body(read)
  <2> HIDE DEF body
  <2> QED
    BY <1>5
<1>7. CliArgs(argv) = LastWord(read[n])
  BY DEF CliArgs, LastWord
<1>8. ASSUME NEW k \in 0 .. n PROVE read[k] = f[k]
  <2> DEFINE Same == {j \in 0 .. n : read[j] = f[j]}
  <2> HIDE DEF read, s, n
  <2>1. 0 \in Same
    <3>1. read[0] = Reading
      BY <1>1, <1>6
    <3> QED
      BY <3>1, <1>1, <1>4
  <2>2. ASSUME NEW j \in 1 .. n, j - 1 \in Same PROVE j \in Same
    <3>1. read[j] = body(read)[j] /\ j \in 0 .. n /\ j # 0
      <4> HIDE DEF body
      <4> QED
        BY <1>1, <1>6
    <3>2. read[j] = ReadWord(read[j - 1], argv[j])
      BY <3>1
    <3> QED
      BY <3>1, <3>2, <2>2, <1>4
  <2>3. \A j \in 0 .. n : j \in Same
    <3> HIDE DEF Same
    <3> QED
      BY <1>1, <2>1, <2>2, SetInduction
  <2> QED
    BY <2>3
<1>9. CliArgs(argv) = LastWord(f[n])
  <2> HIDE DEF read, s, n
  <2> QED
    BY <1>1, <1>7, <1>8
<1> QED
  <2> HIDE DEF s
  <2>1. Reads(f, argv)
    BY <1>4, <1>9 DEF Reads
  <2> QED
    BY <1>3, <2>1

LEMMA CliArgsType ==
  ASSUME NEW D, NEW W, Assignment \in [DOMAIN Assignment -> D], NEW argv \in Seq(W)
  PROVE  CliArgs(argv) \in ReadingRecord(D, W)
<1>1. PICK read \in [0 .. Len(argv) -> ReadingRecord(D, W)] : Reads(read, argv)
  BY ReadRecursion
<1> DEFINE r == read[Len(argv)]
<1>2. r \in ReadingRecord(D, W) /\ CliArgs(argv) = LastWord(r)
  <2>1. Len(argv) \in Nat
    BY LenProperties
  <2> QED
    BY <1>1, <2>1 DEF Reads
<1> HIDE DEF r
<1> QED
  BY <1>2 DEF LastWord, Fails, ReadingRecord

-----------------------------------------------------------------------------
(* Sets of numbers in ascending order. *)

\* A sequence with the elements of a set, the least first.
Enumerates(q, S) ==
  /\ q \in [1 .. Cardinality(S) -> S]
  /\ \A i, j \in 1 .. Cardinality(S) : i < j => q[i] < q[j]

\* It has them all.
LEMMA EnumeratesAll ==
  ASSUME NEW S, S \subseteq Nat, IsFiniteSet(S), NEW q, Enumerates(q, S)
  PROVE  q \in Surjection(1 .. Cardinality(S), S)
<1> DEFINE m == Cardinality(S)
<1>1. m \in Nat
  BY FS_CardinalityType
<1>2. q \in Injection(1 .. m, S)
  <2>1. ASSUME NEW i \in 1 .. m, NEW j \in 1 .. m, q[i] = q[j] PROVE i = j
    <3>1. q[i] \in Nat /\ q[j] \in Nat
      BY DEF Enumerates
    <3>2. ~(i < j) /\ ~(j < i)
      BY <2>1, <3>1 DEF Enumerates
    <3> QED
      BY <1>1, <3>2
  <2>2. q \in [1 .. m -> S]
    BY DEF Enumerates
  <2> HIDE DEF m
  <2>3. IsInjective(q)
    BY <2>1, <2>2 DEF IsInjective
  <2> QED
    BY <2>2, <2>3 DEF Injection
<1>3. IsFiniteSet(1 .. m) /\ Cardinality(1 .. m) = m
  BY <1>1, FS_Interval
<1> QED
  BY <1>2, <1>3, FS_Injection

\* There is only one.
LEMMA EnumeratesOnce ==
  ASSUME NEW S, S \subseteq Nat, IsFiniteSet(S),
         NEW p, Enumerates(p, S), NEW q, Enumerates(q, S)
  PROVE  p = q
<1> DEFINE m == Cardinality(S)
           Off == {k \in 1 .. m : p[k] # q[k]}
<1>1. /\ m \in Nat /\ p \in [1 .. m -> S] /\ q \in [1 .. m -> S]
      /\ \A i, j \in 1 .. m : i < j => p[i] < p[j] /\ q[i] < q[j]
  BY FS_CardinalityType DEF Enumerates
<1>2. \A x \in S : \E i \in 1 .. m : p[i] = x
  BY EnumeratesAll DEF Surjection
<1>3. \A x \in S : \E i \in 1 .. m : q[i] = x
  BY EnumeratesAll DEF Surjection
<1> HIDE DEF m
<1>4. Off = {}
  <2> SUFFICES ASSUME Off # {} PROVE FALSE
    OBVIOUS
  <2>1. Off \subseteq Nat
    BY <1>1
  <2>2. PICK k \in Off : \A j \in Off : k <= j
    BY <2>1, LeastNumber
  <2>3. k \in 1 .. m /\ p[k] # q[k] /\ p[k] \in S /\ q[k] \in S
    BY <1>1
  <2>4. \A j \in 1 .. m : j < k => p[j] = q[j]
    BY <1>1, <2>2
  <2>5. p[k] \in Nat /\ q[k] \in Nat
    BY <2>3
  <2>6. CASE p[k] < q[k]
    <3>1. PICK j \in 1 .. m : q[j] = p[k]
      BY <1>3, <2>3
    <3>2. j < k
      BY <1>1, <2>3, <2>5, <2>6, <3>1
    <3> QED
      BY <1>1, <2>3, <2>4, <2>5, <3>1, <3>2
  <2>7. CASE q[k] < p[k]
    <3>1. PICK j \in 1 .. m : p[j] = q[k]
      BY <1>2, <2>3
    <3>2. j < k
      BY <1>1, <2>3, <2>5, <2>7, <3>1
    <3> QED
      BY <1>1, <2>3, <2>4, <2>5, <3>1, <3>2
  <2> QED
    BY <2>3, <2>5, <2>6, <2>7
<1> QED
  BY <1>1, <1>4

LEMMA AscendingIs ==
  ASSUME NEW S, S \subseteq Nat, IsFiniteSet(S), NEW q, Enumerates(q, S)
  PROVE  Ascending(S) = q
<1> DEFINE p == Ascending(S)
<1>1. Enumerates(p, S)
  BY DEF Ascending, Enumerates
<1> HIDE DEF p
<1>2. p = q
  BY <1>1, EnumeratesOnce
<1> QED
  BY <1>2 DEF p

LEMMA EnumeratesNone == Enumerates(<<>>, {})
<1>1. Cardinality({}) = 0
  BY FS_EmptySet
<1>2. 1 .. 0 = {} /\ <<>> \in [{} -> {}]
  OBVIOUS
<1> QED
  BY <1>1, <1>2 DEF Enumerates

\* With a smaller number in front it enumerates one element more.
LEMMA EnumeratesMore ==
  ASSUME NEW S, S \subseteq Nat, IsFiniteSet(S), NEW q, Enumerates(q, S),
         NEW s \in Nat, \A x \in S : s < x
  PROVE  /\ q \in Seq(S) /\ <<s>> \o q \in Seq({s} \cup S)
         /\ Enumerates(<<s>> \o q, {s} \cup S)
<1> DEFINE m == Cardinality(S)
           T == {s} \cup S
           sq == <<s>> \o q
<1>1. /\ m \in Nat /\ q \in [1 .. m -> S]
      /\ \A i, j \in 1 .. m : i < j => q[i] < q[j]
  BY FS_CardinalityType DEF Enumerates
<1>2. Cardinality(T) = m + 1
  <2>1. T = S \cup {s} /\ s \notin S
    OBVIOUS
  <2> QED
    BY <2>1, FS_AddElement
<1> HIDE DEF m
<1>3. q \in Seq(S) /\ Len(q) = m
  BY <1>1, FunctionIsSeq
<1>4. q \in Seq(T) /\ <<s>> \in Seq(T) /\ Len(<<s>>) = 1 /\ <<s>>[1] = s
  BY <1>3
<1>5. /\ sq \in Seq(T) /\ Len(sq) = 1 + m
      /\ \A i \in 1 .. 1 + m : sq[i] = IF i <= 1 THEN <<s>>[i] ELSE q[i - 1]
  BY <1>3, <1>4, ConcatProperties
<1>6. /\ sq[1] = s
      /\ \A i \in 2 .. m + 1 : i - 1 \in 1 .. m /\ sq[i] = q[i - 1] /\ sq[i] \in S
  <2> HIDE DEF sq
  <2>1. sq[1] = s
    BY <1>1, <1>4, <1>5
  <2>2. ASSUME NEW i \in 2 .. m + 1 PROVE i - 1 \in 1 .. m /\ sq[i] = q[i - 1] /\ sq[i] \in S
    <3>1. i - 1 \in 1 .. m /\ i \in 1 .. 1 + m /\ ~(i <= 1)
      BY <1>1
    <3>2. sq[i] = q[i - 1]
      BY <1>5, <3>1
    <3> QED
      BY <1>1, <3>1, <3>2
  <2> QED
    BY <2>1, <2>2
<1>7. sq \in [1 .. m + 1 -> T]
  <2> HIDE DEF sq, T
  <2>1. DOMAIN sq = 1 .. m + 1 /\ \A i \in 1 .. m + 1 : sq[i] \in T
    BY <1>1, <1>5, LenProperties, ElementOfSeq
  <2> QED
    BY <1>5, <2>1, LenProperties
<1>8. ASSUME NEW i \in 1 .. m + 1, NEW j \in 1 .. m + 1, i < j PROVE sq[i] < sq[j]
  <2> HIDE DEF sq
  <2>1. j \in 2 .. m + 1 /\ sq[j] \in S
    BY <1>1, <1>6, <1>8
  <2>2. CASE i = 1
    BY <1>6, <2>1, <2>2
  <2>3. CASE i # 1
    <3>1. i \in 2 .. m + 1 /\ i - 1 < j - 1
      BY <1>1, <1>8, <2>1, <2>3
    <3> QED
      BY <1>1, <1>6, <2>1, <3>1
  <2> QED
    BY <2>2, <2>3
<1> HIDE DEF sq, T
<1>9. Enumerates(sq, T)
  BY <1>2, <1>7, <1>8 DEF Enumerates
<1> QED
  BY <1>3, <1>5, <1>9 DEF sq, T

\* A set of numbers up to n has an enumeration, so Ascending is it.
LEMMA AscendingEnumerates ==
  ASSUME NEW n \in Nat, NEW S, S \subseteq 1 .. n
  PROVE  /\ IsFiniteSet(S) /\ Ascending(S) \in Seq(S)
         /\ Enumerates(Ascending(S), S)
<1> DEFINE From(k) == {x \in S : x >= k}
           Good == {k \in 1 .. n + 1 : \E q : Enumerates(q, From(k))}
<1>0. \A x \in S : x \in Nat /\ x >= 1 /\ x <= n
  OBVIOUS
<1>1. ASSUME NEW U, U \subseteq S PROVE IsFiniteSet(U) /\ U \subseteq Nat
  <2>1. IsFiniteSet(1 .. n)
    BY FS_Interval
  <2>2. U \in SUBSET (1 .. n) /\ U \subseteq Nat
    BY <1>1
  <2> QED
    BY <2>1, <2>2, FS_Subset
<1>10. /\ From(n + 1) = {}
      /\ \A k \in 1 .. n : From(k) = IF k \in S THEN {k} \cup From(k + 1) ELSE From(k + 1)
  <2>1. From(n + 1) = {}
    <3>1. ASSUME NEW x \in S PROVE ~(x >= n + 1)
      <4>1. x \in Nat /\ x <= n
        BY <1>0
      <4> QED
        BY <4>1
    <3> QED
      BY <3>1
  <2>2. ASSUME NEW k \in 1 .. n, NEW x \in S PROVE x >= k <=> x = k \/ x >= k + 1
    BY <1>0
  <2>3. ASSUME NEW k \in 1 .. n, k \in S PROVE From(k) = {k} \cup From(k + 1)
    BY <2>2, <2>3
  <2>4. ASSUME NEW k \in 1 .. n, k \notin S PROVE From(k) = From(k + 1)
    BY <2>2, <2>4
  <2> QED
    BY <2>1, <2>3, <2>4
<1>2. ASSUME NEW k \in 1 .. n + 1, \A j \in k + 1 .. n + 1 : j \in Good
      PROVE  k \in Good
  <2>1. CASE k = n + 1
    <3>1. From(k) = {}
      BY <1>10, <2>1
    <3> QED
      BY <3>1, EnumeratesNone
  <2>2. CASE k # n + 1
    <3>1. k + 1 \in k + 1 .. n + 1
      BY <2>2
    <3>2. PICK q : Enumerates(q, From(k + 1))
      BY <1>2, <3>1
    <3>3. CASE k \in S
      <4>1. From(k) = {k} \cup From(k + 1)
        BY <1>10, <2>2, <3>3
      <4>2. /\ From(k + 1) \subseteq Nat /\ IsFiniteSet(From(k + 1))
            /\ k \in Nat /\ \A x \in From(k + 1) : k < x
        BY <1>1
      <4> HIDE DEF From
      <4>3. Enumerates(<<k>> \o q, {k} \cup From(k + 1))
        BY <3>2, <4>2, EnumeratesMore
      <4>4. Enumerates(<<k>> \o q, From(k))
        BY <4>1, <4>3
      <4> QED
        BY <4>4
    <3>4. CASE k \notin S
      <4>1. From(k) = From(k + 1)
        BY <1>10, <2>2, <3>4
      <4> HIDE DEF From
      <4> QED
        BY <3>2, <4>1
    <3> QED
      BY <3>3, <3>4
  <2> QED
    BY <2>1, <2>2
<1>3. 1 \in Good
  <2> HIDE DEF Good
  <2>1. n + 1 \in Nat /\ 1 \in 1 .. n + 1
    OBVIOUS
  <2>2. \A k \in 1 .. n + 1 : k \in Good
    BY <1>2, <2>1, Descent
  <2> QED
    BY <2>1, <2>2
<1>4. From(1) = S
  BY <1>0
<1>5. PICK q : Enumerates(q, S)
  BY <1>3, <1>4
<1>6. IsFiniteSet(S) /\ S \subseteq Nat
  BY <1>1
<1>7. Ascending(S) = q
  BY <1>5, <1>6, AscendingIs
<1>8. q \in [1 .. Cardinality(S) -> S] /\ Cardinality(S) \in Nat
  BY <1>5, <1>6, FS_CardinalityType DEF Enumerates
<1>9. q \in Seq(S)
  BY <1>8, FunctionIsSeq
<1> QED
  BY <1>5, <1>6, <1>7, <1>9

\* The least number is the first.
LEMMA AscendingFirst ==
  ASSUME NEW n \in Nat, NEW S, S \subseteq 1 .. n, NEW s \in 1 .. n,
         \A x \in S : s < x
  PROVE  Ascending({s} \cup S) = <<s>> \o Ascending(S)
<1>1. IsFiniteSet(S) /\ Enumerates(Ascending(S), S)
  BY AscendingEnumerates
<1>2. Enumerates(<<s>> \o Ascending(S), {s} \cup S)
  <2>1. S \subseteq Nat /\ s \in Nat
    OBVIOUS
  <2> QED
    BY <1>1, <2>1, EnumeratesMore
<1>3. {s} \cup S \subseteq Nat /\ IsFiniteSet({s} \cup S)
  <2>1. {s} \cup S \subseteq 1 .. n
    OBVIOUS
  <2> DEFINE T == {s} \cup S
  <2> HIDE DEF T
  <2>2. IsFiniteSet(T)
    BY <2>1, AscendingEnumerates DEF T
  <2> QED
    BY <2>1, <2>2 DEF T
<1> QED
  BY <1>2, <1>3, AscendingIs

LEMMA AscendingNone == Ascending({}) = <<>>
<1>1. {} \subseteq Nat /\ IsFiniteSet({})
  BY FS_EmptySet
<1> QED
  BY <1>1, EnumeratesNone, AscendingIs

-----------------------------------------------------------------------------
(* The scanner of depfiles. *)

LEMMA AfterBounds ==
  ASSUME NEW text, Len(text) \in Nat, NEW i \in 1 .. Len(text)
  PROVE  /\ ContinuesAt(text, i) => AfterContinuation(text, i) \in i + 1 .. Len(text) + 1
         /\ AfterEscape(text, i) \in i + 1 .. Len(text) + 1
BY DEF ContinuesAt, AfterContinuation, AfterEscape

\* skipWhitespace and extractToken, position by position.
Skips(skip, text) ==
  \A i \in 1 .. Len(text) + 1 :
    skip[i] = IF i > Len(text) THEN i
              ELSE IF text[i] \in Blank THEN skip[i + 1]
              ELSE IF ContinuesAt(text, i) THEN skip[AfterContinuation(text, i)]
              ELSE i

Ends(end, text) ==
  \A i \in 1 .. Len(text) + 1 :
    end[i] = IF i > Len(text) \/ text[i] \in Blank \/ ContinuesAt(text, i) THEN i
             ELSE end[IF text[i] = Backslash THEN AfterEscape(text, i) ELSE i + 1]

LEMMA SkipRecursion ==
  ASSUME NEW text, Len(text) \in Nat
  PROVE  Skips(SkipWhitespace(text), text)
<1> DEFINE n == Len(text) + 1
           next == [k \in 1 .. n |->
                      IF k > Len(text) THEN 0
                      ELSE IF text[k] \in Blank THEN k + 1
                      ELSE IF ContinuesAt(text, k) THEN AfterContinuation(text, k)
                      ELSE 0]
           b == [k \in 1 .. n |-> k]
           s == [k \in 1 .. n |-> [u \in Nat |-> u]]
           body(f) == [i \in 1 .. Len(text) + 1 |->
                         IF i > Len(text) THEN i
                         ELSE IF text[i] \in Blank THEN f[i + 1]
                         ELSE IF ContinuesAt(text, i) THEN f[AfterContinuation(text, i)]
                         ELSE i]
           skip == CHOOSE f : f = body(f)
<1>1. n \in Nat /\ b \in [1 .. n -> Nat] /\ s \in [1 .. n -> [Nat -> Nat]]
  OBVIOUS
<1>2. next \in [1 .. n -> Nat] /\ \A k \in 1 .. n : next[k] = 0 \/ next[k] \in k + 1 .. n
  <2>1. ASSUME NEW k \in 1 .. n PROVE next[k] = 0 \/ next[k] \in k + 1 .. n
    <3>1. CASE k > Len(text)
      BY <3>1
    <3>2. CASE ~(k > Len(text))
      <4>1. k \in 1 .. Len(text) /\ k + 1 \in k + 1 .. n
        BY <3>2
      <4> QED
        BY <4>1, <3>2, AfterBounds
    <3> QED
      BY <3>1, <3>2
  <2>2. \A k \in 1 .. n : next[k] \in Nat
    <3> HIDE DEF next
    <3> QED
      BY <1>1, <2>1
  <2> QED
    BY <2>1, <2>2
<1>3. PICK f \in [1 .. n -> Nat] : Descends(f, 1, n, next, b, s)
  <2> HIDE DEF n, next, b, s
  <2> QED
    BY <1>1, <1>2, DownwardRecursion
<1>4. f = body(f)
  <2>1. ASSUME NEW k \in 1 .. n PROVE f[k] = body(f)[k]
    <3>1. f[k] = IF next[k] = 0 THEN b[k] ELSE s[k][f[next[k]]]
      BY <1>3 DEF Descends
    <3>2. next[k] # 0 => s[k][f[next[k]]] = f[next[k]]
      <4> SUFFICES ASSUME next[k] # 0 PROVE s[k][f[next[k]]] = f[next[k]]
        OBVIOUS
      <4>1. next[k] \in 1 .. n
        <5> HIDE DEF next
        <5> QED
          BY <1>1, <1>2
      <4>2. f[next[k]] \in Nat
        <5> HIDE DEF next
        <5> QED
          BY <1>3, <4>1
      <4> HIDE DEF next
      <4> QED
        BY <4>2
    <3>3. f[k] = IF next[k] = 0 THEN k ELSE f[next[k]]
      <4> HIDE DEF next, s
      <4> QED
        BY <3>1, <3>2
    <3>4. CASE k > Len(text)
      BY <3>3, <3>4
    <3>5. CASE ~(k > Len(text))
      <4>1. k \in 1 .. Len(text) /\ k + 1 # 0
        BY <3>5
      <4>2. ContinuesAt(text, k) => AfterContinuation(text, k) # 0
        BY <4>1, AfterBounds
      <4> QED
        BY <3>3, <3>5, <4>1, <4>2
    <3> QED
      BY <3>4, <3>5
  <2>2. DOMAIN f = 1 .. n /\ f = [k \in 1 .. n |-> f[k]]
    BY <1>3
  <2>3. body(f) = [k \in 1 .. n |-> body(f)[k]]
    OBVIOUS
  <2> HIDE DEF body, n
  <2> QED
    BY <2>1, <2>2, <2>3
<1>5. skip = body(skip)
  <2> HIDE DEF body
  <2> QED
    BY <1>4
<1>6. SkipWhitespace(text) = skip
  BY DEF SkipWhitespace
<1> HIDE DEF skip
<1>7. Skips(skip, text)
  BY <1>5 DEF Skips
<1> QED
  BY <1>6, <1>7

LEMMA EndRecursion ==
  ASSUME NEW text, Len(text) \in Nat
  PROVE  Ends(TokenEnd(text), text)
<1> DEFINE n == Len(text) + 1
           stops(k) == k > Len(text) \/ text[k] \in Blank \/ ContinuesAt(text, k)
           after(k) == IF text[k] = Backslash THEN AfterEscape(text, k) ELSE k + 1
           next == [k \in 1 .. n |-> IF stops(k) THEN 0 ELSE after(k)]
           b == [k \in 1 .. n |-> k]
           s == [k \in 1 .. n |-> [u \in Nat |-> u]]
           body(f) == [i \in 1 .. Len(text) + 1 |->
                         IF i > Len(text) \/ text[i] \in Blank \/ ContinuesAt(text, i) THEN i
                         ELSE f[IF text[i] = Backslash THEN AfterEscape(text, i) ELSE i + 1]]
           end == CHOOSE f : f = body(f)
<1>0. ASSUME NEW k \in 1 .. n, ~stops(k) PROVE after(k) \in k + 1 .. n
  <2>1. k \in 1 .. Len(text) /\ k + 1 \in k + 1 .. n
    BY <1>0
  <2> QED
    BY <2>1, AfterBounds
<1>1. n \in Nat /\ b \in [1 .. n -> Nat] /\ s \in [1 .. n -> [Nat -> Nat]]
  OBVIOUS
<1>8. ASSUME NEW f PROVE body(f) = [k \in 1 .. n |-> IF stops(k) THEN k ELSE f[after(k)]]
  OBVIOUS
<1> HIDE DEF stops, after
<1>2. next \in [1 .. n -> Nat] /\ \A k \in 1 .. n : next[k] = 0 \/ next[k] \in k + 1 .. n
  <2>1. ASSUME NEW k \in 1 .. n PROVE next[k] = 0 \/ next[k] \in k + 1 .. n
    BY <1>0
  <2>2. \A k \in 1 .. n : next[k] \in Nat
    <3> HIDE DEF next
    <3> QED
      BY <1>1, <2>1
  <2> QED
    BY <2>1, <2>2
<1>3. PICK f \in [1 .. n -> Nat] : Descends(f, 1, n, next, b, s)
  <2> HIDE DEF n, next, b, s
  <2> QED
    BY <1>1, <1>2, DownwardRecursion
<1>4. f = body(f)
  <2>1. ASSUME NEW k \in 1 .. n PROVE f[k] = IF stops(k) THEN k ELSE f[after(k)]
    <3>1. f[k] = IF next[k] = 0 THEN b[k] ELSE s[k][f[next[k]]]
      BY <1>3 DEF Descends
    <3>2. CASE stops(k)
      BY <3>1, <3>2
    <3>3. CASE ~stops(k)
      <4>1. next[k] = after(k) /\ after(k) \in k + 1 .. n
        BY <1>0, <3>3
      <4>2. after(k) \in 1 .. n /\ after(k) # 0
        <5> HIDE DEF next
        <5> QED
          BY <1>1, <4>1
      <4>3. f[after(k)] \in Nat
        BY <1>3, <4>2
      <4>4. s[k][f[after(k)]] = f[after(k)]
        BY <4>3
      <4> HIDE DEF next, s
      <4> QED
        BY <3>1, <3>3, <4>1, <4>2, <4>4
    <3> QED
      BY <3>2, <3>3
  <2>2. DOMAIN f = 1 .. n /\ f = [k \in 1 .. n |-> f[k]]
    BY <1>3
  <2>3. f = [k \in 1 .. n |-> IF stops(k) THEN k ELSE f[after(k)]]
    <3> HIDE DEF n
    <3> QED
      BY <2>1, <2>2
  <2> HIDE DEF body, n
  <2> QED
    BY <2>3, <1>8
<1>5. end = body(end)
  <2> HIDE DEF body
  <2> QED
    BY <1>4
<1>6. TokenEnd(text) = end
  BY DEF TokenEnd
<1> HIDE DEF end
<1>7. Ends(end, text)
  BY <1>5 DEF Ends
<1> QED
  BY <1>6, <1>7

\* A backslash adds one to the backslashes before the next character; any
\* other character leaves none.
LEMMA BackslashCounts ==
  ASSUME NEW text, NEW from \in Nat, NEW i \in Nat, i > from
  PROVE  /\ BackslashesBefore(text, from, i) \in Nat
         /\ BackslashesBefore(text, from, from + 1) = 0
         /\ BackslashesBefore(text, from, i + 1) =
              IF text[i] = Backslash THEN BackslashesBefore(text, from, i) + 1 ELSE 0
<1> DEFINE Run(k) == {j \in from + 1 .. k - 1 : \A l \in j .. k - 1 : text[l] = Backslash}
<1>1. ASSUME NEW k \in Nat PROVE IsFiniteSet(Run(k))
  <2>1. IsFiniteSet(from + 1 .. k - 1)
    BY FS_Interval
  <2>2. Run(k) \in SUBSET (from + 1 .. k - 1)
    OBVIOUS
  <2> HIDE DEF Run
  <2> QED
    BY <2>1, <2>2, FS_Subset
<1>2. Run(from + 1) = {}
  OBVIOUS
<1>3. CASE text[i] = Backslash
  <2>1. Run(i + 1) = Run(i) \cup {i}
    <3>1. \A j \in from + 1 .. i : j \in Run(i + 1) <=> j \in Run(i) \cup {i}
      BY <1>3
    <3> QED
      BY <3>1
  <2>2. i \notin Run(i)
    OBVIOUS
  <2> HIDE DEF Run
  <2>3. Cardinality(Run(i + 1)) = Cardinality(Run(i)) + 1
    BY <1>1, <2>1, <2>2, FS_AddElement
  <2> QED
    BY <1>1, <1>2, <1>3, <2>3, FS_EmptySet, FS_CardinalityType DEF BackslashesBefore, Run
<1>4. CASE text[i] # Backslash
  <2>1. Run(i + 1) = {}
    <3>1. ASSUME NEW j \in Run(i + 1) PROVE FALSE
      <4>1. i \in j .. i + 1 - 1
        OBVIOUS
      <4> QED
        BY <4>1, <1>4
    <3> QED
      BY <3>1
  <2> HIDE DEF Run
  <2> QED
    BY <1>1, <1>2, <1>4, <2>1, FS_EmptySet, FS_CardinalityType DEF BackslashesBefore, Run
<1> QED
  BY <1>3, <1>4

\* The positions where a scan that is not behind a backslash may be, and those
\* of the characters of names, after position from.
Scan(text, from) ==
  {i \in from + 1 .. Len(text) : BackslashesBefore(text, from, i) % 2 = 0}
    \cup {Len(text) + 1}
Named(text, from) == {i \in from + 1 .. Len(text) : InName(text, from, i)}

LEMMA ScanSteps ==
  ASSUME NEW text, Len(text) \in Nat, NEW from \in 0 .. Len(text)
  PROVE  /\ from + 1 \in Scan(text, from)
         /\ \A i \in from + 1 .. Len(text) :
              /\ i + 1 \in Scan(text, from) <=>
                   i = Len(text) \/ text[i] # Backslash \/ i \notin Scan(text, from)
              /\ i \in Named(text, from) <=>
                   IF i \in Scan(text, from)
                     THEN text[i] \notin Blank /\ ~ContinuesAt(text, i)
                     ELSE text[i] \notin LineEnd
<1> DEFINE n == Len(text)
           B(i) == BackslashesBefore(text, from, i)
<1>1. \A i \in Nat : i > from => B(i) \in Nat
  BY BackslashCounts
<1>2. B(from + 1) = 0
  BY BackslashCounts
<1>3. \A i \in Nat : i > from => B(i + 1) = IF text[i] = Backslash THEN B(i) + 1 ELSE 0
  BY BackslashCounts
<1> HIDE DEF B
<1>4. from + 1 \in Scan(text, from)
  <2>1. CASE from = n
    BY <2>1 DEF Scan
  <2>2. CASE from # n
    <3>1. from + 1 \in from + 1 .. n /\ B(from + 1) % 2 = 0
      BY <1>2, <2>2
    <3> QED
      BY <3>1 DEF Scan, B
  <2> QED
    BY <2>1, <2>2
<1>5. ASSUME NEW i \in from + 1 .. n
      PROVE  /\ i + 1 \in Scan(text, from) <=>
                  i = n \/ text[i] # Backslash \/ i \notin Scan(text, from)
             /\ i \in Named(text, from) <=>
                  IF i \in Scan(text, from)
                    THEN text[i] \notin Blank /\ ~ContinuesAt(text, i)
                    ELSE text[i] \notin LineEnd
  <2>1. i \in Scan(text, from) <=> B(i) % 2 = 0
    BY DEF Scan, B
  <2>2. B(i) \in Nat /\ B(i + 1) = IF text[i] = Backslash THEN B(i) + 1 ELSE 0
    BY <1>1, <1>3
  <2>3. i # n => (i + 1 \in Scan(text, from) <=> B(i + 1) % 2 = 0)
    BY DEF Scan, B
  <2>4. B(i + 1) % 2 = 0 <=> text[i] # Backslash \/ ~(B(i) % 2 = 0)
    <3>1. (B(i) + 1) % 2 = 0 <=> ~(B(i) % 2 = 0)
      BY <2>2
    <3> QED
      BY <2>2, <3>1
  <2>5. i = n => i + 1 \in Scan(text, from)
    BY DEF Scan
  <2>6. B(i) % 2 = 1 <=> ~(B(i) % 2 = 0)
    BY <2>2
  <2>7. i \in Named(text, from) <=>
          IF B(i) % 2 = 1 THEN text[i] \notin LineEnd
          ELSE text[i] \notin Blank /\ ~ContinuesAt(text, i)
    BY DEF Named, InName, B
  <2> QED
    BY <2>1, <2>3, <2>4, <2>5, <2>6, <2>7
<1> QED
  BY <1>4, <1>5

\* skipWhitespace passes no character of a name and stops at one.
LEMMA SkipsNoName ==
  ASSUME NEW text, Len(text) \in Nat, NEW from \in 0 .. Len(text), NEW skip, Skips(skip, text),
         NEW i \in Scan(text, from)
  PROVE  /\ skip[i] \in Scan(text, from) /\ skip[i] \in i .. Len(text) + 1
         /\ \A j \in i .. skip[i] - 1 : j \notin Named(text, from)
         /\ skip[i] = Len(text) + 1 \/ skip[i] \in Named(text, from)
<1> DEFINE n == Len(text)
           A == Scan(text, from)
           N == Named(text, from)
           Fine(k) == /\ skip[k] \in A /\ skip[k] \in k .. n + 1
                      /\ \A j \in k .. skip[k] - 1 : j \notin N
                      /\ skip[k] = n + 1 \/ skip[k] \in N
           Good == {k \in 1 .. n + 1 : k \in A => Fine(k)}
<1>0. \A k \in A : k \in from + 1 .. n + 1
  BY DEF Scan
<1>1. \A k \in A : k # n + 1 =>
        /\ k + 1 \in A <=> k = n \/ text[k] # Backslash
        /\ k \in N <=> text[k] \notin Blank /\ ~ContinuesAt(text, k)
  BY <1>0, ScanSteps
<1>2. \A k \in from + 1 .. n : k \notin A =>
        k + 1 \in A /\ (k \in N <=> text[k] \notin LineEnd)
  BY ScanSteps
<1>3. Backslash \notin Blank /\ LineEnd \subseteq Blank
  BY LexerAssumption DEF Blank, LineEnd
<1>4. ASSUME NEW k \in 1 .. n + 1, \A j \in k + 1 .. n + 1 : j \in Good PROVE k \in Good
  <2> SUFFICES ASSUME k \in A PROVE Fine(k)
    OBVIOUS
  <2>0. skip[k] = IF k > n THEN k
                  ELSE IF text[k] \in Blank THEN skip[k + 1]
                  ELSE IF ContinuesAt(text, k) THEN skip[AfterContinuation(text, k)]
                  ELSE k
    BY DEF Skips
  <2>1. ASSUME NEW j \in k + 1 .. n + 1, j \in A, skip[k] = skip[j],
               \A l \in k .. j - 1 : l \notin N
        PROVE  Fine(k)
    <3>1. Fine(j)
      BY <1>4, <2>1
    <3>2. skip[j] \in k .. n + 1
      BY <3>1
    <3>3. ASSUME NEW l \in k .. skip[j] - 1 PROVE l \notin N
      <4>1. CASE l < j
        <5>1. l \in k .. j - 1
          BY <4>1
        <5> QED
          BY <2>1, <5>1
      <4>2. CASE ~(l < j)
        <5>1. l \in j .. skip[j] - 1
          BY <3>2, <4>2
        <5> QED
          BY <3>1, <5>1
      <4> QED
        BY <4>1, <4>2
    <3> HIDE DEF A, N
    <3> QED
      BY <2>1, <3>1, <3>2, <3>3
  <2> HIDE DEF Good, A, N
  <2>2. CASE k > n
    <3>1. k = n + 1 /\ skip[k] = k
      BY <2>0, <2>2
    <3> QED
      BY <3>1
  <2>3. CASE k <= n /\ text[k] \in Blank
    <3>1. k # n + 1 /\ k \in 1 .. n /\ ~(k > n)
      BY <2>3
    <3>2. text[k] # Backslash /\ k \notin N /\ k + 1 \in A
      BY <1>1, <1>3, <2>3, <3>1
    <3>3. skip[k] = skip[k + 1]
      BY <2>0, <2>3, <3>1
    <3>4. k + 1 \in k + 1 .. n + 1 /\ \A l \in k .. (k + 1) - 1 : l = k
      BY <3>1
    <3> HIDE DEF Fine
    <3> QED
      BY <2>1, <3>2, <3>3, <3>4
  <2>4. CASE k <= n /\ text[k] \notin Blank /\ ContinuesAt(text, k)
    <3> DEFINE a == AfterContinuation(text, k)
    <3>1. /\ k \in 1 .. n /\ k < n /\ k # n + 1 /\ k # n /\ ~(k > n)
          /\ text[k] = Backslash /\ text[k + 1] \in LineEnd
      BY <2>4 DEF ContinuesAt
    <3>2. k \notin N /\ k + 1 \notin A
      BY <1>1, <2>4, <3>1
    <3>3. k + 1 \in from + 1 .. n /\ (k + 1) + 1 = k + 2
      BY <1>0, <3>1
    <3>4. k + 1 \notin N /\ k + 2 \in A
      BY <1>2, <3>1, <3>2, <3>3
    <3>5. skip[k] = skip[a]
      BY <2>0, <2>4, <3>1
    <3>6. CASE text[k + 1] = Return /\ k + 2 <= n /\ text[k + 2] = Newline
      <4>1. a = k + 3
        BY <3>6 DEF AfterContinuation
      <4>2. k + 2 # n + 1 /\ (k + 2) + 1 = k + 3 /\ text[k + 2] \in Blank
        BY <3>1, <3>6 DEF Blank
      <4>3. k + 2 \notin N /\ k + 3 \in A
        BY <1>1, <1>3, <3>4, <4>2
      <4>4. k + 3 \in k + 1 .. n + 1 /\ \A l \in k .. (k + 3) - 1 : l = k \/ l = k + 1 \/ l = k + 2
        BY <3>6
      <4> HIDE DEF Fine, a
      <4> QED
        BY <2>1, <3>2, <3>4, <3>5, <4>1, <4>3, <4>4
    <3>7. CASE ~(text[k + 1] = Return /\ k + 2 <= n /\ text[k + 2] = Newline)
      <4>1. a = k + 2
        BY <3>7 DEF AfterContinuation
      <4>2. k + 2 \in k + 1 .. n + 1 /\ \A l \in k .. (k + 2) - 1 : l = k \/ l = k + 1
        BY <3>1
      <4> HIDE DEF Fine, a
      <4> QED
        BY <2>1, <3>2, <3>4, <3>5, <4>1, <4>2
    <3> QED
      BY <3>6, <3>7
  <2>5. CASE k <= n /\ text[k] \notin Blank /\ ~ContinuesAt(text, k)
    <3>1. k # n + 1 /\ ~(k > n)
      BY <2>5
    <3>2. skip[k] = k /\ k \in N
      BY <1>1, <2>0, <2>5, <3>1
    <3> QED
      BY <3>2
  <2> QED
    BY <2>2, <2>3, <2>4, <2>5
<1>5. i \in Good
  <2> HIDE DEF Good
  <2>1. n + 1 \in Nat /\ i \in 1 .. n + 1
    BY <1>0
  <2>2. \A k \in 1 .. n + 1 : k \in Good
    BY <1>4, <2>1, Descent
  <2> QED
    BY <2>1, <2>2
<1> QED
  BY <1>5

\* extractToken takes characters of a name only and stops after the last.
LEMMA EndsName ==
  ASSUME NEW text, Len(text) \in Nat, NEW from \in 0 .. Len(text), NEW end, Ends(end, text),
         NEW i \in Scan(text, from)
  PROVE  /\ end[i] \in Scan(text, from) /\ end[i] \in i .. Len(text) + 1
         /\ i .. end[i] - 1 \subseteq Named(text, from)
         /\ end[i] \notin Named(text, from)
<1> DEFINE n == Len(text)
           A == Scan(text, from)
           N == Named(text, from)
           Fine(k) == /\ end[k] \in A /\ end[k] \in k .. n + 1
                      /\ \A j \in k .. end[k] - 1 : j \in N
                      /\ end[k] \notin N
           Good == {k \in 1 .. n + 1 : k \in A => Fine(k)}
<1>0. n + 1 \in A /\ n + 1 \notin N /\ \A k \in A : k \in from + 1 .. n + 1
  BY DEF Scan, Named
<1>1. \A k \in A : k # n + 1 =>
        /\ k + 1 \in A <=> k = n \/ text[k] # Backslash
        /\ k \in N <=> text[k] \notin Blank /\ ~ContinuesAt(text, k)
  BY <1>0, ScanSteps
<1>2. \A k \in from + 1 .. n : k \notin A =>
        k + 1 \in A /\ (k \in N <=> text[k] \notin LineEnd)
  BY ScanSteps
<1>4. ASSUME NEW k \in 1 .. n + 1, \A j \in k + 1 .. n + 1 : j \in Good PROVE k \in Good
  <2> SUFFICES ASSUME k \in A PROVE Fine(k)
    OBVIOUS
  <2> DEFINE stops == k > n \/ text[k] \in Blank \/ ContinuesAt(text, k)
             after == IF text[k] = Backslash THEN AfterEscape(text, k) ELSE k + 1
  <2>0. end[k] = IF stops THEN k ELSE end[after]
    BY DEF Ends
  <2>1. ASSUME NEW j \in k + 1 .. n + 1, j \in A, end[k] = end[j],
               \A l \in k .. j - 1 : l \in N
        PROVE  Fine(k)
    <3>1. Fine(j)
      BY <1>4, <2>1
    <3>2. end[j] \in k .. n + 1
      BY <3>1
    <3>3. ASSUME NEW l \in k .. end[j] - 1 PROVE l \in N
      <4>1. CASE l < j
        <5>1. l \in k .. j - 1
          BY <4>1
        <5> QED
          BY <2>1, <5>1
      <4>2. CASE ~(l < j)
        <5>1. l \in j .. end[j] - 1
          BY <3>2, <4>2
        <5> QED
          BY <3>1, <5>1
      <4> QED
        BY <4>1, <4>2
    <3> HIDE DEF A, N
    <3> QED
      BY <2>1, <3>1, <3>2, <3>3
  <2> HIDE DEF Good, A, N
  <2>2. CASE stops
    <3>1. end[k] = k
      BY <2>0, <2>2
    <3>2. k \notin N
      <4>1. CASE k = n + 1
        BY <1>0, <4>1
      <4>2. CASE k # n + 1
        BY <1>1, <2>2, <4>2
      <4> QED
        BY <4>1, <4>2
    <3> QED
      BY <3>1, <3>2
  <2>3. CASE ~stops /\ text[k] # Backslash
    <3>1. k # n + 1 /\ k \in 1 .. n
      BY <2>3
    <3>2. k \in N /\ k + 1 \in A
      BY <1>1, <2>3, <3>1
    <3>3. end[k] = end[k + 1]
      BY <2>0, <2>3
    <3>4. k + 1 \in k + 1 .. n + 1 /\ \A l \in k .. (k + 1) - 1 : l = k
      BY <3>1
    <3> HIDE DEF Fine, stops, after
    <3> QED
      BY <2>1, <3>2, <3>3, <3>4
  <2>4. CASE ~stops /\ text[k] = Backslash
    <3>1. k # n + 1 /\ k \in 1 .. n /\ end[k] = end[AfterEscape(text, k)]
      BY <2>0, <2>4
    <3>2. k \in N
      BY <1>1, <2>4, <3>1
    <3>3. CASE k = n
      <4>1. AfterEscape(text, k) = k + 1 /\ k + 1 = n + 1
        BY <3>3 DEF AfterEscape
      <4>2. k + 1 \in k + 1 .. n + 1 /\ \A l \in k .. (k + 1) - 1 : l = k
        BY <3>1
      <4> HIDE DEF Fine, stops, after
      <4> QED
        BY <1>0, <2>1, <3>1, <3>2, <4>1, <4>2
    <3>4. CASE k # n
      <4>1. AfterEscape(text, k) = k + 2
        BY <3>4 DEF AfterEscape
      <4>2. k + 1 \notin A
        BY <1>1, <2>4, <3>1, <3>4
      <4>3. k + 1 \in from + 1 .. n /\ (k + 1) + 1 = k + 2
        BY <1>0, <3>1, <3>4
      <4>4. text[k + 1] \notin LineEnd
        BY <2>4, <3>1, <3>4 DEF ContinuesAt
      <4>5. k + 1 \in N /\ k + 2 \in A
        BY <1>2, <4>2, <4>3, <4>4
      <4>6. k + 2 \in k + 1 .. n + 1 /\ \A l \in k .. (k + 2) - 1 : l = k \/ l = k + 1
        BY <3>1, <3>4
      <4> HIDE DEF Fine, stops, after
      <4> QED
        BY <2>1, <3>1, <3>2, <4>1, <4>5, <4>6
    <3> QED
      BY <3>3, <3>4
  <2> QED
    BY <2>2, <2>3, <2>4
<1>5. i \in Good
  <2> HIDE DEF Good
  <2>1. n + 1 \in Nat /\ i \in 1 .. n + 1
    BY <1>0
  <2>2. \A k \in 1 .. n + 1 : k \in Good
    BY <1>4, <2>1, Descent
  <2> QED
    BY <2>1, <2>2
<1> QED
  BY <1>5

LEMMA NameType ==
  ASSUME NEW T, NEW text \in Seq(T), NEW i \in 1 .. Len(text), NEW j \in i .. Len(text)
  PROVE  NameOf(SubSeq(text, i, j)) \in T \cup Seq(T)
<1>1. Len(text) \in Nat /\ \A k \in i .. j : text[k] \in T
  BY LenProperties, ElementOfSeq
<1>2. SubSeq(text, i, j) \in Seq(T) /\ Len(SubSeq(text, i, j)) = j - i + 1
  BY <1>1, SubSeqProperties
<1>3. Len(SubSeq(text, i, j)) = 1 => SubSeq(text, i, j)[1] \in T
  BY <1>2, ElementOfSeq
<1> QED
  BY <1>2, <1>3 DEF NameOf

\* Where a token that is not at the end begins and ends.
LEMMA TokenBounds ==
  ASSUME NEW text, Len(text) \in Nat, NEW skip, Skips(skip, text), NEW end, Ends(end, text),
         NEW i \in 1 .. Len(text) + 1
  PROVE  /\ skip[i] \in i .. Len(text) + 1
         /\ skip[i] <= Len(text) => end[skip[i]] \in skip[i] + 1 .. Len(text) + 1
<1> DEFINE n == Len(text)
           k == skip[i]
<1>1. i - 1 \in 0 .. n /\ (i - 1) + 1 = i
  OBVIOUS
<1>2. i \in Scan(text, i - 1)
  BY <1>1, ScanSteps
<1>3. k \in Scan(text, i - 1) /\ k \in i .. n + 1 /\ (k = n + 1 \/ k \in Named(text, i - 1))
  BY <1>1, <1>2, SkipsNoName
<1>4. end[k] \in k .. n + 1 /\ end[k] \notin Named(text, i - 1)
  BY <1>1, <1>3, EndsName
<1>5. k <= n => end[k] # k
  BY <1>3, <1>4
<1> HIDE DEF k
<1> QED
  BY <1>3, <1>4, <1>5 DEF k

\* The loop of parseDepfile, from each position.
Lists(tokens, text, skip, end) ==
  \A i \in 1 .. Len(text) + 1 :
    tokens[i] = IF skip[i] > Len(text) THEN <<>>
                ELSE <<NameOf(SubSeq(text, skip[i], end[skip[i]] - 1))>>
                       \o tokens[end[skip[i]]]

\* What parseDepfile returns of it.
Parses(tokens, text) ==
  LET colons == {i \in DOMAIN text : text[i] = Colon}
  IN  ParseDepfile(text) = IF colons = {} THEN <<>> ELSE tokens[Min(colons) + 1]

LEMMA ListRecursion ==
  ASSUME NEW T, NEW text \in Seq(T), NEW skip, skip = SkipWhitespace(text),
         NEW end, end = TokenEnd(text)
  PROVE  \E tokens \in [1 .. Len(text) + 1 -> Seq(T \cup Seq(T))] :
           Lists(tokens, text, skip, end) /\ Parses(tokens, text)
<1> DEFINE n == Len(text) + 1
           U == T \cup Seq(T)
           name(k) == NameOf(SubSeq(text, skip[k], end[skip[k]] - 1))
           next == [k \in 1 .. n |-> IF skip[k] > Len(text) THEN 0 ELSE end[skip[k]]]
           b == [k \in 1 .. n |-> <<>>]
           s == [k \in 1 .. n |-> [u \in Seq(U) |->
                   IF skip[k] > Len(text) THEN u ELSE <<name(k)>> \o u]]
           body(f) == [i \in 1 .. Len(text) + 1 |->
                         IF skip[i] > Len(text) THEN <<>>
                         ELSE <<NameOf(SubSeq(text, skip[i], end[skip[i]] - 1))>>
                                \o f[end[skip[i]]]]
           tokens == CHOOSE f : f = body(f)
<1>0. Len(text) \in Nat
  BY LenProperties
<1>1. Skips(skip, text) /\ Ends(end, text)
  BY <1>0, SkipRecursion, EndRecursion
<1>2. ASSUME NEW k \in 1 .. n
      PROVE  /\ skip[k] \in k .. n
             /\ skip[k] <= Len(text) => end[skip[k]] \in skip[k] + 1 .. n
  BY <1>0, <1>1, TokenBounds
<1>3. ASSUME NEW k \in 1 .. n, ~(skip[k] > Len(text)) PROVE name(k) \in U
  <2>1. skip[k] \in 1 .. Len(text) /\ end[skip[k]] - 1 \in skip[k] .. Len(text)
    BY <1>0, <1>2, <1>3
  <2> QED
    BY <2>1, NameType
<1> HIDE DEF U, name
<1>4. n \in Nat /\ b \in [1 .. n -> Seq(U)]
  BY <1>0
<1>5. s \in [1 .. n -> [Seq(U) -> Seq(U)]]
  <2>1. ASSUME NEW k \in 1 .. n, NEW u \in Seq(U), ~(skip[k] > Len(text))
        PROVE  <<name(k)>> \o u \in Seq(U)
    <3>1. <<name(k)>> \in Seq(U)
      BY <1>3, <2>1
    <3> QED
      BY <3>1, ConcatProperties
  <2> QED
    BY <2>1
<1>6. next \in [1 .. n -> Nat] /\ \A k \in 1 .. n : next[k] = 0 \/ next[k] \in k + 1 .. n
  <2>1. ASSUME NEW k \in 1 .. n PROVE next[k] = 0 \/ next[k] \in k + 1 .. n
    <3>1. CASE skip[k] > Len(text)
      BY <3>1
    <3>2. CASE ~(skip[k] > Len(text))
      <4>1. end[skip[k]] \in k + 1 .. n
        BY <1>0, <1>2, <3>2
      <4> QED
        BY <3>2, <4>1
    <3> QED
      BY <3>1, <3>2
  <2>2. \A k \in 1 .. n : next[k] \in Nat
    <3> HIDE DEF next
    <3> QED
      BY <1>4, <2>1
  <2> QED
    BY <2>1, <2>2
<1>7. PICK f \in [1 .. n -> Seq(U)] : Descends(f, 1, n, next, b, s)
  <2> HIDE DEF n, next, b, s
  <2> QED
    BY <1>4, <1>5, <1>6, DownwardRecursion
<1>8. ASSUME NEW k \in 1 .. n
      PROVE  f[k] = IF skip[k] > Len(text) THEN <<>> ELSE <<name(k)>> \o f[end[skip[k]]]
  <2>1. f[k] = IF next[k] = 0 THEN b[k] ELSE s[k][f[next[k]]]
    BY <1>7 DEF Descends
  <2>2. CASE skip[k] > Len(text)
    <3>1. next[k] = 0 /\ b[k] = <<>>
      BY <2>2
    <3> QED
      BY <2>1, <2>2, <3>1
  <2>3. CASE ~(skip[k] > Len(text))
    <3>1. next[k] = end[skip[k]] /\ end[skip[k]] \in 1 .. n /\ end[skip[k]] # 0
      BY <1>0, <1>2, <2>3
    <3>2. f[end[skip[k]]] \in Seq(U)
      BY <1>7, <3>1
    <3>3. s[k][f[end[skip[k]]]] = <<name(k)>> \o f[end[skip[k]]]
      BY <2>3, <3>2
    <3> HIDE DEF s, next, b
    <3> QED
      BY <2>1, <2>3, <3>1, <3>3
  <2> QED
    BY <2>2, <2>3
<1>9. ASSUME NEW g PROVE body(g) = [k \in 1 .. n |->
        IF skip[k] > Len(text) THEN <<>> ELSE <<name(k)>> \o g[end[skip[k]]]]
  BY DEF name
<1>10. f = body(f)
  <2>1. f = [k \in 1 .. n |-> f[k]]
    BY <1>7
  <2>2. f = [k \in 1 .. n |->
          IF skip[k] > Len(text) THEN <<>> ELSE <<name(k)>> \o f[end[skip[k]]]]
    <3> HIDE DEF n
    <3> QED
      BY <1>8, <2>1
  <2> HIDE DEF body
  <2> QED
    BY <1>9, <2>2
<1>11. tokens = body(tokens)
  <2> HIDE DEF body
  <2> QED
    BY <1>10
<1>12. ParseDepfile(text) = LET colons == {i \in DOMAIN text : text[i] = Colon}
                            IN  IF colons = {} THEN <<>> ELSE tokens[Min(colons) + 1]
  BY DEF ParseDepfile
<1>13. tokens = [k \in 1 .. n |->
          IF skip[k] > Len(text) THEN <<>> ELSE <<name(k)>> \o tokens[end[skip[k]]]]
  <2> HIDE DEF body, tokens
  <2> QED
    BY <1>9, <1>11
<1> HIDE DEF tokens
<1>14. \A k \in 1 .. n : tokens[k] = f[k]
  <2> DEFINE Same == {k \in 1 .. n : tokens[k] = f[k]}
  <2>1. ASSUME NEW k \in 1 .. n, \A j \in k + 1 .. n : j \in Same PROVE k \in Same
    <3>1. tokens[k] = IF skip[k] > Len(text) THEN <<>> ELSE <<name(k)>> \o tokens[end[skip[k]]]
      BY <1>13
    <3>2. ~(skip[k] > Len(text)) => end[skip[k]] \in k + 1 .. n
      BY <1>0, <1>2
    <3>3. ~(skip[k] > Len(text)) => tokens[end[skip[k]]] = f[end[skip[k]]]
      BY <2>1, <3>2
    <3> QED
      BY <1>8, <3>1, <3>3
  <2>2. \A k \in 1 .. n : k \in Same
    <3> HIDE DEF Same, n
    <3> QED
      BY <1>4, <2>1, Descent
  <2> QED
    BY <2>2
<1>15. tokens \in [1 .. n -> Seq(U)]
  <2>1. DOMAIN tokens = 1 .. n /\ tokens = [k \in 1 .. n |-> tokens[k]]
    BY <1>13
  <2> HIDE DEF n
  <2> QED
    BY <1>7, <1>14, <2>1
<1>16. Lists(tokens, text, skip, end)
  BY <1>13 DEF Lists, name
<1>17. Parses(tokens, text)
  BY <1>12 DEF Parses
<1> QED
  BY <1>15, <1>16, <1>17 DEF U

\* What a sequence of numbers stands for, and with one more in front.
Spelled(g, q) == [k \in DOMAIN q |-> g[q[k]]]

Extends(g, x, q) == Spelled(g, <<x>> \o q) = <<g[x]>> \o Spelled(g, q)

LEMMA SpelledMore ==
  ASSUME NEW W, NEW U, NEW g \in [W -> U], NEW q \in Seq(W), NEW x \in W
  PROVE  Extends(g, x, q)
<1> DEFINE t == <<x>> \o q
<1>1. <<x>> \in Seq(W) /\ Len(<<x>>) = 1 /\ <<x>>[1] = x /\ Len(q) \in Nat
  BY LenProperties
<1>2. /\ t \in Seq(W) /\ Len(t) = 1 + Len(q)
      /\ \A i \in 1 .. 1 + Len(q) : t[i] = IF i <= 1 THEN <<x>>[i] ELSE q[i - 1]
  BY <1>1, ConcatProperties
<1> HIDE DEF t
<1>3. ASSUME NEW r \in Seq(W) PROVE /\ Spelled(g, r) \in Seq(U) /\ Len(Spelled(g, r)) = Len(r)
                                    /\ \A i \in 1 .. Len(r) : Spelled(g, r)[i] = g[r[i]]
  <2>1. DOMAIN r = 1 .. Len(r) /\ \A i \in DOMAIN r : r[i] \in W
    BY LenProperties, ElementOfSeq
  <2>2. Spelled(g, r) \in [DOMAIN r -> U]
    BY <2>1 DEF Spelled
  <2>3. Spelled(g, r) \in Seq(U) /\ Len(Spelled(g, r)) = Len(r)
    BY <2>2, MappedSeq
  <2> QED
    BY <2>1, <2>3 DEF Spelled
<1> DEFINE l == Spelled(g, t)
           v == Spelled(g, q)
           r == <<g[x]>> \o v
<1>4. v \in Seq(U) /\ Len(v) = Len(q) /\ \A i \in 1 .. Len(q) : v[i] = g[q[i]]
  BY <1>3
<1>5. l \in Seq(U) /\ Len(l) = 1 + Len(q) /\ \A i \in 1 .. 1 + Len(q) : l[i] = g[t[i]]
  BY <1>2, <1>3
<1> HIDE DEF v, l
<1>6. <<g[x]>> \in Seq(U) /\ Len(<<g[x]>>) = 1 /\ <<g[x]>>[1] = g[x]
  OBVIOUS
<1>7. /\ r \in Seq(U) /\ Len(r) = 1 + Len(q)
      /\ \A i \in 1 .. 1 + Len(q) : r[i] = IF i <= 1 THEN <<g[x]>>[i] ELSE v[i - 1]
  BY <1>4, <1>6, ConcatProperties
<1> HIDE DEF r
<1>8. ASSUME NEW i \in 1 .. Len(l) PROVE l[i] = r[i]
  <2>0. i \in 1 .. 1 + Len(q)
    BY <1>5
  <2>1. CASE i = 1
    BY <1>1, <1>2, <1>5, <1>6, <1>7, <2>0, <2>1
  <2>2. CASE i # 1
    <3>1. ~(i <= 1) /\ i - 1 \in 1 .. Len(q)
      BY <1>1, <2>0, <2>2
    <3> QED
      BY <1>2, <1>4, <1>5, <1>7, <2>0, <3>1
  <2> QED
    BY <2>1, <2>2
<1>9. l = r
  BY <1>5, <1>7, <1>8, SeqEqual
<1> QED
  BY <1>9 DEF l, r, t, v, Extends

\* Where a stretch of numbers of N that begins at i ends, and where they begin.
LastOf(N, i) == CHOOSE j \in N : j >= i /\ j + 1 \notin N /\ i .. j \subseteq N
FirstOf(N) == {i \in N : i - 1 \notin N}

LEMMA LastOfIs ==
  ASSUME NEW N, N \subseteq Nat, NEW i \in Nat, NEW e \in Nat, i < e,
         i .. e - 1 \subseteq N, e \notin N
  PROVE  LastOf(N, i) = e - 1
<1>1. e - 1 \in N /\ e - 1 >= i /\ (e - 1) + 1 = e
  BY SMT
<1>2. ASSUME NEW j \in N, j >= i, j + 1 \notin N, i .. j \subseteq N PROVE j = e - 1
  <2>1. j \in Nat
    OBVIOUS
  <2>2. ~(j < e - 1)
    <3> SUFFICES ASSUME j < e - 1 PROVE FALSE
      OBVIOUS
    <3>1. j + 1 \in i .. e - 1
      BY <1>2, <2>1
    <3> QED
      BY <1>2, <3>1
  <2>3. ~(j > e - 1)
    <3> SUFFICES ASSUME j > e - 1 PROVE FALSE
      OBVIOUS
    <3>1. e \in i .. j
      BY <1>2, <2>1
    <3> QED
      BY <1>2, <3>1
  <2> QED
    BY <2>1, <2>2, <2>3
<1>3. \E j \in N : j >= i /\ j + 1 \notin N /\ i .. j \subseteq N
  BY <1>1
<1> DEFINE l == LastOf(N, i)
<1>4. l \in N /\ l >= i /\ l + 1 \notin N /\ i .. l \subseteq N
  BY <1>3 DEF LastOf
<1> HIDE DEF l
<1>5. l = e - 1
  BY <1>2, <1>4
<1> QED
  BY <1>5 DEF l

LEMMA SpelledFirst ==
  ASSUME NEW n \in Nat, NEW g, g = [i \in 1 .. n |-> g[i]],
         NEW q \in Seq(1 .. n), NEW x \in 1 .. n
  PROVE  Extends(g, x, q)
<1> DEFINE W == 1 .. n
           U == {g[i] : i \in 1 .. n}
<1>1. g \in [W -> U] /\ q \in Seq(W) /\ x \in W
  OBVIOUS
<1> HIDE DEF W, U
<1> QED
  BY <1>1, SpelledMore

\* From a position between names, the tokens are the names that follow.
LEMMA TokensAreNames ==
  ASSUME NEW text, Len(text) \in Nat, NEW from \in 0 .. Len(text),
         NEW skip, Skips(skip, text), NEW end, Ends(end, text),
         NEW tokens, Lists(tokens, text, skip, end),
         NEW N, N = Named(text, from), NEW g,
         g = [i \in 1 .. Len(text) |-> NameOf(SubSeq(text, i, LastOf(N, i)))]
  PROVE  tokens[from + 1] = Spelled(g, Ascending(FirstOf(N)))
<1> DEFINE n == Len(text)
           A == Scan(text, from)
           Since(k) == {f \in FirstOf(N) : f >= k}
           Between(k) == k \in A /\ (k \notin N \/ k - 1 \notin N)
           Good == {k \in 1 .. n + 1 :
                      Between(k) => tokens[k] = Spelled(g, Ascending(Since(k)))}
<1>0. N \subseteq from + 1 .. n /\ \A k \in A : k \in from + 1 .. n + 1
  BY DEF Named, Scan
<1>1. ASSUME NEW k \in 1 .. n + 1, \A j \in k + 1 .. n + 1 : j \in Good PROVE k \in Good
  <2> SUFFICES ASSUME Between(k) PROVE tokens[k] = Spelled(g, Ascending(Since(k)))
    OBVIOUS
  <2> DEFINE s == skip[k]
             e == end[s]
  <2>1. /\ s \in A /\ s \in k .. n + 1
        /\ \A j \in k .. s - 1 : j \notin N
        /\ s = n + 1 \/ s \in N
    BY SkipsNoName
  <2>2. tokens[k] = IF s > n THEN <<>>
                    ELSE <<NameOf(SubSeq(text, s, e - 1))>> \o tokens[e]
    BY DEF Lists
  <2>3. CASE s = n + 1
    <3>1. Since(k) = {}
      <4>1. ASSUME NEW f \in FirstOf(N), f >= k PROVE FALSE
        <5>1. f \in N /\ f \in k .. n
          BY <1>0, <4>1 DEF FirstOf
        <5> QED
          BY <2>1, <2>3, <5>1
      <4> QED
        BY <4>1
    <3>2. tokens[k] = <<>>
      BY <2>2, <2>3
    <3>3. Spelled(g, <<>>) = <<>>
      BY DEF Spelled
    <3> HIDE DEF Since
    <3> QED
      BY <3>1, <3>2, <3>3, AscendingNone
  <2>4. CASE s # n + 1
    <3>1. s \in N /\ s \in 1 .. n /\ ~(s > n)
      BY <2>1, <2>4
    <3>2. /\ e \in A /\ e \in s .. n + 1
          /\ s .. e - 1 \subseteq N /\ e \notin N
      BY <2>1, EndsName
    <3> HIDE DEF s, e, A
    <3>3. s < e /\ e \in k + 1 .. n + 1
      BY <2>1, <3>1, <3>2
    <3>4. LastOf(N, s) = e - 1
      <4>1. N \subseteq Nat
        BY <1>0
      <4>2. s \in Nat /\ e \in Nat
        BY <3>1, <3>2
      <4> QED
        BY <3>2, <3>3, <4>1, <4>2, LastOfIs
    <3>5. g[s] = NameOf(SubSeq(text, s, e - 1))
      BY <3>1, <3>4
    <3>6. Since(k) = {s} \cup Since(e)
      <4>1. s - 1 \notin N
        <5>1. CASE s = k
          BY <3>1, <5>1
        <5>2. CASE s # k
          <6>1. s - 1 \in k .. s - 1
            BY <2>1, <5>2
          <6> QED
            BY <2>1, <6>1
        <5> QED
          BY <5>1, <5>2
      <4>2. s \in Since(k)
        BY <2>1, <3>1, <4>1 DEF FirstOf
      <4>3. ASSUME NEW f \in FirstOf(N), f >= k PROVE f = s \/ f >= e
        <5>1. f \in N /\ f - 1 \notin N /\ f \in k .. n
          BY <1>0, <4>3 DEF FirstOf
        <5>2. ~(f < s)
          <6> SUFFICES ASSUME f < s PROVE FALSE
            OBVIOUS
          <6>1. f \in k .. s - 1
            BY <2>1, <5>1
          <6> QED
            BY <2>1, <5>1, <6>1
        <5>3. ~(s < f /\ f < e)
          <6> SUFFICES ASSUME s < f, f < e PROVE FALSE
            OBVIOUS
          <6>1. f - 1 \in s .. e - 1
            BY <3>1, <3>2, <5>1
          <6> QED
            BY <3>2, <5>1, <6>1
        <5> QED
          BY <3>1, <3>2, <5>1, <5>2, <5>3
      <4>4. ASSUME NEW f \in FirstOf(N), f >= e PROVE f >= k
        <5>1. f \in Nat
          BY <1>0 DEF FirstOf
        <5> QED
          BY <3>3, <4>4, <5>1
      <4> QED
        BY <4>2, <4>3, <4>4
    <3>7. Since(e) \subseteq 1 .. n /\ \A x \in Since(e) : s < x
      <4>1. ASSUME NEW x \in Since(e) PROVE x \in 1 .. n /\ s < x
        <5>1. x \in from + 1 .. n /\ x >= e
          BY <1>0 DEF FirstOf
        <5> QED
          BY <3>1, <3>2, <3>3, <5>1
      <4> QED
        BY <4>1
    <3>8. tokens[e] = Spelled(g, Ascending(Since(e)))
      <4>1. Between(e) /\ e \in Good
        BY <1>1, <3>2, <3>3
      <4> QED
        BY <4>1
    <3> HIDE DEF Since
    <3>9. Ascending(Since(k)) = <<s>> \o Ascending(Since(e))
      BY <3>1, <3>6, <3>7, AscendingFirst
    <3> DEFINE q == Ascending(Since(e))
    <3>10. q \in Seq(1 .. n)
      <4>1. q \in Seq(Since(e))
        BY <3>7, AscendingEnumerates
      <4> HIDE DEF q
      <4> QED
        BY <3>7, <4>1, SeqMonotonic
    <3> HIDE DEF q
    <3>11. g = [i \in 1 .. n |-> g[i]]
      OBVIOUS
    <3>12. Spelled(g, <<s>> \o q) = <<g[s]>> \o Spelled(g, q)
      BY <3>1, <3>10, <3>11, SpelledFirst DEF Extends
    <3> QED
      <4>1. tokens[k] = <<g[s]>> \o tokens[e]
        BY <2>2, <3>1, <3>5
      <4>2. tokens[k] = <<g[s]>> \o Spelled(g, q)
        BY <3>8, <4>1 DEF q
      <4>3. Ascending(Since(k)) = <<s>> \o q
        BY <3>9 DEF q
      <4> QED
        BY <3>12, <4>2, <4>3
  <2> QED
    BY <2>3, <2>4
<1>2. from + 1 \in Good
  <2> HIDE DEF Good
  <2>1. n + 1 \in Nat /\ from + 1 \in 1 .. n + 1
    OBVIOUS
  <2>2. \A k \in 1 .. n + 1 : k \in Good
    BY <1>1, <2>1, Descent
  <2> QED
    BY <2>1, <2>2
<1>3. Between(from + 1)
  <2>1. from + 1 \in A
    BY ScanSteps
  <2>2. (from + 1) - 1 \notin N
    BY <1>0
  <2> QED
    BY <2>1, <2>2
<1>4. Since(from + 1) = FirstOf(N)
  <2>1. \A f \in FirstOf(N) : f >= from + 1
    BY <1>0 DEF FirstOf
  <2> QED
    BY <2>1
<1> HIDE DEF Since
<1> QED
  BY <1>2, <1>3, <1>4

\* parseDepfile lists the names of a depfile, in order.
LEMMA NamesListed ==
  ASSUME NEW T, NEW text \in Seq(T)
  PROVE  /\ ParseDepfile(text) \in Seq(T \cup Seq(T))
         /\ NamesIn(text) = ParseDepfile(text)
<1> DEFINE n == Len(text)
           colons == {i \in DOMAIN text : text[i] = Colon}
           from == Min(colons \cup {Len(text)})
           N == Named(text, from)
           g == [i \in 1 .. n |-> NameOf(SubSeq(text, i, LastOf(N, i)))]
           skip == SkipWhitespace(text)
           end == TokenEnd(text)
<1>1. n \in Nat /\ DOMAIN text = 1 .. n
  BY LenProperties
<1>2. Skips(skip, text) /\ Ends(end, text)
  BY <1>1, SkipRecursion, EndRecursion
<1>3. PICK tokens \in [1 .. n + 1 -> Seq(T \cup Seq(T))] :
        Lists(tokens, text, skip, end) /\ Parses(tokens, text)
  BY ListRecursion
<1>12. ParseDepfile(text) = IF colons = {} THEN <<>> ELSE tokens[Min(colons) + 1]
  BY <1>3 DEF Parses
<1> HIDE DEF skip, end
<1>4. /\ from \in 0 .. n
      /\ colons = {} => from = n
      /\ colons # {} => from = Min(colons)
  <2>1. ASSUME NEW S, S \subseteq Nat, S # {}
        PROVE  Min(S) \in S /\ \A y \in S : Min(S) <= y
    <3>1. \E x \in S : \A y \in S : x <= y
      BY <2>1, LeastNumber
    <3> QED
      BY <3>1 DEF Min
  <2>2. ASSUME NEW x \in Nat, NEW S, S \subseteq Nat, x \in S, \A y \in S : x <= y
        PROVE  Min(S) = x
    <3>1. Min(S) \in S /\ Min(S) <= x
      BY <2>1, <2>2
    <3>2. x <= Min(S) /\ Min(S) \in Nat
      BY <2>2, <3>1
    <3> QED
      BY <3>1, <3>2
  <2>3. colons \subseteq 1 .. n
    BY <1>1
  <2> HIDE DEF colons
  <2>4. CASE colons = {}
    <3>1. colons \cup {n} = {n} /\ {n} \subseteq Nat
      BY <1>1, <2>4
    <3>2. Min({n}) = n
      BY <1>1, <2>2
    <3> QED
      BY <1>1, <2>4, <3>1, <3>2
  <2>5. CASE colons # {}
    <3> DEFINE c == Min(colons)
    <3>1. c \in colons /\ \A y \in colons : c <= y
      <4>1. colons \subseteq Nat
        BY <2>3
      <4> QED
        BY <2>1, <2>5, <4>1
    <3> HIDE DEF c
    <3>2. c \in 1 .. n /\ c <= n /\ c \in Nat
      BY <1>1, <2>3, <3>1
    <3> DEFINE S == colons \cup {n}
    <3>3. S \subseteq Nat /\ c \in S /\ \A y \in S : c <= y
      <4>1. ASSUME NEW y \in S PROVE y \in Nat /\ c <= y
        <5>1. CASE y \in colons
          BY <2>3, <3>1, <5>1
        <5>2. CASE y = n
          BY <1>1, <3>2, <5>2
        <5> QED
          BY <5>1, <5>2
      <4>2. c \in S
        BY <3>1
      <4> HIDE DEF S
      <4> QED
        BY <4>1, <4>2
    <3> HIDE DEF S
    <3>4. Min(S) = c
      BY <2>2, <3>2, <3>3
    <3> QED
      BY <2>5, <3>2, <3>4 DEF S, c
  <2> QED
    BY <2>4, <2>5
<1> DEFINE names == Ascending(FirstOf(N))
<1>5. NamesIn(text) =
        [k \in DOMAIN names |-> NameOf(SubSeq(text, names[k], LastOf(N, names[k])))]
  BY DEF NamesIn, FirstOf, LastOf, Named
<1> HIDE DEF from
<1>11. from \in 0 .. n /\ from + 1 \in 1 .. n + 1
  <2>1. from \in 0 .. n
    <3> HIDE DEF colons, n
    <3> QED
      BY <1>4, Zenon
  <2> QED
    BY <1>1, <2>1
<1>6. NamesIn(text) = Spelled(g, names)
  <2>1. \A k \in DOMAIN names : names[k] \in 1 .. n
    <3>1. N \subseteq 1 .. n
      BY <1>1, <1>11 DEF Named
    <3> HIDE DEF N
    <3>2. FirstOf(N) \subseteq 1 .. n
      BY <3>1 DEF FirstOf
    <3>3. names \in Seq(FirstOf(N))
      BY <1>1, <3>2, AscendingEnumerates
    <3> HIDE DEF names
    <3>4. names \in Seq(1 .. n)
      BY <3>2, <3>3, SeqMonotonic
    <3> QED
      BY <3>4, ElementOfSeq, LenProperties
  <2> HIDE DEF names, N
  <2>2. \A k \in DOMAIN names :
          NameOf(SubSeq(text, names[k], LastOf(N, names[k]))) = g[names[k]]
    BY <2>1
  <2> HIDE DEF g
  <2>3. NamesIn(text) = [k \in DOMAIN names |-> g[names[k]]]
    BY <1>5, <2>2
  <2> QED
    BY <2>3 DEF Spelled
<1>10. Lists(tokens, text, skip, end)
  BY <1>3
<1>7. tokens[from + 1] = NamesIn(text)
  <2>1. N = Named(text, from)
          /\ g = [i \in 1 .. Len(text) |-> NameOf(SubSeq(text, i, LastOf(N, i)))]
    OBVIOUS
  <2> HIDE DEF N, g
  <2>2. tokens[from + 1] = Spelled(g, Ascending(FirstOf(N)))
    BY <1>1, <1>2, <1>10, <1>11, <2>1, TokensAreNames
  <2> QED
    BY <1>6, <2>2
<1> HIDE DEF colons
<1>8. CASE colons = {}
  <2>1. skip[n + 1] = n + 1
    BY <1>1, <1>2 DEF Skips
  <2>2. tokens[n + 1] = <<>>
    <3>1. n + 1 \in 1 .. Len(text) + 1 /\ n + 1 > Len(text)
      BY <1>1
    <3> QED
      BY <1>10, <2>1, <3>1 DEF Lists
  <2>3. NamesIn(text) = <<>> /\ ParseDepfile(text) = <<>>
    BY <1>4, <1>7, <1>8, <1>12, <2>2
  <2> QED
    BY <2>3
<1>9. CASE colons # {}
  <2>1. ParseDepfile(text) = tokens[from + 1] /\ from + 1 \in 1 .. n + 1
    BY <1>4, <1>9, <1>11, <1>12
  <2>2. tokens[from + 1] \in Seq(T \cup Seq(T))
    BY <1>3, <2>1
  <2> QED
    BY <1>7, <2>1, <2>2
<1> QED
  BY <1>8, <1>9

-----------------------------------------------------------------------------
(* Estimates. *)

LEMMA Ranks ==
  /\ \A t \in ToSet(TextOrder) : Rank(t) \in Nat
  /\ \A t, u \in ToSet(TextOrder) : Rank(t) = Rank(u) => t = u
<1>1. DOMAIN TextOrder \subseteq Nat
  BY TextOrderAssumption, LenProperties
<1>2. \A t \in ToSet(TextOrder) : Rank(t) \in DOMAIN TextOrder /\ TextOrder[Rank(t)] = t
  BY DEF ToSet, Rank
<1> QED
  BY <1>1, <1>2

\* The entries that have a number to the right of a '|'.
Entries == Seq([path : ToSet(TextOrder), value : ToSet(TextOrder)])

\* The same entries, none after one that it goes before.
InOrder(sorted, entries) ==
  /\ sorted \in Entries
  /\ ToSet(sorted) = ToSet(entries)
  /\ \A i, j \in DOMAIN sorted : i < j => ~Before(sorted[j], sorted[i])

LEMMA SortedSorts ==
  ASSUME NEW entries \in Entries
  PROVE  InOrder(Sorted(entries), entries)
<1> DEFINE m == Len(entries)
           ahead(i, j) == \/ Before(entries[i], entries[j])
                          \/ i < j /\ ~Before(entries[j], entries[i])
           Ahead(i) == {j \in DOMAIN entries : ahead(j, i)}
           place == [i \in 1 .. m |-> Cardinality(Ahead(i)) + 1]
           rp(i) == Rank(entries[i].path)
           rv(i) == Rank(entries[i].value)
           from(n) == CHOOSE i \in DOMAIN entries : Cardinality(Ahead(i)) + 1 = n
           sorted == Sorted(entries)
<1>1. /\ m \in Nat /\ DOMAIN entries = 1 .. m
      /\ \A i \in 1 .. m : entries[i].path \in ToSet(TextOrder)
                           /\ entries[i].value \in ToSet(TextOrder)
  <2>1. m \in Nat /\ DOMAIN entries = 1 .. m
    BY LenProperties DEF Entries
  <2>2. \A i \in 1 .. m : entries[i] \in [path : ToSet(TextOrder), value : ToSet(TextOrder)]
    BY ElementOfSeq DEF Entries
  <2> QED
    BY <2>1, <2>2
<1>2. \A i \in 1 .. m : rp(i) \in Nat /\ rv(i) \in Nat
  BY <1>1, Ranks
<1>3. ASSUME NEW i \in 1 .. m, NEW j \in 1 .. m
      PROVE  ahead(i, j) <=> \/ rp(i) < rp(j)
                             \/ rp(i) = rp(j) /\ (rv(i) < rv(j) \/ (rv(i) = rv(j) /\ i < j))
  <2>1. /\ entries[i].path = entries[j].path <=> rp(i) = rp(j)
        /\ entries[j].path = entries[i].path <=> rp(i) = rp(j)
    BY <1>1, Ranks
  <2>2. /\ Before(entries[i], entries[j]) <=> rp(i) < rp(j) \/ (rp(i) = rp(j) /\ rv(i) < rv(j))
        /\ Before(entries[j], entries[i]) <=> rp(j) < rp(i) \/ (rp(i) = rp(j) /\ rv(j) < rv(i))
    BY <2>1 DEF Before
  <2>3. i \in Nat /\ j \in Nat /\ rp(i) \in Nat /\ rv(i) \in Nat /\ rp(j) \in Nat /\ rv(j) \in Nat
    BY <1>1, <1>2
  <2> HIDE DEF rp, rv
  <2> QED
    BY <2>2, <2>3
<1>4. ASSUME NEW i \in 1 .. m, NEW j \in 1 .. m
      PROVE  /\ ahead(i, j) => ~Before(entries[j], entries[i])
             /\ ~ahead(i, i) /\ (i = j \/ ahead(i, j) \/ ahead(j, i))
             /\ \A l \in 1 .. m : ahead(l, i) /\ ahead(i, j) => ahead(l, j)
  <2>1. ahead(i, j) => ~Before(entries[j], entries[i])
    <3>1. Before(entries[j], entries[i]) => ahead(j, i)
      OBVIOUS
    <3> HIDE DEF ahead, rp, rv
    <3>2. ~(ahead(i, j) /\ ahead(j, i))
      BY <1>1, <1>2, <1>3
    <3> QED
      BY <3>1, <3>2
  <2>2. ASSUME NEW l \in 1 .. m, ahead(l, i), ahead(i, j) PROVE ahead(l, j)
    <3>1. /\ i \in Nat /\ j \in Nat /\ l \in Nat
          /\ rp(i) \in Nat /\ rv(i) \in Nat /\ rp(j) \in Nat /\ rv(j) \in Nat
          /\ rp(l) \in Nat /\ rv(l) \in Nat
      BY <1>1, <1>2
    <3> HIDE DEF ahead, rp, rv
    <3> QED
      BY <1>3, <2>2, <3>1
  <2>3. ~ahead(i, i) /\ (i = j \/ ahead(i, j) \/ ahead(j, i))
    <3>1. /\ i \in Nat /\ j \in Nat
          /\ rp(i) \in Nat /\ rv(i) \in Nat /\ rp(j) \in Nat /\ rv(j) \in Nat
      BY <1>1, <1>2
    <3> HIDE DEF ahead, rp, rv
    <3> QED
      BY <1>3, <3>1
  <2> HIDE DEF ahead
  <2> QED
    BY <2>1, <2>2, <2>3
<1>5. \A i \in 1 .. m : IsFiniteSet(Ahead(i)) /\ Cardinality(Ahead(i)) \in Nat
                        /\ place[i] \in 1 .. m
  <2> SUFFICES ASSUME NEW i \in 1 .. m
               PROVE  IsFiniteSet(Ahead(i)) /\ Cardinality(Ahead(i)) \in Nat /\ place[i] \in 1 .. m
    OBVIOUS
  <2>1. IsFiniteSet(1 .. m) /\ Cardinality(1 .. m) = m
    BY <1>1, FS_Interval
  <2>2. Ahead(i) \in SUBSET (1 .. m) /\ i \notin Ahead(i)
    BY <1>1, <1>4
  <2> HIDE DEF Ahead
  <2>3. IsFiniteSet(Ahead(i)) /\ Cardinality(Ahead(i)) <= m /\ Cardinality(Ahead(i)) \in Nat
        /\ (Cardinality(1 .. m) = Cardinality(Ahead(i)) => 1 .. m = Ahead(i))
    BY <2>1, <2>2, FS_Subset, FS_CardinalityType
  <2>4. Cardinality(Ahead(i)) # m
    BY <2>1, <2>2, <2>3
  <2> QED
    BY <1>1, <2>3, <2>4
<1>6. ASSUME NEW i \in 1 .. m, NEW j \in 1 .. m, ahead(i, j) PROVE place[i] < place[j]
  <2>1. Ahead(i) \subseteq Ahead(j) /\ i \in Ahead(j) /\ i \notin Ahead(i)
    BY <1>1, <1>4, <1>6
  <2> HIDE DEF Ahead
  <2>2. Cardinality(Ahead(i)) <= Cardinality(Ahead(j))
        /\ (Cardinality(Ahead(j)) = Cardinality(Ahead(i)) => Ahead(j) = Ahead(i))
    BY <1>5, <2>1, FS_Subset
  <2> QED
    BY <1>5, <2>1, <2>2
<1>7. place \in Surjection(1 .. m, 1 .. m)
  <2>1. place \in [1 .. m -> 1 .. m]
    BY <1>5
  <2>2. ASSUME NEW i \in 1 .. m, NEW j \in 1 .. m, place[i] = place[j] PROVE i = j
    <3> HIDE DEF Ahead, ahead, place
    <3>1. place[i] \in Nat /\ place[j] \in Nat
      BY <1>5
    <3>2. /\ ahead(i, j) => place[i] < place[j]
          /\ ahead(j, i) => place[j] < place[i]
      BY <1>6
    <3>3. i = j \/ ahead(i, j) \/ ahead(j, i)
      BY <1>4
    <3> QED
      BY <2>2, <3>1, <3>2, <3>3
  <2> HIDE DEF place
  <2>3. place \in Injection(1 .. m, 1 .. m)
    BY <2>1, <2>2 DEF Injection, IsInjective
  <2>4. IsFiniteSet(1 .. m)
    BY FS_Interval
  <2> QED
    BY <2>3, <2>4, FS_Injection
<1>8. sorted = [n \in 1 .. m |-> entries[from(n)]]
  <2>1. sorted = [n \in DOMAIN entries |-> entries[from(n)]]
    BY DEF Sorted
  <2> HIDE DEF sorted, from
  <2> QED
    BY <1>1, <2>1
<1>9. ASSUME NEW n \in 1 .. m PROVE from(n) \in 1 .. m /\ place[from(n)] = n
  <2> HIDE DEF Ahead
  <2>1. \A i \in 1 .. m : place[i] = Cardinality(Ahead(i)) + 1
    OBVIOUS
  <2>2. PICK i \in 1 .. m : place[i] = n
    BY <1>7 DEF Surjection
  <2>3. from(n) \in 1 .. m /\ Cardinality(Ahead(from(n))) + 1 = n
    BY <1>1, <2>1, <2>2
  <2> HIDE DEF from, place
  <2> QED
    BY <2>1, <2>3
<1> HIDE DEF place, ahead, Ahead
<1> HIDE DEF from, sorted
<1>10. sorted \in Entries /\ DOMAIN sorted = 1 .. m
  <2> DEFINE E == [path : ToSet(TextOrder), value : ToSet(TextOrder)]
  <2>1. \A i \in 1 .. m : entries[i] \in E
    BY ElementOfSeq DEF Entries
  <2> HIDE DEF E
  <2>2. sorted \in [1 .. m -> E]
    BY <1>8, <1>9, <2>1
  <2> QED
    BY <1>1, <2>2, FunctionIsSeq DEF Entries, E
<1>11. ToSet(sorted) = ToSet(entries)
  <2>1. \A n \in 1 .. m : \E i \in 1 .. m : sorted[n] = entries[i]
    BY <1>8, <1>9
  <2>2. ASSUME NEW i \in 1 .. m PROVE \E n \in 1 .. m : sorted[n] = entries[i]
    <3>1. place[i] \in 1 .. m
      BY <1>5
    <3>2. from(place[i]) = i
      <4>1. from(place[i]) \in 1 .. m /\ place[from(place[i])] = place[i]
        BY <1>9, <3>1
      <4>2. \A k, l \in 1 .. m : place[k] = place[l] => k = l
        <5> SUFFICES ASSUME NEW k \in 1 .. m, NEW l \in 1 .. m, place[k] = place[l] PROVE k = l
          OBVIOUS
        <5>1. place[k] \in Nat /\ place[l] \in Nat
          BY <1>5
        <5> QED
          BY <1>4, <1>6, <5>1
      <4> QED
        BY <4>1, <4>2
    <3> QED
      BY <1>8, <3>1, <3>2
  <2>3. ToSet(sorted) = {sorted[n] : n \in 1 .. m} /\ ToSet(entries) = {entries[i] : i \in 1 .. m}
    BY <1>1, <1>10 DEF ToSet
  <2> QED
    BY <2>1, <2>2, <2>3
<1>12. ASSUME NEW i \in 1 .. m, NEW j \in 1 .. m, i < j PROVE ~Before(sorted[j], sorted[i])
  <2>1. /\ from(i) \in 1 .. m /\ from(j) \in 1 .. m
        /\ place[from(i)] = i /\ place[from(j)] = j
        /\ sorted[i] = entries[from(i)] /\ sorted[j] = entries[from(j)]
    BY <1>8, <1>9
  <2>2. ~ahead(from(j), from(i)) /\ from(i) # from(j)
    BY <1>6, <1>12, <2>1
  <2>3. ahead(from(i), from(j))
    BY <1>4, <2>1, <2>2
  <2> QED
    BY <1>4, <2>1, <2>3
<1> QED
  BY <1>10, <1>11, <1>12 DEF InOrder, sorted

\* A set of positions that holds every position below its own is a prefix.
LEMMA LowerNumbers ==
  ASSUME NEW n \in Nat, NEW S \in SUBSET (1 .. n),
         \A i \in S : \A j \in 1 .. n : j < i => j \in S
  PROVE  Cardinality(S) \in 0 .. n /\ S = 1 .. Cardinality(S)
<1> DEFINE c == Cardinality(S)
<1>1. IsFiniteSet(1 .. n) /\ Cardinality(1 .. n) = n
  BY FS_Interval
<1>2. IsFiniteSet(S) /\ c \in Nat /\ c <= n
  BY <1>1, FS_Subset, FS_CardinalityType
<1>3. S \subseteq 1 .. c
  <2> SUFFICES ASSUME NEW i \in S PROVE i <= c
    BY <1>2
  <2>1. 1 .. i \subseteq S /\ i \in Nat
    OBVIOUS
  <2>2. Cardinality(1 .. i) = i
    BY <2>1, FS_Interval
  <2>3. Cardinality(1 .. i) <= c
    BY <2>1, <1>2, FS_Subset
  <2> QED
    BY <2>2, <2>3
<1>4. IsFiniteSet(1 .. c) /\ Cardinality(1 .. c) = c
  BY <1>2, FS_Interval
<1>5. 1 .. c = S
  BY <1>3, <1>4, FS_Subset
<1> QED
  BY <1>1, <1>2, <1>5

\* What is loaded: the lines that have a '|', in order.
LEMMA LoadedEntries ==
  ASSUME NEW lines \in Seq(EstimateLine), NEW E, E = LoadEstimates(lines)
  PROVE  /\ E \in Entries
         /\ ToSet(E) = {e \in ToSet(lines) : e.value # NoPipe}
         /\ \A i, j \in DOMAIN E : i < j => ~Before(E[j], E[i])
<1> DEFINE S == {e \in ToSet(lines) : e.value # NoPipe}
           K == Only(lines, S)
           U == [path : ToSet(TextOrder), value : ToSet(TextOrder)]
<1>1. K \in Seq(EstimateLine \cap S)
  BY OnlyType
<1>2. EstimateLine \cap S \subseteq U
  BY DEF EstimateLine
<1>3. K \in Seq(U)
  <2> HIDE DEF K, S, U
  <2> QED
    BY <1>1, <1>2, SeqMonotonic
<1>4. ToSet(K) = S
  <2>1. ToSet(K) \subseteq S
    <3> HIDE DEF K, S
    <3>1. \A i \in DOMAIN K : K[i] \in S
      BY <1>1, ElementOfSeq, LenProperties
    <3> QED
      BY <3>1 DEF ToSet
  <2>2. ASSUME NEW e \in S PROVE e \in ToSet(K)
    <3>1. PICK i \in DOMAIN lines : lines[i] = e
      BY DEF ToSet
    <3> HIDE DEF S
    <3>2. CountIn(K, {e}) = CountIn(lines, {e} \cap S)
      BY OnlyCount
    <3>3. CountIn(lines, {e} \cap S) # 0
      <4>1. lines[i] \in {e} \cap S
        BY <3>1
      <4> QED
        BY <4>1, CountIsUpto
    <3> HIDE DEF K
    <3>4. \E j \in DOMAIN K : K[j] \in {e}
      BY <1>3, <3>2, <3>3, CountIsUpto
    <3> QED
      BY <3>4 DEF ToSet
  <2> QED
    BY <2>1, <2>2
<1>5. InOrder(Sorted(K), K)
  <2> HIDE DEF K
  <2> QED
    BY <1>3, SortedSorts DEF Entries
<1>6. E = Sorted(K)
  BY DEF LoadEstimates
<1> HIDE DEF K, S
<1>7. E \in Entries /\ ToSet(E) = S /\ \A i, j \in DOMAIN E : i < j => ~Before(E[j], E[i])
  BY <1>4, <1>5, <1>6 DEF InOrder
<1> QED
  BY <1>7 DEF S

\* The text that comes first decides an estimate, whatever the order of the lines.
LEMMA EstimateFound ==
  ASSUME NEW lines \in Seq(EstimateLine), NEW path
  PROVE  GetWorkEstimate(LoadEstimates(lines), path) = EstimateSaid(lines, path)
<1> DEFINE E == LoadEstimates(lines)
           n == Len(E)
           r == Rank(path)
           Less == {k \in DOMAIN E : Rank(E[k].path) < r}
           i == 1 + Cardinality(Less)
           L == Listed(lines, path)
           first == /\ i <= n
                    /\ E[i].path = path
<1>1. /\ E \in Entries
      /\ ToSet(E) = {e \in ToSet(lines) : e.value # NoPipe}
      /\ \A k, j \in DOMAIN E : k < j => ~Before(E[j], E[k])
  <2> DEFINE F == E
  <2>1. F = LoadEstimates(lines)
    OBVIOUS
  <2> HIDE DEF F
  <2>2. /\ F \in Entries
        /\ ToSet(F) = {e \in ToSet(lines) : e.value # NoPipe}
        /\ \A k, j \in DOMAIN F : k < j => ~Before(F[j], F[k])
    BY <2>1, LoadedEntries
  <2> QED
    BY <2>2 DEF F
<1>2. GetWorkEstimate(E, path) =
        IF first /\ E[i].value \in DOMAIN Amount THEN Amount[E[i].value] ELSE 0
  BY DEF GetWorkEstimate
<1> HIDE DEF E
<1>3. /\ n \in Nat /\ DOMAIN E = 1 .. n
      /\ \A k \in 1 .. n : E[k] \in [path : ToSet(TextOrder), value : ToSet(TextOrder)]
  BY <1>1, LenProperties, ElementOfSeq DEF Entries
<1>4. \A k \in 1 .. n : /\ E[k].path \in ToSet(TextOrder) /\ E[k].value \in ToSet(TextOrder)
                        /\ Rank(E[k].path) \in Nat /\ Rank(E[k].value) \in Nat
  BY <1>3, Ranks
<1>5. \A v : v \in L <=> \E k \in 1 .. n : E[k].path = path /\ E[k].value = v
  <2>1. L = {e.value : e \in {f \in ToSet(lines) : f.path = path /\ f.value # NoPipe}}
    BY DEF Listed, ToSet
  <2>2. L = {e.value : e \in {f \in ToSet(E) : f.path = path}}
    BY <1>1, <2>1
  <2> HIDE DEF L
  <2> QED
    BY <1>3, <2>2 DEF ToSet
<1>6. i \in Nat /\ i >= 1
  <2>1. IsFiniteSet(1 .. n) /\ Less \in SUBSET (1 .. n)
    BY <1>3, FS_Interval
  <2> HIDE DEF Less
  <2>2. Cardinality(Less) \in Nat
    BY <2>1, FS_Subset, FS_CardinalityType
  <2> QED
    BY <2>2
<1>7. CASE \E k \in 1 .. n : E[k].path = path
  <2>1. PICK k \in 1 .. n : E[k].path = path
    BY <1>7
  <2>2. path \in ToSet(TextOrder) /\ r \in Nat
    BY <1>4, <2>1
  <2>3. ASSUME NEW j \in 1 .. n, NEW l \in 1 .. n, j < l
        PROVE  /\ Rank(E[j].path) <= Rank(E[l].path)
               /\ E[j].path = E[l].path => Rank(E[j].value) <= Rank(E[l].value)
    <3>1. ~Before(E[l], E[j])
      BY <1>1, <1>3, <2>3
    <3>2. /\ Rank(E[j].path) \in Nat /\ Rank(E[j].value) \in Nat
          /\ Rank(E[l].path) \in Nat /\ Rank(E[l].value) \in Nat
      BY <1>4
    <3> QED
      BY <3>1, <3>2 DEF Before
  <2>4. Less = 1 .. i - 1 /\ i - 1 \in 0 .. n
    <3>1. Less \in SUBSET (1 .. n)
      BY <1>3
    <3>2. ASSUME NEW j \in Less, NEW l \in 1 .. n, l < j PROVE l \in Less
      <4>1. Rank(E[l].path) <= Rank(E[j].path) /\ Rank(E[j].path) < r /\ j \in 1 .. n
        BY <1>3, <2>3, <3>2
      <4>2. Rank(E[l].path) \in Nat /\ Rank(E[j].path) \in Nat
        BY <1>4, <4>1
      <4>3. Rank(E[l].path) < r
        BY <2>2, <4>1, <4>2
      <4> QED
        BY <1>3, <4>3
    <3> HIDE DEF Less
    <3>3. Cardinality(Less) \in 0 .. n /\ Less = 1 .. Cardinality(Less)
      BY <1>3, <3>1, <3>2, LowerNumbers
    <3> QED
      BY <1>3, <3>3
  <2>5. k \notin Less
    BY <2>1, <2>2
  <2> HIDE DEF i
  <2>6. i <= k /\ i \in 1 .. n /\ i \notin Less
    <3> HIDE DEF Less
    <3> QED
      BY <1>3, <1>6, <2>4, <2>5
  <2>7. E[i].path = path
    <3>1. ~(Rank(E[i].path) < r) /\ Rank(E[i].path) \in Nat
      BY <1>3, <1>4, <2>6
    <3>2. Rank(E[i].path) <= r
      <4>1. CASE i = k
        BY <2>1, <2>2, <4>1
      <4>2. CASE i # k
        <5>1. i < k
          BY <1>6, <2>6, <4>2
        <5> QED
          BY <2>1, <2>3, <2>6, <5>1
      <4> QED
        BY <4>1, <4>2
    <3>3. Rank(E[i].path) = r
      BY <2>2, <3>1, <3>2
    <3> QED
      BY <1>4, <2>2, <2>6, <3>3, Ranks
  <2>8. ASSUME NEW j \in 1 .. n, E[j].path = path PROVE Rank(E[i].value) <= Rank(E[j].value)
    <3>1. j \notin Less
      BY <2>2, <2>8
    <3>2. i <= j
      <4> HIDE DEF Less
      <4> QED
        BY <1>3, <1>6, <2>4, <3>1
    <3>3. CASE i = j
      BY <1>4, <3>3
    <3>4. CASE i # j
      <4>1. i < j
        BY <1>6, <3>2, <3>4
      <4> QED
        BY <2>3, <2>6, <2>7, <2>8, <4>1
    <3> QED
      BY <3>3, <3>4
  <2> DEFINE v == E[i].value
  <2>9. v \in L /\ \A w \in L : w \in ToSet(TextOrder) /\ Rank(v) <= Rank(w)
    <3> HIDE DEF L
    <3> QED
      BY <1>4, <1>5, <2>6, <2>7, <2>8
  <2>10. {u \in L : \A w \in L : Rank(u) <= Rank(w)} = {v}
    <3>1. ASSUME NEW u \in L, \A w \in L : Rank(u) <= Rank(w) PROVE u = v
      <4> HIDE DEF L, v
      <4>1. Rank(u) <= Rank(v) /\ Rank(v) <= Rank(u)
        BY <2>9, <3>1
      <4>2. Rank(u) \in Nat /\ Rank(v) \in Nat
        BY <2>9, Ranks
      <4>3. Rank(u) = Rank(v)
        BY <4>1, <4>2
      <4> QED
        BY <2>9, <4>3, Ranks
    <3> HIDE DEF L, v
    <3> QED
      BY <2>9, <3>1
  <2>11. EstimateSaid(lines, path) =
           LET numbers == {Amount[u] : u \in {v} \cap DOMAIN Amount}
           IN  IF numbers = {} THEN 0 ELSE CHOOSE a \in numbers : TRUE
    <3> HIDE DEF v
    <3> QED
      BY <2>10 DEF EstimateSaid
  <2>12. EstimateSaid(lines, path) = IF v \in DOMAIN Amount THEN Amount[v] ELSE 0
    <3> HIDE DEF v
    <3>1. CASE v \in DOMAIN Amount
      <4>1. {Amount[u] : u \in {v} \cap DOMAIN Amount} = {Amount[v]}
        BY <3>1
      <4>2. (CHOOSE a \in {Amount[v]} : TRUE) = Amount[v]
        OBVIOUS
      <4> QED
        BY <2>11, <3>1, <4>1, <4>2
    <3>2. CASE v \notin DOMAIN Amount
      <4>1. {Amount[u] : u \in {v} \cap DOMAIN Amount} = {}
        BY <3>2
      <4> QED
        BY <2>11, <3>2, <4>1
    <3> QED
      BY <3>1, <3>2
  <2>13. first
    BY <2>6, <2>7
  <2> QED
    BY <1>2, <2>12, <2>13 DEF E
<1>8. CASE ~\E k \in 1 .. n : E[k].path = path
  <2>1. L = {}
    <3> HIDE DEF L
    <3> QED
      BY <1>5, <1>8
  <2>2. EstimateSaid(lines, path) = 0
    BY <2>1 DEF EstimateSaid
  <2>3. ~first
    <3> HIDE DEF i
    <3> QED
      BY <1>3, <1>6, <1>8
  <2> QED
    BY <1>2, <2>2, <2>3 DEF E
<1> QED
  BY <1>7, <1>8

-----------------------------------------------------------------------------
(* What a command line says. *)

\* Which words are heads follows from the first on.
HeadsOf(heads, argv) ==
  /\ heads \subseteq DOMAIN argv
  /\ \A i \in DOMAIN argv : i \in heads <=> ~(i - 1 \in heads /\ argv[i - 1] \in Valued)

\* The help text names the options that cliArgs knows.
LEMMA SameOptions ==
  /\ HelpValued = Valued /\ HelpSwitches = Switches
  /\ HelpQuestions = Questions /\ HelpTools = Tools
BY DEF HelpValued, Valued, HelpSwitches, Switches, HelpQuestions, Questions, HelpTools, Tools

LEMMA HeadsAre ==
  ASSUME NEW argv \in Seq(STRING)
  PROVE  HeadsOf(Heads(argv), argv)
<1> DEFINE n == Len(argv)
           s == [k \in 1 .. n |-> [u \in BOOLEAN |-> ~(u /\ argv[k - 1] \in Valued)]]
<1>1. n \in Nat /\ DOMAIN argv = 1 .. n
  BY LenProperties
<1>2. s \in [1 .. n -> [BOOLEAN -> BOOLEAN]]
  OBVIOUS
<1>3. PICK f \in [0 .. n -> BOOLEAN] : Iterates(f, FALSE, n, s)
  <2> HIDE DEF n, s
  <2> QED
    BY <1>1, <1>2, Recursion, Zenon
<1>4. \A k \in 1 .. n : f[k] <=> ~(f[k - 1] /\ argv[k - 1] \in Valued)
  <2> SUFFICES ASSUME NEW k \in 1 .. n PROVE f[k] <=> ~(f[k - 1] /\ argv[k - 1] \in Valued)
    OBVIOUS
  <2>1. f[k] = s[k][f[k - 1]] /\ f[k - 1] \in BOOLEAN
    BY <1>1, <1>3 DEF Iterates
  <2>2. \A u \in BOOLEAN : s[k][u] = ~(u /\ argv[k - 1] \in Valued)
    OBVIOUS
  <2> HIDE DEF s, n
  <2> QED
    BY <2>1, <2>2, Zenon
<1>5. ~f[0]
  BY <1>3 DEF Iterates
<1> DEFINE heads == {i \in 1 .. n : f[i]}
<1>6. \A i \in 1 .. n : i - 1 \in heads <=> f[i - 1]
  <2> SUFFICES ASSUME NEW i \in 1 .. n PROVE i - 1 \in heads <=> f[i - 1]
    OBVIOUS
  <2>1. i - 1 = 0 \/ i - 1 \in 1 .. n
    BY <1>1
  <2>2. 0 \notin 1 .. n
    OBVIOUS
  <2> HIDE DEF n, s
  <2> QED
    BY <1>5, <2>1, <2>2
<1>7. \A i \in 1 .. n : i \in heads <=> f[i]
  OBVIOUS
<1>8. heads \subseteq DOMAIN argv
  BY <1>1
<1> HIDE DEF heads, n, s
<1>9. \A i \in DOMAIN argv : i \in heads <=> ~(i - 1 \in heads /\ argv[i - 1] \in Valued)
  BY <1>1, <1>4, <1>6, <1>7
<1>10. \E h \in SUBSET DOMAIN argv : \A i \in DOMAIN argv :
         i \in h <=> ~(i - 1 \in h /\ argv[i - 1] \in Valued)
  BY <1>8, <1>9
<1> QED
  BY <1>10, SameOptions DEF HeadsOf, Heads

-----------------------------------------------------------------------------
\* What the heads in U say, the words that are understood.
Among(argv, U, words) == {i \in U : argv[i] \in words}
LastAmong(argv, U, words, default) ==
  IF Among(argv, U, words) = {} THEN default ELSE argv[Max(Among(argv, U, words)) + 1]
JobsAmong(argv, U) ==
  IF Among(argv, U, {"-j", "--jobs"}) = {} THEN 0
  ELSE Number[argv[Max(Among(argv, U, {"-j", "--jobs"})) + 1]]
ToolAmong(argv, U, t) == \E i \in Among(argv, U, {"-t"}) : argv[i + 1] = t
DefinedBy(argv, at) == [i \in DOMAIN at |-> Assignment[argv[at[i]]]]
DefinedAmong(argv, U) == DefinedBy(argv, Ascending(Among(argv, U, DOMAIN Assignment)))

ArgsAmong(argv, U) ==
  [dry_run |-> Among(argv, U, {"-n", "--dry-run"}) # {},
   silent |-> Among(argv, U, {"-s", "--silent"}) # {},
   keep_going |-> Among(argv, U, {"-k", "--keep-going"}) # {},
   jobs |-> JobsAmong(argv, U),
   clean |-> ToolAmong(argv, U, "clean"), compdb |-> ToolAmong(argv, U, "compdb"),
   graph |-> ToolAmong(argv, U, "graph"), commands |-> ToolAmong(argv, U, "commands"),
   build_file |-> LastAmong(argv, U, {"-f"}, "catalyst.build"),
   estimates_file |-> LastAmong(argv, U, {"--estimates"}, "catalyst.estimates"),
   work_dir |-> LastAmong(argv, U, {"-C"}, "."),
   definition_overrides |-> DefinedAmong(argv, U)]

LEMMA ArgsOfHeads == ASSUME NEW argv PROVE ArgsSaid(argv) = ArgsAmong(argv, Heads(argv))
BY DEF ArgsSaid, ArgsAmong, Given, LastValue, LastAmong, Among, JobsAmong, ToolAmong,
       DefinedAmong, DefinedBy

LEMMA ArgsOfNone == ASSUME NEW argv PROVE ArgsAmong(argv, {}) = DefaultArgs
<1>1. ASSUME NEW words PROVE Among(argv, {}, words) = {}
  BY DEF Among
<1>2. DefinedAmong(argv, {}) = <<>>
  <2>1. DOMAIN <<>> = {} /\ Among(argv, {}, DOMAIN Assignment) = {}
    BY <1>1
  <2>2. DefinedBy(argv, <<>>) = <<>>
    BY <2>1 DEF DefinedBy
  <2> QED
    BY <2>1, <2>2, AscendingNone DEF DefinedAmong
<1>3. JobsAmong(argv, {}) = 0
  BY <1>1 DEF JobsAmong
<1>4. ASSUME NEW words, NEW default PROVE LastAmong(argv, {}, words, default) = default
  BY <1>1 DEF LastAmong
<1>5. ASSUME NEW t PROVE ToolAmong(argv, {}, t) = FALSE
  BY <1>1 DEF ToolAmong
<1> QED
  BY <1>1, <1>2, <1>3, <1>4, <1>5 DEF ArgsAmong, DefaultArgs

-----------------------------------------------------------------------------
LEMMA AmongMore ==
  ASSUME NEW argv, NEW U, NEW e, NEW words
  PROVE  Among(argv, U \cup {e}, words) =
           IF argv[e] \in words THEN Among(argv, U, words) \cup {e} ELSE Among(argv, U, words)
BY DEF Among

LEMMA GreatestIs ==
  ASSUME NEW S, S \subseteq Nat, NEW e \in Nat, \A x \in S : x < e
  PROVE  Max(S \cup {e}) = e
<1> DEFINE T == S \cup {e}
           m == Max(T)
<1>1. e \in T /\ \A y \in T : e >= y
  OBVIOUS
<1>2. m \in T /\ \A y \in T : m >= y
  BY <1>1 DEF Max
<1>3. m \in Nat /\ m >= e /\ e >= m
  BY <1>1, <1>2
<1> HIDE DEF m
<1>4. m = e
  BY <1>3
<1> QED
  BY <1>4 DEF m

LastMoves(argv, U, e, words, default) ==
  LastAmong(argv, U \cup {e}, words, default) =
    IF argv[e] \in words THEN argv[e + 1] ELSE LastAmong(argv, U, words, default)

LEMMA LastMore ==
  ASSUME NEW argv, NEW U, U \subseteq Nat, NEW e \in Nat, \A x \in U : x < e,
         NEW words, NEW default
  PROVE  LastMoves(argv, U, e, words, default)
<1> DEFINE A == Among(argv, U, words)
<1>1. A \subseteq Nat /\ \A x \in A : x < e
  BY DEF Among
<1>2. Among(argv, U \cup {e}, words) = IF argv[e] \in words THEN A \cup {e} ELSE A
  BY DEF Among
<1> HIDE DEF A
<1>3. Max(A \cup {e}) = e /\ A \cup {e} # {}
  BY <1>1, GreatestIs
<1> QED
  BY <1>2, <1>3 DEF LastAmong, LastMoves, A

LEMMA JobsMore ==
  ASSUME NEW argv, NEW U, U \subseteq Nat, NEW e \in Nat, \A x \in U : x < e
  PROVE  JobsAmong(argv, U \cup {e}) =
           IF argv[e] \in {"-j", "--jobs"} THEN Number[argv[e + 1]] ELSE JobsAmong(argv, U)
<1> DEFINE words == {"-j", "--jobs"}
           A == Among(argv, U, words)
<1>1. A \subseteq Nat /\ \A x \in A : x < e
  BY DEF Among
<1>2. Among(argv, U \cup {e}, words) = IF argv[e] \in words THEN A \cup {e} ELSE A
  BY DEF Among
<1> HIDE DEF A
<1>3. Max(A \cup {e}) = e /\ A \cup {e} # {}
  BY <1>1, GreatestIs
<1> QED
  BY <1>2, <1>3 DEF JobsAmong, A

LEMMA ToolMore ==
  ASSUME NEW argv, NEW U, NEW e, NEW t
  PROVE  ToolAmong(argv, U \cup {e}, t) =
           IF argv[e] = "-t" /\ argv[e + 1] = t THEN TRUE ELSE ToolAmong(argv, U, t)
<1>1. Among(argv, U \cup {e}, {"-t"}) =
        IF argv[e] = "-t" THEN Among(argv, U, {"-t"}) \cup {e} ELSE Among(argv, U, {"-t"})
  BY DEF Among
<1> DEFINE A == Among(argv, U, {"-t"})
<1>2. ToolAmong(argv, U, t) <=> \E i \in A : argv[i + 1] = t
  BY DEF ToolAmong
<1>3. ToolAmong(argv, U \cup {e}, t) <=>
        \E i \in IF argv[e] = "-t" THEN A \cup {e} ELSE A : argv[i + 1] = t
  BY <1>1 DEF ToolAmong
<1> HIDE DEF A
<1>4. ToolAmong(argv, U \cup {e}, t) \in BOOLEAN /\ ToolAmong(argv, U, t) \in BOOLEAN
  BY DEF ToolAmong
<1>5. ToolAmong(argv, U \cup {e}, t) <=>
        (argv[e] = "-t" /\ argv[e + 1] = t) \/ ToolAmong(argv, U, t)
  BY <1>2, <1>3
<1> QED
  BY <1>4, <1>5

-----------------------------------------------------------------------------
\* Numbers above all others come last.
LEMMA EnumeratesLast ==
  ASSUME NEW S, S \subseteq Nat, IsFiniteSet(S), NEW q, Enumerates(q, S),
         NEW s \in Nat, \A x \in S : x < s
  PROVE  /\ q \in Seq(S) /\ Append(q, s) \in Seq(S \cup {s})
         /\ Len(Append(q, s)) = Len(q) + 1
         /\ Enumerates(Append(q, s), S \cup {s})
<1> DEFINE m == Cardinality(S)
           T == S \cup {s}
           sq == Append(q, s)
<1>1. /\ m \in Nat /\ q \in [1 .. m -> S]
      /\ \A i, j \in 1 .. m : i < j => q[i] < q[j]
  BY FS_CardinalityType DEF Enumerates
<1>2. Cardinality(T) = m + 1
  <2>1. s \notin S
    OBVIOUS
  <2> QED
    BY <2>1, FS_AddElement
<1> HIDE DEF m
<1>3. q \in Seq(S) /\ Len(q) = m
  BY <1>1, FunctionIsSeq
<1>4. q \in Seq(T) /\ s \in T
  BY <1>3
<1>5. /\ sq \in Seq(T) /\ Len(sq) = m + 1
      /\ \A i \in 1 .. m : sq[i] = q[i]
      /\ sq[m + 1] = s
  <2> HIDE DEF T
  <2> QED
    BY <1>3, <1>4, AppendProperties
<1>6. sq \in [1 .. m + 1 -> T]
  <2> HIDE DEF sq, T
  <2>1. DOMAIN sq = 1 .. m + 1 /\ \A i \in 1 .. m + 1 : sq[i] \in T
    BY <1>1, <1>5, LenProperties, ElementOfSeq
  <2> QED
    BY <1>5, <2>1, LenProperties
<1>7. ASSUME NEW i \in 1 .. m + 1, NEW j \in 1 .. m + 1, i < j PROVE sq[i] < sq[j]
  <2> HIDE DEF sq
  <2>1. i \in 1 .. m /\ sq[i] = q[i] /\ q[i] \in S
    BY <1>1, <1>5, <1>7
  <2>2. CASE j = m + 1
    BY <1>5, <2>1, <2>2
  <2>3. CASE j # m + 1
    <3>1. j \in 1 .. m /\ sq[j] = q[j]
      BY <1>1, <1>5, <2>3
    <3> QED
      BY <1>1, <1>7, <2>1, <3>1
  <2> QED
    BY <2>2, <2>3
<1> HIDE DEF sq, T
<1>8. Enumerates(sq, T)
  BY <1>2, <1>6, <1>7 DEF Enumerates
<1> QED
  BY <1>3, <1>5, <1>8 DEF sq, T

\* The greatest number is the last.
LEMMA AscendingLast ==
  ASSUME NEW n \in Nat, NEW S, S \subseteq 1 .. n, NEW s \in 1 .. n,
         \A x \in S : x < s
  PROVE  /\ Ascending(S) \in Seq(S)
         /\ Ascending(S \cup {s}) = Append(Ascending(S), s)
<1>1. IsFiniteSet(S) /\ Enumerates(Ascending(S), S)
  BY AscendingEnumerates
<1>2. Ascending(S) \in Seq(S) /\ Enumerates(Append(Ascending(S), s), S \cup {s})
  <2>1. S \subseteq Nat /\ s \in Nat
    OBVIOUS
  <2> QED
    BY <1>1, <2>1, EnumeratesLast
<1> DEFINE T == S \cup {s}
<1>3. T \subseteq 1 .. n
  OBVIOUS
<1> HIDE DEF T
<1>4. T \subseteq Nat /\ IsFiniteSet(T)
  <2>1. T \subseteq Nat
    BY <1>3
  <2>2. IsFiniteSet(T)
    BY <1>3, AscendingEnumerates
  <2> QED
    BY <2>1, <2>2
<1> QED
  BY <1>2, <1>4, AscendingIs DEF T

DefinedGrows(argv, U, e) ==
  DefinedAmong(argv, U \cup {e}) =
    IF argv[e] \in DOMAIN Assignment
      THEN Append(DefinedAmong(argv, U), Assignment[argv[e]])
      ELSE DefinedAmong(argv, U)

LEMMA DefinedMore ==
  ASSUME NEW argv, NEW n \in Nat, NEW U, U \subseteq 1 .. n, NEW e \in 1 .. n,
         \A x \in U : x < e
  PROVE  DefinedGrows(argv, U, e)
<1> DEFINE A == Among(argv, U, DOMAIN Assignment)
           at == Ascending(A)
<1>1. A \subseteq 1 .. n /\ \A x \in A : x < e
  BY DEF Among
<1>2. Among(argv, U \cup {e}, DOMAIN Assignment) =
        IF argv[e] \in DOMAIN Assignment THEN A \cup {e} ELSE A
  BY DEF Among
<1>3. DefinedAmong(argv, U) = DefinedBy(argv, at)
  BY DEF DefinedAmong
<1> HIDE DEF A
<1>4. at \in Seq(A) /\ Ascending(A \cup {e}) = Append(at, e)
  BY <1>1, AscendingLast
<1> HIDE DEF at
<1>5. DefinedBy(argv, Append(at, e)) = Append(DefinedBy(argv, at), Assignment[argv[e]])
  <2> DEFINE l == Len(at)
             X == {Assignment[argv[x]] : x \in A \cup {e}}
             d == DefinedBy(argv, at)
             more == DefinedBy(argv, Append(at, e))
             v == Assignment[argv[e]]
  <2>1. at \in Seq(A \cup {e}) /\ l \in Nat /\ DOMAIN at = 1 .. l
        /\ \A i \in 1 .. l : at[i] \in A
    BY <1>4, LenProperties, ElementOfSeq
  <2>2. /\ Append(at, e) \in Seq(A \cup {e}) /\ Len(Append(at, e)) = l + 1
        /\ \A i \in 1 .. l : Append(at, e)[i] = at[i]
        /\ Append(at, e)[l + 1] = e
    BY <2>1, AppendProperties
  <2>3. DOMAIN Append(at, e) = 1 .. l + 1
    BY <2>1, <2>2, LenProperties
  <2>4. /\ d = [i \in 1 .. l |-> Assignment[argv[at[i]]]]
        /\ more = [i \in 1 .. l + 1 |-> Assignment[argv[Append(at, e)[i]]]]
    BY <2>1, <2>3 DEF DefinedBy
  <2>5. \A x \in A \cup {e} : Assignment[argv[x]] \in X
    OBVIOUS
  <2> HIDE DEF X, l
  <2>6. d \in [1 .. l -> X] /\ v \in X
    BY <2>1, <2>4, <2>5
  <2> HIDE DEF d
  <2>7. d \in Seq(X) /\ Len(d) = l
    BY <2>1, <2>6, FunctionIsSeq
  <2>8. /\ Append(d, v) \in Seq(X) /\ Len(Append(d, v)) = l + 1
        /\ \A i \in 1 .. l : Append(d, v)[i] = d[i]
        /\ Append(d, v)[l + 1] = v
    BY <2>6, <2>7, AppendProperties
  <2>9. Append(d, v) = [i \in 1 .. l + 1 |-> Append(d, v)[i]]
    BY <2>1, <2>8, LenProperties
  <2>10. ASSUME NEW i \in 1 .. l + 1
         PROVE  Assignment[argv[Append(at, e)[i]]] = Append(d, v)[i]
    <3>1. CASE i = l + 1
      BY <2>2, <2>8, <3>1
    <3>2. CASE i # l + 1
      <4>1. i \in 1 .. l
        BY <2>1, <3>2
      <4> QED
        BY <2>2, <2>4, <2>8, <4>1
    <3> QED
      BY <3>1, <3>2
  <2> HIDE DEF more, v
  <2>11. more = Append(d, v)
    BY <2>4, <2>9, <2>10
  <2> QED
    BY <2>11 DEF more, d, v
<1> QED
  <2>1. CASE argv[e] \in DOMAIN Assignment
    <3>1. DefinedAmong(argv, U \cup {e}) = DefinedBy(argv, Append(at, e))
      BY <1>2, <1>4, <2>1 DEF DefinedAmong
    <3> QED
      BY <1>3, <1>5, <2>1, <3>1 DEF DefinedGrows
  <2>2. CASE argv[e] \notin DOMAIN Assignment
    BY <1>2, <1>3, <2>2 DEF DefinedAmong, DefinedGrows, at
  <2> QED
    BY <2>1, <2>2

-----------------------------------------------------------------------------
\* What one more head changes in what the words say.
Adds(argv, U, e) ==
  LET w == argv[e]
      a == ArgsAmong(argv, U)
      b == ArgsAmong(argv, U \cup {e})
  IN /\ w \in {"-n", "--dry-run"} => b = [a EXCEPT !.dry_run = TRUE]
     /\ w \in {"-s", "--silent"} => b = [a EXCEPT !.silent = TRUE]
     /\ w \in {"-k", "--keep-going"} => b = [a EXCEPT !.keep_going = TRUE]
     /\ w \in DOMAIN Assignment =>
          b = [a EXCEPT !.definition_overrides = Append(@, Assignment[w])]
     /\ w = "-C" => b = [a EXCEPT !.work_dir = argv[e + 1]]
     /\ w = "-f" => b = [a EXCEPT !.build_file = argv[e + 1]]
     /\ w = "--estimates" => b = [a EXCEPT !.estimates_file = argv[e + 1]]
     /\ w \in {"-j", "--jobs"} => b = [a EXCEPT !.jobs = Number[argv[e + 1]]]
     /\ w = "-t" /\ argv[e + 1] \in Tools => b = [a EXCEPT ![argv[e + 1]] = TRUE]

LEMMA ArgsMore ==
  ASSUME NEW argv, NEW n \in Nat, NEW U, U \subseteq 1 .. n, NEW e \in 1 .. n,
         \A x \in U : x < e
  PROVE  Adds(argv, U, e)
<1> DEFINE w == argv[e]
           a == ArgsAmong(argv, U)
           b == ArgsAmong(argv, U \cup {e})
<1>1. U \subseteq Nat /\ e \in Nat
  OBVIOUS
<1>2. /\ b.dry_run = (IF w \in {"-n", "--dry-run"} THEN TRUE ELSE a.dry_run)
      /\ b.silent = (IF w \in {"-s", "--silent"} THEN TRUE ELSE a.silent)
      /\ b.keep_going = (IF w \in {"-k", "--keep-going"} THEN TRUE ELSE a.keep_going)
  BY DEF ArgsAmong, Among
<1>3. b.jobs = IF w \in {"-j", "--jobs"} THEN Number[argv[e + 1]] ELSE a.jobs
  <2>1. JobsAmong(argv, U \cup {e}) =
          IF w \in {"-j", "--jobs"} THEN Number[argv[e + 1]] ELSE JobsAmong(argv, U)
    BY <1>1, JobsMore, Zenon
  <2>2. b.jobs = JobsAmong(argv, U \cup {e}) /\ a.jobs = JobsAmong(argv, U)
    BY DEF ArgsAmong
  <2> HIDE DEF w, a, b
  <2> QED
    BY <2>1, <2>2
<1>4. \A t \in Tools : b[t] = IF w = "-t" /\ argv[e + 1] = t THEN TRUE ELSE a[t]
  <2> SUFFICES ASSUME NEW t \in Tools
               PROVE  b[t] = IF w = "-t" /\ argv[e + 1] = t THEN TRUE ELSE a[t]
    OBVIOUS
  <2>1. ToolAmong(argv, U \cup {e}, t) =
          IF w = "-t" /\ argv[e + 1] = t THEN TRUE ELSE ToolAmong(argv, U, t)
    BY ToolMore, Zenon
  <2>2. b[t] = ToolAmong(argv, U \cup {e}, t) /\ a[t] = ToolAmong(argv, U, t)
    BY DEF ArgsAmong, Tools
  <2> HIDE DEF w, a, b
  <2> QED
    BY <2>1, <2>2
<1>5. /\ b.build_file = IF w = "-f" THEN argv[e + 1] ELSE a.build_file
      /\ b.estimates_file = IF w = "--estimates" THEN argv[e + 1] ELSE a.estimates_file
      /\ b.work_dir = IF w = "-C" THEN argv[e + 1] ELSE a.work_dir
  <2>1. /\ LastMoves(argv, U, e, {"-f"}, "catalyst.build")
        /\ LastMoves(argv, U, e, {"--estimates"}, "catalyst.estimates")
        /\ LastMoves(argv, U, e, {"-C"}, ".")
    BY <1>1, LastMore, Zenon
  <2>2. /\ b.build_file = LastAmong(argv, U \cup {e}, {"-f"}, "catalyst.build")
        /\ a.build_file = LastAmong(argv, U, {"-f"}, "catalyst.build")
        /\ b.estimates_file = LastAmong(argv, U \cup {e}, {"--estimates"}, "catalyst.estimates")
        /\ a.estimates_file = LastAmong(argv, U, {"--estimates"}, "catalyst.estimates")
        /\ b.work_dir = LastAmong(argv, U \cup {e}, {"-C"}, ".")
        /\ a.work_dir = LastAmong(argv, U, {"-C"}, ".")
    BY DEF ArgsAmong
  <2> HIDE DEF a, b
  <2> QED
    BY <2>1, <2>2 DEF LastMoves
<1>6. b.definition_overrides = IF w \in DOMAIN Assignment
                                 THEN Append(a.definition_overrides, Assignment[w])
                                 ELSE a.definition_overrides
  <2>1. DefinedGrows(argv, U, e)
    BY DefinedMore, Zenon
  <2>2. /\ b.definition_overrides = DefinedAmong(argv, U \cup {e})
        /\ a.definition_overrides = DefinedAmong(argv, U)
    BY DEF ArgsAmong
  <2> HIDE DEF a, b
  <2> QED
    BY <2>1, <2>2 DEF DefinedGrows
<1>7. w \in {"-n", "--dry-run", "-s", "--silent", "-k", "--keep-going",
             "-C", "-f", "--estimates", "-j", "--jobs", "-t"} => w \notin DOMAIN Assignment
  BY CommandLineAssumption DEF Valued, Switches
<1> DEFINE Fields == {"dry_run", "silent", "keep_going", "jobs", "clean", "compdb", "graph",
                      "commands", "build_file", "estimates_file", "work_dir",
                      "definition_overrides"}
<1>8. a = [f \in Fields |-> a[f]] /\ b = [f \in Fields |-> b[f]]
  BY DEF ArgsAmong
<1> HIDE DEF w, a, b
<1>9. ASSUME NEW f \in Fields, NEW v, b[f] = v, \A g \in Fields \ {f} : b[g] = a[g]
      PROVE  b = [a EXCEPT ![f] = v]
  BY <1>8, <1>9
<1>10. /\ w \in {"-n", "--dry-run"} => b = [a EXCEPT !.dry_run = TRUE]
       /\ w \in {"-s", "--silent"} => b = [a EXCEPT !.silent = TRUE]
       /\ w \in {"-k", "--keep-going"} => b = [a EXCEPT !.keep_going = TRUE]
  <2>1. w \in {"-n", "--dry-run"} => b = [a EXCEPT !.dry_run = TRUE]
    BY <1>2, <1>3, <1>4, <1>5, <1>6, <1>7, <1>9, ZenonT(30) DEF Tools
  <2>2. w \in {"-s", "--silent"} => b = [a EXCEPT !.silent = TRUE]
    BY <1>2, <1>3, <1>4, <1>5, <1>6, <1>7, <1>9, ZenonT(30) DEF Tools
  <2>3. w \in {"-k", "--keep-going"} => b = [a EXCEPT !.keep_going = TRUE]
    BY <1>2, <1>3, <1>4, <1>5, <1>6, <1>7, <1>9, ZenonT(30) DEF Tools
  <2> QED
    BY <2>1, <2>2, <2>3
<1>11. /\ w = "-C" => b = [a EXCEPT !.work_dir = argv[e + 1]]
       /\ w = "-f" => b = [a EXCEPT !.build_file = argv[e + 1]]
       /\ w = "--estimates" => b = [a EXCEPT !.estimates_file = argv[e + 1]]
       /\ w \in {"-j", "--jobs"} => b = [a EXCEPT !.jobs = Number[argv[e + 1]]]
  <2>1. w = "-C" => b = [a EXCEPT !.work_dir = argv[e + 1]]
    BY <1>2, <1>3, <1>4, <1>5, <1>6, <1>7, <1>9, SMTT(30) DEF Tools
  <2>2. w = "-f" => b = [a EXCEPT !.build_file = argv[e + 1]]
    BY <1>2, <1>3, <1>4, <1>5, <1>6, <1>7, <1>9, SMTT(30) DEF Tools
  <2>3. w = "--estimates" => b = [a EXCEPT !.estimates_file = argv[e + 1]]
    BY <1>2, <1>3, <1>4, <1>5, <1>6, <1>7, <1>9, SMTT(30) DEF Tools
  <2> DEFINE v == Number[argv[e + 1]]
  <2>4. w \in {"-j", "--jobs"} => b.jobs = v
    BY <1>3
  <2> HIDE DEF v
  <2>5. w \in {"-j", "--jobs"} => b = [a EXCEPT !.jobs = v]
    BY <1>2, <1>4, <1>5, <1>6, <1>7, <1>9, <2>4, ZenonT(30) DEF Tools
  <2> QED
    BY <2>1, <2>2, <2>3, <2>5 DEF v
<1>12. w \in DOMAIN Assignment =>
         b = [a EXCEPT !.definition_overrides = Append(@, Assignment[w])]
  <2>1. w \in DOMAIN Assignment =>
          w \notin {"-n", "--dry-run", "-s", "--silent", "-k", "--keep-going",
                    "-C", "-f", "--estimates", "-j", "--jobs", "-t"}
    BY <1>7
  <2> DEFINE v == Append(a.definition_overrides, Assignment[w])
  <2>2. w \in DOMAIN Assignment => b.definition_overrides = v
    BY <1>6
  <2> HIDE DEF v
  <2>3. w \in DOMAIN Assignment => b = [a EXCEPT !.definition_overrides = v]
    BY <1>2, <1>3, <1>4, <1>5, <1>9, <2>1, <2>2 DEF Tools
  <2> QED
    BY <2>3 DEF v
<1>13. w = "-t" /\ argv[e + 1] \in Tools => b = [a EXCEPT ![argv[e + 1]] = TRUE]
  <2> DEFINE t == argv[e + 1]
  <2> HIDE DEF t
  <2>1. w = "-t" /\ t \in Tools => b[t] = TRUE /\ \A g \in Fields \ {t} : b[g] = a[g]
    BY <1>2, <1>3, <1>4, <1>5, <1>6, <1>7 DEF Tools, t
  <2>2. t \in Tools => t \in Fields
    BY DEF Tools
  <2> QED
    BY <1>9, <2>1, <2>2 DEF t
<1> QED
  BY <1>10, <1>11, <1>12, <1>13 DEF Adds, w, a, b

-----------------------------------------------------------------------------
\* What a value does.
BadValue(option, word) ==
  \/ option \in {"-j", "--jobs"} /\ word \notin DOMAIN Number
  \/ option = "-t" /\ word \notin Tools

ValueReads(v, r, word) ==
  LET o == r.option
      a == r.args
  IN /\ BadValue(o, word) => v.outcome = "error"
     /\ ~BadValue(o, word) =>
          /\ v.outcome = r.outcome /\ v.option = Nothing
          /\ o = "-C" => v.args = [a EXCEPT !.work_dir = word]
          /\ o = "-f" => v.args = [a EXCEPT !.build_file = word]
          /\ o = "--estimates" => v.args = [a EXCEPT !.estimates_file = word]
          /\ o \in {"-j", "--jobs"} => v.args = [a EXCEPT !.jobs = Number[word]]
          /\ o = "-t" => v.args = [a EXCEPT ![word] = TRUE]

LEMMA ValueRead ==
  ASSUME NEW D, NEW W, NEW r \in ReadingRecord(D, W), NEW word \in W, r.option \in Valued
  PROVE  ValueReads(Value(r, word), r, word)
<1> DEFINE o == r.option
           a == r.args
           read == [r EXCEPT !.option = Nothing]
<1>1. /\ r = [outcome |-> r.outcome, option |-> o, args |-> a]
      /\ o \in {"-C", "-f", "--estimates", "-j", "--jobs", "-t"}
  BY DEF ReadingRecord, Valued
<1>2. /\ read.outcome = r.outcome /\ read.option = Nothing /\ read.args = a
      /\ \A x : /\ [read EXCEPT !.args = x].outcome = r.outcome
                /\ [read EXCEPT !.args = x].option = Nothing
                /\ [read EXCEPT !.args = x].args = x
  BY <1>1
<1>3. Fails(r).outcome = "error"
  BY <1>1 DEF Fails
<1>4. CASE o = "-C"
  <2>1. Value(r, word) = [read EXCEPT !.args = [a EXCEPT !.work_dir = word]]
    BY <1>2, <1>4 DEF Value
  <2> HIDE DEF read, a
  <2> QED
    BY <1>2, <1>4, <2>1 DEF BadValue, ValueReads, a
<1>5. CASE o = "-f"
  <2>1. Value(r, word) = [read EXCEPT !.args = [a EXCEPT !.build_file = word]]
    BY <1>2, <1>5 DEF Value
  <2> HIDE DEF read, a
  <2> QED
    BY <1>2, <1>5, <2>1 DEF BadValue, ValueReads, a
<1>6. CASE o = "--estimates"
  <2>1. Value(r, word) = [read EXCEPT !.args = [a EXCEPT !.estimates_file = word]]
    BY <1>2, <1>6 DEF Value
  <2> HIDE DEF read, a
  <2> QED
    BY <1>2, <1>6, <2>1 DEF BadValue, ValueReads, a
<1>7. CASE o \in {"-j", "--jobs"}
  <2>1. Value(r, word) = IF word \in DOMAIN Number
                           THEN [read EXCEPT !.args = [a EXCEPT !.jobs = Number[word]]]
                           ELSE Fails(r)
    BY <1>2, <1>7 DEF Value
  <2> HIDE DEF read, a
  <2> QED
    BY <1>2, <1>3, <1>7, <2>1 DEF BadValue, ValueReads, a
<1>8. CASE o = "-t"
  <2>1. Value(r, word) = IF word \in Tools
                           THEN [read EXCEPT !.args = [a EXCEPT ![word] = TRUE]]
                           ELSE Fails(r)
    BY <1>2, <1>8 DEF Value
  <2> HIDE DEF read, a
  <2> QED
    BY <1>2, <1>3, <1>8, <2>1 DEF BadValue, ValueReads, a
<1> QED
  BY <1>1, <1>4, <1>5, <1>6, <1>7, <1>8

\* What a word does that is not a value.
OptionReads(v, r, w) ==
  LET a == r.args
  IN /\ w \in Questions => v.outcome = "help"
     /\ w \notin Valued \cup Switches \cup Questions \cup DOMAIN Assignment =>
          v.outcome = "error"
     /\ w \in Valued => v.outcome = r.outcome /\ v.option = w /\ v.args = a
     /\ w \in Switches \cup DOMAIN Assignment =>
          v.outcome = r.outcome /\ v.option = r.option
     /\ w \in {"-n", "--dry-run"} => v.args = [a EXCEPT !.dry_run = TRUE]
     /\ w \in {"-s", "--silent"} => v.args = [a EXCEPT !.silent = TRUE]
     /\ w \in {"-k", "--keep-going"} => v.args = [a EXCEPT !.keep_going = TRUE]
     /\ w \in DOMAIN Assignment =>
          v.args = [a EXCEPT !.definition_overrides = Append(@, Assignment[w])]

LEMMA OptionRead ==
  ASSUME NEW D, NEW W, NEW r \in ReadingRecord(D, W), NEW w \in W
  PROVE  OptionReads(Option(r, w), r, w)
<1> DEFINE o == r.option
           a == r.args
           v == Option(r, w)
<1>1. r = [outcome |-> r.outcome, option |-> o, args |-> a]
  BY DEF ReadingRecord
<1>2. \A x : /\ [r EXCEPT !.args = x].outcome = r.outcome
             /\ [r EXCEPT !.args = x].option = o
             /\ [r EXCEPT !.args = x].args = x
  BY <1>1
<1>3. Fails(r).outcome = "error"
  BY <1>1 DEF Fails
<1>4. CASE w \in Questions
  <2>1. v = [r EXCEPT !.outcome = "help"]
    BY <1>4, CommandLineAssumption DEF Option, Questions, Valued, Switches
  <2>2. v.outcome = "help"
    BY <1>1, <2>1
  <2>3. /\ w \notin Valued \cup Switches \cup DOMAIN Assignment
        /\ w \notin {"-n", "--dry-run"}
        /\ w \notin {"-s", "--silent"}
        /\ w \notin {"-k", "--keep-going"}
    BY <1>4, CommandLineAssumption DEF Questions, Valued, Switches
  <2> HIDE DEF v, a, o
  <2> QED
    BY <1>4, <2>2, <2>3 DEF OptionReads, v
<1>5. CASE w \in Valued
  <2>1. v = [r EXCEPT !.option = w]
    BY <1>5, CommandLineAssumption DEF Option, Questions, Valued, Switches
  <2>2. v.outcome = r.outcome /\ v.option = w /\ v.args = a
    BY <1>1, <2>1
  <2>3. /\ w \notin Questions \cup Switches \cup DOMAIN Assignment
        /\ w \notin {"-n", "--dry-run"}
        /\ w \notin {"-s", "--silent"}
        /\ w \notin {"-k", "--keep-going"}
    BY <1>5, CommandLineAssumption DEF Questions, Valued, Switches
  <2> HIDE DEF v, a, o
  <2> QED
    BY <1>5, <2>2, <2>3 DEF OptionReads, v, a
<1>6. CASE w \in {"-n", "--dry-run"}
  <2>1. v = [r EXCEPT !.args = [a EXCEPT !.dry_run = TRUE]]
    BY <1>6, CommandLineAssumption DEF Option, Questions, Valued, Switches
  <2>2. /\ w \notin Valued \cup Questions \cup DOMAIN Assignment
        /\ w \in Switches
        /\ w \notin {"-s", "--silent"}
        /\ w \notin {"-k", "--keep-going"}
    BY <1>6, CommandLineAssumption DEF Questions, Valued, Switches
  <2> HIDE DEF v, a, o
  <2> QED
    BY <1>2, <1>6, <2>1, <2>2 DEF OptionReads, v, a, o
<1>7. CASE w \in {"-s", "--silent"}
  <2>1. v = [r EXCEPT !.args = [a EXCEPT !.silent = TRUE]]
    BY <1>7, CommandLineAssumption DEF Option, Questions, Valued, Switches
  <2>2. /\ w \notin Valued \cup Questions \cup DOMAIN Assignment
        /\ w \in Switches
        /\ w \notin {"-n", "--dry-run"}
        /\ w \notin {"-k", "--keep-going"}
    BY <1>7, CommandLineAssumption DEF Questions, Valued, Switches
  <2> HIDE DEF v, a, o
  <2> QED
    BY <1>2, <1>7, <2>1, <2>2 DEF OptionReads, v, a, o
<1>8. CASE w \in {"-k", "--keep-going"}
  <2>1. v = [r EXCEPT !.args = [a EXCEPT !.keep_going = TRUE]]
    BY <1>8, CommandLineAssumption DEF Option, Questions, Valued, Switches
  <2>2. /\ w \notin Valued \cup Questions \cup DOMAIN Assignment
        /\ w \in Switches
        /\ w \notin {"-n", "--dry-run"}
        /\ w \notin {"-s", "--silent"}
    BY <1>8, CommandLineAssumption DEF Questions, Valued, Switches
  <2> HIDE DEF v, a, o
  <2> QED
    BY <1>2, <1>8, <2>1, <2>2 DEF OptionReads, v, a, o
<1>9. CASE w \notin Questions \cup Valued \cup Switches
  <2>1. v = IF w \in DOMAIN Assignment
              THEN [r EXCEPT !.args = [a EXCEPT !.definition_overrides =
                                         Append(@, Assignment[w])]]
              ELSE Fails(r)
    BY <1>9 DEF Option, Switches
  <2> HIDE DEF v, a, o
  <2> QED
    BY <1>2, <1>3, <1>9, <2>1 DEF OptionReads, Questions, Valued, Switches, v, a, o
<1> QED
  BY <1>4, <1>5, <1>6, <1>7, <1>8, <1>9 DEF Switches

-----------------------------------------------------------------------------
\* The heads understood when k words are read, the one whose value is due then,
\* and the heads that end the reading.
Understood(argv, k) ==
  {i \in Heads(argv) : IF argv[i] \in Valued THEN i < k ELSE i <= k}
Due(argv, k) == IF k \in Heads(argv) /\ argv[k] \in Valued THEN argv[k] ELSE Nothing
Errors(argv) == Wrong(argv) \cup Unknown(argv)
Stops(argv) == Errors(argv) \cup Given(argv, Questions)

LEMMA UnderstoodGrows ==
  ASSUME NEW argv \in Seq(STRING), NEW k \in 1 .. Len(argv)
  PROVE  LET H == Heads(argv)
             U == Understood(argv, k - 1)
             V == Understood(argv, k)
         IN /\ H \subseteq 1 .. Len(argv) /\ U \subseteq H
            /\ Due(argv, k - 1) # Nothing =>
                 /\ k - 1 \in H /\ argv[k - 1] \in Valued /\ Due(argv, k - 1) = argv[k - 1]
                 /\ Due(argv, k) = Nothing /\ V = U \cup {k - 1}
                 /\ \A x \in H : x < k - 1 <=> x \in U
            /\ Due(argv, k - 1) = Nothing =>
                 /\ k \in H
                 /\ argv[k] \in Valued => Due(argv, k) = argv[k] /\ V = U
                 /\ argv[k] \notin Valued => Due(argv, k) = Nothing /\ V = U \cup {k}
                 /\ \A x \in H : x < k <=> x \in U
<1> DEFINE H == Heads(argv)
           n == Len(argv)
           U == Understood(argv, k - 1)
           V == Understood(argv, k)
<1>1. /\ n \in Nat /\ H \subseteq 1 .. n
      /\ k \in H <=> ~(k - 1 \in H /\ argv[k - 1] \in Valued)
  BY HeadsAre, LenProperties DEF HeadsOf
<1>2. /\ \A x : x \in U <=> x \in H /\ IF argv[x] \in Valued THEN x < k - 1 ELSE x <= k - 1
      /\ \A x : x \in V <=> x \in H /\ IF argv[x] \in Valued THEN x < k ELSE x <= k
  BY DEF Understood
<1>3. \A x \in H : x \in Nat /\ (x < k <=> x = k - 1 \/ x < k - 1) /\ (x <= k - 1 <=> x < k)
                   /\ (x <= k <=> x = k \/ x < k)
  BY <1>1
<1>4. Nothing \notin Valued
  BY DEF Nothing, Valued
<1>5. /\ Due(argv, k) = IF k \in H /\ argv[k] \in Valued THEN argv[k] ELSE Nothing
      /\ Due(argv, k - 1) = IF k - 1 \in H /\ argv[k - 1] \in Valued THEN argv[k - 1] ELSE Nothing
  BY DEF Due
<1> HIDE DEF H, U, V, n
<1>6. ASSUME Due(argv, k - 1) # Nothing
      PROVE  /\ k - 1 \in H /\ argv[k - 1] \in Valued /\ Due(argv, k - 1) = argv[k - 1]
             /\ Due(argv, k) = Nothing /\ V = U \cup {k - 1}
             /\ \A x \in H : x < k - 1 <=> x \in U
  <2>1. k - 1 \in H /\ argv[k - 1] \in Valued /\ Due(argv, k - 1) = argv[k - 1] /\ k \notin H
    BY <1>1, <1>5, <1>6
  <2>2. Due(argv, k) = Nothing
    BY <1>5, <2>1
  <2>3. ASSUME NEW x \in H PROVE x < k - 1 <=> x \in U
    <3>1. x \in Nat /\ x # k
      BY <1>3, <2>1
    <3> QED
      BY <1>2, <1>3, <2>1, <3>1
  <2>4. ASSUME NEW x \in H PROVE x \in V <=> x < k
    BY <1>2, <1>3, <2>1
  <2>5. \A x : x \in V <=> x \in U \cup {k - 1}
    BY <1>2, <1>3, <2>1, <2>3, <2>4
  <2> QED
    BY <2>1, <2>2, <2>3, <2>5
<1>7. ASSUME Due(argv, k - 1) = Nothing
      PROVE  /\ k \in H
             /\ argv[k] \in Valued => Due(argv, k) = argv[k] /\ V = U
             /\ argv[k] \notin Valued => Due(argv, k) = Nothing /\ V = U \cup {k}
             /\ \A x \in H : x < k <=> x \in U
  <2>1. k \in H /\ ~(k - 1 \in H /\ argv[k - 1] \in Valued)
    BY <1>1, <1>4, <1>5, <1>7
  <2>2. /\ argv[k] \in Valued => Due(argv, k) = argv[k]
        /\ argv[k] \notin Valued => Due(argv, k) = Nothing
    BY <1>5, <2>1
  <2>3. ASSUME NEW x \in H PROVE x < k <=> x \in U
    BY <1>2, <1>3, <2>1
  <2>4. ASSUME argv[k] \in Valued, NEW x PROVE x \in V <=> x \in U
    BY <1>2, <1>3, <2>1, <2>3, <2>4
  <2>5. ASSUME argv[k] \notin Valued, NEW x PROVE x \in V <=> x \in U \cup {k}
    BY <1>2, <1>3, <2>1, <2>3, <2>5
  <2> QED
    BY <2>1, <2>2, <2>3, <2>4, <2>5
<1>8. U \subseteq H
  BY <1>2
<1> QED
  BY <1>1, <1>6, <1>7, <1>8 DEF H, U, V, n

\* Which heads end the reading, and as what.
StopsAs(argv, e) ==
  LET known == Valued \cup Switches \cup Questions \cup DOMAIN Assignment
  IN /\ argv[e] \notin Valued =>
          /\ e \in Stops(argv) <=> argv[e] \in Questions \/ argv[e] \notin known
          /\ e \in Errors(argv) <=> argv[e] \notin known
     /\ argv[e] \in Valued =>
          /\ e \in Stops(argv) <=> e \in Errors(argv)
          /\ e = Len(argv) => e \in Errors(argv)
          /\ e # Len(argv) => (e \in Errors(argv) <=> BadValue(argv[e], argv[e + 1]))

LEMMA StopsWhere ==
  ASSUME NEW argv \in Seq(STRING), NEW e \in Heads(argv)
  PROVE  StopsAs(argv, e)
<1> DEFINE known == Valued \cup Switches \cup Questions \cup DOMAIN Assignment
<1>1. e \in Errors(argv) <=> \/ argv[e] \notin known
                             \/ argv[e] \in Valued /\ e = Len(argv)
                             \/ BadValue(argv[e], argv[e + 1])
  <2>1. Valued \cap ReferenceOnly = {}
    BY DEF Valued, ReferenceOnly
  <2>2. (Switches \cup Questions \cup DOMAIN Assignment) \cap ReferenceOnly = {}
    BY CommandLineAssumption DEF Switches, Questions, ReferenceOnly
  <2>3. BadValue(argv[e], argv[e + 1]) <=>
          \/ (argv[e] \in {"-j", "--jobs"} /\ argv[e + 1] \notin DOMAIN Number)
          \/ (argv[e] = "-t" /\ argv[e + 1] \notin Tools)
    BY DEF BadValue
  <2>4. e \in Wrong(argv) <=> \/ argv[e] \notin known \cup ReferenceOnly
                              \/ (argv[e] \in Valued /\ e = Len(argv))
                              \/ BadValue(argv[e], argv[e + 1])
    BY <2>3, SameOptions DEF Wrong, Options
  <2>5. e \in Unknown(argv) <=> argv[e] \in ReferenceOnly
    BY DEF Unknown, Given
  <2>6. argv[e] \in ReferenceOnly => argv[e] \notin known
    BY <2>1, <2>2
  <2> HIDE DEF known
  <2> QED
    BY <2>4, <2>5, <2>6 DEF Errors
<1>2. e \in Stops(argv) <=> e \in Errors(argv) \/ argv[e] \in Questions
  BY DEF Stops, Given
<1>3. BadValue(argv[e], argv[e + 1]) => argv[e] \in Valued
  BY DEF BadValue, Valued
<1>4. argv[e] \in Valued => argv[e] \notin Questions /\ argv[e] \in known
  BY DEF Questions, Valued
<1>5. argv[e] \in Questions => argv[e] \in known
  OBVIOUS
<1> HIDE DEF known
<1> QED
  BY <1>1, <1>2, <1>3, <1>4, <1>5 DEF StopsAs, known

LEMMA LeastIs ==
  ASSUME NEW S, S \subseteq Nat, NEW e \in S, \A x \in S : e <= x
  PROVE  Min(S) = e
<1> DEFINE m == Min(S)
<1>1. m \in S /\ \A y \in S : m <= y
  BY DEF Min
<1>2. m \in Nat /\ e \in Nat /\ m <= e /\ e <= m
  BY <1>1
<1> HIDE DEF m
<1>3. m = e
  BY <1>2
<1> QED
  BY <1>3 DEF m

\* How far the reading is after k words.
Said(argv) == IF Min(Stops(argv)) \in Errors(argv) THEN "error" ELSE "help"

Goes(argv, r, k) ==
  r.outcome = "ok" /\ r.option = Due(argv, k) /\ r.args = ArgsAmong(argv, Understood(argv, k))

Progress(argv, r, k) ==
  IF Stops(argv) \cap Understood(argv, k) = {} THEN Goes(argv, r, k)
                                              ELSE r.outcome = Said(argv)

\* A value is read.
LEMMA ValueProgress ==
  ASSUME NEW D, NEW argv \in Seq(STRING), NEW k \in 1 .. Len(argv),
         NEW r \in ReadingRecord(D, STRING), Goes(argv, r, k - 1),
         Stops(argv) \cap Understood(argv, k - 1) = {},
         Due(argv, k - 1) # Nothing
  PROVE  Progress(argv, Value(r, argv[k]), k)
<1> DEFINE H == Heads(argv)
           n == Len(argv)
           e == k - 1
           w == argv[e]
           word == argv[k]
           U == Understood(argv, e)
           v == Value(r, word)
           a == ArgsAmong(argv, U)
           b == ArgsAmong(argv, U \cup {e})
<1>1. /\ n \in Nat /\ DOMAIN argv = 1 .. n /\ H \subseteq 1 .. n /\ U \subseteq H
      /\ e \in H /\ w \in Valued /\ Due(argv, e) = w /\ Due(argv, k) = Nothing
      /\ Understood(argv, k) = U \cup {e}
      /\ \A x \in H : x < e <=> x \in U
  BY UnderstoodGrows, LenProperties
<1>2. word \in STRING /\ e + 1 = k /\ e # n /\ e \in 1 .. n
  <2>1. word \in STRING
    BY ElementOfSeq
  <2>2. e + 1 = k /\ e # n /\ e \in 1 .. n
    BY <1>1
  <2> QED
    BY <2>1, <2>2
<1>3. r.option = w /\ r.args = a /\ r.outcome = "ok"
  BY <1>1 DEF Goes
<1>4. /\ e \in Stops(argv) <=> e \in Errors(argv)
      /\ e \in Errors(argv) <=> BadValue(w, word)
  <2>1. StopsAs(argv, e)
    BY <1>1, StopsWhere
  <2> QED
    BY <1>1, <1>2, <2>1 DEF StopsAs
<1>5. ValueReads(v, r, word)
  <2>1. r.option \in Valued
    BY <1>1, <1>3
  <2> QED
    BY <1>2, <2>1, ValueRead
<1>6. CASE BadValue(w, word)
  <2>1. v.outcome = "error"
    BY <1>3, <1>6, <1>5 DEF ValueReads
  <2>2. Min(Stops(argv)) = e
    <3>1. Stops(argv) \subseteq H
      BY DEF Stops, Errors, Unknown, Wrong, Given
    <3>2. ASSUME NEW x \in Stops(argv) PROVE e <= x
      <4>1. x \in H /\ x \notin U
        BY <3>1
      <4>2. x \in Nat /\ e \in Nat /\ ~(x < e)
        BY <1>1, <1>2, <4>1
      <4> QED
        BY <4>2
    <3>3. Stops(argv) \subseteq Nat /\ e \in Stops(argv)
      BY <1>1, <1>4, <1>6, <3>1
    <3> HIDE DEF e
    <3> QED
      BY <3>2, <3>3, LeastIs
  <2>3. Stops(argv) \cap (U \cup {e}) # {} /\ Said(argv) = "error"
    BY <1>4, <1>6, <2>2 DEF Said
  <2> QED
    BY <1>1, <2>1, <2>3 DEF Progress
<1>7. CASE ~BadValue(w, word)
  <2>1. Stops(argv) \cap (U \cup {e}) = {}
    BY <1>4, <1>7
  <2>2. /\ v.outcome = "ok" /\ v.option = Nothing
        /\ w = "-C" => v.args = [a EXCEPT !.work_dir = word]
        /\ w = "-f" => v.args = [a EXCEPT !.build_file = word]
        /\ w = "--estimates" => v.args = [a EXCEPT !.estimates_file = word]
        /\ w \in {"-j", "--jobs"} => v.args = [a EXCEPT !.jobs = Number[word]]
        /\ w = "-t" => v.args = [a EXCEPT ![word] = TRUE]
    <3> HIDE DEF w, word, a, v, e
    <3> QED
      BY <1>3, <1>7, <1>5 DEF ValueReads
  <2>3. /\ w = "-C" => b = [a EXCEPT !.work_dir = word]
        /\ w = "-f" => b = [a EXCEPT !.build_file = word]
        /\ w = "--estimates" => b = [a EXCEPT !.estimates_file = word]
        /\ w \in {"-j", "--jobs"} => b = [a EXCEPT !.jobs = Number[word]]
        /\ w = "-t" /\ word \in Tools => b = [a EXCEPT ![word] = TRUE]
    <3>1. U \subseteq 1 .. n /\ \A x \in U : x < e
      BY <1>1
    <3>2. argv[e + 1] = word
      BY <1>2
    <3> HIDE DEF e, U, n, word
    <3>3. Adds(argv, U, e)
      BY <1>1, <1>2, <3>1, ArgsMore
    <3> QED
      BY <3>2, <3>3 DEF Adds
  <2>4. w = "-t" => word \in Tools
    BY <1>7 DEF BadValue
  <2>5. w \in {"-C", "-f", "--estimates", "-j", "--jobs", "-t"}
    BY <1>1 DEF Valued
  <2>6. v.args = b
    <3> HIDE DEF w, word, a, b, v
    <3> QED
      BY <2>2, <2>3, <2>4, <2>5
  <2> HIDE DEF v
  <2> QED
    BY <1>1, <2>1, <2>2, <2>6 DEF Progress, Goes, v
<1> QED
  BY <1>6, <1>7

\* A word is read that is not a value.
LEMMA OptionProgress ==
  ASSUME NEW D, NEW argv \in Seq(STRING), NEW k \in 1 .. Len(argv),
         NEW r \in ReadingRecord(D, STRING), Goes(argv, r, k - 1),
         Stops(argv) \cap Understood(argv, k - 1) = {},
         Due(argv, k - 1) = Nothing
  PROVE  Progress(argv, Option(r, argv[k]), k)
<1> DEFINE H == Heads(argv)
           n == Len(argv)
           w == argv[k]
           U == Understood(argv, k - 1)
           v == Option(r, w)
           a == ArgsAmong(argv, U)
           b == ArgsAmong(argv, U \cup {k})
           Known == Valued \cup Switches \cup Questions \cup DOMAIN Assignment
<1>1. /\ n \in Nat /\ DOMAIN argv = 1 .. n /\ H \subseteq 1 .. n /\ U \subseteq H
      /\ k \in H
      /\ w \in Valued => Due(argv, k) = w /\ Understood(argv, k) = U
      /\ w \notin Valued => Due(argv, k) = Nothing /\ Understood(argv, k) = U \cup {k}
      /\ \A x \in H : x < k <=> x \in U
  BY UnderstoodGrows, LenProperties
<1>2. w \in STRING
  BY ElementOfSeq
<1>3. r.option = Nothing /\ r.args = a /\ r.outcome = "ok"
  BY <1>1 DEF Goes
<1>4. w \notin Valued => /\ k \in Stops(argv) <=> w \in Questions \/ w \notin Known
                         /\ k \in Errors(argv) <=> w \notin Known
  <2>1. StopsAs(argv, k)
    BY <1>1, StopsWhere
  <2> QED
    BY <2>1 DEF StopsAs
<1>5. /\ w \in Questions => v.outcome = "help"
      /\ w \notin Known => v.outcome = "error"
      /\ w \in Valued => v.outcome = "ok" /\ v.option = w /\ v.args = a
      /\ w \in Switches \cup DOMAIN Assignment => v.outcome = "ok" /\ v.option = Nothing
      /\ w \in {"-n", "--dry-run"} => v.args = [a EXCEPT !.dry_run = TRUE]
      /\ w \in {"-s", "--silent"} => v.args = [a EXCEPT !.silent = TRUE]
      /\ w \in {"-k", "--keep-going"} => v.args = [a EXCEPT !.keep_going = TRUE]
      /\ w \in DOMAIN Assignment =>
           v.args = [a EXCEPT !.definition_overrides = Append(@, Assignment[w])]
  <2>1. OptionReads(v, r, w)
    BY <1>2, OptionRead
  <2> HIDE DEF w, a, v
  <2> QED
    BY <1>3, <2>1 DEF OptionReads
<1>6. Questions \cap Valued = {} /\ (Questions \cup Valued) \cap (Switches \cup DOMAIN Assignment) = {}
  BY CommandLineAssumption DEF Questions, Valued, Switches
<1>7. CASE w \in Valued
  BY <1>1, <1>5, <1>7 DEF Progress, Goes
<1>8. CASE w \notin Valued /\ (w \in Questions \/ w \notin Known)
  <2>1. Min(Stops(argv)) = k
    <3>1. Stops(argv) \subseteq H
      BY DEF Stops, Errors, Unknown, Wrong, Given
    <3>2. ASSUME NEW x \in Stops(argv) PROVE k <= x
      <4>1. x \in H /\ x \notin U
        BY <3>1
      <4>2. x \in Nat /\ k \in Nat /\ ~(x < k)
        BY <1>1, <4>1
      <4> QED
        BY <4>2
    <3>3. Stops(argv) \subseteq Nat /\ k \in Stops(argv)
      <4>1. k \in Stops(argv)
        BY <1>4, <1>8
      <4>2. Stops(argv) \subseteq Nat
        BY <1>1, <3>1
      <4> QED
        BY <4>1, <4>2
    <3> QED
      BY <3>2, <3>3, LeastIs
  <2>2. k \in Stops(argv)
    BY <1>4, <1>8
  <2>3. v.outcome = Said(argv)
    <3> HIDE DEF v, w, Known
    <3> QED
      BY <1>4, <1>5, <1>8, <2>1 DEF Said, Known
  <2> HIDE DEF v
  <2> QED
    BY <1>1, <1>8, <2>2, <2>3 DEF Progress, v
<1>9. CASE w \in Switches \cup DOMAIN Assignment
  <2>1. w \notin Valued /\ w \notin Questions /\ w \in Known
    BY <1>6, <1>9
  <2>2. Stops(argv) \cap (U \cup {k}) = {}
    BY <1>4, <2>1
  <2>3. /\ w \in {"-n", "--dry-run"} => b = [a EXCEPT !.dry_run = TRUE]
        /\ w \in {"-s", "--silent"} => b = [a EXCEPT !.silent = TRUE]
        /\ w \in {"-k", "--keep-going"} => b = [a EXCEPT !.keep_going = TRUE]
        /\ w \in DOMAIN Assignment =>
             b = [a EXCEPT !.definition_overrides = Append(@, Assignment[w])]
    <3>1. U \subseteq 1 .. n /\ \A x \in U : x < k
      BY <1>1
    <3> HIDE DEF U, n
    <3>2. Adds(argv, U, k)
      BY <1>1, <3>1, ArgsMore
    <3> QED
      BY <3>2 DEF Adds
  <2>4. \/ w \in {"-n", "--dry-run"} \/ w \in {"-s", "--silent"}
        \/ w \in {"-k", "--keep-going"} \/ w \in DOMAIN Assignment
    BY <1>9 DEF Switches
  <2>5. v.args = b
    <3> HIDE DEF v, w, a, b
    <3> QED
      BY <1>5, <2>3, <2>4
  <2>6. v.outcome = "ok" /\ v.option = Nothing
    BY <1>5, <1>9
  <2> HIDE DEF v
  <2> QED
    BY <1>1, <2>1, <2>2, <2>5, <2>6 DEF Progress, Goes, v
<1> QED
  BY <1>7, <1>8, <1>9

LEMMA WordProgress ==
  ASSUME NEW D, NEW argv \in Seq(STRING), NEW k \in 1 .. Len(argv),
         NEW r \in ReadingRecord(D, STRING), Progress(argv, r, k - 1)
  PROVE  Progress(argv, ReadWord(r, argv[k]), k)
<1> DEFINE U == Understood(argv, k - 1)
           v == ReadWord(r, argv[k])
<1>1. CASE Stops(argv) \cap U # {}
  <2>1. U \subseteq Understood(argv, k)
    BY UnderstoodGrows
  <2>2. r.outcome = Said(argv)
    BY <1>1 DEF Progress
  <2>3. v = r
    BY <2>2 DEF Said, ReadWord
  <2>4. Stops(argv) \cap Understood(argv, k) # {}
    BY <1>1, <2>1
  <2> HIDE DEF v
  <2> QED
    BY <2>2, <2>3, <2>4 DEF Progress, v
<1>2. CASE Stops(argv) \cap U = {}
  <2>1. Goes(argv, r, k - 1)
    BY <1>2 DEF Progress
  <2>2. r.outcome = "ok" /\ r.option = Due(argv, k - 1)
    BY <2>1 DEF Goes
  <2>3. v = IF Due(argv, k - 1) # Nothing THEN Value(r, argv[k]) ELSE Option(r, argv[k])
    BY <2>2 DEF ReadWord
  <2> HIDE DEF v
  <2>4. CASE Due(argv, k - 1) # Nothing
    BY <1>2, <2>1, <2>3, <2>4, ValueProgress DEF v
  <2>5. CASE Due(argv, k - 1) = Nothing
    BY <1>2, <2>1, <2>3, <2>5, OptionProgress DEF v
  <2> QED
    BY <2>4, <2>5
<1> QED
  BY <1>1, <1>2

\* Every command line is read as it says.
LEMMA ReadAsSaid ==
  ASSUME NEW D, Assignment \in [DOMAIN Assignment -> D], NEW argv \in Seq(STRING)
  PROVE  /\ CliArgs(argv).outcome = OutcomeSaid(argv)
         /\ OutcomeSaid(argv) = "ok" => CliArgs(argv).args = ArgsSaid(argv)
<1> DEFINE n == Len(argv)
           H == Heads(argv)
<1>1. PICK read \in [0 .. Len(argv) -> ReadingRecord(D, STRING)] : Reads(read, argv)
  BY ReadRecursion
<1>2. /\ n \in Nat /\ DOMAIN argv = 1 .. n /\ H \subseteq 1 .. n
  BY HeadsAre, LenProperties DEF HeadsOf
<1> DEFINE Good == {k \in 0 .. n : Progress(argv, read[k], k)}
<1>3. 0 \in Good
  <2>1. Understood(argv, 0) = {}
    <3>1. \A i \in H : i \in Nat /\ ~(i < 0) /\ ~(i <= 0)
      BY <1>2
    <3> QED
      BY <3>1 DEF Understood
  <2>2. Due(argv, 0) = Nothing
    BY <1>2 DEF Due
  <2>3. read[0] = Reading
    BY <1>1 DEF Reads
  <2>4. Goes(argv, read[0], 0)
    BY <2>1, <2>2, <2>3, ArgsOfNone DEF Goes, Reading
  <2> QED
    BY <1>2, <2>1, <2>4 DEF Progress
<1>4. ASSUME NEW k \in 1 .. n, k - 1 \in Good PROVE k \in Good
  <2>1. read[k] = ReadWord(read[k - 1], argv[k]) /\ read[k - 1] \in ReadingRecord(D, STRING)
    BY <1>1, <1>4 DEF Reads
  <2>2. Progress(argv, read[k], k)
    BY <1>4, <2>1, WordProgress
  <2> QED
    BY <2>2
<1>5. \A k \in 0 .. n : k \in Good
  <2> HIDE DEF Good, n
  <2> QED
    BY <1>2, <1>3, <1>4, SetInduction
<1> DEFINE r == read[n]
           U == Understood(argv, n)
<1>6. Progress(argv, r, n) /\ r \in ReadingRecord(D, STRING) /\ CliArgs(argv) = LastWord(r)
  BY <1>1, <1>2, <1>5 DEF Reads
<1>7. /\ OutcomeSaid(argv) = IF Stops(argv) = {} THEN "ok" ELSE Said(argv)
      /\ Stops(argv) \subseteq H
  BY SameOptions DEF OutcomeSaid, Stops, Said, Errors, Unknown, Wrong, Given
<1> HIDE DEF r
<1>8. CASE Stops(argv) \cap U # {}
  <2>1. r.outcome = Said(argv) /\ Stops(argv) # {}
    BY <1>6, <1>8 DEF Progress
  <2> QED
    BY <1>6, <1>7, <2>1 DEF LastWord, Said
<1>9. CASE Stops(argv) \cap U = {} /\ Due(argv, n) # Nothing
  <2>1. n \in H /\ argv[n] \in Valued
    BY <1>9 DEF Due
  <2>2. n \in Stops(argv) /\ n \in Errors(argv)
    <3>1. StopsAs(argv, n)
      BY <2>1, StopsWhere
    <3> QED
      BY <2>1, <3>1 DEF StopsAs
  <2>3. ASSUME NEW x \in Stops(argv) PROVE n <= x
    <3>1. x \in H /\ x \notin U
      BY <1>7, <1>9
    <3>2. x \in 1 .. n /\ ~(IF argv[x] \in Valued THEN x < n ELSE x <= n)
      BY <1>2, <3>1 DEF Understood
    <3> QED
      BY <1>2, <3>2
  <2>4. Stops(argv) \subseteq Nat
    BY <1>2, <1>7
  <2>5. Min(Stops(argv)) = n
    <3> HIDE DEF n
    <3> QED
      BY <2>2, <2>3, <2>4, LeastIs
  <2>6. OutcomeSaid(argv) = "error"
    BY <1>7, <2>2, <2>5 DEF Said
  <2>7. r.outcome = "ok" /\ r.option # Nothing
    BY <1>6, <1>9 DEF Progress, Goes
  <2>8. CliArgs(argv).outcome = "error"
    BY <1>6, <2>7 DEF LastWord, Fails, ReadingRecord
  <2> QED
    BY <2>6, <2>8
<1>10. CASE Stops(argv) \cap U = {} /\ Due(argv, n) = Nothing
  <2>1. ~(n \in H /\ argv[n] \in Valued)
    BY <1>10 DEF Due, Nothing, Valued
  <2>2. U = H
    <3>1. ASSUME NEW x \in H PROVE IF argv[x] \in Valued THEN x < n ELSE x <= n
      <4>1. x \in Nat /\ n \in Nat /\ x <= n
        BY <1>2
      <4> QED
        BY <2>1, <4>1
    <3> QED
      BY <3>1 DEF Understood
  <2>3. Stops(argv) = {}
    BY <1>7, <1>10, <2>2
  <2>4. r.outcome = "ok" /\ r.option = Nothing /\ r.args = ArgsAmong(argv, H)
    BY <1>6, <1>10, <2>2 DEF Progress, Goes
  <2>5. CliArgs(argv) = r
    BY <1>6, <2>4 DEF LastWord
  <2> QED
    BY <1>7, <2>3, <2>4, <2>5, ArgsOfHeads
<1> QED
  BY <1>8, <1>9, <1>10

=============================================================================
