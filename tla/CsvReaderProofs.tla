--------------------------- MODULE CsvReaderProofs ---------------------------
(***************************************************************************)
(* Theorems about Transformers and CsvReader: what the loops over          *)
(* characters, fields and transforms compute, whatever the file is.        *)
(***************************************************************************)
EXTENDS CsvReader, SequenceTheorems, FiniteSetTheorems, TLAPS

(* Induction over an interval: a number that is bad and least, by the       *)
(* intervals up to the bad ones.                                            *)
LEMMA Induction ==
    ASSUME NEW m \in Nat, NEW S, 0 \in S, \A n \in 0..m : n \in S /\ n < m => n + 1 \in S
    PROVE  \A n \in 0..m : n \in S
<1> SUFFICES ASSUME NEW b \in 0..m, b \notin S PROVE FALSE
  OBVIOUS
<1> DEFINE D == 0..m
           T == {0..n : n \in {k \in D : k \notin S}}
           R == StrictSubsetOrdering(D)
<1>1. IsFiniteSet(D)
  BY FS_Interval
<1>2. IsWellFoundedOn(R, SUBSET D)
  BY <1>1, FS_StrictSubsetOrderingWellFounded, FS_FiniteSubsetsOfFinite
<1>3. T \subseteq SUBSET D /\ T # {}
  <2>1. \A n \in D : 0..n \subseteq D
    OBVIOUS
  <2> QED
    BY <2>1
<1> HIDE DEF T, R
<1>4. PICK x \in T : \A y \in T : ~(<<y, x>> \in R)
  BY <1>2, <1>3, WFMin
<1>5. PICK n \in D : n \notin S /\ x = 0..n
  BY <1>4 DEF T
<1>6. n \in Nat /\ n # 0 /\ n - 1 \in D /\ n - 1 < m
  BY <1>5
<1>7. n - 1 \notin S
  <2>1. n - 1 \in S => (n - 1) + 1 \in S
    BY <1>6
  <2>2. (n - 1) + 1 = n
    BY <1>6
  <2> QED
    BY <1>5, <2>1, <2>2
<1>8. 0..n - 1 \in T
  BY <1>6, <1>7 DEF T
<1>9. 0..n - 1 \subseteq 0..n /\ n \in 0..n /\ n \notin 0..n - 1 /\ 0..n \subseteq D
  BY <1>6
<1>10. <<0..n - 1, x>> \in R
  BY <1>5, <1>9 DEF R, StrictSubsetOrdering
<1> QED
  BY <1>4, <1>8, <1>10

(* A loop over a sequence has a result after each of its rounds. *)
Rounds(X, b, m, G) ==
    {r \in [0..m -> X] : r[0] = b /\ \A n \in 1..m : r[n] = G[n][r[n - 1]]}

LEMMA Iterated ==
    ASSUME NEW X, NEW b \in X, NEW m \in Nat, NEW G \in [1..m -> [X -> X]]
    PROVE  Rounds(X, b, m, G) # {}
<1> SUFFICES \E r \in [0..m -> X] : r[0] = b /\ \A n \in 1..m : r[n] = G[n][r[n - 1]]
  BY DEF Rounds
<1> DEFINE Made(r, n) == r = [k \in 0..n |-> IF k = 0 THEN b ELSE G[k][r[k - 1]]]
           Reached == {n \in 0..m : \E r \in [0..n -> X] : Made(r, n)}
<1>1. 0 \in Reached
  <2> DEFINE r == [k \in 0..0 |-> b]
  <2>1. Made(r, 0) /\ r \in [0..0 -> X]
    OBVIOUS
  <2>2. \E q \in [0..0 -> X] : Made(q, 0)
    BY <2>1
  <2> QED
    BY <2>2
<1>2. ASSUME NEW n \in 0..m, n \in Reached, n < m PROVE n + 1 \in Reached
  <2>1. PICK r \in [0..n -> X] : Made(r, n)
    BY <1>2
  <2> DEFINE q == [k \in 0..n + 1 |-> IF k = n + 1 THEN G[n + 1][r[n]] ELSE r[k]]
  <2>2. /\ n + 1 \in 0..n + 1 /\ n \in 0..n + 1 /\ n # n + 1 /\ (n + 1) - 1 = n /\ n + 1 # 0
        /\ n + 1 \in 1..m /\ n \in 0..n
    BY <1>2
  <2>3. q[n + 1] = G[n + 1][q[n]]
    BY <2>2
  <2>4. ASSUME NEW k \in 0..n PROVE q[k] = IF k = 0 THEN b ELSE G[k][q[k - 1]]
    <3>1. k \in 0..n + 1 /\ k # n + 1 /\ q[k] = r[k]
      BY <1>2
    <3>2. k # 0 => k - 1 \in 0..n + 1 /\ k - 1 # n + 1
      BY <1>2
    <3>3. k # 0 => q[k - 1] = r[k - 1]
      BY <3>2
    <3>4. r[k] = IF k = 0 THEN b ELSE G[k][r[k - 1]]
      BY <2>1
    <3> QED
      BY <3>1, <3>3, <3>4
  <2>5. \A k \in 0..n + 1 : k = n + 1 \/ k \in 0..n
    BY <1>2
  <2>6. Made(q, n + 1)
    <3>1. ASSUME NEW k \in 0..n + 1 PROVE q[k] = IF k = 0 THEN b ELSE G[k][q[k - 1]]
      BY <2>2, <2>3, <2>4, <2>5
    <3>2. q = [k \in 0..n + 1 |-> q[k]]
      OBVIOUS
    <3> HIDE DEF q
    <3> QED
      BY <3>1, <3>2
  <2>7. q \in [0..n + 1 -> X]
    <3>1. r[n] \in X /\ G[n + 1] \in [X -> X]
      BY <2>2
    <3>2. G[n + 1][r[n]] \in X
      BY <3>1
    <3>3. \A k \in 0..n + 1 : k # n + 1 => r[k] \in X
      BY <2>5
    <3> QED
      BY <3>2, <3>3
  <2>8. \E z \in [0..n + 1 -> X] : Made(z, n + 1)
    <3> HIDE DEF q
    <3> QED
      BY <2>6, <2>7
  <2>9. n + 1 \in 0..m
    BY <1>2
  <2> QED
    BY <2>8, <2>9
<1>3. \A n \in 0..m : n \in Reached
  <2> HIDE DEF Reached
  <2> QED
    BY <1>1, <1>2, Induction
<1>4. PICK r \in [0..m -> X] : Made(r, m)
  BY <1>3
<1>5. r[0] = b
  BY <1>4
<1>6. ASSUME NEW n \in 1..m PROVE r[n] = G[n][r[n - 1]]
  <2>1. n \in 0..m /\ n # 0
    OBVIOUS
  <2> QED
    BY <1>4, <2>1
<1> QED
  BY <1>5, <1>6

(* Transforms of types that are registered come into the chain in their    *)
(* order, unless "void" follows others.                                    *)
LEMMA ChainInOrder ==
    ASSUME NEW S, NEW ts \in Seq(S), \A i \in DOMAIN ts : ts[i].type \in Registered,
           \A i \in 2..Len(ts) : ts[i].type # "void"
    PROVE  Chain(ts) = ts
<1> DEFINE D == 0..Len(ts)
           Made(f) == f = [n \in D |-> IF n = 0 THEN <<>> ELSE Wrap(f[n - 1], ts[n])]
           g == [n \in D |-> SubSeq(ts, 1, n)]
           made == CHOOSE f : Made(f)
<1>1. Len(ts) \in Nat /\ DOMAIN ts = 1..Len(ts) /\ \A i \in 1..Len(ts) : ts[i] \in S
  OBVIOUS
<1>2. \A n \in D : SubSeq(ts, 1, n) \in Seq(S) /\ Len(SubSeq(ts, 1, n)) = n
                   /\ \A i \in 1..n : SubSeq(ts, 1, n)[i] = ts[i]
  OBVIOUS
<1>3. SubSeq(ts, 1, 0) = <<>>
  OBVIOUS
<1>4. ASSUME NEW n \in D, n # 0 PROVE SubSeq(ts, 1, n) = Wrap(SubSeq(ts, 1, n - 1), ts[n])
  <2>1. n \in 1..Len(ts) /\ n - 1 \in D /\ ts[n].type \in Registered
    BY <1>1, <1>4
  <2>2. Append(SubSeq(ts, 1, n - 1), ts[n]) = SubSeq(ts, 1, n)
    BY <1>1, <1>2, <2>1
  <2>3. CASE ts[n].type = "void"
    <3>1. n = 1
      BY <2>1, <2>3
    <3>2. SubSeq(ts, 1, n - 1) = <<>>
      BY <1>3, <3>1
    <3>3. Append(<<>>, ts[n]) = <<ts[n]>>
      OBVIOUS
    <3>4. SubSeq(ts, 1, n) = <<ts[n]>>
      BY <2>2, <3>2, <3>3
    <3> QED
      BY <2>1, <2>3, <3>4 DEF Wrap
  <2>4. CASE ts[n].type # "void"
    BY <2>1, <2>2, <2>4 DEF Wrap
  <2> QED
    BY <2>3, <2>4
<1>5. Made(g)
  <2>1. \A n \in D : n # 0 => n - 1 \in D
    BY <1>1
  <2> QED
    BY <1>3, <1>4, <2>1
<1>6. Made(made)
  BY <1>5
<1> DEFINE Right == {n \in D : made[n] = SubSeq(ts, 1, n)}
<1>7. Chain(ts) = made[Len(ts)]
  BY DEF Chain
<1> HIDE DEF made
<1>8. 0 \in Right
  BY <1>1, <1>3, <1>6
<1>9. ASSUME NEW n \in D, n \in Right, n < Len(ts) PROVE n + 1 \in Right
  <2>1. n + 1 \in D /\ n + 1 # 0 /\ (n + 1) - 1 = n
    BY <1>1, <1>9
  <2>2. made[n + 1] = Wrap(made[n], ts[n + 1])
    BY <1>6, <2>1
  <2>3. SubSeq(ts, 1, n + 1) = Wrap(SubSeq(ts, 1, n), ts[n + 1])
    BY <1>4, <2>1
  <2> QED
    BY <1>9, <2>1, <2>2, <2>3
<1>10. Len(ts) \in Right
  <2> HIDE DEF Right
  <2>1. \A n \in 0..Len(ts) : n \in Right
    BY <1>1, <1>8, <1>9, Induction
  <2> QED
    BY <1>1, <2>1
<1>11. SubSeq(ts, 1, Len(ts)) = ts
  OBVIOUS
<1> QED
  BY <1>7, <1>10, <1>11


-----------------------------------------------------------------------------
(* Texts. *)

(* Sequences one behind the other: what is there after each of them. *)
LEMMA Flattened ==
    ASSUME NEW S, NEW ss \in Seq(Seq(S))
    PROVE  \E L \in [0..Len(ss) -> Seq(S)] :
              /\ L[0] = <<>> /\ L[Len(ss)] = FlattenSeq(ss)
              /\ \A k \in 1..Len(ss) : L[k] = L[k - 1] \o ss[k]
<1> DEFINE m == Len(ss)
           Good(L, n) == L[0] = <<>> /\ \A k \in 1..n : L[k] = L[k - 1] \o ss[k]
           Reached == {n \in 0..m : \E L \in [0..n -> Seq(S)] : Good(L, n)}
<1>1. m \in Nat /\ DOMAIN ss = 1..m /\ \A k \in 1..m : ss[k] \in Seq(S)
  OBVIOUS
<1>2. 0 \in Reached
  <2> DEFINE L == [n \in 0..0 |-> <<>>]
  <2>1. L \in [0..0 -> Seq(S)] /\ Good(L, 0)
    OBVIOUS
  <2>2. \E X \in [0..0 -> Seq(S)] : Good(X, 0)
    BY <2>1
  <2>3. 0 \in 0..m
    BY <1>1
  <2> QED
    BY <2>2, <2>3
<1>3. ASSUME NEW n \in 0..m, n \in Reached, n < m PROVE n + 1 \in Reached
  <2>1. PICK L \in [0..n -> Seq(S)] : Good(L, n)
    BY <1>3
  <2> DEFINE M == [k \in 0..n + 1 |-> IF k = n + 1 THEN L[n] \o ss[n + 1] ELSE L[k]]
  <2>2. L[n] \o ss[n + 1] \in Seq(S)
    <3>1. L[n] \in Seq(S) /\ ss[n + 1] \in Seq(S)
      BY <1>1, <1>3
    <3> QED
      BY <3>1
  <2>3. M \in [0..n + 1 -> Seq(S)]
    BY <1>3, <2>2
  <2>4. Good(M, n + 1)
    <3>1. M[0] = <<>>
      BY <1>3, <2>1
    <3>2. ASSUME NEW k \in 1..n + 1, k # n + 1 PROVE M[k] = M[k - 1] \o ss[k]
      <4>1. k \in 1..n /\ M[k] = L[k] /\ M[k - 1] = L[k - 1]
        BY <1>3, <3>2
      <4> QED
        BY <2>1, <4>1
    <3>3. M[n + 1] = M[(n + 1) - 1] \o ss[n + 1]
      <4>1. n + 1 \in 0..n + 1 /\ n \in 0..n + 1 /\ n # n + 1 /\ (n + 1) - 1 = n
        BY <1>3
      <4>2. M[n + 1] = L[n] \o ss[n + 1] /\ M[n] = L[n]
        BY <4>1
      <4> QED
        BY <4>1, <4>2
    <3> QED
      BY <3>1, <3>2, <3>3
  <2>5. \E X \in [0..n + 1 -> Seq(S)] : Good(X, n + 1)
    BY <2>3, <2>4
  <2>6. n + 1 \in 0..m
    BY <1>1, <1>3
  <2> QED
    BY <2>5, <2>6
<1>4. PICK L \in [0..m -> Seq(S)] : Good(L, m)
  <2> HIDE DEF Reached, m
  <2>1. \A n \in 0..m : n \in Reached
    BY <1>1, <1>2, <1>3, Induction
  <2>2. m \in Reached
    BY <1>1, <2>1
  <2> QED
    BY <2>2 DEF Reached
<1>5. L[m] = FlattenSeq(ss)
  <2>1. CASE m = 0
    BY <1>1, <1>4, <2>1 DEF FlattenSeq
  <2>2. CASE m # 0
    <3> DEFINE Made(f) == f = [i \in 1..m |-> IF i = 1 THEN ss[i] ELSE f[i - 1] \o ss[i]]
               flatten == CHOOSE f : Made(f)
               Same == {n \in 0..m : n = 0 \/ flatten[n] = L[n]}
               g == [i \in 1..m |-> L[i]]
    <3>1. L[1] = ss[1]
      <4>1. 1 \in 1..m /\ 1 - 1 = 0
        BY <1>1, <2>2
      <4>2. L[1] = <<>> \o ss[1] /\ ss[1] \in Seq(S)
        BY <1>1, <1>4, <4>1
      <4> QED
        BY <4>2
    <3>2. Made(g)
      <4>1. \A i \in 1..m : i # 1 => i - 1 \in 1..m
        BY <1>1
      <4> QED
        BY <1>4, <3>1, <4>1
    <3>3. Made(flatten)
      BY <3>2
    <3>4. FlattenSeq(ss) = flatten[m]
      BY <2>2 DEF FlattenSeq
    <3> HIDE DEF flatten
    <3>5. 0 \in Same
      BY <1>1
    <3>6. ASSUME NEW n \in 0..m, n \in Same, n < m PROVE n + 1 \in Same
      <4>1. n + 1 \in 1..m /\ (n + 1) - 1 = n /\ n + 1 \in 0..m
        BY <1>1, <3>6
      <4>2. flatten[n + 1] = L[n + 1]
        <5>1. CASE n = 0
          BY <1>1, <3>1, <3>3, <4>1, <5>1
        <5>2. CASE n # 0
          <6>1. flatten[n + 1] = flatten[n] \o ss[n + 1]
            <7>1. n + 1 # 1 /\ n + 1 \in 1..m
              BY <3>6, <4>1, <5>2
            <7>2. flatten[n + 1] = flatten[(n + 1) - 1] \o ss[n + 1]
              BY <3>3, <7>1
            <7> QED
              BY <4>1, <7>2
          <6>2. L[n + 1] = L[n] \o ss[n + 1] /\ flatten[n] = L[n]
            BY <1>4, <3>6, <4>1, <5>2
          <6> QED
            BY <6>1, <6>2
        <5> QED
          BY <5>1, <5>2
      <4> QED
        BY <4>1, <4>2
    <3>7. m \in Same
      <4> HIDE DEF Same, m
      <4>1. \A n \in 0..m : n \in Same
        BY <1>1, <3>5, <3>6, Induction
      <4> QED
        BY <1>1, <4>1
    <3> QED
      BY <2>2, <3>4, <3>7
  <2> QED
    BY <2>1, <2>2
<1> QED
  BY <1>4, <1>5

LEMMA FlattenedIn == ASSUME NEW S, NEW ss \in Seq(Seq(S)) PROVE FlattenSeq(ss) \in Seq(S)
<1>1. PICK L \in [0..Len(ss) -> Seq(S)] : L[Len(ss)] = FlattenSeq(ss)
  BY Flattened
<1>2. Len(ss) \in 0..Len(ss)
  OBVIOUS
<1> QED
  BY <1>1, <1>2

(* A character that is taken out is not there any more. *)
LEMMA WithoutIt == ASSUME NEW S, NEW c, NEW v \in Seq(S) PROVE Without(c, v) \in Seq(S \ {c})
<1> DEFINE ss == [i \in DOMAIN v |-> IF v[i] = c THEN <<>> ELSE <<v[i]>>]
<1>1. \A i \in DOMAIN v : v[i] \in S
  OBVIOUS
<1>2. ASSUME NEW i \in DOMAIN v PROVE ss[i] \in Seq(S \ {c})
  <2>1. CASE v[i] = c
    <3>1. <<>> \in Seq(S \ {c})
      OBVIOUS
    <3> QED
      BY <2>1, <3>1
  <2>2. CASE v[i] # c
    <3>1. v[i] \in S \ {c}
      BY <1>1, <2>2
    <3>2. <<v[i]>> \in Seq(S \ {c})
      BY <3>1
    <3> QED
      BY <2>2, <3>2
  <2> QED
    BY <2>1, <2>2
<1>3. ss \in Seq(Seq(S \ {c}))
  <2> HIDE DEF ss
  <2>1. DOMAIN v = 1..Len(v) /\ Len(v) \in Nat
    OBVIOUS
  <2>2. ss \in [1..Len(v) -> Seq(S \ {c})]
    <3>1. ss = [i \in DOMAIN v |-> ss[i]]
      BY DEF ss
    <3> QED
      BY <1>2, <2>1, <3>1
  <2> QED
    BY <2>1, <2>2
<1>4. FlattenSeq(ss) \in Seq(S \ {c})
  <2> HIDE DEF ss
  <2> QED
    BY <1>3, FlattenedIn
<1> QED
  BY <1>4 DEF Without

(* The others stay as they are: when it is only at the end, a text loses    *)
(* its end.                                                                 *)
LEMMA WithoutEnd ==
    ASSUME NEW S, NEW c, NEW v \in Seq(S), NEW n \in 0..Len(v),
           \A i \in 1..n : v[i] # c, \A i \in n + 1..Len(v) : v[i] = c
    PROVE  Without(c, v) = SubSeq(v, 1, n)
<1> DEFINE ss == [i \in DOMAIN v |-> IF v[i] = c THEN <<>> ELSE <<v[i]>>]
           m == Len(v)
           Firsts(k) == SubSeq(v, 1, IF k <= n THEN k ELSE n)
<1>1. DOMAIN v = 1..m /\ m \in Nat /\ \A i \in 1..m : v[i] \in S
  OBVIOUS
<1>2. ss \in Seq(Seq(S)) /\ Len(ss) = m
  <2>1. \A i \in 1..m : ss[i] \in Seq(S)
    BY <1>1
  <2> HIDE DEF m
  <2>2. ss \in [1..m -> Seq(S)]
    BY <1>1, <2>1
  <2> HIDE DEF ss
  <2> QED
    BY <1>1, <2>2
<1>3. PICK L \in [0..m -> Seq(S)] :
          L[0] = <<>> /\ L[m] = FlattenSeq(ss) /\ \A k \in 1..m : L[k] = L[k - 1] \o ss[k]
  <2> HIDE DEF ss, m
  <2>1. \E L \in [0..Len(ss) -> Seq(S)] :
            /\ L[0] = <<>> /\ L[Len(ss)] = FlattenSeq(ss)
            /\ \A k \in 1..Len(ss) : L[k] = L[k - 1] \o ss[k]
    BY <1>2, Flattened
  <2> QED
    BY <1>2, <2>1
<1> DEFINE Right == {k \in 0..m : L[k] = Firsts(k)}
<1>4. 0 \in Right
  <2>1. SubSeq(v, 1, 0) = <<>>
    OBVIOUS
  <2> QED
    BY <1>1, <1>3, <2>1
<1>5. ASSUME NEW k \in 0..m, k \in Right, k < m PROVE k + 1 \in Right
  <2>1. k + 1 \in 1..m /\ (k + 1) - 1 = k /\ k + 1 \in 0..m
    BY <1>1, <1>5
  <2>2. L[k + 1] = L[k] \o ss[k + 1]
    BY <1>3, <2>1
  <2>3. CASE k + 1 <= n
    <3>1. ss[k + 1] = <<v[k + 1]>>
      BY <1>1, <2>1, <2>3
    <3>2. L[k] = SubSeq(v, 1, k) /\ Firsts(k + 1) = SubSeq(v, 1, k + 1)
      BY <1>5, <2>1, <2>3
    <3>3. SubSeq(v, 1, k) \o <<v[k + 1]>> = SubSeq(v, 1, k + 1)
      BY <1>1, <2>1
    <3> QED
      BY <2>1, <2>2, <3>1, <3>2, <3>3
  <2>4. CASE ~(k + 1 <= n)
    <3>1. ss[k + 1] = <<>>
      BY <1>1, <2>1, <2>4
    <3>2. L[k] = SubSeq(v, 1, n) /\ Firsts(k + 1) = SubSeq(v, 1, n)
      BY <1>5, <2>1, <2>4
    <3>3. SubSeq(v, 1, n) \in Seq(S)
      BY <1>1
    <3>4. SubSeq(v, 1, n) \o <<>> = SubSeq(v, 1, n)
      BY <3>3
    <3> QED
      BY <2>1, <2>2, <3>1, <3>2, <3>4
  <2> QED
    BY <2>3, <2>4
<1>6. m \in Right
  <2> HIDE DEF Right, m
  <2>1. \A k \in 0..m : k \in Right
    BY <1>1, <1>4, <1>5, Induction
  <2> QED
    BY <1>1, <2>1
<1>7. SubSeq(v, 1, IF m <= n THEN m ELSE n) = SubSeq(v, 1, n)
  <2>1. m \in Nat /\ n \in 0..m
    BY <1>1
  <2> HIDE DEF m
  <2>2. (IF m <= n THEN m ELSE n) = n
    BY <2>1
  <2> QED
    BY <2>2
<1> QED
  BY <1>3, <1>6, <1>7 DEF Without

-----------------------------------------------------------------------------
(* The loop of CSVRow::next(). *)

(* What it makes of a line comes from step after step. *)
LEMMA ParsedInSteps ==
    ASSUME NEW line, Len(line) \in Nat
    PROVE  \E p : /\ p[0] = Start /\ Parsed(line) = Store(p[Len(line)])
                  /\ \A n \in 1..Len(line) : p[n] = Step(p[n - 1], line[n])
<1> DEFINE m == Len(line)
           Made(p, n) == p = [k \in 0..n |-> IF k = 0 THEN Start ELSE Step(p[k - 1], line[k])]
           Reached == {n \in 0..m : \E p : Made(p, n)}
<1>1. 0 \in Reached
  <2> DEFINE p == [k \in 0..0 |-> Start]
  <2>1. Made(p, 0)
    OBVIOUS
  <2>2. \E q : Made(q, 0)
    BY <2>1
  <2> QED
    BY <2>2
<1>2. ASSUME NEW n \in 0..m, n \in Reached, n < m PROVE n + 1 \in Reached
  <2>1. PICK p : Made(p, n)
    BY <1>2
  <2> DEFINE q == [k \in 0..n + 1 |-> IF k = n + 1 THEN Step(p[n], line[n + 1]) ELSE p[k]]
  <2>2. n + 1 \in 0..n + 1 /\ n \in 0..n + 1 /\ n # n + 1 /\ (n + 1) - 1 = n /\ n + 1 # 0
    BY <1>2
  <2>3. q[n + 1] = Step(q[n], line[n + 1])
    BY <2>2
  <2>4. ASSUME NEW k \in 0..n PROVE q[k] = IF k = 0 THEN Start ELSE Step(q[k - 1], line[k])
    <3>1. k \in 0..n + 1 /\ k # n + 1 /\ q[k] = p[k]
      BY <1>2
    <3>2. k # 0 => k - 1 \in 0..n + 1 /\ k - 1 # n + 1
      BY <1>2
    <3>3. k # 0 => q[k - 1] = p[k - 1]
      BY <3>2
    <3>4. p[k] = IF k = 0 THEN Start ELSE Step(p[k - 1], line[k])
      BY <2>1
    <3> QED
      BY <3>1, <3>3, <3>4
  <2>5. \A k \in 0..n + 1 : k = n + 1 \/ k \in 0..n
    BY <1>2
  <2>6. Made(q, n + 1)
    <3>1. ASSUME NEW k \in 0..n + 1
          PROVE  q[k] = IF k = 0 THEN Start ELSE Step(q[k - 1], line[k])
      BY <2>2, <2>3, <2>4, <2>5
    <3>2. q = [k \in 0..n + 1 |-> q[k]]
      OBVIOUS
    <3> HIDE DEF q
    <3> QED
      BY <3>1, <3>2
  <2>7. \E r : Made(r, n + 1)
    BY <2>6
  <2>8. n + 1 \in 0..m
    BY <1>2
  <2> QED
    BY <2>7, <2>8
<1> DEFINE p == CHOOSE p : Made(p, m)
<1>3. Made(p, m)
  <2> HIDE DEF Reached, m
  <2>1. \A n \in 0..m : n \in Reached
    BY <1>1, <1>2, Induction DEF m
  <2>2. m \in Reached
    BY <2>1 DEF m
  <2>3. \E r : Made(r, m)
    BY <2>2 DEF Reached
  <2> QED
    BY <2>3
<1>4. Parsed(line) = Store(p[m])
  BY DEF Parsed
<1> HIDE DEF p
<1>5. p[0] = Start
  BY <1>3
<1>6. ASSUME NEW n \in 1..m PROVE p[n] = Step(p[n - 1], line[n])
  <2>1. n \in 0..m /\ n # 0
    OBVIOUS
  <2> QED
    BY <1>3, <2>1
<1> QED
  BY <1>4, <1>5, <1>6

(* From p the characters of s lead to q. *)
Reads(p, s, q) ==
    \E r : r[0] = p /\ r[Len(s)] = q /\ \A n \in 1..Len(s) : r[n] = Step(r[n - 1], s[n])

LEMMA ParsedRead ==
    ASSUME NEW S, NEW line \in Seq(S), NEW q, Reads(Start, line, q)
    PROVE  Parsed(line) = Store(q)
<1> DEFINE m == Len(line)
<1>1. m \in Nat
  OBVIOUS
<1>2. PICK p : /\ p[0] = Start /\ Parsed(line) = Store(p[m])
               /\ \A n \in 1..m : p[n] = Step(p[n - 1], line[n])
  BY <1>1, ParsedInSteps
<1>3. PICK r : r[0] = Start /\ r[m] = q /\ \A n \in 1..m : r[n] = Step(r[n - 1], line[n])
  BY DEF Reads
<1> DEFINE Same == {n \in 0..m : p[n] = r[n]}
<1>4. 0 \in Same
  BY <1>1, <1>2, <1>3
<1>5. ASSUME NEW n \in 0..m, n \in Same, n < m PROVE n + 1 \in Same
  <2>1. n + 1 \in 1..m /\ n + 1 \in 0..m /\ (n + 1) - 1 = n
    BY <1>1, <1>5
  <2>2. p[n + 1] = Step(p[n], line[n + 1]) /\ r[n + 1] = Step(r[n], line[n + 1])
    BY <1>2, <1>3, <2>1
  <2> QED
    BY <1>5, <2>1, <2>2
<1>6. m \in Same
  <2> HIDE DEF Same, m
  <2>1. \A n \in 0..m : n \in Same
    BY <1>1, <1>4, <1>5, Induction
  <2> QED
    BY <1>1, <2>1
<1> QED
  BY <1>2, <1>3, <1>6

LEMMA ReadsNothing == ASSUME NEW p PROVE Reads(p, <<>>, p)
<1> DEFINE r == [n \in 0..0 |-> p]
<1>1. r[0] = p /\ Len(<<>>) = 0 /\ 1..0 = {}
  OBVIOUS
<1> HIDE DEF r
<1> QED
  BY <1>1 DEF Reads

LEMMA ReadsBoth ==
    ASSUME NEW S, NEW s \in Seq(S), NEW t \in Seq(S), NEW p, NEW q, NEW z,
           Reads(p, s, q), Reads(q, t, z)
    PROVE  Reads(p, s \o t, z)
<1> DEFINE m == Len(s)
           k == Len(t)
<1>1. PICK u : u[0] = p /\ u[m] = q /\ \A n \in 1..m : u[n] = Step(u[n - 1], s[n])
  BY DEF Reads
<1>2. PICK v : v[0] = q /\ v[k] = z /\ \A n \in 1..k : v[n] = Step(v[n - 1], t[n])
  BY DEF Reads
<1>3. m \in Nat /\ k \in Nat /\ Len(s \o t) = m + k
  OBVIOUS
<1>4. /\ \A n \in 1..m : (s \o t)[n] = s[n]
      /\ \A n \in m + 1..m + k : (s \o t)[n] = t[n - m]
  OBVIOUS
<1> DEFINE r == [n \in 0..m + k |-> IF n <= m THEN u[n] ELSE v[n - m]]
           st == s \o t
<1> HIDE DEF m, k, st
<1>5. r[0] = p
  BY <1>1, <1>3
<1>6. r[m + k] = z
  <2>1. CASE k = 0
    <3>1. r[m + k] = u[m] /\ q = z
      BY <1>2, <1>3, <2>1
    <3> QED
      BY <1>1, <3>1
  <2>2. CASE k # 0
    <3>1. ~(m + k <= m) /\ (m + k) - m = k /\ m + k \in 0..m + k
      BY <1>3, <2>2
    <3>2. r[m + k] = v[k]
      BY <3>1
    <3> QED
      BY <1>2, <3>2
  <2> QED
    BY <2>1, <2>2
<1>7. ASSUME NEW n \in 1..m + k PROVE r[n] = Step(r[n - 1], st[n])
  <2>1. n \in 0..m + k /\ n - 1 \in 0..m + k
    BY <1>3
  <2>2. CASE n <= m
    <3>1. n \in 1..m /\ n - 1 <= m
      BY <1>3, <2>2
    <3>2. r[n] = u[n] /\ r[n - 1] = u[n - 1] /\ st[n] = s[n]
      BY <1>4, <2>1, <2>2, <3>1 DEF st
    <3> QED
      BY <1>1, <3>1, <3>2
  <2>3. CASE ~(n <= m)
    <3>1. n - m \in 1..k /\ n \in m + 1..m + k /\ (n - m) - 1 = (n - 1) - m
      BY <1>3, <2>3
    <3>2. r[n] = v[n - m] /\ st[n] = t[n - m]
      BY <1>4, <2>1, <2>3, <3>1 DEF st
    <3>3. r[n - 1] = v[(n - m) - 1]
      <4>1. CASE n - 1 <= m
        <5>1. n - 1 = m /\ (n - m) - 1 = 0
          BY <1>3, <2>3, <4>1
        <5>2. r[n - 1] = u[m]
          BY <2>1, <4>1, <5>1
        <5> QED
          BY <1>1, <1>2, <5>1, <5>2
      <4>2. CASE ~(n - 1 <= m)
        <5>1. r[n - 1] = v[(n - 1) - m]
          BY <2>1, <4>2
        <5> QED
          BY <3>1, <5>1
      <4> QED
        BY <4>1, <4>2
    <3>4. v[n - m] = Step(v[(n - m) - 1], t[n - m])
      BY <1>2, <3>1
    <3> QED
      BY <3>2, <3>3, <3>4
  <2> QED
    BY <2>2, <2>3
<1>8. Len(st) = m + k
  BY <1>3 DEF st
<1> HIDE DEF r
<1>9. Reads(p, st, z)
  BY <1>5, <1>6, <1>7, <1>8 DEF Reads
<1> QED
  BY <1>9 DEF st

LEMMA ReadsOne == ASSUME NEW p, NEW c PROVE Reads(p, <<c>>, Step(p, c))
<1> DEFINE r == [n \in 0..1 |-> IF n = 0 THEN p ELSE Step(p, c)]
           s == <<c>>
<1>1. r[0] = p /\ r[1] = Step(p, c) /\ Len(s) = 1 /\ s[1] = c /\ 1..1 = {1} /\ 1 - 1 = 0
  OBVIOUS
<1> HIDE DEF r, s
<1>2. Reads(p, s, Step(p, c))
  BY <1>1 DEF Reads
<1> QED
  BY <1>2 DEF s

-----------------------------------------------------------------------------
(* Fields. *)

Parser(state, i, field, map) == [state |-> state, i |-> i, field |-> field, map |-> map]

LEMMA Characters ==
    /\ {Comma, Quote, NewLine, Return} \subseteq Chars
    /\ Comma # Quote /\ Comma # NewLine /\ Comma # Return
    /\ Quote # NewLine /\ Quote # Return /\ NewLine # Return
BY CharsAssumption DEF Comma, Quote, NewLine, Return

LEMMA StepAtComma ==
    ASSUME NEW i, NEW w, NEW map, NEW state \in {"UnquotedField", "QuotedQuote"}
    PROVE  Step(Parser(state, i, w, map), Comma)
               = Parser("UnquotedField", i + 1, <<>>, Assign(map, Column(i), w))
<1> DEFINE new == Assign(map, Column(i), w)
<1>1. Comma # Quote
  BY DEF Comma, Quote
<1>2. Assign(Parser(state, i, w, map).map, Column(Parser(state, i, w, map).i),
             Parser(state, i, w, map).field) = new
  BY DEF Parser
<1> HIDE DEF new
<1>3. Store(Parser(state, i, w, map)) = Parser(state, i, w, new)
  BY <1>2 DEF Store, Parser
<1>4. Parser(state, i, w, new).map = new
  BY DEF Parser
<1>5. Parser(state, i, w, map).i = i /\ Parser(state, i, w, map).state = state
  BY DEF Parser
<1>6. EndField(Parser(state, i, w, map)) = Parser("UnquotedField", i + 1, <<>>, new)
  BY <1>3, <1>4, <1>5 DEF EndField, Parser
<1>7. Step(Parser(state, i, w, map), Comma) = EndField(Parser(state, i, w, map))
  BY <1>1, <1>5 DEF Step, UnquotedField, QuotedQuote
<1> QED
  BY <1>6, <1>7 DEF new

LEMMA StepOfParser ==
    ASSUME NEW i, NEW w, NEW map, NEW c
    PROVE  /\ c \notin {Comma, Quote} =>
                Step(Parser("UnquotedField", i, w, map), c)
                    = Parser("UnquotedField", i, Append(w, c), map)
           /\ c # Quote =>
                Step(Parser("QuotedField", i, w, map), c)
                    = Parser("QuotedField", i, Append(w, c), map)
           /\ Step(Parser("UnquotedField", i, w, map), Quote) = Parser("QuotedField", i, w, map)
           /\ Step(Parser("QuotedField", i, w, map), Quote) = Parser("QuotedQuote", i, w, map)
           /\ Step(Parser("QuotedQuote", i, w, map), Quote)
                = Parser("QuotedField", i, Append(w, Quote), map)
<1>1. Comma # Quote
  BY DEF Comma, Quote
<1>2. ASSUME NEW state
      PROVE  PushBack(Parser(state, i, w, map), c) = Parser(state, i, Append(w, c), map)
  BY DEF PushBack, Parser
<1>3. \A state : Parser(state, i, w, map).state = state
  BY DEF Parser
<1>4. c \notin {Comma, Quote} =>
          Step(Parser("UnquotedField", i, w, map), c)
              = Parser("UnquotedField", i, Append(w, c), map)
  BY <1>2, <1>3 DEF Step, UnquotedField
<1>5. c # Quote =>
          Step(Parser("QuotedField", i, w, map), c) = Parser("QuotedField", i, Append(w, c), map)
  BY <1>2, <1>3 DEF Step, QuotedField
<1>6. /\ Step(Parser("UnquotedField", i, w, map), Quote) = Parser("QuotedField", i, w, map)
      /\ Step(Parser("QuotedField", i, w, map), Quote) = Parser("QuotedQuote", i, w, map)
  BY <1>1 DEF Step, UnquotedField, QuotedField, Parser
<1>7. Step(Parser("QuotedQuote", i, w, map), Quote)
          = Parser("QuotedField", i, Append(w, Quote), map)
  BY <1>1 DEF Step, QuotedQuote, PushBack, Parser
<1> QED
  BY <1>4, <1>5, <1>6, <1>7

(* A field without commas and quotes is read as it is. *)
LEMMA UnquotedIsRead ==
    ASSUME NEW v \in Fields, Range(v) \intersect {Comma, Quote} = {}, NEW i, NEW map
    PROVE  Reads(Parser("UnquotedField", i, <<>>, map), v, Parser("UnquotedField", i, v, map))
<1> DEFINE m == Len(v)
           Firsts(n) == SubSeq(v, 1, n)
           At(n) == Parser("UnquotedField", i, Firsts(n), map)
           Right == {n \in 0..m : Reads(At(0), Firsts(n), At(n))}
<1>1. m \in Nat /\ v \in Seq(Chars)
  BY DEF Fields
<1>2. \A n \in 1..m : v[n] \in Chars /\ v[n] \notin {Comma, Quote}
  BY <1>1 DEF Range
<1>3. Firsts(0) = <<>> /\ Firsts(m) = v
  BY <1>1
<1>4. 0 \in Right
  <2>1. Reads(At(0), <<>>, At(0))
    BY ReadsNothing
  <2>2. 0 \in 0..m
    BY <1>1
  <2> HIDE DEF At, Front
  <2> QED
    BY <1>3, <2>1, <2>2
<1>5. ASSUME NEW n \in 0..m, n \in Right, n < m PROVE n + 1 \in Right
  <2>1. n + 1 \in 1..m /\ n + 1 \in 0..m
    BY <1>1, <1>5
  <2> DEFINE c == v[n + 1]
  <2>2. Firsts(n) \in Seq(Chars) /\ <<c>> \in Seq(Chars)
    BY <1>1, <1>2, <2>1
  <2>3. Firsts(n + 1) = Append(Firsts(n), c) /\ Firsts(n + 1) = Firsts(n) \o <<c>>
    BY <1>1, <2>1
  <2>4. Step(At(n), c) = At(n + 1)
    <3>1. c \notin {Comma, Quote}
      BY <1>2, <2>1
    <3> HIDE DEF Front, c
    <3>2. Step(Parser("UnquotedField", i, Firsts(n), map), c)
              = Parser("UnquotedField", i, Append(Firsts(n), c), map)
      BY <3>1, StepOfParser
    <3> QED
      BY <2>3, <3>2
  <2>5. Reads(At(n), <<c>>, At(n + 1))
    BY <2>4, ReadsOne
  <2>6. Reads(At(0), Firsts(n), At(n))
    BY <1>5
  <2> HIDE DEF At, Front, c
  <2>7. Reads(At(0), Firsts(n) \o <<c>>, At(n + 1))
    BY <2>2, <2>5, <2>6, ReadsBoth
  <2> QED
    BY <2>1, <2>3, <2>7
<1>6. Reads(At(0), Firsts(m), At(m))
  <2> HIDE DEF Right, m
  <2>1. \A n \in 0..m : n \in Right
    BY <1>1, <1>4, <1>5, Induction
  <2>2. m \in Right
    BY <1>1, <2>1
  <2> HIDE DEF At, Front
  <2> QED
    BY <2>2 DEF Right
<1> QED
  BY <1>3, <1>6

LEMMA OneAndOne == ASSUME NEW a, NEW b PROVE <<a>> \o <<b>> = <<a, b>>
<1> DEFINE u == <<a>> \o <<b>>
           w == <<a, b>>
<1>1. <<a>> \in Seq({a, b}) /\ <<b>> \in Seq({a, b}) /\ w \in Seq({a, b})
  OBVIOUS
<1>2. u \in Seq({a, b}) /\ Len(u) = 2 /\ u[1] = a /\ u[2] = b
  BY <1>1, ConcatProperties
<1>3. Len(w) = 2 /\ w[1] = a /\ w[2] = b
  OBVIOUS
<1> HIDE DEF u, w
<1>4. u = w
  BY <1>1, <1>2, <1>3, SeqEqual
<1> QED
  BY <1>4 DEF u, w

LEMMA DoubledIn ==
    ASSUME NEW v \in Fields
    PROVE  /\ [i \in DOMAIN v |-> IF v[i] = Quote THEN <<Quote, Quote>> ELSE <<v[i]>>] \in Seq(Fields)
           /\ Doubled(v) \in Fields /\ Quoted(v) \in Fields
<1> DEFINE ss == [i \in DOMAIN v |-> IF v[i] = Quote THEN <<Quote, Quote>> ELSE <<v[i]>>]
<1>1. DOMAIN v = 1..Len(v) /\ Len(v) \in Nat /\ Quote \in Chars /\ \A i \in DOMAIN v : v[i] \in Chars
  BY Characters DEF Fields
<1>2. <<Quote, Quote>> \in Seq(Chars) /\ <<Quote>> \in Seq(Chars)
  BY <1>1
<1>3. \A i \in DOMAIN v : ss[i] \in Seq(Chars)
  BY <1>1, <1>2
<1>4. ss \in Seq(Seq(Chars))
  BY <1>1, <1>3
<1> HIDE DEF ss
<1>5. FlattenSeq(ss) \in Seq(Chars)
  BY <1>4, FlattenedIn
<1>6. Doubled(v) \in Seq(Chars)
  BY <1>5 DEF Doubled, ss
<1>7. Quoted(v) \in Seq(Chars)
  BY <1>2, <1>6 DEF Quoted
<1> QED
  BY <1>4, <1>6, <1>7 DEF Fields, ss

(* A field between quotes, with its own quotes doubled, is read as it was   *)
(* before, whatever is in it.                                               *)
LEMMA QuotedIsRead ==
    ASSUME NEW v \in Fields, NEW i, NEW map
    PROVE  Reads(Parser("UnquotedField", i, <<>>, map), Quoted(v),
                 Parser("QuotedQuote", i, v, map))
<1> DEFINE m == Len(v)
           Firsts(n) == SubSeq(v, 1, n)
           At(n) == Parser("QuotedField", i, Firsts(n), map)
           ss == [k \in DOMAIN v |-> IF v[k] = Quote THEN <<Quote, Quote>> ELSE <<v[k]>>]
<1>1. m \in Nat /\ v \in Seq(Chars) /\ DOMAIN v = 1..m
  BY DEF Fields
<1>2. \A n \in 1..m : v[n] \in Chars
  BY <1>1
<1>3. Firsts(0) = <<>> /\ Firsts(m) = v
  BY <1>1
<1>4. ss \in Seq(Seq(Chars)) /\ Doubled(v) = FlattenSeq(ss) /\ Doubled(v) \in Seq(Chars)
  BY DoubledIn DEF Doubled, Fields
<1>5. Len(ss) = m
  BY <1>1
<1>6. PICK L \in [0..m -> Seq(Chars)] :
          L[0] = <<>> /\ L[m] = Doubled(v) /\ \A k \in 1..m : L[k] = L[k - 1] \o ss[k]
  <2> HIDE DEF ss, m
  <2>1. \E L \in [0..Len(ss) -> Seq(Chars)] :
            /\ L[0] = <<>> /\ L[Len(ss)] = FlattenSeq(ss)
            /\ \A k \in 1..Len(ss) : L[k] = L[k - 1] \o ss[k]
    BY <1>4, Flattened
  <2> QED
    BY <1>4, <1>5, <2>1
<1>7. Quote \in Chars /\ <<Quote>> \in Seq(Chars)
  BY Characters
<1> DEFINE Right == {n \in 0..m : Reads(At(0), L[n], At(n))}
<1>8. 0 \in Right
  <2>1. Reads(At(0), <<>>, At(0))
    BY ReadsNothing
  <2> HIDE DEF At
  <2> QED
    BY <1>1, <1>6, <2>1
<1>9. ASSUME NEW n \in 0..m, n \in Right, n < m PROVE n + 1 \in Right
  <2>1. n + 1 \in 1..m /\ n + 1 \in 0..m /\ (n + 1) - 1 = n
    BY <1>1, <1>9
  <2> DEFINE c == v[n + 1]
  <2>2. Firsts(n + 1) = Append(Firsts(n), c)
    BY <1>1, <2>1
  <2>3. L[n + 1] = L[n] \o ss[n + 1] /\ L[n] \in Seq(Chars)
    BY <1>6, <2>1
  <2>4. ss[n + 1] \in Seq(Chars)
    BY <1>1, <1>4, <2>1
  <2>5. Reads(At(n), ss[n + 1], At(n + 1))
    <3>1. CASE c = Quote
      <4> DEFINE between == Parser("QuotedQuote", i, Firsts(n), map)
      <4>1. Step(At(n), Quote) = between /\ Step(between, Quote) = At(n + 1)
        <5> HIDE DEF Front, c
        <5>1. /\ Step(Parser("QuotedField", i, Firsts(n), map), Quote) = between
              /\ Step(between, Quote) = Parser("QuotedField", i, Append(Firsts(n), Quote), map)
          BY StepOfParser
        <5> QED
          BY <2>2, <3>1, <5>1
      <4>2. Reads(At(n), <<Quote>>, between) /\ Reads(between, <<Quote>>, At(n + 1))
        BY <4>1, ReadsOne
      <4> HIDE DEF between, At
      <4>3. Reads(At(n), <<Quote>> \o <<Quote>>, At(n + 1))
        BY <1>7, <4>2, ReadsBoth
      <4>4. <<Quote>> \o <<Quote>> = <<Quote, Quote>>
        BY OneAndOne
      <4>5. ss[n + 1] = <<Quote, Quote>>
        BY <1>1, <2>1, <3>1
      <4> QED
        BY <4>3, <4>4, <4>5
    <3>2. CASE c # Quote
      <4>1. Step(At(n), c) = At(n + 1)
        <5> HIDE DEF Front, c
        <5>1. Step(Parser("QuotedField", i, Firsts(n), map), c)
                  = Parser("QuotedField", i, Append(Firsts(n), c), map)
          BY <3>2, StepOfParser
        <5> QED
          BY <2>2, <5>1
      <4>2. Reads(At(n), <<c>>, At(n + 1))
        BY <4>1, ReadsOne
      <4>3. ss[n + 1] = <<c>>
        BY <1>1, <2>1, <3>2
      <4> QED
        BY <4>2, <4>3
    <3> QED
      BY <3>1, <3>2
  <2>6. Reads(At(0), L[n], At(n))
    BY <1>9
  <2> HIDE DEF At, ss
  <2>7. Reads(At(0), L[n] \o ss[n + 1], At(n + 1))
    BY <2>3, <2>4, <2>5, <2>6, ReadsBoth
  <2> QED
    BY <2>1, <2>3, <2>7
<1>10. Reads(At(0), Doubled(v), At(m))
  <2> HIDE DEF Right, m
  <2>1. \A n \in 0..m : n \in Right
    BY <1>1, <1>8, <1>9, Induction
  <2>2. m \in Right
    BY <1>1, <2>1
  <2> HIDE DEF At
  <2> QED
    BY <1>6, <2>2 DEF Right
<1> DEFINE first == Parser("UnquotedField", i, <<>>, map)
           last == Parser("QuotedQuote", i, v, map)
<1>11. Reads(first, <<Quote>>, At(0)) /\ Reads(At(m), <<Quote>>, last)
  <2>1. Step(first, Quote) = At(0) /\ Step(At(m), Quote) = last
    <3> HIDE DEF Front, m
    <3>1. /\ Step(Parser("UnquotedField", i, <<>>, map), Quote)
                = Parser("QuotedField", i, <<>>, map)
          /\ Step(Parser("QuotedField", i, v, map), Quote) = Parser("QuotedQuote", i, v, map)
      BY StepOfParser
    <3> QED
      BY <1>3, <3>1
  <2> QED
    BY <2>1, ReadsOne
<1> HIDE DEF first, last, At
<1>12. Reads(first, <<Quote>> \o Doubled(v), At(m)) /\ <<Quote>> \o Doubled(v) \in Seq(Chars)
  <2> DEFINE one == <<Quote>>
  <2>1. one \in Seq(Chars) /\ one \o Doubled(v) \in Seq(Chars) /\ Doubled(v) \in Seq(Chars)
    BY <1>4, <1>7
  <2> HIDE DEF one, m, ss
  <2>2. Reads(first, one \o Doubled(v), At(m))
    BY <1>10, <1>11, <2>1, ReadsBoth DEF one
  <2> QED
    BY <2>1, <2>2 DEF one
<1>13. Reads(first, (<<Quote>> \o Doubled(v)) \o <<Quote>>, last)
  BY <1>7, <1>11, <1>12, ReadsBoth
<1> QED
  BY <1>13 DEF Quoted, first, last

(* However a field is written, the parser has it at its end. *)
LEMMA WordIsRead ==
    ASSUME NEW f, NEW v \in Fields, NEW i, NEW map
    PROVE  /\ Word(f, v) \in Fields
           /\ \E state \in {"UnquotedField", "QuotedQuote"} :
                 Reads(Parser("UnquotedField", i, <<>>, map), Word(f, v), Parser(state, i, v, map))
<1>1. CASE f.quote = "all" \/ NeedsQuotes(v)
  BY <1>1, QuotedIsRead, DoubledIn DEF Word
<1>2. CASE ~(f.quote = "all" \/ NeedsQuotes(v))
  BY <1>2, UnquotedIsRead DEF Word, NeedsQuotes
<1> QED
  BY <1>1, <1>2

-----------------------------------------------------------------------------
(* Lines. *)

LEMMA AssignedValue ==
    ASSUME NEW row, NEW c, NEW v, NEW d
    PROVE  Value(Assign(row, c, v), d) = IF d = c THEN v ELSE Value(row, d)
BY DEF Value, Assign

LEMMA HeaderFacts ==
    /\ Len(Header) \in Nat \ {0} /\ DOMAIN Header = 1..Len(Header)
    /\ \A i, j \in 1..Len(Header) : Header[i] = Header[j] => i = j
    /\ \A i \in 1..Len(Header) : /\ Header[i] \in Range(Header) /\ Header[i] # Junk
                                 /\ Header[i] \in Seq(Chars \ {Comma, NewLine, Return})
                                 /\ Header[i] \in Fields
<1>1. Header \in Seq(Seq(Chars \ {Comma, NewLine, Return})) /\ Header # <<>>
  BY ColumnsAssumption
<1>2. Len(Header) \in Nat \ {0} /\ DOMAIN Header = 1..Len(Header)
  BY <1>1
<1>3. \A i, j \in 1..Len(Header) : Header[i] = Header[j] => i = j
  BY <1>2, ColumnsAssumption DEF IsInjective
<1>4. \A i \in 1..Len(Header) : Header[i] \in Range(Header) /\ Header[i] # Junk
  BY <1>2, ColumnsAssumption DEF Range
<1>5. ASSUME NEW i \in 1..Len(Header)
      PROVE  Header[i] \in Seq(Chars \ {Comma, NewLine, Return}) /\ Header[i] \in Fields
  <2>1. Header[i] \in Seq(Chars \ {Comma, NewLine, Return})
    BY <1>1
  <2>2. Seq(Chars \ {Comma, NewLine, Return}) \subseteq Seq(Chars)
    OBVIOUS
  <2> QED
    BY <2>1, <2>2 DEF Fields
<1> QED
  BY <1>2, <1>3, <1>4, <1>5

(* The next field comes under its name, and those before it stay. *)
LEMMA FieldIsStored ==
    ASSUME m_columns = Header, NEW row, NEW k \in Nat, NEW map,
           \A i \in 1..k : i <= Len(Header) => Value(map, Header[i]) = row[i]
    PROVE  \A i \in 1..k + 1 : i <= Len(Header) =>
                Value(Assign(map, Column(k + 1), row[k + 1]), Header[i]) = row[i]
<1> SUFFICES ASSUME NEW i \in 1..k + 1, i <= Len(Header)
             PROVE  Value(Assign(map, Column(k + 1), row[k + 1]), Header[i]) = row[i]
  OBVIOUS
<1>1. i \in 1..Len(Header)
  BY HeaderFacts
<1>2. CASE i = k + 1
  <2>1. Column(k + 1) = Header[i]
    BY <1>2 DEF Column
  <2> QED
    BY <1>2, <2>1, AssignedValue
<1>3. CASE i # k + 1
  <2>1. Column(k + 1) # Header[i]
    <3>1. k + 1 <= Len(Header) => k + 1 \in 1..Len(Header)
      BY HeaderFacts
    <3> QED
      BY <1>1, <1>3, <3>1, HeaderFacts DEF Column
  <2>2. i \in 1..k
    BY <1>3
  <2> QED
    BY <2>1, <2>2, AssignedValue
<1> QED
  BY <1>2, <1>3

(* The pieces of a text and their ends. *)
LEMMA JoinedPieces ==
    ASSUME NEW words \in Seq(Fields), NEW sep \in Fields
    PROVE  \E L \in [0..Len(words) -> Fields] :
              /\ L[0] = <<>> /\ L[Len(words)] = Joined(words, sep)
              /\ \A k \in 1..Len(words) :
                    L[k] = L[k - 1] \o (IF k = Len(words) THEN words[k] ELSE words[k] \o sep)
<1> DEFINE ss == [i \in DOMAIN words |-> IF i = Len(words) THEN words[i] ELSE words[i] \o sep]
           m == Len(words)
<1>1. m \in Nat /\ DOMAIN words = 1..m /\ \A i \in 1..m : words[i] \in Seq(Chars)
  BY DEF Fields
<1>2. ss \in Seq(Seq(Chars)) /\ Len(ss) = m
  <2>1. \A i \in 1..m : words[i] \o sep \in Seq(Chars)
    BY <1>1 DEF Fields
  <2> HIDE DEF m
  <2>2. ss \in [1..m -> Seq(Chars)]
    BY <1>1, <2>1
  <2> HIDE DEF ss
  <2> QED
    BY <1>1, <2>2
<1>3. \A k \in 1..m : ss[k] = IF k = Len(words) THEN words[k] ELSE words[k] \o sep
  BY <1>1
<1>4. Joined(words, sep) = FlattenSeq(ss)
  BY DEF Joined
<1> HIDE DEF ss
<1>5. \E L \in [0..Len(ss) -> Seq(Chars)] :
          /\ L[0] = <<>> /\ L[Len(ss)] = FlattenSeq(ss)
          /\ \A k \in 1..Len(ss) : L[k] = L[k - 1] \o ss[k]
  BY <1>2, Flattened
<1> QED
  BY <1>2, <1>3, <1>4, <1>5 DEF Fields

(* A row that a producer wrote is read back: each field under the name of   *)
(* its column, and not one field more.                                      *)
THEOREM LineIsRead ==
    ASSUME m_columns = Header, NEW f, NEW row \in Seq(Fields), row # <<>>
    PROVE  /\ \A i \in 1..Len(row) : i <= Len(Header) =>
                 Value(Parsed(Line(f, row)).map, Header[i]) = row[i]
           /\ Parsed(Line(f, row)).i = Len(row)
<1> DEFINE n == Len(row)
           words == [i \in DOMAIN row |-> Word(f, row[i])]
           sep == <<Comma>>
           Upto(k, map) == \A i \in 1..k : i <= Len(Header) => Value(map, Header[i]) = row[i]
           At(k, map) == Parser("UnquotedField", k + 1, <<>>, map)
<1>1. n \in Nat /\ n # 0 /\ DOMAIN row = 1..n /\ \A i \in 1..n : row[i] \in Fields
  OBVIOUS
<1>2. sep \in Fields /\ Comma \in Chars
  BY Characters DEF Fields
<1>3. words \in Seq(Fields) /\ Len(words) = n /\ \A i \in 1..n : words[i] = Word(f, row[i])
  <2>1. \A i \in 1..n : Word(f, row[i]) \in Fields
    BY <1>1, WordIsRead
  <2> QED
    BY <1>1, <2>1
<1> HIDE DEF words, n, sep
<1>4. PICK L \in [0..n -> Fields] :
          /\ L[0] = <<>> /\ L[n] = Line(f, row)
          /\ \A k \in 1..n : L[k] = L[k - 1] \o (IF k = n THEN words[k] ELSE words[k] \o sep)
  <2>1. Line(f, row) = Joined(words, sep)
    BY DEF Line, words, sep
  <2>2. \E L \in [0..Len(words) -> Fields] :
            /\ L[0] = <<>> /\ L[Len(words)] = Joined(words, sep)
            /\ \A k \in 1..Len(words) :
                  L[k] = L[k - 1] \o (IF k = Len(words) THEN words[k] ELSE words[k] \o sep)
    BY <1>2, <1>3, JoinedPieces
  <2> QED
    BY <1>3, <2>1, <2>2
<1> DEFINE Right == {k \in 0..n - 1 : \E map : Reads(Start, L[k], At(k, map)) /\ Upto(k, map)}
<1>5. 0 \in Right
  <2>1. Start = At(0, m_map_data)
    BY DEF Start, Parser
  <2>2. Reads(Start, <<>>, Start)
    BY ReadsNothing
  <2>3. Reads(Start, L[0], At(0, m_map_data))
    BY <1>4, <2>1, <2>2
  <2>4. Upto(0, m_map_data) /\ 0 \in 0..n - 1
    BY <1>1
  <2> HIDE DEF At, Upto
  <2> QED
    BY <2>3, <2>4
<1>6. ASSUME NEW k \in 0..n - 1, k \in Right, k < n - 1 PROVE k + 1 \in Right
  <2>1. /\ k + 1 \in 1..n /\ k + 1 \in 0..n - 1 /\ k + 1 # n /\ (k + 1) - 1 = k
        /\ k \in 0..n /\ k \in Nat
    BY <1>1, <1>6
  <2>2. PICK map : Reads(Start, L[k], At(k, map)) /\ Upto(k, map)
    BY <1>6
  <2> DEFINE v == row[k + 1]
             new == Assign(map, Column(k + 1), v)
  <2>3. PICK state \in {"UnquotedField", "QuotedQuote"} :
            Reads(At(k, map), Word(f, v), Parser(state, k + 1, v, map))
    BY <1>1, <2>1, WordIsRead
  <2>4. Step(Parser(state, k + 1, v, map), Comma) = At(k + 1, new)
    BY StepAtComma
  <2>5. Reads(Parser(state, k + 1, v, map), sep, At(k + 1, new))
    BY <2>4, ReadsOne DEF sep
  <2>6. Upto(k + 1, new)
    BY <2>1, <2>2, FieldIsStored
  <2>7. Word(f, v) \in Seq(Chars) /\ L[k] \in Seq(Chars) /\ sep \in Seq(Chars)
    BY <1>1, <1>2, <1>4, <2>1, WordIsRead DEF Fields
  <2>8. L[k + 1] = L[k] \o (Word(f, v) \o sep)
    BY <1>3, <1>4, <2>1
  <2> DEFINE q == Parser(state, k + 1, v, map)
  <2>9. Reads(At(k, map), Word(f, v), q) /\ Reads(q, sep, At(k + 1, new))
    BY <2>3, <2>5
  <2> HIDE DEF At, Upto, v, new, q
  <2>10. Reads(At(k, map), Word(f, v) \o sep, At(k + 1, new))
    BY <2>7, <2>9, ReadsBoth
  <2>11. Word(f, v) \o sep \in Seq(Chars)
    BY <2>7
  <2>12. Reads(Start, L[k] \o (Word(f, v) \o sep), At(k + 1, new))
    BY <2>2, <2>7, <2>10, <2>11, ReadsBoth
  <2> QED
    BY <2>1, <2>6, <2>8, <2>12
<1>7. PICK map : Reads(Start, L[n - 1], At(n - 1, map)) /\ Upto(n - 1, map)
  <2>1. n - 1 \in Nat /\ n - 1 \in 0..n - 1
    BY <1>1
  <2>2. \A k \in 0..n - 1 : k \in Right
    <3> HIDE DEF Right
    <3> QED
      BY <1>5, <1>6, <2>1, Induction
  <2> HIDE DEF At, Upto
  <2> QED
    BY <2>1, <2>2
<1> DEFINE v == row[n]
<1>8. n \in 1..n /\ n \in 0..n /\ n - 1 \in 0..n /\ n - 1 \in Nat /\ (n - 1) + 1 = n
  BY <1>1
<1>9. PICK state \in {"UnquotedField", "QuotedQuote"} :
          Reads(At(n - 1, map), Word(f, v), Parser(state, n, v, map))
  BY <1>1, <1>8, WordIsRead
<1>10. Word(f, v) \in Seq(Chars) /\ L[n - 1] \in Seq(Chars) /\ L[n] \in Seq(Chars)
  BY <1>1, <1>4, <1>8, WordIsRead DEF Fields
<1>11. L[n] = L[n - 1] \o Word(f, v)
  BY <1>3, <1>4, <1>8
<1> DEFINE q == Parser(state, n, v, map)
<1>12. Reads(Start, L[n], q)
  <2> HIDE DEF At, v, q
  <2>1. Reads(At(n - 1, map), Word(f, v), q)
    BY <1>9 DEF q
  <2> QED
    BY <1>7, <1>10, <1>11, <2>1, ReadsBoth
<1>13. Parsed(Line(f, row)) = Store(q)
  <2> HIDE DEF q
  <2> QED
    BY <1>4, <1>10, <1>12, ParsedRead
<1>14. Store(q).map = Assign(map, Column(n), v) /\ Store(q).i = n
  BY DEF Store, Parser
<1>15. \A i \in 1..(n - 1) + 1 : i <= Len(Header) =>
          Value(Assign(map, Column((n - 1) + 1), row[(n - 1) + 1]), Header[i]) = row[i]
  BY <1>7, <1>8, FieldIsStored
<1> QED
  BY <1>8, <1>13, <1>14, <1>15 DEF n

(* A text of nothing, and what the parser makes of it. *)
LEMMA NothingIsFlat == FlattenSeq(<<>>) = <<>>
<1>1. <<>> \in Seq(Seq(Chars)) /\ Len(<<>>) = 0
  OBVIOUS
<1> QED
  BY <1>1, Flattened

LEMMA NothingIsALine ==
    ASSUME NEW f
    PROVE  Line(f, <<>>) = <<>> /\ Without(Return, <<>>) = <<>> /\ Parsed(<<>>).i = 1
<1>1. Without(Return, <<>>) = <<>>
  <2>1. [i \in DOMAIN <<>> |-> IF (<<>>)[i] = Return THEN <<>> ELSE <<(<<>>)[i]>>] = <<>>
    OBVIOUS
  <2> QED
    BY <2>1, NothingIsFlat DEF Without
<1>2. Line(f, <<>>) = <<>>
  <2> DEFINE words == [i \in DOMAIN <<>> |-> Word(f, (<<>>)[i])]
  <2>1. words = <<>>
    OBVIOUS
  <2> HIDE DEF words
  <2>2. [i \in DOMAIN words |-> IF i = Len(words) THEN words[i] ELSE words[i] \o <<Comma>>] = <<>>
    BY <2>1
  <2>3. Joined(words, <<Comma>>) = <<>>
    BY <2>2, NothingIsFlat DEF Joined
  <2> QED
    BY <2>3 DEF Line, words
<1>3. Parsed(<<>>) = Store(Start)
  <2>1. <<>> \in Seq(Chars)
    OBVIOUS
  <2> QED
    BY <2>1, ReadsNothing, ParsedRead
<1> QED
  BY <1>1, <1>2, <1>3 DEF Store, Start

-----------------------------------------------------------------------------
(* The lines of a text. *)

LEMMA TogetherIn == ASSUME NEW x \in Fields, NEW y \in Fields PROVE x \o y \in Fields
BY ConcatProperties DEF Fields

Grouped(x, y, z) == (x \o y) \o z = x \o (y \o z)
Regrouped(a, w, e, d) == (a \o (w \o e)) \o d = a \o (w \o (e \o d))

LEMMA Together ==
    ASSUME NEW x \in Fields, NEW y \in Fields, NEW z \in Fields
    PROVE  Grouped(x, y, z)
BY ConcatAssociative DEF Fields, Grouped

LEMMA FourTogether ==
    ASSUME NEW a \in Fields, NEW w \in Fields, NEW e \in Fields, NEW d \in Fields
    PROVE  Regrouped(a, w, e, d)
<1>1. PICK x : x = w \o e
  OBVIOUS
<1>2. x \in Fields
  BY <1>1, TogetherIn
<1>3. Grouped(a, x, d) /\ Grouped(w, e, d)
  BY <1>2, Together
<1> QED
  BY <1>1, <1>3 DEF Grouped, Regrouped

(* A text with words, each followed by the separator and the last one by a  *)
(* tail: what is before and behind the end of each of them.                 *)
IsCut(words, sep, tail, L, R) ==
    /\ L \in [0..Len(words) -> Fields] /\ R \in [0..Len(words) -> Fields]
    /\ L[0] = <<>> /\ R[0] = Joined(words, sep) \o tail /\ R[Len(words)] = <<>>
    /\ \A k \in 1..Len(words) :
          LET end == IF k = Len(words) THEN tail ELSE sep
          IN L[k] = L[k - 1] \o (words[k] \o end) /\ R[k - 1] = words[k] \o (end \o R[k])
    /\ \A k \in 0..Len(words) : R[0] = L[k] \o R[k]

LEMMA Cut ==
    ASSUME NEW words \in Seq(Fields), words # <<>>, NEW sep \in Fields, NEW tail \in Fields
    PROVE  \E L, R : IsCut(words, sep, tail, L, R)
<1> DEFINE m == Len(words)
           end(k) == IF k = m THEN tail ELSE sep
<1>1. m \in Nat /\ m # 0 /\ \A k \in 1..m : words[k] \in Fields
  OBVIOUS
<1>2. PICK J \in [0..m -> Fields] :
          /\ J[0] = <<>> /\ J[m] = Joined(words, sep)
          /\ \A k \in 1..m : J[k] = J[k - 1] \o (IF k = m THEN words[k] ELSE words[k] \o sep)
  BY JoinedPieces
<1> HIDE DEF m
<1>3. \A k \in 1..m : end(k) \in Fields /\ words[k] \o end(k) \in Fields
  BY <1>1 DEF Fields
<1>4. \A x, y \in Fields : x \o y \in Fields
  BY TogetherIn
<1>5. \A x \in Fields : x \o <<>> = x /\ <<>> \o x = x
  BY ConcatEmptySeq DEF Fields
<1>6. <<>> \in Fields
  BY DEF Fields
<1> DEFINE T == Joined(words, sep) \o tail
           L == [k \in 0..m |-> IF k = m THEN T ELSE J[k]]
           G == [n \in 1..m |-> [x \in Fields |-> words[m + 1 - n] \o (end(m + 1 - n) \o x)]]
<1>7. T \in Fields
  BY <1>1, <1>2, <1>4
<1>8. \E H \in [1..m -> [Fields -> Fields]] :
         \A n \in 1..m, x \in Fields : H[n][x] = words[m + 1 - n] \o (end(m + 1 - n) \o x)
  <2>1. ASSUME NEW n \in 1..m, NEW x \in Fields
        PROVE  words[m + 1 - n] \o (end(m + 1 - n) \o x) \in Fields
    <3>1. m + 1 - n \in 1..m
      BY <1>1
    <3> HIDE DEF end
    <3> QED
      BY <1>1, <1>3, <1>4, <3>1
  <2>2. G \in [1..m -> [Fields -> Fields]]
    BY <2>1
  <2>3. \A n \in 1..m, x \in Fields : G[n][x] = words[m + 1 - n] \o (end(m + 1 - n) \o x)
    OBVIOUS
  <2> HIDE DEF G
  <2> QED
    BY <2>2, <2>3
<1>80. PICK H \in [1..m -> [Fields -> Fields]] :
         \A n \in 1..m, x \in Fields : H[n][x] = words[m + 1 - n] \o (end(m + 1 - n) \o x)
  BY <1>8
<1>9. PICK r \in [0..m -> Fields] : r[0] = <<>> /\ \A n \in 1..m : r[n] = H[n][r[n - 1]]
  <2>1. m \in Nat
    BY <1>1
  <2>2. Rounds(Fields, <<>>, m, H) # {}
    BY <1>6, <2>1, Iterated
  <2> QED
    BY <2>2 DEF Rounds
<1> DEFINE R == [k \in 0..m |-> r[m - k]]
<1>10. R \in [0..m -> Fields] /\ R[m] = <<>>
  <2>1. \A k \in 0..m : m - k \in 0..m
    BY <1>1
  <2>2. m - m = 0 /\ m \in 0..m /\ 0 \in 0..m
    BY <1>1
  <2>3. r[0] = <<>>
    BY <1>9, <2>2
  <2> QED
    BY <1>9, <2>1, <2>2, <2>3
<1>11. ASSUME NEW k \in 1..m PROVE R[k - 1] = words[k] \o (end(k) \o R[k])
  <2> DEFINE n == m - (k - 1)
  <2>1. n \in 1..m /\ n \in 0..m /\ n # 0 /\ m + 1 - n = k /\ n - 1 = m - k
        /\ k \in 0..m /\ k - 1 \in 0..m
    BY <1>1
  <2>2. R[k - 1] = r[n] /\ R[k] = r[n - 1] /\ r[n - 1] \in Fields
    BY <1>9, <1>10, <2>1
  <2>3. r[n] = H[n][r[n - 1]]
    BY <1>9, <2>1
  <2>4. H[n][r[n - 1]] = words[m + 1 - n] \o (end(m + 1 - n) \o r[n - 1])
    BY <1>80, <2>1, <2>2
  <2> QED
    BY <2>1, <2>2, <2>3, <2>4
<1>12. L \in [0..m -> Fields] /\ L[0] = <<>>
  BY <1>1, <1>2, <1>7
<1>13. ASSUME NEW k \in 1..m PROVE L[k] = L[k - 1] \o (words[k] \o end(k))
  <2>1. k - 1 \in 0..m /\ k - 1 # m /\ k \in 0..m /\ L[k - 1] = J[k - 1] /\ J[k - 1] \in Fields
    BY <1>1, <1>2
  <2>2. CASE k = m
    <3>1. J[m] = J[k - 1] \o words[k]
      BY <1>1, <1>2, <2>2
    <3>2. T = (J[k - 1] \o words[k]) \o tail
      BY <1>2, <3>1 DEF T
    <3>3. T = J[k - 1] \o (words[k] \o tail)
      <4>1. words[k] \in Fields
        BY <1>1
      <4>2. Grouped(J[k - 1], words[k], tail)
        BY <2>1, <4>1, Together
      <4> HIDE DEF T
      <4> QED
        BY <3>2, <4>2 DEF Grouped
    <3> QED
      BY <2>1, <2>2, <3>3
  <2>3. CASE k # m
    <3>1. J[k] = J[k - 1] \o (words[k] \o sep) /\ L[k] = J[k]
      BY <1>1, <1>2, <2>1, <2>3
    <3> QED
      BY <2>1, <2>3, <3>1
  <2> QED
    BY <2>2, <2>3
<1> HIDE DEF L, R
<1> DEFINE Right == {n \in 0..m : L[m - n] \o R[m - n] = T}
<1>14. 0 \in Right
  <2>1. L[m] = T /\ m - 0 = m /\ 0 \in 0..m
    BY <1>1 DEF L
  <2> QED
    BY <1>5, <1>7, <1>10, <2>1
<1>15. ASSUME NEW n \in 0..m, n \in Right, n < m PROVE n + 1 \in Right
  <2> DEFINE k == m - n
  <2>1. k \in 1..m /\ k \in 0..m /\ k - 1 \in 0..m /\ m - (n + 1) = k - 1 /\ n + 1 \in 0..m
    BY <1>1, <1>15
  <2>2. L[k] \o R[k] = T
    BY <1>15
  <2>3. /\ L[k] = L[k - 1] \o (words[k] \o end(k))
        /\ R[k - 1] = words[k] \o (end(k) \o R[k])
    BY <1>11, <1>13, <2>1
  <2>4. words[k] \in Fields /\ end(k) \in Fields /\ L[k - 1] \in Fields /\ R[k] \in Fields
    BY <1>1, <1>3, <1>10, <1>12, <2>1
  <2> HIDE DEF k, end
  <2>5. L[k - 1] \o R[k - 1] = L[k] \o R[k]
    <3>1. Regrouped(L[k - 1], words[k], end(k), R[k])
      BY <2>4, FourTogether
    <3> QED
      BY <2>3, <3>1 DEF Regrouped
  <2> QED
    BY <2>1, <2>2, <2>5
<1>16. \A n \in 0..m : n \in Right
  <2> HIDE DEF Right
  <2> QED
    BY <1>1, <1>14, <1>15, Induction
<1>17. ASSUME NEW k \in 0..m PROVE T = L[k] \o R[k]
  <2>1. m - k \in 0..m /\ m - (m - k) = k
    BY <1>1
  <2>2. m - k \in Right
    BY <1>16, <2>1
  <2>3. L[m - (m - k)] \o R[m - (m - k)] = T
    <3> HIDE DEF T
    <3> QED
      BY <2>2 DEF Right
  <2> QED
    BY <2>1, <2>3, Zenon
<1>18. R[0] = T
  <2>1. 0 \in 0..m
    BY <1>1
  <2> QED
    BY <1>5, <1>10, <1>12, <1>17, <2>1
<1> HIDE DEF end
<1>19. /\ L[0] = <<>> /\ R[0] = T /\ R[m] = <<>>
       /\ \A k \in 1..m : L[k] = L[k - 1] \o (words[k] \o end(k))
                          /\ R[k - 1] = words[k] \o (end(k) \o R[k])
       /\ \A k \in 0..m : R[0] = L[k] \o R[k]
  BY <1>10, <1>11, <1>12, <1>13, <1>17, <1>18
<1>20. IsCut(words, sep, tail, L, R)
  BY <1>10, <1>12, <1>19 DEF T, end, m, IsCut
<1> QED
  BY <1>20

(* std::getline: up to the next new line, or all that is left. *)
LEMMA LastLineIsRead ==
    ASSUME stream \in Seq(Chars \ {NewLine})
    PROVE  NewLineAt = 0 /\ GetLine = stream /\ Rest = <<>>
<1>1. {i \in 1..Len(stream) : stream[i] = NewLine} = {}
  OBVIOUS
<1>2. NewLineAt = 0
  BY <1>1 DEF NewLineAt, SelectInSeq
<1> QED
  BY <1>2 DEF GetLine, Rest

LEMMA NextLineIsRead ==
    ASSUME NEW line \in Seq(Chars \ {NewLine}), NEW rest \in Fields,
           stream = line \o (<<NewLine>> \o rest)
    PROVE  NewLineAt = Len(line) + 1 /\ GetLine = line /\ Rest = rest
<1> DEFINE m == Len(line)
           t == <<NewLine>> \o rest
           I == {i \in 1..Len(stream) : stream[i] = NewLine}
<1>1. NewLine \in Chars
  BY Characters
<1>2. t \in Seq(Chars) /\ Len(t) = 1 + Len(rest) /\ t[1] = NewLine
      /\ \A i \in 1..Len(rest) : t[i + 1] = rest[i]
  BY <1>1 DEF Fields
<1>3. m \in Nat /\ Len(rest) \in Nat /\ line \in Seq(Chars) /\ \A i \in 1..m : line[i] # NewLine
  BY DEF Fields
<1> HIDE DEF t, m
<1>4. stream \in Seq(Chars) /\ Len(stream) = m + (1 + Len(rest))
      /\ (\A i \in 1..m : stream[i] = line[i])
      /\ (\A i \in m + 1..m + (1 + Len(rest)) : stream[i] = t[i - m])
  <2>1. stream = line \o t
    BY DEF t
  <2>2. /\ line \o t \in Seq(Chars) /\ Len(line \o t) = Len(line) + Len(t)
        /\ \A i \in 1..Len(line) + Len(t) :
              (line \o t)[i] = IF i <= Len(line) THEN line[i] ELSE t[i - Len(line)]
    <3>1. line \in Seq(Chars) /\ t \in Seq(Chars)
      BY <1>2, <1>3
    <3> QED
      BY <3>1, ConcatProperties
  <2>3. \A i \in m + 1..m + (1 + Len(rest)) : ~(i <= m) /\ i \in 1..m + (1 + Len(rest))
    BY <1>3
  <2>4. \A i \in 1..m : i \in 1..m + (1 + Len(rest)) /\ i <= m
    BY <1>3
  <2> QED
    BY <1>2, <2>1, <2>2, <2>3, <2>4 DEF m
<1>5. stream[m + 1] = NewLine /\ m + 1 \in 1..Len(stream)
  <2>1. (m + 1) - m = 1 /\ m + 1 \in m + 1..m + (1 + Len(rest))
    BY <1>3
  <2>2. stream[m + 1] = t[(m + 1) - m]
    BY <1>4, <2>1
  <2> QED
    BY <1>2, <1>3, <1>4, <2>1, <2>2
<1>6. \A i \in I : m + 1 <= i
  BY <1>3, <1>4
<1>7. m + 1 \in I
  BY <1>5
<1>8. I # {} /\ Min(I) = m + 1
  <2>1. I \subseteq Int
    OBVIOUS
  <2> HIDE DEF I
  <2>2. \A x \in I : (\A y \in I : x =< y) => x = m + 1
    BY <1>3, <1>6, <1>7, <2>1
  <2>3. Min(I) \in I /\ \A y \in I : Min(I) =< y
    BY <1>6, <1>7 DEF Min
  <2> QED
    BY <1>7, <2>2, <2>3
<1>9. NewLineAt = m + 1
  BY <1>8 DEF NewLineAt, SelectInSeq
<1>10. GetLine = line
  <2>1. SubSeq(stream, 1, m) = line
    BY <1>3, <1>4 DEF m
  <2>2. (m + 1) - 1 = m /\ m + 1 # 0
    BY <1>3
  <2> QED
    BY <1>9, <2>1, <2>2 DEF GetLine
<1>11. Rest = rest
  <2>1. m + 1 # 0
    BY <1>3
  <2> DEFINE s == SubSeq(stream, (m + 1) + 1, Len(stream))
  <2>2. s \in Seq(Chars) /\ Len(s) = Len(rest)
    BY <1>3, <1>4
  <2>3. ASSUME NEW i \in 1..Len(rest) PROVE s[i] = rest[i]
    <3>1. s[i] = stream[(m + 1) + 1 + i - 1]
      BY <1>3, <1>4
    <3>2. (m + 1) + 1 + i - 1 = m + 1 + i /\ m + 1 + i \in m + 1..m + (1 + Len(rest))
          /\ (m + 1 + i) - m = i + 1
      BY <1>3
    <3> QED
      BY <1>2, <1>4, <3>1, <3>2
  <2> HIDE DEF s
  <2>4. s = rest
    BY <2>2, <2>3, SeqEqual DEF Fields
  <2> QED
    BY <1>9, <2>1, <2>4 DEF Rest, s
<1> QED
  BY <1>9, <1>10, <1>11 DEF m

-----------------------------------------------------------------------------
(* What producers write. *)

LEMMA JoinedIn ==
    ASSUME NEW S, NEW words \in Seq(Seq(S)), NEW sep \in Seq(S)
    PROVE  Joined(words, sep) \in Seq(S)
<1> DEFINE ss == [i \in DOMAIN words |-> IF i = Len(words) THEN words[i] ELSE words[i] \o sep]
           m == Len(words)
<1>1. m \in Nat /\ DOMAIN words = 1..m /\ \A i \in 1..m : words[i] \in Seq(S)
  OBVIOUS
<1>2. \A i \in 1..m : words[i] \o sep \in Seq(S)
  BY <1>1
<1>3. ss \in Seq(Seq(S))
  <2> HIDE DEF m
  <2>1. ss \in [1..m -> Seq(S)]
    BY <1>1, <1>2
  <2> HIDE DEF ss
  <2> QED
    BY <1>1, <2>1
<1>4. FlattenSeq(ss) \in Seq(S)
  <2> HIDE DEF ss
  <2> QED
    BY <1>3, FlattenedIn
<1> QED
  BY <1>4 DEF Joined

LEMMA WordIn ==
    ASSUME NEW S, {Comma, Quote} \subseteq S, NEW f, NEW v \in Seq(S)
    PROVE  Word(f, v) \in Seq(S)
<1> DEFINE ss == [i \in DOMAIN v |-> IF v[i] = Quote THEN <<Quote, Quote>> ELSE <<v[i]>>]
<1>1. DOMAIN v = 1..Len(v) /\ Len(v) \in Nat /\ Quote \in S /\ \A i \in DOMAIN v : v[i] \in S
  OBVIOUS
<1>2. <<Quote, Quote>> \in Seq(S) /\ <<Quote>> \in Seq(S)
  BY <1>1
<1>3. \A i \in DOMAIN v : ss[i] \in Seq(S)
  BY <1>1, <1>2
<1>4. ss \in Seq(Seq(S))
  BY <1>1, <1>3
<1> HIDE DEF ss
<1>5. FlattenSeq(ss) \in Seq(S)
  BY <1>4, FlattenedIn
<1>6. Quoted(v) \in Seq(S)
  BY <1>2, <1>5 DEF Quoted, Doubled, ss
<1> QED
  BY <1>6 DEF Word

LEMMA LineIn ==
    ASSUME NEW S, {Comma, Quote} \subseteq S, NEW f, NEW row \in Seq(Seq(S))
    PROVE  Line(f, row) \in Seq(S)
<1> DEFINE ss == [i \in DOMAIN row |-> Word(f, row[i])]
           m == Len(row)
<1>1. m \in Nat /\ DOMAIN row = 1..m /\ \A i \in 1..m : row[i] \in Seq(S)
  OBVIOUS
<1>2. \A i \in 1..m : Word(f, row[i]) \in Seq(S)
  BY <1>1, WordIn
<1>3. ss \in Seq(Seq(S))
  <2> HIDE DEF m
  <2>1. ss \in [1..m -> Seq(S)]
    BY <1>1, <1>2
  <2> HIDE DEF ss
  <2> QED
    BY <1>1, <2>1
<1>4. <<Comma>> \in Seq(S)
  OBVIOUS
<1>5. Joined(ss, <<Comma>>) \in Seq(S)
  <2> HIDE DEF ss
  <2> QED
    BY <1>3, <1>4, JoinedIn
<1> QED
  BY <1>5 DEF Line

(* The lines of a file: the names of the columns and then a line per row. *)
LEMMA FileFacts ==
    ASSUME NEW f \in Files
    PROVE  /\ Len(f.rows) \in Nat /\ Len(Lines(f)) = Len(f.rows) + 1
           /\ Lines(f) \in Seq(Seq(Chars \ {NewLine, Return})) /\ Lines(f) \in Seq(Fields)
           /\ Lines(f)[1] = Joined(Header, <<Comma>>)
           /\ \A k \in 1..Len(f.rows) : Lines(f)[k + 1] = Line(f, f.rows[k])
                                        /\ f.rows[k] \in Seq(Fields)
           /\ EndOfLine(f) \in {<<NewLine>>, <<Return, NewLine>>} /\ EndOfLine(f) \in Fields
           /\ EndsWithLine(f) /\ f.lastNewLine \in BOOLEAN
<1> DEFINE S == Chars \ {NewLine, Return}
           m == Len(f.rows)
           rows == f.rows
           lines == [k \in DOMAIN rows |-> Line(f, rows[k])]
           first == Joined(Header, <<Comma>>)
<1>1. f \in FileTypes /\ EndsWithLine(f)
  BY FilesAssumption
<1>2. f.rows \in Seq(Seq(Seq(S))) /\ f.lastNewLine \in BOOLEAN
  BY <1>1 DEF FileTypes
<1>3. m \in Nat /\ DOMAIN rows = 1..m /\ \A k \in 1..m : rows[k] \in Seq(Seq(S))
  BY <1>2
<1>4. {Comma, Quote} \subseteq S /\ <<Comma>> \in Seq(S)
  BY Characters
<1>5. Seq(S) \subseteq Seq(Chars) /\ Seq(Seq(S)) \subseteq Seq(Seq(Chars))
  OBVIOUS
<1> HIDE DEF S, m, rows
<1>6. \A k \in 1..m : Line(f, rows[k]) \in Seq(S)
  BY <1>3, <1>4, LineIn
<1>7. Header \in Seq(Seq(S))
  <2>1. Seq(Chars \ {Comma, NewLine, Return}) \subseteq Seq(S)
    BY DEF S
  <2> QED
    BY <2>1, ColumnsAssumption
<1>8. first \in Seq(S)
  BY <1>4, <1>7, JoinedIn
<1> HIDE DEF first
<1>9. lines \in Seq(Seq(S)) /\ Len(lines) = m /\ \A k \in 1..m : lines[k] = Line(f, rows[k])
  <2>1. lines \in [1..m -> Seq(S)]
    BY <1>3, <1>6
  <2>2. \A k \in 1..m : lines[k] = Line(f, rows[k])
    BY <1>3
  <2> HIDE DEF lines
  <2> QED
    BY <1>3, <2>1, <2>2
<1>10. Lines(f) = <<first>> \o lines
  BY DEF Lines, first, rows
<1> HIDE DEF lines
<1>11. /\ Lines(f) \in Seq(Seq(S)) /\ Len(Lines(f)) = m + 1 /\ Lines(f)[1] = first
       /\ \A k \in 1..m : Lines(f)[k + 1] = lines[k]
  <2>1. <<first>> \in Seq(Seq(S)) /\ Len(<<first>>) = 1 /\ <<first>>[1] = first
    BY <1>8
  <2> QED
    BY <1>3, <1>9, <1>10, <2>1
<1>12. EndOfLine(f) \in {<<NewLine>>, <<Return, NewLine>>} /\ EndOfLine(f) \in Fields
  BY Characters DEF EndOfLine, Fields
<1>13. \A k \in 1..m : rows[k] \in Seq(Fields)
  BY <1>3, <1>5 DEF Fields
<1>14. Lines(f) \in Seq(Fields)
  BY <1>5, <1>11 DEF Fields
<1> QED
  BY <1>1, <1>2, <1>3, <1>9, <1>11, <1>12, <1>13, <1>14 DEF S, m, rows, first

(* What is left of a file behind each of its lines. *)
Count(f) == Len(f.rows) + 1
Ending(f, k) ==
    IF k = Count(f) THEN IF f.lastNewLine THEN EndOfLine(f) ELSE <<>> ELSE EndOfLine(f)
Lefts(f) ==
    {R \in [0..Count(f) -> Fields] :
        /\ R[0] = Text(f) /\ R[Count(f)] = <<>>
        /\ \A k \in 1..Count(f) : R[k - 1] = Lines(f)[k] \o (Ending(f, k) \o R[k])}
Left(f) == CHOOSE R \in Lefts(f) : TRUE

LEMMA EndingFacts ==
    ASSUME NEW f \in Files, NEW k
    PROVE  \/ k = Count(f) /\ ~f.lastNewLine /\ Ending(f, k) = <<>>
           \/ ~(k = Count(f) /\ ~f.lastNewLine) /\ Ending(f, k) = <<NewLine>>
           \/ ~(k = Count(f) /\ ~f.lastNewLine) /\ Ending(f, k) = <<Return, NewLine>>
<1>1. EndOfLine(f) \in {<<NewLine>>, <<Return, NewLine>>}
  BY FileFacts
<1>2. CASE k = Count(f) /\ ~f.lastNewLine
  BY <1>2 DEF Ending
<1>3. CASE ~(k = Count(f) /\ ~f.lastNewLine)
  <2>1. Ending(f, k) = EndOfLine(f)
    BY <1>3 DEF Ending
  <2> QED
    BY <1>1, <1>3, <2>1
<1> QED
  BY <1>2, <1>3

LEMMA FileIsCut == ASSUME NEW f \in Files PROVE Left(f) \in Lefts(f)
<1> DEFINE words == Lines(f)
           sep == EndOfLine(f)
           tail == IF f.lastNewLine THEN EndOfLine(f) ELSE <<>>
<1>1. /\ Lines(f) \in Seq(Fields) /\ Len(Lines(f)) = Count(f) /\ Count(f) \in Nat /\ Count(f) # 0
      /\ EndOfLine(f) \in Fields
  BY FileFacts DEF Count
<1>2. words \in Seq(Fields) /\ words # <<>> /\ sep \in Fields /\ tail \in Fields
      /\ Len(words) = Count(f)
  <2>1. <<>> \in Fields
    BY DEF Fields
  <2> QED
    BY <1>1, <2>1
<1>3. Text(f) = Joined(words, sep) \o tail
  BY DEF Text
<1>4. \A k : Ending(f, k) = IF k = Count(f) THEN tail ELSE sep
  BY DEF Ending
<1> HIDE DEF words, sep, tail
<1>5. PICK L, R : IsCut(words, sep, tail, L, R)
  BY <1>2, Cut
<1>6. R \in Lefts(f)
  BY <1>2, <1>3, <1>4, <1>5 DEF Lefts, words, IsCut
<1> QED
  BY <1>6 DEF Left

LEMMA LeftFacts ==
    ASSUME NEW f \in Files
    PROVE  /\ Count(f) = Len(f.rows) + 1 /\ Count(f) \in Nat
           /\ Left(f) \in [0..Count(f) -> Fields]
           /\ Left(f)[0] = Text(f) /\ Left(f)[Count(f)] = <<>>
           /\ \A k \in 1..Count(f) : Left(f)[k - 1] = Lines(f)[k] \o (Ending(f, k) \o Left(f)[k])
<1>1. Left(f) \in Lefts(f)
  BY FileIsCut
<1>2. Count(f) = Len(f.rows) + 1 /\ Count(f) \in Nat
  BY FileFacts DEF Count
<1> QED
  BY <1>1, <1>2 DEF Lefts

(* A line that is read is the one that was written, and it is the last one  *)
(* when getline() meets the end of the stream.                              *)
LEMMA LineIsGot ==
    ASSUME NEW f \in Files, NEW k \in 1..Count(f), stream = Left(f)[k - 1]
    PROVE  /\ Without(Return, GetLine) = Lines(f)[k] /\ Rest = Left(f)[k]
           /\ NewLineAt = 0 => Left(f)[k] = <<>>
<1> DEFINE S == Chars \ {NewLine, Return}
           line == Lines(f)[k]
           rest == Left(f)[k]
<1>1. Count(f) \in Nat /\ Count(f) = Len(Lines(f)) /\ k \in 1..Len(Lines(f))
  BY FileFacts, LeftFacts
<1>2. line \in Seq(S)
  BY <1>1, FileFacts
<1>3. rest \in Fields /\ (k = Count(f) => rest = <<>>)
  <2>1. k \in 0..Count(f)
    BY <1>1
  <2>2. Left(f) \in [0..Count(f) -> Fields] /\ Left(f)[Count(f)] = <<>>
    BY LeftFacts
  <2> QED
    BY <2>1, <2>2
<1>4. stream = line \o (Ending(f, k) \o rest)
  BY LeftFacts
<1>5. Ending(f, k) \in {<<NewLine>>, <<Return, NewLine>>} \/ (Ending(f, k) = <<>> /\ k = Count(f))
  <2>1. \/ k = Count(f) /\ ~f.lastNewLine /\ Ending(f, k) = <<>>
        \/ ~(k = Count(f) /\ ~f.lastNewLine) /\ Ending(f, k) = <<NewLine>>
        \/ ~(k = Count(f) /\ ~f.lastNewLine) /\ Ending(f, k) = <<Return, NewLine>>
    BY EndingFacts
  <2> QED
    BY <2>1
<1>6. \A x \in Seq(S) : x \in Seq(Chars) /\ x \in Seq(Chars \ {NewLine}) /\ x \in Seq(Chars \ {Return})
  OBVIOUS
<1> HIDE DEF S, line, rest
<1>7. line \in Seq(Chars) /\ Len(line) \in Nat /\ \A i \in 1..Len(line) : line[i] # Return
  <2>1. line \in Seq(Chars) /\ line \in Seq(Chars \ {Return})
    BY <1>2, <1>6
  <2> QED
    BY <2>1
<1>8. Without(Return, line) = line
  <2>1. Len(line) \in 0..Len(line) /\ \A i \in Len(line) + 1..Len(line) : line[i] = Return
    BY <1>7
  <2>2. Without(Return, line) = SubSeq(line, 1, Len(line))
    BY <1>7, <2>1, WithoutEnd
  <2> QED
    BY <1>7, <2>2
<1>9. CASE Ending(f, k) = <<NewLine>>
  <2>1. NewLineAt = Len(line) + 1 /\ GetLine = line /\ Rest = rest
    BY <1>2, <1>3, <1>4, <1>6, <1>9, NextLineIsRead
  <2>2. Len(line) + 1 # 0
    BY <1>7
  <2> QED
    BY <1>8, <2>1, <2>2 DEF line, rest
<1>10. CASE Ending(f, k) = <<Return, NewLine>>
  <2> DEFINE long == line \o <<Return>>
  <2>1. Return \in Chars \ {NewLine} /\ NewLine \in Chars
    BY Characters
  <2>2. line \in Seq(Chars \ {NewLine})
    BY <1>2, <1>6
  <2>3. long \in Seq(Chars \ {NewLine}) /\ long \in Seq(Chars) /\ Len(long) = Len(line) + 1
        /\ (\A i \in 1..Len(line) : long[i] = line[i]) /\ long[Len(line) + 1] = Return
    BY <1>7, <2>1, <2>2
  <2>4. stream = long \o (<<NewLine>> \o rest)
    <3>1. <<Return>> \in Fields /\ <<NewLine>> \in Fields /\ line \in Fields
      BY <1>7, <2>1 DEF Fields
    <3>2. <<Return, NewLine>> = <<Return>> \o <<NewLine>>
      BY OneAndOne
    <3>3. Grouped(<<Return>>, <<NewLine>>, rest)
      BY <1>3, <3>1, Together
    <3>4. <<NewLine>> \o rest \in Fields
      BY <1>3, <3>1, TogetherIn
    <3>5. Grouped(line, <<Return>>, <<NewLine>> \o rest)
      BY <3>1, <3>4, Together
    <3> QED
      BY <1>4, <1>10, <3>2, <3>3, <3>5 DEF Grouped
  <2> HIDE DEF long
  <2>5. NewLineAt = Len(long) + 1 /\ GetLine = long /\ Rest = rest
    BY <1>3, <2>3, <2>4, NextLineIsRead
  <2>6. Without(Return, long) = SubSeq(long, 1, Len(line))
    <3>1. Len(line) \in 0..Len(long) /\ (\A i \in 1..Len(line) : long[i] # Return)
          /\ \A i \in Len(line) + 1..Len(long) : long[i] = Return
      BY <1>7, <2>3
    <3>2. long \in Seq(Chars)
      BY <2>3
    <3> QED
      BY <3>1, <3>2, WithoutEnd
  <2>7. SubSeq(long, 1, Len(line)) = line
    <3>1. /\ SubSeq(long, 1, Len(line)) \in Seq(Chars)
          /\ Len(SubSeq(long, 1, Len(line))) = Len(line)
          /\ \A i \in 1..Len(line) : SubSeq(long, 1, Len(line))[i] = line[i]
      BY <1>7, <2>3
    <3> QED
      BY <1>7, <3>1, SeqEqual
  <2>8. Len(long) + 1 # 0
    BY <1>7, <2>3
  <2> QED
    BY <2>5, <2>6, <2>7, <2>8 DEF line, rest
<1>11. CASE Ending(f, k) = <<>> /\ k = Count(f)
  <2>1. stream = line /\ rest = <<>>
    BY <1>3, <1>4, <1>7, <1>11
  <2>2. GetLine = line /\ Rest = rest
    BY <1>2, <1>6, <2>1, LastLineIsRead
  <2> QED
    BY <1>8, <2>1, <2>2 DEF line, rest
<1> QED
  BY <1>5, <1>9, <1>10, <1>11

(* There is always something left before the line of a row. *)
LEMMA SomethingIsLeft ==
    ASSUME NEW f \in Files, NEW k \in 1..Len(f.rows)
    PROVE  Left(f)[k] # <<>>
<1> DEFINE line == Lines(f)[k + 1]
           rest == Left(f)[k + 1]
<1>0. Len(f.rows) \in Nat /\ Len(Lines(f)) = Len(f.rows) + 1 /\ Lines(f) \in Seq(Fields)
  BY FileFacts
<1>01. /\ Count(f) = Len(f.rows) + 1 /\ Left(f) \in [0..Count(f) -> Fields]
       /\ \A j \in 1..Count(f) : Left(f)[j - 1] = Lines(f)[j] \o (Ending(f, j) \o Left(f)[j])
  BY LeftFacts
<1>1. Len(f.rows) \in Nat /\ k + 1 \in 1..Count(f) /\ (k + 1) - 1 = k /\ Count(f) = Len(Lines(f))
      /\ k + 1 \in 0..Count(f)
  <2>1. Count(f) = Len(f.rows) + 1 /\ Len(f.rows) \in Nat /\ Len(Lines(f)) = Len(f.rows) + 1
    BY <1>0, <1>01
  <2> QED
    BY <2>1
<1>2. line \in Seq(Chars) /\ rest \in Seq(Chars)
  <2>1. line \in Fields
    BY <1>0, <1>1
  <2>2. rest \in Fields
    BY <1>01, <1>1
  <2> QED
    BY <2>1, <2>2 DEF Fields
<1>3. Left(f)[k] = line \o (Ending(f, k + 1) \o rest)
  BY <1>01, <1>1
<1>4. Ending(f, k + 1) \in {<<NewLine>>, <<Return, NewLine>>}
      \/ (Ending(f, k + 1) = <<>> /\ line # <<>>)
  <2>1. CASE k + 1 = Count(f) /\ ~f.lastNewLine
    <3>1. k = Len(f.rows) /\ k # 0 /\ f.rows # <<>>
      BY <1>0, <1>01, <2>1
    <3>2. line = Line(f, Last(f.rows))
      BY <3>1, FileFacts DEF Last
    <3>3. line # <<>>
      BY <2>1, <3>1, <3>2, FileFacts DEF EndsWithLine
    <3> QED
      BY <2>1, <3>3 DEF Ending
  <2>2. CASE ~(k + 1 = Count(f) /\ ~f.lastNewLine)
    <3>1. \/ k + 1 = Count(f) /\ ~f.lastNewLine /\ Ending(f, k + 1) = <<>>
          \/ ~(k + 1 = Count(f) /\ ~f.lastNewLine) /\ Ending(f, k + 1) = <<NewLine>>
          \/ ~(k + 1 = Count(f) /\ ~f.lastNewLine) /\ Ending(f, k + 1) = <<Return, NewLine>>
      BY EndingFacts
    <3> QED
      BY <2>2, <3>1
  <2> QED
    BY <2>1, <2>2
<1>5. Ending(f, k + 1) \in Seq(Chars)
  <2>1. <<NewLine>> \in Seq(Chars) /\ <<Return, NewLine>> \in Seq(Chars) /\ <<>> \in Seq(Chars)
    BY Characters
  <2> QED
    BY <1>4, <2>1
<1> HIDE DEF line, rest
<1>6. Len(Left(f)[k]) = Len(line) + (Len(Ending(f, k + 1)) + Len(rest))
  BY <1>2, <1>3, <1>5
<1>7. Len(line) \in Nat /\ Len(rest) \in Nat /\ Len(Ending(f, k + 1)) \in Nat
  BY <1>2, <1>5
<1>8. Len(Ending(f, k + 1)) # 0 \/ Len(line) # 0
  <2>1. Len(<<NewLine>>) = 1 /\ Len(<<Return, NewLine>>) = 2 /\ (line # <<>> => Len(line) # 0)
    BY <1>2
  <2>2. \/ Ending(f, k + 1) = <<NewLine>> \/ Ending(f, k + 1) = <<Return, NewLine>>
        \/ line # <<>>
    BY <1>4
  <2>3. CASE Ending(f, k + 1) = <<NewLine>>
    BY <2>1, <2>3
  <2>4. CASE Ending(f, k + 1) = <<Return, NewLine>>
    BY <2>1, <2>4
  <2>5. CASE line # <<>>
    BY <2>1, <2>5
  <2> QED
    BY <2>2, <2>3, <2>4, <2>5
<1>9. Len(Left(f)[k]) # 0
  BY <1>6, <1>7, <1>8
<1> QED
  BY <1>9

-----------------------------------------------------------------------------
(* The names of the columns. *)

LEMMA PutIn ==
    ASSUME NEW words \in Seq(Fields), words # <<>>, NEW c \in Chars
    PROVE  Put(words, c) \in Seq(Fields) /\ Put(words, c) # <<>>
<1>1. Len(words) \in Nat /\ Len(words) # 0 /\ Len(words) \in 1..Len(words)
      /\ \A i \in 1..Len(words) : words[i] \in Fields
  OBVIOUS
<1>2. <<>> \in Fields /\ Append(words[Len(words)], c) \in Fields
  BY <1>1 DEF Fields
<1>3. CASE c = Comma
  BY <1>2, <1>3 DEF Put
<1>4. CASE c # Comma
  <2>1. [words EXCEPT ![Len(words)] = Append(words[Len(words)], c)] \in [1..Len(words) -> Fields]
    BY <1>1, <1>2
  <2>2. Put(words, c) \in [1..Len(words) -> Fields]
    BY <1>4, <2>1 DEF Put
  <2> QED
    BY <1>1, <2>2
<1> QED
  BY <1>3, <1>4

LEMMA SplitInSteps ==
    ASSUME NEW text \in Fields
    PROVE  \E w : /\ w[0] = <<<<>>>> /\ Split(text) = w[Len(text)]
                  /\ \A n \in 1..Len(text) : w[n] = Put(w[n - 1], text[n])
<1> DEFINE m == Len(text)
           X == Seq(Fields) \ {<<>>}
           G == [n \in 1..m |-> [x \in X |-> Put(x, text[n])]]
           Made(w) == w = [n \in 0..m |-> IF n = 0 THEN <<<<>>>> ELSE Put(w[n - 1], text[n])]
<1>1. m \in Nat /\ \A n \in 1..m : text[n] \in Chars
  BY DEF Fields
<1>2. <<<<>>>> \in X
  BY DEF Fields
<1>3. G \in [1..m -> [X -> X]]
  BY <1>1, PutIn
<1>4. \A n \in 1..m, x \in X : G[n][x] = Put(x, text[n])
  OBVIOUS
<1> HIDE DEF X, m, G
<1>5. Rounds(X, <<<<>>>>, m, G) # {}
  BY <1>1, <1>2, <1>3, Iterated
<1>6. PICK r \in [0..m -> X] : r[0] = <<<<>>>> /\ \A n \in 1..m : r[n] = G[n][r[n - 1]]
  BY <1>5 DEF Rounds
<1>7. \A n \in 0..m : r[n] = IF n = 0 THEN <<<<>>>> ELSE Put(r[n - 1], text[n])
  <2> SUFFICES ASSUME NEW n \in 0..m, n # 0 PROVE r[n] = Put(r[n - 1], text[n])
    BY <1>6
  <2>1. n \in 1..m /\ n - 1 \in 0..m
    BY <1>1
  <2> QED
    BY <1>4, <1>6, <2>1
<1>8. Made(r)
  BY <1>7
<1> DEFINE w == CHOOSE f : Made(f)
<1>9. Made(w)
  BY <1>8
<1>10. Split(text) = w[m]
  BY DEF Split, m
<1> HIDE DEF w
<1>11. w[0] = <<<<>>>> /\ \A n \in 1..m : w[n] = Put(w[n - 1], text[n])
  BY <1>1, <1>9
<1> QED
  BY <1>10, <1>11 DEF m

(* A word without a comma becomes the last one. *)
LEMMA WordIsSplit ==
    ASSUME NEW words \in Seq(Fields), NEW word \in Seq(Chars \ {Comma}), NEW a \in Nat,
           NEW w, w[a] = Append(words, <<>>),
           \A j \in 1..Len(word) : w[a + j] = Put(w[a + (j - 1)], word[j])
    PROVE  w[a + Len(word)] = Append(words, word)
<1> DEFINE m == Len(word)
           Right == {j \in 0..m : w[a + j] = Append(words, SubSeq(word, 1, j))}
<1>1. m \in Nat /\ word \in Seq(Chars) /\ \A j \in 1..m : word[j] \in Chars /\ word[j] # Comma
  OBVIOUS
<1>2. 0 \in Right
  <2>1. a + 0 = a /\ SubSeq(word, 1, 0) = <<>> /\ 0 \in 0..m
    BY <1>1
  <2> QED
    BY <2>1
<1>3. ASSUME NEW j \in 0..m, j \in Right, j < m PROVE j + 1 \in Right
  <2>1. j + 1 \in 1..m /\ j + 1 \in 0..m /\ (j + 1) - 1 = j
    BY <1>1, <1>3
  <2> DEFINE last == SubSeq(word, 1, j)
             long == Append(words, last)
             k == Len(words) + 1
  <2>2. last \in Fields /\ Append(last, word[j + 1]) = SubSeq(word, 1, j + 1)
    BY <1>1, <2>1 DEF Fields
  <2>3. w[a + (j + 1)] = Put(long, word[j + 1])
    BY <1>3, <2>1
  <2> HIDE DEF last
  <2>4. long \in Seq(Fields) /\ Len(long) = k /\ long[k] = last /\ Len(words) \in Nat
    BY <2>2
  <2>5. Put(long, word[j + 1]) = [long EXCEPT ![k] = Append(last, word[j + 1])]
    BY <1>1, <2>1, <2>4 DEF Put
  <2>6. [long EXCEPT ![k] = Append(last, word[j + 1])] = Append(words, Append(last, word[j + 1]))
    <3> DEFINE u == Append(last, word[j + 1])
    <3>1. u \in Fields
      BY <1>1, <2>1, <2>2 DEF Fields
    <3> HIDE DEF u
    <3>2. [long EXCEPT ![k] = u] = Append(words, u)
      <4> DEFINE s == [long EXCEPT ![k] = u]
                 t == Append(words, u)
      <4>1. t \in Seq(Fields) /\ Len(t) = k /\ t[k] = u
            /\ \A i \in 1..Len(words) : t[i] = words[i]
        BY <2>4, <3>1
      <4>2. k \in Nat /\ \A i \in 1..k : i # k => i \in 1..Len(words)
        BY <2>4
      <4>3. \A i \in 1..Len(words) : long[i] = words[i]
        BY <2>2
      <4> HIDE DEF long, k, t
      <4>4. long \in [1..k -> Fields] /\ DOMAIN long = 1..k
        BY <2>4
      <4>5. s \in [1..k -> Fields] /\ \A i \in 1..k : s[i] = IF i = k THEN u ELSE long[i]
        BY <3>1, <4>4
      <4> HIDE DEF s
      <4>6. s \in Seq(Fields) /\ Len(s) = k
        BY <4>2, <4>5
      <4>7. \A i \in 1..k : s[i] = t[i]
        BY <4>1, <4>2, <4>3, <4>5
      <4>8. s = t
        BY <4>1, <4>6, <4>7, SeqEqual
      <4> QED
        BY <4>8 DEF s, t
    <3> QED
      BY <3>2 DEF u
  <2> QED
    BY <2>1, <2>2, <2>3, <2>5, <2>6
<1>4. m \in Right
  <2> HIDE DEF Right, m
  <2>1. \A j \in 0..m : j \in Right
    BY <1>1, <1>2, <1>3, Induction
  <2> QED
    BY <1>1, <2>1
<1>5. SubSeq(word, 1, m) = word
  BY <1>1
<1> QED
  BY <1>4, <1>5

Middle(x, y, z, t) ==
    /\ Len(t) = Len(x) + (Len(y) + Len(z))
    /\ \A j \in 1..Len(y) : t[Len(x) + j] = y[j]
    /\ \A j \in 1..Len(z) : t[Len(x) + (Len(y) + j)] = z[j]

LEMMA InTheMiddle ==
    ASSUME NEW x \in Fields, NEW y \in Fields, NEW z \in Fields, NEW t, t = x \o (y \o z)
    PROVE  Middle(x, y, z, t)
<1>1. x \in Seq(Chars) /\ y \in Seq(Chars) /\ z \in Seq(Chars)
      /\ Len(x) \in Nat /\ Len(y) \in Nat /\ Len(z) \in Nat
  BY DEF Fields
<1> DEFINE u == y \o z
<1>2. u \in Seq(Chars) /\ Len(u) = Len(y) + Len(z)
      /\ (\A j \in 1..Len(y) : u[j] = y[j]) /\ \A j \in 1..Len(z) : u[Len(y) + j] = z[j]
  BY <1>1
<1> HIDE DEF u
<1>3. /\ Len(x \o u) = Len(x) + Len(u)
      /\ \A j \in 1..Len(u) : (x \o u)[Len(x) + j] = u[j]
  <2>1. x \in Seq(Chars) /\ u \in Seq(Chars) /\ Len(x) \in Nat /\ Len(u) \in Nat
    BY <1>1, <1>2
  <2>2. /\ Len(x \o u) = Len(x) + Len(u)
        /\ \A i \in 1..Len(x) + Len(u) : (x \o u)[i] = IF i <= Len(x) THEN x[i] ELSE u[i - Len(x)]
    BY <2>1, ConcatProperties
  <2>3. ASSUME NEW j \in 1..Len(u) PROVE (x \o u)[Len(x) + j] = u[j]
    <3>1. Len(x) + j \in 1..Len(x) + Len(u) /\ ~(Len(x) + j <= Len(x)) /\ (Len(x) + j) - Len(x) = j
      BY <2>1
    <3> QED
      BY <2>2, <3>1
  <2> QED
    BY <2>2, <2>3
<1>4. t = x \o u
  BY DEF u
<1>5. \A j \in 1..Len(y) : j \in 1..Len(u)
  BY <1>1, <1>2
<1>6. \A j \in 1..Len(z) : Len(y) + j \in 1..Len(u)
  BY <1>1, <1>2
<1> QED
  BY <1>2, <1>3, <1>4, <1>5, <1>6 DEF Middle

(* What a producer joined with commas, the reader takes apart again. *)
THEOREM HeaderIsSplit == Split(Joined(Header, <<Comma>>)) = Header
<1> DEFINE m == Len(Header)
           sep == <<Comma>>
           none == <<>>
           text == Joined(Header, sep)
           Names(k) == SubSeq(Header, 1, k)
<1>1. /\ m \in Nat /\ m # 0 /\ Header # <<>>
      /\ \A k \in 1..m : Header[k] \in Fields /\ Header[k] \in Seq(Chars \ {Comma})
  <2>1. \A k \in 1..m : Header[k] \in Seq(Chars \ {Comma, NewLine, Return}) /\ Header[k] \in Fields
    BY HeaderFacts
  <2>2. Seq(Chars \ {Comma, NewLine, Return}) \subseteq Seq(Chars \ {Comma})
    OBVIOUS
  <2>3. m \in Nat \ {0} /\ Header # <<>>
    BY HeaderFacts, ColumnsAssumption
  <2> QED
    BY <2>1, <2>2, <2>3
<1>2. Header \in Seq(Fields)
  BY <1>1, ColumnsAssumption
<1>3. sep \in Fields /\ none \in Fields /\ Len(sep) = 1 /\ sep[1] = Comma
  BY Characters DEF Fields
<1> HIDE DEF m, none, sep
<1>4. PICK L, R : IsCut(Header, sep, none, L, R)
  BY <1>1, <1>2, <1>3, Cut
<1>5. text \in Fields
  <2>1. text \in Seq(Chars)
    BY <1>2, <1>3, JoinedIn DEF Fields
  <2> QED
    BY <2>1 DEF Fields
<1> HIDE DEF text
<1>6. text \o none = text
  BY <1>5, ConcatEmptySeq DEF none, Fields
<1> DEFINE end(k) == IF k = m THEN none ELSE sep
<1>7. /\ L \in [0..m -> Fields] /\ R \in [0..m -> Fields] /\ L[0] = <<>> /\ R[m] = <<>>
      /\ \A k \in 1..m : L[k] = L[k - 1] \o (Header[k] \o end(k))
                         /\ R[k - 1] = Header[k] \o (end(k) \o R[k])
      /\ \A k \in 0..m : text = L[k] \o R[k]
  BY <1>4, <1>6 DEF IsCut, m, text
<1> HIDE <1>4
<1>8. PICK w : /\ w[0] = <<<<>>>> /\ Split(text) = w[Len(text)]
               /\ \A n \in 1..Len(text) : w[n] = Put(w[n - 1], text[n])
  BY <1>5, SplitInSteps
<1>9. ASSUME NEW k \in 1..m, w[Len(L[k - 1])] = Append(Names(k - 1), <<>>)
      PROVE  /\ w[Len(L[k - 1]) + Len(Header[k])] = Names(k)
             /\ k = m => Len(text) = Len(L[k - 1]) + Len(Header[k])
             /\ k # m => w[Len(L[k])] = Append(Names(k), <<>>)
  <2> DEFINE x == L[k - 1]
             y == Header[k]
             z == end(k) \o R[k]
             a == Len(x)
             b == Len(y)
  <2>1. k - 1 \in 0..m /\ k \in 0..m
    BY <1>1
  <2>2. x \in Fields /\ y \in Fields /\ end(k) \in Fields /\ R[k] \in Fields
    BY <1>1, <1>3, <1>7, <2>1
  <2>3. z \in Fields
    BY <2>2, TogetherIn
  <2>4. text = x \o (y \o z)
    BY <1>7, <2>1
  <2> HIDE DEF x, y, z
  <2>50. Middle(x, y, z, text)
    BY <2>2, <2>3, <2>4, InTheMiddle
  <2>5. /\ Len(text) = Len(x) + (Len(y) + Len(z))
        /\ \A j \in 1..Len(y) : text[Len(x) + j] = y[j]
        /\ \A j \in 1..Len(z) : text[Len(x) + (Len(y) + j)] = z[j]
    BY <2>50 DEF Middle
  <2>6. a \in Nat /\ b \in Nat /\ Len(z) \in Nat
    BY <2>2, <2>3 DEF Fields
  <2>7. ASSUME NEW j \in 1..b PROVE w[a + j] = Put(w[a + (j - 1)], y[j])
    <3>1. a + j \in 1..Len(text) /\ (a + j) - 1 = a + (j - 1)
      BY <2>5, <2>6
    <3> QED
      BY <1>8, <2>5, <3>1
  <2>8. w[a + b] = Append(Names(k - 1), y)
    <3>1. Names(k - 1) \in Seq(Fields) /\ y \in Seq(Chars \ {Comma})
      BY <1>1, <1>2, <2>1 DEF y, m
    <3>2. w[a] = Append(Names(k - 1), <<>>)
      BY <1>9 DEF x
    <3> HIDE DEF Names, a
    <3>3. a \in Nat
      BY <2>6
    <3> QED
      BY <2>7, <3>1, <3>2, <3>3, WordIsSplit
  <2>9. Append(Names(k - 1), y) = Names(k)
    BY <1>1, <1>2 DEF y, m
  <2>10. ASSUME k = m PROVE Len(z) = 0
    BY <1>7, <2>10 DEF z, none
  <2>11. ASSUME k # m PROVE w[Len(L[k])] = Append(Names(k), <<>>)
    <3>1. end(k) = sep
      BY <2>11
    <3>2. z = sep \o R[k] /\ R[k] \in Seq(Chars) /\ sep \in Seq(Chars)
      BY <1>3, <2>2, <3>1 DEF z, Fields
    <3>3. Len(z) = 1 + Len(R[k]) /\ z[1] = Comma /\ Len(R[k]) \in Nat
      <4>1. /\ Len(sep \o R[k]) = Len(sep) + Len(R[k])
            /\ \A i \in 1..Len(sep) + Len(R[k]) :
                  (sep \o R[k])[i] = IF i <= Len(sep) THEN sep[i] ELSE R[k][i - Len(sep)]
        BY <3>2, ConcatProperties
      <4>2. Len(R[k]) \in Nat /\ 1 \in 1..1 + Len(R[k])
        BY <3>2
      <4> QED
        BY <1>3, <3>2, <4>1, <4>2
    <3>4. 1 \in 1..Len(z) /\ a + (b + 1) \in 1..Len(text) /\ (a + (b + 1)) - 1 = a + b
      BY <2>5, <2>6, <3>3
    <3>5. text[a + (b + 1)] = Comma
      BY <2>5, <3>3, <3>4
    <3>6. w[a + (b + 1)] = Put(w[a + b], Comma)
      BY <1>8, <3>4, <3>5
    <3>7. w[a + (b + 1)] = Append(Names(k), <<>>)
      BY <2>8, <2>9, <3>6 DEF Put
    <3>8. L[k] = x \o (y \o sep)
      BY <1>7, <3>1 DEF x, y
    <3>9. Len(L[k]) = a + (b + 1)
      <4>1. Middle(x, y, sep, L[k])
        BY <1>3, <2>2, <3>8, InTheMiddle
      <4> QED
        BY <1>3, <4>1 DEF Middle
    <3> QED
      BY <3>7, <3>9
  <2>12. k = m => Len(text) = a + b
    BY <2>5, <2>6, <2>10
  <2>13. w[a + b] = Names(k)
    BY <2>8, <2>9
  <2> HIDE DEF Names
  <2> QED
    BY <2>11, <2>12, <2>13 DEF x, y
<1> DEFINE Right == {k \in 0..m - 1 : w[Len(L[k])] = Append(Names(k), <<>>)}
<1>10. m - 1 \in Right
  <2>1. 0 \in Right
    <3>1. Len(L[0]) = 0 /\ Names(0) = <<>> /\ 0 \in 0..m - 1
      BY <1>1, <1>7
    <3> QED
      BY <1>8, <3>1
  <2>2. ASSUME NEW k \in 0..m - 1, k \in Right, k < m - 1 PROVE k + 1 \in Right
    <3>1. k + 1 \in 1..m /\ k + 1 # m /\ (k + 1) - 1 = k /\ k + 1 \in 0..m - 1
      BY <1>1, <2>2
    <3>2. w[Len(L[(k + 1) - 1])] = Append(Names((k + 1) - 1), <<>>)
      BY <2>2, <3>1
    <3>3. w[Len(L[k + 1])] = Append(Names(k + 1), <<>>)
      BY <1>9, <3>1, <3>2
    <3> QED
      BY <3>1, <3>3
  <2>3. m - 1 \in Nat /\ m - 1 \in 0..m - 1
    BY <1>1
  <2> HIDE DEF Right
  <2>4. \A k \in 0..m - 1 : k \in Right
    BY <2>1, <2>2, <2>3, Induction
  <2> QED
    BY <2>3, <2>4
<1>11. m \in 1..m
  BY <1>1
<1>12. w[Len(L[m - 1])] = Append(Names(m - 1), <<>>)
  BY <1>10
<1>13. w[Len(text)] = Names(m)
  BY <1>9, <1>11, <1>12
<1>14. Names(m) = Header
  BY <1>2 DEF m
<1> QED
  BY <1>8, <1>13, <1>14 DEF text, sep

-----------------------------------------------------------------------------
(* Rows. *)

IsRow(row) == DOMAIN row \subseteq Fields /\ row \in [DOMAIN row -> Fields]
Rows == UNION {[D -> Fields] : D \in SUBSET Fields}

LEMMA RowsAreRows == ASSUME NEW row PROVE row \in Rows <=> IsRow(row)
<1>1. ASSUME row \in Rows PROVE IsRow(row)
  <2>1. PICK D \in SUBSET Fields : row \in [D -> Fields]
    BY <1>1 DEF Rows
  <2> QED
    BY <2>1 DEF IsRow
<1>2. ASSUME IsRow(row) PROVE row \in Rows
  <2>1. DOMAIN row \in SUBSET Fields /\ row \in [DOMAIN row -> Fields]
    BY <1>2 DEF IsRow
  <2> QED
    BY <2>1 DEF Rows
<1> QED
  BY <1>1, <1>2

LEMMA ValueIn == ASSUME NEW row, IsRow(row), NEW c PROVE Value(row, c) \in Fields
<1>1. <<>> \in Fields
  BY DEF Fields
<1> QED
  BY <1>1 DEF IsRow, Value

LEMMA AssignIn ==
    ASSUME NEW row, IsRow(row), NEW c \in Fields, NEW v \in Fields PROVE IsRow(Assign(row, c, v))
BY DEF IsRow, Assign

LEMMA UpdateIn ==
    ASSUME NEW row, IsRow(row), NEW c \in Fields, NEW v \in Fields PROVE IsRow(Update(row, c, v))
BY AssignIn DEF Update

LEMMA UpdatedValue ==
    ASSUME NEW row, NEW c, NEW v, NEW d
    PROVE  Value(Update(row, c, v), d) =
               IF d = c THEN IF Value(row, c) = <<>> THEN <<>> ELSE v ELSE Value(row, d)
<1>1. CASE Value(row, c) = <<>>
  BY <1>1 DEF Update
<1>2. CASE Value(row, c) # <<>>
  BY <1>2, AssignedValue DEF Update
<1> QED
  BY <1>1, <1>2

(* Whatever is in a line, the row gets nothing but fields under the names   *)
(* that Column gives, and stays in every set that is closed under that.     *)
LEMMA StoredIn ==
    ASSUME NEW M, m_map_data \in M, NEW line \in Fields,
           \A map \in M, i \in Nat \ {0}, w \in Fields : Assign(map, Column(i), w) \in M
    PROVE  Parsed(line).map \in M
<1> DEFINE m == Len(line)
           Good(q) == \E state \in {"UnquotedField", "QuotedField", "QuotedQuote"}, i \in Nat \ {0},
                         w \in Fields, map \in M : q = Parser(state, i, w, map)
<1>1. m \in Nat /\ \A n \in 1..m : line[n] \in Chars
  BY DEF Fields
<1>2. PICK p : /\ p[0] = Start /\ Parsed(line) = Store(p[m])
               /\ \A n \in 1..m : p[n] = Step(p[n - 1], line[n])
  BY <1>1, ParsedInSteps
<1>3. Good(Start)
  <2>1. <<>> \in Fields /\ 1 \in Nat \ {0}
    BY DEF Fields
  <2>2. Start = Parser("UnquotedField", 1, <<>>, m_map_data)
    BY DEF Start, Parser
  <2> QED
    BY <2>1, <2>2
<1>4. ASSUME NEW q, NEW c \in Chars, Good(q) PROVE Good(Step(q, c))
  <2>1. PICK state \in {"UnquotedField", "QuotedField", "QuotedQuote"}, i \in Nat \ {0},
             w \in Fields, map \in M : q = Parser(state, i, w, map)
    BY <1>4
  <2> DEFINE new == Assign(map, Column(i), w)
  <2>2. Append(w, c) \in Fields /\ <<>> \in Fields /\ new \in M /\ i + 1 \in Nat \ {0}
    BY DEF Fields
  <2> HIDE DEF new
  <2>3. CASE c = Comma /\ state # "QuotedField"
    <3>1. Step(q, c) = Parser("UnquotedField", i + 1, <<>>, new)
      BY <2>1, <2>3, StepAtComma DEF new
    <3> QED
      BY <2>2, <3>1
  <2>4. CASE c = Quote
    <3>1. Append(w, Quote) \in Fields
      BY <2>2, <2>4
    <3>2. \/ Step(q, c) = Parser("QuotedField", i, w, map)
          \/ Step(q, c) = Parser("QuotedQuote", i, w, map)
          \/ Step(q, c) = Parser("QuotedField", i, Append(w, Quote), map)
      BY <2>1, <2>4, StepOfParser
    <3> QED
      BY <3>1, <3>2
  <2>5. CASE c # Quote /\ state = "QuotedField"
    <3>1. Step(q, c) = Parser("QuotedField", i, Append(w, c), map)
      BY <2>1, <2>5, StepOfParser
    <3> QED
      BY <2>2, <3>1
  <2>6. CASE c \notin {Comma, Quote} /\ state = "UnquotedField"
    <3>1. Step(q, c) = Parser("UnquotedField", i, Append(w, c), map)
      BY <2>1, <2>6, StepOfParser
    <3> QED
      BY <2>2, <3>1
  <2>7. CASE c \notin {Comma, Quote} /\ state = "QuotedQuote"
    <3>1. Step(q, c) = Parser("UnquotedField", i, w, map)
      BY <2>1, <2>7 DEF Step, QuotedQuote, Parser
    <3> QED
      BY <3>1
  <2> QED
    BY <2>3, <2>4, <2>5, <2>6, <2>7
<1> HIDE DEF Good
<1> DEFINE Right == {n \in 0..m : Good(p[n])}
<1>5. 0 \in Right
  BY <1>1, <1>2, <1>3
<1>6. ASSUME NEW n \in 0..m, n \in Right, n < m PROVE n + 1 \in Right
  <2>1. n + 1 \in 1..m /\ n + 1 \in 0..m /\ (n + 1) - 1 = n
    BY <1>1, <1>6
  <2>2. p[n + 1] = Step(p[n], line[n + 1]) /\ line[n + 1] \in Chars /\ Good(p[n])
    BY <1>1, <1>2, <1>6, <2>1
  <2> QED
    BY <1>4, <2>1, <2>2
<1>7. m \in Right
  <2> HIDE DEF Right
  <2>1. \A n \in 0..m : n \in Right
    BY <1>1, <1>5, <1>6, Induction
  <2> QED
    BY <1>1, <2>1
<1>8. Good(p[m])
  BY <1>7
<1>9. PICK state \in {"UnquotedField", "QuotedField", "QuotedQuote"}, i \in Nat \ {0},
           w \in Fields, map \in M : p[m] = Parser(state, i, w, map)
  BY <1>8 DEF Good
<1>10. Store(p[m]).map = Assign(map, Column(i), w)
  BY <1>9 DEF Store, Parser
<1> QED
  BY <1>2, <1>10

-----------------------------------------------------------------------------
(* Transformers. *)

(* What a transformer makes of a value, and of the one that is added to it. *)
New(v, w, t) ==
    CASE t.type = "unuuid" -> Unuuid(v)
      [] t.type = "map" -> IF v \in DOMAIN t.lookup THEN t.lookup[v] ELSE v
      [] t.type = "append" -> v \o w
      [] t.type = "prepend" -> w \o v
      [] t.type = "void" -> <<"BASE ">> \o v

(* A transform that main() can build a transformer from. *)
Typed(t) ==
    /\ t.type \in Registered /\ t.column \in Fields \ {Junk}
    /\ t.type \in {"append", "prepend"} => t.from_column \in Fields \ {Junk}
    /\ t.type = "set" => t.value \in Fields
    /\ t.type = "map" => t.lookup \in [DOMAIN t.lookup -> Fields]

LEMMA AppliedRow ==
    ASSUME NEW row, NEW t, Typed(t)
    PROVE  Apply(row, t) =
             IF t.type = "set" THEN Assign(row, t.column, t.value)
             ELSE Update(row, t.column, New(Value(row, t.column), Value(row, t.from_column), t))
<1>1. t.type \in {"unuuid", "map", "append", "prepend", "set", "void"}
  BY DEF Typed, Registered
<1> DEFINE v == Value(row, t.column)
           w == Value(row, t.from_column)
<1> HIDE DEF v, w
<1>2. CASE t.type = "set"
  BY <1>2 DEF Apply, DecoratorSet
<1>3. CASE t.type = "unuuid"
  <2>1. Apply(row, t) = Update(row, t.column, Unuuid(v)) /\ New(v, w, t) = Unuuid(v)
    BY <1>3 DEF Apply, DecoratorUnuuid, New, v
  <2> QED
    BY <1>3, <2>1 DEF v, w
<1>4. CASE t.type = "map"
  <2>1. Apply(row, t) = Update(row, t.column, IF v \in DOMAIN t.lookup THEN t.lookup[v] ELSE v)
        /\ New(v, w, t) = IF v \in DOMAIN t.lookup THEN t.lookup[v] ELSE v
    BY <1>4 DEF Apply, DecoratorMap, New, v
  <2> QED
    BY <1>4, <2>1 DEF v, w
<1>5. CASE t.type = "append"
  <2>1. Apply(row, t) = Update(row, t.column, v \o w) /\ New(v, w, t) = v \o w
    BY <1>5 DEF Apply, DecoratorAppend, New, v, w
  <2> QED
    BY <1>5, <2>1 DEF v, w
<1>6. CASE t.type = "prepend"
  <2>1. Apply(row, t) = Update(row, t.column, w \o v) /\ New(v, w, t) = w \o v
    BY <1>6 DEF Apply, DecoratorPrepend, New, v, w
  <2> QED
    BY <1>6, <2>1 DEF v, w
<1>7. CASE t.type = "void"
  <2>1. Apply(row, t) = Update(row, t.column, <<"BASE ">> \o v) /\ New(v, w, t) = <<"BASE ">> \o v
    BY <1>7 DEF Apply, BaseTransformer, New, v
  <2> QED
    BY <1>7, <2>1 DEF v, w
<1> QED
  BY <1>1, <1>2, <1>3, <1>4, <1>5, <1>6, <1>7

LEMMA UnuuidIn == ASSUME NEW v \in Fields PROVE Unuuid(v) \in Fields
<1> DEFINE w == Without("-", v)
<1>1. w \in Seq(Chars \ {"-"})
  BY WithoutIt DEF Fields
<1> HIDE DEF w
<1>2. Len(w) \in Nat /\ DOMAIN w = 1..Len(w) /\ \A i \in 1..Len(w) : w[i] \in Chars
  BY <1>1
<1>3. \A i \in 1..Len(w) : ToLower(w[i]) \in Chars
  BY <1>2, CharsAssumption DEF ToLower
<1>4. [i \in DOMAIN w |-> ToLower(w[i])] \in Seq(Chars)
  BY <1>2, <1>3
<1> QED
  BY <1>4 DEF Unuuid, w, Fields

LEMMA NewIn ==
    ASSUME NEW t, Typed(t), t.type # "set", NEW v \in Fields, NEW w \in Fields
    PROVE  New(v, w, t) \in Fields
<1>1. t.type \in {"unuuid", "map", "append", "prepend", "void"}
  BY DEF Typed, Registered
<1>2. CASE t.type = "unuuid"
  BY <1>2, UnuuidIn DEF New
<1>3. CASE t.type = "map"
  <2>1. v \in DOMAIN t.lookup => t.lookup[v] \in Fields
    BY <1>3 DEF Typed
  <2>2. New(v, w, t) = IF v \in DOMAIN t.lookup THEN t.lookup[v] ELSE v
    BY <1>3 DEF New
  <2> QED
    BY <2>1, <2>2
<1>4. CASE t.type = "append"
  BY <1>4, TogetherIn DEF New
<1>5. CASE t.type = "prepend"
  BY <1>5, TogetherIn DEF New
<1>6. CASE t.type = "void"
  <2>1. <<"BASE ">> \in Fields
    <3>1. "BASE " \in Chars
      BY CharsAssumption
    <3>2. \A c \in Chars : <<c>> \in Seq(Chars)
      OBVIOUS
    <3> QED
      BY <3>1, <3>2, Zenon DEF Fields
  <2>2. New(v, w, t) = <<"BASE ">> \o v
    BY <1>6 DEF New
  <2> QED
    BY <2>1, <2>2, TogetherIn
<1> QED
  BY <1>1, <1>2, <1>3, <1>4, <1>5, <1>6

LEMMA ApplyIn == ASSUME NEW row, IsRow(row), NEW t, Typed(t) PROVE IsRow(Apply(row, t))
<1>1. t.column \in Fields /\ (t.type = "set" => t.value \in Fields)
  BY DEF Typed
<1>2. CASE t.type = "set"
  BY <1>1, <1>2, AppliedRow, AssignIn
<1>3. CASE t.type # "set"
  <2> DEFINE v == Value(row, t.column)
             w == Value(row, t.from_column)
  <2>1. v \in Fields /\ w \in Fields
    BY ValueIn
  <2> HIDE DEF v, w
  <2>2. New(v, w, t) \in Fields
    BY <1>3, <2>1, NewIn
  <2>3. Apply(row, t) = Update(row, t.column, New(v, w, t))
    BY <1>3, AppliedRow DEF v, w
  <2> QED
    BY <1>1, <2>2, <2>3, UpdateIn
<1> QED
  BY <1>2, <1>3

(* A transformer writes one column, and nothing into an empty one. *)
LEMMA AppliedValue ==
    ASSUME NEW row, NEW t, Typed(t), NEW c
    PROVE  Value(Apply(row, t), c) =
             IF c # t.column THEN Value(row, c)
             ELSE IF t.type = "set" THEN t.value
             ELSE IF Value(row, c) = <<>> THEN <<>>
             ELSE New(Value(row, c), Value(row, t.from_column), t)
<1>1. CASE t.type = "set"
  BY <1>1, AppliedRow, AssignedValue
<1>2. CASE t.type # "set"
  <2> DEFINE n == New(Value(row, t.column), Value(row, t.from_column), t)
  <2>1. Apply(row, t) = Update(row, t.column, n)
    BY <1>2, AppliedRow
  <2> HIDE DEF n
  <2>2. Value(Update(row, t.column, n), c) =
          IF c = t.column THEN IF Value(row, t.column) = <<>> THEN <<>> ELSE n ELSE Value(row, c)
    BY UpdatedValue
  <2> QED
    BY <1>2, <2>1, <2>2 DEF n
<1> QED
  BY <1>1, <1>2

(* What is added has no part in types that add nothing. *)
LEMMA NewOfOther ==
    ASSUME NEW t, Typed(t), t.type \notin {"append", "prepend"}, NEW v, NEW w, NEW x
    PROVE  t.type # "set" => New(v, w, t) = New(v, x, t)
BY DEF New, Typed, Registered

(* The chain works transform by transform. *)
LEMMA OperationInSteps ==
    ASSUME NEW row, IsRow(row), NEW S, NEW ts \in Seq(S), \A i \in 1..Len(ts) : Typed(ts[i])
    PROVE  \E r \in [0..Len(ts) -> Rows] :
              /\ r[0] = row /\ r[Len(ts)] = Operation(row, ts)
              /\ \A n \in 1..Len(ts) : r[n] = Apply(r[n - 1], ts[n])
<1> DEFINE m == Len(ts)
           G == [n \in 1..m |-> [x \in Rows |-> Apply(x, ts[n])]]
           Made(w) == w = [n \in 0..m |-> IF n = 0 THEN row ELSE Apply(w[n - 1], ts[n])]
<1>1. m \in Nat /\ row \in Rows
  BY RowsAreRows
<1>2. \A n \in 1..m, x \in Rows : Apply(x, ts[n]) \in Rows
  BY RowsAreRows, ApplyIn
<1>3. G \in [1..m -> [Rows -> Rows]]
  BY <1>2
<1>4. \A n \in 1..m, x \in Rows : G[n][x] = Apply(x, ts[n])
  OBVIOUS
<1> HIDE DEF m, G
<1>5. Rounds(Rows, row, m, G) # {}
  BY <1>1, <1>3, Iterated
<1>6. PICK r \in [0..m -> Rows] : r[0] = row /\ \A n \in 1..m : r[n] = G[n][r[n - 1]]
  BY <1>5 DEF Rounds
<1>7. \A n \in 1..m : r[n] = Apply(r[n - 1], ts[n])
  <2> SUFFICES ASSUME NEW n \in 1..m PROVE r[n] = Apply(r[n - 1], ts[n])
    OBVIOUS
  <2>1. n - 1 \in 0..m
    BY <1>1
  <2> QED
    BY <1>4, <1>6, <2>1
<1>8. Made(r)
  <2>1. \A n \in 0..m : n # 0 => n \in 1..m
    BY <1>1
  <2> QED
    BY <1>6, <1>7, <2>1
<1> DEFINE w == CHOOSE f : Made(f)
<1>9. Made(w)
  BY <1>8
<1>10. Operation(row, ts) = w[m]
  BY DEF Operation, m
<1> HIDE DEF w
<1> DEFINE Same == {n \in 0..m : w[n] = r[n]}
<1>11. 0 \in Same
  BY <1>1, <1>6, <1>9
<1>12. ASSUME NEW n \in 0..m, n \in Same, n < m PROVE n + 1 \in Same
  <2>1. n + 1 \in 1..m /\ n + 1 \in 0..m /\ (n + 1) - 1 = n /\ n + 1 # 0
    BY <1>1, <1>12
  <2>2. w[n + 1] = Apply(w[n], ts[n + 1])
    BY <1>9, <2>1
  <2>3. r[n + 1] = Apply(r[n], ts[n + 1])
    BY <1>7, <2>1
  <2> QED
    BY <1>12, <2>1, <2>2, <2>3
<1>13. m \in Same
  <2> HIDE DEF Same
  <2>1. \A n \in 0..m : n \in Same
    BY <1>1, <1>11, <1>12, Induction
  <2> QED
    BY <1>1, <2>1
<1>14. r[m] = Operation(row, ts)
  BY <1>10, <1>13
<1> QED
  BY <1>6, <1>7, <1>14 DEF m

LEMMA ExpectedIsOperation ==
    ASSUME NEW row, NEW ts PROVE Expected(row, ts) = Operation(Fresh(row), ts)
BY DEF Expected, Operation

LEMMA FreshFacts ==
    ASSUME NEW row \in Seq(Fields)
    PROVE  /\ IsRow(Fresh(row)) /\ \A c : c \notin Range(Header) => Value(Fresh(row), c) = <<>>
           /\ Len(row) >= Len(Header) =>
                \A i \in 1..Len(Header) : Value(Fresh(row), Header[i]) = row[i]
<1> DEFINE At(c) == CHOOSE i \in DOMAIN Header : Header[i] = c
           Has(c) == \E i \in DOMAIN row : i <= Len(Header) /\ Header[i] = c
           field(c) == IF Has(c) THEN row[At(c)] ELSE <<>>
<1>1. Fresh(row) = [c \in Range(Header) |-> field(c)]
  BY DEF Fresh
<1>2. Len(Header) \in Nat /\ DOMAIN Header = 1..Len(Header) /\ Range(Header) = {Header[i] : i \in 1..Len(Header)}
  <2>1. DOMAIN Header = 1..Len(Header) /\ Len(Header) \in Nat
    BY HeaderFacts
  <2> QED
    BY <2>1 DEF Range
<1>3. Len(row) \in Nat /\ DOMAIN row = 1..Len(row) /\ <<>> \in Fields
      /\ \A i \in 1..Len(row) : row[i] \in Fields
  BY DEF Fields
<1>4. ASSUME NEW i \in 1..Len(Header) PROVE At(Header[i]) = i
  <2>1. \A j \in 1..Len(Header) : Header[j] = Header[i] => j = i
    BY HeaderFacts
  <2>2. \E j \in DOMAIN Header : Header[j] = Header[i]
    BY <1>2
  <2>3. At(Header[i]) \in 1..Len(Header) /\ Header[At(Header[i])] = Header[i]
    BY <1>2, <2>2
  <2> QED
    BY <2>1, <2>3
<1> HIDE DEF At
<1>5. ASSUME NEW i \in 1..Len(Header)
      PROVE  field(Header[i]) \in Fields /\ (i <= Len(row) => field(Header[i]) = row[i])
  <2>1. CASE i <= Len(row)
    <3>1. i \in DOMAIN row /\ i <= Len(Header)
      BY <1>2, <1>3, <2>1
    <3>2. Has(Header[i])
      BY <3>1
    <3> QED
      BY <1>3, <1>4, <3>1, <3>2
  <2>2. CASE ~(i <= Len(row))
    <3>1. ~Has(Header[i])
      <4> SUFFICES ASSUME NEW j \in DOMAIN row, j <= Len(Header), Header[j] = Header[i] PROVE FALSE
        OBVIOUS
      <4>1. j \in 1..Len(Header)
        BY <1>2, <1>3
      <4>2. j = i
        BY <4>1, HeaderFacts
      <4> QED
        BY <1>3, <2>2, <4>2
    <3> QED
      BY <1>3, <2>2, <3>1
  <2> QED
    BY <2>1, <2>2
<1> HIDE DEF field, Has
<1>6. DOMAIN Fresh(row) = Range(Header) /\ \A c \in Range(Header) : Fresh(row)[c] = field(c)
  BY <1>1
<1>7. \A c \in Range(Header) : c \in Fields /\ field(c) \in Fields
  <2>1. \A i \in 1..Len(Header) : Header[i] \in Fields
    BY HeaderFacts
  <2> QED
    BY <1>2, <1>5, <2>1
<1>8. IsRow(Fresh(row))
  BY <1>1, <1>6, <1>7 DEF IsRow
<1>9. \A c : c \notin Range(Header) => Value(Fresh(row), c) = <<>>
  BY <1>6 DEF Value
<1>10. ASSUME Len(row) >= Len(Header), NEW i \in 1..Len(Header)
       PROVE  Value(Fresh(row), Header[i]) = row[i]
  <2>1. Header[i] \in Range(Header) /\ i <= Len(row)
    BY <1>2, <1>3, <1>10
  <2> QED
    BY <1>5, <1>6, <2>1 DEF Value
<1> QED
  BY <1>8, <1>9, <1>10

(* Nothing but transforms of registered types comes into a chain. *)
LEMMA WrapIn ==
    ASSUME NEW S, NEW chain \in Seq({t \in S : t.type \in Registered}), NEW u \in S
    PROVE  Wrap(chain, u) \in Seq({t \in S : t.type \in Registered})
<1> DEFINE T == {t \in S : t.type \in Registered}
<1>1. u.type \in Registered => u \in T
  OBVIOUS
<1> HIDE DEF T
<1>2. chain \in Seq(T)
  BY DEF T
<1>3. Wrap(chain, u) \in Seq(T)
  BY <1>1, <1>2 DEF Wrap
<1> QED
  BY <1>3 DEF T

LEMMA ChainIn ==
    ASSUME NEW S, NEW ts \in Seq(S)
    PROVE  Chain(ts) \in Seq({t \in S : t.type \in Registered})
<1> DEFINE m == Len(ts)
           X == Seq({t \in S : t.type \in Registered})
           G == [n \in 1..m |-> [x \in X |-> Wrap(x, ts[n])]]
           Made(w) == w = [n \in 0..m |-> IF n = 0 THEN <<>> ELSE Wrap(w[n - 1], ts[n])]
<1>1. m \in Nat /\ <<>> \in X
  OBVIOUS
<1>2. \A n \in 1..m, x \in X : Wrap(x, ts[n]) \in X
  BY WrapIn
<1>3. G \in [1..m -> [X -> X]]
  BY <1>2
<1>4. \A n \in 1..m, x \in X : G[n][x] = Wrap(x, ts[n])
  OBVIOUS
<1> HIDE DEF m, G, X
<1>5. Rounds(X, <<>>, m, G) # {}
  BY <1>1, <1>3, Iterated
<1>6. PICK r \in [0..m -> X] : r[0] = <<>> /\ \A n \in 1..m : r[n] = G[n][r[n - 1]]
  BY <1>5 DEF Rounds
<1>7. \A n \in 1..m : r[n] = Wrap(r[n - 1], ts[n])
  <2> SUFFICES ASSUME NEW n \in 1..m PROVE r[n] = Wrap(r[n - 1], ts[n])
    OBVIOUS
  <2>1. n - 1 \in 0..m
    BY <1>1
  <2> QED
    BY <1>4, <1>6, <2>1
<1>8. Made(r)
  <2>1. \A n \in 0..m : n # 0 => n \in 1..m
    BY <1>1
  <2> QED
    BY <1>6, <1>7, <2>1
<1> DEFINE w == CHOOSE f : Made(f)
<1>9. Made(w)
  BY <1>8
<1>10. Chain(ts) = w[m]
  BY DEF Chain, m
<1> HIDE DEF w
<1> DEFINE Right == {n \in 0..m : w[n] \in X}
<1>11. 0 \in Right
  BY <1>1, <1>9
<1>12. ASSUME NEW n \in 0..m, n \in Right, n < m PROVE n + 1 \in Right
  <2>1. n + 1 \in 1..m /\ n + 1 \in 0..m /\ (n + 1) - 1 = n /\ n + 1 # 0
    BY <1>1, <1>12
  <2>2. w[n + 1] = Wrap(w[n], ts[n + 1]) /\ w[n] \in X
    BY <1>9, <1>12, <2>1
  <2> QED
    BY <1>2, <2>1, <2>2
<1>13. m \in Right
  <2> HIDE DEF Right
  <2>1. \A n \in 0..m : n \in Right
    BY <1>1, <1>11, <1>12, Induction
  <2> QED
    BY <1>1, <2>1
<1> QED
  BY <1>10, <1>13 DEF X
=============================================================================
