--------------------------- MODULE ServiceProofs ---------------------------
(***************************************************************************)
(* Proofs about the services around the review, each for every value of    *)
(* its constants.                                                          *)
(*   WebConfig: as long as requests do not overlap, the configuration is   *)
(* the document that the last accepted request validated.                  *)
(*   ModelCatalog: the threads of one service implement the atomic         *)
(* registry of ModelRegistry.                                              *)
(*   OMLXHarness: what the report says was measured and restored is so,    *)
(* unless the runtime has once outlived a restart.                         *)
(*   Inference: whoever asks gets the answers of the model that lies there *)
(* for every set of previews, cache and batch size.                        *)
(*   ContainerEntry: the entrypoint and the command line's parser come to  *)
(* the same directories for every list of arguments that does not begin    *)
(* with "--", and what root starts owns the state where it has looked.     *)
(*   VisionBackend: what is read out of a text is its last whole object,   *)
(* and what a call answers is what the model said, for every text, every   *)
(* number of criteria and every number of retries.                         *)
(*   Commentary: the comments fit the scores they stand beside, for any    *)
(* photos, groups, scores and answers of the model.                        *)
(*   The recursive functions of the modules run over an interval of the    *)
(* naturals, so what they return follows from the well-ordering of these.  *)
(***************************************************************************)
EXTENDS WebConfig, ModelCatalog, OMLXHarness, Answers, ContainerEntry, Orders,
        FiniteSetTheorems, SequenceTheorems, WellFoundedInduction, TLAPS

-----------------------------------------------------------------------------
(* Finite sets, induction over 0..n and functions defined along it.        *)

(* A function takes at most as many values as it has arguments.            *)
LEMMA FewValues ==
    ASSUME NEW S, NEW f, IsFiniteSet(S)
    PROVE  IsFiniteSet({f[x] : x \in S}) /\ Cardinality({f[x] : x \in S}) <= Cardinality(S)
<1> DEFINE T == {f[x] : x \in S}
           g == [x \in S |-> f[x]]
<1>1. g \in Surjection(S, T)
  BY DEF Surjection
<1> HIDE DEF T, g
<1>2. IsFiniteSet(T) /\ Cardinality(T) <= Cardinality(S)
  BY <1>1, FS_Surjection
<1> QED  BY <1>2 DEF T

(* The elements of a finite set, one after the other.                      *)
LEMMA FiniteSetListed ==
    ASSUME NEW S, IsFiniteSet(S)
    PROVE  \E list \in [1..Cardinality(S) -> S]:
              \A i, j \in DOMAIN list: list[i] = list[j] => i = j
<1>1. ExistsBijection(1..Cardinality(S), S)
  BY FS_CardinalityType
<1> QED  BY <1>1 DEF ExistsBijection, Bijection, Injection, IsInjective

(* An order that tells any two of a set apart.                             *)
Ranked(S, before) ==
    /\ \A x \in S: <<x, x>> \notin before
    /\ \A x, y \in S: x # y => <<x, y>> \in before \/ <<y, x>> \in before
    /\ \A x, y, z \in S: <<x, y>> \in before /\ <<y, z>> \in before => <<x, z>> \in before

(* A finite set in order: everything stands at the place that as many      *)
(* others come before.                                                     *)
LEMMA SortedLists ==
    ASSUME NEW S, IsFiniteSet(S), NEW before, Ranked(S, before)
    PROVE  /\ DOMAIN Ordered(S, before) = 1..Cardinality(S)
           /\ \A i \in 1..Cardinality(S):
                 /\ Ordered(S, before)[i] \in S
                 /\ Cardinality(Preceding(S, before, Ordered(S, before)[i])) = i - 1
           /\ \A x \in S: Cardinality(Preceding(S, before, x)) \in 0..(Cardinality(S) - 1)
           /\ \A x, y \in S: Cardinality(Preceding(S, before, x)) = Cardinality(Preceding(S, before, y))
                               => x = y
           /\ \A x, y \in S: <<x, y>> \in before =>
                 Cardinality(Preceding(S, before, x)) < Cardinality(Preceding(S, before, y))
<1>1. PICK n \in Nat: n = Cardinality(S)
  BY FS_CardinalityType
<1> DEFINE rank(x) == Cardinality(Preceding(S, before, x))
<1>2. ASSUME NEW x \in S, NEW y \in S, <<x, y>> \in before
      PROVE  rank(x) \in Nat /\ rank(y) \in Nat /\ rank(x) < rank(y)
  <2>1. PICK A, B: A = Preceding(S, before, x) /\ B = Preceding(S, before, y)
    OBVIOUS
  <2>2. x \in B /\ x \notin A /\ A \subseteq B /\ B \subseteq S
    BY <1>2, <2>1 DEF Preceding, Ranked
  <2>3. IsFiniteSet(B) /\ IsFiniteSet(A)
    BY <2>2, FS_Subset
  <2>4. Cardinality(A) <= Cardinality(B) /\ Cardinality(A) # Cardinality(B)
    BY <2>2, <2>3, FS_Subset
  <2>5. Cardinality(A) \in Nat /\ Cardinality(B) \in Nat
    BY <2>3, FS_CardinalityType
  <2> QED  BY <2>1, <2>4, <2>5
<1>3. ASSUME NEW x \in S PROVE rank(x) \in 0..(n - 1)
  <2>1. PICK A: A = Preceding(S, before, x)
    OBVIOUS
  <2>2. A \subseteq S /\ x \notin A
    BY <2>1 DEF Preceding, Ranked
  <2>3. IsFiniteSet(A) /\ Cardinality(A) <= Cardinality(S) /\ Cardinality(A) # Cardinality(S)
    BY <2>2, FS_Subset
  <2>4. Cardinality(A) \in Nat
    BY <2>3, FS_CardinalityType
  <2> QED  BY <1>1, <2>1, <2>3, <2>4
<1>4. ASSUME NEW x \in S, NEW y \in S, rank(x) = rank(y) PROVE x = y
  <2> SUFFICES ASSUME x # y PROVE FALSE
    OBVIOUS
  <2>1. <<x, y>> \in before \/ <<y, x>> \in before
    BY DEF Ranked
  <2> HIDE DEF rank
  <2> QED  BY <1>2, <1>4, <2>1
<1>5. PICK f: f = [x \in S |-> rank(x)]
  OBVIOUS
<1>6. \A x \in S: f[x] = rank(x)
  BY <1>5
<1> HIDE DEF rank
<1>7. PICK R: R = {f[x]: x \in S}
  OBVIOUS
<1>8. R \subseteq 0..(n - 1)
  BY <1>3, <1>6, <1>7
<1>9. IsFiniteSet(0..(n - 1)) /\ Cardinality(0..(n - 1)) = n
  <2>1. 0 \in Int /\ n - 1 \in Int
    OBVIOUS
  <2>2. IsFiniteSet(0..(n - 1)) /\ Cardinality(0..(n - 1)) = IF 0 > n - 1 THEN 0 ELSE (n - 1) - 0 + 1
    BY <2>1, FS_Interval
  <2> QED  BY <2>2
<1>10. IsFiniteSet(R) /\ Cardinality(R) \in Nat
  BY <1>8, <1>9, FS_Subset, FS_CardinalityType
<1>11. PICK g: g = [k \in R |-> CHOOSE x \in S: f[x] = k]
  OBVIOUS
<1>12. \A x \in S: g[f[x]] = x
  <2> TAKE x \in S
  <2>1. f[x] \in R
    BY <1>7
  <2>2. g[f[x]] \in S /\ f[g[f[x]]] = f[x]
    BY <1>11, <2>1
  <2> QED  BY <1>4, <1>6, <2>2
<1>13. S = {g[k]: k \in R}
  BY <1>7, <1>12
<1>14. n <= Cardinality(R)
  BY <1>1, <1>10, <1>13, FewValues
<1>15. R = 0..(n - 1)
  <2> SUFFICES ASSUME R # 0..(n - 1) PROVE FALSE
    OBVIOUS
  <2>1. Cardinality(R) <= n /\ Cardinality(R) # n
    BY <1>8, <1>9, FS_Subset
  <2> QED  BY <1>10, <1>14, <2>1
<1>16. ASSUME NEW i \in 1..n
       PROVE  Ordered(S, before)[i] \in S /\ rank(Ordered(S, before)[i]) = i - 1
  <2>1. i - 1 \in R
    BY <1>15
  <2>2. \E x \in S: rank(x) = i - 1
    BY <1>6, <1>7, <2>1
  <2>3. Ordered(S, before)[i] = CHOOSE x \in S: rank(x) = i - 1
    BY <1>1 DEF Ordered, rank
  <2> QED  BY <2>2, <2>3
<1>17. DOMAIN Ordered(S, before) = 1..n
  BY <1>1 DEF Ordered
<1>18. \A x, y \in S: <<x, y>> \in before => rank(x) < rank(y)
  BY <1>2 DEF rank
<1> QED  BY <1>1, <1>3, <1>4, <1>16, <1>17, <1>18 DEF rank

(* One number in three.                                                    *)
LEMMA EveryThird ==
    ASSUME NEW n \in Nat, NEW k \in 0..2
    PROVE  Cardinality({i \in 1..(3 * n): (i - 1) % 3 = k}) = n
<1> DEFINE T == {i \in 1..(3 * n): (i - 1) % 3 = k}
<1>1. PICK f: f = [j \in 1..n |-> 3 * j - 2 + k]
  OBVIOUS
<1>2. PICK g: g = [i \in T |-> ((i - 1) \div 3) + 1]
  OBVIOUS
<1>3. IsFiniteSet(1..n) /\ Cardinality(1..n) = n
  <2>1. 1 \in Int /\ n \in Int
    OBVIOUS
  <2>2. IsFiniteSet(1..n) /\ Cardinality(1..n) = IF 1 > n THEN 0 ELSE n - 1 + 1
    BY <2>1, FS_Interval
  <2> QED  BY <2>2
<1>4. T = {f[j]: j \in 1..n}
  <2>1. ASSUME NEW j \in 1..n PROVE f[j] \in T
    <3>1. f[j] = 3 * (j - 1) + k + 1
      BY <1>1
    <3>2. (3 * (j - 1) + k) % 3 = k
      OBVIOUS
    <3>3. f[j] \in 1..(3 * n) /\ f[j] - 1 = 3 * (j - 1) + k
      BY <3>1
    <3> QED  BY <3>2, <3>3
  <2>2. ASSUME NEW i \in T PROVE \E j \in 1..n: i = f[j]
    <3>1. PICK q \in Int: q = (i - 1) \div 3 /\ i - 1 = 3 * q + k
      OBVIOUS
    <3>2. q + 1 \in 1..n /\ i = 3 * (q + 1) - 2 + k
      BY <3>1
    <3> QED  BY <1>1, <3>2
  <2> HIDE DEF T
  <2> QED  BY <2>1, <2>2
<1>5. 1..n = {g[i]: i \in T}
  <2>1. ASSUME NEW i \in T PROVE g[i] \in 1..n
    BY <1>2
  <2>2. ASSUME NEW j \in 1..n PROVE \E i \in T: j = g[i]
    <3>1. f[j] \in T /\ f[j] = 3 * (j - 1) + k + 1
      BY <1>1, <1>4
    <3>2. (3 * (j - 1) + k) \div 3 = j - 1
      OBVIOUS
    <3>3. f[j] - 1 = 3 * (j - 1) + k
      BY <3>1
    <3>4. g[f[j]] = j
      BY <1>2, <3>1, <3>2, <3>3
    <3> QED  BY <3>1, <3>4
  <2> HIDE DEF T
  <2> QED  BY <2>1, <2>2
<1> HIDE DEF T
<1>6. IsFiniteSet(T) /\ Cardinality(T) <= n
  BY <1>3, <1>4, FewValues
<1>7. n <= Cardinality(T)
  BY <1>3, <1>5, <1>6, FewValues
<1>8. Cardinality(T) \in Nat
  BY <1>6, FS_CardinalityType
<1>9. Cardinality(T) = n
  BY <1>6, <1>7, <1>8
<1> QED  BY <1>9 DEF T

NatBelow == {p \in Nat \X Nat: p[1] < p[2]}

LEMMA LeastNatural ==
    ASSUME NEW T, T \subseteq Nat, T # {}
    PROVE  \E m \in T: \A k \in T: m <= k
<1>1. IsWellFoundedOn(OpToRel(<, Nat), Nat)
  BY NatLessThanWellFounded
<1>2. OpToRel(<, Nat) = NatBelow
  BY DEF OpToRel, NatBelow
<1>3. IsWellFoundedOn(NatBelow, Nat)
  BY <1>1, <1>2
<1>4. PICK m \in T: \A k \in T: ~ (<<k, m>> \in NatBelow)
  BY <1>3, WFMin, Zenon
<1>5. ASSUME NEW k \in T PROVE m <= k
  <2>1. <<k, m>> \notin NatBelow
    BY <1>4, Zenon
  <2>2. k \in Nat /\ m \in Nat
    OBVIOUS
  <2>3. k < m => <<k, m>> \in NatBelow
    BY <2>2 DEF NatBelow
  <2> QED  BY <2>1, <2>2, <2>3
<1> QED  BY <1>5

LEMMA SetInduction ==
    ASSUME NEW n \in Nat, NEW P, 0 \in P, \A i \in 1..n: i - 1 \in P => i \in P
    PROVE  \A i \in 0..n: i \in P
<1>1. SUFFICES ASSUME NEW j \in 0..n, j \notin P PROVE FALSE
  OBVIOUS
<1> DEFINE T == {i \in 0..n: i \notin P}
<1>2. T \subseteq Nat /\ T # {}
  BY <1>1
<1>3. PICK m \in T: \A k \in T: m <= k
  BY <1>2, LeastNatural
<1>4. m \in 1..n /\ m - 1 \in 0..n
  OBVIOUS
<1>5. m - 1 \notin T
  BY <1>3, <1>4
<1> QED  BY <1>4, <1>5

(* A step that stays within S can be taken n times.                        *)
Steps(n, S) == [1..n -> [S -> S]]
IsRun(f, n, S, a, step) ==
    f \in [0..n -> S] /\ f[0] = a /\ \A i \in 1..n: f[i] = step[i][f[i - 1]]

LEMMA Iterates ==
    ASSUME NEW S, NEW n \in Nat, NEW a \in S, NEW step \in Steps(n, S)
    PROVE  \E f: IsRun(f, n, S, a, step)
<1>0. step \in [1..n -> [S -> S]]
  BY DEF Steps
<1> DEFINE Runs(m, f) == f[0] = a /\ \A i \in 1..m: f[i] = step[i][f[i - 1]]
           Run(m) == \E f \in [0..m -> S]: Runs(m, f)
           P == {m \in 0..n: Run(m)}
<1>1. Run(0)
  <2>1. PICK f: f = [i \in 0..0 |-> a]
    OBVIOUS
  <2>2. f \in [0..0 -> S] /\ f[0] = a
    BY <2>1
  <2>3. Runs(0, f)
    BY <2>2
  <2> HIDE DEF Runs
  <2> QED  BY <2>2, <2>3
<1>2. ASSUME NEW m \in 1..n, Run(m - 1) PROVE Run(m)
  <2>1. PICK f \in [0..m - 1 -> S]: Runs(m - 1, f)
    BY <1>2
  <2> DEFINE g == [i \in 0..m |-> IF i = m THEN step[m][f[m - 1]] ELSE f[i]]
  <2>2. m - 1 \in 0..m - 1 /\ f[m - 1] \in S
    OBVIOUS
  <2>3. step[m][f[m - 1]] \in S
    BY <1>0, <2>2
  <2>4. g \in [0..m -> S]
    BY <2>3
  <2>5. g[0] = a
    BY <2>1
  <2>6. ASSUME NEW i \in 1..m PROVE g[i] = step[i][g[i - 1]]
    <3>1. i - 1 \in 0..m - 1 /\ g[i - 1] = f[i - 1]
      OBVIOUS
    <3> QED  BY <2>1, <3>1
  <2> HIDE DEF g
  <2>7. Runs(m, g)
    BY <2>5, <2>6
  <2> HIDE DEF Runs
  <2> QED  BY <2>4, <2>7
<1> HIDE DEF Run
<1>3. 0 \in P /\ \A i \in 1..n: i - 1 \in P => i \in P
  BY <1>1, <1>2
<1>4. \A i \in 0..n: i \in P
  <2> HIDE DEF P
  <2> QED  BY <1>3, SetInduction
<1>5. PICK f \in [0..n -> S]: Runs(n, f)
  BY <1>4 DEF Run
<1> QED  BY <1>5 DEF IsRun

\* A sum is the last of the partial sums.
LEMMA AdditionSteps ==
    ASSUME NEW n \in Nat, NEW amounts \in [1..n -> Int]
    PROVE  \E f \in [0..n -> Int]: /\ f[0] = 0
                                   /\ \A i \in 1..n: f[i] = f[i - 1] + amounts[i]
                                   /\ Addition(amounts) = f[n]
<1>1. amounts \in Seq(Int) /\ Len(amounts) = n
  <2>1. amounts \in Seq(Int)
    BY SeqDef
  <2>2. Len(amounts) \in Nat /\ DOMAIN amounts = 1..Len(amounts) /\ DOMAIN amounts = 1..n
    BY <2>1, LenProperties
  <2> QED  BY <2>1, <2>2
<1> DEFINE Adds(f) == f = [i \in 0..n |-> IF i = 0 THEN 0 ELSE f[i - 1] + amounts[i]]
           total == CHOOSE f: Adds(f)
<1>2. \E f: Adds(f)
  <2>1. PICK step: step = [i \in 1..n |-> [x \in Int |-> x + amounts[i]]]
    OBVIOUS
  <2>2. step \in Steps(n, Int)
    BY <2>1 DEF Steps
  <2>3. PICK f: IsRun(f, n, Int, 0, step)
    BY <2>2, Iterates
  <2>4. f \in [0..n -> Int] /\ f[0] = 0 /\ \A i \in 1..n: f[i] = step[i][f[i - 1]]
    BY <2>3 DEF IsRun
  <2>5. \A i \in 1..n: f[i] = f[i - 1] + amounts[i]
    <3> TAKE i \in 1..n
    <3>1. i - 1 \in 0..n /\ f[i - 1] \in Int
      BY <2>4
    <3> QED  BY <2>1, <2>4, <3>1
  <2> QED  BY <2>4, <2>5
<1>3. Adds(total)
  BY <1>2
<1>4. Addition(amounts) = total[n]
  BY <1>1 DEF Addition
<1> DEFINE P == {i \in 0..n: total[i] \in Int}
<1> HIDE DEF total
<1>5. total[0] = 0 /\ \A i \in 1..n: total[i] = total[i - 1] + amounts[i]
  BY <1>3
<1>6. 0 \in P
  BY <1>5
<1>7. ASSUME NEW i \in 1..n, i - 1 \in P PROVE i \in P
  BY <1>5, <1>7
<1>8. \A i \in 0..n: i \in P
  <2> HIDE DEF P
  <2> QED  BY <1>6, <1>7, SetInduction
<1>9. total \in [0..n -> Int]
  BY <1>3, <1>8
<1> QED  BY <1>4, <1>5, <1>9

\* A sum of integers is one.
LEMMA AdditionInt ==
    ASSUME NEW n \in Nat, NEW amounts \in [1..n -> Int]
    PROVE  Addition(amounts) \in Int
<1>1. PICK f \in [0..n -> Int]: Addition(amounts) = f[n]
  BY AdditionSteps
<1> QED  BY <1>1

\* A sum of nothing but zeros is zero.
LEMMA SumOfZeros ==
    ASSUME NEW n \in Nat, NEW amounts \in [1..n -> Int], \A i \in 1..n: amounts[i] = 0
    PROVE  Addition(amounts) = 0
<1>1. PICK f \in [0..n -> Int]: /\ f[0] = 0 /\ Addition(amounts) = f[n]
                                /\ \A i \in 1..n: f[i] = f[i - 1] + amounts[i]
  BY AdditionSteps
<1>2. PICK P: P = {i \in 0..n: f[i] = 0}
  OBVIOUS
<1>3. 0 \in P /\ \A i \in 1..n: i - 1 \in P => i \in P
  BY <1>1, <1>2
<1>4. \A i \in 0..n: i \in P
  BY <1>3, SetInduction
<1> QED  BY <1>1, <1>2, <1>4

\* When one amount grows, so does the sum.
MoreAt(n, a, b, k, c) == \A i \in 1..n: b[i] = IF i = k THEN a[i] + c ELSE a[i]
LEMMA OneAmountMore ==
    ASSUME NEW n \in Nat, NEW a \in [1..n -> Int], NEW b \in [1..n -> Int], NEW k \in 1..n,
           NEW c \in Int, MoreAt(n, a, b, k, c)
    PROVE  Addition(b) = Addition(a) + c
<1>1. PICK f \in [0..n -> Int]: /\ f[0] = 0 /\ Addition(a) = f[n]
                                /\ \A i \in 1..n: f[i] = f[i - 1] + a[i]
  BY AdditionSteps
<1>2. PICK g \in [0..n -> Int]: /\ g[0] = 0 /\ Addition(b) = g[n]
                                /\ \A i \in 1..n: g[i] = g[i - 1] + b[i]
  BY AdditionSteps
<1>3. PICK P: P = {i \in 0..n: g[i] = IF i < k THEN f[i] ELSE f[i] + c}
  OBVIOUS
<1>4. 0 \in P
  BY <1>1, <1>2, <1>3
<1>5. ASSUME NEW i \in 1..n, i - 1 \in P PROVE i \in P
  <2>1. i - 1 \in 0..n /\ i \in 0..n /\ g[i - 1] = IF i - 1 < k THEN f[i - 1] ELSE f[i - 1] + c
    BY <1>3, <1>5
  <2>2. g[i] = g[i - 1] + b[i] /\ f[i] = f[i - 1] + a[i]
    BY <1>1, <1>2
  <2>3. /\ f[i - 1] \in Int /\ f[i] \in Int /\ g[i - 1] \in Int /\ a[i] \in Int /\ b[i] \in Int
        /\ b[i] = IF i = k THEN a[i] + c ELSE a[i]
    BY <2>1 DEF MoreAt
  <2>4. g[i] = IF i < k THEN f[i] ELSE f[i] + c
    <3>1. CASE i < k
      BY <2>1, <2>2, <2>3, <3>1
    <3>2. CASE i = k
      BY <2>1, <2>2, <2>3, <3>2
    <3>3. CASE i > k
      BY <2>1, <2>2, <2>3, <3>3
    <3> QED  BY <3>1, <3>2, <3>3
  <2> QED  BY <1>3, <2>1, <2>4
<1>6. \A i \in 0..n: i \in P
  BY <1>4, <1>5, SetInduction
<1> QED  BY <1>1, <1>2, <1>3, <1>6

\* The sum over a part of a list, in whatever order the part is listed.
Each(S, n, list) == list \in [1..n -> S] /\ \A i, j \in 1..n: list[i] = list[j] => i = j
ValuesOf(v, n, list) == [i \in 1..n |-> v[list[i]]]
OnlyPart(v, n, all, m, part) ==
    [i \in 1..n |-> IF \E j \in 1..m: part[j] = all[i] THEN v[all[i]] ELSE 0]
Covers(all, n, part, m) == \A j \in 1..m: \E i \in 1..n: all[i] = part[j]

LEMMA SumsAgree ==
    ASSUME NEW S, NEW v, v \in [S -> Int], NEW n, n \in Nat, NEW all, Each(S, n, all),
           NEW m, m \in Nat, NEW part, Each(S, m, part), Covers(all, n, part, m)
    PROVE  Addition(OnlyPart(v, n, all, m, part)) = Addition(ValuesOf(v, m, part))
<1>0. /\ all \in [1..n -> S] /\ part \in [1..m -> S]
      /\ \A i, j \in 1..m: part[i] = part[j] => i = j
      /\ \A i, j \in 1..n: all[i] = all[j] => i = j
      /\ \A j \in 1..m: \E i \in 1..n: all[i] = part[j]
  BY DEF Each, Covers
<1> USE <1>0
<1>1. PICK amounts: amounts = ValuesOf(v, m, part) /\ amounts = [j \in 1..m |-> v[part[j]]]
  BY DEF ValuesOf
<1>2. amounts \in [1..m -> Int]
  BY <1>1
<1>3. PICK f \in [0..m -> Int]: /\ f[0] = 0 /\ Addition(amounts) = f[m]
                                /\ \A j \in 1..m: f[j] = f[j - 1] + amounts[j]
  BY <1>2, AdditionSteps
<1>4. PICK upto: upto = [k \in 0..m |->
             [i \in 1..n |-> IF \E j \in 1..k: part[j] = all[i] THEN v[all[i]] ELSE 0]]
  OBVIOUS
<1>5. \A k \in 0..m: upto[k] \in [1..n -> Int]
  BY <1>4
<1>6. PICK P: P = {k \in 0..m: Addition(upto[k]) = f[k]}
  OBVIOUS
<1>7. 0 \in P
  <2>1. upto[0] \in [1..n -> Int] /\ \A i \in 1..n: upto[0][i] = 0
    BY <1>4, <1>5
  <2>2. Addition(upto[0]) = 0
    BY <2>1, SumOfZeros
  <2> QED  BY <1>3, <1>6, <2>2
<1>8. ASSUME NEW k \in 1..m, k - 1 \in P PROVE k \in P
  <2>1. k - 1 \in 0..m /\ k \in 0..m /\ Addition(upto[k - 1]) = f[k - 1]
    BY <1>6, <1>8
  <2>2. PICK p \in 1..n: all[p] = part[k]
    OBVIOUS
  <2>3. PICK a, b: a = upto[k - 1] /\ b = upto[k]
    OBVIOUS
  <2>4. a \in [1..n -> Int] /\ b \in [1..n -> Int]
    BY <1>5, <2>1, <2>3
  <2>5. \A i \in 1..n: /\ a[i] = IF \E j \in 1..k - 1: part[j] = all[i] THEN v[all[i]] ELSE 0
                       /\ b[i] = IF \E j \in 1..k: part[j] = all[i] THEN v[all[i]] ELSE 0
    BY <1>4, <2>1, <2>3
  <2>6. a[p] = 0
    <3>1. \A j \in 1..k - 1: j \in 1..m /\ j # k
      OBVIOUS
    <3>2. \A j \in 1..k - 1: part[j] # all[p]
      BY <2>2, <3>1
    <3> QED  BY <2>5, <3>2
  <2>7. b[p] = v[part[k]] /\ v[part[k]] \in Int
    <3>1. k \in 1..k /\ part[k] = all[p]
      BY <2>2
    <3> QED  BY <2>2, <2>5, <3>1
  <2>8. ASSUME NEW i \in 1..n, i # p PROVE b[i] = a[i]
    <3>1. part[k] # all[i]
      BY <2>2, <2>8
    <3>2. (\E j \in 1..k: part[j] = all[i]) <=> \E j \in 1..k - 1: part[j] = all[i]
      <4>1. \A j \in 1..k: j = k \/ j \in 1..k - 1
        OBVIOUS
      <4>2. \A j \in 1..k - 1: j \in 1..k
        OBVIOUS
      <4> QED  BY <3>1, <4>1, <4>2
    <3> QED  BY <2>5, <3>2
  <2>9. Addition(b) = Addition(a) + v[part[k]]
    <3>1. PICK c \in Int: c = v[part[k]]
      BY <2>7
    <3>2. b[p] = a[p] + c
      BY <2>6, <2>7, <3>1
    <3>3. MoreAt(n, a, b, p, c)
      BY <2>8, <3>2 DEF MoreAt
    <3>4. Addition(b) = Addition(a) + c
      <4>1. n \in Nat /\ p \in 1..n /\ c \in Int
        BY <2>2, <3>1
      <4>2. \A place \in 1..n, more \in Int:
              MoreAt(n, a, b, place, more) => Addition(b) = Addition(a) + more
        BY <2>4, OneAmountMore
      <4> QED  BY <3>3, <4>1, <4>2
    <3> QED  BY <3>1, <3>4
  <2>10. f[k] = f[k - 1] + v[part[k]]
    BY <1>1, <1>3
  <2> QED  BY <1>6, <2>1, <2>3, <2>9, <2>10
<1>9. \A k \in 0..m: k \in P
  BY <1>7, <1>8, SetInduction
<1>10. upto[m] = OnlyPart(v, n, all, m, part)
  BY <1>4 DEF OnlyPart
<1> QED  BY <1>1, <1>3, <1>6, <1>9, <1>10

-----------------------------------------------------------------------------
(* WebConfig: the inductive invariant                                      *)

Busy(q) == put[q].at # "idle"

\* A request has the temporary file open only while it is going to write.
OpenToWrite == \A q \in Requests : put[q].handle # NoInode => put[q].at = "write"

\* Without an overlap there is one request at most.
OneRequest == \A q, o \in Requests : Busy(q) /\ Busy(o) => q = o

\* Its descriptor leads to the temporary name, which it has just emptied.
WritesTemp ==
    \A q \in Requests : put[q].at = "write" =>
        temp # NoInode /\ put[q].handle = temp /\ ~content[temp].whole

\* What it validates and installs under that name is what it has written.
InstallsMerged ==
    \A q \in Requests : put[q].at \in {"validate", "backup", "replace"} =>
        /\ temp # NoInode /\ content[temp] = put[q].merged
        /\ put[q].at \in {"backup", "replace"} => content[temp].valid

\* The temporary name never leads to the configuration.
Apart == config # temp

Alone == ~overlapped => OneRequest /\ WritesTemp /\ InstallsMerged

ConfigInv == WebConfigTypeOK /\ OpenToWrite /\ Apart /\ Alone /\ ConfigIsAccepted

-----------------------------------------------------------------------------
(* Two names and a descriptor for every request never use up the inodes.   *)

LEMMA FreeInode ==
    ASSUME WebConfigTypeOK, temp = NoInode
    PROVE  Fresh \in Inodes /\ Fresh \notin Used
<1> DEFINE handles == {put[q].handle : q \in Requests}
           taken == handles \cup {config}
           f == [q \in Requests |-> put[q].handle]
<1>1. IsFiniteSet(Requests) /\ Cardinality(Requests) \in Nat
  BY WebConfigAssumption, FS_CardinalityType
<1>2. IsFiniteSet(handles) /\ Cardinality(handles) <= Cardinality(Requests)
  <2>1. f \in Surjection(Requests, handles)
    BY DEF Surjection
  <2> QED BY <1>1, <2>1, FS_Surjection
<1>3. IsFiniteSet(taken) /\ Cardinality(taken) <= Cardinality(Requests) + 1
  <2>1. Cardinality(handles) \in Nat
    BY <1>2, FS_CardinalityType
  <2>2. /\ IsFiniteSet(handles \cup {config})
        /\ Cardinality(handles \cup {config}) =
              IF config \in handles THEN Cardinality(handles) ELSE Cardinality(handles) + 1
    BY <1>2, FS_AddElement
  <2> QED BY <1>1, <1>2, <2>1, <2>2
<1>4. IsFiniteSet(Inodes) /\ Cardinality(Inodes) = Cardinality(Requests) + 2
  <2>1. 1 \in Int /\ Cardinality(Requests) + 2 \in Int
    BY <1>1
  <2> HIDE DEF handles, taken, f
  <2>2. /\ IsFiniteSet(1..(Cardinality(Requests) + 2))
        /\ Cardinality(1..(Cardinality(Requests) + 2)) =
              IF 1 > Cardinality(Requests) + 2 THEN 0 ELSE (Cardinality(Requests) + 2) - 1 + 1
    BY <2>1, FS_Interval
  <2> QED BY <1>1, <2>2 DEF Inodes
<1>5. \E i \in Inodes : i \notin taken
  <2> HIDE DEF taken
  <2> SUFFICES ASSUME Inodes \subseteq taken PROVE FALSE
    OBVIOUS
  <2>1. Cardinality(Inodes) <= Cardinality(taken)
    BY <1>3, FS_Subset
  <2>2. Cardinality(taken) \in Nat
    BY <1>3, FS_CardinalityType
  <2> QED BY <1>1, <1>3, <1>4, <2>1, <2>2
<1>6. \E i \in Inodes : i \notin Used
  <2>1. PICK i \in Inodes : i \notin taken
    BY <1>5
  <2>2. i # NoInode
    BY <1>1 DEF Inodes, NoInode
  <2> QED BY <2>1, <2>2 DEF Used
<1> QED BY <1>6 DEF Fresh

LEMMA NoInodeIsNone == NoInode \notin Inodes
BY WebConfigAssumption, FS_CardinalityType DEF Inodes, NoInode

LEMMA RestoredIsDocument ==
    ASSUME NEW e \in Documents \cup Debris, NEW p \in Proposals
    PROVE  Restored(e, p) \in Documents
BY DEF Restored, Documents, Debris, Proposals

-----------------------------------------------------------------------------
(* The initial states and every step                                       *)

LEMMA InitConfigInv == WebConfigInit => ConfigInv
<1> SUFFICES ASSUME WebConfigInit PROVE ConfigInv
  OBVIOUS
<1>1. PICK doc \in Documents :
          /\ doc.valid
          /\ content = [i \in Inodes |-> doc]
          /\ config = 1 /\ temp = NoInode
          /\ backup = doc
          /\ put = [q \in Requests |-> Quiet(doc)]
          /\ puts = 0 /\ kills = 0
          /\ accepted = doc
          /\ overlapped = FALSE
  BY DEF WebConfigInit
<1>2. config \in Inodes
  BY <1>1, WebConfigAssumption, FS_CardinalityType DEF Inodes
<1>3. \A q \in Requests : put[q].at = "idle" /\ put[q].handle = NoInode
  BY <1>1 DEF Quiet
<1>4. put \in [Requests -> [at: PutStates, handle: Inodes \cup {NoInode},
                            merged: Documents \cup Debris]]
  BY <1>1 DEF Quiet, PutStates
<1>5. WebConfigTypeOK
  <2>1. content \in [Inodes -> Documents \cup Debris]
    BY <1>1
  <2>2. 0 \in 0..MaxPuts /\ 0 \in 0..MaxKills
    BY WebConfigAssumption
  <2> QED BY <1>1, <1>2, <1>4, <2>1, <2>2 DEF WebConfigTypeOK
<1> QED BY <1>1, <1>2, <1>3, <1>5, NoInodeIsNone
        DEF ConfigInv, OpenToWrite, Apart, Alone, OneRequest, WritesTemp, InstallsMerged,
            Busy, ConfigIsAccepted

LEMMA NextConfigInv == ConfigInv /\ [WebConfigNext]_webConfigVars => ConfigInv'
<1> SUFFICES ASSUME ConfigInv, [WebConfigNext]_webConfigVars PROVE ConfigInv'
  OBVIOUS
<1> DEFINE Handled == [at: PutStates, handle: Inodes \cup {NoInode}, merged: Documents \cup Debris]
<1>t. /\ content \in [Inodes -> Documents \cup Debris]
      /\ config \in Inodes /\ temp \in Inodes \cup {NoInode}
      /\ backup \in Documents \cup Debris
      /\ put \in [Requests -> Handled]
      /\ puts \in 0..MaxPuts /\ kills \in 0..MaxKills
      /\ accepted \in Documents \cup Debris
      /\ overlapped \in BOOLEAN
  BY DEF ConfigInv, WebConfigTypeOK
<1>i. OpenToWrite /\ Apart /\ Alone /\ ConfigIsAccepted
  BY DEF ConfigInv
<1>n. NoInode \notin Inodes
  BY NoInodeIsNone
<1>b. MaxPuts \in Nat /\ MaxKills \in Nat
  BY WebConfigAssumption
<1>d. \A d \in Documents \cup Debris : d.valid \in BOOLEAN /\ d.whole \in BOOLEAN
  BY DEF Documents, Debris
<1>0. CASE UNCHANGED webConfigVars
  BY <1>0, <1>t, <1>i
  DEF webConfigVars, ConfigInv, WebConfigTypeOK, OpenToWrite, Apart, Alone, OneRequest,
      WritesTemp, InstallsMerged, Busy, ConfigIsAccepted
<1>1. ASSUME NEW q \in Requests, Begin(q) PROVE ConfigInv'
  <2>1. PICK p \in Proposals :
            put' = [put EXCEPT ![q] = [at |-> "merge", handle |-> NoInode,
                                       merged |-> Restored(content[config], p)]]
    BY <1>1 DEF Begin
  <2>2. Restored(content[config], p) \in Documents
    BY <1>t, RestoredIsDocument
  <2>3. put' \in [Requests -> Handled]
    BY <2>1, <2>2, <1>t DEF PutStates
  <2>4. WebConfigTypeOK'
    BY <1>1, <1>t, <1>b, <2>3 DEF Begin, WebConfigTypeOK
  <2>5. ~overlapped' => ~overlapped /\ \A o \in Requests \ {q} : put[o].at = "idle"
    BY <1>1 DEF Begin
  <2>6. OpenToWrite' /\ Apart' /\ ConfigIsAccepted'
    BY <1>1, <1>t, <1>i, <2>1, <2>5 DEF Begin, OpenToWrite, Apart, ConfigIsAccepted
  <2>7. Alone'
    BY <1>1, <1>t, <1>i, <2>1, <2>5
    DEF Begin, Alone, OneRequest, WritesTemp, InstallsMerged, Busy
  <2> QED BY <2>4, <2>6, <2>7 DEF ConfigInv
<1>2. ASSUME NEW q \in Requests, Truncate(q) PROVE ConfigInv'
  <2> DEFINE i == IF temp = NoInode THEN Fresh ELSE temp
  <2>1. i \in Inodes /\ i # config
    <3>1. CASE temp = NoInode
      BY <3>1, FreeInode DEF ConfigInv, Used
    <3>2. CASE temp # NoInode
      BY <3>2, <1>t, <1>i DEF Apart
    <3> QED BY <3>1, <3>2
  <2> HIDE DEF i
  <2>2. PICK d \in Debris : content' = [content EXCEPT ![i] = d]
    BY <1>2 DEF Truncate, i
  <2>3. /\ put[q].at = "merge"
        /\ temp' = i
        /\ put' = [put EXCEPT ![q].at = "write", ![q].handle = i]
        /\ UNCHANGED <<config, backup, puts, kills, accepted, overlapped>>
    BY <1>2 DEF Truncate, i
  <2>4. put' \in [Requests -> Handled]
    BY <2>1, <2>3, <1>t DEF PutStates
  <2>5. WebConfigTypeOK'
    BY <1>t, <2>1, <2>2, <2>3, <2>4 DEF WebConfigTypeOK
  <2>6. OpenToWrite' /\ Apart' /\ ConfigIsAccepted'
    BY <1>t, <1>i, <2>1, <2>2, <2>3 DEF OpenToWrite, Apart, ConfigIsAccepted
  <2>7. ~content'[i].whole
    BY <1>t, <2>1, <2>2 DEF Debris
  <2>8. Alone'
    <3> SUFFICES ASSUME ~overlapped PROVE OneRequest' /\ WritesTemp' /\ InstallsMerged'
      BY <2>3 DEF Alone
    <3>1. OneRequest
      BY <1>i DEF Alone
    <3>2. OneRequest'
      BY <1>t, <2>3, <3>1 DEF OneRequest, Busy
    <3>3. \A o \in Requests \ {q} : put'[o].at = "idle"
      BY <1>t, <2>3, <3>1 DEF OneRequest, Busy
    <3>4. put'[q].at = "write" /\ put'[q].handle = i
      BY <1>t, <2>3
    <3> QED BY <2>1, <2>3, <2>7, <1>n, <3>2, <3>3, <3>4 DEF WritesTemp, InstallsMerged
  <2> QED BY <2>5, <2>6, <2>8 DEF ConfigInv
<1>3. ASSUME NEW q \in Requests, Write(q) PROVE ConfigInv'
  <2> DEFINE i == put[q].handle
  <2>1. /\ put[q].at = "write"
        /\ put' = [put EXCEPT ![q].at = "validate", ![q].handle = NoInode]
        /\ UNCHANGED <<config, temp, backup, puts, kills, accepted, overlapped>>
    BY <1>3 DEF Write
  <2>2. PICK d \in Documents \cup Debris :
            /\ content' = [content EXCEPT ![i] = d]
            /\ d = put[q].merged \/ content[i].whole
    BY <1>3, <1>t DEF Write
  <2>3. put' \in [Requests -> Handled]
    BY <2>1, <1>t DEF PutStates
  <2>4. content' \in [Inodes -> Documents \cup Debris]
    BY <2>2, <1>t
  <2>5. WebConfigTypeOK'
    BY <1>t, <2>1, <2>3, <2>4 DEF WebConfigTypeOK
  <2>6. OpenToWrite' /\ Apart'
    BY <1>t, <1>i, <2>1 DEF OpenToWrite, Apart
  <2>7. ASSUME ~overlapped
        PROVE  /\ temp # NoInode /\ i = temp /\ ~content[temp].whole
               /\ \A o \in Requests \ {q} : put[o].at = "idle"
    BY <1>i, <2>1, <2>7 DEF Alone, OneRequest, WritesTemp, Busy
  <2>8. ConfigIsAccepted'
    BY <1>t, <1>i, <2>1, <2>2, <2>7 DEF ConfigIsAccepted, Apart
  <2>9. Alone'
    <3> SUFFICES ASSUME ~overlapped PROVE OneRequest' /\ WritesTemp' /\ InstallsMerged'
      BY <2>1 DEF Alone
    <3>1. \A o \in Requests \ {q} : put'[o].at = "idle"
      BY <1>t, <2>1, <2>7
    <3>2. put'[q].at = "validate" /\ put'[q].merged = put[q].merged
      BY <1>t, <2>1
    <3>3. content'[temp] = put[q].merged
      BY <1>t, <2>2, <2>7
    <3> QED BY <2>1, <2>7, <3>1, <3>2, <3>3 DEF OneRequest, Busy, WritesTemp, InstallsMerged
  <2> QED BY <2>5, <2>6, <2>8, <2>9 DEF ConfigInv
<1>4. ASSUME NEW q \in Requests, Validate(q) PROVE ConfigInv'
  <2>1. put' \in [Requests -> Handled]
    BY <1>4, <1>t DEF Validate, PutStates
  <2>2. WebConfigTypeOK'
    BY <1>4, <1>t, <2>1 DEF Validate, WebConfigTypeOK
  <2>3. OpenToWrite' /\ Apart' /\ ConfigIsAccepted'
    BY <1>4, <1>t, <1>i DEF Validate, OpenToWrite, Apart, ConfigIsAccepted
  <2>4. Alone'
    BY <1>4, <1>t, <1>i
    DEF Validate, Alone, OneRequest, WritesTemp, InstallsMerged, Busy
  <2> QED BY <2>2, <2>3, <2>4 DEF ConfigInv
<1>5. ASSUME NEW q \in Requests, put[q].at # "idle", Done(q),
             temp' = NoInode,
             UNCHANGED <<content, backup, puts, kills, overlapped>>,
             \/ UNCHANGED <<config, accepted>>
             \/ put[q].at = "replace" /\ temp # NoInode /\ config' = temp
                /\ accepted' = put[q].merged
      PROVE  ConfigInv'
  <2>1. put' \in [Requests -> Handled]
    BY <1>5, <1>t DEF Done, Quiet, PutStates
  <2>2. config' \in Inodes /\ accepted' \in Documents \cup Debris
    BY <1>5, <1>t
  <2>3. WebConfigTypeOK'
    BY <1>5, <1>t, <2>1, <2>2 DEF WebConfigTypeOK
  <2>4. /\ put'[q].at = "idle" /\ put'[q].handle = NoInode
        /\ \A o \in Requests \ {q} : put'[o] = put[o]
    BY <1>5, <1>t DEF Done, Quiet
  <2>5. OpenToWrite' /\ Apart'
    BY <1>5, <1>i, <1>n, <2>2, <2>4 DEF OpenToWrite, Apart
  <2>6. ASSUME ~overlapped
        PROVE  \A o \in Requests : put'[o].at = "idle"
    BY <1>5, <1>i, <2>4, <2>6 DEF Alone, OneRequest, Busy
  <2>7. Alone'
    BY <1>5, <2>6 DEF Alone, OneRequest, WritesTemp, InstallsMerged, Busy
  <2>8. ConfigIsAccepted'
    BY <1>5, <1>i, <1>t DEF ConfigIsAccepted, Alone, InstallsMerged
  <2> QED BY <2>3, <2>5, <2>7, <2>8 DEF ConfigInv
<1>6. ASSUME NEW q \in Requests, Refuse(q) PROVE ConfigInv'
  BY <1>6, <1>5 DEF Refuse
<1>7. ASSUME NEW q \in Requests, Backup(q) PROVE ConfigInv'
  <2>1. put' \in [Requests -> Handled]
    BY <1>7, <1>t DEF Backup, PutStates
  <2>2. WebConfigTypeOK'
    BY <1>7, <1>t, <2>1 DEF Backup, WebConfigTypeOK
  <2>3. OpenToWrite' /\ Apart' /\ ConfigIsAccepted'
    BY <1>7, <1>t, <1>i DEF Backup, OpenToWrite, Apart, ConfigIsAccepted
  <2>4. Alone'
    BY <1>7, <1>t, <1>i
    DEF Backup, Alone, OneRequest, WritesTemp, InstallsMerged, Busy
  <2> QED BY <2>2, <2>3, <2>4 DEF ConfigInv
<1>8. ASSUME NEW q \in Requests, Rename(q) PROVE ConfigInv'
  BY <1>8, <1>5 DEF Rename
<1>9. ASSUME NEW q \in Requests, RenameFails(q) PROVE ConfigInv'
  BY <1>9, <1>5 DEF RenameFails
<1>10. CASE Kill
  <2>1. put' \in [Requests -> Handled]
    BY <1>10, <1>t DEF Kill, Quiet, PutStates
  <2>2. backup' \in Documents \cup Debris
    BY <1>10, <1>t DEF Kill
  <2>3. WebConfigTypeOK'
    BY <1>10, <1>t, <1>b, <2>1, <2>2 DEF Kill, WebConfigTypeOK
  <2>4. \A q \in Requests : put'[q].at = "idle" /\ put'[q].handle = NoInode
    BY <1>10 DEF Kill, Quiet
  <2>5. OpenToWrite' /\ Apart' /\ ConfigIsAccepted'
    BY <1>10, <1>i, <2>4 DEF Kill, OpenToWrite, Apart, ConfigIsAccepted
  <2>6. Alone'
    BY <2>4 DEF Alone, OneRequest, WritesTemp, InstallsMerged, Busy
  <2> QED BY <2>3, <2>5, <2>6 DEF ConfigInv
<1> QED BY <1>0, <1>1, <1>2, <1>3, <1>4, <1>6, <1>7, <1>8, <1>9, <1>10 DEF WebConfigNext

LEMMA SpecConfigInv == WebConfigSpec => []ConfigInv
BY InitConfigInv, NextConfigInv, PTL DEF WebConfigSpec

-----------------------------------------------------------------------------
(* Type correctness of the update of the configuration: a request finds an *)
(* inode whichever others are open (_write_private_text).                  *)
THEOREM ConfigTypeCorrect == WebConfigSpec => []WebConfigTypeOK
<1>1. ConfigInv => WebConfigTypeOK
  BY DEF ConfigInv
<1> QED BY <1>1, SpecConfigInv, PTL

(* As long as requests do not overlap, the configuration is the whole      *)
(* document that the last accepted request validated, whichever requests   *)
(* were refused and wherever the service died meanwhile (do_PUT).          *)
THEOREM ConfigAlwaysAccepted == WebConfigSpec => []ConfigIsAccepted
<1>1. ConfigInv => ConfigIsAccepted
  BY DEF ConfigInv
<1> QED BY <1>1, SpecConfigInv, PTL

-----------------------------------------------------------------------------
(* ModelCatalog: the inductive invariant                                   *)

\* A call is about a model of the catalog.
HasModel == \A c \in Callers : call[c].at # "idle" => call[c].model \in Models

\* The lock of the service.
OneLocked == \A c, d \in Callers : Locked(c) /\ Locked(d) => c = d

\* An install goes on only while the managed file is not the verified one.
InstallsMissing ==
    \A c \in Callers : call[c].at \in {"open", "download", "replace"} =>
        files[call[c].model] # "whole"

\* The selections that a call has read are those on file.
SeenIsSelected ==
    \A c \in Callers : call[c].at \in {"write", "unlink", "list", "rmdir", "pop"} =>
        call[c].seen = selected

\* A deletion of the selected model was forced, and takes back the selection
\* only when the file is gone.
DeletesAllowed ==
    \A c \in Callers :
        /\ call[c].at \in {"unlink", "list", "rmdir", "pop"} =>
              (selected[RoleOf[call[c].model]] = call[c].model => call[c].force)
        /\ call[c].at \in {"list", "rmdir", "pop"} => files[call[c].model] = "none"

UnderLock == OneLocked /\ InstallsMissing /\ SeenIsSelected /\ DeletesAllowed

CatalogInv == CatalogTypeOK /\ HasModel /\ (together => UnderLock)

\* What a caller is doing, as far as its type goes.
CatalogCalls == [at: CallStates, model: Models \cup {NoModel}, force: BOOLEAN, seen: Selections]

LEMMA RoleIsRole == \A m \in Models : RoleOf[m] \in Roles
BY DEF Roles

LEMMA IdleIsCall == Idle \in CatalogCalls /\ Idle.at = "idle"
BY DEF Idle, CatalogCalls, CallStates, Nothing, Selections

LEMMA MayMoveOn ==
    ASSUME call \in [Callers -> CatalogCalls], NEW c \in Callers, NEW s \in CallStates, Go(c, s)
    PROVE  /\ call' \in [Callers -> CatalogCalls]
           /\ call'[c].at = s /\ call'[c].model = call[c].model
           /\ call'[c].force = call[c].force /\ call'[c].seen = call[c].seen
           /\ \A d \in Callers \ {c} : call'[d] = call[d]
BY DEF Go, CatalogCalls

LEMMA MayReturn ==
    ASSUME call \in [Callers -> CatalogCalls], NEW c \in Callers, Return(c)
    PROVE  /\ call' \in [Callers -> CatalogCalls]
           /\ call'[c].at = "idle"
           /\ \A d \in Callers \ {c} : call'[d] = call[d]
BY IdleIsCall DEF Return

-----------------------------------------------------------------------------
(* The initial states and every step                                       *)

LEMMA InitCatalogInv == CatalogInit => CatalogInv
<1> SUFFICES ASSUME CatalogInit PROVE CatalogInv
  OBVIOUS
<1>1. \A c \in Callers : call[c].at = "idle"
  BY IdleIsCall DEF CatalogInit
<1>2. call \in [Callers -> CatalogCalls]
  BY IdleIsCall DEF CatalogInit
<1>3. temps \in [Models -> SUBSET Callers] /\ folder \subseteq Models /\ crashes \in 0..MaxCrashes
  BY CatalogAssumption DEF CatalogInit
<1>4. CatalogTypeOK
  BY <1>2, <1>3 DEF CatalogInit, CatalogTypeOK, CatalogCalls
<1> QED BY <1>1, <1>4
        DEF CatalogInv, HasModel, UnderLock, OneLocked, Locked, InstallsMissing, SeenIsSelected,
            DeletesAllowed

LEMMA NextCatalogInv ==
    CatalogInv /\ [CatalogNext]_catalogVars =>
        CatalogInv' /\ (CatalogNext /\ together => Registry!Next)
<1> SUFFICES ASSUME CatalogInv, [CatalogNext]_catalogVars
             PROVE  CatalogInv' /\ (CatalogNext /\ together => Registry!Next)
  OBVIOUS
<1>t. /\ together \in BOOLEAN
      /\ files \in [Models -> {"none", "other", "whole"}]
      /\ folder \subseteq Models
      /\ temps \in [Models -> SUBSET Callers]
      /\ selected \in Selections
      /\ call \in [Callers -> CatalogCalls]
      /\ crashes \in 0..MaxCrashes
  BY DEF CatalogInv, CatalogTypeOK, CatalogCalls
<1>i. HasModel /\ (together => UnderLock)
  BY DEF CatalogInv
<1>0. CASE UNCHANGED catalogVars
  <2>1. CatalogInv'
    BY <1>0, <1>t, <1>i
    DEF catalogVars, CatalogInv, CatalogTypeOK, CatalogCalls, HasModel, UnderLock, OneLocked, Locked,
        InstallsMissing, SeenIsSelected, DeletesAllowed
  <2>2. Registry!Next
    BY <1>0 DEF catalogVars, Registry!Next
  <2> QED BY <2>1, <2>2
\* A call that begins with the lock free, and changes neither files nor selections.
<1>b. ASSUME NEW c \in Callers, LockFree(c), NEW e \in CatalogCalls,
             call' = [call EXCEPT ![c] = e],
             e.at \notin {"idle", "list", "rmdir", "pop"},
             e.model \in Models,
             e.at \in {"open", "download", "replace"} => files[e.model] # "whole",
             e.at \in {"write", "unlink"} => e.seen = selected,
             e.at = "unlink" => (selected[RoleOf[e.model]] = e.model => e.force),
             folder' \subseteq Models,
             UNCHANGED <<together, files, temps, selected, crashes>>
      PROVE  CatalogInv' /\ Registry!Next
  <2>1. /\ call' \in [Callers -> CatalogCalls] /\ call'[c] = e
        /\ \A d \in Callers \ {c} : call'[d] = call[d]
    BY <1>b, <1>t
  <2>2. CatalogTypeOK'
    BY <1>b, <1>t, <2>1 DEF CatalogTypeOK, CatalogCalls
  <2>3. HasModel'
    BY <1>b, <1>i, <2>1 DEF HasModel
  <2>4. ASSUME together PROVE UnderLock'
    <3>1. \A d \in Callers \ {c} : call'[d].at \in {"idle", "chosen"}
      BY <1>b, <2>1, <2>4 DEF LockFree, Locked
    <3>2. OneLocked'
      BY <3>1 DEF OneLocked, Locked
    <3>3. InstallsMissing' /\ SeenIsSelected' /\ DeletesAllowed'
      BY <1>b, <2>1, <3>1 DEF InstallsMissing, SeenIsSelected, DeletesAllowed
    <3> QED BY <3>2, <3>3 DEF UnderLock
  <2>5. Registry!Next
    BY <1>b DEF Registry!Next
  <2> QED BY <1>b, <2>2, <2>3, <2>4, <2>5 DEF CatalogInv
\* A call that goes on under the lock: nobody else holds it.
<1>g. ASSUME NEW c \in Callers, Locked(c), NEW s \in CallStates \ {"idle", "chosen"},
             Go(c, s), files' \in [Models -> {"none", "other", "whole"}],
             folder' \subseteq Models, temps' \in [Models -> SUBSET Callers],
             together /\ s \in {"open", "download", "replace"} =>
                 files'[call[c].model] # "whole",
             s \in {"write", "unlink", "list", "rmdir", "pop"} =>
                 call[c].at \in {"write", "unlink", "list", "rmdir", "pop"},
             s \in {"unlink", "list", "rmdir", "pop"} =>
                 call[c].at \in {"unlink", "list", "rmdir", "pop"},
             together /\ s \in {"list", "rmdir", "pop"} => files'[call[c].model] = "none",
             UNCHANGED <<together, selected, crashes>>
      PROVE  CatalogInv'
  <2>1. /\ call' \in [Callers -> CatalogCalls]
        /\ call'[c].at = s /\ call'[c].model = call[c].model
        /\ call'[c].force = call[c].force /\ call'[c].seen = call[c].seen
        /\ \A d \in Callers \ {c} : call'[d] = call[d]
    BY <1>g, <1>t, MayMoveOn
  <2>2. CatalogTypeOK'
    BY <1>g, <1>t, <2>1 DEF CatalogTypeOK, CatalogCalls
  <2>3. HasModel'
    BY <1>g, <1>i, <2>1 DEF HasModel, Locked
  <2>4. ASSUME together PROVE UnderLock'
    <3>1. \A d \in Callers \ {c} : call'[d].at \in {"idle", "chosen"}
      BY <1>g, <1>i, <2>1, <2>4 DEF UnderLock, OneLocked, Locked
    <3>2. OneLocked'
      BY <3>1 DEF OneLocked, Locked
    <3>3. InstallsMissing'
      BY <1>g, <2>1, <2>4, <3>1 DEF InstallsMissing
    <3>4. SeenIsSelected'
      BY <1>g, <1>i, <2>1, <2>4, <3>1 DEF SeenIsSelected, UnderLock
    <3>5. DeletesAllowed'
      BY <1>g, <1>i, <2>1, <2>4, <3>1 DEF DeletesAllowed, UnderLock
    <3> QED BY <3>2, <3>3, <3>4, <3>5 DEF UnderLock
  <2> QED BY <1>g, <2>2, <2>3, <2>4 DEF CatalogInv
\* A call that returns, and lets the lock go.
<1>r. ASSUME NEW c \in Callers, Locked(c), Return(c),
             files' \in [Models -> {"none", "other", "whole"}],
             folder' \subseteq Models, temps' \in [Models -> SUBSET Callers],
             selected' \in Selections,
             UNCHANGED <<together, crashes>>
      PROVE  CatalogInv'
  <2>1. /\ call' \in [Callers -> CatalogCalls] /\ call'[c].at = "idle"
        /\ \A d \in Callers \ {c} : call'[d] = call[d]
    BY <1>r, <1>t, MayReturn
  <2>2. CatalogTypeOK'
    BY <1>r, <1>t, <2>1 DEF CatalogTypeOK, CatalogCalls
  <2>3. HasModel'
    BY <1>i, <2>1 DEF HasModel
  <2>4. ASSUME together PROVE UnderLock'
    <3>1. \A d \in Callers : call'[d].at \in {"idle", "chosen"}
      BY <1>r, <1>i, <2>1, <2>4 DEF UnderLock, OneLocked, Locked
    <3> QED BY <3>1
            DEF UnderLock, OneLocked, Locked, InstallsMissing, SeenIsSelected, DeletesAllowed
  <2> QED BY <1>r, <2>2, <2>3, <2>4 DEF CatalogInv
<1> DEFINE Keeping == CatalogInv' /\ (together => Registry!Next)
<1>1. ASSUME NEW c \in Callers, NEW m \in Models, InstallCall(c, m) PROVE Keeping
  <2> DEFINE e == [Idle EXCEPT !.at = "open", !.model = m]
  <2>1. e \in CatalogCalls /\ e.at = "open" /\ e.model = m
    BY IdleIsCall DEF CatalogCalls, CallStates, Idle
  <2> QED BY <1>1, <1>b, <1>t, <2>1 DEF InstallCall
<1>2. ASSUME NEW c \in Callers, NEW m \in Models, SelectCall(c, m) PROVE Keeping
  <2> DEFINE e == [Idle EXCEPT !.at = "chosen", !.model = m]
  <2>1. e \in CatalogCalls /\ e.at = "chosen" /\ e.model = m
    BY IdleIsCall DEF CatalogCalls, CallStates, Idle
  <2> QED BY <1>2, <1>b, <1>t, <2>1 DEF SelectCall
<1>3. ASSUME NEW c \in Callers, NEW m \in Models, NEW force \in BOOLEAN, DeleteCall(c, m, force)
      PROVE  Keeping
  <2> DEFINE e == [at |-> "unlink", model |-> m, force |-> force, seen |-> selected]
  <2>1. e \in CatalogCalls /\ e.at = "unlink" /\ e.model = m /\ e.force = force /\ e.seen = selected
    BY <1>t DEF CatalogCalls, CallStates
  <2> QED BY <1>3, <1>b, <1>t, <2>1 DEF DeleteCall
<1>4. ASSUME NEW c \in Callers, OpenTemp(c) PROVE Keeping
  <2>1. /\ call[c].at = "open" /\ call[c].model \in Models /\ Locked(c)
        /\ UNCHANGED <<together, files, folder, selected, crashes>>
    BY <1>4, <1>i DEF OpenTemp, HasModel, Locked
  <2>2. Registry!Next
    BY <2>1 DEF Registry!Next
  <2>3. CASE temps' = [temps EXCEPT ![call[c].model] = @ \cup {c}] /\ Go(c, "download")
    <3>1. temps' \in [Models -> SUBSET Callers] /\ "download" \in CallStates \ {"idle", "chosen"}
      BY <2>3, <1>t DEF CallStates
    <3>2. together => files'[call[c].model] # "whole"
      BY <1>i, <2>1 DEF UnderLock, InstallsMissing
    <3> QED BY <1>g, <1>t, <2>1, <2>2, <2>3, <3>1, <3>2
  <2>4. CASE UNCHANGED temps /\ Return(c)
    BY <1>r, <1>t, <2>1, <2>2, <2>4
  <2> QED BY <1>4, <2>3, <2>4 DEF OpenTemp
<1>5. ASSUME NEW c \in Callers, DownloadFails(c) PROVE Keeping
  <2>1. Locked(c) /\ temps' \in [Models -> SUBSET Callers]
    BY <1>5, <1>t DEF DownloadFails, Locked
  <2>2. CatalogInv'
    BY <1>5, <1>r, <1>t, <2>1 DEF DownloadFails
  <2>3. Registry!Next
    BY <1>5 DEF DownloadFails, Registry!Next
  <2> QED BY <2>2, <2>3
<1>6. ASSUME NEW c \in Callers, Verified(c) PROVE Keeping
  <2>1. Locked(c) /\ "replace" \in CallStates \ {"idle", "chosen"}
    BY <1>6 DEF Verified, Locked, CallStates
  <2>2. together => files'[call[c].model] # "whole"
    BY <1>6, <1>i DEF Verified, UnderLock, InstallsMissing
  <2>3. CatalogInv'
    BY <1>6, <1>g, <1>t, <2>1, <2>2 DEF Verified
  <2>4. Registry!Next
    BY <1>6 DEF Verified, Registry!Next
  <2> QED BY <2>3, <2>4
<1>7. ASSUME NEW c \in Callers, Replace(c) PROVE Keeping
  <2> DEFINE m == call[c].model
  <2>1. Locked(c) /\ m \in Models
    BY <1>7, <1>i DEF Replace, Locked, HasModel
  <2>2. /\ files' = [files EXCEPT ![m] = "whole"]
        /\ Return(c)
        /\ temps' \in [Models -> SUBSET Callers]
        /\ UNCHANGED <<together, folder, selected, crashes>>
    BY <1>7, <1>t DEF Replace
  <2>3. CatalogInv'
    BY <1>r, <1>t, <2>1, <2>2
  <2>4. ASSUME together PROVE Registry!Next
    <3>1. files[m] # "whole"
      BY <1>7, <1>i, <2>4 DEF Replace, UnderLock, InstallsMissing
    <3>2. Registry!Install(m)
      BY <2>2, <3>1 DEF Registry!Install
    <3> QED BY <2>1, <3>2 DEF Registry!Next
  <2> QED BY <2>3, <2>4
<1>8. ASSUME NEW c \in Callers, SelectRead(c) PROVE Keeping
  <2> DEFINE e == [call[c] EXCEPT !.at = "write", !.seen = selected]
  <2>1. call[c] \in CatalogCalls /\ call[c].model \in Models
    BY <1>8, <1>t, <1>i DEF SelectRead, HasModel
  <2>2. e \in CatalogCalls /\ e.at = "write" /\ e.model = call[c].model /\ e.seen = selected
    BY <1>t, <2>1 DEF CatalogCalls, CallStates
  <2>3. call' = [call EXCEPT ![c] = e]
    BY <1>8, <1>t DEF SelectRead, CatalogCalls
  <2> QED BY <1>8, <1>b, <1>t, <2>1, <2>2, <2>3 DEF SelectRead
<1>9. ASSUME NEW c \in Callers, SelectWrite(c) PROVE Keeping
  <2> DEFINE m == call[c].model
  <2>1. Locked(c) /\ m \in Models /\ call[c].seen \in Selections
    BY <1>9, <1>t, <1>i DEF SelectWrite, Locked, HasModel, CatalogCalls
  <2>2. /\ selected' = [call[c].seen EXCEPT ![RoleOf[m]] = m]
        /\ Return(c)
        /\ UNCHANGED <<together, files, folder, temps, crashes>>
    BY <1>9 DEF SelectWrite
  <2>3. selected' \in Selections
    BY <2>1, <2>2, RoleIsRole DEF Selections
  <2>4. CatalogInv'
    BY <1>r, <1>t, <2>1, <2>2, <2>3
  <2>5. ASSUME together PROVE Registry!Next
    <3>1. call[c].seen = selected
      BY <1>9, <1>i, <2>5 DEF SelectWrite, UnderLock, SeenIsSelected
    <3>2. Registry!Select(m)
      BY <2>2, <3>1 DEF Registry!Select
    <3> QED BY <2>1, <3>2 DEF Registry!Next
  <2> QED BY <2>4, <2>5
<1>10. ASSUME NEW c \in Callers, Unlink(c) PROVE Keeping
  <2> DEFINE m == call[c].model
  <2>1. /\ call[c].at = "unlink" /\ Locked(c) /\ m \in Models
        /\ UNCHANGED <<together, folder, temps, selected, crashes>>
    BY <1>10, <1>i DEF Unlink, Locked, HasModel
  <2>2. {"pop", "list"} \subseteq CallStates \ {"idle", "chosen"}
    BY DEF CallStates
  <2>3. CASE files[m] = "none" /\ UNCHANGED files /\ Go(c, "pop")
    <3>1. CatalogInv'
      BY <1>g, <1>t, <2>1, <2>2, <2>3
    <3>2. Registry!Next
      BY <2>1, <2>3 DEF Registry!Next
    <3> QED BY <3>1, <3>2
  <2>4. CASE files[m] # "none" /\ files' = [files EXCEPT ![m] = "none"] /\ Go(c, "list")
    <3>1. files' \in [Models -> {"none", "other", "whole"}] /\ files'[m] = "none"
      BY <1>t, <2>1, <2>4
    <3>2. CatalogInv'
      BY <1>g, <1>t, <2>1, <2>2, <2>4, <3>1
    <3>3. ASSUME together PROVE Registry!Next
      <4>1. selected[RoleOf[m]] = m => m \in Forcing
        BY <1>i, <2>1, <3>3 DEF UnderLock, DeletesAllowed, Forcing
      <4>2. Registry!Remove(m)
        BY <2>1, <2>4, <4>1 DEF Registry!Remove
      <4> QED BY <2>1, <4>2 DEF Registry!Next
    <3> QED BY <3>2, <3>3
  <2> QED BY <1>10, <2>3, <2>4 DEF Unlink
<1>11. ASSUME NEW c \in Callers, ListFolder(c) PROVE Keeping
  <2>1. PICK s \in {"rmdir", "pop"} :
            /\ call[c].at = "list" /\ Locked(c) /\ Go(c, s)
            /\ UNCHANGED <<together, files, folder, temps, selected, crashes>>
    BY <1>11 DEF ListFolder, Locked
  <2>2. s \in CallStates \ {"idle", "chosen"}
    BY DEF CallStates
  <2>3. together => files'[call[c].model] = "none"
    BY <1>i, <2>1 DEF UnderLock, DeletesAllowed
  <2>4. CatalogInv'
    BY <1>g, <1>t, <2>1, <2>2, <2>3
  <2>5. Registry!Next
    BY <2>1 DEF Registry!Next
  <2> QED BY <2>4, <2>5
<1>12. ASSUME NEW c \in Callers, Rmdir(c) PROVE Keeping
  <2>1. /\ call[c].at = "rmdir" /\ Locked(c)
        /\ UNCHANGED <<together, files, temps, selected, crashes>>
    BY <1>12 DEF Rmdir, Locked
  <2>2. Registry!Next
    BY <2>1 DEF Registry!Next
  <2>3. CASE folder' = folder \ {call[c].model} /\ Go(c, "pop")
    <3>1. "pop" \in CallStates \ {"idle", "chosen"} /\ folder' \subseteq Models
      BY <1>t, <2>3 DEF CallStates
    <3>2. together => files'[call[c].model] = "none"
      BY <1>i, <2>1 DEF UnderLock, DeletesAllowed
    <3> QED BY <1>g, <1>t, <2>1, <2>2, <2>3, <3>1, <3>2
  <2>4. CASE UNCHANGED folder /\ Return(c)
    BY <1>r, <1>t, <2>1, <2>2, <2>4
  <2> QED BY <1>12, <2>3, <2>4 DEF Rmdir
<1>13. ASSUME NEW c \in Callers, Pop(c) PROVE Keeping
  <2> DEFINE m == call[c].model
  <2>1. /\ call[c].at = "pop" /\ Locked(c) /\ m \in Models /\ call[c].seen \in Selections
        /\ Return(c)
        /\ UNCHANGED <<together, files, folder, temps, crashes>>
    BY <1>13, <1>t, <1>i DEF Pop, Locked, HasModel, CatalogCalls
  <2>2. CASE /\ call[c].force /\ call[c].seen[RoleOf[m]] = m
             /\ selected' = [call[c].seen EXCEPT ![RoleOf[m]] = NoModel]
    <3>1. selected' \in Selections
      BY <2>1, <2>2, RoleIsRole DEF Selections
    <3>2. CatalogInv'
      BY <1>r, <1>t, <2>1, <3>1
    <3>3. ASSUME together PROVE Registry!Next
      <4>1. call[c].seen = selected /\ files[m] = "none"
        BY <1>i, <2>1, <3>3 DEF UnderLock, SeenIsSelected, DeletesAllowed
      <4>2. m \in Forcing
        BY <2>2 DEF Forcing
      <4>3. Registry!Deselect(m)
        BY <2>1, <2>2, <4>1, <4>2 DEF Registry!Deselect
      <4> QED BY <2>1, <4>3 DEF Registry!Next
    <3> QED BY <3>2, <3>3
  <2>3. CASE UNCHANGED selected
    <3>1. CatalogInv'
      BY <1>r, <1>t, <2>1, <2>3
    <3>2. Registry!Next
      BY <2>1, <2>3 DEF Registry!Next
    <3> QED BY <3>1, <3>2
  <2> QED BY <1>13, <2>2, <2>3 DEF Pop
<1>14. ASSUME NEW c \in Callers, Die(c) PROVE Keeping
  <2>1. /\ call' = [d \in Callers |-> IF together \/ d = c THEN Idle ELSE call[d]]
        /\ crashes' \in 0..MaxCrashes
        /\ UNCHANGED <<together, files, folder, temps, selected>>
    BY <1>14, <1>t, CatalogAssumption DEF Die
  <2>2. /\ call' \in [Callers -> CatalogCalls]
        /\ \A d \in Callers : call'[d].at = "idle" \/ (~together /\ call'[d] = call[d])
    <3>1. \A d \in Callers : call'[d] = IF together \/ d = c THEN Idle ELSE call[d]
      BY <2>1
    <3>2. \A d \in Callers : call'[d] \in CatalogCalls
      BY <1>t, <3>1, IdleIsCall
    <3>3. call' = [d \in Callers |-> call'[d]]
      BY <2>1, <3>1
    <3>4. call' \in [Callers -> CatalogCalls]
      BY <3>2, <3>3
    <3> QED BY <3>1, <3>4, IdleIsCall
  <2>3. CatalogTypeOK'
    BY <1>t, <2>1, <2>2 DEF CatalogTypeOK, CatalogCalls
  <2>4. HasModel'
    BY <1>i, <2>2 DEF HasModel
  <2>5. together => UnderLock'
    BY <2>2 DEF UnderLock, OneLocked, Locked, InstallsMissing, SeenIsSelected, DeletesAllowed
  <2>6. Registry!Next
    BY <2>1 DEF Registry!Next
  <2> QED BY <2>1, <2>3, <2>4, <2>5, <2>6 DEF CatalogInv
<1>15. CatalogNext => Keeping
  <2> SUFFICES ASSUME NEW c \in Callers, CatalogStep(c) PROVE Keeping
    BY DEF CatalogNext
  <2> HIDE DEF Keeping
  <2> QED BY <1>1, <1>2, <1>3, <1>4, <1>5, <1>6, <1>7, <1>8, <1>9, <1>10, <1>11, <1>12, <1>13, <1>14
          DEF CatalogStep
<1> QED BY <1>0, <1>15

LEMMA SpecCatalogInv == CatalogSpec => []CatalogInv
<1>1. CatalogInv /\ [CatalogNext]_catalogVars => CatalogInv'
  BY NextCatalogInv
<1> QED BY <1>1, InitCatalogInv, PTL DEF CatalogSpec

-----------------------------------------------------------------------------
(* Type correctness of the catalog: no call selects or installs a model    *)
(* that the catalog does not hold (ModelCatalogService).                   *)
THEOREM CatalogTypeCorrect == CatalogSpec => []CatalogTypeOK
<1>1. CatalogInv => CatalogTypeOK
  BY DEF CatalogInv
<1> QED BY <1>1, SpecCatalogInv, PTL

(* The threads of one service implement the atomic registry: whatever      *)
(* their order and wherever the process dies, a file appears verified, the *)
(* selected model goes only by force, no selection is lost to another      *)
(* call's, and a forced deletion takes back only the selection of what it  *)
(* removed (install, select and delete under the RLock).                   *)
THEOREM CatalogImplementsRegistry == CatalogSpec => RegistryStep
<1>1. CatalogInv /\ [CatalogNext]_catalogVars => [together => Registry!Next]_catalogVars
  BY NextCatalogInv
<1> QED BY <1>1, SpecCatalogInv, PTL DEF CatalogSpec, RegistryStep

-----------------------------------------------------------------------------
(* OMLXHarness: the inductive invariant                                    *)

Rows == [db: BOOLEAN, errors: 0..Samples, done: 0..Samples, by: ModelSets \cup {{}}]
Harnesses == [at: HarnessStates, k: 1..Len(Candidates) + 1, changed: BOOLEAN,
              rows: Rows, results: Seq(Results)]

Typed == HarnessTypeOK /\ harness \in Harnesses

\* Each candidate that is through has its result, and only a candidate is
\* reviewed.
Counted ==
    /\ Len(harness.results) = harness.k - 1
    /\ harness.at \in {"review", "collect"} => ~Restoring
    /\ harness.at \in {"restored", "over"} => Restoring

\* From the first write on, settings.json names the models of this round.
NamesRound == harness.at # "sync" => active = Wanted(harness.k)

\* What runs has loaded what settings.json names, except before a restart
\* that is sure to come.
LoadsActive ==
    ~outlived /\ runtime.up =>
        \/ runtime.loaded = active
        \/ harness.at = "stop"
        \/ harness.at \in {"pin", "decide"} /\ harness.changed

\* Photos of this round are done by its models.
RowsOfRound ==
    /\ harness.at \in {"pin", "decide", "stop", "open", "review"} => harness.rows.done = 0
    /\ ~outlived /\ harness.at = "collect" /\ harness.rows.done > 0 =>
           harness.rows.by = Wanted(harness.k)

HarnessInv == Typed /\ Counted /\ NamesRound /\ LoadsActive /\ RowsOfRound /\ MeasuredOnCandidate

LEMMA RoundsExist ==
    /\ Len(Candidates) \in Nat \ {0} /\ Samples \in Nat
    /\ 0 \in 0..Samples
    /\ \A k \in 1..Len(Candidates) + 1 : Wanted(k) \in ModelSets
    /\ Wanted(Len(Candidates) + 1) = Original
    /\ \A k \in 1..Len(Candidates) : Wanted(k) = {Candidates[k]}
BY HarnessAssumption DEF ModelSets, Wanted

LEMMA InitHarnessInv == HarnessInit => HarnessInv
<1> SUFFICES ASSUME HarnessInit PROVE HarnessInv
  OBVIOUS
<1>1. NoRows \in Rows /\ Original \in ModelSets
  BY RoundsExist DEF NoRows, Rows
<1>2. harness \in Harnesses /\ 0 \in 0..MaxTroubles
  BY <1>1, RoundsExist, HarnessAssumption DEF HarnessInit, Harnesses, HarnessStates
<1>3. Typed
  BY <1>1, <1>2 DEF HarnessInit, Typed, HarnessTypeOK, Harnesses, Rows
<1> QED BY <1>3, RoundsExist
        DEF HarnessInit, HarnessInv, Counted, Restoring, NamesRound, LoadsActive, RowsOfRound,
            MeasuredOnCandidate

-----------------------------------------------------------------------------
(* Every step                                                              *)

\* The type of the rest follows from that of the record of the harness.
LEMMA TypedNext ==
    ASSUME harness' \in Harnesses, active' \in ModelSets, pinned' \in ModelSets,
           runtime' \in [up: BOOLEAN, loaded: ModelSets], catalogued' \in BOOLEAN,
           outlived' \in BOOLEAN, troubles' \in 0..MaxTroubles
    PROVE  Typed'
BY DEF Typed, HarnessTypeOK, Harnesses, Rows

LEMMA ToIsTyped ==
    ASSUME harness \in Harnesses, NEW s \in HarnessStates, To(s)
    PROVE  /\ harness' \in Harnesses /\ harness'.at = s /\ harness'.k = harness.k
           /\ harness'.changed = harness.changed /\ harness'.rows = harness.rows
           /\ harness'.results = harness.results
BY DEF To, Harnesses

LEMMA NextHarnessInv == HarnessInv /\ [HarnessNext]_harnessVars => HarnessInv'
<1> SUFFICES ASSUME HarnessInv, [HarnessNext]_harnessVars PROVE HarnessInv'
  OBVIOUS
<1>t. /\ harness \in Harnesses /\ active \in ModelSets /\ pinned \in ModelSets
      /\ runtime \in [up: BOOLEAN, loaded: ModelSets] /\ catalogued \in BOOLEAN
      /\ outlived \in BOOLEAN /\ troubles \in 0..MaxTroubles
  BY DEF HarnessInv, Typed, HarnessTypeOK
<1>k. harness.k \in 1..Len(Candidates) + 1 /\ Wanted(harness.k) \in ModelSets
  BY <1>t, RoundsExist DEF Harnesses
<1>i. Counted /\ NamesRound /\ LoadsActive /\ RowsOfRound /\ MeasuredOnCandidate
  BY DEF HarnessInv
<1>b. /\ Trouble => troubles' \in 0..MaxTroubles /\ outlived' = outlived
      /\ Calm => troubles' = troubles /\ outlived' = outlived
  BY <1>t, HarnessAssumption DEF Trouble, Calm
<1> USE DEF At
<1>0. CASE UNCHANGED harnessVars
  BY <1>0
  DEF harnessVars, HarnessInv, Typed, HarnessTypeOK, Counted, Restoring, NamesRound, LoadsActive,
      RowsOfRound, MeasuredOnCandidate
\* A step that only moves on, and may stop or start the runtime.
<1>g. ASSUME NEW s \in HarnessStates \ {"sync", "pin", "decide"}, To(s), harness.at # "sync",
             UNCHANGED <<active, pinned, catalogued>>,
             runtime' \in [up: BOOLEAN, loaded: ModelSets],
             troubles' \in 0..MaxTroubles, outlived' \in BOOLEAN, outlived => outlived',
             s = "review" => ~Restoring, s \in {"restored", "over"} => Restoring,
             s \in {"stop", "open", "review"} =>
                 harness.at \in {"pin", "decide", "stop", "open", "review"},
             s = "collect" => ~Restoring
                 /\ harness.at \in {"pin", "decide", "stop", "open", "review"},
             ~outlived' /\ runtime'.up => runtime'.loaded = active \/ s = "stop"
      PROVE  HarnessInv'
  <2>1. /\ harness' \in Harnesses /\ harness'.at = s /\ harness'.k = harness.k
        /\ harness'.changed = harness.changed /\ harness'.rows = harness.rows
        /\ harness'.results = harness.results
    BY <1>g, <1>t, ToIsTyped
  <2>2. Typed'
    BY <1>g, <1>t, <2>1, TypedNext
  <2>3. Counted' /\ NamesRound'
    BY <1>g, <1>i, <2>1 DEF Counted, Restoring, NamesRound
  <2>4. LoadsActive' /\ RowsOfRound'
    BY <1>g, <1>i, <2>1 DEF LoadsActive, RowsOfRound
  <2>5. MeasuredOnCandidate'
    BY <1>g, <1>i, <2>1 DEF MeasuredOnCandidate
  <2> QED BY <2>2, <2>3, <2>4, <2>5 DEF HarnessInv
<1>s. /\ {"stop", "open", "review", "collect", "restored", "failed", "over"}
             \subseteq HarnessStates \ {"sync", "pin", "decide"}
      /\ {"sync", "pin", "decide"} \subseteq HarnessStates
  BY DEF HarnessStates
<1>1. CASE SyncSettings
  <2>1. /\ harness.at = "sync" /\ active' = Wanted(harness.k)
        /\ harness' = [harness EXCEPT !.at = "pin", !.rows = NoRows,
                                      !.changed = active # Wanted(harness.k)]
        /\ UNCHANGED <<pinned, runtime, catalogued, troubles, outlived>>
    BY <1>1, <1>b DEF SyncSettings
  <2>2. NoRows \in Rows /\ NoRows.done = 0
    BY RoundsExist DEF NoRows, Rows
  <2>3. /\ harness' \in Harnesses /\ harness'.at = "pin" /\ harness'.k = harness.k
        /\ harness'.changed = (active # Wanted(harness.k)) /\ harness'.rows = NoRows
        /\ harness'.results = harness.results
    BY <1>t, <1>s, <2>1, <2>2 DEF Harnesses
  <2>4. Typed'
    BY <1>t, <1>k, <2>1, <2>3, TypedNext
  <2>5. Counted' /\ NamesRound' /\ LoadsActive' /\ RowsOfRound'
    BY <1>i, <2>1, <2>2, <2>3 DEF Counted, Restoring, NamesRound, LoadsActive, RowsOfRound
  <2>6. MeasuredOnCandidate'
    BY <1>i, <2>1, <2>3 DEF MeasuredOnCandidate
  <2> QED BY <2>4, <2>5, <2>6 DEF HarnessInv
<1>2. CASE SyncPins
  <2>1. /\ harness.at = "pin" /\ pinned' = Wanted(harness.k)
        /\ harness' = [harness EXCEPT !.at = "decide",
                                      !.changed = @ \/ pinned # Wanted(harness.k)]
        /\ UNCHANGED <<active, runtime, catalogued, troubles, outlived>>
    BY <1>2, <1>b DEF SyncPins
  <2>2. PICK more \in BOOLEAN : more = (pinned # Wanted(harness.k))
    OBVIOUS
  <2>3. /\ harness' \in Harnesses /\ harness'.at = "decide" /\ harness'.k = harness.k
        /\ harness'.changed = (harness.changed \/ more) /\ harness'.rows = harness.rows
        /\ harness'.results = harness.results
    BY <1>t, <1>s, <2>1, <2>2 DEF Harnesses
  <2>4. Typed'
    BY <1>t, <1>k, <2>1, <2>3, TypedNext
  <2>5. Counted' /\ NamesRound' /\ LoadsActive' /\ RowsOfRound'
    BY <1>i, <2>1, <2>3 DEF Counted, Restoring, NamesRound, LoadsActive, RowsOfRound
  <2>6. MeasuredOnCandidate'
    BY <1>i, <2>1, <2>3 DEF MeasuredOnCandidate
  <2> QED BY <2>4, <2>5, <2>6 DEF HarnessInv
<1>3. CASE Decide
  <2>1. PICK s \in {"stop", "review"} :
            /\ harness.at = "decide" /\ ~Restoring /\ To(s)
            /\ s = "review" => ~harness.changed /\ runtime.up
            /\ UNCHANGED <<active, pinned, runtime, catalogued, troubles, outlived>>
    BY <1>3, <1>b DEF Decide
  <2> QED BY <1>g, <1>s, <1>t, <1>i, <2>1 DEF LoadsActive
<1>4. CASE DecideRestore
  <2>1. PICK s \in {"stop", "restored"} :
            /\ harness.at = "decide" /\ Restoring /\ To(s)
            /\ s = "restored" => ~harness.changed /\ runtime.up
            /\ UNCHANGED <<active, pinned, runtime, catalogued, troubles, outlived>>
    BY <1>4, <1>b DEF DecideRestore
  <2> QED BY <1>g, <1>s, <1>t, <1>i, <2>1 DEF LoadsActive
<1>5. CASE Stop
  <2>1. /\ harness.at = "stop" /\ To("open")
        /\ runtime' = [runtime EXCEPT !.up = FALSE]
        /\ UNCHANGED <<active, pinned, catalogued, troubles, outlived>>
    BY <1>5, <1>b DEF Stop
  <2>2. runtime' \in [up: BOOLEAN, loaded: ModelSets] /\ ~runtime'.up
    BY <1>t, <2>1
  <2> QED BY <1>g, <1>s, <1>t, <1>i, <2>1, <2>2
<1>6. CASE StopTimesOut
  <2>1. /\ harness.at = "stop" /\ To(Raised) /\ outlived' = TRUE
        /\ troubles' \in 0..MaxTroubles
        /\ UNCHANGED <<active, pinned, runtime, catalogued>>
    BY <1>6, <1>t, HarnessAssumption DEF StopTimesOut
  <2> QED BY <1>g, <1>s, <1>t, <1>i, <2>1 DEF Raised
<1>7. CASE Open
  <2>1. /\ harness.at = "open" /\ To(IF Restoring THEN "restored" ELSE "review")
        /\ runtime' = [up |-> TRUE, loaded |-> active]
        /\ UNCHANGED <<active, pinned, catalogued, troubles, outlived>>
    BY <1>7, <1>b DEF Open
  <2> QED BY <1>g, <1>s, <1>t, <1>i, <2>1
<1>8. CASE OpenTimesOut
  <2>1. /\ harness.at = "open" /\ To(Raised) /\ troubles' \in 0..MaxTroubles
        /\ runtime' \in {[up |-> TRUE, loaded |-> active], [runtime EXCEPT !.up = FALSE]}
        /\ UNCHANGED <<active, pinned, catalogued, outlived>>
    BY <1>8, <1>b DEF OpenTimesOut
  <2>2. /\ runtime' \in [up: BOOLEAN, loaded: ModelSets]
        /\ runtime'.up => runtime'.loaded = active
    <3>1. CASE runtime' = [up |-> TRUE, loaded |-> active]
      BY <1>t, <3>1
    <3>2. CASE runtime' = [runtime EXCEPT !.up = FALSE]
      BY <1>t, <3>2
    <3> QED BY <2>1, <3>1, <3>2
  <2> QED BY <1>g, <1>s, <1>t, <1>i, <2>1, <2>2 DEF Raised
<1>9. CASE Review \/ ProbeFails
  <2>1. PICK r \in Rows :
            /\ harness.at = "review"
            /\ harness' = [harness EXCEPT !.at = "collect", !.rows = r]
            /\ r.done > 0 => runtime.up /\ r.by = runtime.loaded
            /\ troubles' \in 0..MaxTroubles /\ outlived' = outlived
            /\ UNCHANGED <<active, pinned, runtime, catalogued>>
    <3>1. CASE Review
      <4>1. PICK done \in 0..Samples : \E errors \in 0..Samples - done :
                harness' = [harness EXCEPT !.at = "collect",
                    !.rows = [db |-> TRUE, errors |-> errors, done |-> done, by |-> runtime.loaded]]
        BY <3>1 DEF Review
      <4>e. PICK errors \in 0..Samples - done :
                harness' = [harness EXCEPT !.at = "collect",
                    !.rows = [db |-> TRUE, errors |-> errors, done |-> done, by |-> runtime.loaded]]
        BY <4>1
      <4>2. [db |-> TRUE, errors |-> errors, done |-> done, by |-> runtime.loaded] \in Rows
        BY <1>t, RoundsExist DEF Rows
      <4>3. troubles' \in 0..MaxTroubles /\ outlived' = outlived
        BY <3>1, <1>t, <1>b DEF Review
      <4> QED BY <3>1, <4>e, <4>2, <4>3 DEF Review
    <3>2. CASE ProbeFails
      <4>0. PICK r : r = [NoRows EXCEPT !.db = TRUE]
        OBVIOUS
      <4>1. r \in Rows /\ r.done = 0
        BY <4>0, RoundsExist DEF NoRows, Rows
      <4>2. /\ harness.at = "review" /\ harness' = [harness EXCEPT !.at = "collect", !.rows = r]
            /\ UNCHANGED <<active, pinned, runtime, catalogued, troubles, outlived>>
        BY <3>2, <1>b, <4>0 DEF ProbeFails
      <4>3. ~(r.done > 0)
        BY <4>1
      <4> QED BY <1>t, <4>1, <4>2, <4>3
    <3> QED BY <1>9, <3>1, <3>2
  <2>2. /\ harness' \in Harnesses /\ harness'.at = "collect" /\ harness'.k = harness.k
        /\ harness'.changed = harness.changed /\ harness'.rows = r
        /\ harness'.results = harness.results
    BY <1>t, <1>s, <2>1 DEF Harnesses
  <2>3. Typed'
    BY <1>t, <2>1, <2>2, TypedNext
  <2>4. Counted' /\ NamesRound' /\ LoadsActive' /\ RowsOfRound'
    BY <1>i, <2>1, <2>2 DEF Counted, Restoring, NamesRound, LoadsActive, RowsOfRound
  <2>5. MeasuredOnCandidate'
    BY <1>i, <2>1, <2>2 DEF MeasuredOnCandidate
  <2> QED BY <2>3, <2>4, <2>5 DEF HarnessInv
<1>10. CASE Collect
  <2>1. /\ harness.at = "collect" /\ ~Restoring
        /\ harness' = [harness EXCEPT !.at = "sync", !.k = @ + 1, !.results = Append(@, Result)]
        /\ UNCHANGED <<active, pinned, runtime, catalogued, troubles, outlived>>
    BY <1>10, <1>b, <1>i DEF Collect, Counted
  <2>2. harness.k \in 1..Len(Candidates) /\ harness.rows \in Rows /\ harness.results \in Seq(Results)
    BY <1>t, <2>1, RoundsExist DEF Harnesses, Restoring
  <2>3. /\ Result \in Results
        /\ Result.done > 0 => Result.done = harness.rows.done /\ Result.by = harness.rows.by
    <3>1. CASE harness.rows.db
      <4>1. SetMatches(harness.k) \in BOOLEAN /\ Drift(harness.k) \in BOOLEAN
        BY DEF SetMatches, Drift
      <4>2. PICK m \in BOOLEAN, d \in BOOLEAN : m = ~SetMatches(harness.k) /\ d = Drift(harness.k)
        BY <4>1
      <4>3. Result = [mismatch |-> m, drift |-> d, errors |-> harness.rows.errors,
                      done |-> harness.rows.done, by |-> harness.rows.by]
        BY <3>1, <4>2 DEF Result
      <4> QED BY <2>2, <4>3 DEF Results, Rows
    <3>2. CASE ~harness.rows.db
      <4>1. Result = [mismatch |-> FALSE, drift |-> FALSE, errors |-> Samples, done |-> 0, by |-> {}]
        BY <3>2 DEF Result
      <4> QED BY <4>1, RoundsExist DEF Results
    <3> QED BY <3>1, <3>2
  <2>4. /\ harness' \in Harnesses /\ harness'.at = "sync" /\ harness'.k = harness.k + 1
        /\ harness'.results = Append(harness.results, Result)
    <3>1. harness.k + 1 \in 1..Len(Candidates) + 1
      BY <2>2, RoundsExist
    <3>2. PICK rs : rs = Append(harness.results, Result)
      OBVIOUS
    <3>3. rs \in Seq(Results)
      BY <2>2, <2>3, <3>2
    <3>4. harness' = [harness EXCEPT !.at = "sync", !.k = @ + 1, !.results = rs]
      BY <2>1, <3>2
    <3> QED BY <1>t, <1>s, <3>1, <3>2, <3>3, <3>4 DEF Harnesses
  <2>5. Typed'
    BY <1>t, <2>1, <2>4, TypedNext
  <2>6. Counted' /\ NamesRound' /\ LoadsActive' /\ RowsOfRound'
    BY <1>i, <2>1, <2>2, <2>3, <2>4 DEF Counted, Restoring, NamesRound, LoadsActive, RowsOfRound
  <2>7. MeasuredOnCandidate'
    <3> SUFFICES ASSUME ~outlived, NEW k \in DOMAIN harness'.results,
                        harness'.results[k].done > 0, ~harness'.results[k].mismatch,
                        ~harness'.results[k].drift
                 PROVE  harness'.results[k].by = {Candidates[k]}
      BY <2>1 DEF MeasuredOnCandidate
    <3>1. CASE k = Len(harness.results) + 1
      <4>1. harness'.results[k] = Result /\ k = harness.k
        BY <1>i, <2>2, <2>3, <2>4, <3>1 DEF Counted
      <4> QED BY <1>i, <2>1, <2>2, <2>3, <4>1, RoundsExist DEF RowsOfRound
    <3>2. CASE k # Len(harness.results) + 1
      <4>1. k \in DOMAIN harness.results /\ harness'.results[k] = harness.results[k]
        BY <2>2, <2>3, <2>4, <3>2
      <4> QED BY <1>i, <4>1 DEF MeasuredOnCandidate
    <3> QED BY <3>1, <3>2
  <2> QED BY <2>5, <2>6, <2>7 DEF HarnessInv
<1>11. CASE Report
  <2>1. /\ harness.at = "restored" /\ To("over")
        /\ UNCHANGED <<active, pinned, runtime, catalogued, troubles, outlived>>
    BY <1>11, <1>b DEF Report
  <2> QED BY <1>g, <1>s, <1>t, <1>i, <2>1 DEF LoadsActive, Counted
<1>12. CASE RuntimeDies
  <2>1. /\ runtime' = [runtime EXCEPT !.up = FALSE] /\ troubles' \in 0..MaxTroubles
        /\ UNCHANGED <<active, pinned, catalogued, harness, outlived>>
    BY <1>12, <1>b DEF RuntimeDies
  <2>2. runtime' \in [up: BOOLEAN, loaded: ModelSets] /\ ~runtime'.up
    BY <1>t, <2>1
  <2>3. Typed'
    BY <1>t, <2>1, <2>2, TypedNext
  <2> QED BY <1>i, <2>1, <2>2, <2>3
          DEF HarnessInv, Counted, Restoring, NamesRound, LoadsActive, RowsOfRound, MeasuredOnCandidate
<1> QED BY <1>0, <1>1, <1>2, <1>3, <1>4, <1>5, <1>6, <1>7, <1>8, <1>9, <1>10, <1>11, <1>12
        DEF HarnessNext

LEMMA SpecHarnessInv == HarnessSpec => []HarnessInv
BY InitHarnessInv, NextHarnessInv, PTL DEF HarnessSpec

-----------------------------------------------------------------------------
(* Type correctness of the comparison: a round for every candidate and one *)
(* for the restoration (run_omlx_harness).                                 *)
THEOREM HarnessTypeCorrect == HarnessSpec => []HarnessTypeOK
<1>1. HarnessInv => HarnessTypeOK
  BY DEF HarnessInv, Typed
<1> QED BY <1>1, SpecHarnessInv, PTL

(* What the report says is so: a result without mismatch or drift was      *)
(* measured on its candidate, and a restored runtime has loaded the user's *)
(* own models, unless it once outlived the wait for its exit               *)
(* (_collect_result, restart_shared).                                      *)
THEOREM HarnessReportsTruth == HarnessSpec => []ReportIsTrue
<1>1. HarnessInv => ReportIsTrue
  <2> SUFFICES ASSUME HarnessInv PROVE RestoredIsOriginal
    BY DEF ReportIsTrue, HarnessInv
  <2> SUFFICES ASSUME harness.at = "over", runtime.up, ~outlived PROVE runtime.loaded = Original
    BY DEF RestoredIsOriginal
  <2>1. runtime.loaded = active /\ active = Wanted(harness.k)
    BY DEF HarnessInv, LoadsActive, NamesRound
  <2>2. harness.k = Len(Candidates) + 1
    BY RoundsExist DEF HarnessInv, Typed, Harnesses, Counted, Restoring
  <2> QED BY <2>1, <2>2, RoundsExist
<1> QED BY <1>1, SpecHarnessInv, PTL

-----------------------------------------------------------------------------
(* The rows of the cache.                                                  *)

LEMMA RenewedIn ==
    ASSUME NEW S, NEW rows \in Seq(S), NEW row \in S
    PROVE  /\ Renewed(rows, row) \in Seq(S)
           /\ Len(Renewed(rows, row)) <= Len(rows) + 1
<1>1. Len(rows) \in Nat /\ \A i \in 1..Len(rows): rows[i] \in S
  BY LenProperties, ElementOfSeq
<1> DEFINE old == RowOf(rows, row.key, row.picture)
           i0 == CHOOSE i \in old: TRUE
<1>2. old \subseteq 1..Len(rows)
  BY LenProperties DEF RowOf
<1>3. CASE old = {}
  BY <1>1, <1>3, AppendProperties DEF Renewed
<1>4. CASE old # {}
  <2>1. i0 \in 1..Len(rows)
    BY <1>2, <1>4
  <2> HIDE DEF i0
  <2>2. PICK front: front = SubSeq(rows, 1, i0 - 1)
    OBVIOUS
  <2>3. PICK back: back = SubSeq(rows, i0 + 1, Len(rows))
    OBVIOUS
  <2>4. front \in Seq(S) /\ Len(front) = i0 - 1
    BY <1>1, <2>1, <2>2, SubSeqProperties
  <2>5. back \in Seq(S) /\ Len(back) = Len(rows) - i0
    BY <1>1, <2>1, <2>3, SubSeqProperties
  <2>6. front \o back \in Seq(S) /\ Len(front \o back) = Len(rows) - 1
    BY <1>1, <2>1, <2>4, <2>5, ConcatProperties
  <2>7. Without(rows, i0) \in Seq(S) /\ Len(Without(rows, i0)) = Len(rows) - 1
    BY <2>2, <2>3, <2>6 DEF Without
  <2>8. Renewed(rows, row) = Append(Without(rows, i0), row)
    BY <1>4 DEF Renewed, i0
  <2> QED  BY <1>1, <2>7, <2>8, AppendProperties
<1> QED  BY <1>3, <1>4

LEMMA PutIn ==
    ASSUME NEW S, NEW rows \in Seq(S), NEW row \in S, Len(rows) <= Capacity
    PROVE  Put(rows, row) \in Seq(S) /\ Len(Put(rows, row)) <= Capacity
<1>1. PICK new: new = Renewed(rows, row)
  OBVIOUS
<1>2. new \in Seq(S) /\ Len(new) <= Len(rows) + 1 /\ Len(new) \in Nat /\ Len(rows) \in Nat
  BY <1>1, RenewedIn, LenProperties
<1>3. Capacity \in Nat
  BY InferenceAssumption
<1>4. CASE Len(new) > Capacity
  <2>1. new # <<>>
    BY <1>2, <1>3, <1>4, EmptySeq
  <2>2. Tail(new) \in Seq(S) /\ Len(Tail(new)) = Len(new) - 1
    BY <1>2, <2>1, HeadTailProperties
  <2> QED  BY <1>1, <1>2, <1>3, <1>4, <2>2 DEF Put
<1>5. CASE ~(Len(new) > Capacity)
  BY <1>1, <1>2, <1>3, <1>5 DEF Put
<1> QED  BY <1>4, <1>5

LEMMA PutAllIn ==
    ASSUME NEW S, NEW rows \in Seq(S), NEW added \in Seq(S), Len(rows) <= Capacity
    PROVE  PutAll(rows, added) \in Seq(S) /\ Len(PutAll(rows, added)) <= Capacity
<1> DEFINE Held == {c \in Seq(S): Len(c) <= Capacity}
           n == Len(added)
           Along(f) == f = [i \in 0..n |-> IF i = 0 THEN rows ELSE Put(f[i - 1], added[i])]
           after == CHOOSE f: Along(f)
<1>1. n \in Nat /\ \A i \in 1..n: added[i] \in S
  BY LenProperties, ElementOfSeq
<1>2. \A i \in 1..n, c \in Held: Put(c, added[i]) \in Held
  BY <1>1, PutIn
<1> DEFINE step == [i \in 1..n |-> [c \in Held |-> Put(c, added[i])]]
<1>3. step \in Steps(n, Held)
  BY <1>2 DEF Steps
<1>4. PICK f: IsRun(f, n, Held, rows, step)
  <2>1. rows \in Held
    OBVIOUS
  <2> HIDE DEF Held, step
  <2> QED  BY <1>1, <1>3, <2>1, Iterates
<1>5. \A i \in 1..n: f[i] = Put(f[i - 1], added[i])
  <2> SUFFICES ASSUME NEW i \in 1..n PROVE f[i] = Put(f[i - 1], added[i])
    OBVIOUS
  <2>1. i - 1 \in 0..n
    BY <1>1
  <2>2. f[i - 1] \in Held
    <3> HIDE DEF Held
    <3> QED  BY <1>4, <2>1 DEF IsRun
  <2>3. step[i] = [c \in Held |-> Put(c, added[i])]
    BY <1>1
  <2>4. step[i][f[i - 1]] = Put(f[i - 1], added[i])
    <3> HIDE DEF Held, step
    <3> QED  BY <2>2, <2>3
  <2> QED  BY <1>4, <2>4 DEF IsRun
<1>6. Along(f)
  BY <1>1, <1>4, <1>5 DEF IsRun
<1> HIDE DEF Along
<1>7. Along(after)
  BY <1>6
<1> HIDE DEF after
<1>8. after = [i \in 0..n |-> IF i = 0 THEN rows ELSE Put(after[i - 1], added[i])]
  BY <1>7 DEF Along
<1>9. \A i \in 0..n: after[i] \in Held
  <2> DEFINE P == {i \in 0..n: after[i] \in Held}
  <2>1. 0 \in P
    BY <1>1, <1>8
  <2>2. ASSUME NEW i \in 1..n, i - 1 \in P PROVE i \in P
    <3>1. after[i] = Put(after[i - 1], added[i])
      BY <1>1, <1>8
    <3>2. after[i - 1] \in Held
      BY <2>2
    <3>3. Put(after[i - 1], added[i]) \in Held
      <4> HIDE DEF Held, P
      <4> QED  BY <1>2, <3>2
    <3>4. after[i] \in Held
      <4> HIDE DEF Held, P
      <4> QED  BY <3>1, <3>3
    <3>5. i \in 0..n
      BY <1>1
    <3> HIDE DEF Held
    <3> QED  BY <3>4, <3>5
  <2> HIDE DEF P
  <2>3. \A i \in 0..n: i \in P
    BY <1>1, <2>1, <2>2, SetInduction
  <2> QED  BY <2>3 DEF P
<1>10. PutAll(rows, added) = after[n]
  BY DEF PutAll, after, Along
<1> QED  BY <1>1, <1>9, <1>10

LEMMA KeptRow ==
    ASSUME NEW S, NEW rows \in Seq(S), NEW key, NEW p, Hit(rows, key, p)
    PROVE  /\ Kept(rows, key, p) \in S
           /\ Kept(rows, key, p).key = key /\ Kept(rows, key, p).picture = p
<1> DEFINE i0 == CHOOSE i \in RowOf(rows, key, p): TRUE
<1>1. i0 \in RowOf(rows, key, p)
  BY DEF Hit
<1>2. i0 \in 1..Len(rows) /\ rows[i0].key = key /\ rows[i0].picture = p
  <2> HIDE DEF i0
  <2> QED  BY <1>1, LenProperties DEF RowOf
<1>3. rows[i0] \in S
  <2> HIDE DEF i0
  <2> QED  BY <1>2, ElementOfSeq
<1> QED  BY <1>2, <1>3 DEF Kept

LEMMA TouchedIn ==
    ASSUME NEW S, NEW rows \in Seq(S), NEW key, NEW T, NEW inputs \in Seq(T),
           Len(rows) <= Capacity
    PROVE  /\ Touched(rows, key, inputs) \in Seq(S)
           /\ Len(Touched(rows, key, inputs)) <= Capacity
<1> DEFINE Held == {c \in Seq(S): Len(c) <= Capacity}
           n == Len(inputs)
           After(i, c) == IF Hit(rows, key, inputs[i]) THEN Put(c, Kept(rows, key, inputs[i]))
                          ELSE c
           Along(f) == f = [i \in 0..n |-> IF i = 0 THEN rows
                                           ELSE IF Hit(rows, key, inputs[i])
                                                THEN Put(f[i - 1], Kept(rows, key, inputs[i]))
                                           ELSE f[i - 1]]
           after == CHOOSE f: Along(f)
           step == [i \in 1..n |-> [c \in Held |-> After(i, c)]]
<1>1. n \in Nat
  BY LenProperties
<1>2. \A i \in 1..n, c \in Held: After(i, c) \in Held
  <2> SUFFICES ASSUME NEW i \in 1..n, NEW c \in Held PROVE After(i, c) \in Held
    OBVIOUS
  <2>1. CASE Hit(rows, key, inputs[i])
    <3>1. PICK row: row = Kept(rows, key, inputs[i])
      OBVIOUS
    <3>2. PICK p: p = inputs[i]
      OBVIOUS
    <3>3. row \in S
      BY <2>1, <3>1, <3>2, KeptRow
    <3>4. Put(c, row) \in Held
      BY <3>3, PutIn
    <3> QED  BY <2>1, <3>1, <3>4
  <2>2. CASE ~Hit(rows, key, inputs[i])
    BY <2>2
  <2> QED  BY <2>1, <2>2
<1>3. step \in Steps(n, Held)
  <2> HIDE DEF Held, After
  <2> QED  BY <1>2 DEF Steps
<1>4. PICK f: IsRun(f, n, Held, rows, step)
  <2>1. rows \in Held
    OBVIOUS
  <2> HIDE DEF Held, step
  <2> QED  BY <1>1, <1>3, <2>1, Iterates
<1>5. \A i \in 1..n: f[i] = After(i, f[i - 1])
  <2> SUFFICES ASSUME NEW i \in 1..n PROVE f[i] = After(i, f[i - 1])
    OBVIOUS
  <2>1. i - 1 \in 0..n
    BY <1>1
  <2> HIDE DEF Held, After
  <2>2. f[i - 1] \in Held
    BY <1>4, <2>1 DEF IsRun
  <2>3. step[i] = [c \in Held |-> After(i, c)]
    BY <1>1
  <2> HIDE DEF step
  <2>4. step[i][f[i - 1]] = After(i, f[i - 1])
    BY <2>2, <2>3
  <2> QED  BY <1>4, <2>4 DEF IsRun
<1>6. Along(f)
  <2>1. f = [i \in 0..n |-> IF i = 0 THEN rows ELSE After(i, f[i - 1])]
    <3> HIDE DEF After
    <3> QED  BY <1>1, <1>4, <1>5 DEF IsRun
  <2> QED  BY <2>1
<1> HIDE DEF Along
<1>7. Along(after)
  BY <1>6
<1> HIDE DEF after
<1>8. after = [i \in 0..n |-> IF i = 0 THEN rows ELSE After(i, after[i - 1])]
  BY <1>7 DEF Along
<1>9. \A i \in 0..n: after[i] \in Held
  <2> DEFINE P == {i \in 0..n: after[i] \in Held}
  <2>1. 0 \in P
    BY <1>1, <1>8
  <2> HIDE DEF After
  <2>2. ASSUME NEW i \in 1..n, i - 1 \in P PROVE i \in P
    <3>1. after[i] = After(i, after[i - 1])
      BY <1>1, <1>8
    <3> QED  BY <1>2, <2>2, <3>1
  <2> HIDE DEF P
  <2>3. \A i \in 0..n: i \in P
    BY <1>1, <2>1, <2>2, SetInduction
  <2> QED  BY <2>3 DEF P
<1>10. Touched(rows, key, inputs) = after[n]
  BY DEF Touched, after, Along
<1> QED  BY <1>1, <1>9, <1>10

(* What the lookup does not find is asked for, and nothing else.           *)
Asked(inputs) == {inputs[i]: i \in DOMAIN inputs}

LEMMA MissesIn ==
    ASSUME NEW rows, NEW key, NEW T, NEW inputs \in Seq(T)
    PROVE  /\ Misses(rows, key, inputs) \in Seq(Asked(inputs))
           /\ \A i \in 1..Len(inputs):
                 Hit(rows, key, inputs[i]) \/ inputs[i] \in Asked(Misses(rows, key, inputs))
<1> DEFINE A == Asked(inputs)
           n == Len(inputs)
           Passed(i) == Hit(rows, key, inputs[i]) \/ \E j \in 1..i - 1: inputs[j] = inputs[i]
           After(i, c) == IF Passed(i) THEN c ELSE Append(c, inputs[i])
           Along(f) == f = [i \in 0..n |-> IF i = 0 THEN <<>>
                               ELSE IF Hit(rows, key, inputs[i])
                                       \/ \E j \in 1..i - 1: inputs[j] = inputs[i]
                                    THEN f[i - 1]
                               ELSE Append(f[i - 1], inputs[i])]
           after == CHOOSE f: Along(f)
           step == [i \in 1..n |-> [c \in Seq(A) |-> After(i, c)]]
<1>1. n \in Nat /\ DOMAIN inputs = 1..n /\ \A i \in 1..n: inputs[i] \in A
  BY LenProperties DEF Asked
<1>2. \A i \in 1..n, c \in Seq(A): After(i, c) \in Seq(A)
  <2> HIDE DEF A, Passed
  <2> QED  BY <1>1, AppendProperties
<1>3. step \in Steps(n, Seq(A))
  <2> HIDE DEF A, After
  <2> QED  BY <1>2 DEF Steps
<1>4. PICK f: IsRun(f, n, Seq(A), <<>>, step)
  <2>1. PICK H, e: H = Seq(A) /\ e = <<>>
    OBVIOUS
  <2>2. e \in H /\ step \in Steps(n, H)
    BY <1>3, <2>1, EmptySeq
  <2> HIDE DEF A, step
  <2>3. \E f: IsRun(f, n, H, e, step)
    BY <1>1, <2>2, Iterates
  <2> QED  BY <2>1, <2>3
<1>5. \A i \in 1..n: f[i] = After(i, f[i - 1])
  <2> SUFFICES ASSUME NEW i \in 1..n PROVE f[i] = After(i, f[i - 1])
    OBVIOUS
  <2>1. i - 1 \in 0..n
    BY <1>1
  <2> HIDE DEF A, After
  <2>2. f[i - 1] \in Seq(A)
    BY <1>4, <2>1 DEF IsRun
  <2>3. step[i] = [c \in Seq(A) |-> After(i, c)]
    BY <1>1
  <2> HIDE DEF step
  <2>4. step[i][f[i - 1]] = After(i, f[i - 1])
    BY <2>2, <2>3
  <2> QED  BY <1>4, <2>4 DEF IsRun
<1>6. Along(f)
  <2>1. f = [i \in 0..n |-> IF i = 0 THEN <<>> ELSE After(i, f[i - 1])]
    <3> HIDE DEF After
    <3> QED  BY <1>1, <1>4, <1>5 DEF IsRun
  <2> QED  BY <2>1
<1> HIDE DEF Along
<1>7. Along(after)
  BY <1>6
<1> HIDE DEF after
<1>8. after = [i \in 0..n |-> IF i = 0 THEN <<>> ELSE After(i, after[i - 1])]
  BY <1>7 DEF Along
<1> DEFINE Covered(m) == \A i \in 1..m: Hit(rows, key, inputs[i]) \/ inputs[i] \in Asked(after[m])
<1>9. \A m \in 0..n: after[m] \in Seq(A) /\ Covered(m)
  <2> DEFINE P == {m \in 0..n: after[m] \in Seq(A) /\ Covered(m)}
  <2>1. 0 \in P
    <3>1. after[0] = <<>>
      BY <1>1, <1>8
    <3>2. after[0] \in Seq(A)
      <4> HIDE DEF A
      <4> QED  BY <3>1, EmptySeq
    <3>3. Covered(0)
      OBVIOUS
    <3> HIDE DEF Covered
    <3> QED  BY <1>1, <3>2, <3>3
  <2>2. ASSUME NEW m \in 1..n, m - 1 \in P PROVE m \in P
    <3>1. after[m] = After(m, after[m - 1])
      <4> HIDE DEF After
      <4> QED  BY <1>1, <1>8
    <3>2. m - 1 \in 0..n /\ after[m - 1] \in Seq(A) /\ Covered(m - 1)
      <4> HIDE DEF Covered
      <4> QED  BY <2>2
    <3>3. after[m] \in Seq(A)
      <4> HIDE DEF After
      <4> QED  BY <1>2, <3>1, <3>2
    <3>4. CASE Passed(m)
      <4>1. after[m] = after[m - 1]
        BY <3>1, <3>4
      <4>2. Hit(rows, key, inputs[m]) \/ \E j \in 1..m - 1: inputs[j] = inputs[m]
        BY <3>4
      <4>3. Covered(m)
        BY <1>1, <3>2, <4>1, <4>2
      <4> QED  BY <3>3, <4>3
    <3>5. CASE ~Passed(m)
      <4>1. PICK c, x: c = after[m - 1] /\ x = inputs[m]
        OBVIOUS
      <4>2. after[m] = Append(c, x)
        BY <3>1, <3>5, <4>1
      <4>3. c \in Seq(A) /\ x \in A
        BY <1>1, <3>2, <4>1
      <4>4. /\ Len(Append(c, x)) = Len(c) + 1 /\ Len(c) \in Nat
            /\ \A j \in 1..Len(c): Append(c, x)[j] = c[j]
            /\ Append(c, x)[Len(c) + 1] = x
        <5> HIDE DEF A
        <5> QED  BY <4>3, AppendProperties, LenProperties
      <4>5. DOMAIN c = 1..Len(c) /\ DOMAIN after[m] = 1..Len(c) + 1
        <5> HIDE DEF A
        <5>1. DOMAIN c = 1..Len(c)
          BY <4>3, LenProperties
        <5>2. PICK d: d = after[m]
          OBVIOUS
        <5>3. d \in Seq(A) /\ Len(d) = Len(c) + 1
          BY <3>3, <4>2, <4>4, <5>2
        <5>4. DOMAIN d = 1..Len(d)
          BY <5>3, LenProperties
        <5> QED  BY <5>1, <5>2, <5>3, <5>4
      <4>6. \A j \in 1..Len(c): after[m][j] = c[j] /\ j \in 1..Len(c) + 1
        BY <4>2, <4>4
      <4>7. Asked(c) \subseteq Asked(after[m])
        BY <4>5, <4>6 DEF Asked
      <4>8. x \in Asked(after[m])
        <5>1. Len(c) + 1 \in 1..Len(c) + 1 /\ after[m][Len(c) + 1] = x
          BY <4>2, <4>4
        <5> QED  BY <4>5, <5>1 DEF Asked
      <4>9. \A i \in 1..m: i = m \/ i \in 1..m - 1
        BY <1>1
      <4>10. Covered(m)
        BY <3>2, <4>1, <4>7, <4>8, <4>9
      <4> QED  BY <3>3, <4>10
    <3> QED  BY <3>4, <3>5
  <2> HIDE DEF P
  <2>3. \A i \in 0..n: i \in P
    BY <1>1, <2>1, <2>2, SetInduction
  <2> HIDE DEF Covered
  <2> QED  BY <2>3 DEF P
<1>10. Misses(rows, key, inputs) = after[n]
  BY DEF Misses, after, Along
<1> QED  BY <1>1, <1>9, <1>10

-----------------------------------------------------------------------------
(* The rows of a window.                                                   *)

LEMMA DivMod ==
    ASSUME NEW b \in Nat \ {0}, NEW x \in Nat
    PROVE  x \div b \in Int /\ x = b * (x \div b) + (x % b) /\ x % b \in 0..b - 1
  OBVIOUS

LEMMA NextFactor ==
    ASSUME NEW b \in Nat \ {0}, NEW q \in Int, NEW p \in Int, b * q < b * p, b * p <= b * q + b
    PROVE  p = q + 1
  OBVIOUS

LEMMA NextMultiple ==
    ASSUME NEW b \in Nat \ {0}, NEW j \in Nat, NEW x \in Nat,
           j % b = 0, x % b = 0, j < x, x <= j + b
    PROVE  x = j + b
<1>1. PICK q: q = j \div b
  OBVIOUS
<1>2. PICK p: p = x \div b
  OBVIOUS
<1>3. q \in Int /\ p \in Int /\ j = b * q /\ x = b * p
  <2>1. q \in Int /\ j = b * q + (j % b)
    BY <1>1, DivMod
  <2>2. p \in Int /\ x = b * p + (x % b)
    BY <1>2, DivMod
  <2>3. b * q \in Int /\ b * p \in Int
    BY <2>1, <2>2
  <2> QED  BY <2>1, <2>2, <2>3
<1>4. p = q + 1
  BY <1>3, NextFactor
<1> QED  BY <1>3, <1>4

LEMMA AddMultiple ==
    ASSUME NEW b \in Nat \ {0}, NEW j \in Nat, j % b = 0
    PROVE  (j + b) % b = 0
<1>1. PICK y, q, p, r: y = j + b /\ q = j \div b /\ p = y \div b /\ r = y % b
  OBVIOUS
<1>2. y \in Nat /\ q \in Int /\ p \in Int /\ j = b * q /\ y = b * p + r /\ r \in 0..b - 1
  <2>1. q \in Int /\ j = b * q + (j % b)
    BY <1>1, DivMod
  <2>2. y \in Nat
    BY <1>1
  <2>3. p \in Int /\ y = b * p + r /\ r \in 0..b - 1
    BY <1>1, <2>2, DivMod
  <2>4. b * q \in Int
    BY <2>1
  <2> QED  BY <2>1, <2>2, <2>3, <2>4
<1>3. PICK m: m = q + 1
  OBVIOUS
<1>4. b * m = b * q + b /\ m \in Int /\ b * q \in Int /\ b * p \in Int
  BY <1>2, <1>3
<1>5. b * m = b * p + r
  BY <1>1, <1>2, <1>4
<1>6. ASSUME r # 0 PROVE FALSE
  <2>1. b * p < b * m /\ b * m <= b * p + b
    BY <1>2, <1>4, <1>5, <1>6
  <2>2. m = p + 1
    BY <1>2, <1>4, <2>1, NextFactor
  <2>3. b * m = b * p + b
    BY <1>2, <2>2
  <2> QED  BY <1>2, <1>4, <1>5, <2>3
<1> QED  BY <1>1, <1>6

(* After the place s of a window of n inputs, the batches that started up  *)
(* to s have brought k rows.                                               *)
Reached(n, b, s, k) ==
    \/ s = 0 /\ k = 0
    \/ \E j \in Nat: j % b = 0 /\ j < s /\ s <= j + b /\ k = Least(n, j + b)

LEMMA NextPlace ==
    ASSUME NEW n \in Nat, NEW b \in Nat \ {0}, NEW s \in 1..n, NEW k \in Nat,
           Reached(n, b, s - 1, k)
    PROVE  /\ (s - 1) % b = 0 => k = s - 1 /\ Reached(n, b, s, k + Least(b, n - s + 1))
           /\ (s - 1) % b # 0 => Reached(n, b, s, k)
<1>1. 0 % b = 0
  OBVIOUS
<1>2. CASE s - 1 = 0 /\ k = 0
  <2>1. 0 < s /\ s <= 0 + b /\ k + Least(b, n - s + 1) = Least(n, 0 + b)
    BY <1>2 DEF Least
  <2> QED  BY <1>1, <1>2, <2>1 DEF Reached
<1>3. CASE \E j \in Nat: j % b = 0 /\ j < s - 1 /\ s - 1 <= j + b /\ k = Least(n, j + b)
  <2>1. PICK j \in Nat: j % b = 0 /\ j < s - 1 /\ s - 1 <= j + b /\ k = Least(n, j + b)
    BY <1>3
  <2>2. CASE (s - 1) % b = 0
    <3>1. PICK x \in Nat: x = s - 1
      OBVIOUS
    <3>2. x = j + b
      BY <2>1, <2>2, <3>1, NextMultiple
    <3>3. k = s - 1
      BY <2>1, <3>1, <3>2 DEF Least
    <3>4. k + Least(b, n - s + 1) = Least(n, x + b) /\ x < s /\ s <= x + b
      BY <3>1, <3>3 DEF Least
    <3>5. x % b = 0
      BY <2>2, <3>1
    <3> QED  BY <2>2, <3>3, <3>4, <3>5 DEF Reached
  <2>3. CASE (s - 1) % b # 0
    <3>1. (j + b) % b = 0
      BY <2>1, AddMultiple
    <3>2. s - 1 # j + b
      BY <2>3, <3>1
    <3>3. j < s /\ s <= j + b
      BY <2>1, <3>2
    <3> QED  BY <2>1, <2>3, <3>3 DEF Reached
  <2> QED  BY <2>2, <2>3
<1> QED  BY <1>2, <1>3 DEF Reached

LEMMA LastPlace ==
    ASSUME NEW n \in Nat, NEW b \in Nat \ {0}, NEW k \in Nat, Reached(n, b, n, k)
    PROVE  k = n
  BY DEF Reached, Least

-----------------------------------------------------------------------------
(* The invariant.                                                          *)

InferenceStates ==
    {"idle", "snapshot", "lookup", "adapter", "again", "load", "infer", "returned", "raised"}
AnswerRow == [picture: Pictures, answer: Answer]
OutputsOf == UNION {[D -> Seq(Answer)]: D \in SUBSET Nat}
RequestRecord ==
    [at: InferenceStates, owner: Owners, hashed: Contents \union {Never}, inputs: Seq(Pictures),
     key: Contents, queue: Seq(Pictures), found: SUBSET AnswerRow, done: Seq(Answer),
     outputs: OutputsOf]

(* Every variable in its full set: what InferenceTypeOK says, with the     *)
(* running call as one record.                                             *)
InferenceShape ==
    /\ file \in [content: Contents, print: 0..MaxSwaps]
    /\ snapshots \in [Owners -> [content: Contents, print: {Never} \union 0..MaxSwaps]]
    /\ adapter \in [made: BOOLEAN, trusts: Contents, runs: Contents, batch: {1, Batch}]
    /\ keyed \in Contents \union {Never}
    /\ cache \in Seq(CacheRow) /\ Len(cache) <= Capacity
    /\ request \in RequestRecord
    /\ swapped \in BOOLEAN
    /\ calls \in 0..MaxCalls /\ broken \in 0..MaxBroken

(* Nothing is hashed but for a snapshot, and no snapshot is ahead of the   *)
(* file's signature.                                                       *)
SignaturesHold ==
    /\ request.hashed # Never => Snapshotting
    /\ \A o \in Owners: snapshots[o].print <= file.print

(* The answers collected so far are those of the first inputs, in their    *)
(* order, and every output on hand is what its request computes.           *)
AnsweredInOrder(answers, pictures, source) ==
    \A i \in 1..Len(answers): answers[i] = [of |-> pictures[i], by |-> source]
BatchesHold ==
    /\ request.at = "infer" =>
        /\ Len(request.done) <= Len(Inputs)
        /\ AnsweredInOrder(request.done, Inputs, adapter.runs)
        /\ DOMAIN request.outputs \subseteq Starts
        /\ \A s \in DOMAIN request.outputs: request.outputs[s] = Padded(s)
    /\ request.at \notin {"infer", "raised"} =>
        request.done = <<>> /\ DOMAIN request.outputs = {}

(* Until a file is replaced under a running call, what client, adapter and *)
(* cache believe of the file is so.                                        *)
Asking == request.at \in {"lookup", "adapter", "again", "load", "infer"}
GoodRows == {[key |-> k, picture |-> p, answer |-> [of |-> p, by |-> k]]:
                k \in Contents, p \in Pictures}
ContentIsKnown ==
    /\ \A o \in Owners: Current(o) => snapshots[o].content = file.content
    /\ request.hashed \in {Never, file.content}
    /\ Asking => request.key = file.content
    /\ adapter.runs \in {Gone, adapter.trusts}
    /\ request.at \in {"load", "infer"} => adapter.trusts = file.content
    /\ request.at = "infer" => adapter.runs = file.content
    /\ cache \in Seq(GoodRows)

(* Every preview asked for is in the queue or has its own answer, by the   *)
(* model that lies there, among those found; and nothing else is.          *)
OwnAnswers(pictures, source) ==
    {[picture |-> p, answer |-> [of |-> p, by |-> source]]: p \in pictures}
NothingIsLost ==
    request.at \in {"adapter", "again", "load", "infer", "returned"} =>
        /\ request.queue \in Seq(Asked(request.inputs))
        /\ request.found \subseteq OwnAnswers(Asked(request.inputs), file.content)
        /\ OwnAnswers(Asked(request.inputs) \ Asked(request.queue), file.content)
                \subseteq request.found
        /\ request.at = "returned" => request.queue = <<>>

InferenceInvariant ==
    InferenceShape /\ SignaturesHold /\ BatchesHold
    /\ (~swapped => ContentIsKnown /\ NothingIsLost)

LEMMA CallFacts ==
    ASSUME InferenceShape
    PROVE  /\ request.at \in InferenceStates /\ request.owner \in Owners
           /\ request.hashed \in Contents \union {Never} /\ request.inputs \in Seq(Pictures)
           /\ request.key \in Contents /\ request.queue \in Seq(Pictures)
           /\ request.found \subseteq AnswerRow /\ request.done \in Seq(Answer)
           /\ request.outputs \in OutputsOf
           /\ DOMAIN request.outputs \subseteq Nat
           /\ \A s \in DOMAIN request.outputs: request.outputs[s] \in Seq(Answer)
<1>1. request \in RequestRecord
  BY DEF InferenceShape
<1>2. request.outputs \in OutputsOf
  BY <1>1 DEF RequestRecord
<1>3. PICK D \in SUBSET Nat: request.outputs \in [D -> Seq(Answer)]
  BY <1>2 DEF OutputsOf
<1> QED  BY <1>1, <1>2, <1>3 DEF RequestRecord

LEMMA AdapterFacts ==
    ASSUME InferenceShape
    PROVE  adapter.batch \in Nat \ {0} /\ adapter.runs \in Contents /\ adapter.trusts \in Contents
  BY InferenceAssumption DEF InferenceShape

LEMMA InputsIn ==
    ASSUME InferenceShape
    PROVE  /\ Inputs \in Seq(Pictures)
           /\ Len(Inputs) = Least(Chunk, Len(request.queue)) /\ Len(Inputs) <= Len(request.queue)
           /\ \A i \in 1..Len(Inputs): Inputs[i] = request.queue[i]
<1>1. PICK q: q = request.queue
  OBVIOUS
<1>2. PICK m: m = Least(Chunk, Len(q))
  OBVIOUS
<1>3. q \in Seq(Pictures) /\ Len(q) \in Nat /\ \A i \in 1..Len(q): q[i] \in Pictures
  BY <1>1, CallFacts, LenProperties, ElementOfSeq
<1>4. m \in Nat /\ m <= Len(q)
  BY <1>2, <1>3, InferenceAssumption DEF Least
<1>5. \A i \in 1..m: q[i] \in Pictures
  BY <1>3, <1>4
<1>6. PICK t: t = SubSeq(q, 1, m)
  OBVIOUS
<1>7. t \in Seq(Pictures) /\ Len(t) = m /\ \A i \in 1..m: t[i] = q[i]
  BY <1>4, <1>5, <1>6, SubSeqProperties
<1>8. Inputs = t
  BY <1>1, <1>2, <1>6 DEF Inputs
<1> QED  BY <1>1, <1>2, <1>4, <1>7, <1>8

LEMMA WindowIn ==
    ASSUME InferenceShape
    PROVE  Window \in Int
<1>1. PICK b, w: b = adapter.batch /\ w = Chunk \div b
  OBVIOUS
<1>2. b \in Nat \ {0}
  BY <1>1, AdapterFacts
<1>3. w \in Int
  BY <1>1, <1>2, InferenceAssumption
<1>4. w * b \in Int
  BY <1>2, <1>3
<1> QED  BY <1>1, <1>2, <1>4 DEF Window

LEMMA PreparedIn ==
    ASSUME InferenceShape, Len(request.done) <= Len(Inputs)
    PROVE  /\ Prepared \in Seq(Pictures)
           /\ Len(request.done) + Len(Prepared) <= Len(Inputs)
           /\ Len(request.done) = Len(Inputs) => Len(Prepared) = 0
           /\ \A i \in 1..Len(Prepared): Prepared[i] = Inputs[Len(request.done) + i]
<1>1. PICK t, d: t = Inputs /\ d = Len(request.done)
  OBVIOUS
<1>2. PICK e: e = Least(d + Window, Len(t))
  OBVIOUS
<1>3. t \in Seq(Pictures) /\ Len(t) \in Nat /\ \A i \in 1..Len(t): t[i] \in Pictures
  BY <1>1, InputsIn, LenProperties, ElementOfSeq
<1>4. d \in Nat /\ d <= Len(t)
  BY <1>1, CallFacts, LenProperties
<1>5. e \in Int /\ e <= Len(t)
  BY <1>2, <1>3, <1>4, WindowIn DEF Least
<1>6. \A i \in d + 1..e: t[i] \in Pictures
  BY <1>3, <1>4, <1>5
<1>7. PICK p: p = SubSeq(t, d + 1, e)
  OBVIOUS
<1>8. d + 1 \in Int
  BY <1>4
<1>9. /\ p \in Seq(Pictures) /\ Len(p) = IF d + 1 <= e THEN e - (d + 1) + 1 ELSE 0
      /\ \A i \in 1..e - (d + 1) + 1: p[i] = t[d + 1 + i - 1]
  BY <1>5, <1>6, <1>7, <1>8, SubSeqProperties
<1>10. Prepared = p
  BY <1>1, <1>2, <1>7 DEF Prepared
<1>11. \A i \in 1..Len(p): i \in 1..e - (d + 1) + 1 /\ d + 1 + i - 1 = d + i
  BY <1>4, <1>5, <1>9
<1>12. \A i \in 1..Len(p): p[i] = t[d + i]
  BY <1>9, <1>11
<1>13. d + Len(p) <= Len(t) /\ (d = Len(t) => Len(p) = 0)
  BY <1>3, <1>4, <1>5, <1>9
<1> QED  BY <1>1, <1>9, <1>10, <1>12, <1>13

(* What the request that starts at s computes.                             *)
LEMMA PaddedIn ==
    ASSUME InferenceShape, Len(request.done) <= Len(Inputs), NEW s \in Starts
    PROVE  /\ s \in 1..Len(Prepared)
           /\ Valid(s) = Least(adapter.batch, Len(Prepared) - s + 1) /\ Valid(s) \in 1..adapter.batch
           /\ Padded(s) \in Seq(Answer)
           /\ Len(Padded(s)) = adapter.batch
           /\ \A i \in 1..Valid(s):
                 Padded(s)[i] = [of |-> Prepared[s + i - 1], by |-> adapter.runs]
<1>1. PICK b, c, p, n: b = adapter.batch /\ c = adapter.runs /\ p = Prepared /\ n = Len(Prepared)
  OBVIOUS
<1>2. b \in Nat \ {0} /\ c \in Contents
  BY <1>1, AdapterFacts
<1>3. p \in Seq(Pictures) /\ n = Len(p) /\ n \in Nat /\ \A i \in 1..n: p[i] \in Pictures
  BY <1>1, PreparedIn, LenProperties, ElementOfSeq
<1>4. s \in 1..n
  BY <1>1, <1>3 DEF Starts
<1>5. PICK v: v = Least(b, n - s + 1)
  OBVIOUS
<1>6. v \in 1..b /\ v <= n - s + 1
  BY <1>2, <1>3, <1>4, <1>5 DEF Least
<1>7. Valid(s) = v
  BY <1>1, <1>5 DEF Valid
<1> DEFINE Place(i) == IF i <= v THEN s + i - 1 ELSE n
           t == [i \in 1..b |-> [of |-> p[Place(i)], by |-> c]]
<1>8. Padded(s) = t
  BY <1>1, <1>7 DEF Padded
<1>9. \A i \in 1..b: Place(i) \in 1..n
  BY <1>2, <1>3, <1>4, <1>6
<1>10. \A i \in 1..b: [of |-> p[Place(i)], by |-> c] \in Answer
  <2> HIDE DEF Place
  <2> QED  BY <1>2, <1>3, <1>9 DEF Answer
<1>11. t \in [1..b -> Answer]
  <2> HIDE DEF Place
  <2> QED  BY <1>10
<1>12. t \in Seq(Answer)
  <2> HIDE DEF t
  <2> QED  BY <1>2, <1>11, SeqDef
<1>13. Len(t) = b
  <2> HIDE DEF t
  <2>1. DOMAIN t = 1..b /\ DOMAIN t = 1..Len(t) /\ Len(t) \in Nat
    BY <1>11, <1>12, LenProperties
  <2> QED  BY <1>2, <2>1
<1>14. \A i \in 1..v: t[i] = [of |-> p[s + i - 1], by |-> c]
  BY <1>2, <1>6
<1> HIDE DEF t
<1> QED  BY <1>1, <1>4, <1>5, <1>6, <1>7, <1>8, <1>12, <1>13, <1>14

LEMMA AnsweredConcat ==
    ASSUME NEW r \in Seq(Answer), NEW t \in Seq(Answer), NEW p, NEW c,
           AnsweredInOrder(r, p, c),
           \A i \in 1..Len(t): t[i] = [of |-> p[Len(r) + i], by |-> c]
    PROVE  /\ r \o t \in Seq(Answer) /\ Len(r \o t) = Len(r) + Len(t)
           /\ AnsweredInOrder(r \o t, p, c)
<1>1. PICK m, k: m = Len(r) /\ k = Len(t)
  OBVIOUS
<1>2. m \in Nat /\ k \in Nat
  BY <1>1, LenProperties
<1>3. PICK u: u = r \o t
  OBVIOUS
<1>4. /\ u \in Seq(Answer) /\ Len(u) = m + k
      /\ \A i \in 1..m + k: u[i] = IF i <= m THEN r[i] ELSE t[i - m]
  BY <1>1, <1>3, ConcatProperties
<1>5. ASSUME NEW i \in 1..m + k PROVE u[i] = [of |-> p[i], by |-> c]
  <2>1. CASE i <= m
    <3>1. i \in 1..Len(r) /\ u[i] = r[i]
      BY <1>1, <1>2, <1>4, <2>1
    <3> QED  BY <3>1 DEF AnsweredInOrder
  <2>2. CASE ~(i <= m)
    <3>1. i - m \in 1..k /\ m + (i - m) = i /\ u[i] = t[i - m]
      BY <1>2, <1>4, <2>2
    <3>2. t[i - m] = [of |-> p[m + (i - m)], by |-> c]
      BY <1>1, <3>1
    <3> QED  BY <3>1, <3>2
  <2> QED  BY <2>1, <2>2
<1> QED  BY <1>1, <1>3, <1>4, <1>5 DEF AnsweredInOrder

(* The rows of a window: the answers of its pictures, in their order.      *)
LEMMA CollectedIn ==
    ASSUME InferenceShape, BatchesHold, request.at = "infer", DOMAIN request.outputs = Starts
    PROVE  /\ Collected \in Seq(Answer) /\ Len(Collected) = Len(Prepared)
           /\ AnsweredInOrder(Collected, Prepared, adapter.runs)
<1>1. Len(request.done) <= Len(Inputs) /\ \A s \in Starts: request.outputs[s] = Padded(s)
  BY DEF BatchesHold
<1>2. PICK b, c, p, n: b = adapter.batch /\ c = adapter.runs /\ p = Prepared /\ n = Len(p)
  OBVIOUS
<1>3. b \in Nat \ {0} /\ n \in Nat
  BY <1>1, <1>2, AdapterFacts, PreparedIn, LenProperties
<1>4. PICK block: block = [s \in Starts |-> SubSeq(request.outputs[s], 1, Valid(s))]
  OBVIOUS
<1>5. ASSUME NEW s \in Starts
      PROVE  /\ block[s] \in Seq(Answer) /\ Len(block[s]) = Least(b, n - s + 1)
             /\ \A i \in 1..Len(block[s]): block[s][i] = [of |-> p[s + i - 1], by |-> c]
  <2>1. PICK t, v: t = Padded(s) /\ v = Valid(s)
    OBVIOUS
  <2>2. /\ v \in 1..b /\ v = Least(b, n - s + 1) /\ t \in Seq(Answer) /\ Len(t) = b
        /\ \A i \in 1..v: t[i] = [of |-> p[s + i - 1], by |-> c]
    BY <1>1, <1>2, <2>1, PaddedIn
  <2>3. PICK u: u = SubSeq(t, 1, v)
    OBVIOUS
  <2>4. block[s] = u
    BY <1>1, <1>4, <2>1, <2>3
  <2>5. \A i \in 1..v: t[i] \in Answer
    BY <1>3, <2>2, ElementOfSeq
  <2>6. u \in Seq(Answer) /\ Len(u) = v /\ \A i \in 1..v: u[i] = t[i]
    BY <1>3, <2>2, <2>3, <2>5, SubSeqProperties
  <2> QED  BY <2>2, <2>4, <2>6
<1> DEFINE S == Seq(Answer)
           After(s, r) == IF s \in Starts THEN r \o block[s] ELSE r
           Along(f) == f = [s \in 0..n |-> IF s = 0 THEN <<>>
                               ELSE IF s \in Starts
                                    THEN f[s - 1] \o SubSeq(request.outputs[s], 1, Valid(s))
                               ELSE f[s - 1]]
           rows == CHOOSE f: Along(f)
           step == [s \in 1..n |-> [r \in S |-> After(s, r)]]
<1>6. \A s \in 1..n, r \in S: After(s, r) \in S
  <2> SUFFICES ASSUME NEW s \in 1..n, NEW r \in S PROVE After(s, r) \in S
    OBVIOUS
  <2>1. CASE s \in Starts
    <3>1. PICK u: u = block[s]
      OBVIOUS
    <3> QED  BY <1>5, <2>1, <3>1, ConcatProperties
  <2> QED  BY <2>1
<1>7. \E f: /\ f \in [0..n -> S] /\ f[0] = <<>>
            /\ \A s \in 1..n: f[s] = After(s, f[s - 1])
  <2>1. PICK H, e, st: H = S /\ e = <<>> /\ st = step
    OBVIOUS
  <2>2. st \in Steps(n, H) /\ e \in H
    <3> HIDE DEF S, After
    <3>1. step \in Steps(n, S)
      BY <1>6 DEF Steps
    <3>2. <<>> \in S
      BY EmptySeq DEF S
    <3> QED  BY <2>1, <3>1, <3>2
  <2>3. PICK f: IsRun(f, n, H, e, st)
    BY <1>3, <2>2, Iterates
  <2>4. \A s \in 1..n: f[s] = After(s, f[s - 1])
    <3> SUFFICES ASSUME NEW s \in 1..n PROVE f[s] = After(s, f[s - 1])
      OBVIOUS
    <3>1. s - 1 \in 0..n
      BY <1>3
    <3> HIDE DEF S, After
    <3>2. f[s - 1] \in S
      BY <2>1, <2>3, <3>1 DEF IsRun
    <3>3. st[s] = [r \in S |-> After(s, r)]
      BY <1>3, <2>1
    <3>4. st[s][f[s - 1]] = After(s, f[s - 1])
      BY <3>2, <3>3
    <3> QED  BY <2>3, <3>4 DEF IsRun
  <2> HIDE DEF S, After
  <2> QED  BY <2>1, <2>3, <2>4 DEF IsRun
<1>8. PICK f: /\ f \in [0..n -> S] /\ f[0] = <<>>
              /\ \A s \in 1..n: f[s] = After(s, f[s - 1])
  <2> HIDE DEF S, After
  <2> QED  BY <1>7
<1>9. \A s \in Starts: block[s] = SubSeq(request.outputs[s], 1, Valid(s))
  BY <1>4
<1>10. Along(f)
  <2>1. f = [s \in 0..n |-> IF s = 0 THEN <<>> ELSE After(s, f[s - 1])]
    <3> HIDE DEF S, After
    <3> QED  BY <1>3, <1>8
  <2> QED  BY <1>9, <2>1
<1> HIDE DEF Along
<1>11. Along(rows)
  BY <1>10
<1> HIDE DEF rows
<1>12. rows = [s \in 0..n |-> IF s = 0 THEN <<>> ELSE After(s, rows[s - 1])]
  BY <1>9, <1>11 DEF Along
<1> DEFINE Well(s) == /\ rows[s] \in S /\ Reached(n, b, s, Len(rows[s]))
                      /\ AnsweredInOrder(rows[s], p, c)
<1>13. \A s \in 0..n: Well(s)
  <2> DEFINE P == {s \in 0..n: Well(s)}
  <2>1. 0 \in P
    <3>1. rows[0] = <<>>
      BY <1>3, <1>12
    <3>2. PICK e: e = <<>>
      OBVIOUS
    <3>3. e \in S /\ Len(e) = 0
      BY <3>2, EmptySeq
    <3>4. Reached(n, b, 0, Len(e)) /\ AnsweredInOrder(e, p, c)
      BY <3>3 DEF Reached, AnsweredInOrder
    <3> HIDE DEF S
    <3> QED  BY <1>3, <3>1, <3>2, <3>3, <3>4
  <2>2. ASSUME NEW s \in 1..n, s - 1 \in P PROVE s \in P
    <3>1. PICK r, k: r = rows[s - 1] /\ k = Len(r)
      OBVIOUS
    <3>2. r \in S /\ Reached(n, b, s - 1, k) /\ AnsweredInOrder(r, p, c)
      <4> HIDE DEF S
      <4> QED  BY <2>2, <3>1
    <3>3. k \in Nat
      BY <3>1, <3>2, LenProperties
    <3>4. rows[s] = After(s, r)
      <4> HIDE DEF After
      <4> QED  BY <1>3, <1>12, <3>1
    <3>5. s \in Starts <=> (s - 1) % b = 0
      BY <1>2, <1>3 DEF Starts
    <3>6. CASE s \in Starts
      <4>1. PICK t: t = block[s]
        OBVIOUS
      <4>2. /\ t \in Seq(Answer) /\ Len(t) = Least(b, n - s + 1)
            /\ \A i \in 1..Len(t): t[i] = [of |-> p[s + i - 1], by |-> c]
        BY <1>5, <3>6, <4>1
      <4>3. k = s - 1 /\ Reached(n, b, s, k + Least(b, n - s + 1))
        BY <1>3, <3>2, <3>3, <3>5, <3>6, NextPlace
      <4>4. \A i \in 1..Len(t): t[i] = [of |-> p[Len(r) + i], by |-> c]
        <5>1. \A i \in 1..Len(t): s + i - 1 = Len(r) + i
          BY <3>1, <3>3, <4>3
        <5> QED  BY <4>2, <5>1
      <4>5. /\ r \o t \in Seq(Answer) /\ Len(r \o t) = k + Len(t)
            /\ AnsweredInOrder(r \o t, p, c)
        BY <3>1, <3>2, <4>2, <4>4, AnsweredConcat
      <4>6. PICK u: u = r \o t
        OBVIOUS
      <4>7. rows[s] = u
        BY <3>4, <3>6, <4>1, <4>6
      <4>8. u \in S /\ Reached(n, b, s, Len(u)) /\ AnsweredInOrder(u, p, c)
        BY <4>2, <4>3, <4>5, <4>6
      <4> QED  BY <4>7, <4>8
    <3>7. CASE s \notin Starts
      <4>1. rows[s] = r
        BY <3>4, <3>7
      <4>2. Reached(n, b, s, k)
        BY <1>3, <3>2, <3>3, <3>5, <3>7, NextPlace
      <4> QED  BY <3>1, <3>2, <4>1, <4>2
    <3> QED  BY <3>6, <3>7
  <2> HIDE DEF P
  <2>3. \A s \in 0..n: s \in P
    BY <1>3, <2>1, <2>2, SetInduction
  <2> HIDE DEF Well
  <2> QED  BY <2>3 DEF P
<1>14. Collected = rows[n]
  BY <1>2 DEF Collected, rows, Along
<1>15. Well(n)
  <2> HIDE DEF Well
  <2> QED  BY <1>3, <1>13
<1>16. Len(rows[n]) = n
  <2>1. PICK k: k = Len(rows[n])
    OBVIOUS
  <2>2. k \in Nat
    BY <1>15, <2>1, LenProperties
  <2> QED  BY <1>3, <1>15, <2>1, <2>2, LastPlace
<1> QED  BY <1>2, <1>14, <1>15, <1>16

-----------------------------------------------------------------------------
(* What the larger actions do.                                             *)

LEMMA EmptyOutputs == <<>> \in OutputsOf /\ DOMAIN <<>> = {}
<1>1. PICK e, S: e = <<>> /\ S = Seq(Answer)
  OBVIOUS
<1>2. e \in Seq(S) /\ Len(e) = 0
  BY <1>1, EmptySeq
<1>3. e \in [1..Len(e) -> S] /\ DOMAIN e = 1..Len(e)
  BY <1>2, LenProperties
<1>4. 1..Len(e) = {}
  BY <1>2
<1>5. e \in [{} -> S] /\ {} \in SUBSET Nat
  BY <1>3, <1>4
<1> QED  BY <1>1, <1>3, <1>4, <1>5 DEF OutputsOf

LEMMA RowsIn ==
    ASSUME InferenceShape
    PROVE  /\ \A k \in Contents, p \in Pictures, a \in Answer:
                [key |-> k, picture |-> p, answer |-> a] \in CacheRow
           /\ GoodRows \subseteq CacheRow
<1>1. \A k \in Contents, p \in Pictures: [of |-> p, by |-> k] \in Answer
  BY DEF Answer
<1>2. \A k \in Contents, p \in Pictures, a \in Answer:
          [key |-> k, picture |-> p, answer |-> a] \in CacheRow
  BY DEF CacheRow
<1> QED  BY <1>1, <1>2 DEF GoodRows

LEMMA LookedUp ==
    ASSUME InferenceShape, LookUp, NEW S, cache \in Seq(S)
    PROVE  /\ cache' \in Seq(S) /\ Len(cache') <= Capacity
           /\ request.queue' \in Seq(Asked(request.inputs))
           /\ request.at' = "returned" => request.queue' = <<>>
           /\ \E rows \in Seq(S):
                /\ \A i \in DOMAIN request.inputs:
                      \/ Hit(rows, request.key, request.inputs[i])
                      \/ request.inputs[i] \in Asked(request.queue')
                /\ request.found' = {[picture |-> request.inputs[i],
                                      answer |-> Kept(rows, request.key, request.inputs[i]).answer]:
                                        i \in {i \in DOMAIN request.inputs:
                                            Hit(rows, request.key, request.inputs[i])}}
<1>1. PICK key, inputs: key = request.key /\ inputs = request.inputs
  OBVIOUS
<1>2. PICK rows: rows = IF keyed # Never /\ keyed # key THEN <<>> ELSE cache
  OBVIOUS
<1>3. rows \in Seq(S) /\ Len(rows) <= Capacity
  BY <1>2, EmptySeq, InferenceAssumption DEF InferenceShape
<1>4. inputs \in Seq(Pictures)
  BY <1>1, CallFacts
<1>5. PICK found: found = {i \in DOMAIN inputs: Hit(rows, key, inputs[i])}
  OBVIOUS
<1>6. /\ cache' = Touched(rows, key, inputs)
      /\ request.queue' = Misses(rows, key, inputs)
      /\ request.found' = {[picture |-> inputs[i], answer |-> Kept(rows, key, inputs[i]).answer]:
                              i \in found}
      /\ request.at' = "returned" => request.queue' = <<>>
  BY <1>1, <1>2, <1>5, CallFacts DEF LookUp, InferenceShape, RequestRecord
<1>7. cache' \in Seq(S) /\ Len(cache') <= Capacity
  BY <1>3, <1>4, <1>6, TouchedIn
<1>8. PICK q: q = Misses(rows, key, inputs)
  OBVIOUS
<1>9. /\ q \in Seq(Asked(inputs))
      /\ \A i \in DOMAIN inputs: Hit(rows, key, inputs[i]) \/ inputs[i] \in Asked(q)
  BY <1>4, <1>8, MissesIn, LenProperties
<1> QED  BY <1>1, <1>3, <1>5, <1>6, <1>7, <1>8, <1>9

LEMMA StoreStays ==
    ASSUME InferenceShape, StoreChunk, NEW S, cache \in Seq(S),
           \A i \in 1..Len(Inputs):
              [key |-> request.key, picture |-> Inputs[i], answer |-> request.done[i]] \in S
    PROVE  cache' \in Seq(S) /\ Len(cache') <= Capacity
<1>1. PICK paired: paired = [i \in 1..Len(Inputs) |->
                        [key |-> request.key, picture |-> Inputs[i], answer |-> request.done[i]]]
  OBVIOUS
<1>2. PICK n: n = Len(Inputs)
  OBVIOUS
<1>3. n \in Nat
  BY <1>2, InputsIn, LenProperties
<1>4. paired \in [1..n -> S]
  BY <1>1, <1>2
<1>5. paired \in Seq(S)
  BY <1>3, <1>4, SeqDef
<1>6. cache' = IF request.key = Gone THEN cache ELSE PutAll(cache, paired)
  BY <1>1 DEF StoreChunk
<1>7. PICK c, d: c = cache /\ d = PutAll(cache, paired)
  OBVIOUS
<1>8. Len(c) <= Capacity
  BY <1>7 DEF InferenceShape
<1>9. d \in Seq(S) /\ Len(d) <= Capacity
  BY <1>5, <1>7, <1>8, PutAllIn
<1> QED  BY <1>6, <1>7, <1>8, <1>9

(* What is left of the queue when its first inputs are answered.           *)
LEMMA LeftIn ==
    ASSUME InferenceShape, StoreChunk, NEW S, request.queue \in Seq(S)
    PROVE  /\ request.queue' \in Seq(S)
           /\ Asked(request.queue) \subseteq Asked(Inputs) \union Asked(request.queue')
           /\ Asked(Inputs) \subseteq Asked(request.queue)
           /\ request.at' \in {"returned", "again"}
           /\ request.at' = "returned" => request.queue' = <<>>
<1>1. PICK q, t, m, n: q = request.queue /\ t = Inputs /\ m = Len(t) /\ n = Len(q)
  OBVIOUS
<1>2. PICK l: l = SubSeq(q, m + 1, n)
  OBVIOUS
<1>3. /\ request.queue' = l /\ request.at' \in {"returned", "again"}
      /\ request.at' = "returned" => l = <<>>
  BY <1>1, <1>2, CallFacts DEF StoreChunk, InferenceShape, RequestRecord
<1>4. /\ q \in Seq(S) /\ n \in Nat /\ DOMAIN q = 1..n /\ \A i \in 1..n: q[i] \in S
  BY <1>1, LenProperties, ElementOfSeq
<1>5. /\ m \in Nat /\ m <= n /\ DOMAIN t = 1..m /\ \A i \in 1..m: t[i] = q[i]
  BY <1>1, InputsIn, LenProperties
<1>6. \A i \in m + 1..n: q[i] \in S
  BY <1>4, <1>5
<1>7. /\ l \in Seq(S) /\ Len(l) = (IF m + 1 <= n THEN n - (m + 1) + 1 ELSE 0)
      /\ \A i \in 1..n - (m + 1) + 1: l[i] = q[m + 1 + i - 1]
  BY <1>2, <1>4, <1>5, <1>6, SubSeqProperties
<1>8. DOMAIN l = 1..n - m
  BY <1>4, <1>5, <1>7, LenProperties
<1>9. \A i \in 1..n: i <= m \/ (i - m \in 1..n - m /\ l[i - m] = q[i])
  <2> SUFFICES ASSUME NEW i \in 1..n, i > m PROVE i - m \in 1..n - m /\ l[i - m] = q[i]
    BY <1>4, <1>5
  <2>1. i - m \in 1..n - (m + 1) + 1 /\ m + 1 + (i - m) - 1 = i
    BY <1>4, <1>5
  <2> QED  BY <1>4, <1>5, <1>7, <2>1
<1>10. \A i \in DOMAIN q: q[i] \in Asked(t) \union Asked(l)
  <2> SUFFICES ASSUME NEW i \in 1..n PROVE q[i] \in Asked(t) \union Asked(l)
    BY <1>4
  <2>1. CASE i <= m
    <3>1. i \in DOMAIN t /\ t[i] = q[i]
      BY <1>4, <1>5, <2>1
    <3> QED  BY <3>1 DEF Asked
  <2>2. CASE ~(i <= m)
    <3>1. i - m \in DOMAIN l /\ l[i - m] = q[i]
      BY <1>8, <1>9, <2>2
    <3> QED  BY <3>1 DEF Asked
  <2> QED  BY <2>1, <2>2
<1>11. \A i \in DOMAIN t: i \in DOMAIN q /\ t[i] = q[i]
  BY <1>4, <1>5
<1>12. Asked(t) \subseteq Asked(q)
  BY <1>11 DEF Asked
<1>13. Asked(q) \subseteq Asked(t) \union Asked(l)
  BY <1>10 DEF Asked
<1> QED  BY <1>1, <1>3, <1>7, <1>12, <1>13

-----------------------------------------------------------------------------
(* The types.                                                              *)

LEMMA Constants ==
    /\ Contents \subseteq Nat /\ Gone \in Contents /\ Never \notin Contents
    /\ MaxSwaps \in Nat /\ MaxCalls \in Nat /\ MaxBroken \in Nat
    /\ Batch \in {1, Batch} /\ \A b \in Batches: b \in Seq(Pictures)
  BY InferenceAssumption DEF Contents, Gone, Never

LEMMA RestIn ==
    /\ Rest \in RequestRecord /\ Rest.at = "idle" /\ Rest.hashed = Never
    /\ Rest.done = <<>> /\ DOMAIN Rest.outputs = {}
    /\ \A b \in Seq(Pictures):
          [Rest EXCEPT !.at = "snapshot", !.inputs = b] \in RequestRecord
<1>1. \A S: <<>> \in Seq(S)
  BY EmptySeq
<1>2. {} \in SUBSET AnswerRow
  OBVIOUS
<1>3. PICK e: e = <<>>
  OBVIOUS
<1>4. \A at \in {"idle", "snapshot"}, b \in Seq(Pictures):
          [at |-> at, owner |-> "client", hashed |-> Never, inputs |-> b, key |-> Gone,
           queue |-> e, found |-> {}, done |-> e, outputs |-> e] \in RequestRecord
  <2> SUFFICES ASSUME NEW at \in {"idle", "snapshot"}, NEW b \in Seq(Pictures)
               PROVE  [at |-> at, owner |-> "client", hashed |-> Never, inputs |-> b, key |-> Gone,
                       queue |-> e, found |-> {}, done |-> e, outputs |-> e] \in RequestRecord
    OBVIOUS
  <2>1. e \in Seq(Pictures) /\ e \in Seq(Answer) /\ e \in OutputsOf
    BY <1>1, <1>3, EmptyOutputs
  <2> QED  BY <1>2, <2>1, Constants DEF RequestRecord, InferenceStates, Owners
<1>5. e \in Seq(Pictures)
  BY <1>1, <1>3
<1>6. Rest = [at |-> "idle", owner |-> "client", hashed |-> Never, inputs |-> e, key |-> Gone,
              queue |-> e, found |-> {}, done |-> e, outputs |-> e]
  BY <1>3 DEF Rest
<1>7. Rest \in RequestRecord
  BY <1>4, <1>5, <1>6
<1>8. ASSUME NEW b \in Seq(Pictures)
      PROVE  [Rest EXCEPT !.at = "snapshot", !.inputs = b] \in RequestRecord
  BY <1>7 DEF RequestRecord, InferenceStates
<1>9. Rest.at = "idle" /\ Rest.hashed = Never /\ Rest.done = <<>> /\ Rest.outputs = <<>>
  BY DEF Rest
<1> QED  BY <1>7, <1>8, <1>9, EmptyOutputs

LEMMA InferenceShapeInit == InferenceInit => InferenceShape
<1> SUFFICES ASSUME InferenceInit PROVE InferenceShape
  OBVIOUS
<1>1. Len(cache) <= Capacity /\ cache \in Seq(CacheRow)
  BY EmptySeq, InferenceAssumption DEF InferenceInit
<1>2. snapshots \in [Owners -> [content: Contents, print: {Never} \union 0..MaxSwaps]]
  BY Constants DEF InferenceInit, Unsigned
<1>3. adapter \in [made: BOOLEAN, trusts: Contents, runs: Contents, batch: {1, Batch}]
  BY Constants DEF InferenceInit, Unmade
<1>4. file \in [content: Contents, print: 0..MaxSwaps]
  BY Constants DEF InferenceInit
<1>5. request \in RequestRecord
  BY RestIn DEF InferenceInit
<1>6. keyed \in Contents \union {Never} /\ swapped \in BOOLEAN
  BY DEF InferenceInit
<1>7. calls \in 0..MaxCalls /\ broken \in 0..MaxBroken
  BY Constants DEF InferenceInit
<1> QED  BY <1>1, <1>2, <1>3, <1>4, <1>5, <1>6, <1>7 DEF InferenceShape

LEMMA InferenceShapeStep ==
    ASSUME InferenceShape, BatchesHold, InferenceNext
    PROVE  InferenceShape'
<1>0. USE DEF InferenceStates
<1>1. ASSUME NEW batch \in Batches, Ask(batch) PROVE InferenceShape'
  <2>1. batch \in Seq(Pictures)
    BY Constants
  <2>2. request' \in RequestRecord
    BY <1>1, <2>1, RestIn DEF Ask
  <2> QED  BY <1>1, <2>2, Constants DEF Ask, InferenceShape
<1>2. ASSUME HashAssets PROVE InferenceShape'
  <2>1. file.content \in Contents /\ \A o \in Owners: snapshots[o].content \in Contents
    BY DEF InferenceShape
  <2>2. request' \in RequestRecord
    BY <1>2, <2>1, CallFacts DEF HashAssets, InferenceShape, RequestRecord
  <2> QED  BY <1>2, <2>2 DEF HashAssets, InferenceShape
<1>3. ASSUME SignAssets PROVE InferenceShape'
  <2>1. request.hashed \in Contents /\ request.owner \in Owners /\ file.print \in 0..MaxSwaps
    BY <1>3, CallFacts DEF SignAssets, InferenceShape
  <2>2. snapshots' \in [Owners -> [content: Contents, print: {Never} \union 0..MaxSwaps]]
    BY <1>3, <2>1 DEF SignAssets, InferenceShape
  <2>3. request' \in RequestRecord
    BY <1>3, <2>1 DEF SignAssets, InferenceShape, RequestRecord
  <2>4. adapter' \in [made: BOOLEAN, trusts: Contents, runs: Contents, batch: {1, Batch}]
    BY <1>3, <2>1, Constants DEF SignAssets, InferenceShape, Unmade
  <2> QED  BY <1>3, <2>2, <2>3, <2>4 DEF SignAssets, InferenceShape
<1>4. ASSUME LookUp PROVE InferenceShape'
  <2>1. cache \in Seq(CacheRow)
    BY DEF InferenceShape
  <2>2. PICK rows \in Seq(CacheRow):
           request.found' = {[picture |-> request.inputs[i],
                              answer |-> Kept(rows, request.key, request.inputs[i]).answer]:
                                i \in {i \in DOMAIN request.inputs:
                                    Hit(rows, request.key, request.inputs[i])}}
    BY <1>4, <2>1, LookedUp
  <2>3. request.found' \subseteq AnswerRow
    <3>1. \A i \in DOMAIN request.inputs: request.inputs[i] \in Pictures
      BY CallFacts, LenProperties, ElementOfSeq
    <3>2. ASSUME NEW i \in DOMAIN request.inputs, Hit(rows, request.key, request.inputs[i])
          PROVE  Kept(rows, request.key, request.inputs[i]).answer \in Answer
      <4>1. PICK key, p: key = request.key /\ p = request.inputs[i]
        OBVIOUS
      <4>2. Kept(rows, key, p) \in CacheRow
        BY <3>2, <4>1, KeptRow
      <4> QED  BY <4>1, <4>2 DEF CacheRow
    <3> QED  BY <2>2, <3>1, <3>2 DEF AnswerRow
  <2>4. request.queue' \in Seq(Pictures)
    <3>1. PICK q, A: q = request.queue' /\ A = Asked(request.inputs)
      OBVIOUS
    <3>2. q \in Seq(A)
      BY <1>4, <2>1, <3>1, LookedUp
    <3>3. \A i \in DOMAIN request.inputs: request.inputs[i] \in Pictures
      BY CallFacts, LenProperties, ElementOfSeq
    <3>4. A \subseteq Pictures
      BY <3>1, <3>3 DEF Asked
    <3>5. q \in Seq(Pictures)
      BY <3>2, <3>4, SeqMonotonic
    <3> QED  BY <3>1, <3>5
  <2>5. request' = [request EXCEPT !.queue = request.queue', !.owner = "adapter",
                                   !.found = request.found', !.at = request.at']
        /\ request.at' \in {"returned", "adapter", "again"}
    BY <1>4 DEF LookUp, InferenceShape, RequestRecord
  <2>6. request' \in RequestRecord
    BY <2>3, <2>4, <2>5 DEF InferenceShape, RequestRecord, Owners
  <2>7. cache' \in Seq(CacheRow) /\ Len(cache') <= Capacity
    BY <1>4, <2>1, LookedUp
  <2>8. keyed' \in Contents \union {Never}
    BY <1>4, CallFacts DEF LookUp
  <2>9. adapter' \in [made: BOOLEAN, trusts: Contents, runs: Contents, batch: {1, Batch}]
    BY <1>4, Constants DEF LookUp, InferenceShape, Unmade
  <2>10. snapshots' \in [Owners -> [content: Contents, print: {Never} \union 0..MaxSwaps]]
    BY <1>4, Constants DEF LookUp, InferenceShape, Unsigned
  <2>11. UNCHANGED <<file, swapped, calls, broken>>
    BY <1>4 DEF LookUp
  <2> QED  BY <2>6, <2>7, <2>8, <2>9, <2>10, <2>11 DEF InferenceShape
<1>5. ASSUME Load PROVE InferenceShape'
  <2>1. request' \in RequestRecord
    BY <1>5 DEF Load, InferenceShape, RequestRecord
  <2>2. adapter' \in [made: BOOLEAN, trusts: Contents, runs: Contents, batch: {1, Batch}]
    BY <1>5 DEF Load, InferenceShape
  <2>3. broken' \in 0..MaxBroken
    BY <1>5, Constants DEF Load, Breaks, InferenceShape
  <2> QED  BY <1>5, <2>1, <2>2, <2>3 DEF Load, InferenceShape
<1>6. ASSUME Complete PROVE InferenceShape'
  <2>1. PICK s \in Starts: request' = [request EXCEPT !.outputs =
                      [t \in DOMAIN request.outputs \union {s} |->
                          IF t = s THEN Padded(s) ELSE request.outputs[t]]]
    BY <1>6 DEF Complete
  <2>2. Len(request.done) <= Len(Inputs)
    BY <1>6 DEF Complete, BatchesHold
  <2>3. Padded(s) \in Seq(Answer) /\ s \in 1..Len(Prepared)
    BY <2>2, PaddedIn
  <2>4. PICK D, f: D = DOMAIN request.outputs \union {s} /\ f = [t \in D |->
                          IF t = s THEN Padded(s) ELSE request.outputs[t]]
    OBVIOUS
  <2>5. D \in SUBSET Nat
    BY <2>3, <2>4, CallFacts
  <2>6. f \in [D -> Seq(Answer)]
    BY <2>3, <2>4, CallFacts
  <2>7. f \in OutputsOf
    BY <2>5, <2>6 DEF OutputsOf
  <2>8. request' = [request EXCEPT !.outputs = f]
    BY <2>1, <2>4
  <2>9. request' \in RequestRecord
    BY <2>7, <2>8 DEF InferenceShape, RequestRecord
  <2> QED  BY <1>6, <2>9 DEF Complete, InferenceShape
<1>7. ASSUME FinishWindow PROVE InferenceShape'
  <2>1. Collected \in Seq(Answer)
    BY <1>7, CollectedIn DEF FinishWindow
  <2>2. PICK d, c, e: d = request.done /\ c = Collected /\ e = <<>>
    OBVIOUS
  <2>3. d \o c \in Seq(Answer) /\ e \in OutputsOf
    BY <2>1, <2>2, CallFacts, ConcatProperties, EmptyOutputs
  <2>4. request' = [request EXCEPT !.done = d \o c, !.outputs = e]
    BY <1>7, <2>2 DEF FinishWindow
  <2>5. request' \in RequestRecord
    BY <2>3, <2>4 DEF InferenceShape, RequestRecord
  <2> QED  BY <1>7, <2>5 DEF FinishWindow, InferenceShape
<1>8. ASSUME InferFails PROVE InferenceShape'
  <2>1. request' \in RequestRecord
    BY <1>8 DEF InferFails, InferenceShape, RequestRecord
  <2>2. broken' \in 0..MaxBroken
    BY <1>8, Constants DEF InferFails, Breaks, InferenceShape
  <2> QED  BY <1>8, <2>1, <2>2 DEF InferFails, InferenceShape
<1>9. ASSUME StoreChunk PROVE InferenceShape'
  <2>1. PICK n: n = Len(Inputs)
    OBVIOUS
  <2>2. \A i \in 1..n: Inputs[i] \in Pictures /\ request.done[i] \in Answer
    BY <1>9, <2>1, InputsIn, CallFacts, ElementOfSeq DEF StoreChunk
  <2>3. \A i \in 1..n:
          [key |-> request.key, picture |-> Inputs[i], answer |-> request.done[i]] \in CacheRow
    BY <2>2, CallFacts, RowsIn
  <2>4. cache' \in Seq(CacheRow) /\ Len(cache') <= Capacity
    <3>1. cache \in Seq(CacheRow)
      BY DEF InferenceShape
    <3> QED  BY <1>9, <2>1, <2>3, <3>1, StoreStays
  <2>5. request.queue' \in Seq(Pictures) /\ request.at' \in {"returned", "again"}
    BY <1>9, CallFacts, LeftIn
  <2>6. PICK found: found = request.found \union
                          {[picture |-> Inputs[i], answer |-> request.done[i]]: i \in DOMAIN Inputs}
    OBVIOUS
  <2>7. found \subseteq AnswerRow
    <3>1. DOMAIN Inputs = 1..n
      BY <2>1, InputsIn, LenProperties
    <3> QED  BY <2>2, <2>6, <3>1, CallFacts DEF AnswerRow
  <2>8. PICK e: e = <<>>
    OBVIOUS
  <2>9. e \in Seq(Answer)
    BY <2>8, EmptySeq
  <2>10. request' = [request EXCEPT !.found = found, !.done = e, !.queue = request.queue',
                                    !.at = request.at']
    BY <1>9, <2>6, <2>8 DEF StoreChunk, InferenceShape, RequestRecord
  <2>11. request' \in RequestRecord
    BY <2>5, <2>7, <2>9, <2>10 DEF InferenceShape, RequestRecord
  <2> QED  BY <1>9, <2>4, <2>11 DEF StoreChunk, InferenceShape
<1>10. ASSUME SwapFile PROVE InferenceShape'
  <2>1. file' \in [content: Contents, print: 0..MaxSwaps]
    BY <1>10, Constants DEF SwapFile, InferenceShape
  <2>2. request' \in RequestRecord /\ swapped' \in BOOLEAN
    BY <1>10, RestIn DEF SwapFile, InferenceShape
  <2> QED  BY <1>10, <2>1, <2>2 DEF SwapFile, InferenceShape
<1> QED  BY <1>1, <1>2, <1>3, <1>4, <1>5, <1>6, <1>7, <1>8, <1>9, <1>10 DEF InferenceNext

-----------------------------------------------------------------------------
(* The unconditional parts: signatures, and the rows of the running call.  *)

LEMMA SignaturesStep ==
    ASSUME InferenceShape, SignaturesHold, InferenceNext
    PROVE  SignaturesHold'
<1>1. /\ file.print \in Int /\ \A o \in Owners: snapshots[o].print \in Int
      /\ Never <= file.print /\ file.print <= file.print + 1
  BY Constants DEF InferenceShape, Never
<1>2. request.hashed # Never => Snapshotting
  BY DEF SignaturesHold
<1>3. \A o \in Owners: snapshots[o].print <= file.print
  BY DEF SignaturesHold
<1>4. ASSUME NEW batch \in Batches, Ask(batch) PROVE SignaturesHold'
  <2>1. request.hashed' = Never
    BY <1>4 DEF Ask, Rest
  <2> QED  BY <1>3, <1>4, <2>1 DEF Ask, SignaturesHold
<1>5. ASSUME HashAssets PROVE SignaturesHold'
  <2>1. Snapshotting'
    BY <1>5 DEF HashAssets, Snapshotting, InferenceShape, RequestRecord
  <2> QED  BY <1>3, <1>5, <2>1 DEF HashAssets, SignaturesHold
<1>6. ASSUME SignAssets PROVE SignaturesHold'
  <2>1. request.hashed' = Never
    BY <1>6 DEF SignAssets, InferenceShape, RequestRecord
  <2>2. \A o \in Owners: snapshots'[o].print <= file.print
    BY <1>1, <1>3, <1>6 DEF SignAssets, InferenceShape
  <2> QED  BY <1>6, <2>1, <2>2 DEF SignAssets, SignaturesHold
<1>7. ASSUME LookUp PROVE SignaturesHold'
  <2>1. request.hashed' = Never
    BY <1>2, <1>7 DEF LookUp, Snapshotting, InferenceShape, RequestRecord
  <2>2. \A o \in Owners: snapshots'[o].print <= file.print
    BY <1>1, <1>3, <1>7 DEF LookUp, InferenceShape, Unsigned
  <2> QED  BY <1>7, <2>1, <2>2 DEF LookUp, SignaturesHold
<1>8. ASSUME Load \/ Complete \/ FinishWindow \/ InferFails \/ StoreChunk
      PROVE  SignaturesHold'
  <2>1. request.at \in {"load", "infer"}
    BY <1>8 DEF Load, Complete, FinishWindow, InferFails, StoreChunk
  <2>2. request.hashed = Never
    BY <1>2, <2>1 DEF Snapshotting
  <2>3. request.hashed' = Never /\ UNCHANGED <<file, snapshots>>
    <3>1. CASE Load
      BY <2>2, <3>1 DEF Load, InferenceShape, RequestRecord
    <3>2. CASE Complete
      BY <2>2, <3>2 DEF Complete, InferenceShape, RequestRecord
    <3>3. CASE FinishWindow
      BY <2>2, <3>3 DEF FinishWindow, InferenceShape, RequestRecord
    <3>4. CASE InferFails
      BY <2>2, <3>4 DEF InferFails, InferenceShape, RequestRecord
    <3>5. CASE StoreChunk
      BY <2>2, <3>5 DEF StoreChunk, InferenceShape, RequestRecord
    <3> QED  BY <1>8, <3>1, <3>2, <3>3, <3>4, <3>5
  <2> QED  BY <1>3, <2>3 DEF SignaturesHold
<1>9. ASSUME SwapFile PROVE SignaturesHold'
  <2>1. file.print' = file.print + 1 /\ snapshots' = snapshots
    BY <1>9 DEF SwapFile, InferenceShape
  <2>2. \A o \in Owners: snapshots[o].print <= file.print + 1
    BY <1>1, <1>3
  <2>3. request.hashed' # Never => Snapshotting'
    BY <1>2, <1>9, RestIn DEF SwapFile, Snapshotting
  <2> QED  BY <2>1, <2>2, <2>3 DEF SignaturesHold
<1> QED  BY <1>4, <1>5, <1>6, <1>7, <1>8, <1>9 DEF InferenceNext

(* The chunk, its window and the rows depend on the queue, the rows done   *)
(* and the session alone.                                                  *)
LEMMA SameWindow ==
    ASSUME request.queue' = request.queue, request.done' = request.done, adapter' = adapter
    PROVE  Inputs' = Inputs /\ Prepared' = Prepared /\ Starts' = Starts
           /\ \A s \in Starts: Padded(s)' = Padded(s)
<1>1. Inputs' = Inputs
  BY DEF Inputs
<1>2. Window' = Window
  BY DEF Window
<1>3. Prepared' = Prepared
  BY <1>1, <1>2 DEF Prepared
<1>4. Starts' = Starts
  BY <1>3 DEF Starts
<1>5. \A s \in Starts: Padded(s)' = Padded(s)
  BY <1>3 DEF Padded, Valid
<1> QED  BY <1>1, <1>3, <1>4, <1>5

LEMMA BatchesStep ==
    ASSUME InferenceShape, BatchesHold, InferenceNext
    PROVE  BatchesHold'
<1>1. ASSUME request.at' # "infer", request.done' = <<>>, DOMAIN request.outputs' = {}
      PROVE  BatchesHold'
  BY <1>1 DEF BatchesHold
<1>2. ASSUME request.at \notin {"infer", "raised"}, request.at' \notin {"infer", "raised"},
             UNCHANGED <<request.done, request.outputs>>
      PROVE  BatchesHold'
  BY <1>2 DEF BatchesHold
<1>3. ASSUME request.at' = "raised" PROVE BatchesHold'
  BY <1>3 DEF BatchesHold
<1>4. ASSUME NEW batch \in Batches, Ask(batch) PROVE BatchesHold'
  <2>1. request.at' = "snapshot" /\ request.done' = <<>> /\ request.outputs' = <<>>
    BY <1>4 DEF Ask, Rest
  <2> QED  BY <1>1, <2>1, EmptyOutputs
<1>5. ASSUME HashAssets PROVE BatchesHold'
  <2>1. /\ request.at \notin {"infer", "raised"} /\ request.at' = request.at
        /\ UNCHANGED <<request.done, request.outputs>>
    BY <1>5 DEF HashAssets, Snapshotting, InferenceShape, RequestRecord
  <2> QED  BY <1>2, <2>1
<1>6. ASSUME SignAssets PROVE BatchesHold'
  <2>1. /\ request.at \notin {"infer", "raised"} /\ request.at' \notin {"infer", "raised"}
        /\ UNCHANGED <<request.done, request.outputs>>
    BY <1>6 DEF SignAssets, Snapshotting, InferenceShape, RequestRecord
  <2> QED  BY <1>2, <2>1
<1>7. ASSUME LookUp PROVE BatchesHold'
  <2>1. /\ request.at \notin {"infer", "raised"} /\ request.at' \notin {"infer", "raised"}
        /\ UNCHANGED <<request.done, request.outputs>>
    BY <1>7 DEF LookUp, InferenceShape, RequestRecord
  <2> QED  BY <1>2, <2>1
<1>8. ASSUME Load PROVE BatchesHold'
  <2>1. /\ request.at = "load" /\ request.at' \in {"infer", "raised"}
        /\ UNCHANGED <<request.queue, request.done, request.outputs>>
    BY <1>8 DEF Load, InferenceShape, RequestRecord
  <2>2. request.done = <<>> /\ DOMAIN request.outputs = {}
    BY <2>1 DEF BatchesHold
  <2>3. PICK e: e = request.done
    OBVIOUS
  <2>4. Len(e) = 0
    BY <2>2, <2>3, EmptySeq
  <2>5. Inputs' = Inputs
    BY <2>1 DEF Inputs
  <2>6. 0 <= Len(Inputs)
    <3>1. PICK t: t = Inputs
      OBVIOUS
    <3>2. Len(t) \in Nat
      BY <3>1, InputsIn, LenProperties
    <3> QED  BY <3>1, <3>2
  <2>7. Len(request.done') <= Len(Inputs')
    BY <2>1, <2>3, <2>4, <2>5, <2>6
  <2>8. \A p, c: AnsweredInOrder(e, p, c)
    BY <2>4 DEF AnsweredInOrder
  <2>9. AnsweredInOrder(request.done, Inputs, adapter.runs)'
    BY <2>1, <2>3, <2>4 DEF AnsweredInOrder
  <2>10. DOMAIN request.outputs' = {}
    BY <2>1, <2>2
  <2> QED  BY <1>3, <2>1, <2>7, <2>9, <2>10 DEF BatchesHold
<1>9. ASSUME Complete PROVE BatchesHold'
  <2>1. PICK s \in Starts: request' = [request EXCEPT !.outputs =
                      [t \in DOMAIN request.outputs \union {s} |->
                          IF t = s THEN Padded(s) ELSE request.outputs[t]]]
    BY <1>9 DEF Complete
  <2>2. /\ request.at = "infer" /\ request.at' = "infer" /\ adapter' = adapter
        /\ UNCHANGED <<request.queue, request.done>>
    BY <1>9, <2>1 DEF Complete, InferenceShape, RequestRecord
  <2>3. request.outputs' = [t \in DOMAIN request.outputs \union {s} |->
                              IF t = s THEN Padded(s) ELSE request.outputs[t]]
    BY <2>1 DEF InferenceShape, RequestRecord
  <2>4. /\ Len(request.done) <= Len(Inputs)
        /\ AnsweredInOrder(request.done, Inputs, adapter.runs)
        /\ DOMAIN request.outputs \subseteq Starts
        /\ \A t \in DOMAIN request.outputs: request.outputs[t] = Padded(t)
    BY <2>2 DEF BatchesHold
  <2>5. Inputs' = Inputs /\ Starts' = Starts /\ \A t \in Starts: Padded(t)' = Padded(t)
    BY <2>2, SameWindow
  <2>6. DOMAIN request.outputs' \subseteq Starts
    BY <2>3, <2>4
  <2>7. \A t \in DOMAIN request.outputs': request.outputs'[t] = Padded(t)
    BY <2>3, <2>4
  <2>8. \A t \in DOMAIN request.outputs': request.outputs'[t] = Padded(t)'
    BY <2>5, <2>6, <2>7
  <2>9. (Len(request.done) <= Len(Inputs))'
        /\ AnsweredInOrder(request.done, Inputs, adapter.runs)'
    BY <2>2, <2>4, <2>5 DEF AnsweredInOrder
  <2> QED  BY <2>2, <2>5, <2>6, <2>8, <2>9 DEF BatchesHold
<1>10. ASSUME FinishWindow PROVE BatchesHold'
  <2>1. PICK d, c, p: d = request.done /\ c = Collected /\ p = Inputs
    OBVIOUS
  <2>2. /\ request.at = "infer" /\ request.at' = "infer" /\ adapter' = adapter
        /\ request.queue' = request.queue /\ request.done' = d \o c /\ request.outputs' = <<>>
    BY <1>10, <2>1 DEF FinishWindow, InferenceShape, RequestRecord
  <2>3. Len(d) <= Len(p) /\ AnsweredInOrder(d, p, adapter.runs) /\ d \in Seq(Answer)
    BY <2>1, <2>2, CallFacts DEF BatchesHold
  <2>4. c \in Seq(Answer) /\ Len(c) = Len(Prepared)
        /\ AnsweredInOrder(c, Prepared, adapter.runs)
    BY <1>10, <2>1, CollectedIn DEF FinishWindow
  <2>5. Len(d) + Len(Prepared) <= Len(p)
        /\ \A i \in 1..Len(Prepared): Prepared[i] = p[Len(d) + i]
    BY <2>1, <2>3, PreparedIn
  <2>6. \A i \in 1..Len(c): c[i] = [of |-> p[Len(d) + i], by |-> adapter.runs]
    BY <2>4, <2>5 DEF AnsweredInOrder
  <2>7. PICK u, r: u = d \o c /\ r = adapter.runs
    OBVIOUS
  <2>8. Len(u) = Len(d) + Len(c) /\ AnsweredInOrder(u, p, r)
    BY <2>3, <2>4, <2>6, <2>7, AnsweredConcat
  <2>9. Len(u) <= Len(p)
    BY <2>4, <2>5, <2>8
  <2>10. Inputs' = p
    BY <2>1, <2>2 DEF Inputs
  <2>11. (Len(request.done) <= Len(Inputs))'
         /\ AnsweredInOrder(request.done, Inputs, adapter.runs)'
    BY <2>2, <2>7, <2>8, <2>9, <2>10 DEF AnsweredInOrder
  <2>12. DOMAIN request.outputs' = {}
    BY <2>2, EmptyOutputs
  <2> QED  BY <2>2, <2>11, <2>12 DEF BatchesHold
<1>11. ASSUME InferFails PROVE BatchesHold'
  <2>1. request.at' = "raised"
    BY <1>11 DEF InferFails, InferenceShape, RequestRecord
  <2> QED  BY <1>3, <2>1
<1>12. ASSUME StoreChunk PROVE BatchesHold'
  <2>1. /\ request.at = "infer" /\ request.at' \in {"returned", "again"}
        /\ request.done' = <<>> /\ request.outputs' = request.outputs
        /\ Len(request.done) = Len(Inputs)
    BY <1>12 DEF StoreChunk, InferenceShape, RequestRecord
  <2>2. Len(request.done) <= Len(Inputs) /\ DOMAIN request.outputs \subseteq Starts
    BY <2>1 DEF BatchesHold
  <2>3. Len(Prepared) = 0
    BY <2>1, <2>2, PreparedIn
  <2>4. Starts = {}
    BY <2>3 DEF Starts
  <2> QED  BY <1>1, <2>1, <2>2, <2>4
<1>13. ASSUME SwapFile PROVE BatchesHold'
  <2>1. CASE request.at \in {"returned", "raised"}
    <3>1. request' = Rest
      BY <1>13, <2>1 DEF SwapFile
    <3> QED  BY <1>1, <3>1, RestIn
  <2>2. CASE request.at \notin {"returned", "raised"}
    <3>1. request' = request /\ adapter' = adapter
      BY <1>13, <2>2 DEF SwapFile
    <3>2. Inputs' = Inputs /\ Starts' = Starts /\ \A t \in Starts: Padded(t)' = Padded(t)
      BY <3>1, SameWindow
    <3>3. AnsweredInOrder(request.done, Inputs, adapter.runs)'
          <=> AnsweredInOrder(request.done, Inputs, adapter.runs)
      BY <3>1, <3>2 DEF AnsweredInOrder
    <3> QED  BY <3>1, <3>2, <3>3 DEF BatchesHold
  <2> QED  BY <2>1, <2>2
<1> QED  BY <1>4, <1>5, <1>6, <1>7, <1>8, <1>9, <1>10, <1>11, <1>12, <1>13 DEF InferenceNext

-----------------------------------------------------------------------------
(* What is believed of the file, while none is replaced under a call.      *)

LEMMA ContentStep ==
    ASSUME InferenceShape, SignaturesHold, BatchesHold, ContentIsKnown, InferenceNext, ~swapped'
    PROVE  ContentIsKnown'
<1>1. /\ \A o \in Owners: Current(o) => snapshots[o].content = file.content
      /\ request.hashed \in {Never, file.content}
      /\ Asking => request.key = file.content
      /\ adapter.runs \in {Gone, adapter.trusts}
      /\ request.at \in {"load", "infer"} => adapter.trusts = file.content
      /\ request.at = "infer" => adapter.runs = file.content
      /\ cache \in Seq(GoodRows)
  BY DEF ContentIsKnown
<1>2. ASSUME UNCHANGED <<file, snapshots>>
      PROVE  \A o \in Owners: Current(o)' => snapshots'[o].content = file'.content
  BY <1>1, <1>2 DEF Current
<1>3. ASSUME NEW batch \in Batches, Ask(batch) PROVE ContentIsKnown'
  <2>1. request.at' = "snapshot" /\ request.hashed' = Never
        /\ UNCHANGED <<file, snapshots, adapter, cache>>
    BY <1>3 DEF Ask, Rest
  <2>2. ~Asking'
    BY <2>1 DEF Asking
  <2> QED  BY <1>1, <1>2, <2>1, <2>2 DEF ContentIsKnown
<1>4. ASSUME HashAssets PROVE ContentIsKnown'
  <2>1. /\ request.at' = request.at /\ request.key' = request.key
        /\ request.hashed' = IF Current(request.owner) THEN snapshots[request.owner].content
                             ELSE file.content
        /\ request.at \notin {"load", "infer"}
        /\ UNCHANGED <<file, snapshots, adapter, cache>>
    BY <1>4 DEF HashAssets, Snapshotting, InferenceShape, RequestRecord
  <2>2. request.hashed' = file.content
    BY <1>1, <2>1, CallFacts
  <2>3. Asking' => request.key' = file.content'
    BY <1>1, <2>1 DEF Asking
  <2> QED  BY <1>1, <1>2, <2>1, <2>2, <2>3 DEF ContentIsKnown
<1>5. ASSUME SignAssets PROVE ContentIsKnown'
  <2>1. request.hashed = file.content /\ request.owner \in Owners
    BY <1>1, <1>5, CallFacts DEF SignAssets
  <2>2. request.hashed' = Never /\ UNCHANGED <<file, cache>>
    BY <1>5 DEF SignAssets, InferenceShape, RequestRecord
  <2>3. \A o \in Owners: Current(o)' => snapshots'[o].content = file'.content
    <3> SUFFICES ASSUME NEW o \in Owners, Current(o)' PROVE snapshots'[o].content = file.content
      BY <2>2
    <3>1. CASE o = request.owner
      BY <1>5, <2>1, <3>1 DEF SignAssets, InferenceShape
    <3>2. CASE o # request.owner
      <4>1. snapshots'[o] = snapshots[o]
        BY <1>5, <2>1, <3>2 DEF SignAssets, InferenceShape
      <4>2. Current(o)
        BY <2>2, <4>1 DEF Current
      <4> QED  BY <1>1, <4>1, <4>2
    <3> QED  BY <3>1, <3>2
  <2>4. CASE request.at = "snapshot"
    <3>1. request.at' = "lookup" /\ request.key' = request.hashed /\ adapter' = adapter
      BY <1>5, <2>4 DEF SignAssets, InferenceShape, RequestRecord
    <3> QED  BY <1>1, <2>1, <2>2, <2>3, <3>1 DEF ContentIsKnown
  <2>5. CASE request.at = "adapter"
    <3>1. /\ request.at' = "again" /\ request.key' = request.key
          /\ adapter'.runs = Gone
      BY <1>5, <2>5 DEF SignAssets, InferenceShape, RequestRecord, Unmade
    <3>2. request.key = file.content
      BY <1>1, <2>5 DEF Asking
    <3> QED  BY <1>1, <2>2, <2>3, <3>1, <3>2 DEF ContentIsKnown
  <2>6. CASE request.at = "again"
    <3>1. request.at' = "load" /\ request.key' = request.key
      BY <1>5, <2>6 DEF SignAssets, InferenceShape, RequestRecord
    <3>2. adapter'.trusts = file.content /\ adapter'.runs \in {Gone, adapter'.trusts}
      BY <1>1, <1>5, <2>1, <2>6 DEF SignAssets, InferenceShape
    <3>3. request.key = file.content
      BY <1>1, <2>6 DEF Asking
    <3> QED  BY <1>1, <2>2, <2>3, <3>1, <3>2, <3>3 DEF ContentIsKnown
  <2> QED  BY <1>5, <2>4, <2>5, <2>6 DEF SignAssets
<1>6. ASSUME LookUp PROVE ContentIsKnown'
  <2>1. /\ request.at = "lookup" /\ request.at' \notin {"load", "infer"}
        /\ request.key' = request.key /\ request.hashed' = request.hashed
        /\ file' = file
    BY <1>6 DEF LookUp, InferenceShape, RequestRecord
  <2>2. request.key = file.content
    BY <1>1, <2>1 DEF Asking
  <2>3. adapter'.runs \in {Gone, adapter'.trusts}
    BY <1>1, <1>6 DEF LookUp, Unmade
  <2>4. cache' \in Seq(GoodRows)
    BY <1>1, <1>6, LookedUp
  <2>5. \A o \in Owners: Current(o)' => snapshots'[o].content = file'.content
    <3> SUFFICES ASSUME NEW o \in Owners, Current(o)' PROVE snapshots'[o].content = file.content
      BY <2>1
    <3>1. snapshots'[o] \in {snapshots[o], Unsigned}
      BY <1>6 DEF LookUp, InferenceShape
    <3>2. snapshots'[o] # Unsigned
      BY <2>1 DEF Current, Unsigned
    <3>3. Current(o)
      BY <2>1, <3>1, <3>2 DEF Current
    <3> QED  BY <1>1, <3>1, <3>2, <3>3
  <2> QED  BY <1>1, <2>1, <2>2, <2>3, <2>4, <2>5 DEF ContentIsKnown
<1>7. ASSUME Load PROVE ContentIsKnown'
  <2>1. /\ request.at = "load" /\ request.at' \in {"infer", "raised"}
        /\ request.key' = request.key /\ request.hashed' = request.hashed
        /\ UNCHANGED <<file, snapshots, cache>>
    BY <1>7 DEF Load, InferenceShape, RequestRecord
  <2>2. request.key = file.content /\ adapter.trusts = file.content
    BY <1>1, <2>1 DEF Asking
  <2>3. adapter'.trusts = adapter.trusts /\ adapter'.runs \in {Gone, file.content}
        /\ (request.at' = "infer" => adapter'.runs = file.content)
    BY <1>1, <1>7, <2>2 DEF Load, InferenceShape, RequestRecord
  <2> QED  BY <1>1, <1>2, <2>1, <2>2, <2>3 DEF ContentIsKnown
<1>8. ASSUME Complete \/ FinishWindow \/ InferFails PROVE ContentIsKnown'
  <2>1. /\ request.at = "infer" /\ request.at' \in {"infer", "raised"}
        /\ request.key' = request.key /\ request.hashed' = request.hashed
        /\ UNCHANGED <<file, snapshots, adapter, cache>>
    <3>1. CASE Complete
      BY <3>1 DEF Complete, InferenceShape, RequestRecord
    <3>2. CASE FinishWindow
      BY <3>2 DEF FinishWindow, InferenceShape, RequestRecord
    <3>3. CASE InferFails
      BY <3>3 DEF InferFails, InferenceShape, RequestRecord
    <3> QED  BY <1>8, <3>1, <3>2, <3>3
  <2> QED  BY <1>1, <1>2, <2>1 DEF ContentIsKnown, Asking
<1>9. ASSUME StoreChunk PROVE ContentIsKnown'
  <2>1. /\ request.at = "infer" /\ request.at' \in {"returned", "again"}
        /\ request.key' = request.key /\ request.hashed' = request.hashed
        /\ UNCHANGED <<file, snapshots, adapter>> /\ Len(request.done) = Len(Inputs)
    BY <1>9 DEF StoreChunk, InferenceShape, RequestRecord
  <2>2. request.key = file.content /\ adapter.runs = file.content
    BY <1>1, <2>1 DEF Asking
  <2>3. AnsweredInOrder(request.done, Inputs, adapter.runs)
    BY <2>1 DEF BatchesHold
  <2>4. \A i \in 1..Len(Inputs):
            [key |-> request.key, picture |-> Inputs[i], answer |-> request.done[i]] \in GoodRows
    <3> SUFFICES ASSUME NEW i \in 1..Len(Inputs)
                 PROVE  [key |-> request.key, picture |-> Inputs[i],
                         answer |-> request.done[i]] \in GoodRows
      OBVIOUS
    <3>1. PICK p: p = Inputs[i]
      OBVIOUS
    <3>2. p \in Pictures
      BY <3>1, InputsIn, ElementOfSeq
    <3>3. request.done[i] = [of |-> p, by |-> request.key]
      BY <2>1, <2>2, <2>3, <3>1 DEF AnsweredInOrder
    <3> QED  BY <3>1, <3>2, <3>3, CallFacts DEF GoodRows
  <2>5. cache' \in Seq(GoodRows)
    BY <1>1, <1>9, <2>4, StoreStays
  <2> QED  BY <1>1, <1>2, <2>1, <2>2, <2>5 DEF ContentIsKnown, Asking
<1>10. ASSUME SwapFile PROVE ContentIsKnown'
  <2>1. request.at \in {"idle", "returned", "raised"}
    BY <1>10 DEF SwapFile
  <2>2. request.hashed = Never
    BY <2>1 DEF SignaturesHold, Snapshotting
  <2>3. request.at' = "idle" /\ request.hashed' = Never
        /\ UNCHANGED <<snapshots, adapter, cache>>
    BY <1>10, <2>1, <2>2, RestIn DEF SwapFile
  <2>4. file'.print = file.print + 1
    BY <1>10 DEF SwapFile
  <2>5. \A o \in Owners: ~Current(o)'
    <3>1. \A o \in Owners: snapshots[o].print <= file.print
      BY DEF SignaturesHold
    <3>2. file.print \in Int /\ \A o \in Owners: snapshots[o].print \in Int
      BY Constants DEF InferenceShape, Never
    <3>3. \A o \in Owners: snapshots'[o].print # file'.print
      BY <2>3, <2>4, <3>1, <3>2
    <3> QED  BY <3>3 DEF Current
  <2> QED  BY <1>1, <2>3, <2>5 DEF ContentIsKnown, Asking
<1> QED  BY <1>3, <1>4, <1>5, <1>6, <1>7, <1>8, <1>9, <1>10 DEF InferenceNext

-----------------------------------------------------------------------------
(* Every preview is answered, and each by its own answer.                  *)

LEMMA GoodAnswer ==
    ASSUME NEW rows \in Seq(GoodRows), NEW key, NEW p, Hit(rows, key, p)
    PROVE  Kept(rows, key, p).answer = [of |-> p, by |-> key]
<1>1. PICK row: row = Kept(rows, key, p)
  OBVIOUS
<1>2. row \in GoodRows /\ row.key = key /\ row.picture = p
  BY <1>1, KeptRow
<1>3. row.answer = [of |-> row.picture, by |-> row.key]
  BY <1>2 DEF GoodRows
<1> QED  BY <1>1, <1>2, <1>3

LEMMA LossStep ==
    ASSUME InferenceShape, SignaturesHold, BatchesHold, ContentIsKnown, NothingIsLost,
           InferenceNext, ~swapped'
    PROVE  NothingIsLost'
<1> DEFINE Answering == {"adapter", "again", "load", "infer", "returned"}
<1>1. ASSUME request.at' \notin Answering PROVE NothingIsLost'
  BY <1>1 DEF NothingIsLost
<1>2. ASSUME request.at \in Answering, request.at' \in Answering, request.at' # "returned",
             UNCHANGED <<file, request.inputs, request.queue, request.found>>
      PROVE  NothingIsLost'
  BY <1>2 DEF NothingIsLost
<1>3. ASSUME NEW batch \in Batches, Ask(batch) PROVE NothingIsLost'
  <2>1. request.at' = "snapshot"
    BY <1>3 DEF Ask, Rest
  <2> QED  BY <1>1, <2>1
<1>4. ASSUME HashAssets PROVE NothingIsLost'
  <2>1. /\ request.at \in {"snapshot", "adapter", "again"} /\ request.at' = request.at
        /\ UNCHANGED <<file, request.inputs, request.queue, request.found>>
    BY <1>4 DEF HashAssets, Snapshotting, InferenceShape, RequestRecord
  <2> QED  BY <1>1, <1>2, <2>1
<1>5. ASSUME SignAssets PROVE NothingIsLost'
  <2>1. /\ \/ request.at = "snapshot" /\ request.at' = "lookup"
           \/ request.at \in {"adapter", "again"} /\ request.at' \in {"again", "load"}
        /\ UNCHANGED <<file, request.inputs, request.queue, request.found>>
    BY <1>5 DEF SignAssets, Snapshotting, InferenceShape, RequestRecord
  <2> QED  BY <1>1, <1>2, <2>1
<1>6. ASSUME LookUp PROVE NothingIsLost'
  <2>1. PICK key, inputs, q, A: /\ key = request.key /\ inputs = request.inputs
                                /\ q = request.queue' /\ A = Asked(inputs)
    OBVIOUS
  <2>2. cache \in Seq(GoodRows) /\ key = file.content
    BY <1>6, <2>1 DEF ContentIsKnown, Asking, LookUp
  <2>3. PICK rows \in Seq(GoodRows):
           /\ \A i \in DOMAIN inputs: Hit(rows, key, inputs[i]) \/ inputs[i] \in Asked(q)
           /\ request.found' = {[picture |-> inputs[i], answer |-> Kept(rows, key, inputs[i]).answer]:
                                   i \in {i \in DOMAIN inputs: Hit(rows, key, inputs[i])}}
    BY <1>6, <2>1, <2>2, LookedUp
  <2>4. q \in Seq(A) /\ (request.at' = "returned" => q = <<>>)
    BY <1>6, <2>1, <2>2, LookedUp
  <2>5. request.inputs' = inputs /\ file' = file
    BY <1>6, <2>1 DEF LookUp, InferenceShape, RequestRecord
  <2>6. ASSUME NEW i \in DOMAIN inputs, Hit(rows, key, inputs[i])
        PROVE  [picture |-> inputs[i], answer |-> Kept(rows, key, inputs[i]).answer]
               = [picture |-> inputs[i], answer |-> [of |-> inputs[i], by |-> key]]
    <3>1. PICK p: p = inputs[i]
      OBVIOUS
    <3>2. Kept(rows, key, p).answer = [of |-> p, by |-> key]
      BY <2>6, <3>1, GoodAnswer
    <3> QED  BY <3>1, <3>2
  <2>7. request.found' \subseteq OwnAnswers(A, key)
    <3> SUFFICES ASSUME NEW x \in request.found' PROVE x \in OwnAnswers(A, key)
      OBVIOUS
    <3>1. PICK i \in DOMAIN inputs:
             /\ Hit(rows, key, inputs[i])
             /\ x = [picture |-> inputs[i], answer |-> Kept(rows, key, inputs[i]).answer]
      BY <2>3
    <3>2. PICK p: p = inputs[i]
      OBVIOUS
    <3>3. p \in A
      BY <2>1, <3>2 DEF Asked
    <3>4. x = [picture |-> p, answer |-> [of |-> p, by |-> key]]
      BY <2>6, <3>1, <3>2
    <3> QED  BY <3>3, <3>4 DEF OwnAnswers
  <2>8. ASSUME NEW p \in A \ Asked(q)
        PROVE  [picture |-> p, answer |-> [of |-> p, by |-> key]] \in request.found'
    <3>1. PICK i \in DOMAIN inputs: p = inputs[i]
      BY <2>1 DEF Asked
    <3>2. Hit(rows, key, inputs[i])
      BY <2>3, <2>8, <3>1
    <3> QED  BY <2>3, <2>6, <3>1, <3>2
  <2>9. OwnAnswers(A \ Asked(q), key) \subseteq request.found'
    BY <2>8 DEF OwnAnswers
  <2> QED  BY <2>1, <2>2, <2>4, <2>5, <2>7, <2>9 DEF NothingIsLost
<1>7. ASSUME Load PROVE NothingIsLost'
  <2>1. /\ request.at = "load" /\ request.at' \in {"infer", "raised"}
        /\ UNCHANGED <<file, request.inputs, request.queue, request.found>>
    BY <1>7 DEF Load, InferenceShape, RequestRecord
  <2> QED  BY <1>1, <1>2, <2>1
<1>8. ASSUME Complete \/ FinishWindow \/ InferFails PROVE NothingIsLost'
  <2>1. /\ request.at = "infer" /\ request.at' \in {"infer", "raised"}
        /\ UNCHANGED <<file, request.inputs, request.queue, request.found>>
    <3>1. CASE Complete
      BY <3>1 DEF Complete, InferenceShape, RequestRecord
    <3>2. CASE FinishWindow
      BY <3>2 DEF FinishWindow, InferenceShape, RequestRecord
    <3>3. CASE InferFails
      BY <3>3 DEF InferFails, InferenceShape, RequestRecord
    <3> QED  BY <1>8, <3>1, <3>2, <3>3
  <2> QED  BY <1>1, <1>2, <2>1
<1>9. ASSUME StoreChunk PROVE NothingIsLost'
  <2>1. PICK A, c, q, t: /\ A = Asked(request.inputs) /\ c = file.content
                         /\ q = Asked(request.queue) /\ t = Asked(Inputs)
    OBVIOUS
  <2>2. PICK l: l = request.queue'
    OBVIOUS
  <2>3. request.at = "infer"
    BY <1>9 DEF StoreChunk
  <2>4. /\ request.queue \in Seq(A) /\ request.found \subseteq OwnAnswers(A, c)
        /\ OwnAnswers(A \ q, c) \subseteq request.found
    BY <2>1, <2>3 DEF NothingIsLost
  <2>5. /\ l \in Seq(A) /\ q \subseteq t \union Asked(l) /\ t \subseteq q
        /\ (request.at' = "returned" => l = <<>>)
    BY <1>9, <2>1, <2>2, <2>4, LeftIn
  <2>6. q \subseteq A
    <3>1. PICK s: s = request.queue
      OBVIOUS
    <3>2. \A i \in DOMAIN s: s[i] \in A
      BY <2>4, <3>1, LenProperties, ElementOfSeq
    <3> QED  BY <2>1, <3>1, <3>2 DEF Asked
  <2>7. /\ request.inputs' = request.inputs /\ file' = file
        /\ request.found' = request.found \union
              {[picture |-> Inputs[i], answer |-> request.done[i]]: i \in DOMAIN Inputs}
        /\ Len(request.done) = Len(Inputs)
    BY <1>9 DEF StoreChunk, InferenceShape, RequestRecord
  <2>8. AnsweredInOrder(request.done, Inputs, c)
    BY <2>1, <2>3 DEF BatchesHold, ContentIsKnown
  <2>9. \A i \in DOMAIN Inputs: request.done[i] = [of |-> Inputs[i], by |-> c]
    <3>1. DOMAIN Inputs = 1..Len(Inputs)
      BY InputsIn, LenProperties
    <3> QED  BY <2>7, <2>8, <3>1 DEF AnsweredInOrder
  <2>10. request.found' = request.found \union OwnAnswers(t, c)
    <3>1. {[picture |-> Inputs[i], answer |-> request.done[i]]: i \in DOMAIN Inputs}
          = {[picture |-> Inputs[i], answer |-> [of |-> Inputs[i], by |-> c]]: i \in DOMAIN Inputs}
      BY <2>9
    <3>2. {[picture |-> Inputs[i], answer |-> [of |-> Inputs[i], by |-> c]]: i \in DOMAIN Inputs}
          = OwnAnswers(t, c)
      BY <2>1 DEF OwnAnswers, Asked
    <3> QED  BY <2>7, <3>1, <3>2
  <2>11. OwnAnswers(t, c) \subseteq OwnAnswers(A, c)
    BY <2>5, <2>6 DEF OwnAnswers
  <2>12. OwnAnswers(A \ Asked(l), c) \subseteq OwnAnswers(A \ q, c) \union OwnAnswers(t, c)
    BY <2>5 DEF OwnAnswers
  <2>13. request.found' \subseteq OwnAnswers(A, c)
         /\ OwnAnswers(A \ Asked(l), c) \subseteq request.found'
    BY <2>4, <2>10, <2>11, <2>12
  <2> QED  BY <2>1, <2>2, <2>5, <2>7, <2>13 DEF NothingIsLost
<1>10. ASSUME SwapFile PROVE NothingIsLost'
  <2>1. request.at' = "idle"
    BY <1>10, RestIn DEF SwapFile
  <2> QED  BY <1>1, <2>1
<1> QED  BY <1>3, <1>4, <1>5, <1>6, <1>7, <1>8, <1>9, <1>10 DEF InferenceNext

-----------------------------------------------------------------------------
LEMMA InferenceInvariantInit == InferenceInit => InferenceInvariant
<1> SUFFICES ASSUME InferenceInit PROVE InferenceInvariant
  OBVIOUS
<1>1. /\ request.at = "idle" /\ request.hashed = Never /\ request.done = <<>>
      /\ DOMAIN request.outputs = {}
  BY RestIn DEF InferenceInit
<1>2. \A o \in Owners: snapshots[o].print = Never /\ Never <= file.print /\ ~Current(o)
  BY Constants DEF InferenceInit, Unsigned, Current, Never
<1>3. SignaturesHold
  BY <1>1, <1>2 DEF SignaturesHold
<1>4. BatchesHold
  BY <1>1 DEF BatchesHold
<1>5. cache \in Seq(GoodRows)
  BY EmptySeq DEF InferenceInit
<1>6. ContentIsKnown
  BY <1>1, <1>2, <1>5 DEF ContentIsKnown, Asking, InferenceInit, Unmade
<1>7. NothingIsLost
  BY <1>1 DEF NothingIsLost
<1> QED  BY <1>3, <1>4, <1>6, <1>7, InferenceShapeInit DEF InferenceInvariant

LEMMA InferenceInvariantStep ==
    InferenceInvariant /\ [InferenceNext]_inferenceVars => InferenceInvariant'
<1> SUFFICES ASSUME InferenceInvariant, [InferenceNext]_inferenceVars PROVE InferenceInvariant'
  OBVIOUS
<1>1. InferenceShape /\ SignaturesHold /\ BatchesHold
      /\ (~swapped => ContentIsKnown /\ NothingIsLost)
  BY DEF InferenceInvariant
<1>2. CASE InferenceNext
  <2>1. InferenceShape' /\ SignaturesHold' /\ BatchesHold'
    BY <1>1, <1>2, InferenceShapeStep, SignaturesStep, BatchesStep
  <2>2. ~swapped' => ~swapped
    BY <1>2 DEF InferenceNext, Ask, HashAssets, SignAssets, LookUp, Load, Complete, FinishWindow,
                InferFails, StoreChunk, SwapFile
  <2>3. ~swapped' => ContentIsKnown' /\ NothingIsLost'
    BY <1>1, <1>2, <2>2, ContentStep, LossStep
  <2> QED  BY <2>1, <2>3 DEF InferenceInvariant
<1>3. CASE UNCHANGED inferenceVars
  <2>1. UNCHANGED <<file, snapshots, adapter, keyed, cache, request, swapped, calls, broken>>
    BY <1>3 DEF inferenceVars
  <2>2. Inputs' = Inputs /\ Starts' = Starts /\ \A s \in Starts: Padded(s)' = Padded(s)
    BY <2>1, SameWindow
  <2>3. InferenceShape'
    BY <1>1, <2>1 DEF InferenceShape
  <2>4. SignaturesHold'
    BY <1>1, <2>1 DEF SignaturesHold, Snapshotting
  <2>5. BatchesHold'
    BY <1>1, <2>1, <2>2 DEF BatchesHold, AnsweredInOrder
  <2>6. ContentIsKnown' <=> ContentIsKnown
    BY <2>1 DEF ContentIsKnown, Current, Asking
  <2>7. NothingIsLost' <=> NothingIsLost
    BY <2>1 DEF NothingIsLost
  <2> QED  BY <1>1, <2>1, <2>3, <2>4, <2>5, <2>6, <2>7 DEF InferenceInvariant
<1> QED  BY <1>2, <1>3

(* The inductive invariant holds in every state.                           *)
THEOREM InferenceHolds == InferenceSpec => []InferenceInvariant
<1>1. InferenceInvariant /\ [InferenceNext]_inferenceVars => InferenceInvariant'
  BY InferenceInvariantStep
<1> QED  BY <1>1, InferenceInvariantInit, PTL DEF InferenceSpec

(* Every variable of the client, its adapter and its cache stays of its    *)
(* type, and the cache within its capacity, whatever the batches, the      *)
(* chunk and the capacity are.                                             *)
THEOREM InferenceTypeCorrect == InferenceSpec => []InferenceTypeOK
<1>1. InferenceInvariant => InferenceTypeOK
  <2> SUFFICES ASSUME InferenceShape PROVE InferenceTypeOK
    BY DEF InferenceInvariant
  <2> QED  BY CallFacts DEF InferenceShape, InferenceTypeOK, InferenceStates, AnswerRow
<1> QED  BY <1>1, InferenceHolds, PTL

(* As long as no file is replaced under a running call, a call returns for *)
(* every preview the answer for that preview by the model that lies there, *)
(* and nothing else: for every set of previews, cache, chunk and batch.    *)
THEOREM AnswersAreTheirs == InferenceSpec => []AnswersBelong
<1>1. InferenceInvariant => AnswersBelong
  <2> SUFFICES ASSUME InferenceInvariant, request.at = "returned", ~swapped
               PROVE  request.found = {[picture |-> p, answer |-> [of |-> p, by |-> file.content]]:
                            p \in {request.inputs[i]: i \in DOMAIN request.inputs}}
    BY DEF AnswersBelong
  <2>1. /\ request.found \subseteq OwnAnswers(Asked(request.inputs), file.content)
        /\ OwnAnswers(Asked(request.inputs) \ Asked(request.queue), file.content)
              \subseteq request.found
        /\ request.queue = <<>>
    BY DEF InferenceInvariant, NothingIsLost
  <2>2. Asked(request.queue) = {}
    BY <2>1, EmptyOutputs DEF Asked
  <2>3. request.found = OwnAnswers(Asked(request.inputs), file.content)
    BY <2>1, <2>2
  <2> QED  BY <2>3 DEF OwnAnswers, Asked
<1> QED  BY <1>1, InferenceHolds, PTL

-----------------------------------------------------------------------------
(* Reading a list of arguments, one after another.                         *)

(* The reader of an argument list: the entrypoint's two, and argparse.     *)
Reading(reader, s, token) ==
    CASE reader.is = "run" -> RunStep(s, token)
      [] reader.is = "option" -> OptionStep(s, token, reader.known, reader.wanted, reader.lenient)
      [] OTHER -> ParseStep(reader.spec, s, token)
ReadAlong(at, reader, start, rest) ==
    at = [i \in 0..Len(rest) |-> IF i = 0 THEN start ELSE Reading(reader, at[i - 1], rest[i])]

(* Whoever reads, and whatever is read, it can be read to the end.         *)
LEMMA ReadsToTheEnd ==
    ASSUME NEW reader, NEW start, NEW rest, Len(rest) \in Nat
    PROVE  \E at: ReadAlong(at, reader, start, rest)
<1> DEFINE n == Len(rest)
           Upto(m, f) == f = [i \in 0..m |-> IF i = 0 THEN start ELSE Reading(reader, f[i - 1], rest[i])]
           P == {m \in 0..n: \E f: Upto(m, f)}
<1>1. \E f: Upto(0, f)
  <2>1. PICK f: f = [i \in 0..0 |-> start]
    OBVIOUS
  <2>2. f = [i \in 0..0 |-> IF i = 0 THEN start ELSE Reading(reader, f[i - 1], rest[i])]
    BY <2>1
  <2> QED  BY <2>2
<1>2. ASSUME NEW m \in 1..n, NEW f, Upto(m - 1, f) PROVE \E g: Upto(m, g)
  <2> DEFINE g == [i \in 0..m |-> IF i = m THEN Reading(reader, f[m - 1], rest[m]) ELSE f[i]]
  <2>1. \A i \in 0..m: i # m => i \in 0..m - 1 /\ g[i] = f[i]
    OBVIOUS
  <2>2. g[m] = Reading(reader, f[m - 1], rest[m])
    OBVIOUS
  <2>3. \A i \in 1..m: i - 1 \in 0..m /\ i - 1 # m /\ g[i - 1] = f[i - 1]
    BY <2>1
  <2>4. \A i \in 0..m - 1: f[i] = IF i = 0 THEN start ELSE Reading(reader, f[i - 1], rest[i])
    BY <1>2
  <2> HIDE DEF g
  <2>5. \A i \in 0..m: g[i] = IF i = 0 THEN start ELSE Reading(reader, g[i - 1], rest[i])
    BY <2>1, <2>2, <2>3, <2>4
  <2>6. g = [i \in 0..m |-> g[i]]
    BY DEF g
  <2>7. [i \in 0..m |-> g[i]]
           = [i \in 0..m |-> IF i = 0 THEN start ELSE Reading(reader, g[i - 1], rest[i])]
    BY <2>5
  <2> QED  BY <2>6, <2>7
<1> HIDE DEF Upto
<1>3. 0 \in P /\ \A m \in 1..n: m - 1 \in P => m \in P
  BY <1>1, <1>2
<1>4. n \in P
  <2>1. n \in Nat
    OBVIOUS
  <2> HIDE DEF P, n
  <2>2. \A i \in 0..n: i \in P
    BY <1>3, <2>1, SetInduction
  <2> QED  BY <2>1, <2>2
<1> QED  BY <1>4 DEF Upto, ReadAlong

RunReader == [is |-> "run"]
OptionReader(known, wanted, lenient) ==
    [is |-> "option", known |-> known, wanted |-> wanted, lenient |-> lenient]
Parser(spec) == [is |-> "parse", spec |-> spec]

(* The entrypoint's search through the arguments of `run' is such a        *)
(* reading.                                                                *)
LEMMA RunIsRead ==
    ASSUME NEW rest, Len(rest) \in Nat
    PROVE  \E at: ReadAlong(at, RunReader, Looking, rest) /\ RunLooked(rest) = at[Len(rest)]
<1> DEFINE Along(f) == f = [i \in 0..Len(rest) |-> IF i = 0 THEN Looking ELSE RunStep(f[i - 1], rest[i])]
           at == CHOOSE f: Along(f)
<1>1. \A f: ReadAlong(f, RunReader, Looking, rest) <=> Along(f)
  BY DEF ReadAlong, RunReader, Reading
<1> HIDE DEF Along
<1>2. Along(at)
  BY <1>1, ReadsToTheEnd
<1>3. RunLooked(rest) = at[Len(rest)]
  BY DEF RunLooked, at, Along
<1> HIDE DEF at
<1> QED  BY <1>1, <1>2, <1>3

(* So is its search for the value of one option.                           *)
LEMMA OptionIsRead ==
    ASSUME NEW rest, Len(rest) \in Nat, NEW known, NEW wanted, NEW lenient
    PROVE  \E at: /\ ReadAlong(at, OptionReader(known, wanted, lenient), Looking, rest)
                  /\ OptionLooked(rest, known, wanted, lenient) = at[Len(rest)]
<1> DEFINE Along(f) == f = [i \in 0..Len(rest) |->
                              IF i = 0 THEN Looking
                              ELSE OptionStep(f[i - 1], rest[i], known, wanted, lenient)]
           at == CHOOSE f: Along(f)
<1>1. \A f: ReadAlong(f, OptionReader(known, wanted, lenient), Looking, rest) <=> Along(f)
  BY DEF ReadAlong, OptionReader, Reading
<1> HIDE DEF Along
<1>2. Along(at)
  BY <1>1, ReadsToTheEnd
<1>3. OptionLooked(rest, known, wanted, lenient) = at[Len(rest)]
  BY DEF OptionLooked, at, Along
<1> HIDE DEF at
<1> QED  BY <1>1, <1>2, <1>3

(* And so is what argparse does with the list.                             *)
LEMMA ParseIsRead ==
    ASSUME NEW rest, Len(rest) \in Nat, NEW spec
    PROVE  \E at: ReadAlong(at, Parser(spec), Parsing, rest) /\ Parse(spec, rest) = at[Len(rest)]
<1> DEFINE Along(f) == f = [i \in 0..Len(rest) |->
                              IF i = 0 THEN Parsing ELSE ParseStep(spec, f[i - 1], rest[i])]
           at == CHOOSE f: Along(f)
<1>1. \A f: ReadAlong(f, Parser(spec), Parsing, rest) <=> Along(f)
  BY DEF ReadAlong, Parser, Reading
<1> HIDE DEF Along
<1>2. Along(at)
  BY <1>1, ReadsToTheEnd
<1>3. Parse(spec, rest) = at[Len(rest)]
  BY DEF Parse, at, Along
<1> HIDE DEF at
<1> QED  BY <1>1, <1>2, <1>3

-----------------------------------------------------------------------------
(* What a search and the command's parser have in common.                  *)
Texts == STRING \union {Unset, "odd", "word", "--dir", "--input-dir", "--work-dir"}
LookStates == [at: {"look", "value", "last", "found", "bad"}, help: BOOLEAN, name: Texts, dir: Texts]
Given == UNION {[D -> Texts]: D \in SUBSET Texts}
ParseStates == [want: 0..3, rest: BOOLEAN, ended: BOOLEAN, name: Texts, got: Given]

\* What a parser that took a value has got, and what it had before.
Took(p, name, text, q) ==
    /\ q \in ParseStates
    /\ q.want = 0 /\ q.rest = p.rest /\ q.ended = p.ended /\ q.name = p.name
    /\ DOMAIN q.got = DOMAIN p.got \union {name}
    /\ \A n \in DOMAIN q.got: q.got[n] = IF n = name THEN text ELSE p.got[n]

(* A value that the parser keeps stands under its name; every other value  *)
(* stays what it was.                                                      *)
LEMMA KeepsTakes ==
    ASSUME NEW p \in ParseStates, NEW name \in Texts, NEW text \in Texts
    PROVE  Took(p, name, text, Keeps(p, name, text))
<1> DEFINE D == DOMAIN p.got \union {name}
           g == [n \in D |-> IF n = name THEN text ELSE p.got[n]]
<1>1. D \in SUBSET Texts /\ \A n \in DOMAIN p.got: p.got[n] \in Texts
  BY DEF ParseStates, Given
<1>2. g \in [D -> Texts]
  BY <1>1
<1>3. g \in Given
  BY <1>1, <1>2 DEF Given
<1>4. DOMAIN g = D /\ \A n \in D: g[n] = IF n = name THEN text ELSE p.got[n]
  OBVIOUS
<1>5. Keeps(p, name, text) = [p EXCEPT !.want = 0, !.got = g]
  BY DEF Keeps
<1> HIDE DEF g
<1>6. Keeps(p, name, text) = [want |-> 0, rest |-> p.rest, ended |-> p.ended, name |-> p.name, got |-> g]
  BY <1>5 DEF ParseStates
<1> QED  BY <1>3, <1>4, <1>6 DEF ParseStates, Took

(* Whatever an argument consists of is a text, and it is of one of the     *)
(* five kinds.                                                             *)
LEMMA TokenTexts ==
    ASSUME NEW token \in Tokens
    PROVE  /\ TextOf(token) \in Texts
           /\ Is(token, "word") => token.value \in Texts /\ TextOf(token) = token.value
           /\ Is(token, "opt") => token.name \in Texts
           /\ Is(token, "eq") => token.name \in Texts /\ token.value \in Texts
           /\ \E kind \in {"word", "opt", "eq", "help", "end"}: Is(token, kind)
  BY DEF TextOf, Is, Tokens, Texts

(* The parser's small updates, for sets of field values left open.         *)
LEMMA ParseRecords ==
    ASSUME NEW W, NEW B, NEW N, NEW G, NEW p \in [want: W, rest: B, ended: B, name: N, got: G],
           NEW w \in W, NEW n \in N, NEW r \in B
    PROVE  /\ [p EXCEPT !.want = w] \in [want: W, rest: B, ended: B, name: N, got: G]
           /\ [p EXCEPT !.ended = r] \in [want: W, rest: B, ended: B, name: N, got: G]
           /\ [p EXCEPT !.want = w, !.rest = r] \in [want: W, rest: B, ended: B, name: N, got: G]
           /\ [p EXCEPT !.want = w, !.name = n] \in [want: W, rest: B, ended: B, name: N, got: G]
<1>1. [p EXCEPT !.want = w] \in [want: W, rest: B, ended: B, name: N, got: G]
  OBVIOUS
<1>2. [p EXCEPT !.ended = r] \in [want: W, rest: B, ended: B, name: N, got: G]
  OBVIOUS
<1>3. [p EXCEPT !.want = w, !.rest = r] \in [want: W, rest: B, ended: B, name: N, got: G]
  BY Zenon
<1>4. [p EXCEPT !.want = w, !.name = n] \in [want: W, rest: B, ended: B, name: N, got: G]
  BY Zenon
<1> QED  BY <1>1, <1>2, <1>3, <1>4, Zenon

(* The parser stays in its states.                                         *)
LEMMA ParseStays ==
    ASSUME NEW spec, spec.words \in Nat, NEW p \in ParseStates, NEW token \in Tokens
    PROVE  ParseStep(spec, p, token) \in ParseStates
<1>1. Unset \in Texts /\ "odd" \in Texts /\ "word" \in Texts
  BY DEF Texts
<1>2. TextOf(token) \in Texts /\ p.name \in Texts
  BY TokenTexts DEF ParseStates
<1>3. Is(token, "eq") => token.name \in Texts /\ token.value \in Texts
  BY TokenTexts
<1>4. Is(token, "opt") => token.name \in Texts
  BY TokenTexts
<1>5. Keeps(p, p.name, TextOf(token)) \in ParseStates /\ Keeps(p, "word", TextOf(token)) \in ParseStates
  BY <1>1, <1>2, KeepsTakes DEF Took
<1>6. Is(token, "eq") => Keeps(p, token.name, token.value) \in ParseStates
  BY <1>3, KeepsTakes DEF Took
<1>7. 0 \in 0..3 /\ 1 \in 0..3 /\ 2 \in 0..3 /\ 3 \in 0..3 /\ TRUE \in BOOLEAN
  OBVIOUS
<1>8. p \in [want: 0..3, rest: BOOLEAN, ended: BOOLEAN, name: Texts, got: Given]
  BY DEF ParseStates
<1>9. \A w \in 0..3: [p EXCEPT !.want = w] \in ParseStates
  BY <1>7, <1>8, <1>2, ParseRecords, Zenon DEF ParseStates
<1>10. [p EXCEPT !.ended = TRUE] \in ParseStates
  BY <1>7, <1>8, <1>2, ParseRecords, Zenon DEF ParseStates
<1>11. [p EXCEPT !.want = 0, !.rest = TRUE] \in ParseStates
  BY <1>7, <1>8, <1>2, ParseRecords, Zenon DEF ParseStates
<1>12. \A n \in Texts: [p EXCEPT !.want = 1, !.name = n] \in ParseStates
  BY <1>7, <1>8, ParseRecords, Zenon DEF ParseStates
<1> HIDE <1>8
<1> QED  BY <1>4, <1>5, <1>6, <1>7, <1>9, <1>10, <1>11, <1>12 DEF ParseStep

(* So do both searches.                                                    *)
LEMMA LookStays ==
    ASSUME NEW s \in LookStates, NEW token \in Tokens
    PROVE  /\ RunStep(s, token) \in LookStates
           /\ \A known, wanted, lenient: OptionStep(s, token, known, wanted, lenient) \in LookStates
<1>1. TextOf(token) \in Texts /\ s.name \in Texts
  BY TokenTexts DEF LookStates
<1>2. (Is(token, "eq") => token.name \in Texts /\ token.value \in Texts)
      /\ (Is(token, "opt") => token.name \in Texts) /\ (Is(token, "word") => token.value \in Texts)
  BY TokenTexts
<1>3. /\ \A t \in Texts: FoundDir(s, t) \in LookStates
      /\ Badly(s) \in LookStates /\ [s EXCEPT !.help = TRUE] \in LookStates
      /\ \A a \in {"look", "value", "last"}: [s EXCEPT !.at = a] \in LookStates
      /\ \A n \in Texts: [s EXCEPT !.at = "value", !.name = n] \in LookStates
      /\ \A t \in Texts: [s EXCEPT !.at = "look", !.dir = t] \in LookStates
  BY DEF FoundDir, Badly, LookStates
<1>4. \A name, wanted: \A t \in Texts: Named(s, name, t, wanted) \in LookStates
  BY <1>3 DEF Named
<1>5. RunStep(s, token) \in LookStates
  BY <1>1, <1>2, <1>3 DEF RunStep
<1>6. \A known, wanted, lenient: OptionStep(s, token, known, wanted, lenient) \in LookStates
  BY <1>1, <1>2, <1>3, <1>4 DEF OptionStep
<1> QED  BY <1>5, <1>6

\* As long as neither search nor parser has failed, what the search found is
\* what the parser got.
InStep(s, p, wanted) ==
    \/ s.at = "bad"
    \/ p.ended
    \/ /\ s.at \in {"look", "value"} /\ ~s.help
       /\ p.rest => p.want = 0
       /\ s.at = "value" => p.want = 1 /\ p.name = s.name /\ ~p.rest
       /\ s.at = "look" /\ p.want = 1 => p.name # wanted
       /\ wanted \in DOMAIN p.got => p.got[wanted] = s.dir

(* An option's value reaches both.                                         *)
LEMMA BothTake ==
    ASSUME NEW s \in LookStates, NEW p \in ParseStates, NEW wanted \in Texts,
           NEW name \in Texts, NEW text \in Texts,
           ~p.ended, ~s.help, wanted \in DOMAIN p.got => p.got[wanted] = s.dir,
           p.rest => p.want = 0
    PROVE  InStep(Named(s, name, text, wanted), Keeps(p, name, text), wanted)
<1> DEFINE q == Keeps(p, name, text)
           t == Named(s, name, text, wanted)
<1>q. Took(p, name, text, q)
  BY KeepsTakes
<1> HIDE DEF q
<1>1. /\ q.want = 0 /\ q.rest = p.rest /\ q.ended = p.ended
      /\ DOMAIN q.got = DOMAIN p.got \union {name}
      /\ \A n \in DOMAIN q.got: q.got[n] = IF n = name THEN text ELSE p.got[n]
  BY <1>q DEF Took
<1>2. CASE name # wanted
  <2>1. t.at = "look" /\ t.help = s.help /\ t.dir = s.dir
    BY <1>2 DEF Named, LookStates
  <2>2. wanted \in DOMAIN q.got => q.got[wanted] = s.dir
    BY <1>1, <1>2
  <2> HIDE DEF t
  <2> QED  BY <1>1, <2>1, <2>2 DEF InStep, q, t
<1>3. CASE name = wanted /\ s.dir # Unset
  <2>1. t.at = "bad"
    BY <1>3 DEF Named, Badly, LookStates
  <2> QED  BY <2>1 DEF InStep
<1>4. CASE name = wanted /\ s.dir = Unset
  <2>1. t.at = "look" /\ t.help = s.help /\ t.dir = text
    BY <1>4 DEF Named, LookStates
  <2>2. q.got[wanted] = text
    BY <1>1, <1>4
  <2> HIDE DEF t
  <2> QED  BY <1>1, <2>1, <2>2 DEF InStep, q, t
<1> QED  BY <1>2, <1>3, <1>4

(* One argument of a command with options keeps search and parser in step: *)
(* if the search takes no fault at it, the parser stops or takes the same  *)
(* value.                                                                  *)
LEMMA OptionInStep ==
    ASSUME NEW s \in LookStates, NEW p \in ParseStates, NEW token \in Tokens,
           NEW spec, spec.words = 0, spec.valued \cap (spec.many \union spec.flags) = {},
           NEW known, known \subseteq spec.valued,
           NEW wanted \in known \cap Texts, NEW lenient, InStep(s, p, wanted)
    PROVE  InStep(OptionStep(s, token, known, wanted, lenient), ParseStep(spec, p, token), wanted)
<1> DEFINE t == OptionStep(s, token, known, wanted, lenient)
           q == ParseStep(spec, p, token)
<1>1. CASE p.ended
  BY <1>1 DEF ParseStep, InStep
<1>2. CASE s.at = "bad"
  BY <1>2 DEF OptionStep, InStep
<1>3. CASE ~p.ended /\ s.at = "value"
  <2>1. p.want = 1 /\ p.name = s.name /\ ~p.rest /\ ~s.help
        /\ (wanted \in DOMAIN p.got => p.got[wanted] = s.dir)
    BY <1>3 DEF InStep
  <2>2. CASE ~Is(token, "word")
    <3>1. t.at = "bad"
      BY <1>3, <2>2 DEF OptionStep, Badly, LookStates
    <3> QED  BY <3>1 DEF InStep
  <2>3. CASE Is(token, "word")
    <3>1. token.value \in Texts /\ TextOf(token) = token.value /\ s.name \in Texts
      BY <2>3, TokenTexts DEF LookStates
    <3>2. t = Named(s, s.name, token.value, wanted)
      BY <1>3, <2>3 DEF OptionStep
    <3>3. q = Keeps(p, s.name, token.value)
      BY <1>3, <2>1, <2>3, <3>1 DEF ParseStep
    <3> QED  BY <1>3, <2>1, <3>1, <3>2, <3>3, BothTake
  <2> QED  BY <2>2, <2>3
<1>4. CASE ~p.ended /\ s.at = "look"
  <2>1. ~s.help /\ (p.rest => p.want = 0) /\ (p.want = 1 => p.name # wanted)
        /\ (wanted \in DOMAIN p.got => p.got[wanted] = s.dir)
    BY <1>4 DEF InStep
  <2>2. p.want \in 0..3 /\ p.name \in Texts
    BY DEF ParseStates
  <2>e. [p EXCEPT !.ended = TRUE].ended
    BY DEF ParseStates
  \* The parser takes something that is not the option in question.
  <2>k. ASSUME NEW name \in Texts, name # wanted, NEW text \in Texts, t = s \/ t.at = "bad",
               q = Keeps(p, name, text)
        PROVE  InStep(t, q, wanted)
    <3>1. /\ q.want = 0 /\ q.rest = p.rest /\ q.ended = p.ended
          /\ DOMAIN q.got = DOMAIN p.got \union {name}
          /\ \A n \in DOMAIN q.got: q.got[n] = IF n = name THEN text ELSE p.got[n]
      <4> HIDE DEF t, q
      <4>1. Took(p, name, text, q)
        BY <2>k, KeepsTakes
      <4> QED  BY <4>1 DEF Took
    <3>2. wanted \in DOMAIN q.got => q.got[wanted] = s.dir
      BY <2>1, <2>k, <3>1
    <3> HIDE DEF t, q
    <3> QED  BY <1>4, <2>1, <2>k, <3>1, <3>2 DEF InStep
  <2>w. ASSUME t = s \/ t.at = "bad", q.ended = p.ended, q.got = p.got, q.rest => q.want = 0,
               q.want = 1 => q.name # wanted
        PROVE  InStep(t, q, wanted)
    <3> HIDE DEF t, q
    <3> QED  BY <1>4, <2>1, <2>w DEF InStep
  <2>3. CASE Is(token, "word")
    <3>1. t = s \/ t.at = "bad"
      BY <1>4, <2>3 DEF OptionStep, Badly, LookStates, Is
    <3>2. CASE p.want = 1
      <4>1. q = Keeps(p, p.name, TextOf(token))
        BY <1>4, <2>3, <3>2 DEF ParseStep
      <4>2. TextOf(token) \in Texts
        BY TokenTexts
      <4> QED  BY <2>1, <2>2, <2>k, <3>1, <3>2, <4>1, <4>2
    <3>3. CASE p.want >= 2
      <4>1. q = [p EXCEPT !.want = 3]
        BY <1>4, <2>3, <3>3, <2>2 DEF ParseStep
      <4>2. q.ended = p.ended /\ q.got = p.got /\ q.rest = p.rest /\ q.want = 3
        BY <4>1 DEF ParseStates
      <4> QED  BY <2>1, <2>w, <3>1, <3>3, <4>2
    <3>4. CASE p.want = 0
      <4>1. q = [p EXCEPT !.ended = TRUE]
        BY <1>4, <2>3, <3>4 DEF ParseStep
      <4> QED  BY <2>e, <4>1 DEF InStep
    <3> QED  BY <2>2, <3>2, <3>3, <3>4
  <2>4. CASE ~Is(token, "word") /\ (p.rest \/ p.want \in {1, 2})
    <3>1. q = [p EXCEPT !.ended = TRUE]
      BY <1>4, <2>1, <2>4 DEF ParseStep
    <3> QED  BY <2>e, <3>1 DEF InStep
  <2>5. CASE ~Is(token, "word") /\ ~p.rest /\ p.want \notin {1, 2}
    <3>1. CASE Is(token, "help")
      <4>1. q = [p EXCEPT !.ended = TRUE]
        BY <1>4, <2>5, <3>1 DEF ParseStep, Is
      <4> QED  BY <2>e, <4>1 DEF InStep
    <3>2. CASE Is(token, "end")
      <4>1. t = s \/ t.at = "bad"
        BY <1>4, <3>2 DEF OptionStep, Badly, LookStates, Is
      <4>2. q = [p EXCEPT !.want = 0, !.rest = TRUE]
        BY <1>4, <2>5, <3>2 DEF ParseStep, Is
      <4>3. q.ended = p.ended /\ q.got = p.got /\ q.want = 0
        BY <4>2 DEF ParseStates
      <4> QED  BY <2>w, <4>1, <4>3
    <3>3. CASE Is(token, "opt")
      <4>1. token.name \in Texts
        BY <3>3, TokenTexts
      <4>2. CASE token.name \in known
        <5>1. t = [s EXCEPT !.at = "value", !.name = token.name]
          BY <1>4, <3>3, <4>2 DEF OptionStep, Is
        <5>2. t.at = "value" /\ t.name = token.name /\ t.help = s.help /\ t.dir = s.dir
          BY <5>1 DEF LookStates
        <5>v. token.name \in spec.valued /\ token.name \notin spec.many /\ token.name \notin spec.flags
          BY <4>2
        <5>3. q = [p EXCEPT !.want = 1, !.name = token.name]
          BY <1>4, <2>5, <3>3, <5>v DEF ParseStep, Is
        <5>4. q.want = 1 /\ q.name = token.name /\ q.rest = p.rest /\ q.got = p.got /\ q.ended = p.ended
          BY <5>3 DEF ParseStates
        <5>5. ~t.help /\ ~q.rest /\ (wanted \in DOMAIN q.got => q.got[wanted] = t.dir)
          BY <2>1, <2>5, <5>2, <5>4
        <5>6. InStep(t, q, wanted)
          <6> HIDE DEF t, q
          <6> QED  BY <2>5, <5>2, <5>4, <5>5 DEF InStep
        <5> QED  BY <5>6
      <4>3. CASE token.name \notin known
        <5>1. t = s \/ t.at = "bad"
          BY <1>4, <3>3, <4>3 DEF OptionStep, Badly, LookStates, Is
        <5>2. q \in {[p EXCEPT !.want = 1, !.name = token.name], [p EXCEPT !.want = 2],
                     [p EXCEPT !.want = 0], [p EXCEPT !.ended = TRUE]}
          BY <1>4, <2>5, <3>3 DEF ParseStep, Is
        <5>3. CASE q = [p EXCEPT !.ended = TRUE]
          BY <2>e, <5>3 DEF InStep
        <5>4. CASE q \in {[p EXCEPT !.want = 2], [p EXCEPT !.want = 0]}
          <6>1. q.ended = p.ended /\ q.got = p.got /\ q.rest = p.rest /\ q.want \in {0, 2}
            BY <5>4 DEF ParseStates
          <6> QED  BY <2>5, <2>w, <5>1, <6>1
        <5>5. CASE q = [p EXCEPT !.want = 1, !.name = token.name]
          <6>1. q.want = 1 /\ q.name = token.name /\ q.rest = p.rest /\ q.got = p.got /\ q.ended = p.ended
            BY <5>5 DEF ParseStates
          <6>2. token.name # wanted
            BY <4>3
          <6> QED  BY <2>5, <2>w, <5>1, <6>1, <6>2
        <5> QED  BY <5>2, <5>3, <5>4, <5>5
      <4> QED  BY <4>2, <4>3
    <3>4. CASE Is(token, "eq")
      <4>1. token.name \in Texts /\ token.value \in Texts
        BY <3>4, TokenTexts
      <4>2. CASE token.name \in known /\ token.value = Unset
        <5>1. t.at = "bad"
          BY <1>4, <3>4, <4>2 DEF OptionStep, Is, Badly, LookStates
        <5> QED  BY <5>1 DEF InStep
      <4>3. CASE token.name \in known /\ token.value # Unset
        <5>1. t = Named(s, token.name, token.value, wanted)
          BY <1>4, <3>4, <4>3 DEF OptionStep, Is
        <5>2. q = Keeps(p, token.name, token.value)
          <6>1. token.name \in spec.valued /\ token.name \notin spec.many
            BY <4>3
          <6> QED  BY <1>4, <2>5, <3>4, <6>1 DEF ParseStep, Is
        <5> QED  BY <1>4, <2>1, <4>1, <5>1, <5>2, BothTake
      <4>4. CASE token.name \notin known
        <5>1. t = s \/ t.at = "bad"
          BY <1>4, <3>4, <4>4 DEF OptionStep, Badly, LookStates, Is
        <5>2. q \in {Keeps(p, token.name, token.value), [p EXCEPT !.want = 0], [p EXCEPT !.ended = TRUE]}
          BY <1>4, <2>5, <3>4 DEF ParseStep, Is
        <5>3. CASE q = [p EXCEPT !.ended = TRUE]
          BY <2>e, <5>3 DEF InStep
        <5>4. CASE q = [p EXCEPT !.want = 0]
          <6>1. q.ended = p.ended /\ q.got = p.got /\ q.rest = p.rest /\ q.want = 0
            BY <5>4 DEF ParseStates
          <6> QED  BY <2>w, <5>1, <6>1
        <5>5. CASE q = Keeps(p, token.name, token.value)
          <6>1. token.name # wanted
            BY <4>4
          <6> QED  BY <2>k, <4>1, <5>1, <5>5, <6>1
        <5> QED  BY <5>2, <5>3, <5>4, <5>5
      <4> QED  BY <4>2, <4>3, <4>4
    <3> QED  BY <2>5, <3>1, <3>2, <3>3, <3>4, TokenTexts
  <2> QED  BY <2>3, <2>4, <2>5
<1>5. s.at \in {"look", "value"} \/ p.ended \/ s.at = "bad"
  BY DEF InStep
<1> QED  BY <1>1, <1>2, <1>3, <1>4, <1>5

\* The same for `run', whose directory is the command's only word.
RunInStep(s, p) ==
    \/ s.at = "bad"
    \/ p.ended
    \/ /\ ~s.help /\ p.want \in {0, 1}
       /\ p.rest => p.want = 0
       /\ p.want = 1 => p.name # "word"
       /\ s.at = "look" => p.want = 0 /\ ~p.rest
       /\ s.at = "value" => p.want = 1 /\ ~p.rest
       /\ s.at = "last" => p.rest
       /\ s.at # "found" => "word" \notin DOMAIN p.got
       /\ s.at = "found" => "word" \in DOMAIN p.got /\ p.got["word"] = s.dir

(* One argument of `run' keeps its search in step with its parser.         *)
LEMMA RunStaysInStep ==
    ASSUME NEW s \in LookStates, NEW p \in ParseStates, NEW token \in Tokens,
           NEW spec, spec.words = 1, spec.valued = RunValued, spec.flags = RunFlags, spec.many = {},
           RunInStep(s, p)
    PROVE  RunInStep(RunStep(s, token), ParseStep(spec, p, token))
<1> DEFINE t == RunStep(s, token)
           q == ParseStep(spec, p, token)
<1>1. CASE p.ended
  BY <1>1 DEF ParseStep, RunInStep
<1>2. CASE s.at = "bad"
  BY <1>2 DEF RunStep, RunInStep
<1>3. CASE ~p.ended /\ s.at # "bad"
  <2>1. /\ ~s.help /\ p.want \in {0, 1}
        /\ p.rest => p.want = 0
        /\ p.want = 1 => p.name # "word"
        /\ s.at = "look" => p.want = 0 /\ ~p.rest
        /\ s.at = "value" => p.want = 1 /\ ~p.rest
        /\ s.at = "last" => p.rest
        /\ s.at # "found" => "word" \notin DOMAIN p.got
        /\ s.at = "found" => "word" \in DOMAIN p.got /\ p.got["word"] = s.dir
    BY <1>3 DEF RunInStep
  <2>2. p.name \in Texts /\ "word" \in Texts /\ TextOf(token) \in Texts
    BY TokenTexts DEF ParseStates, Texts
  <2>e. [p EXCEPT !.ended = TRUE].ended
    BY DEF ParseStates
  \* The only word: what the search found, and what the parser got.
  <2>f. ASSUME s.at # "found", t = FoundDir(s, TextOf(token)), q = Keeps(p, "word", TextOf(token))
        PROVE  RunInStep(t, q)
    <3>1. t.at = "found" /\ t.dir = TextOf(token) /\ t.help = s.help
      BY <2>f DEF FoundDir, LookStates
    <3>2. Took(p, "word", TextOf(token), q)
      BY <2>f, <2>2, KeepsTakes
    <3>3. q.want = 0 /\ "word" \in DOMAIN q.got /\ q.got["word"] = TextOf(token)
      BY <3>2 DEF Took
    <3> HIDE DEF t, q
    <3> QED  BY <2>1, <3>1, <3>3 DEF RunInStep
  \* The value of another option.
  <2>v. ASSUME NEW name \in Texts, name # "word", NEW text \in Texts,
               (t.at \in {s.at, "bad"} \/ t.at = "look"),
               t.at = "bad" \/ (t.help = s.help /\ t.dir = s.dir),
               s.at = "found" <=> t.at = "found", t.at # "value", t.at = "last" => p.rest, t.at = "look" => ~p.rest,
               q = Keeps(p, name, text)
        PROVE  RunInStep(t, q)
    <3>1. Took(p, name, text, q)
      BY <2>2, <2>v, KeepsTakes
    <3>2. q.want = 0 /\ q.rest = p.rest
          /\ ("word" \in DOMAIN q.got <=> "word" \in DOMAIN p.got)
          /\ ("word" \in DOMAIN q.got => q.got["word"] = p.got["word"])
      BY <2>v, <3>1 DEF Took
    <3> HIDE DEF t, q
    <3> QED  BY <2>1, <2>v, <3>2 DEF RunInStep
  <2>3. CASE s.at = "last"
    <3>1. t = FoundDir(s, TextOf(token))
      BY <2>3 DEF RunStep
    <3>2. q = Keeps(p, "word", TextOf(token))
      BY <1>3, <2>1, <2>3 DEF ParseStep
    <3> QED  BY <2>3, <2>f, <3>1, <3>2
  <2>4. CASE s.at = "value"
    <3>1. CASE ~Is(token, "word")
      <4>1. t.at = "bad"
        BY <2>4, <3>1 DEF RunStep, Badly, LookStates
      <4> QED  BY <4>1 DEF RunInStep
    <3>2. CASE Is(token, "word")
      <4>1. t = [s EXCEPT !.at = "look"]
        BY <2>4, <3>2 DEF RunStep
      <4>2. t.at = "look" /\ t.help = s.help /\ t.dir = s.dir
        BY <4>1 DEF LookStates
      <4>3. q = Keeps(p, p.name, TextOf(token))
        BY <1>3, <2>1, <2>4, <3>2 DEF ParseStep
      <4> QED  BY <2>1, <2>2, <2>4, <2>v, <4>2, <4>3
    <3> QED  BY <3>1, <3>2
  <2>5. CASE s.at \in {"look", "found"} /\ p.want = 0 /\ p.rest
    <3>1. s.at = "found"
      BY <2>1, <2>5
    <3>2. q = [p EXCEPT !.ended = TRUE]
      BY <1>3, <2>1, <2>5, <3>1 DEF ParseStep
    <3> QED  BY <2>e, <3>2 DEF RunInStep
  <2>6. CASE s.at = "found" /\ p.want = 1
    <3>1. t = s
      BY <2>6 DEF RunStep
    <3>2. CASE ~Is(token, "word")
      <4>1. q = [p EXCEPT !.ended = TRUE]
        BY <1>3, <2>1, <2>6, <3>2 DEF ParseStep
      <4> QED  BY <2>e, <4>1 DEF RunInStep
    <3>3. CASE Is(token, "word")
      <4>1. q = Keeps(p, p.name, TextOf(token))
        BY <1>3, <2>6, <3>3 DEF ParseStep
      <4> QED  BY <2>1, <2>2, <2>6, <2>v, <3>1, <4>1
    <3> QED  BY <3>2, <3>3
  <2>7. CASE s.at \in {"look", "found"} /\ p.want = 0 /\ ~p.rest
    <3>1. CASE Is(token, "word")
      <4>1. CASE s.at = "found"
        <5>1. q = [p EXCEPT !.ended = TRUE]
          BY <1>3, <2>1, <2>7, <3>1, <4>1 DEF ParseStep
        <5> QED  BY <2>e, <5>1 DEF RunInStep
      <4>2. CASE s.at = "look"
        <5>1. t = FoundDir(s, TextOf(token))
          BY <3>1, <4>2 DEF RunStep, TextOf, Is
        <5>2. q = Keeps(p, "word", TextOf(token))
          BY <1>3, <2>1, <2>7, <3>1, <4>2 DEF ParseStep
        <5> QED  BY <2>f, <4>2, <5>1, <5>2
      <4> QED  BY <2>7, <4>1, <4>2
    <3>2. CASE Is(token, "help")
      <4>1. q = [p EXCEPT !.ended = TRUE]
        BY <1>3, <2>7, <3>2 DEF ParseStep, Is
      <4> QED  BY <2>e, <4>1 DEF RunInStep
    <3>3. CASE Is(token, "end")
      <4>1. q = [p EXCEPT !.want = 0, !.rest = TRUE]
        BY <1>3, <2>7, <3>3 DEF ParseStep, Is
      <4>2. q.want = 0 /\ q.rest /\ q.got = p.got
        BY <4>1 DEF ParseStates
      <4>3. t.help = s.help /\ t.dir = s.dir /\ t.at = (IF s.at = "look" THEN "last" ELSE "found")
        BY <2>7, <3>3 DEF RunStep, Is, LookStates
      <4>4. RunInStep(t, q)
        <5> HIDE DEF t, q
        <5> QED  BY <2>1, <2>7, <4>2, <4>3 DEF RunInStep
      <4> QED  BY <4>4
    <3>4. CASE Is(token, "opt")
      <4>1. token.name \in Texts
        BY <3>4, TokenTexts
      <4>2. CASE token.name \in RunValued
        <5>1. token.name # "word" /\ token.name \notin RunFlags
          BY <4>2 DEF RunValued, RunFlags
        <5>2. q = [p EXCEPT !.want = 1, !.name = token.name]
          BY <1>3, <2>7, <3>4, <4>2, <5>1 DEF ParseStep, Is
        <5>3. q.want = 1 /\ q.name = token.name /\ q.rest = p.rest /\ q.got = p.got
          BY <5>2 DEF ParseStates
        <5>4. t.help = s.help /\ t.dir = s.dir /\ t.at = (IF s.at = "look" THEN "value" ELSE "found")
          BY <2>7, <3>4, <4>2, <5>1 DEF RunStep, Is, LookStates
        <5>5. RunInStep(t, q)
          <6> HIDE DEF t, q
          <6> QED  BY <2>1, <2>7, <5>1, <5>3, <5>4 DEF RunInStep
        <5> QED  BY <5>5
      <4>3. CASE token.name \in RunFlags
        <5>1. token.name \notin RunValued
          BY <4>3 DEF RunValued, RunFlags
        <5>2. q = [p EXCEPT !.want = 0]
          BY <1>3, <2>7, <3>4, <4>3, <5>1 DEF ParseStep, Is
        <5>3. q.want = 0 /\ q.rest = p.rest /\ q.got = p.got
          BY <5>2 DEF ParseStates
        <5>4. t = s
          BY <2>7, <3>4, <4>3, <5>1 DEF RunStep, Is
        <5>5. RunInStep(t, q)
          <6> HIDE DEF t, q
          <6> QED  BY <2>1, <2>7, <5>3, <5>4 DEF RunInStep
        <5> QED  BY <5>5
      <4>4. CASE token.name \notin RunValued \union RunFlags
        <5>1. q = [p EXCEPT !.ended = TRUE]
          BY <1>3, <2>7, <3>4, <4>4 DEF ParseStep, Is
        <5> QED  BY <2>e, <5>1 DEF RunInStep
      <4> QED  BY <4>2, <4>3, <4>4
    <3>5. CASE Is(token, "eq")
      <4>1. token.name \in Texts /\ token.value \in Texts
        BY <3>5, TokenTexts
      <4>2. CASE token.name \in RunValued
        <5>1. q = Keeps(p, token.name, token.value)
          BY <1>3, <2>7, <3>5, <4>2 DEF ParseStep, Is
        <5>2. token.name # "word"
          BY <4>2 DEF RunValued
        <5>3. t = s \/ (t.at = "bad" /\ s.at = "look")
          BY <2>7, <3>5, <4>2 DEF RunStep, Is, Badly, LookStates
        <5>4. CASE t = s
          BY <2>1, <2>7, <2>v, <4>1, <5>1, <5>2, <5>4
        <5>5. CASE t.at = "bad"
          BY <5>5 DEF RunInStep
        <5> QED  BY <5>3, <5>4, <5>5
      <4>3. CASE token.name \notin RunValued
        <5>1. q = [p EXCEPT !.ended = TRUE]
          BY <1>3, <2>7, <3>5, <4>3 DEF ParseStep, Is
        <5> QED  BY <2>e, <5>1 DEF RunInStep
      <4> QED  BY <4>2, <4>3
    <3> QED  BY <3>1, <3>2, <3>3, <3>4, <3>5, TokenTexts
  <2>8. s.at \in {"look", "value", "last", "found"}
    BY <1>3 DEF LookStates
  <2> QED  BY <2>1, <2>3, <2>4, <2>5, <2>6, <2>7, <2>8
<1> QED  BY <1>1, <1>2, <1>3

-----------------------------------------------------------------------------
(* Both read the whole list: if the search has taken no fault at it and    *)
(* the parser accepts it, they have the same directory.                    *)
LEMMA OptionsAgree ==
    ASSUME NEW rest \in Seq(Tokens), NEW spec, spec.words = 0,
           spec.valued \cap (spec.many \union spec.flags) = {},
           NEW known, known \subseteq spec.valued, NEW wanted \in known \cap Texts, NEW lenient,
           ByOption(rest, known, wanted, lenient).status # "bad",
           ~Parse(spec, rest).ended, wanted \in DOMAIN Parse(spec, rest).got
    PROVE  ByOption(rest, known, wanted, lenient) =
              [status |-> "found", dir |-> Parse(spec, rest).got[wanted]]
<1> DEFINE n == Len(rest)
           looks == OptionReader(known, wanted, lenient)
<1>1. n \in Nat /\ \A i \in 1..n: rest[i] \in Tokens
  BY LenProperties, ElementOfSeq
<1>2. PICK s: ReadAlong(s, looks, Looking, rest) /\ OptionLooked(rest, known, wanted, lenient) = s[n]
  BY <1>1, OptionIsRead
<1>3. PICK p: ReadAlong(p, Parser(spec), Parsing, rest) /\ Parse(spec, rest) = p[n]
  BY <1>1, ParseIsRead
<1>4. /\ s[0] = Looking /\ p[0] = Parsing
      /\ \A i \in 1..n: s[i] = OptionStep(s[i - 1], rest[i], known, wanted, lenient)
      /\ \A i \in 1..n: p[i] = ParseStep(spec, p[i - 1], rest[i])
  <2>1. s = [i \in 0..n |-> IF i = 0 THEN Looking ELSE Reading(looks, s[i - 1], rest[i])]
    BY <1>2 DEF ReadAlong
  <2>2. p = [i \in 0..n |-> IF i = 0 THEN Parsing ELSE Reading(Parser(spec), p[i - 1], rest[i])]
    BY <1>3 DEF ReadAlong
  <2>3. \A t, token: /\ Reading(looks, t, token) = OptionStep(t, token, known, wanted, lenient)
                     /\ Reading(Parser(spec), t, token) = ParseStep(spec, t, token)
    BY DEF Reading, OptionReader, Parser
  <2> HIDE DEF looks
  <2>4. \A i \in 1..n: i \in 0..n /\ i # 0
    BY <1>1
  <2>5. \A i \in 1..n: s[i] = Reading(looks, s[i - 1], rest[i])
    BY <2>1, <2>4
  <2>6. \A i \in 1..n: p[i] = Reading(Parser(spec), p[i - 1], rest[i])
    BY <2>2, <2>4
  <2>7. s[0] = Looking /\ p[0] = Parsing
    BY <1>1, <2>1, <2>2
  <2> QED  BY <2>3, <2>5, <2>6, <2>7, Zenon
<1> DEFINE P == {i \in 0..n: s[i] \in LookStates /\ p[i] \in ParseStates /\ InStep(s[i], p[i], wanted)}
<1>5. 0 \in P
  <2>1. Looking \in LookStates
    BY DEF Looking, LookStates, Texts
  <2>2. [m \in {} |-> Unset] \in Given
    <3>1. [m \in {} |-> Unset] \in [{} -> Texts]
      OBVIOUS
    <3> QED  BY <3>1 DEF Given
  <2>3. Parsing \in ParseStates
    BY <2>2 DEF Parsing, ParseStates, Texts
  <2>4. InStep(Looking, Parsing, wanted)
    BY DEF InStep, Looking, Parsing
  <2> QED  BY <1>1, <1>4, <2>1, <2>3, <2>4
<1>6. ASSUME NEW i \in 1..n, i - 1 \in P PROVE i \in P
  <2>1. s[i - 1] \in LookStates /\ p[i - 1] \in ParseStates /\ InStep(s[i - 1], p[i - 1], wanted)
    BY <1>6
  <2>2. rest[i] \in Tokens /\ spec.words \in Nat
    BY <1>1
  <2>3. s[i] \in LookStates
    BY <1>4, <2>1, <2>2, LookStays
  <2>4. p[i] \in ParseStates
    BY <1>4, <2>1, <2>2, ParseStays
  <2>5. InStep(s[i], p[i], wanted)
    BY <1>4, <2>1, <2>2, OptionInStep
  <2> QED  BY <1>1, <2>3, <2>4, <2>5
<1>7. s[n] \in LookStates /\ p[n] \in ParseStates /\ InStep(s[n], p[n], wanted)
  <2> HIDE DEF P, n
  <2>1. \A i \in 0..n: i \in P
    BY <1>1, <1>5, <1>6, SetInduction
  <2>2. n \in P
    BY <1>1, <2>1
  <2> QED  BY <2>2 DEF P
<1>8. Settled(s[n]).status # "bad" /\ ~p[n].ended /\ wanted \in DOMAIN p[n].got
      /\ ByOption(rest, known, wanted, lenient) = Settled(s[n])
  BY <1>2, <1>3 DEF ByOption
<1>9. s[n].at = "look" /\ s[n].dir # Unset
  BY <1>7, <1>8 DEF InStep, Settled
<1>10. s[n].dir = p[n].got[wanted]
  BY <1>7, <1>8, <1>9 DEF InStep
<1> QED  BY <1>3, <1>8, <1>9, <1>10 DEF Settled

(* For `run': if the search has read the list without a fault and the      *)
(* parser accepts it, both have found the same word.                       *)
LEMMA RunsAgree ==
    ASSUME NEW rest \in Seq(Tokens), NEW spec,
           spec.words = 1, spec.valued = RunValued, spec.flags = RunFlags, spec.many = {},
           Settled(RunLooked(rest)).status # "bad",
           ~Parse(spec, rest).ended, "word" \in DOMAIN Parse(spec, rest).got
    PROVE  Settled(RunLooked(rest)) = [status |-> "found", dir |-> Parse(spec, rest).got["word"]]
<1> DEFINE n == Len(rest)
<1>1. n \in Nat /\ \A i \in 1..n: rest[i] \in Tokens
  BY LenProperties, ElementOfSeq
<1>2. PICK s: ReadAlong(s, RunReader, Looking, rest) /\ RunLooked(rest) = s[n]
  BY <1>1, RunIsRead
<1>3. PICK p: ReadAlong(p, Parser(spec), Parsing, rest) /\ Parse(spec, rest) = p[n]
  BY <1>1, ParseIsRead
<1>4. /\ s[0] = Looking /\ p[0] = Parsing
      /\ \A i \in 1..n: s[i] = RunStep(s[i - 1], rest[i])
      /\ \A i \in 1..n: p[i] = ParseStep(spec, p[i - 1], rest[i])
  <2>1. s = [i \in 0..n |-> IF i = 0 THEN Looking ELSE Reading(RunReader, s[i - 1], rest[i])]
    BY <1>2 DEF ReadAlong
  <2>2. p = [i \in 0..n |-> IF i = 0 THEN Parsing ELSE Reading(Parser(spec), p[i - 1], rest[i])]
    BY <1>3 DEF ReadAlong
  <2>3. \A t, token: /\ Reading(RunReader, t, token) = RunStep(t, token)
                     /\ Reading(Parser(spec), t, token) = ParseStep(spec, t, token)
    BY DEF Reading, RunReader, Parser
  <2>4. \A i \in 1..n: i \in 0..n /\ i # 0
    BY <1>1
  <2>5. \A i \in 1..n: s[i] = Reading(RunReader, s[i - 1], rest[i])
    BY <2>1, <2>4
  <2>6. \A i \in 1..n: p[i] = Reading(Parser(spec), p[i - 1], rest[i])
    BY <2>2, <2>4
  <2>7. s[0] = Looking /\ p[0] = Parsing
    BY <1>1, <2>1, <2>2
  <2> QED  BY <2>3, <2>5, <2>6, <2>7, Zenon
<1> DEFINE P == {i \in 0..n: s[i] \in LookStates /\ p[i] \in ParseStates /\ RunInStep(s[i], p[i])}
<1>5. 0 \in P
  <2>1. Looking \in LookStates
    BY DEF Looking, LookStates, Texts
  <2>2. [m \in {} |-> Unset] \in Given
    <3>1. [m \in {} |-> Unset] \in [{} -> Texts]
      OBVIOUS
    <3> QED  BY <3>1 DEF Given
  <2>3. Parsing \in ParseStates
    BY <2>2 DEF Parsing, ParseStates, Texts
  <2>4. RunInStep(Looking, Parsing)
    BY DEF RunInStep, Looking, Parsing
  <2> QED  BY <1>1, <1>4, <2>1, <2>3, <2>4
<1>6. ASSUME NEW i \in 1..n, i - 1 \in P PROVE i \in P
  <2>1. s[i - 1] \in LookStates /\ p[i - 1] \in ParseStates /\ RunInStep(s[i - 1], p[i - 1])
    BY <1>6
  <2>2. rest[i] \in Tokens /\ spec.words \in Nat
    BY <1>1
  <2>3. s[i] \in LookStates
    BY <1>4, <2>1, <2>2, LookStays
  <2>4. p[i] \in ParseStates
    BY <1>4, <2>1, <2>2, ParseStays
  <2>5. RunInStep(s[i], p[i])
    BY <1>4, <2>1, <2>2, RunStaysInStep
  <2> QED  BY <1>1, <2>3, <2>4, <2>5
<1>7. s[n] \in LookStates /\ p[n] \in ParseStates /\ RunInStep(s[n], p[n])
  <2> HIDE DEF P, n
  <2>1. \A i \in 0..n: i \in P
    BY <1>1, <1>5, <1>6, SetInduction
  <2>2. n \in P
    BY <1>1, <2>1
  <2> QED  BY <2>2 DEF P
<1>8. Settled(s[n]).status # "bad" /\ ~p[n].ended /\ "word" \in DOMAIN p[n].got
      /\ Settled(RunLooked(rest)) = Settled(s[n])
  BY <1>2, <1>3
<1>9. s[n].at = "found"
  BY <1>7, <1>8 DEF RunInStep, Settled
<1>10. s[n].dir = p[n].got["word"]
  BY <1>7, <1>8, <1>9 DEF RunInStep
<1> QED  BY <1>3, <1>8, <1>9, <1>10 DEF Settled

-----------------------------------------------------------------------------
(* The commands' parsers.                                                  *)
(* What `run' takes.                                                       *)
LEMMA RunParser ==
    LET spec == ParserOf("run") IN
    /\ spec.words = 1 /\ spec.valued = RunValued /\ spec.flags = RunFlags
    /\ spec.many = {} /\ spec.needed = {"word"}
  BY DEF ParserOf

(* What `web' takes.                                                       *)
LEMMA WebParser ==
    LET spec == ParserOf("web") IN
    /\ spec.words = 0 /\ spec.valued = WebOptions /\ spec.flags = {}
    /\ spec.many = {} /\ spec.needed = {"--input-dir", "--work-dir"}
  BY DEF ParserOf

(* What the maintenance commands take: no words, and one directory by      *)
(* --dir.                                                                  *)
LEMMA DirParsers ==
    ASSUME NEW command \in DirCommands
    PROVE  LET spec == ParserOf(command) IN
           /\ spec.words = 0 /\ "--dir" \in spec.valued /\ "--dir" \in spec.needed
           /\ spec.valued \cap (spec.many \union spec.flags) = {}
<1>1. CASE command \in {"scan-scenes", "fix-db"}
  BY <1>1 DEF ParserOf
<1>2. CASE command = "suggest-scenes"
  BY <1>2 DEF ParserOf
<1>3. CASE command = "remap-scenes"
  BY <1>3 DEF ParserOf
<1>4. CASE command = "rescore"
  BY <1>4 DEF ParserOf
<1>5. CASE command = "rewrite-xmp"
  BY <1>5 DEF ParserOf
<1>6. CASE command = "rewrite-commentary"
  BY <1>6 DEF ParserOf
<1>7. CASE command = "reset-ai"
  BY <1>7 DEF ParserOf
<1> QED  BY <1>1, <1>2, <1>3, <1>4, <1>5, <1>6, <1>7 DEF DirCommands

\* Where a start sends the command, if the lookup did not fail.
FoundIn(env) ==
    LET input == SourceInput(WithoutName(env.args))
    IN IF input.status = "found" THEN input.dir ELSE env.input
WorkIn(env) ==
    LET work == WorkInput(WithoutName(env.args))
    IN IF work.status = "found" THEN work.dir ELSE env.work
Understood(env) ==
    SourceInput(WithoutName(env.args)).status # "bad" /\ WorkInput(WithoutName(env.args)).status # "bad"

(* Whatever the arguments are, unless they begin with "--": if the lookup  *)
(* does not fail and the application accepts them, it uses the directories *)
(* that the lookup found.                                                  *)
LEMMA ParsersAgree ==
    ASSUME NEW env \in BootsWith, Understood(env), WithoutName(env.args) # <<>>,
           ~HasLead(WithoutName(env.args)),
           AppUses(WithoutName(env.args), WorkIn(env)).runs
    PROVE  /\ AppUses(WithoutName(env.args), WorkIn(env)).input = FoundIn(env)
           /\ AppUses(WithoutName(env.args), WorkIn(env)).work = WorkIn(env)
<1> DEFINE args == WithoutName(env.args)
           command == CommandOf(args)
           rest == Tail(args)
           spec == ParserOf(command)
           s == Parse(spec, rest)
<1>1. args \in Seq(Tokens) /\ args # <<>>
  <2>1. env.args \in Seq(Tokens)
    BY EntryAssumption
  <2>2. env.args # <<>> => Tail(env.args) \in Seq(Tokens)
    BY <2>1, HeadTailProperties
  <2> QED  BY <2>1, <2>2 DEF WithoutName
<1>2. rest \in Seq(Tokens)
  BY <1>1, HeadTailProperties
<1>0. WithoutLead(args) = args
  BY DEF WithoutLead
<1>3. command \in DirCommands \union {"run", "web"} /\ ~s.ended /\ spec.needed \subseteq DOMAIN s.got
  BY <1>0 DEF AppUses, Refused
<1>4. AppUses(args, WorkIn(env)) =
         [runs |-> TRUE,
          input |-> CASE command = "run" -> s.got["word"]
                      [] command = "web" -> s.got["--input-dir"]
                      [] OTHER -> s.got["--dir"],
          work |-> IF command = "web" THEN s.got["--work-dir"] ELSE WorkIn(env)]
  BY <1>0 DEF AppUses, Refused
<1> HIDE DEF args, command, rest, spec, s
<1>5. SourceInput(args).status # "bad" /\ WorkInput(args).status # "bad"
  BY DEF Understood, args
<1>6. CASE command = "run"
  <2>1. SourceInput(args) = Settled(RunLooked(rest)) /\ WorkInput(args) = Elsewhere
    BY <1>6 DEF SourceInput, WorkInput, command, rest, DirCommands
  <2>2. SourceInput(args) = [status |-> "found", dir |-> s.got["word"]]
    <3>1. spec.words = 1 /\ spec.valued = RunValued /\ spec.flags = RunFlags
          /\ spec.many = {} /\ spec.needed = {"word"}
      BY <1>6, RunParser DEF spec
    <3>2. "word" \in DOMAIN s.got
      BY <1>3, <3>1
    <3> QED  BY <1>2, <1>3, <1>5, <2>1, <3>1, <3>2, RunsAgree DEF s
  <2>3. FoundIn(env) = s.got["word"]
    BY <2>2 DEF FoundIn, args
  <2> QED  BY <1>4, <1>6, <2>3 DEF args
<1>7. CASE command = "web"
  <2>1. SourceInput(args) = ByOption(rest, WebOptions, "--input-dir", FALSE)
        /\ WorkInput(args) = ByOption(rest, WebOptions, "--work-dir", FALSE)
    BY <1>7 DEF SourceInput, WorkInput, command, rest, DirCommands
  <2>2. spec.words = 0 /\ spec.valued = WebOptions /\ spec.flags = {}
        /\ spec.many = {} /\ spec.needed = {"--input-dir", "--work-dir"}
    BY <1>7, WebParser DEF spec
  <2>3. "--input-dir" \in WebOptions \cap Texts /\ "--work-dir" \in WebOptions \cap Texts
        /\ "--input-dir" \in DOMAIN s.got /\ "--work-dir" \in DOMAIN s.got
        /\ spec.valued \cap (spec.many \union spec.flags) = {} /\ WebOptions \subseteq spec.valued
    BY <1>3, <2>2 DEF WebOptions, Texts
  <2>4. SourceInput(args) = [status |-> "found", dir |-> s.got["--input-dir"]]
    <3> DEFINE known == WebOptions
               wanted == "--input-dir"
               lenient == FALSE
    <3>1. ~Parse(spec, rest).ended /\ wanted \in DOMAIN Parse(spec, rest).got
      BY <1>3, <2>3 DEF s
    <3>2. ByOption(rest, known, wanted, lenient).status # "bad"
      BY <1>5, <2>1
    <3>3. wanted \in known \cap Texts /\ known \subseteq spec.valued
          /\ spec.words = 0 /\ spec.valued \cap (spec.many \union spec.flags) = {}
      BY <2>2, <2>3
    <3> HIDE DEF known, wanted, lenient
    <3>4. ByOption(rest, known, wanted, lenient) =
             [status |-> "found", dir |-> Parse(spec, rest).got[wanted]]
      BY <1>2, <3>1, <3>2, <3>3, OptionsAgree
    <3> QED  BY <2>1, <3>4 DEF s, known, wanted, lenient
  <2>5. WorkInput(args) = [status |-> "found", dir |-> s.got["--work-dir"]]
    <3> DEFINE known == WebOptions
               wanted == "--work-dir"
               lenient == FALSE
    <3>1. ~Parse(spec, rest).ended /\ wanted \in DOMAIN Parse(spec, rest).got
      BY <1>3, <2>3 DEF s
    <3>2. ByOption(rest, known, wanted, lenient).status # "bad"
      BY <1>5, <2>1
    <3>3. wanted \in known \cap Texts /\ known \subseteq spec.valued
          /\ spec.words = 0 /\ spec.valued \cap (spec.many \union spec.flags) = {}
      BY <2>2, <2>3
    <3> HIDE DEF known, wanted, lenient
    <3>4. ByOption(rest, known, wanted, lenient) =
             [status |-> "found", dir |-> Parse(spec, rest).got[wanted]]
      BY <1>2, <3>1, <3>2, <3>3, OptionsAgree
    <3> QED  BY <2>1, <3>4 DEF s, known, wanted, lenient
  <2>6. FoundIn(env) = s.got["--input-dir"] /\ WorkIn(env) = s.got["--work-dir"]
    BY <2>4, <2>5 DEF FoundIn, WorkIn, args
  <2> QED  BY <1>4, <1>7, <2>6 DEF args
<1>8. CASE command \in DirCommands
  <2>0. command \notin {"run", "web"}
    BY <1>8 DEF DirCommands
  <2>1. SourceInput(args) = ByOption(rest, {"--dir"}, "--dir", TRUE) /\ WorkInput(args) = Elsewhere
    BY <1>8, <2>0 DEF SourceInput, WorkInput, command, rest
  <2>2. spec.words = 0 /\ "--dir" \in spec.valued /\ "--dir" \in spec.needed
        /\ spec.valued \cap (spec.many \union spec.flags) = {}
    BY <1>8, DirParsers DEF spec
  <2>3. "--dir" \in {"--dir"} \cap Texts /\ {"--dir"} \subseteq spec.valued /\ "--dir" \in DOMAIN s.got
    BY <1>3, <2>2 DEF Texts
  <2>4. SourceInput(args) = [status |-> "found", dir |-> s.got["--dir"]]
    <3> DEFINE known == {"--dir"}
               wanted == "--dir"
               lenient == TRUE
    <3>1. ~Parse(spec, rest).ended /\ wanted \in DOMAIN Parse(spec, rest).got
      BY <1>3, <2>3 DEF s
    <3>2. ByOption(rest, known, wanted, lenient).status # "bad"
      BY <1>5, <2>1
    <3>3. wanted \in known \cap Texts /\ known \subseteq spec.valued
          /\ spec.words = 0 /\ spec.valued \cap (spec.many \union spec.flags) = {}
      BY <2>2, <2>3
    <3> HIDE DEF known, wanted, lenient
    <3>4. ByOption(rest, known, wanted, lenient) =
             [status |-> "found", dir |-> Parse(spec, rest).got[wanted]]
      BY <1>2, <3>1, <3>2, <3>3, OptionsAgree
    <3> QED  BY <2>1, <3>4 DEF s, known, wanted, lenient
  <2>5. FoundIn(env) = s.got["--dir"]
    BY <2>4 DEF FoundIn, args
  <2> QED  BY <1>4, <2>0, <2>5 DEF args
<1> QED  BY <1>3, <1>6, <1>7, <1>8

-----------------------------------------------------------------------------
(* The start: a state names the start's environment, and what it found.    *)
BootAt(pc, env, next) ==
    [pc |-> pc, env |-> env, next |-> next, input |-> FoundIn(env), work |-> WorkIn(env)]
BootPcs == {"refused", "identify", "check", "own", "execute", "started"}
Underway == {BootAt(pc, env, next): pc \in BootPcs, env \in BootsWith, next \in Nat \ {0}}

EntryShape ==
    /\ boot \in [at: {BootOff} \union Underway, boots: 0..MaxBoots]
    /\ account \in Accounts
    /\ owned \in [DOMAIN Places -> [kind: PlaceKinds, by: Nat]]

\* No start gets past the lookup with arguments that cannot be read; under
\* root it gets to the application only through all the checks.
BootIsChecked ==
    LET b == boot.at IN
    /\ b.pc \notin {"off", "refused"} => Understood(b.env)
    /\ b.pc \in {"identify", "check", "own"} => b.env.root
    /\ b.pc \in {"identify", "check"} => b.next = 1
    /\ b.pc = "execute" => ~b.env.root
    /\ b.pc \in {"own", "started"} /\ b.env.root => ~Overlap(RealPath[b.input], RealPath[b.work])
    /\ b.pc = "started" /\ b.env.root => b.next \notin DOMAIN Places

\* The places that the start has been through are the application's.
PassedAreOwned ==
    boot.at.pc \in {"own", "started"} /\ boot.at.env.root =>
        \A i \in DOMAIN Places: i < boot.at.next =>
            (owned[i].kind # "none" => owned[i].kind # "link" /\ owned[i].by = account.uid)

EntryInv == EntryShape /\ BootIsChecked /\ PassedAreOwned

(* The invariant holds before the first start.                             *)
LEMMA EntryStarts == EntryInit => EntryInv
<1> SUFFICES ASSUME EntryInit PROVE EntryInv
  OBVIOUS
<1>1. boot = [at |-> BootOff, boots |-> 0] /\ account = Account0
      /\ owned \in [DOMAIN Places -> [kind: PlaceKinds, by: {0}]]
  BY DEF EntryInit
<1>2. MaxBoots \in Nat /\ Account0 \in Accounts
  BY EntryAssumption
<1>3. owned \in [DOMAIN Places -> [kind: PlaceKinds, by: Nat]]
  BY <1>1
<1>4. boot \in [at: {BootOff} \union Underway, boots: 0..MaxBoots]
  BY <1>1, <1>2
<1>5. boot.at.pc = "off"
  BY <1>1 DEF BootOff
<1> QED  BY <1>1, <1>2, <1>3, <1>4, <1>5 DEF EntryInv, EntryShape, BootIsChecked, PassedAreOwned

(* The state of a start, and a start that goes one step further.           *)
LEMMA BootFields ==
    ASSUME NEW pc, NEW env, NEW next
    PROVE  LET b == BootAt(pc, env, next) IN
           /\ b.pc = pc /\ b.env = env /\ b.next = next /\ b.input = FoundIn(env) /\ b.work = WorkIn(env)
           /\ \A to: [b EXCEPT !.pc = to] = BootAt(to, env, next)
           /\ \A to: [b EXCEPT !.next = to] = BootAt(pc, env, to)
  BY DEF BootAt

(* A start that goes on stays among the states of starts.                  *)
LEMMA BootGoesOn ==
    ASSUME EntryShape, NEW state \in {BootOff} \union Underway, BootGoes(state)
    PROVE  boot'.at = state /\ boot' \in [at: {BootOff} \union Underway, boots: 0..MaxBoots]
  BY DEF EntryShape, BootGoes

(* Every step of the container keeps the invariant: a start, the account,  *)
(* the checks, each place that changes its owner, the hand-over, state     *)
(* files that appear, and a stop at any of these.                          *)
LEMMA EntryKeeps == EntryInv /\ [EntryNext]_entryVars => EntryInv'
<1> SUFFICES ASSUME EntryInv, [EntryNext]_entryVars PROVE EntryInv'
  OBVIOUS
<1> USE DEF EntryInv
<1>b. ASSUME boot.at.pc # "off"
      PROVE  \E pc \in BootPcs, env \in BootsWith, next \in Nat \ {0}: boot.at = BootAt(pc, env, next)
  <2>1. boot.at \in {BootOff} \union Underway
    BY DEF EntryShape
  <2>2. boot.at # BootOff
    BY <1>b DEF BootOff
  <2> QED  BY <2>1, <2>2 DEF Underway
<1>p. DOMAIN Places = 1..Len(Places) /\ Len(Places) \in Nat
      /\ \A i \in DOMAIN Places: Places[i].kind \in {"file", "cache", "managed"}
  <2> DEFINE K == [kind: {"file", "cache", "managed"}]
  <2>1. Places \in Seq(K) /\ \A k \in K: k.kind \in {"file", "cache", "managed"}
    BY EntryAssumption
  <2> HIDE DEF K
  <2>2. DOMAIN Places = 1..Len(Places) /\ Len(Places) \in Nat
    BY <2>1, LenProperties
  <2>3. \A i \in 1..Len(Places): Places[i] \in K
    BY <2>1, ElementOfSeq
  <2> QED  BY <2>1, <2>2, <2>3
<1>1. ASSUME NEW env \in BootsWith, boot.at.pc = "off", StartContainer(env) PROVE EntryInv'
  <2> DEFINE to == IF ~Understood(env) THEN "refused" ELSE IF env.root THEN "identify" ELSE "execute"
  <2>1. boot' = [at |-> BootAt(to, env, 1), boots |-> boot.boots + 1] /\ boot.boots < MaxBoots
    BY <1>1 DEF StartContainer, BootAt, FoundIn, WorkIn, Understood
  <2>2. BootAt(to, env, 1) \in Underway
    <3>1. to \in BootPcs /\ 1 \in Nat \ {0}
      BY DEF BootPcs
    <3> HIDE DEF to
    <3> QED  BY <3>1 DEF Underway
  <2>3. MaxBoots \in Nat /\ boot.boots \in Nat
    BY EntryAssumption DEF EntryShape
  <2>4. boot' \in [at: {BootOff} \union Underway, boots: 0..MaxBoots]
    BY <2>1, <2>2, <2>3
  <2>5. boot'.at.pc = to /\ boot'.at.env = env /\ boot'.at.next = 1
    BY <2>1, BootFields
  <2>6. EntryShape'
    BY <1>1, <2>4 DEF EntryShape, StartContainer
  <2>7. BootIsChecked'
    BY <2>5, EntryAssumption DEF BootIsChecked
  <2>8. PassedAreOwned'
    BY <2>5 DEF PassedAreOwned
  <2> QED  BY <2>6, <2>7, <2>8
<1>2. CASE Identify
  <2>1. PICK pc \in BootPcs, env \in BootsWith, next \in Nat \ {0}: boot.at = BootAt(pc, env, next)
    BY <1>2, <1>b DEF Identify
  <2>2. pc = "identify" /\ env.root /\ Understood(env) /\ next = 1
    BY <1>2, <2>1, BootFields DEF Identify, BootIsChecked
  <2>3. env.puid \in Nat /\ env.pgid \in Nat /\ DeviceGids \subseteq Nat
    BY EntryAssumption
  <2>4. PICK to \in {"refused", "check"}: BootGoes(BootAt(to, env, next)) /\ (to = "check" => env.puid # 0)
    BY <1>2, <2>1, BootFields DEF Identify, Refuses
  <2>5. account' \in Accounts
    <3>1. env.puid = 0 \/ env.pgid = 0 => account' = account
      BY <1>2, <2>1, BootFields DEF Identify
    <3>2. ~(env.puid = 0 \/ env.pgid = 0) =>
             account' = [uid |-> env.puid, gid |-> env.pgid,
                         groups |-> account.groups \union (DeviceGids \ {0, env.pgid})]
      BY <1>2, <2>1, BootFields DEF Identify
    <3>3. account \in Accounts
      BY DEF EntryShape
    <3>4. account.groups \union (DeviceGids \ {0, env.pgid}) \in SUBSET (Nat \ {0})
      BY <2>3, <3>3 DEF Accounts
    <3> QED  BY <2>3, <3>1, <3>2, <3>3, <3>4 DEF Accounts
  <2>6. BootAt(to, env, next) \in {BootOff} \union Underway
    BY <2>4 DEF Underway, BootPcs
  <2>7. boot'.at = BootAt(to, env, next) /\ boot' \in [at: {BootOff} \union Underway, boots: 0..MaxBoots]
    BY <2>4, <2>6, BootGoesOn
  <2>8. boot'.at.pc = to /\ boot'.at.env = env /\ boot'.at.next = next
    BY <2>7, BootFields
  <2>9. EntryShape'
    BY <1>2, <2>5, <2>7 DEF EntryShape, Identify
  <2>10. BootIsChecked' /\ PassedAreOwned'
    BY <2>2, <2>4, <2>8 DEF BootIsChecked, PassedAreOwned
  <2> QED  BY <2>9, <2>10
<1>3. CASE CheckPlaces
  <2>1. PICK pc \in BootPcs, env \in BootsWith, next \in Nat \ {0}: boot.at = BootAt(pc, env, next)
    BY <1>3, <1>b DEF CheckPlaces
  <2>2. pc = "check" /\ env.root /\ Understood(env) /\ next = 1
    BY <1>3, <2>1, BootFields DEF CheckPlaces, BootIsChecked
  <2> DEFINE OK == ~Overlap(RealPath[FoundIn(env)], RealPath[WorkIn(env)])
  <2>3. PICK to \in {"refused", "own"}: BootGoes(BootAt(to, env, next)) /\ (to = "own" => OK)
    BY <1>3, <2>1, BootFields DEF CheckPlaces, Refuses
  <2>4. BootAt(to, env, next) \in {BootOff} \union Underway
    BY <2>3 DEF Underway, BootPcs
  <2>5. boot'.at = BootAt(to, env, next) /\ boot' \in [at: {BootOff} \union Underway, boots: 0..MaxBoots]
    BY <2>3, <2>4, BootGoesOn
  <2>6. boot'.at.pc = to /\ boot'.at.env = env /\ boot'.at.next = next
        /\ boot'.at.input = FoundIn(env) /\ boot'.at.work = WorkIn(env)
    BY <2>5, BootFields
  <2>7. EntryShape'
    BY <1>3, <2>5 DEF EntryShape, CheckPlaces
  <2>8. BootIsChecked'
    BY <2>2, <2>3, <2>6 DEF BootIsChecked
  <2>9. PassedAreOwned'
    <3> SUFFICES ASSUME NEW i \in DOMAIN Places, i < boot'.at.next PROVE FALSE
      BY DEF PassedAreOwned
    <3> QED  BY <1>p, <2>2, <2>6
  <2> QED  BY <2>7, <2>8, <2>9
<1>4. CASE OwnPlace
  <2>1. PICK pc \in BootPcs, env \in BootsWith, next \in Nat \ {0}: boot.at = BootAt(pc, env, next)
    BY <1>4, <1>b DEF OwnPlace
  <2>2. /\ pc = "own" /\ env.root /\ Understood(env) /\ next \in DOMAIN Places
        /\ boot.at.next = next /\ boot.at.pc = pc /\ boot.at.env = env
        /\ boot.at.input = FoundIn(env) /\ boot.at.work = WorkIn(env)
        /\ ~Overlap(RealPath[FoundIn(env)], RealPath[WorkIn(env)])
    BY <1>4, <2>1, BootFields DEF OwnPlace, BootIsChecked
  <2> DEFINE bad == owned[next].kind = "link" \/ (Places[next].kind = "cache" /\ owned[next].kind = "linked")
             place == IF owned[next].kind # "none" THEN [kind |-> owned[next].kind, by |-> account.uid]
                      ELSE IF Places[next].kind = "managed" THEN [kind |-> "plain", by |-> account.uid]
                      ELSE owned[next]
  <2>3. owned \in [DOMAIN Places -> [kind: PlaceKinds, by: Nat]] /\ account \in Accounts
    BY DEF EntryShape
  <2>4. CASE bad
    <3>1. BootGoes(BootAt("refused", env, next)) /\ owned' = owned /\ account' = account
      BY <1>4, <2>1, <2>2, <2>4, BootFields DEF OwnPlace, Refuses
    <3>2. BootAt("refused", env, next) \in {BootOff} \union Underway
      BY DEF Underway, BootPcs
    <3>3. boot'.at = BootAt("refused", env, next) /\ boot' \in [at: {BootOff} \union Underway, boots: 0..MaxBoots]
      BY <3>1, <3>2, BootGoesOn
    <3>4. boot'.at.pc = "refused"
      BY <3>3, BootFields
    <3> QED  BY <2>3, <3>1, <3>3, <3>4 DEF EntryShape, BootIsChecked, PassedAreOwned
  <2>5. CASE ~bad
    <3>1. BootGoes(BootAt("own", env, next + 1)) /\ account' = account
      BY <1>4, <2>1, <2>2, <2>5, BootFields DEF OwnPlace
    <3>2. owned' = [owned EXCEPT ![next] = place]
      BY <1>4, <2>2, <2>5 DEF OwnPlace
    <3>3. BootAt("own", env, next + 1) \in {BootOff} \union Underway
      BY DEF Underway, BootPcs
    <3>4. boot'.at = BootAt("own", env, next + 1) /\ boot' \in [at: {BootOff} \union Underway, boots: 0..MaxBoots]
      BY <3>1, <3>3, BootGoesOn
    <3>5. boot'.at.pc = "own" /\ boot'.at.env = env /\ boot'.at.next = next + 1
          /\ boot'.at.input = FoundIn(env) /\ boot'.at.work = WorkIn(env)
      BY <3>4, BootFields
    <3>6. place \in [kind: PlaceKinds, by: Nat]
      BY <2>2, <2>3 DEF Accounts, PlaceKinds
    <3>7. place.kind # "none" => place.kind # "link" /\ place.by = account.uid
      BY <2>2, <2>5
    <3> HIDE DEF place
    <3>8. owned' \in [DOMAIN Places -> [kind: PlaceKinds, by: Nat]]
          /\ owned'[next] = place /\ \A i \in DOMAIN Places: i # next => owned'[i] = owned[i]
      BY <2>2, <2>3, <3>2, <3>6
    <3>9. EntryShape'
      BY <2>3, <3>1, <3>4, <3>8 DEF EntryShape
    <3>10. BootIsChecked'
      BY <2>2, <3>5 DEF BootIsChecked
    <3>11. PassedAreOwned'
      <4> SUFFICES ASSUME NEW i \in DOMAIN Places, i < next + 1, owned'[i].kind # "none"
                   PROVE  owned'[i].kind # "link" /\ owned'[i].by = account.uid
        BY <3>1, <3>5 DEF PassedAreOwned
      <4>1. CASE i = next
        BY <3>7, <3>8, <4>1
      <4>2. CASE i < next
        BY <2>2, <3>8, <4>2 DEF PassedAreOwned
      <4> QED  BY <1>p, <4>1, <4>2
    <3> QED  BY <3>9, <3>10, <3>11
  <2> QED  BY <2>4, <2>5
<1>5. CASE ExecuteApp
  <2>1. PICK pc \in BootPcs, env \in BootsWith, next \in Nat \ {0}: boot.at = BootAt(pc, env, next)
    BY <1>5, <1>b DEF ExecuteApp
  <2>2. /\ boot.at.next = next /\ boot.at.pc = pc /\ boot.at.env = env
        /\ boot.at.input = FoundIn(env) /\ boot.at.work = WorkIn(env)
    BY <2>1, BootFields
  <2>3. (pc = "own" /\ next \notin DOMAIN Places) \/ pc = "execute"
    BY <1>5, <2>2 DEF ExecuteApp
  <2>4. Understood(env)
    BY <2>2, <2>3 DEF BootIsChecked
  <2>5. PICK to \in {"refused", "started"}: BootGoes(BootAt(to, env, next))
    BY <1>5, <2>1, <2>2, BootFields DEF ExecuteApp, Refuses
  <2>6. BootAt(to, env, next) \in {BootOff} \union Underway
    BY <2>5 DEF Underway, BootPcs
  <2>7. boot'.at = BootAt(to, env, next) /\ boot' \in [at: {BootOff} \union Underway, boots: 0..MaxBoots]
    BY <2>5, <2>6, BootGoesOn
  <2>8. boot'.at.pc = to /\ boot'.at.env = env /\ boot'.at.next = next
        /\ boot'.at.input = FoundIn(env) /\ boot'.at.work = WorkIn(env)
    BY <2>7, BootFields
  <2>9. account' = account /\ owned' = owned
    BY <1>5 DEF ExecuteApp
  <2>10. EntryShape'
    BY <2>7, <2>9 DEF EntryShape
  <2>11. BootIsChecked'
    BY <2>2, <2>3, <2>4, <2>5, <2>8 DEF BootIsChecked
  <2>12. PassedAreOwned'
    BY <2>2, <2>3, <2>5, <2>8, <2>9 DEF PassedAreOwned, BootIsChecked
  <2> QED  BY <2>10, <2>11, <2>12
<1>6. CASE StopContainer
  <2>1. boot'.at = BootOff /\ boot' \in [at: {BootOff} \union Underway, boots: 0..MaxBoots]
    BY <1>6, BootGoesOn DEF StopContainer
  <2>2. boot'.at.pc = "off"
    BY <2>1 DEF BootOff
  <2>3. EntryShape'
    BY <1>6, <2>1 DEF StopContainer, EntryShape
  <2> QED  BY <2>2, <2>3 DEF BootIsChecked, PassedAreOwned
<1>7. ASSUME NEW i \in DOMAIN Places, StateAppears(i) PROVE EntryInv'
  <2>1. owned \in [DOMAIN Places -> [kind: PlaceKinds, by: Nat]] /\ account \in Accounts
    BY DEF EntryShape
  <2> DEFINE place == [kind |-> "plain", by |-> account.uid]
  <2>2. place \in [kind: PlaceKinds, by: Nat] /\ place.kind = "plain" /\ place.by = account.uid
    BY <2>1 DEF Accounts, PlaceKinds
  <2> HIDE DEF place
  <2>3. owned' = [owned EXCEPT ![i] = place] /\ boot' = boot /\ account' = account
    BY <1>7 DEF StateAppears, place
  <2>4. owned' \in [DOMAIN Places -> [kind: PlaceKinds, by: Nat]]
        /\ owned'[i] = place /\ \A j \in DOMAIN Places: j # i => owned'[j] = owned[j]
    BY <2>1, <2>2, <2>3
  <2>5. EntryShape'
    BY <2>3, <2>4 DEF EntryShape
  <2>6. BootIsChecked'
    BY <2>3 DEF BootIsChecked
  <2>7. PassedAreOwned'
    BY <2>2, <2>3, <2>4 DEF PassedAreOwned
  <2> QED  BY <2>5, <2>6, <2>7
<1>8. CASE UNCHANGED entryVars
  BY <1>8 DEF entryVars, EntryShape, BootIsChecked, PassedAreOwned
<1> QED  BY <1>1, <1>2, <1>3, <1>4, <1>5, <1>6, <1>7, <1>8 DEF EntryNext

(* The container's state keeps its type: the account has an id other than  *)
(* root's, and every place has one owner.                                  *)
THEOREM EntryTypeCorrect == EntrySpec => []EntryTypeOK
<1>1. EntryInv => EntryTypeOK
  <2> SUFFICES ASSUME EntryInv PROVE EntryTypeOK
    OBVIOUS
  <2>1. boot.at \in {BootOff} \union Underway
    BY DEF EntryInv, EntryShape
  <2>2. boot.at.pc \in {"off"} \union BootPcs
    BY <2>1, BootFields DEF Underway, BootOff
  <2> QED  BY <2>2 DEF EntryInv, EntryShape, EntryTypeOK, BootPcs
<1> QED  BY <1>1, EntryStarts, EntryKeeps, PTL DEF EntrySpec

(* Whatever directories and identities the container is started with, and  *)
(* wherever it is stopped: when the arguments do not begin with "--" and   *)
(* are accepted for a command that the entrypoint knows, the application   *)
(* works on the directories that the entrypoint has checked.  Whatever the *)
(* arguments are, under root the work directory it has checked never lies  *)
(* in the photo directory it has checked, and all state there is the       *)
(* application's own (entrypoint.sh, main).                                *)
THEOREM EntryAlwaysHolds == EntrySpec => []EntryHolds
<1>1. EntryInv => EntryHolds
  <2> SUFFICES ASSUME EntryInv, boot.at.pc = "started" PROVE EntryHolds
    BY DEF EntryHolds, EntryLooksRight, StateIsOwned
  <2>1. boot.at \in Underway
    BY DEF EntryInv, EntryShape, BootOff
  <2>2. PICK pc \in BootPcs, env \in BootsWith, next \in Nat \ {0}: boot.at = BootAt(pc, env, next)
    BY <2>1 DEF Underway
  <2>3. /\ boot.at.next = next /\ boot.at.env = env
        /\ boot.at.input = FoundIn(env) /\ boot.at.work = WorkIn(env)
    BY <2>2, BootFields
  <2>4. EntryLooksRight
    <3>1. Understood(env) /\ (env.root => ~Overlap(RealPath[FoundIn(env)], RealPath[WorkIn(env)]))
      BY <2>3 DEF EntryInv, BootIsChecked
    <3> QED  BY <2>3, <3>1, ParsersAgree DEF EntryLooksRight, Overlap
  <2>5. StateIsOwned
    <3>1. DOMAIN Places = 1..Len(Places) /\ Len(Places) \in Nat
      BY EntryAssumption, LenProperties
    <3>2. env.root => \A i \in DOMAIN Places: i < next
      BY <2>3, <3>1 DEF EntryInv, BootIsChecked
    <3> QED  BY <2>3, <3>2 DEF StateIsOwned, EntryInv, PassedAreOwned
  <2> QED  BY <2>4, <2>5 DEF EntryHolds
<1> QED  BY <1>1, EntryStarts, EntryKeeps, PTL DEF EntrySpec

-----------------------------------------------------------------------------
(* VisionBackend: reading a text                                           *)

ScannedAlong(at, text) ==
    at = [i \in 0..Len(text) |-> IF i = 0 THEN Unscanned ELSE Scan(at[i - 1], i, text[i])]

(* A text is read to its end.                                              *)
LEMMA ScansToTheEnd ==
    ASSUME NEW text, Len(text) \in Nat
    PROVE  \E at: ScannedAlong(at, text) /\ Scanned(text) = at[Len(text)].found
<1> DEFINE n == Len(text)
           Upto(m, f) == f = [i \in 0..m |-> IF i = 0 THEN Unscanned ELSE Scan(f[i - 1], i, text[i])]
           P == {m \in 0..n: \E f: Upto(m, f)}
           at == CHOOSE f: Upto(n, f)
<1>1. \E f: Upto(0, f)
  <2>1. PICK f: f = [i \in 0..0 |-> Unscanned]
    OBVIOUS
  <2>2. f = [i \in 0..0 |-> IF i = 0 THEN Unscanned ELSE Scan(f[i - 1], i, text[i])]
    BY <2>1
  <2> QED  BY <2>2
<1>2. ASSUME NEW m \in 1..n, NEW f, Upto(m - 1, f) PROVE \E g: Upto(m, g)
  <2> DEFINE g == [i \in 0..m |-> IF i = m THEN Scan(f[m - 1], m, text[m]) ELSE f[i]]
  <2>1. \A i \in 0..m: i # m => i \in 0..m - 1 /\ g[i] = f[i]
    OBVIOUS
  <2>2. g[m] = Scan(f[m - 1], m, text[m])
    OBVIOUS
  <2>3. \A i \in 1..m: i - 1 \in 0..m /\ i - 1 # m /\ g[i - 1] = f[i - 1]
    BY <2>1
  <2>4. \A i \in 0..m - 1: f[i] = IF i = 0 THEN Unscanned ELSE Scan(f[i - 1], i, text[i])
    BY <1>2
  <2> HIDE DEF g
  <2>5. \A i \in 0..m: g[i] = IF i = 0 THEN Unscanned ELSE Scan(g[i - 1], i, text[i])
    BY <2>1, <2>2, <2>3, <2>4
  <2>6. g = [i \in 0..m |-> g[i]]
    BY DEF g
  <2>7. [i \in 0..m |-> g[i]]
           = [i \in 0..m |-> IF i = 0 THEN Unscanned ELSE Scan(g[i - 1], i, text[i])]
    BY <2>5
  <2> QED  BY <2>6, <2>7
<1> HIDE DEF Upto
<1>3. 0 \in P /\ \A m \in 1..n: m - 1 \in P => m \in P
  BY <1>1, <1>2
<1>4. n \in P
  <2>1. n \in Nat
    OBVIOUS
  <2> HIDE DEF P, n
  <2>2. \A i \in 0..n: i \in P
    BY <1>3, <2>1, SetInduction
  <2> QED  BY <2>1, <2>2
<1>5. Upto(n, at)
  BY <1>4
<1>6. Scanned(text) = at[n].found
  BY DEF Scanned, at, Upto
<1> HIDE DEF at
<1> QED  BY <1>5, <1>6 DEF Upto, ScannedAlong

(* A complete object stands from j to k, and it is the last one that       *)
(* begins at i or before.                                                  *)
ObjectAt(text, j, k) ==
    /\ j \in 1..Len(text) /\ k \in 1..Len(text)
    /\ text[j] = OpenBrace /\ text[k] = CloseBrace
    /\ \/ k = j + 1
       \/ k = j + 2 /\ text[j + 1].is = "body"
LastOpen(text, i, j) ==
    /\ j \in 1..i /\ text[j].is = "open"
    /\ \A l \in 1..i: text[l].is = "open" => l <= j

(* The pieces of a text that are objects.                                  *)
LEMMA ObjectPiece ==
    ASSUME NEW T, NEW text \in Seq(T), NEW j \in 1..Len(text),
           NEW k \in {j + 1, j + 2}, k <= Len(text)
    PROVE  /\ Object(SubSeq(text, j, k)) <=> ObjectAt(text, j, k)
           /\ Loaded(SubSeq(text, j, k)) = IF k = j + 1 THEN BareObject ELSE text[j + 1].says
<1> DEFINE piece == SubSeq(text, j, k)
<1>1. Len(text) \in Nat /\ j \in Nat /\ k \in Nat /\ j <= k
  OBVIOUS
<1>2. /\ piece \in Seq(T) /\ Len(piece) = k - j + 1
      /\ \A i \in 1..k - j + 1: piece[i] = text[j + i - 1]
  <2>1. 1 <= j /\ k <= Len(text)
    BY <1>1
  <2> QED  BY <1>1, <2>1, SubSeqProperties
<1>3. piece[1] = text[j] /\ piece[Len(piece)] = text[k] /\ piece[2] = text[j + 1]
  BY <1>1, <1>2
<1> HIDE DEF piece
<1>4. Object(piece) <=> ObjectAt(text, j, k)
  BY <1>1, <1>2, <1>3 DEF Object, ObjectAt
<1>5. Loaded(piece) = IF k = j + 1 THEN BareObject ELSE text[j + 1].says
  BY <1>1, <1>2, <1>3 DEF Loaded
<1> QED  BY <1>4, <1>5 DEF piece

Scans == [start: Nat, depth: Int, string: BOOLEAN, escaped: BOOLEAN, found: Seq(Nat \X Nat)]

(* Having read i tokens of a tidy text, the scan has found the object that *)
(* began last, or is inside of it.                                         *)
ReadSoFar(text, i, s) ==
    /\ s \in Scans
    /\ \/ /\ \A l \in 1..i: text[l].is # "open"
          /\ s.start = 0
       \/ \E j, k \in 1..Len(text):
             /\ LastOpen(text, i, j) /\ ObjectAt(text, j, k)
             /\ \/ i < k /\ s.start = j /\ s.depth = 1 /\ s.string = FALSE
                \/ /\ k <= i /\ s.start = 0 /\ s.found # <<>>
                   /\ s.found[Len(s.found)] = <<j, k>>

(* Every token leaves a state of the scan.                                 *)
LEMMA ScanIsTyped ==
    ASSUME NEW s \in Scans, NEW i \in Nat, NEW token PROVE Scan(s, i, token) \in Scans
<1> PICK F: F = Seq(Nat \X Nat)
  OBVIOUS
<1> DEFINE state(n, d, q, e, f) ==
               [start |-> n, depth |-> d, string |-> q, escaped |-> e, found |-> f]
<1>1. \A n \in Nat, d \in Int, q, e \in BOOLEAN, f \in F: state(n, d, q, e, f) \in Scans
  BY DEF Scans
<1>2. PICK n \in Nat, d \in Int, q \in BOOLEAN, e \in BOOLEAN, f \in F:
         s = state(n, d, q, e, f)
  <2>1. /\ s = state(s.start, s.depth, s.string, s.escaped, s.found)
        /\ s.start \in Nat /\ s.depth \in Int /\ s.string \in BOOLEAN /\ s.escaped \in BOOLEAN
        /\ s.found \in F
    BY DEF Scans
  <2> QED  BY <2>1
<1>3. PICK g: g = Append(f, <<n, i>>)
  OBVIOUS
<1>4. g \in F
  <2>1. f \in Seq(Nat \X Nat) /\ <<n, i>> \in Nat \X Nat
    OBVIOUS
  <2> QED  BY <1>3, <2>1, AppendProperties
<1>5. /\ s.start = n /\ s.depth = d /\ s.string = q /\ s.escaped = e /\ s.found = f
  BY <1>2
<1>6. /\ [s EXCEPT !.escaped = FALSE] = state(n, d, q, FALSE, f)
      /\ [s EXCEPT !.escaped = TRUE] = state(n, d, q, TRUE, f)
      /\ [s EXCEPT !.string = FALSE] = state(n, d, FALSE, e, f)
      /\ [s EXCEPT !.string = TRUE] = state(n, d, TRUE, e, f)
      /\ [s EXCEPT !.depth = @ + 1] = state(n, d + 1, q, e, f)
      /\ [s EXCEPT !.depth = @ - 1] = state(n, d - 1, q, e, f)
  <2>1. \A x: [s EXCEPT !.escaped = x] = state(n, d, q, x, f)
    BY <1>2
  <2>2. \A x: [s EXCEPT !.string = x] = state(n, d, x, e, f)
    BY <1>2
  <2>3. [s EXCEPT !.depth = s.depth + 1] = state(n, d + 1, q, e, f)
    BY <1>2
  <2>4. [s EXCEPT !.depth = s.depth - 1] = state(n, d - 1, q, e, f)
    BY <1>2
  <2> HIDE DEF state
  <2> QED  BY <2>1, <2>2, <2>3, <2>4, Zenon
<1>7. Scan(s, i, token) \in
         {s, state(i, 1, FALSE, FALSE, f), state(n, d, q, FALSE, f), state(n, d, q, TRUE, f),
          state(n, d, FALSE, e, f), state(n, d, TRUE, e, f), state(n, d + 1, q, e, f),
          state(n, d - 1, q, e, f), state(0, 0, FALSE, FALSE, g)}
  <2>1. /\ state(i, 1, FALSE, FALSE, f) =
              [start |-> i, depth |-> 1, string |-> FALSE, escaped |-> FALSE, found |-> s.found]
        /\ state(0, 0, FALSE, FALSE, g) =
              [start |-> 0, depth |-> 0, string |-> FALSE, escaped |-> FALSE,
               found |-> Append(s.found, <<s.start, i>>)]
    BY <1>3, <1>5
  <2> HIDE DEF state
  <2> QED  BY <1>6, <2>1, Zenon DEF Scan
<1>8. d + 1 \in Int /\ d - 1 \in Int /\ 0 \in Nat /\ 0 \in Int /\ 1 \in Int
  OBVIOUS
<1>9. TRUE \in BOOLEAN /\ FALSE \in BOOLEAN /\ i \in Nat
  OBVIOUS
<1> HIDE DEF state
<1>10. /\ state(i, 1, FALSE, FALSE, f) \in Scans /\ state(n, d, q, FALSE, f) \in Scans
       /\ state(n, d, q, TRUE, f) \in Scans /\ state(n, d, FALSE, e, f) \in Scans
       /\ state(n, d, TRUE, e, f) \in Scans /\ state(n, d + 1, q, e, f) \in Scans
       /\ state(n, d - 1, q, e, f) \in Scans /\ state(0, 0, FALSE, FALSE, g) \in Scans
  BY <1>1, <1>4, <1>8, <1>9, Zenon
<1> QED  BY <1>7, <1>10, Zenon

(* The next token.                                                         *)
LEMMA ScanReadsOn ==
    ASSUME NEW T, NEW text \in Seq(T), NEW i \in 1..Len(text), NEW s,
           ReadSoFar(text, i - 1, s),
           \A l \in 1..Len(text): text[l].is = "open" =>
              \E k \in 1..Len(text): ObjectAt(text, l, k)
    PROVE  ReadSoFar(text, i, Scan(s, i, text[i]))
<1> PICK t: t = Scan(s, i, text[i])
  OBVIOUS
<1> SUFFICES ReadSoFar(text, i, t)
  OBVIOUS
<1>1. Len(text) \in Nat /\ i \in Nat /\ s \in Scans
  BY DEF ReadSoFar
<1>2. t \in Scans
  BY <1>1, ScanIsTyped
<1>3. CASE s.start = 0 /\ text[i].is = "open"
  <2>1. t = [start |-> i, depth |-> 1, string |-> FALSE, escaped |-> FALSE, found |-> s.found]
    BY <1>3 DEF Scan
  <2>2. t.start = i /\ t.depth = 1 /\ t.string = FALSE
    BY <1>1, <2>1 DEF Scans
  <2>3. PICK k \in 1..Len(text): ObjectAt(text, i, k)
    BY <1>3
  <2>4. LastOpen(text, i, i) /\ i < k
    BY <1>1, <1>3, <2>3 DEF LastOpen, ObjectAt
  <2> QED  BY <1>2, <2>2, <2>3, <2>4 DEF ReadSoFar
<1>4. CASE s.start = 0 /\ text[i].is # "open"
  <2>1. t = s
    BY <1>4 DEF Scan
  <2>2. CASE \A l \in 1..i - 1: text[l].is # "open"
    <3>1. \A l \in 1..i: text[l].is # "open"
      BY <1>1, <1>4, <2>2
    <3> QED  BY <1>2, <1>4, <2>1, <3>1 DEF ReadSoFar
  <2>3. CASE ~\A l \in 1..i - 1: text[l].is # "open"
    <3>1. PICK j, k \in 1..Len(text):
             /\ LastOpen(text, i - 1, j) /\ ObjectAt(text, j, k)
             /\ \/ i - 1 < k /\ s.start = j /\ s.depth = 1 /\ s.string = FALSE
                \/ /\ k <= i - 1 /\ s.start = 0 /\ s.found # <<>>
                   /\ s.found[Len(s.found)] = <<j, k>>
      BY <2>3 DEF ReadSoFar
    <3>2. k <= i - 1 /\ s.found # <<>> /\ s.found[Len(s.found)] = <<j, k>>
      BY <1>1, <1>4, <3>1
    <3>3. LastOpen(text, i, j) /\ k <= i
      BY <1>1, <1>4, <3>1, <3>2 DEF LastOpen
    <3> QED  BY <1>2, <1>4, <2>1, <3>1, <3>2, <3>3 DEF ReadSoFar
  <2> QED  BY <2>2, <2>3
<1>5. CASE s.start # 0
  <2>1. PICK j, k \in 1..Len(text):
           /\ LastOpen(text, i - 1, j) /\ ObjectAt(text, j, k)
           /\ i - 1 < k /\ s.start = j /\ s.depth = 1 /\ s.string = FALSE
    BY <1>5 DEF ReadSoFar
  <2>2. j <= i - 1 /\ k \in {j + 1, j + 2} /\ i \in {j + 1, j + 2} /\ i <= k
    BY <1>1, <2>1 DEF LastOpen, ObjectAt
  <2>3. CASE i < k
    <3>1. i = j + 1 /\ text[i].is = "body"
      BY <2>1, <2>2, <2>3, <1>1 DEF ObjectAt
    <3>2. t = s
      BY <1>5, <2>1, <3>1 DEF Scan
    <3>3. LastOpen(text, i, j)
      BY <1>1, <2>1, <3>1 DEF LastOpen
    <3> QED  BY <1>2, <2>1, <2>3, <3>2, <3>3 DEF ReadSoFar
  <2>4. CASE i = k
    <3>1. text[i].is = "close"
      BY <2>1, <2>4 DEF ObjectAt, CloseBrace
    <3>2. t = [start |-> 0, depth |-> 0, string |-> FALSE, escaped |-> FALSE,
               found |-> Append(s.found, <<s.start, i>>)]
      BY <1>5, <2>1, <3>1 DEF Scan
    <3>3. t.start = 0 /\ t.found = Append(s.found, <<j, k>>)
      BY <1>1, <2>1, <2>4, <3>2 DEF Scans
    <3>4. s.found \in Seq(Nat \X Nat) /\ <<j, k>> \in Nat \X Nat
      BY <1>1 DEF Scans
    <3>5. /\ Len(t.found) = Len(s.found) + 1 /\ t.found[Len(s.found) + 1] = <<j, k>>
          /\ t.found \in Seq(Nat \X Nat) /\ Len(s.found) \in Nat
      BY <3>3, <3>4, AppendProperties
    <3>9. t.found # <<>>
      BY <3>5, EmptySeq
    <3>7. t.found[Len(t.found)] = <<j, k>>
      BY <3>5
    <3>6. LastOpen(text, i, j)
      BY <1>1, <2>1, <3>1 DEF LastOpen
    <3> QED  BY <1>2, <2>1, <2>4, <3>3, <3>6, <3>7, <3>9 DEF ReadSoFar
  <2> QED  BY <2>2, <2>3, <2>4, <1>1
<1> QED  BY <1>3, <1>4, <1>5

(* What is found in a tidy text is its last object.                        *)
LEMMA TidyGivesTheLast ==
    ASSUME NEW T, NEW text \in Seq(T), Tidy(text)
    PROVE  Extracted(text) = {LastObject(text)}
<1> DEFINE n == Len(text)
<1>1. n \in Nat /\ DOMAIN text = 1..n
  OBVIOUS
<1>2. \A l \in 1..n: text[l].is = "open" => \E k \in 1..n: ObjectAt(text, l, k)
  <2> SUFFICES ASSUME NEW l \in 1..n, text[l].is = "open"
               PROVE  \E k \in 1..n: ObjectAt(text, l, k)
    OBVIOUS
  <2>1. PICK k \in {l + 1, l + 2} \cap DOMAIN text: Object(SubSeq(text, l, k))
    BY <1>1 DEF Tidy
  <2>2. k \in 1..n /\ k <= Len(text)
    BY <1>1, <2>1
  <2>3. ObjectAt(text, l, k)
    BY <2>1, <2>2, ObjectPiece
  <2> QED  BY <2>2, <2>3
<1>3. PICK at: ScannedAlong(at, text) /\ Scanned(text) = at[n].found
  BY <1>1, ScansToTheEnd
<1>4. \A i \in 0..n: ReadSoFar(text, i, at[i])
  <2> DEFINE P == {i \in 0..n: ReadSoFar(text, i, at[i])}
  <2>1. 0 \in P
    <3>1. at[0] = Unscanned
      BY <1>1, <1>3 DEF ScannedAlong
    <3>2. Unscanned \in Scans
      BY EmptySeq DEF Scans, Unscanned
    <3>3. Unscanned.start = 0
      BY DEF Unscanned
    <3> QED  BY <1>1, <3>1, <3>2, <3>3 DEF ReadSoFar
  <2>2. ASSUME NEW i \in 1..n, i - 1 \in P PROVE i \in P
    <3>1. at[i] = Scan(at[i - 1], i, text[i])
      BY <1>1, <1>3 DEF ScannedAlong
    <3>2. ReadSoFar(text, i - 1, at[i - 1])
      BY <2>2
    <3>3. ReadSoFar(text, i, at[i])
      BY <1>2, <3>1, <3>2, ScanReadsOn
    <3> QED  BY <3>3
  <2> HIDE DEF P, n
  <2>3. \A i \in 0..n: i \in P
    BY <1>1, <2>1, <2>2, SetInduction
  <2> QED  BY <2>3 DEF P
<1>5. PICK j, k \in 1..n: /\ LastOpen(text, n, j) /\ ObjectAt(text, j, k)
                          /\ at[n].found # <<>> /\ at[n].found[Len(at[n].found)] = <<j, k>>
  <2>1. ReadSoFar(text, n, at[n]) /\ \E l \in 1..n: text[l].is = "open"
    BY <1>1, <1>4 DEF Tidy, HasOpen
  <2> QED  BY <1>1, <2>1 DEF ReadSoFar
<1> DEFINE found == Scanned(text)
           part(m) == SubSeq(text, found[m][1], found[m][2])
           valid == {m \in 1..Len(found): Object(part(m))}
           last == Len(found)
<1>6. found \in Seq(Nat \X Nat) /\ found # <<>> /\ found[last] = <<j, k>>
  <2>1. at[n] \in Scans
    BY <1>1, <1>4 DEF ReadSoFar
  <2> QED  BY <1>3, <1>5, <2>1 DEF Scans
<1>7. k \in {j + 1, j + 2} /\ k <= Len(text) /\ text[j] = OpenBrace
  BY <1>1, <1>5 DEF ObjectAt
<1>8. /\ part(last) = SubSeq(text, j, k) /\ Object(part(last))
      /\ Loaded(part(last)) = IF k = j + 1 THEN BareObject ELSE text[j + 1].says
  <2>1. part(last) = SubSeq(text, j, k)
    BY <1>6
  <2> QED  BY <1>5, <1>7, <2>1, ObjectPiece
<1>9. last \in valid /\ \A m \in valid: m <= last
  <2>1. last \in Nat /\ last # 0
    <3> HIDE DEF found
    <3> QED  BY <1>6, EmptySeq, LenProperties
  <2>2. last \in 1..Len(found)
    <3> HIDE DEF found
    <3> QED  BY <2>1
  <2>3. \A m \in valid: m \in 1..last
    <3> HIDE DEF found, part
    <3> QED  OBVIOUS
  <2>4. last \in valid
    <3> HIDE DEF found, part
    <3> QED  BY <1>8, <2>2
  <2> HIDE DEF found, part, valid, last
  <2> QED  BY <2>1, <2>3, <2>4
<1>10. {m \in valid: \A l \in valid: l <= m} = {last}
  <2>1. valid \subseteq Int
    OBVIOUS
  <2>2. \A m \in valid: (\A l \in valid: l <= m) <=> m = last
    <3> HIDE DEF valid, last
    <3> QED  BY <1>9, <2>1
  <2> HIDE DEF valid, last
  <2> QED  BY <1>9, <2>2
<1>11. Extracted(text) = {Loaded(part(m)): m \in {l \in valid: \A o \in valid: o <= l}}
  BY DEF Extracted
<1>12. Extracted(text) = {Loaded(part(last))}
  <2> HIDE DEF valid, last, part
  <2> QED  BY <1>10, <1>11
<1>13. LastObject(text) = IF text[j + 1].is = "close" THEN BareObject ELSE text[j + 1].says
  <2>1. j = CHOOSE i \in DOMAIN text:
               text[i].is = "open" /\ \A l \in DOMAIN text: text[l].is = "open" => l <= i
    <3>1. \A i \in 1..n: (text[i].is = "open" /\ \A l \in 1..n: text[l].is = "open" => l <= i)
                            <=> i = j
      BY <1>1, <1>5 DEF LastOpen
    <3> QED  BY <1>1, <3>1
  <2> QED  BY <2>1 DEF LastObject
<1>14. k = j + 1 <=> text[j + 1].is = "close"
  BY <1>5, <1>1 DEF ObjectAt, CloseBrace
<1> QED  BY <1>8, <1>12, <1>13, <1>14

(* An object and nothing else is its own last one.                         *)
LEMMA ObjectIsItsLast ==
    ASSUME NEW T, NEW text \in Seq(T), Object(text)
    PROVE  Loaded(text) = LastObject(text)
<1>1. /\ Len(text) \in {2, 3} /\ DOMAIN text = 1..Len(text)
      /\ text[1] = OpenBrace /\ text[Len(text)] = CloseBrace
      /\ Len(text) = 3 => text[2].is = "body"
  BY DEF Object
<1>2. \A i \in DOMAIN text: text[i].is = "open" <=> i = 1
  BY <1>1 DEF OpenBrace, CloseBrace
<1>3. 1 = CHOOSE i \in DOMAIN text:
             text[i].is = "open" /\ \A l \in DOMAIN text: text[l].is = "open" => l <= i
  <2>1. \A i \in DOMAIN text:
           (text[i].is = "open" /\ \A l \in DOMAIN text: text[l].is = "open" => l <= i) <=> i = 1
    BY <1>1, <1>2
  <2>2. 1 \in DOMAIN text
    BY <1>1
  <2> QED  BY <2>1, <2>2
<1>4. LastObject(text) = IF text[2].is = "close" THEN BareObject ELSE text[2].says
  <2>1. PICK j: j = CHOOSE i \in DOMAIN text:
                   text[i].is = "open" /\ \A l \in DOMAIN text: text[l].is = "open" => l <= i
    OBVIOUS
  <2>2. LastObject(text) = IF text[j + 1].is = "close" THEN BareObject ELSE text[j + 1].says
    BY <2>1 DEF LastObject
  <2>3. j = 1
    BY <1>3, <2>1, Zenon
  <2> QED  BY <2>2, <2>3
<1>5. text[2].is = "close" <=> Len(text) = 2
  BY <1>1 DEF CloseBrace
<1> QED  BY <1>4, <1>5 DEF Loaded

-----------------------------------------------------------------------------
(* VisionBackend: answers and retries                                      *)

(* What AnswerIsTheModels says of an answer.                               *)
Fits(how, reply, answer) ==
    LET says == LastObject(reply.text).scores IN
    /\ answer.is = "answer" /\ how.backend = "omlx" =>
          \A c \in Criteria:
             /\ says[c] # Missing
             /\ how.task = "full" =>
                   \/ says[c] = NotANumber
                   \/ says[c] \notin Odd /\ answer.scores[c] = Bounded(says[c])
    /\ answer.is = "answer" /\ how.backend = "ollama" /\ how.task # "text" /\ Tidy(reply.text) =>
          answer.scores = Bounds(says)
    /\ answer.is \in {"value error", "http error"} => ~HasWholeAnswer(how, reply)

(* The property, in these words.                                           *)
LEMMA AnswerFits ==
    AnswerIsTheModels <=> Fits(ask, outcome.reply, outcome.how) /\ ~missed
  BY DEF AnswerIsTheModels, Fits

(* So does a call that still waits.                                        *)
LEMMA AwaitedFits ==
    ASSUME NEW how, NEW reply PROVE Fits(how, reply, Awaited)
<1>1. Awaited.is = "none"
  BY DEF Awaited
<1> QED  BY <1>1 DEF Fits

(* Nothing is raised before a whole answer is looked at.                   *)
LEMMA WholeIsLookedAt ==
    ASSUME NEW how \in Calls, NEW reply, HasWholeAnswer(how, reply)
    PROVE  FailsWith(how, reply) = {}
<1>1. reply.shape \in {"parsed", "content"}
  BY DEF HasWholeAnswer
<1>2. how.backend = "omlx" => Strict(reply) # {}
  BY <1>1 DEF HasWholeAnswer, Strict
<1> QED  BY <1>1, <1>2 DEF FailsWith

(* What is raised is an error.                                             *)
LEMMA RaisedIsError ==
    ASSUME NEW how \in Calls, NEW reply, FailsWith(how, reply) # {}
    PROVE  (CHOOSE e \in FailsWith(how, reply): TRUE) \in {"http error", "escaped", "value error"}
<1>1. FailsWith(how, reply) \in {{"http error"}, {"escaped"}, {"value error"}}
  BY DEF FailsWith
<1> QED  BY <1>1

(* An attempt ends with an answer that fits or asks again.                 *)
LEMMA AttemptFits ==
    ASSUME ask \in Calls, ~missed, NEW reply \in Replies, NEW answer, NEW again,
           Attempt(reply, answer, again), FailsWith(ask, reply) = {} => Fits(ask, reply, answer)
    PROVE  AnswerIsTheModels'
<1> DEFINE raised == FailsWith(ask, reply)
           found == IF raised = {} THEN answer ELSE Bad(CHOOSE e \in raised: TRUE)
           more == again /\ found.is \in {"value error", "http error"} /\ attempt + 1 < Retries
<1>1. Fits(ask, reply, found)
  <2>1. CASE raised = {}
    BY <2>1
  <2>2. CASE raised # {}
    <3>1. found.is \in {"http error", "escaped", "value error"}
      BY <2>2, RaisedIsError DEF Bad
    <3>2. ~HasWholeAnswer(ask, reply)
      BY <2>2, WholeIsLookedAt
    <3> HIDE DEF found
    <3> QED  BY <3>1, <3>2 DEF Fits
  <2> QED  BY <2>1, <2>2
<1>2. /\ outcome.how = Awaited /\ ask' = ask
      /\ missed' = (missed \/ (more /\ HasWholeAnswer(ask, reply)))
      /\ outcome' = IF more THEN outcome ELSE [how |-> found, reply |-> reply]
  BY DEF Attempt
<1>3. more => ~HasWholeAnswer(ask, reply)
  <2> HIDE DEF found
  <2> QED  BY <1>1 DEF Fits
<1>4. ~missed'
  <2> HIDE DEF more
  <2> QED  BY <1>2, <1>3
<1>5. Fits(ask, outcome.reply, outcome.how)
  BY <1>2, AwaitedFits
<1>6. Fits(ask', outcome'.reply, outcome'.how)
  <2>1. CASE more
    <3> HIDE DEF more
    <3> QED  BY <1>2, <1>5, <2>1
  <2>2. CASE ~more
    <3> HIDE DEF more, found
    <3> QED  BY <1>1, <1>2, <2>2
  <2> QED  BY <2>1, <2>2
<1> HIDE DEF more, found
<1>7. Fits(ask, outcome.reply, outcome.how)'
  BY <1>6
<1> QED  BY <1>4, <1>6 DEF AnswerIsTheModels, Fits

(* The text of a reply.                                                    *)
LEMMA ReplyIsText ==
    ASSUME NEW reply \in Replies
    PROVE  reply.text \in Seq({reply.text[i]: i \in DOMAIN reply.text})
  BY BackendAssumption DEF IsText

(* What the strict reading accepts is the last object.                     *)
LEMMA StrictReads ==
    ASSUME NEW reply \in Replies, NEW how \in Calls, how.backend = "omlx",
           FailsWith(how, reply) = {}
    PROVE  Strict(reply) = {LastObject(reply.text)}
<1>1. reply.shape # "error" => Strict(reply) # {}
  BY DEF FailsWith
<1>2. reply.shape # "error"
  BY DEF FailsWith
<1>3. Object(reply.text) /\ Strict(reply) = {Loaded(reply.text)}
  BY <1>1, <1>2 DEF Strict
<1> QED  BY <1>3, ReplyIsText, ObjectIsItsLast

(* An oMLX answer is taken from what passed its check.                     *)
LEMMA StrictFits ==
    ASSUME NEW reply \in Replies, NEW how \in Calls, how.backend = "omlx",
           FailsWith(how, reply) = {}, NEW answer, NEW whole, NEW scores,
           answer = IF whole THEN Good(scores) ELSE Bad("value error"),
           HasWholeAnswer(how, reply) => whole,
           whole => \A c \in Criteria: LastObject(reply.text).scores[c] # Missing,
           whole /\ how.task = "full" =>
              \A c \in Criteria: 
                 LET v == LastObject(reply.text).scores[c] IN
                 v = NotANumber \/ (v \notin Odd /\ scores[c] = Bounded(v))
    PROVE  Fits(how, reply, answer)
<1>1. CASE whole
  <2>1. answer.is = "answer" /\ answer.scores = scores
    BY <1>1 DEF Good
  <2> QED  BY <1>1, <2>1 DEF Fits, Calls
<1>2. CASE ~whole
  <2>1. answer.is = "value error"
    BY <1>2 DEF Bad
  <2> QED  BY <1>2, <2>1 DEF Fits
<1> QED  BY <1>1, <1>2

(* A full score fits, whichever backend and reading ...                    *)
LEMMA FullFits ==
    ASSUME NEW reply \in Replies, NEW how \in Calls, how.task = "full",
           FailsWith(how, reply) = {}
    PROVE  Fits(how, reply, FullAnswer(how, reply))
<1> DEFINE last == LastObject(reply.text)
<1>1. CASE how.backend = "omlx"
  <2>1. Strict(reply) = {last}
    BY <1>1, StrictReads
  <2>2. FullAnswer(how, reply) = IF WholeScore(last) THEN Good(Bounds(last.scores)) ELSE Bad("value error")
    <3> HIDE DEF last
    <3>1. (CHOOSE p \in Strict(reply): TRUE) = last
      BY <2>1
    <3>2. (\E p \in Strict(reply): WholeScore(p)) <=> WholeScore(last)
      BY <2>1
    <3>3. FullAnswer(how, reply) =
             IF \E p \in Strict(reply): WholeScore(p)
             THEN Good(Bounds((CHOOSE p \in Strict(reply): TRUE).scores)) ELSE Bad("value error")
      BY <1>1 DEF FullAnswer, Checked, Parsed
    <3> QED  BY <3>1, <3>2, <3>3
  <2>3. HasWholeAnswer(how, reply) => WholeScore(last)
    BY DEF HasWholeAnswer
  <2>4. WholeScore(last) => \A c \in Criteria: last.scores[c] \notin {Missing, Worded, Dummy}
    BY DEF WholeScore
  <2>5. WholeScore(last) => \A c \in Criteria: last.scores[c] # Missing
    BY <2>4
  <2>6. WholeScore(last) =>
           \A c \in Criteria: \/ last.scores[c] = NotANumber
                              \/ /\ last.scores[c] \notin Odd
                                 /\ Bounds(last.scores)[c] = Bounded(last.scores[c])
    BY <2>4 DEF Odd, Bounds
  <2> HIDE DEF last
  <2>7. PICK whole, scores: whole = WholeScore(last) /\ scores = Bounds(last.scores)
    OBVIOUS
  <2> QED  BY <1>1, <2>2, <2>3, <2>5, <2>6, <2>7, StrictFits DEF last
<1>2. CASE how.backend = "ollama"
  <2>1. FullAnswer(how, reply) = Lenient(reply.text)
    BY <1>2 DEF FullAnswer
  <2>2. SUFFICES ASSUME Tidy(reply.text)
                 PROVE  /\ Lenient(reply.text).is = "answer" =>
                              Lenient(reply.text).scores = Bounds(last.scores)
                        /\ Lenient(reply.text).is \in {"value error", "http error"} =>
                              ~HasWholeAnswer(how, reply)
    BY <1>2, <2>1 DEF Fits, HasWholeAnswer
  <2>3. Extracted(reply.text) = {last} /\ HasOpen(reply.text)
    BY <2>2, ReplyIsText, TidyGivesTheLast DEF Tidy
  <2> HIDE DEF last
  <2>4. Lenient(reply.text) = IF last.raw = "number" THEN Bad("escaped") ELSE Good(Bounds(last.scores))
    <3>1. ReadFrom(reply.text) = {last}
      BY <2>3 DEF ReadFrom
    <3>2. ReadFrom(reply.text) # {} /\ (CHOOSE p \in ReadFrom(reply.text): TRUE) = last
      BY <3>1
    <3> QED  BY <2>3, <3>2 DEF Lenient
  <2> QED  BY <2>4 DEF Bad, Good
<1> QED  BY <1>1, <1>2 DEF Calls

(* ... so does a fast one ...                                              *)
LEMMA FastFits ==
    ASSUME NEW reply \in Replies, NEW how \in Calls, how.task = "fast",
           FailsWith(how, reply) = {}
    PROVE  Fits(how, reply, FastAnswer(how, reply))
<1> DEFINE last == LastObject(reply.text)
           found == Parsed(how, reply)
<1>1. FastAnswer(how, reply) =
             IF \E p \in found: FastKeys(p)
             THEN Good(Bounds((CHOOSE p \in found: TRUE).scores)) ELSE Bad("value error")
  BY DEF FastAnswer, Checked
<1>2. HasWholeAnswer(how, reply) => FastKeys(last)
  BY DEF HasWholeAnswer
<1>3. ASSUME found = {last}
      PROVE  FastAnswer(how, reply) =
                IF FastKeys(last) THEN Good(Bounds(last.scores)) ELSE Bad("value error")
  <2> HIDE DEF found, last
  <2> QED  BY <1>1, <1>3
<1>4. CASE how.backend = "omlx"
  <2>1. found = {last}
    BY <1>4, StrictReads DEF Parsed
  <2>2. FastAnswer(how, reply) =
                IF FastKeys(last) THEN Good(Bounds(last.scores)) ELSE Bad("value error")
    BY <1>3, <2>1
  <2>3. FastKeys(last) => \A c \in Criteria: last.scores[c] # Missing
    BY DEF FastKeys
  <2> HIDE DEF last, found
  <2>4. PICK whole, scores: whole = FastKeys(last) /\ scores = Bounds(last.scores)
    OBVIOUS
  <2>5. how.task # "full"
    OBVIOUS
  <2> QED  BY <1>2, <1>4, <2>2, <2>3, <2>4, <2>5, StrictFits DEF last
<1>5. CASE how.backend = "ollama"
  <2>2. SUFFICES ASSUME Tidy(reply.text)
                 PROVE  /\ FastAnswer(how, reply).is = "answer" =>
                              FastAnswer(how, reply).scores = Bounds(last.scores)
                        /\ FastAnswer(how, reply).is \in {"value error", "http error"} =>
                              ~HasWholeAnswer(how, reply)
    BY <1>5 DEF Fits, HasWholeAnswer
  <2>3. found = {last}
    BY <1>5, <2>2, ReplyIsText, TidyGivesTheLast DEF Parsed
  <2>4. FastAnswer(how, reply) =
                IF FastKeys(last) THEN Good(Bounds(last.scores)) ELSE Bad("value error")
    BY <1>3, <2>3
  <2> HIDE DEF last, found
  <2>5. CASE FastKeys(last)
    <3>1. FastAnswer(how, reply).is = "answer" /\ FastAnswer(how, reply).scores = Bounds(last.scores)
      BY <2>4, <2>5 DEF Good
    <3> QED  BY <3>1
  <2>6. CASE ~FastKeys(last)
    <3>1. FastAnswer(how, reply).is = "value error"
      <4>1. FastAnswer(how, reply) = Bad("value error")
        BY <2>4, <2>6, Zenon
      <4>2. Bad("value error").is = "value error"
        BY DEF Bad
      <4> QED  BY <4>1, <4>2, Zenon
    <3> QED  BY <1>2, <2>6, <3>1
  <2> QED  BY <2>5, <2>6
<1> QED  BY <1>4, <1>5 DEF Calls

(* ... and a text.                                                         *)
LEMMA TextFits ==
    ASSUME NEW reply \in Replies, NEW how \in Calls, how.task = "text",
           FailsWith(how, reply) = {}
    PROVE  Fits(how, reply, TextAnswer(how, reply))
<1> DEFINE last == LastObject(reply.text)
<1>1. CASE how.backend = "omlx"
  <2>1. Strict(reply) = {last}
    BY <1>1, StrictReads
  <2>2. TextAnswer(how, reply) = IF WholeText(last) THEN Good(last.scores) ELSE Bad("value error")
    <3> HIDE DEF last
    <3>1. (CHOOSE p \in Strict(reply): TRUE) = last
      BY <2>1
    <3>2. (\E p \in Strict(reply): WholeText(p)) <=> WholeText(last)
      BY <2>1
    <3>3. TextAnswer(how, reply) =
             IF \E p \in Strict(reply): WholeText(p)
             THEN Good((CHOOSE p \in Strict(reply): TRUE).scores) ELSE Bad("value error")
      BY <1>1 DEF TextAnswer, Checked, Parsed
    <3> QED  BY <3>1, <3>2, <3>3
  <2>3. HasWholeAnswer(how, reply) => WholeText(last)
    BY DEF HasWholeAnswer
  <2>4. WholeText(last) => \A c \in Criteria: last.scores[c] # Missing
    BY DEF WholeText, Worded, Missing
  <2> HIDE DEF last
  <2>5. PICK whole, scores: whole = WholeText(last) /\ scores = last.scores
    OBVIOUS
  <2>6. how.task # "full"
    OBVIOUS
  <2> QED  BY <1>1, <2>2, <2>3, <2>4, <2>5, <2>6, StrictFits DEF last
<1>2. CASE how.backend = "ollama"
  <2>1. TextAnswer(how, reply).is = "answer"
    BY <1>2 DEF TextAnswer, Good
  <2> QED  BY <1>2, <2>1 DEF Fits
<1> QED  BY <1>1, <1>2 DEF Calls

(* The invariant: the call is one that is made, its answer fits so far.    *)
BackendInv == ask \in Calls /\ AnswerIsTheModels

(* Before the first attempt.                                               *)
LEMMA BackendStart == BackendInit => BackendInv
<1> SUFFICES ASSUME BackendInit PROVE BackendInv
  OBVIOUS
<1>1. outcome.how = Awaited /\ ~missed /\ ask \in Calls
  BY DEF BackendInit
<1> QED  BY <1>1, AwaitedFits, AnswerFits DEF BackendInv

(* Every attempt and every further call keep it.                           *)
LEMMA BackendStep ==
    ASSUME BackendInv, [BackendNext]_backendVars PROVE BackendInv'
<1>1. ~missed /\ ask \in Calls /\ AnswerIsTheModels
  BY DEF BackendInv, AnswerIsTheModels
<1>0. SUFFICES ask' \in Calls /\ AnswerIsTheModels'
  BY DEF BackendInv
<1>2. CASE ScoreImage
  <2>1. PICK reply \in Replies: Attempt(reply, FullAnswer(ask, reply), TRUE)
    BY <1>2 DEF ScoreImage
  <2>2. ask.task = "full" /\ ask' = ask
    BY <1>2, <2>1 DEF ScoreImage, Attempt
  <2> QED  BY <1>1, <2>1, <2>2, FullFits, AttemptFits
<1>3. CASE ScoreImageFast
  <2>1. PICK reply \in Replies: Attempt(reply, FastAnswer(ask, reply), TRUE)
    BY <1>3 DEF ScoreImageFast
  <2>2. ask.task = "fast" /\ ask' = ask
    BY <1>3, <2>1 DEF ScoreImageFast, Attempt
  <2> QED  BY <1>1, <2>1, <2>2, FastFits, AttemptFits
<1>4. CASE GenerateCommentary
  <2>1. PICK reply \in Replies: Attempt(reply, TextAnswer(ask, reply), FALSE)
    BY <1>4 DEF GenerateCommentary
  <2>2. ask.task = "text" /\ ask' = ask
    BY <1>4, <2>1 DEF GenerateCommentary, Attempt
  <2> QED  BY <1>1, <2>1, <2>2, TextFits, AttemptFits
<1>5. CASE NextCall
  <2>1. outcome'.how = Awaited /\ ~missed' /\ ask' \in Calls
    BY <1>5 DEF NextCall
  <2>2. Fits(ask', outcome'.reply, outcome'.how)
    BY <2>1, AwaitedFits
  <2>3. Fits(ask, outcome.reply, outcome.how)'
    BY <2>2
  <2> QED  BY <2>1, <2>2 DEF AnswerIsTheModels, Fits
<1>6. CASE UNCHANGED backendVars
  BY <1>1, <1>6 DEF backendVars, AnswerIsTheModels
<1> QED  BY <1>2, <1>3, <1>4, <1>5, <1>6 DEF BackendNext

(* An answer is what the model said: no default stands in for a missing    *)
(* value, no other object of the text for the last one, and no attempt is  *)
(* repeated or given up after a whole answer (json_extract.py, omlx.py,    *)
(* ollama.py).                                                             *)
THEOREM AnswersAreTheModels == BackendSpec => []AnswerIsTheModels
<1>1. BackendInv => AnswerIsTheModels
  BY DEF BackendInv
<1> QED  BY <1>1, BackendStart, BackendStep, PTL DEF BackendSpec

-----------------------------------------------------------------------------
(* Commentary: lists in order                                              *)

LEMMA FiniteListed ==
    ASSUME NEW n \in Nat, NEW list
    PROVE  IsFiniteSet({list[i]: i \in 1..n})
<1>1. PICK places: places = 1..n
  OBVIOUS
<1>2. IsFiniteSet(places)
  <2>1. 1 \in Int /\ n \in Int
    OBVIOUS
  <2> QED  BY <1>1, <2>1, FS_Interval
<1>3. PICK all: all = {list[i]: i \in places}
  OBVIOUS
<1>4. IsFiniteSet(all)
  BY <1>2, <1>3, FewValues
<1> QED  BY <1>1, <1>3, <1>4

\* Of a list without repetitions each element has its one place.
LEMMA AheadRanks ==
    ASSUME NEW n \in Nat, NEW list, DOMAIN list = 1..n,
           \A i, j \in 1..n: list[i] = list[j] => i = j
    PROVE  /\ IsFiniteSet(ItemsOf(list))
           /\ \A a \in ItemsOf(list): ~Ahead(list, a, a)
           /\ \A a, b \in ItemsOf(list): a # b => Ahead(list, a, b) \/ Ahead(list, b, a)
           /\ \A a, b, c \in ItemsOf(list): Ahead(list, a, b) /\ Ahead(list, b, c) => Ahead(list, a, c)
<1>2. ItemsOf(list) = {list[i]: i \in 1..n}
  BY DEF ItemsOf
<1>3. IsFiniteSet(ItemsOf(list))
  BY <1>2, FiniteListed
<1>4. \A a, b: Ahead(list, a, b) <=> \E i, j \in 1..n: i < j /\ list[i] = a /\ list[j] = b
  BY DEF Ahead
<1>5. \A a \in ItemsOf(list): ~Ahead(list, a, a)
  <2> SUFFICES ASSUME NEW i \in 1..n, NEW j \in 1..n, i < j, list[i] = list[j] PROVE FALSE
    BY <1>4
  <2> QED  OBVIOUS
<1>6. ASSUME NEW a \in ItemsOf(list), NEW b \in ItemsOf(list), a # b
      PROVE  Ahead(list, a, b) \/ Ahead(list, b, a)
  <2>1. PICK i \in 1..n: list[i] = a
    BY <1>2
  <2>2. PICK j \in 1..n: list[j] = b
    BY <1>2
  <2>3. i < j \/ j < i
    BY <1>6, <2>1, <2>2
  <2> QED  BY <1>4, <2>1, <2>2, <2>3
<1>7. ASSUME NEW a, NEW b, NEW c, Ahead(list, a, b), Ahead(list, b, c)
      PROVE  Ahead(list, a, c)
  <2>1. PICK i \in 1..n, j \in 1..n: i < j /\ list[i] = a /\ list[j] = b
    BY <1>4, <1>7
  <2>2. PICK k \in 1..n, l \in 1..n: k < l /\ list[k] = b /\ list[l] = c
    BY <1>4, <1>7
  <2>3. j = k
    BY <2>1, <2>2
  <2>4. i < l
    BY <2>1, <2>2, <2>3
  <2> QED  BY <1>4, <2>1, <2>2, <2>4
<1> QED  BY <1>3, <1>5, <1>6, <1>7

\* The order of the dimensions.
Known == ItemsOf(DimPriority)

LEMMA DimsDiffer ==
    /\ IsFiniteSet(Known)
    /\ \A a \in Known: ~ComesBefore(a, a)
    /\ \A a, b \in Known: a # b => ComesBefore(a, b) \/ ComesBefore(b, a)
    /\ \A a, b, c \in Known: ComesBefore(a, b) /\ ComesBefore(b, c) => ComesBefore(a, c)
<1>1. DOMAIN DimPriority = 1..9
  BY DEF DimPriority
<1>2. \A i, j \in 1..9: DimPriority[i] = DimPriority[j] => i = j
  <2> SUFFICES ASSUME NEW i \in 1..9, NEW j \in 1..9, i < j PROVE DimPriority[i] # DimPriority[j]
    OBVIOUS
  <2>1. i = 1 \/ i = 2 \/ i = 3 \/ i = 4 \/ i = 5 \/ i = 6 \/ i = 7 \/ i = 8 \/ i = 9
    OBVIOUS
  <2>2. j = 1 \/ j = 2 \/ j = 3 \/ j = 4 \/ j = 5 \/ j = 6 \/ j = 7 \/ j = 8 \/ j = 9
    OBVIOUS
  <2> QED  BY <2>1, <2>2 DEF DimPriority
<1>3. 9 \in Nat
  OBVIOUS
<1> QED  BY <1>1, <1>2, <1>3, AheadRanks DEF ComesBefore, Known

\* In an order that tells any two apart, the list has every element once.
LEMMA OrderedListsAll ==
    ASSUME NEW S, IsFiniteSet(S), NEW before, Ranked(S, before)
    PROVE  \E n \in Nat: /\ n = Cardinality(S) /\ Ordered(S, before) \in [1..n -> S]
                         /\ ItemsOf(Ordered(S, before)) = S
                         /\ \A i, j \in 1..n: Ordered(S, before)[i] = Ordered(S, before)[j] => i = j
                         /\ \A i, j \in 1..n: i < j =>
                              <<Ordered(S, before)[i], Ordered(S, before)[j]>> \in before
<1>1. PICK n \in Nat: n = Cardinality(S)
  BY FS_CardinalityType
<1>2. PICK list: list = Ordered(S, before)
  OBVIOUS
<1> DEFINE rank(x) == Cardinality(Preceding(S, before, x))
<1>3. DOMAIN list = 1..n /\ \A i \in 1..n: list[i] \in S /\ rank(list[i]) = i - 1
  BY <1>1, <1>2, SortedLists
<1>4. \A x \in S: rank(x) \in 0..(n - 1)
  BY <1>1, SortedLists
<1>5. \A x, y \in S: rank(x) = rank(y) => x = y
  BY SortedLists
<1>6. \A x, y \in S: <<x, y>> \in before => rank(x) < rank(y)
  BY SortedLists
<1> HIDE DEF rank
<1>7. list \in [1..n -> S]
  <2>1. list = [i \in 1..n |-> list[i]]
    BY <1>1, <1>2, <1>3 DEF Ordered
  <2> QED  BY <1>3, <2>1
<1>8. ItemsOf(list) = S
  <2>1. \A x \in S: \E i \in 1..n: list[i] = x
    <3> TAKE x \in S
    <3>1. PICK r \in 0..(n - 1): r = rank(x)
      BY <1>4
    <3>2. r + 1 \in 1..n /\ list[r + 1] \in S /\ rank(list[r + 1]) = rank(x)
      BY <1>3, <3>1
    <3> QED  BY <1>5, <3>2
  <2> QED  BY <1>3, <2>1 DEF ItemsOf
<1>9. \A i, j \in 1..n: list[i] = list[j] => i = j
  <2> SUFFICES ASSUME NEW i \in 1..n, NEW j \in 1..n, list[i] = list[j] PROVE i = j
    OBVIOUS
  <2>1. i - 1 = j - 1
    BY <1>3
  <2> QED  BY <2>1
<1>10. ASSUME NEW i \in 1..n, NEW j \in 1..n, i < j PROVE <<list[i], list[j]>> \in before
  <2>1. list[i] \in S /\ list[j] \in S /\ rank(list[i]) = i - 1 /\ rank(list[j]) = j - 1
    BY <1>3
  <2>2. list[i] # list[j]
    BY <1>9, <1>10
  <2>3. ~(<<list[j], list[i]>> \in before)
    <3> SUFFICES ASSUME <<list[j], list[i]>> \in before PROVE FALSE
      OBVIOUS
    <3>1. j - 1 < i - 1
      BY <1>6, <2>1
    <3> QED  BY <1>10, <3>1
  <2> QED  BY <2>1, <2>2, <2>3 DEF Ranked
<1> QED  BY <1>1, <1>2, <1>7, <1>8, <1>9, <1>10

\* The first two of a list.
LEMMA TwoFirst ==
    ASSUME NEW n \in Nat, NEW S, NEW list \in [1..n -> S]
    PROVE  /\ FirstTwo(list) \in Seq(S)
           /\ Len(FirstTwo(list)) = IF n < 2 THEN n ELSE 2
           /\ DOMAIN FirstTwo(list) = 1..(IF n < 2 THEN n ELSE 2)
           /\ \A i \in 1..(IF n < 2 THEN n ELSE 2): FirstTwo(list)[i] = list[i]
<1>1. list \in Seq(S)
  BY SeqDef
<1>2. Len(list) = n
  <2>1. Len(list) \in Nat /\ DOMAIN list = 1..Len(list) /\ DOMAIN list = 1..n
    BY <1>1, LenProperties
  <2> QED  BY <2>1
<1>3. PICK m \in 0..n: m = IF n < 2 THEN n ELSE 2
  OBVIOUS
<1>4. FirstTwo(list) = SubSeq(list, 1, m)
  BY <1>2, <1>3 DEF FirstTwo
<1>5. /\ SubSeq(list, 1, m) \in Seq(S) /\ Len(SubSeq(list, 1, m)) = IF 1 <= m THEN m - 1 + 1 ELSE 0
      /\ \A i \in 1..(m - 1 + 1): SubSeq(list, 1, m)[i] = list[1 + i - 1]
  <2>1. 1 \in Int /\ m \in Int /\ \A i \in 1..m: list[i] \in S
    BY <1>3
  <2> QED  BY <2>1, SubSeqProperties
<1>6. Len(FirstTwo(list)) = m
  BY <1>3, <1>4, <1>5
<1>7. DOMAIN FirstTwo(list) = 1..m
  BY <1>4, <1>5, <1>6, LenProperties
<1>8. \A i \in 1..m: FirstTwo(list)[i] = list[i]
  <2> TAKE i \in 1..m
  <2>1. i \in 1..(m - 1 + 1) /\ 1 + i - 1 = i
    BY <1>3
  <2> QED  BY <1>4, <1>5, <2>1
<1> QED  BY <1>3, <1>4, <1>5, <1>6, <1>7, <1>8

LEMMA FirstTwoOf ==
    ASSUME NEW S, NEW list \in Seq(S), NEW n, n = Len(list)
    PROVE  /\ FirstTwo(list) \in Seq(S)
           /\ Len(FirstTwo(list)) = IF n < 2 THEN n ELSE 2
           /\ DOMAIN FirstTwo(list) = 1..(IF n < 2 THEN n ELSE 2)
           /\ \A i \in 1..(IF n < 2 THEN n ELSE 2): FirstTwo(list)[i] = list[i]
<1>1. n \in Nat /\ list \in [1..n -> S]
  BY LenProperties
<1> QED  BY <1>1, TwoFirst

\* The two that come first of a set come before all the others.
LEMMA FirstComeFirst ==
    ASSUME NEW S, IsFiniteSet(S), NEW before, Ranked(S, before), NEW two,
           two = FirstTwo(Ordered(S, before))
    PROVE  /\ two \in Seq(S) /\ Len(two) \in 0..2 /\ DOMAIN two = 1..Len(two)
           /\ ItemsOf(two) \subseteq S /\ (Len(two) < 2 => ItemsOf(two) = S)
           /\ \A d \in ItemsOf(two), e \in S \ ItemsOf(two): <<d, e>> \in before
<1>1. PICK n \in Nat: /\ Ordered(S, before) \in [1..n -> S]
                      /\ ItemsOf(Ordered(S, before)) = S
                      /\ \A i, j \in 1..n: i < j =>
                           <<Ordered(S, before)[i], Ordered(S, before)[j]>> \in before
  BY OrderedListsAll
<1>2. PICK list: list = Ordered(S, before)
  OBVIOUS
<1>3. list \in [1..n -> S] /\ \A e \in S: \E j \in 1..n: list[j] = e
  BY <1>1, <1>2 DEF ItemsOf
<1>4. PICK m \in 0..2: m = IF n < 2 THEN n ELSE 2
  OBVIOUS
<1>5. two \in Seq(S) /\ Len(two) = m /\ DOMAIN two = 1..m /\ \A i \in 1..m: two[i] = list[i]
  <2>1. /\ FirstTwo(list) \in Seq(S)
        /\ Len(FirstTwo(list)) = IF n < 2 THEN n ELSE 2
        /\ DOMAIN FirstTwo(list) = 1..(IF n < 2 THEN n ELSE 2)
        /\ \A i \in 1..(IF n < 2 THEN n ELSE 2): FirstTwo(list)[i] = list[i]
    BY <1>3, TwoFirst
  <2>2. two = FirstTwo(list)
    BY <1>2
  <2> QED  BY <1>4, <2>1, <2>2
<1>6. ItemsOf(two) = {list[i]: i \in 1..m}
  BY <1>5 DEF ItemsOf
<1>7. 1..m \subseteq 1..n
  BY <1>4
<1>8. ItemsOf(two) \subseteq S
  BY <1>3, <1>6, <1>7
<1>9. ASSUME m < 2 PROVE ItemsOf(two) = S
  <2>1. m = n
    BY <1>4, <1>9
  <2> QED  BY <1>3, <1>6, <1>8, <2>1
<1>10. ASSUME NEW d \in ItemsOf(two), NEW e \in S \ ItemsOf(two) PROVE <<d, e>> \in before
  <2>1. PICK i \in 1..m: list[i] = d
    BY <1>6
  <2>2. PICK j \in 1..n: list[j] = e
    BY <1>3
  <2>3. j \notin 1..m
    BY <1>6, <2>2
  <2>4. i \in 1..n /\ i < j
    BY <1>4, <1>7, <2>1, <2>2, <2>3
  <2> QED  BY <1>1, <1>2, <2>1, <2>2, <2>4
<1> QED  BY <1>4, <1>5, <1>8, <1>9, <1>10

-----------------------------------------------------------------------------
(* Commentary: the weakest dimensions                                      *)

LEMMA WeakerRanks ==
    ASSUME NEW scores, NEW dims, dims \subseteq Known, \A d \in dims: scores[d] \in Int
    PROVE  IsFiniteSet(dims) /\ Ranked(dims, WeakerFirst(scores, dims))
<1>1. IsFiniteSet(dims)
  BY DimsDiffer, FS_Subset
<1>2. PICK before: before = WeakerFirst(scores, dims)
  OBVIOUS
<1>3. \A d, e \in dims: <<d, e>> \in before <=>
          scores[d] < scores[e] \/ (scores[d] = scores[e] /\ ComesBefore(d, e))
  BY <1>2 DEF WeakerFirst
<1>4. \A d \in dims: <<d, d>> \notin before
  BY <1>3, DimsDiffer
<1>5. \A d, e \in dims: d # e => <<d, e>> \in before \/ <<e, d>> \in before
  <2> TAKE d, e \in dims
  <2>1. scores[d] < scores[e] \/ scores[e] < scores[d] \/ scores[d] = scores[e]
    OBVIOUS
  <2>2. d # e => ComesBefore(d, e) \/ ComesBefore(e, d)
    BY DimsDiffer
  <2> QED  BY <1>3, <2>1, <2>2
<1>6. \A d, e, g \in dims: <<d, e>> \in before /\ <<e, g>> \in before => <<d, g>> \in before
  <2> TAKE d, e, g \in dims
  <2>1. scores[d] \in Int /\ scores[e] \in Int /\ scores[g] \in Int
    OBVIOUS
  <2>2. ComesBefore(d, e) /\ ComesBefore(e, g) => ComesBefore(d, g)
    BY DimsDiffer
  <2> QED  BY <1>3, <2>1, <2>2
<1> QED  BY <1>1, <1>2, <1>4, <1>5, <1>6 DEF Ranked

LEMMA WeakestIs ==
    ASSUME NEW scores, DOMAIN scores \subseteq Known, \A d \in DOMAIN scores: scores[d] \in Int,
           NEW two, two = Weakest(scores)
    PROVE  /\ two \in Seq(Known) /\ Len(two) \in 0..2 /\ DOMAIN two = 1..Len(two)
           /\ ItemsOf(two) \subseteq DOMAIN scores
           /\ Len(two) < 2 => ItemsOf(two) = DOMAIN scores
           /\ \A d \in ItemsOf(two), e \in DOMAIN scores \ ItemsOf(two): scores[d] <= scores[e]
<1>1. PICK dims: dims = DOMAIN scores
  OBVIOUS
<1>2. PICK before: before = WeakerFirst(scores, dims)
  OBVIOUS
<1>3. IsFiniteSet(dims) /\ Ranked(dims, before)
  BY <1>1, <1>2, WeakerRanks
<1>4. two = FirstTwo(Ordered(dims, before))
  BY <1>1, <1>2 DEF Weakest, FromWeakest
<1>5. /\ two \in Seq(dims) /\ Len(two) \in 0..2 /\ DOMAIN two = 1..Len(two)
      /\ ItemsOf(two) \subseteq dims /\ (Len(two) < 2 => ItemsOf(two) = dims)
      /\ \A d \in ItemsOf(two), e \in dims \ ItemsOf(two): <<d, e>> \in before
  BY <1>3, <1>4, FirstComeFirst
<1>6. two \in Seq(Known)
  <2>1. two \in [1..Len(two) -> dims] /\ Len(two) \in Nat
    BY <1>5, LenProperties
  <2>2. two \in [1..Len(two) -> Known]
    BY <1>1, <2>1
  <2> QED  BY <2>1, <2>2, SeqDef
<1>7. ASSUME NEW d \in ItemsOf(two), NEW e \in dims \ ItemsOf(two) PROVE scores[d] <= scores[e]
  <2>1. <<d, e>> \in WeakerFirst(scores, dims) /\ d \in dims /\ e \in dims
    BY <1>2, <1>5
  <2>2. scores[d] < scores[e] \/ scores[d] = scores[e]
    BY <2>1 DEF WeakerFirst
  <2> QED  BY <1>1, <2>1, <2>2
<1> QED  BY <1>1, <1>5, <1>6, <1>7

\* What the text on a photo is about.
LEMMA PhotoWeakest ==
    ASSUME NEW sight \in Sights, NEW weak, weak = WeakestOfPhoto(sight)
    PROVE  /\ weak = <<>> <=> DOMAIN sight.scores \union DOMAIN sight.visible = {}
           /\ \A d \in ItemsOf(weak), e \in DOMAIN sight.scores \ ItemsOf(weak):
                 d \in DOMAIN sight.scores /\ sight.scores[d] <= sight.scores[e]
<1>1. PICK own, seen, other, dims, more:
        /\ own = Weakest(sight.scores) /\ seen = sight.visible /\ other = Weakest(seen)
        /\ dims = ItemsOf(other) \ ItemsOf(own) /\ more = FromWeakest(seen, dims)
  OBVIOUS
<1>2. PICK scores: scores = sight.scores
  OBVIOUS
<1>3. /\ DOMAIN scores \subseteq Known /\ \A d \in DOMAIN scores: scores[d] \in Int
      /\ DOMAIN seen \subseteq Known /\ \A d \in DOMAIN seen: seen[d] \in Int
  BY <1>1, <1>2, CommentAssumption DEF Known
<1>4. weak = FirstTwo(own \o more)
  BY <1>1 DEF WeakestOfPhoto
<1>5. /\ own \in Seq(Known) /\ Len(own) \in 0..2 /\ DOMAIN own = 1..Len(own)
      /\ ItemsOf(own) \subseteq DOMAIN scores
      /\ Len(own) < 2 => ItemsOf(own) = DOMAIN scores
      /\ \A d \in ItemsOf(own), e \in DOMAIN scores \ ItemsOf(own): scores[d] <= scores[e]
  BY <1>1, <1>2, <1>3, WeakestIs
<1>6. /\ Len(other) \in 0..2 /\ DOMAIN other = 1..Len(other)
      /\ ItemsOf(other) \subseteq DOMAIN seen
      /\ Len(other) < 2 => ItemsOf(other) = DOMAIN seen
  BY <1>1, <1>3, WeakestIs
<1>7. PICK m \in Nat: m = Cardinality(dims) /\ more \in [1..m -> dims] /\ ItemsOf(more) = dims
  <2>1. dims \subseteq Known /\ \A d \in dims: seen[d] \in Int
    BY <1>1, <1>3, <1>6
  <2>2. IsFiniteSet(dims) /\ Ranked(dims, WeakerFirst(seen, dims))
    BY <2>1, WeakerRanks
  <2>3. more = Ordered(dims, WeakerFirst(seen, dims))
    BY <1>1 DEF FromWeakest
  <2> QED  BY <2>2, <2>3, OrderedListsAll
<1>8. more \in Seq(Known) /\ Len(more) = m
  <2>1. dims \subseteq Known
    BY <1>1, <1>3, <1>6
  <2>2. more \in [1..m -> Known]
    BY <1>7, <2>1
  <2>3. more \in Seq(Known)
    BY <1>7, <2>2, SeqDef
  <2>4. Len(more) \in Nat /\ DOMAIN more = 1..Len(more) /\ DOMAIN more = 1..m
    BY <1>7, <2>3, LenProperties
  <2> QED  BY <1>7, <2>3, <2>4
<1>9. PICK n \in Nat: n = Len(own) + m
  BY <1>5, <1>7
<1> DEFINE both == own \o more
<1> HIDE DEF both
<1>10. /\ both \in Seq(Known) /\ Len(both) = n /\ n \in Nat
       /\ \A i \in 1..Len(own): both[i] = own[i]
  <2>1. /\ both \in Seq(Known) /\ Len(both) = Len(own) + Len(more)
        /\ \A i \in 1..(Len(own) + Len(more)):
              both[i] = IF i <= Len(own) THEN own[i] ELSE more[i - Len(own)]
    BY <1>5, <1>8, ConcatProperties DEF both
  <2>2. \A i \in 1..Len(own): both[i] = own[i]
    <3> TAKE i \in 1..Len(own)
    <3>1. i \in 1..(Len(own) + Len(more)) /\ i <= Len(own)
      BY <1>5, <1>7, <1>8
    <3> QED  BY <2>1, <3>1
  <2> QED  BY <1>8, <1>9, <2>1, <2>2
<1>11. PICK k \in 0..2: k = IF n < 2 THEN n ELSE 2
  BY <1>9
<1>12. weak \in Seq(Known) /\ Len(weak) = k /\ DOMAIN weak = 1..k /\ \A i \in 1..k: weak[i] = both[i]
  <2>1. /\ FirstTwo(both) \in Seq(Known)
        /\ Len(FirstTwo(both)) = IF n < 2 THEN n ELSE 2
        /\ DOMAIN FirstTwo(both) = 1..(IF n < 2 THEN n ELSE 2)
        /\ \A i \in 1..(IF n < 2 THEN n ELSE 2): FirstTwo(both)[i] = both[i]
    BY <1>10, FirstTwoOf
  <2>2. weak = FirstTwo(both)
    BY <1>4 DEF both
  <2> QED  BY <1>11, <2>1, <2>2
<1>13. weak = <<>> <=> k = 0
  BY <1>12, EmptySeq
<1>14. k = 0 <=> DOMAIN scores \union DOMAIN seen = {}
  <2>1. k = 0 <=> Len(own) = 0 /\ m = 0
    BY <1>5, <1>7, <1>9, <1>11
  <2>2. m = 0 <=> dims = {}
    <3>1. m = 0 => dims = {}
      BY <1>7 DEF ItemsOf
    <3>2. dims = {} => m = 0
      BY <1>7, FS_EmptySet
    <3> QED  BY <3>1, <3>2
  <2>3. Len(own) = 0 <=> DOMAIN scores = {}
    <3>1. Len(own) = 0 => ItemsOf(own) = {}
      BY <1>5 DEF ItemsOf
    <3>2. Len(own) # 0 => own[1] \in ItemsOf(own)
      BY <1>5 DEF ItemsOf
    <3>3. Len(own) = 0 => ItemsOf(own) = DOMAIN scores
      BY <1>5
    <3>4. Len(own) # 0 => DOMAIN scores # {}
      BY <1>5, <3>2
    <3> QED  BY <3>1, <3>3, <3>4
  <2>4. ItemsOf(other) = {} <=> DOMAIN seen = {}
    <3>1. Len(other) # 0 => other[1] \in ItemsOf(other)
      BY <1>6 DEF ItemsOf
    <3>2. Len(other) = 0 => ItemsOf(other) = DOMAIN seen
      BY <1>6
    <3>3. Len(other) # 0 => ItemsOf(other) # {} /\ DOMAIN seen # {}
      BY <1>6, <3>1
    <3> QED  BY <3>2, <3>3
  <2>5. Len(own) = 0 => ItemsOf(own) = {}
    BY <1>5 DEF ItemsOf
  <2> QED  BY <1>1, <2>1, <2>2, <2>3, <2>4, <2>5
<1>15. ASSUME NEW d \in ItemsOf(weak), NEW e \in DOMAIN scores \ ItemsOf(weak)
       PROVE  d \in DOMAIN scores /\ scores[d] <= scores[e]
  <2>1. Len(own) <= k
    <3>1. PICK a \in 0..2: a = Len(own)
      BY <1>5
    <3>2. n = a + m /\ n \in Nat /\ m \in Nat
      BY <1>7, <1>9, <3>1
    <3>3. a <= n /\ a <= 2
      BY <3>1, <3>2
    <3>4. a <= k
      <4>1. CASE n < 2
        BY <1>11, <3>3, <4>1
      <4>2. CASE ~(n < 2)
        BY <1>11, <3>3, <4>2
      <4> QED  BY <4>1, <4>2
    <3> QED  BY <3>1, <3>4
  <2>2. ItemsOf(own) \subseteq ItemsOf(weak)
    <3> SUFFICES ASSUME NEW i \in 1..Len(own) PROVE own[i] \in ItemsOf(weak)
      BY <1>5 DEF ItemsOf
    <3>1. i \in 1..k /\ weak[i] = own[i]
      BY <1>5, <1>10, <1>12, <2>1
    <3> QED  BY <1>12, <3>1 DEF ItemsOf
  <2>3. Len(own) = 2
    BY <1>5, <1>15, <2>2
  <2>4. k = 2 /\ \A i \in 1..2: weak[i] = own[i]
    BY <1>10, <1>11, <1>12, <2>1, <2>3
  <2>5. d \in ItemsOf(own)
    BY <1>5, <1>12, <2>3, <2>4 DEF ItemsOf
  <2>6. e \notin ItemsOf(own)
    BY <2>2
  <2> QED  BY <1>5, <2>5, <2>6
<1> QED  BY <1>1, <1>2, <1>13, <1>14, <1>15

\* Of three fractions in order the first is not above the last.
LEMMA FractionsCompare ==
    ASSUME NEW a \in Int, NEW b \in Int, NEW c \in Int,
           NEW k \in Int, NEW l \in Int, NEW m \in Int, k > 0, l > 0, m > 0,
           a * l <= b * k, b * m <= c * l
    PROVE  a * m <= c * k /\ (a * l < b * k \/ b * m < c * l => a * m < c * k)
<1>1. PICK x \in Int, y \in Int, z \in Int: x = b * k - a * l /\ y = c * l - b * m /\ z = c * k - a * m
  OBVIOUS
<1>2. x >= 0 /\ y >= 0
  BY <1>1
<1>3. l * z = m * x + k * y
  <2>1. l * (c * k - a * m) = m * (b * k - a * l) + k * (c * l - b * m)
    OBVIOUS
  <2> QED  BY <1>1, <2>1
<1>4. m * x >= 0 /\ k * y >= 0 /\ (x > 0 => m * x > 0) /\ (y > 0 => k * y > 0)
  BY <1>1, <1>2
<1>5. PICK p \in Int, q \in Int, r \in Int: p = m * x /\ q = k * y /\ r = l * z
  BY <1>1
<1>6. r >= 0 /\ (x > 0 \/ y > 0 => r > 0)
  BY <1>3, <1>4, <1>5
<1>7. z < 0 => l * z < 0
  BY <1>1
<1>8. z = 0 => l * z = 0
  BY <1>1
<1>9. z >= 0 /\ (x > 0 \/ y > 0 => z > 0)
  BY <1>1, <1>5, <1>6, <1>7, <1>8
<1>10. /\ a * l \in Int /\ b * k \in Int /\ b * m \in Int /\ c * l \in Int
       /\ a * m \in Int /\ c * k \in Int
  OBVIOUS
<1>11. (a * l < b * k => x > 0) /\ (b * m < c * l => y > 0)
  BY <1>1, <1>10
<1> QED  BY <1>1, <1>9, <1>10, <1>11

\* The measurements of some photos, one after the other.
IsMeasured(group, n) ==
    /\ DOMAIN group = 1..n
    /\ \A i \in 1..n: /\ DOMAIN group[i].scores \subseteq Known
                      /\ \A d \in DOMAIN group[i].scores: group[i].scores[d] \in Int

MeasuredIn(group) == UNION {DOMAIN group[i].scores: i \in DOMAIN group}

LEMMA TotalsCount ==
    ASSUME NEW n \in Nat, NEW group, IsMeasured(group, n), NEW d
    PROVE  /\ DimTotal(group, d) \in Int /\ DimCount(group, d) \in Nat
           /\ DimCount(group, d) > 0 <=> d \in MeasuredIn(group)
<1>1. PICK amounts: amounts = [i \in 1..n |-> IF i \in WithDim(group, d) THEN group[i].scores[d] ELSE 0]
  OBVIOUS
<1>2. amounts \in [1..n -> Int]
  BY <1>1 DEF WithDim, IsMeasured
<1>3. DimTotal(group, d) = Addition(amounts)
  BY <1>1 DEF DimTotal, IsMeasured
<1>4. Addition(amounts) \in Int
  BY <1>2, AdditionInt
<1>5. WithDim(group, d) \subseteq 1..n /\ IsFiniteSet(1..n)
  <2>1. 1 \in Int /\ n \in Int
    OBVIOUS
  <2> QED  BY <2>1, FS_Interval DEF WithDim, IsMeasured
<1>6. IsFiniteSet(WithDim(group, d))
  BY <1>5, FS_Subset
<1>7. DimCount(group, d) \in Nat /\ (DimCount(group, d) = 0 <=> WithDim(group, d) = {})
  BY <1>6, FS_CardinalityType, FS_EmptySet DEF DimCount
<1>8. WithDim(group, d) # {} <=> d \in MeasuredIn(group)
  BY DEF WithDim, MeasuredIn
<1> QED  BY <1>3, <1>4, <1>7, <1>8

MeanOrder(group) ==
    {o \in MeasuredIn(group) \X MeasuredIn(group):
        \/ MeanBelow(group, o[1], o[2])
        \/ ~MeanBelow(group, o[2], o[1]) /\ ComesBefore(o[1], o[2])}

LEMMA MeansRank ==
    ASSUME NEW n \in Nat, NEW group, IsMeasured(group, n)
    PROVE  /\ MeasuredIn(group) \subseteq Known /\ IsFiniteSet(MeasuredIn(group))
           /\ Ranked(MeasuredIn(group), MeanOrder(group))
<1>1. PICK dims, before: dims = MeasuredIn(group) /\ before = MeanOrder(group)
  OBVIOUS
<1>2. dims \subseteq Known
  BY <1>1 DEF MeasuredIn, IsMeasured
<1>3. IsFiniteSet(dims)
  BY <1>2, DimsDiffer, FS_Subset
<1>4. PICK total, count: /\ total = [d \in dims |-> DimTotal(group, d)]
                         /\ count = [d \in dims |-> DimCount(group, d)]
  OBVIOUS
<1>5. \A d \in dims: total[d] \in Int /\ count[d] \in Int /\ count[d] > 0
  BY <1>1, <1>4, TotalsCount
<1>6. \A d, e \in dims: MeanBelow(group, d, e) <=> total[d] * count[e] < total[e] * count[d]
  BY <1>4 DEF MeanBelow
<1>7. \A d, e \in dims: total[d] * count[e] \in Int
  BY <1>5
<1>8. \A d, e \in dims: <<d, e>> \in before <=>
          \/ total[d] * count[e] < total[e] * count[d]
          \/ total[d] * count[e] <= total[e] * count[d] /\ ComesBefore(d, e)
  <2> TAKE d, e \in dims
  <2>1. <<d, e>> \in before <=>
          MeanBelow(group, d, e) \/ (~MeanBelow(group, e, d) /\ ComesBefore(d, e))
    BY <1>1 DEF MeanOrder
  <2>2. ~(total[e] * count[d] < total[d] * count[e]) <=> total[d] * count[e] <= total[e] * count[d]
    BY <1>7
  <2> QED  BY <1>6, <2>1, <2>2
<1>9. \A d \in dims: <<d, d>> \notin before
  <2> TAKE d \in dims
  <2>1. ~(total[d] * count[d] < total[d] * count[d]) /\ ~ComesBefore(d, d)
    BY <1>2, <1>7, DimsDiffer
  <2> QED  BY <1>8, <2>1
<1>10. \A d, e \in dims: d # e => <<d, e>> \in before \/ <<e, d>> \in before
  <2> TAKE d, e \in dims
  <2>1. PICK x \in Int, y \in Int: x = total[d] * count[e] /\ y = total[e] * count[d]
    BY <1>7
  <2>2. x < y \/ y < x \/ (x <= y /\ y <= x)
    BY <2>1
  <2>3. d # e => ComesBefore(d, e) \/ ComesBefore(e, d)
    BY <1>2, DimsDiffer
  <2> QED  BY <1>8, <2>1, <2>2, <2>3
<1>11. \A d, e, g \in dims: <<d, e>> \in before /\ <<e, g>> \in before => <<d, g>> \in before
  <2> SUFFICES ASSUME NEW d \in dims, NEW e \in dims, NEW g \in dims,
                      <<d, e>> \in before, <<e, g>> \in before
               PROVE  <<d, g>> \in before
    OBVIOUS
  <2>1. PICK a \in Int, b \in Int, c \in Int: a = total[d] /\ b = total[e] /\ c = total[g]
    BY <1>5
  <2>2. PICK k \in Int, l \in Int, m \in Int:
            k = count[d] /\ l = count[e] /\ m = count[g] /\ k > 0 /\ l > 0 /\ m > 0
    BY <1>5
  <2>3. a * l < b * k \/ (a * l <= b * k /\ ComesBefore(d, e))
    BY <1>8, <2>1, <2>2
  <2>4. b * m < c * l \/ (b * m <= c * l /\ ComesBefore(e, g))
    BY <1>8, <2>1, <2>2
  <2>5. /\ a * l \in Int /\ b * k \in Int /\ b * m \in Int /\ c * l \in Int
    BY <2>1, <2>2
  <2>6. a * l <= b * k /\ b * m <= c * l
    BY <2>3, <2>4, <2>5
  <2>7. a * m <= c * k /\ (a * l < b * k \/ b * m < c * l => a * m < c * k)
    BY <2>1, <2>2, <2>6, FractionsCompare
  <2>8. ComesBefore(d, e) /\ ComesBefore(e, g) => ComesBefore(d, g)
    BY <1>2, DimsDiffer
  <2>9. a * m < c * k \/ (a * m <= c * k /\ ComesBefore(d, g))
    BY <2>3, <2>4, <2>7, <2>8
  <2> QED  BY <1>8, <2>1, <2>2, <2>9
<1> QED  BY <1>1, <1>2, <1>3, <1>9, <1>10, <1>11 DEF Ranked

\* What the text on a group is about.
LEMMA GroupWeakest ==
    ASSUME NEW n \in Nat, NEW group, IsMeasured(group, n), NEW weak, weak = WeakestOfGroup(group)
    PROVE  /\ weak = <<>> <=> MeasuredIn(group) = {}
           /\ ItemsOf(weak) \subseteq MeasuredIn(group)
           /\ \A d \in ItemsOf(weak), e \in MeasuredIn(group) \ ItemsOf(weak):
                 DimTotal(group, d) * DimCount(group, e) <= DimTotal(group, e) * DimCount(group, d)
<1>1. PICK dims, before: dims = MeasuredIn(group) /\ before = MeanOrder(group)
  OBVIOUS
<1>2. IsFiniteSet(dims) /\ Ranked(dims, before)
  BY <1>1, MeansRank
<1>3. weak = FirstTwo(Ordered(dims, before))
  BY <1>1 DEF WeakestOfGroup, MeasuredIn, MeanOrder
<1>4. /\ weak \in Seq(dims) /\ Len(weak) \in 0..2 /\ DOMAIN weak = 1..Len(weak)
      /\ ItemsOf(weak) \subseteq dims /\ (Len(weak) < 2 => ItemsOf(weak) = dims)
      /\ \A d \in ItemsOf(weak), e \in dims \ ItemsOf(weak): <<d, e>> \in before
  BY <1>2, <1>3, FirstComeFirst
<1>5. weak = <<>> <=> dims = {}
  <2>1. weak = <<>> <=> Len(weak) = 0
    BY <1>4, EmptySeq
  <2>2. Len(weak) = 0 => ItemsOf(weak) = {} /\ ItemsOf(weak) = dims
    BY <1>4 DEF ItemsOf
  <2>3. Len(weak) # 0 => weak[1] \in ItemsOf(weak)
    BY <1>4 DEF ItemsOf
  <2>4. Len(weak) # 0 => dims # {}
    BY <1>4, <2>3
  <2> QED  BY <2>1, <2>2, <2>4
<1>6. ASSUME NEW d \in ItemsOf(weak), NEW e \in dims \ ItemsOf(weak)
      PROVE  DimTotal(group, d) * DimCount(group, e) <= DimTotal(group, e) * DimCount(group, d)
  <2>1. <<d, e>> \in MeanOrder(group)
    BY <1>1, <1>4
  <2>2. MeanBelow(group, d, e) \/ ~MeanBelow(group, e, d)
    BY <2>1 DEF MeanOrder
  <2>3. PICK a \in Int, b \in Int, k \in Nat, l \in Nat:
          /\ a = DimTotal(group, d) /\ b = DimTotal(group, e)
          /\ k = DimCount(group, d) /\ l = DimCount(group, e)
    BY TotalsCount
  <2>4. a * l < b * k \/ ~(b * k < a * l)
    BY <2>2, <2>3 DEF MeanBelow
  <2>5. a * l \in Int /\ b * k \in Int
    BY <2>3
  <2>6. a * l <= b * k
    BY <2>4, <2>5
  <2> QED  BY <2>3, <2>6
<1> QED  BY <1>1, <1>4, <1>5, <1>6

-----------------------------------------------------------------------------
(* Commentary: photos in a list                                            *)

LEMMA PostedIs ==
    \E n \in Nat: /\ Posted \in [1..n -> Shown] /\ DOMAIN Posted = 1..n
                  /\ \A i, j \in 1..n: Posted[i] = Posted[j] => i = j
<1>1. Posted \in Seq(Shown)
  BY CommentAssumption
<1>2. PICK n \in Nat: n = Len(Posted)
  BY <1>1, LenProperties
<1>3. Posted \in [1..n -> Shown] /\ DOMAIN Posted = 1..n
  BY <1>1, <1>2, LenProperties
<1> QED  BY <1>3, CommentAssumption

LEMMA PostedRanks ==
    /\ IsFiniteSet(Shown)
    /\ \A p \in Shown: ~Ahead(Posted, p, p)
    /\ \A p, q \in Shown: p # q => Ahead(Posted, p, q) \/ Ahead(Posted, q, p)
    /\ \A p, q, r \in Shown: Ahead(Posted, p, q) /\ Ahead(Posted, q, r) => Ahead(Posted, p, r)
<1>1. PICK n \in Nat: DOMAIN Posted = 1..n /\ \A i, j \in 1..n: Posted[i] = Posted[j] => i = j
  BY PostedIs
<1>2. Shown = ItemsOf(Posted)
  BY DEF Shown
<1>3. PICK list: list = Posted
  OBVIOUS
<1>4. /\ IsFiniteSet(ItemsOf(list))
      /\ \A p \in ItemsOf(list): ~Ahead(list, p, p)
      /\ \A p, q \in ItemsOf(list): p # q => Ahead(list, p, q) \/ Ahead(list, q, p)
      /\ \A p, q, r \in ItemsOf(list): Ahead(list, p, q) /\ Ahead(list, q, r) => Ahead(list, p, r)
  BY <1>1, <1>3, AheadRanks
<1> QED  BY <1>2, <1>3, <1>4

\* A list of photos, each once.
Lists(list, m, photos) ==
    /\ list \in [1..m -> Shown] /\ ItemsOf(list) = photos
    /\ \A i, j \in 1..m: list[i] = list[j] => i = j

LEMMA InOrderLists ==
    ASSUME NEW photos, photos \subseteq Shown, NEW before, Ranked(photos, before)
    PROVE  \E m \in Nat: Lists(Ordered(photos, before), m, photos)
<1>1. IsFiniteSet(photos)
  BY PostedRanks, FS_Subset
<1>2. PICK m \in Nat: /\ Ordered(photos, before) \in [1..m -> photos]
                      /\ ItemsOf(Ordered(photos, before)) = photos
                      /\ \A i, j \in 1..m: Ordered(photos, before)[i] = Ordered(photos, before)[j] => i = j
  BY <1>1, OrderedListsAll
<1>3. Ordered(photos, before) \in [1..m -> Shown]
  BY <1>2
<1> QED  BY <1>2, <1>3 DEF Lists

LEMMA JudgedIs ==
    ASSUME NEW key
    PROVE  \E m \in Nat: Lists(Judged(key), m, InGroup(key))
<1>1. PICK photos, before: /\ photos = InGroup(key)
                           /\ before = {o \in Shown \X Shown: Ahead(Posted, o[1], o[2])}
  OBVIOUS
<1>2. photos \subseteq Shown
  BY <1>1 DEF InGroup
<1>3. \A p, q \in photos: <<p, q>> \in before <=> Ahead(Posted, p, q)
  BY <1>1, <1>2
<1>4. Ranked(photos, before)
  BY <1>2, <1>3, PostedRanks DEF Ranked
<1>5. Judged(key) = Ordered(photos, before)
  BY <1>1 DEF Judged
<1> QED  BY <1>1, <1>2, <1>4, <1>5, InOrderLists

LEMMA RowsAre ==
    ASSUME NEW key, \A p \in Shown: standing[p].rank \in Int
    PROVE  \E m \in Nat: Lists(RowsOf(key), m, {p \in InGroup(key): IsDone(p)})
<1>1. PICK photos, before:
        /\ photos = {p \in InGroup(key): IsDone(p)}
        /\ before = {o \in Shown \X Shown:
                       \/ standing[o[1]].rank < standing[o[2]].rank
                       \/ standing[o[1]].rank = standing[o[2]].rank /\ Ahead(Posted, o[1], o[2])}
  OBVIOUS
<1>2. photos \subseteq Shown
  BY <1>1 DEF InGroup
<1>3. PICK rank: rank = [p \in photos |-> standing[p].rank]
  OBVIOUS
<1>4. \A p \in photos: rank[p] \in Int
  BY <1>2, <1>3
<1>5. \A p, q \in photos: <<p, q>> \in before <=>
          rank[p] < rank[q] \/ (rank[p] = rank[q] /\ Ahead(Posted, p, q))
  BY <1>1, <1>2, <1>3
<1>6. \A p \in photos: <<p, p>> \notin before
  BY <1>2, <1>4, <1>5, PostedRanks
<1>7. \A p, q \in photos: p # q => <<p, q>> \in before \/ <<q, p>> \in before
  <2> TAKE p, q \in photos
  <2>1. rank[p] < rank[q] \/ rank[q] < rank[p] \/ rank[p] = rank[q]
    BY <1>4
  <2>2. p # q => Ahead(Posted, p, q) \/ Ahead(Posted, q, p)
    BY <1>2, PostedRanks
  <2> QED  BY <1>5, <2>1, <2>2
<1>8. \A p, q, r \in photos: <<p, q>> \in before /\ <<q, r>> \in before => <<p, r>> \in before
  <2> TAKE p, q, r \in photos
  <2>1. rank[p] \in Int /\ rank[q] \in Int /\ rank[r] \in Int
    BY <1>4
  <2>2. Ahead(Posted, p, q) /\ Ahead(Posted, q, r) => Ahead(Posted, p, r)
    BY <1>2, PostedRanks
  <2> QED  BY <1>5, <2>1, <2>2
<1>9. Ranked(photos, before)
  BY <1>6, <1>7, <1>8 DEF Ranked
<1>10. RowsOf(key) = Ordered(photos, before)
  BY <1>1 DEF RowsOf
<1> QED  BY <1>1, <1>2, <1>9, <1>10, InOrderLists

\* What is measured of some photos, whatever the order they are listed in.
Having(photos, d) == {q \in photos: d \in DOMAIN sights[q].scores}
TotalOver(photos, d) ==
    Addition([i \in DOMAIN Posted |->
        IF Posted[i] \in Having(photos, d) THEN sights[Posted[i]].scores[d] ELSE 0])
SightsListed(group, list, m) ==
    DOMAIN group = 1..m /\ \A i \in 1..m: group[i].scores = sights[list[i]].scores

LEMMA ListedAreMeasured ==
    ASSUME sights \in [Shown -> Sights], NEW photos, NEW m \in Nat, NEW list, Lists(list, m, photos),
           NEW group, SightsListed(group, list, m)
    PROVE  /\ IsMeasured(group, m)
           /\ \A d: d \in MeasuredIn(group) <=> \E q \in photos: d \in DOMAIN sights[q].scores
<1>1. \A i \in 1..m: list[i] \in Shown /\ sights[list[i]] \in Sights
  BY DEF Lists
<1>2. IsMeasured(group, m)
  BY <1>1, CommentAssumption DEF IsMeasured, SightsListed, Known
<1>3. photos = {list[i]: i \in 1..m}
  BY DEF Lists, ItemsOf
<1>4. \A d: d \in MeasuredIn(group) <=> \E i \in 1..m: d \in DOMAIN group[i].scores
  BY DEF MeasuredIn, SightsListed
<1>5. \A i \in 1..m: group[i].scores = sights[list[i]].scores
  BY DEF SightsListed
<1> QED  BY <1>2, <1>3, <1>4, <1>5

LEMMA CountsAgree ==
    ASSUME NEW photos, NEW m \in Nat, NEW list, Lists(list, m, photos),
           NEW group, SightsListed(group, list, m), NEW d
    PROVE  Cardinality(Having(photos, d)) = DimCount(group, d)
<1>1. PICK places, having: places = WithDim(group, d) /\ having = Having(photos, d)
  OBVIOUS
<1>2. places = {i \in 1..m: d \in DOMAIN sights[list[i]].scores}
  BY <1>1 DEF WithDim, SightsListed
<1>3. IsFiniteSet(places)
  <2>1. 1 \in Int /\ m \in Int
    OBVIOUS
  <2>2. IsFiniteSet(1..m)
    BY <2>1, FS_Interval
  <2> QED  BY <1>2, <2>2, FS_Subset
<1>4. photos = {list[i]: i \in 1..m} /\ \A i, j \in 1..m: list[i] = list[j] => i = j
  BY DEF Lists, ItemsOf
<1>5. PICK f: f = [i \in places |-> list[i]]
  OBVIOUS
<1>6. f \in Bijection(places, having)
  <2>1. f \in [places -> having]
    BY <1>1, <1>2, <1>4, <1>5 DEF Having
  <2>2. \A i, j \in places: f[i] = f[j] => i = j
    BY <1>2, <1>4, <1>5
  <2>3. \A q \in having: \E i \in places: f[i] = q
    BY <1>1, <1>2, <1>4, <1>5 DEF Having
  <2> QED  BY <2>1, <2>2, <2>3 DEF Bijection, Injection, IsInjective, Surjection
<1>7. ExistsBijection(places, having)
  BY <1>6 DEF ExistsBijection
<1>8. Cardinality(having) = Cardinality(places)
  BY <1>3, <1>7, FS_Bijection
<1> QED  BY <1>1, <1>8 DEF DimCount

LEMMA TotalsAgree ==
    ASSUME sights \in [Shown -> Sights], NEW photos, NEW m \in Nat, NEW list, Lists(list, m, photos),
           NEW group, SightsListed(group, list, m), NEW d
    PROVE  TotalOver(photos, d) = DimTotal(group, d)
<1>1. PICK v: v = [q \in Shown |-> IF d \in DOMAIN sights[q].scores THEN sights[q].scores[d] ELSE 0]
  OBVIOUS
<1>2. v \in [Shown -> Int]
  <2> SUFFICES ASSUME NEW q \in Shown PROVE v[q] \in Int
    BY <1>1
  <2>1. sights[q] \in Sights
    OBVIOUS
  <2> QED  BY <1>1, <2>1, CommentAssumption
<1>3. PICK n \in Nat: /\ Posted \in [1..n -> Shown] /\ DOMAIN Posted = 1..n
                      /\ \A i, j \in 1..n: Posted[i] = Posted[j] => i = j
  BY PostedIs
<1>4. /\ list \in [1..m -> Shown] /\ \A i, j \in 1..m: list[i] = list[j] => i = j
      /\ photos = {list[i]: i \in 1..m}
  BY DEF Lists, ItemsOf
<1>5. \A j \in 1..m: \E i \in 1..n: Posted[i] = list[j]
  BY <1>3, <1>4 DEF Shown, ItemsOf
<1>6. Addition(OnlyPart(v, n, Posted, m, list)) = Addition(ValuesOf(v, m, list))
  <2>1. PICK S, all: S = Shown /\ all = Posted
    OBVIOUS
  <2>2. /\ n \in Nat /\ m \in Nat /\ v \in [S -> Int] /\ Each(S, n, all) /\ Each(S, m, list)
        /\ Covers(all, n, list, m)
    BY <1>2, <1>3, <1>4, <1>5, <2>1 DEF Each, Covers
  <2>3. Addition(OnlyPart(v, n, all, m, list)) = Addition(ValuesOf(v, m, list))
    BY <2>2, SumsAgree
  <2> QED  BY <2>1, <2>3
<1>7. OnlyPart(v, n, Posted, m, list)
        = [i \in DOMAIN Posted |->
             IF Posted[i] \in Having(photos, d) THEN sights[Posted[i]].scores[d] ELSE 0]
  <2> SUFFICES ASSUME NEW i \in 1..n
               PROVE  (IF \E j \in 1..m: list[j] = Posted[i] THEN v[Posted[i]] ELSE 0)
                        = IF Posted[i] \in Having(photos, d) THEN sights[Posted[i]].scores[d] ELSE 0
    BY <1>3 DEF OnlyPart
  <2>1. Posted[i] \in Shown
    BY <1>3
  <2>2. Posted[i] \in photos <=> \E j \in 1..m: list[j] = Posted[i]
    BY <1>4
  <2> QED  BY <1>1, <2>1, <2>2 DEF Having
<1>8. ValuesOf(v, m, list)
        = [i \in DOMAIN group |-> IF i \in WithDim(group, d) THEN group[i].scores[d] ELSE 0]
  <2>1. DOMAIN group = 1..m
    BY DEF SightsListed
  <2> SUFFICES ASSUME NEW i \in 1..m
               PROVE  v[list[i]] = IF i \in WithDim(group, d) THEN group[i].scores[d] ELSE 0
    BY <2>1 DEF ValuesOf
  <2>2. group[i].scores = sights[list[i]].scores /\ list[i] \in Shown
    BY <1>4 DEF SightsListed
  <2> QED  BY <1>1, <2>1, <2>2 DEF WithDim
<1> QED  BY <1>6, <1>7, <1>8 DEF TotalOver, DimTotal

\* What the model calls weakest is, on the average, whatever list it is taken from.
LEMMA TextNamesWeakest ==
    ASSUME sights \in [Shown -> Sights], NEW photos, NEW m \in Nat, NEW list, Lists(list, m, photos),
           NEW group, SightsListed(group, list, m)
    PROVE  /\ WeakestOfGroup(group) = <<>> <=> \A q \in photos: DOMAIN sights[q].scores = {}
           /\ NamesWeakest(WeakestOfGroup(group), photos)
<1>1. /\ IsMeasured(group, m)
      /\ \A d: d \in MeasuredIn(group) <=> \E q \in photos: d \in DOMAIN sights[q].scores
  BY ListedAreMeasured
<1>2. PICK weak: weak = WeakestOfGroup(group)
  OBVIOUS
<1>3. /\ weak = <<>> <=> MeasuredIn(group) = {}
      /\ ItemsOf(weak) \subseteq MeasuredIn(group)
      /\ \A d \in ItemsOf(weak), e \in MeasuredIn(group) \ ItemsOf(weak):
            DimTotal(group, d) * DimCount(group, e) <= DimTotal(group, e) * DimCount(group, d)
  BY <1>1, <1>2, GroupWeakest
<1>4. ASSUME NEW d \in ItemsOf(weak), NEW e, e \notin ItemsOf(weak), Having(photos, e) # {}
      PROVE  TotalOver(photos, d) * Cardinality(Having(photos, e))
               <= TotalOver(photos, e) * Cardinality(Having(photos, d))
  <2>1. e \in MeasuredIn(group)
    BY <1>1, <1>4 DEF Having
  <2>2. DimTotal(group, d) * DimCount(group, e) <= DimTotal(group, e) * DimCount(group, d)
    BY <1>3, <1>4, <2>1
  <2>3. TotalOver(photos, d) = DimTotal(group, d) /\ TotalOver(photos, e) = DimTotal(group, e)
    BY TotalsAgree
  <2>4. /\ Cardinality(Having(photos, d)) = DimCount(group, d)
        /\ Cardinality(Having(photos, e)) = DimCount(group, e)
    BY CountsAgree
  <2> QED  BY <2>2, <2>3, <2>4
<1>5. NamesWeakest(weak, photos)
  BY <1>4 DEF NamesWeakest, Having, TotalOver
<1>6. MeasuredIn(group) = {} <=> \A q \in photos: DOMAIN sights[q].scores = {}
  BY <1>1
<1> QED  BY <1>2, <1>3, <1>5, <1>6

-----------------------------------------------------------------------------
(* Commentary: the comments fit                                            *)

(* Nothing is told of a photo that is not finished; while the review is at *)
(* work a finished one holds the text of its group as it was spoken.       *)
Untold == \A p \in Shown: ~IsDone(p) => noted[p].group = Silence /\ noted[p].post = Silence
UnderReview ==
    reviewing => kept = Unsaid /\ \A p \in Shown: IsDone(p) =>
        spoken[GroupKey(p)] # <<>> /\ noted[p].group = spoken[GroupKey(p)][1]

(* A text on a group fits the scores of its photos ...                     *)
SuitsGroup(text, group) ==
    /\ tongue # Unsaid /\ (\E q \in group: DOMAIN sights[q].scores # {}) => text # Silence
    /\ text.by = "model" /\ text.flaws \cap GroupFlaws # {} =>
         \A q \in group: DOMAIN sights[q].scores = {}
    /\ text.by = "rules" => NamesWeakest(text.weak, group)
SpokenFits == \A key \in GroupKeys: spoken[key] # <<>> => SuitsGroup(spoken[key][1], InGroup(key))

(* ... and one made from those of a photo is about what is weakest of it.  *)
PostIsWeakest ==
    \A p \in Shown: noted[p].post.by = "rules" => noted[p].post.weak = WeakestOfPhoto(sights[p])

NotedShape ==
    /\ DOMAIN noted = Shown
    /\ \A p \in Shown: DOMAIN noted[p] = {"status", "group", "post"}
SpokenShape ==
    /\ DOMAIN spoken = GroupKeys
    /\ \A key \in GroupKeys: spoken[key] = <<>> \/ spoken[key] = <<spoken[key][1]>>

CommentInv ==
    /\ CommentTypeOK /\ NotedShape /\ SpokenShape /\ Untold /\ UnderReview /\ SpokenFits
    /\ PostIsWeakest /\ NobodyIsSilent /\ OnlyFitAnswers /\ SpeakAsOne /\ RewriteSettles

\* What a text made from scores is: none, or one about what is weakest.
TextIs(text, weak) == IF weak = <<>> THEN text = Silence ELSE text.by = "rules" /\ text.weak = weak

LEMMA GroupTextIs ==
    ASSUME NEW group, NEW hash, NEW language
    PROVE  TextIs(GroupText(group, hash, language), WeakestOfGroup(group))
<1>1. PICK weak: weak = WeakestOfGroup(group)
  OBVIOUS
<1>2. CASE weak = <<>>
  BY <1>1, <1>2 DEF GroupText, TextIs
<1>3. CASE weak # <<>>
  BY <1>1, <1>3 DEF GroupText, TextIs
<1> QED  BY <1>2, <1>3

LEMMA PostTextIs ==
    ASSUME NEW sight, NEW judged, NEW hash, NEW language
    PROVE  TextIs(PostText(sight, judged, hash, language), WeakestOfPhoto(sight))
<1>1. PICK weak: weak = WeakestOfPhoto(sight)
  OBVIOUS
<1>2. CASE weak = <<>>
  BY <1>1, <1>2 DEF PostText, TextIs
<1>3. CASE weak # <<>>
  BY <1>1, <1>3 DEF PostText, TextIs
<1> QED  BY <1>2, <1>3

\* A stored text: the one made from scores, or an answer nothing is said against.
StoredText(text, weak, flaws, refused) ==
    /\ text = Silence => weak = <<>>
    /\ text.by = "model" => text.flaws = flaws /\ (refused => weak = <<>>)
    /\ text.by = "rules" => text.weak = weak

LEMMA SpokenIs ==
    ASSUME NEW flaws, "empty" \notin flaws
    PROVE  /\ Spoken(flaws) # Silence /\ Spoken(flaws).by = "model"
           /\ Spoken(flaws).flaws = flaws
BY DEF Spoken, Silence

LEMMA TextsDiffer ==
    ASSUME NEW text, NEW weak, TextIs(text, weak)
    PROVE  /\ text.by # "model" /\ (text = Silence <=> weak = <<>>)
           /\ text.by = "rules" => text.weak = weak
BY DEF TextIs, Silence

LEMMA GroupChosen ==
    ASSUME NEW flaws, NEW group, NEW own, TextIs(own, WeakestOfGroup(group))
    PROVE  StoredText(Chosen(flaws, GroupRefused(flaws, group), own), WeakestOfGroup(group), flaws,
                  GroupRefused(flaws, group))
<1>1. PICK weak: weak = WeakestOfGroup(group)
  OBVIOUS
<1>2. /\ own.by # "model" /\ (own = Silence <=> weak = <<>>) /\ (own.by = "rules" => own.weak = weak)
  BY <1>1, TextsDiffer
<1>3. "empty" \in flaws => GroupRefused(flaws, group)
  BY DEF GroupRefused, GroupFlaws
<1>4. CASE flaws = Failed \/ (GroupRefused(flaws, group) /\ own # Silence)
  BY <1>1, <1>2, <1>4 DEF StoredText, Chosen
<1>5. CASE ~(flaws = Failed \/ (GroupRefused(flaws, group) /\ own # Silence)) /\ "empty" \in flaws
  <2>1. Chosen(flaws, GroupRefused(flaws, group), own) = Silence /\ weak = <<>>
    BY <1>1, <1>2, <1>3, <1>5 DEF Chosen, Spoken
  <2> QED  BY <1>1, <2>1 DEF StoredText, Silence
<1>6. CASE ~(flaws = Failed \/ (GroupRefused(flaws, group) /\ own # Silence)) /\ "empty" \notin flaws
  <2>1. Chosen(flaws, GroupRefused(flaws, group), own) = Spoken(flaws)
    BY <1>6 DEF Chosen
  <2> QED  BY <1>1, <1>2, <1>6, <2>1, SpokenIs DEF StoredText
<1> QED  BY <1>4, <1>5, <1>6

LEMMA PostChosen ==
    ASSUME NEW flaws, NEW sight, NEW own, TextIs(own, WeakestOfPhoto(sight))
    PROVE  StoredText(Chosen(flaws, PostRefused(flaws, sight), own), WeakestOfPhoto(sight), flaws,
                  PostRefused(flaws, sight))
<1>1. PICK weak: weak = WeakestOfPhoto(sight)
  OBVIOUS
<1>2. /\ own.by # "model" /\ (own = Silence <=> weak = <<>>) /\ (own.by = "rules" => own.weak = weak)
  BY <1>1, TextsDiffer
<1>3. "empty" \in flaws => PostRefused(flaws, sight)
  BY DEF PostRefused, PostFlaws
<1>4. CASE flaws = Failed \/ (PostRefused(flaws, sight) /\ own # Silence)
  BY <1>1, <1>2, <1>4 DEF StoredText, Chosen
<1>5. CASE ~(flaws = Failed \/ (PostRefused(flaws, sight) /\ own # Silence)) /\ "empty" \in flaws
  <2>1. Chosen(flaws, PostRefused(flaws, sight), own) = Silence /\ weak = <<>>
    BY <1>1, <1>2, <1>3, <1>5 DEF Chosen, Spoken
  <2> QED  BY <1>1, <2>1 DEF StoredText, Silence
<1>6. CASE ~(flaws = Failed \/ (PostRefused(flaws, sight) /\ own # Silence)) /\ "empty" \notin flaws
  <2>1. Chosen(flaws, PostRefused(flaws, sight), own) = Spoken(flaws)
    BY <1>6 DEF Chosen
  <2> QED  BY <1>1, <1>2, <1>6, <2>1, SpokenIs DEF StoredText
<1> QED  BY <1>4, <1>5, <1>6

LEMMA JudgedSights ==
    ASSUME NEW key, NEW m \in Nat, Lists(Judged(key), m, InGroup(key))
    PROVE  SightsListed(SightsOf(Judged(key)), Judged(key), m)
<1>1. PICK list: list = Judged(key) /\ DOMAIN list = 1..m
  BY DEF Lists
<1> QED  BY <1>1 DEF SightsListed, SightsOf

\* The comment on a group fits its photos, whatever the model answered.
LEMMA GroupCommentFits ==
    ASSUME sights \in [Shown -> Sights], NEW key, NEW flaws, NEW hash, NEW text,
           text = Chosen(flaws, GroupRefused(flaws, SightsOf(Judged(key))),
                         GroupText(SightsOf(Judged(key)), hash, tongue))
    PROVE  SuitsGroup(text, InGroup(key))
<1>1. PICK photos, group, list:
        photos = InGroup(key) /\ list = Judged(key) /\ group = SightsOf(Judged(key))
  OBVIOUS
<1>2. PICK m \in Nat: Lists(list, m, photos)
  BY <1>1, JudgedIs
<1>3. SightsListed(group, list, m)
  BY <1>1, <1>2, JudgedSights
<1>4. /\ WeakestOfGroup(group) = <<>> <=> \A q \in photos: DOMAIN sights[q].scores = {}
      /\ NamesWeakest(WeakestOfGroup(group), photos)
  BY <1>2, <1>3, TextNamesWeakest
<1>5. StoredText(text, WeakestOfGroup(group), flaws, GroupRefused(flaws, group))
  <2>1. TextIs(GroupText(group, hash, tongue), WeakestOfGroup(group))
    BY GroupTextIs
  <2> QED  BY <1>1, <2>1, GroupChosen
<1>6. text.by = "model" /\ text.flaws \cap GroupFlaws # {} => WeakestOfGroup(group) = <<>>
  BY <1>5 DEF StoredText, GroupRefused
<1>7. text.by = "rules" => NamesWeakest(text.weak, photos)
  BY <1>4, <1>5 DEF StoredText
<1>8. (\E q \in photos: DOMAIN sights[q].scores # {}) => text # Silence
  BY <1>4, <1>5 DEF StoredText
<1> QED  BY <1>1, <1>4, <1>6, <1>7, <1>8 DEF SuitsGroup

\* The text on a group that rewrite-commentary makes names what is weakest of its rows.
LEMMA RewrittenNamesWeakest ==
    ASSUME sights \in [Shown -> Sights], \A p \in Shown: standing[p].rank \in Int,
           NEW p \in Shown, IsDone(p), NEW language, NEW text, text = MadeAnew(p, language).group
    PROVE  /\ text.by # "model"
           /\ text = Silence => \A q \in InGroup(GroupKey(p)): IsDone(q) => DOMAIN sights[q].scores = {}
           /\ text.by = "rules" =>
                 NamesWeakest(text.weak, {q \in InGroup(GroupKey(p)): IsDone(q)})
<1>1. PICK key, photos, rows, group:
        /\ key = GroupKey(p) /\ photos = {q \in InGroup(key): IsDone(q)} /\ rows = RowsOf(key)
        /\ group = [i \in DOMAIN rows |-> StoredSight(rows[i])]
  OBVIOUS
<1>2. PICK m \in Nat: Lists(rows, m, photos)
  BY <1>1, RowsAre
<1>3. SightsListed(group, rows, m)
  <2>1. DOMAIN rows = 1..m
    BY <1>2 DEF Lists
  <2> QED  BY <1>1, <2>1 DEF SightsListed, StoredSight
<1>4. /\ WeakestOfGroup(group) = <<>> <=> \A q \in photos: DOMAIN sights[q].scores = {}
      /\ NamesWeakest(WeakestOfGroup(group), photos)
  BY <1>2, <1>3, TextNamesWeakest
<1>5. TextIs(text, WeakestOfGroup(group))
  <2>1. text = GroupText(group, KeyHash[key], language)
    BY <1>1 DEF MadeAnew
  <2> QED  BY <2>1, GroupTextIs
<1> QED  BY <1>1, <1>4, <1>5, TextsDiffer

LEMMA CommentStarts ==
    ASSUME CommentInit
    PROVE  CommentInv
<1>1. CommentTypeOK
  <2>1. standing \in [Shown -> [rank: 1..Len(Posted), decision: {"keep", "reject"}]]
    BY DEF CommentInit, StandingsOf
  <2>2. \A key \in GroupKeys: Len(spoken[key]) <= 1
    BY DEF CommentInit
  <2>3. rejudged \in 0..MaxRejudged
    BY CommentAssumption DEF CommentInit
  <2>4. \A p \in Shown: noted[p].status = "waiting"
    BY DEF CommentInit
  <2> QED  BY <2>1, <2>2, <2>3, <2>4 DEF CommentInit, CommentTypeOK
<1>2. /\ DOMAIN noted = Shown
      /\ \A p \in Shown: noted[p] = [status |-> "waiting", group |-> Silence, post |-> Silence]
  BY DEF CommentInit
<1>3. DOMAIN spoken = GroupKeys /\ \A key \in GroupKeys: spoken[key] = <<>>
  BY DEF CommentInit
<1>4. \A p \in Shown: ~IsDone(p) /\ noted[p].group = Silence /\ noted[p].post = Silence
  BY <1>2 DEF IsDone
<1>5. NotedShape
  <2>1. \A p \in Shown: DOMAIN noted[p] = {"status", "group", "post"}
    BY <1>2
  <2> QED  BY <1>2, <2>1 DEF NotedShape
<1>6. SpokenShape
  BY <1>3 DEF SpokenShape
<1>7. Untold /\ UnderReview
  <2>1. kept = Unsaid
    BY DEF CommentInit
  <2> QED  BY <1>4, <2>1 DEF Untold, UnderReview
<1>8. SpokenFits
  BY <1>3 DEF SpokenFits
<1>9. \A p \in Shown: noted[p].post.by = "nobody" /\ noted[p].group.by = "nobody"
  BY <1>4 DEF Silence
<1>10. PostIsWeakest /\ OnlyFitAnswers
  BY <1>9 DEF PostIsWeakest, OnlyFitAnswers
<1>11. NobodyIsSilent /\ SpeakAsOne /\ RewriteSettles
  BY <1>4 DEF NobodyIsSilent, SpeakAsOne, RewriteSettles
<1> QED  BY <1>1, <1>5, <1>6, <1>7, <1>8, <1>10, <1>11 DEF CommentInv

\* What holds of the notes holds as long as they, the scores and the language stay.
LEMMA NotesStay ==
    ASSUME CommentInv, UNCHANGED <<sights, tongue, noted>>, kept' = kept \/ kept' = Unsaid,
           kept' = kept => UNCHANGED standing
    PROVE  /\ NotedShape' /\ Untold' /\ PostIsWeakest' /\ NobodyIsSilent'
           /\ OnlyFitAnswers' /\ SpeakAsOne' /\ RewriteSettles'
<1>1. NotedShape'
  BY DEF CommentInv, NotedShape
<1>2. \A p: IsDone(p)' <=> IsDone(p)
  BY DEF IsDone
<1>3. Untold'
  BY <1>2 DEF CommentInv, Untold
<1>4. PostIsWeakest'
  BY DEF CommentInv, PostIsWeakest
<1>5. NobodyIsSilent'
  <2>1. tongue' # Unsaid \/ kept' # Unsaid => tongue # Unsaid \/ kept # Unsaid
    OBVIOUS
  <2> QED  BY <1>2, <2>1 DEF CommentInv, NobodyIsSilent
<1>6. OnlyFitAnswers'
  BY DEF CommentInv, OnlyFitAnswers
<1>7. SpeakAsOne'
  BY <1>2 DEF CommentInv, SpeakAsOne
<1>8. RewriteSettles'
  <2>1. CASE kept' = Unsaid
    BY <2>1 DEF RewriteSettles
  <2>2. CASE kept' = kept /\ UNCHANGED standing
    <3>1. \A key: RowsOf(key)' = RowsOf(key)
      BY <2>2 DEF RowsOf, IsDone
    <3>2. \A p, language: MadeAnew(p, language)' = MadeAnew(p, language)
      BY <2>2, <3>1 DEF MadeAnew, StoredSight
    <3> QED  BY <1>2, <2>2, <3>2 DEF CommentInv, RewriteSettles
  <2> QED  BY <2>1, <2>2
<1> QED  BY <1>1, <1>3, <1>4, <1>5, <1>6, <1>7, <1>8

LEMMA CommentGroupSteps ==
    ASSUME CommentInv, NEW key \in GroupKeys, NEW flaws, CommentGroup(key, flaws)
    PROVE  CommentInv'
<1>1. PICK text: spoken' = [spoken EXCEPT ![key] = <<text>>] /\ SuitsGroup(text, InGroup(key))
  <2>1. sights \in [Shown -> Sights]
    BY DEF CommentInv, CommentTypeOK
  <2>2. CASE tongue # Unsaid
    BY <2>1, <2>2, GroupCommentFits DEF CommentGroup
  <2>3. CASE tongue = Unsaid
    <3>1. SuitsGroup(Silence, InGroup(key))
      BY <2>3 DEF SuitsGroup, Silence
    <3> QED  BY <2>3, <3>1 DEF CommentGroup
  <2> QED  BY <2>2, <2>3
<1>2. /\ reviewing /\ spoken[key] = <<>>
      /\ UNCHANGED <<sights, standing, tongue, reviewing, noted, kept, rejudged>>
  BY DEF CommentGroup
<1>3. /\ NotedShape' /\ Untold' /\ PostIsWeakest' /\ NobodyIsSilent'
      /\ OnlyFitAnswers' /\ SpeakAsOne' /\ RewriteSettles'
  BY <1>2, NotesStay
<1>4. /\ DOMAIN spoken' = GroupKeys /\ spoken'[key] = <<text>>
      /\ \A k \in GroupKeys \ {key}: spoken'[k] = spoken[k]
  BY <1>1 DEF CommentInv, SpokenShape
<1>5. <<text>>[1] = text /\ Len(<<text>>) = 1
  OBVIOUS
<1>6. SpokenShape'
  <2>1. \A k \in GroupKeys: spoken'[k] = <<>> \/ spoken'[k] = <<spoken'[k][1]>>
    BY <1>4, <1>5 DEF CommentInv, SpokenShape
  <2> QED  BY <1>4, <2>1 DEF SpokenShape
<1>7. CommentTypeOK'
  <2>1. \A k \in GroupKeys: Len(spoken'[k]) <= 1
    <3>1. \A k \in GroupKeys: Len(spoken[k]) <= 1
      BY DEF CommentInv, CommentTypeOK
    <3>2. Len(spoken'[key]) <= 1
      BY <1>4, <1>5
    <3> QED  BY <1>4, <3>1, <3>2
  <2> QED  BY <1>2, <2>1 DEF CommentInv, CommentTypeOK
<1>8. UnderReview'
  <2>1. \A p \in Shown: IsDone(p) => GroupKey(p) \in GroupKeys \ {key}
    BY <1>2 DEF CommentInv, UnderReview, GroupKeys
  <2>2. \A p: IsDone(p)' <=> IsDone(p)
    BY <1>2 DEF IsDone
  <2> QED  BY <1>2, <1>4, <2>1, <2>2 DEF CommentInv, UnderReview
<1>9. SpokenFits'
  <2>1. \A said, group: SuitsGroup(said, group)' <=> SuitsGroup(said, group)
    BY <1>2 DEF SuitsGroup, NamesWeakest
  <2>2. \A k \in GroupKeys: spoken'[k] # <<>> => SuitsGroup(spoken'[k][1], InGroup(k))
    BY <1>1, <1>4, <1>5 DEF CommentInv, SpokenFits
  <2> QED  BY <2>1, <2>2 DEF SpokenFits
<1> QED  BY <1>3, <1>6, <1>7, <1>8, <1>9 DEF CommentInv

LEMMA PhotoCommentFits ==
    ASSUME NEW p \in Shown, sights[p] \in Sights, NEW flaws, NEW hash, NEW text,
           text = Chosen(flaws, PostRefused(flaws, sights[p]),
                         PostText(sights[p], standing[p], hash, tongue))
    PROVE  /\ text = Silence => DOMAIN sights[p].scores \union DOMAIN sights[p].visible = {}
           /\ text.by = "model" /\ PostRefused(text.flaws, sights[p]) => WeakestOfPhoto(sights[p]) = <<>>
           /\ text.by = "rules" => text.weak = WeakestOfPhoto(sights[p])
<1>1. PICK sight, weak, own: /\ sight = sights[p] /\ weak = WeakestOfPhoto(sight)
                            /\ own = PostText(sight, standing[p], hash, tongue)
  OBVIOUS
<1>2. TextIs(own, WeakestOfPhoto(sight))
  BY <1>1, PostTextIs
<1>3. StoredText(Chosen(flaws, PostRefused(flaws, sight), own), WeakestOfPhoto(sight), flaws,
             PostRefused(flaws, sight))
  BY <1>2, PostChosen
<1>4. text = Chosen(flaws, PostRefused(flaws, sight), own)
  BY <1>1
<1>5. /\ text = Silence => weak = <<>>
      /\ text.by = "model" => text.flaws = flaws /\ (PostRefused(flaws, sight) => weak = <<>>)
      /\ text.by = "rules" => text.weak = weak
  BY <1>1, <1>3, <1>4 DEF StoredText
<1>6. weak = <<>> => DOMAIN sight.scores \union DOMAIN sight.visible = {}
  BY <1>1, PhotoWeakest
<1> QED  BY <1>1, <1>5, <1>6

LEMMA CommentPhotoSteps ==
    ASSUME CommentInv, NEW p \in Shown, NEW flaws, NEW written_ \in BOOLEAN,
           CommentPhoto(p, flaws, written_)
    PROVE  CommentInv'
<1>1. /\ reviewing /\ kept = Unsaid /\ spoken[GroupKey(p)] # <<>> /\ noted[p].status = "waiting"
      /\ UNCHANGED <<sights, standing, tongue, reviewing, spoken, kept, rejudged>>
  BY DEF CommentPhoto, CommentInv, UnderReview
<1>2. PICK group: group = spoken[GroupKey(p)][1]
  OBVIOUS
<1>3. PICK post, row:
        /\ noted' = [noted EXCEPT ![p] = row]
        /\ \/ row = [status |-> "done", group |-> group, post |-> post]
           \/ row = [noted[p] EXCEPT !.status = "error"]
        /\ tongue # Unsaid /\ post = Silence =>
               DOMAIN sights[p].scores \union DOMAIN sights[p].visible = {}
        /\ post.by = "model" /\ PostRefused(post.flaws, sights[p]) => WeakestOfPhoto(sights[p]) = <<>>
        /\ post.by = "rules" => post.weak = WeakestOfPhoto(sights[p])
  <2>1. PICK post: post = IF tongue # Unsaid
                            THEN Chosen(flaws, PostRefused(flaws, sights[p]),
                                        PostText(sights[p], standing[p], KeyHash[p], tongue))
                            ELSE Silence
    OBVIOUS
  <2>2. noted' = [noted EXCEPT ![p] =
           IF written_ THEN [status |-> "done", group |-> group, post |-> post]
           ELSE [noted[p] EXCEPT !.status = "error"]]
    BY <1>2, <2>1 DEF CommentPhoto
  <2>3. PICK row: /\ noted' = [noted EXCEPT ![p] = row]
                  /\ \/ row = [status |-> "done", group |-> group, post |-> post]
                     \/ row = [noted[p] EXCEPT !.status = "error"]
    <3>1. CASE written_
      BY <2>2, <3>1
    <3>2. CASE ~written_
      BY <2>2, <3>2
    <3> QED  BY <3>1, <3>2
  <2>4. sights[p] \in Sights
    BY DEF CommentInv, CommentTypeOK
  <2>5. CASE tongue # Unsaid
    <3>1. PICK hash: hash = KeyHash[p]
      OBVIOUS
    <3>2. post = Chosen(flaws, PostRefused(flaws, sights[p]),
                        PostText(sights[p], standing[p], hash, tongue))
      BY <2>1, <2>5, <3>1
    <3>3. /\ post = Silence => DOMAIN sights[p].scores \union DOMAIN sights[p].visible = {}
          /\ post.by = "model" /\ PostRefused(post.flaws, sights[p]) => WeakestOfPhoto(sights[p]) = <<>>
          /\ post.by = "rules" => post.weak = WeakestOfPhoto(sights[p])
      BY <2>4, <3>2, PhotoCommentFits
    <3> QED  BY <2>3, <3>3
  <2>6. CASE tongue = Unsaid
    <3>1. post.by = "nobody"
      BY <2>1, <2>6 DEF Silence
    <3> QED  BY <2>3, <2>6, <3>1
  <2> QED  BY <2>5, <2>6
<1>4. /\ DOMAIN noted' = Shown /\ noted'[p] = row
      /\ \A q \in Shown \ {p}: noted'[q] = noted[q]
  BY <1>3 DEF CommentInv, NotedShape
<1>5. noted[p].group = Silence /\ noted[p].post = Silence
  BY <1>1 DEF CommentInv, Untold, IsDone
<1>6. /\ DOMAIN row = {"status", "group", "post"} /\ row.status \in {"done", "error"}
      /\ row.status = "done" => row.group = group /\ row.post = post
      /\ row.status # "done" => row.group = Silence /\ row.post = Silence
  <2>1. DOMAIN noted[p] = {"status", "group", "post"}
    BY DEF CommentInv, NotedShape
  <2>2. CASE row = [status |-> "done", group |-> group, post |-> post]
    BY <2>2
  <2>3. CASE row = [noted[p] EXCEPT !.status = "error"]
    <3>1. /\ DOMAIN row = {"status", "group", "post"} /\ row.status = "error"
          /\ row.group = noted[p].group /\ row.post = noted[p].post
      BY <2>1, <2>3
    <3> QED  BY <1>5, <3>1
  <2> QED  BY <1>3, <2>2, <2>3
<1>7. \A q \in Shown \ {p}: IsDone(q)' <=> IsDone(q)
  BY <1>4 DEF IsDone
<1>8. IsDone(p)' <=> row.status = "done"
  BY <1>4 DEF IsDone
<1>9. SuitsGroup(group, InGroup(GroupKey(p))) /\ p \in InGroup(GroupKey(p))
  BY <1>1, <1>2 DEF CommentInv, SpokenFits, GroupKeys, InGroup
<1>10. NotedShape'
  <2>1. \A q \in Shown: DOMAIN noted'[q] = {"status", "group", "post"}
    BY <1>4, <1>6 DEF CommentInv, NotedShape
  <2> QED  BY <1>4, <2>1 DEF NotedShape
<1>11. CommentTypeOK'
  <2>1. \A q \in Shown: noted'[q].status \in {"waiting", "done", "error"}
    BY <1>4, <1>6 DEF CommentInv, CommentTypeOK
  <2> QED  BY <1>1, <2>1 DEF CommentInv, CommentTypeOK
<1>12. SpokenShape' /\ SpokenFits'
  <2>1. \A said, photos: SuitsGroup(said, photos)' <=> SuitsGroup(said, photos)
    BY <1>1 DEF SuitsGroup, NamesWeakest
  <2> QED  BY <1>1, <2>1 DEF CommentInv, SpokenShape, SpokenFits
<1>13. Untold'
  <2> SUFFICES ASSUME NEW q \in Shown, ~IsDone(q)'
               PROVE  noted'[q].group = Silence /\ noted'[q].post = Silence
    BY DEF Untold
  <2>1. CASE q = p
    BY <1>4, <1>6, <1>8, <2>1
  <2>2. CASE q # p
    BY <1>4, <1>7, <2>2 DEF CommentInv, Untold
  <2> QED  BY <2>1, <2>2
<1>14. \A q \in Shown: IsDone(q)' =>
          spoken[GroupKey(q)] # <<>> /\ noted'[q].group = spoken[GroupKey(q)][1]
  <2> SUFFICES ASSUME NEW q \in Shown, IsDone(q)'
               PROVE  spoken[GroupKey(q)] # <<>> /\ noted'[q].group = spoken[GroupKey(q)][1]
    OBVIOUS
  <2>1. CASE q = p
    BY <1>1, <1>2, <1>4, <1>6, <1>8, <2>1
  <2>2. CASE q # p
    BY <1>1, <1>4, <1>7, <2>2 DEF CommentInv, UnderReview
  <2> QED  BY <2>1, <2>2
<1>15. UnderReview' /\ SpeakAsOne'
  BY <1>1, <1>14 DEF UnderReview, SpeakAsOne
<1>16. PostIsWeakest'
  <2> SUFFICES ASSUME NEW q \in Shown, noted'[q].post.by = "rules"
               PROVE  noted'[q].post.weak = WeakestOfPhoto(sights[q])
    BY <1>1 DEF PostIsWeakest
  <2>1. CASE q = p
    BY <1>3, <1>4, <1>6, <2>1 DEF Silence
  <2>2. CASE q # p
    BY <1>4, <2>2 DEF CommentInv, PostIsWeakest
  <2> QED  BY <2>1, <2>2
<1>17. NobodyIsSilent'
  <2> SUFFICES ASSUME NEW q \in Shown, IsDone(q)', tongue # Unsaid
               PROVE  /\ DOMAIN sights[q].scores \union DOMAIN sights[q].visible # {} =>
                            noted'[q].post # Silence
                      /\ DOMAIN sights[q].scores # {} => noted'[q].group # Silence
    BY <1>1 DEF NobodyIsSilent
  <2>1. CASE q = p
    <3>1. row.group = group /\ row.post = post
      BY <1>6, <1>8, <2>1
    <3>2. DOMAIN sights[p].scores # {} => group # Silence
      BY <1>9 DEF SuitsGroup
    <3> QED  BY <1>3, <1>4, <2>1, <3>1, <3>2
  <2>2. CASE q # p
    BY <1>4, <1>7, <2>2 DEF CommentInv, NobodyIsSilent
  <2> QED  BY <2>1, <2>2
<1>18. OnlyFitAnswers'
  <2> SUFFICES ASSUME NEW q \in Shown
               PROVE  /\ noted'[q].post.by = "model" /\ PostRefused(noted'[q].post.flaws, sights[q])
                            => WeakestOfPhoto(sights[q]) = <<>>
                      /\ noted'[q].group.by = "model" /\ noted'[q].group.flaws \cap GroupFlaws # {}
                            => \A r \in Shown: GroupKey(r) = GroupKey(q) => DOMAIN sights[r].scores = {}
    BY <1>1 DEF OnlyFitAnswers
  <2>1. CASE q = p
    <3>1. CASE row.status = "done"
      <4>1. noted'[q].group = group /\ noted'[q].post = post
        BY <1>4, <1>6, <2>1, <3>1
      <4>2. group.by = "model" /\ group.flaws \cap GroupFlaws # {} =>
              \A r \in Shown: GroupKey(r) = GroupKey(p) => DOMAIN sights[r].scores = {}
        BY <1>9 DEF SuitsGroup, InGroup
      <4> QED  BY <1>3, <2>1, <4>1, <4>2
    <3>2. CASE row.status # "done"
      <4>1. noted'[q].group.by = "nobody" /\ noted'[q].post.by = "nobody"
        BY <1>4, <1>6, <2>1, <3>2 DEF Silence
      <4> QED  BY <4>1
    <3> QED  BY <3>1, <3>2
  <2>2. CASE q # p
    BY <1>4, <2>2 DEF CommentInv, OnlyFitAnswers
  <2> QED  BY <2>1, <2>2
<1>19. RewriteSettles'
  BY <1>1 DEF RewriteSettles
<1> QED  BY <1>10, <1>11, <1>12, <1>13, <1>15, <1>16, <1>17, <1>18, <1>19 DEF CommentInv

LEMMA EndReviewSteps ==
    ASSUME CommentInv, EndReview
    PROVE  CommentInv'
<1>1. reviewing' = FALSE /\ UNCHANGED <<sights, standing, tongue, spoken, noted, kept, rejudged>>
  BY DEF EndReview
<1>2. /\ NotedShape' /\ Untold' /\ PostIsWeakest' /\ NobodyIsSilent'
      /\ OnlyFitAnswers' /\ SpeakAsOne' /\ RewriteSettles'
  BY <1>1, NotesStay
<1>3. CommentTypeOK'
  BY <1>1 DEF CommentInv, CommentTypeOK
<1>4. SpokenShape' /\ SpokenFits' /\ UnderReview'
  <2>1. \A said, photos: SuitsGroup(said, photos)' <=> SuitsGroup(said, photos)
    BY <1>1 DEF SuitsGroup, NamesWeakest
  <2> QED  BY <1>1, <2>1 DEF CommentInv, SpokenShape, SpokenFits, UnderReview
<1> QED  BY <1>2, <1>3, <1>4 DEF CommentInv

LEMMA RescoreRowsSteps ==
    ASSUME CommentInv, NEW s \in StandingsOf({p \in Shown: IsDone(p)}), RescoreRows(s)
    PROVE  CommentInv'
<1>1. /\ ~reviewing /\ kept' = Unsaid /\ rejudged' = rejudged + 1 /\ rejudged < MaxRejudged
      /\ UNCHANGED <<sights, tongue, reviewing, spoken, noted>>
      /\ standing' = [p \in Shown |-> IF p \in DOMAIN s THEN s[p] ELSE standing[p]]
  BY DEF RescoreRows
<1>2. /\ NotedShape' /\ Untold' /\ PostIsWeakest' /\ NobodyIsSilent'
      /\ OnlyFitAnswers' /\ SpeakAsOne'
  <2>1. NotedShape' /\ PostIsWeakest' /\ OnlyFitAnswers'
    BY <1>1 DEF CommentInv, NotedShape, PostIsWeakest, OnlyFitAnswers
  <2>2. \A p: IsDone(p)' <=> IsDone(p)
    BY <1>1 DEF IsDone
  <2>3. Untold' /\ SpeakAsOne'
    BY <1>1, <2>2 DEF CommentInv, Untold, SpeakAsOne
  <2>4. NobodyIsSilent'
    BY <1>1, <2>2 DEF CommentInv, NobodyIsSilent
  <2> QED  BY <2>1, <2>3, <2>4
<1>3. RewriteSettles'
  BY <1>1 DEF RewriteSettles
<1>4. CommentTypeOK'
  <2>1. s \in [DOMAIN s -> [rank: 1..Len(Posted), decision: {"keep", "reject"}]]
    BY DEF StandingsOf
  <2>2. standing \in [Shown -> [rank: 1..Len(Posted), decision: {"keep", "reject"}]]
    BY DEF CommentInv, CommentTypeOK
  <2>3. standing' \in [Shown -> [rank: 1..Len(Posted), decision: {"keep", "reject"}]]
    BY <1>1, <2>1, <2>2
  <2>4. rejudged' \in 0..MaxRejudged
    <3>1. rejudged \in 0..MaxRejudged
      BY DEF CommentInv, CommentTypeOK
    <3> QED  BY <1>1, <3>1, CommentAssumption
  <2> QED  BY <1>1, <2>3, <2>4 DEF CommentInv, CommentTypeOK
<1>5. SpokenShape' /\ SpokenFits' /\ UnderReview'
  <2>1. \A said, photos: SuitsGroup(said, photos)' <=> SuitsGroup(said, photos)
    BY <1>1 DEF SuitsGroup, NamesWeakest
  <2> QED  BY <1>1, <2>1 DEF CommentInv, SpokenShape, SpokenFits, UnderReview
<1> QED  BY <1>2, <1>3, <1>4, <1>5 DEF CommentInv

LEMMA RewriteSteps ==
    ASSUME CommentInv, NEW language \in Languages, RewriteComments(language)
    PROVE  CommentInv'
<1>1. /\ ~reviewing /\ kept' = language
      /\ noted' = [p \in Shown |-> IF IsDone(p) THEN MadeAnew(p, language) ELSE noted[p]]
      /\ UNCHANGED <<sights, standing, tongue, reviewing, spoken, rejudged>>
  BY DEF RewriteComments
<1>2. sights \in [Shown -> Sights] /\ \A p \in Shown: standing[p].rank \in Int
  <2>1. standing \in [Shown -> [rank: 1..Len(Posted), decision: {"keep", "reject"}]]
    BY DEF CommentInv, CommentTypeOK
  <2>2. \A p \in Shown: standing[p].rank \in 1..Len(Posted)
    BY <2>1
  <2>3. sights \in [Shown -> Sights]
    BY DEF CommentInv, CommentTypeOK
  <2> QED  BY <2>2, <2>3
<1>3. \A p \in Shown: /\ IsDone(p) => noted'[p] = MadeAnew(p, language)
                      /\ ~IsDone(p) => noted'[p] = noted[p]
  BY <1>1
<1>4. \A p: /\ MadeAnew(p, language).status = "done"
            /\ DOMAIN MadeAnew(p, language) = {"status", "group", "post"}
            /\ MadeAnew(p, language).post =
                  PostText(sights[p], standing[p], KeyHash[p], language)
  BY DEF MadeAnew
<1>5. \A p \in Shown: IsDone(p)' <=> IsDone(p)
  BY <1>3, <1>4 DEF IsDone
<1>6. NotedShape'
  <2>1. \A p \in Shown: DOMAIN noted'[p] = {"status", "group", "post"}
    BY <1>3, <1>4 DEF CommentInv, NotedShape
  <2> QED  BY <1>1, <2>1 DEF NotedShape
<1>7. CommentTypeOK'
  <2>1. \A p \in Shown: noted'[p].status \in {"waiting", "done", "error"}
    BY <1>3, <1>4 DEF CommentInv, CommentTypeOK
  <2> QED  BY <1>1, <2>1 DEF CommentInv, CommentTypeOK
<1>8. SpokenShape' /\ SpokenFits' /\ UnderReview'
  <2>1. \A said, photos: SuitsGroup(said, photos)' <=> SuitsGroup(said, photos)
    BY <1>1 DEF SuitsGroup, NamesWeakest
  <2> QED  BY <1>1, <2>1 DEF CommentInv, SpokenShape, SpokenFits, UnderReview
<1>9. Untold'
  BY <1>3, <1>5 DEF CommentInv, Untold
<1>10. \A p \in Shown: IsDone(p) =>
          TextIs(noted'[p].post, WeakestOfPhoto(sights[p]))
  BY <1>3, <1>4, PostTextIs
<1>11. \A p \in Shown: IsDone(p) =>
          /\ noted'[p].group.by # "model"
          /\ noted'[p].group = Silence =>
                \A q \in InGroup(GroupKey(p)): IsDone(q) => DOMAIN sights[q].scores = {}
  <2> SUFFICES ASSUME NEW p \in Shown, IsDone(p)
               PROVE  /\ noted'[p].group.by # "model"
                      /\ noted'[p].group = Silence =>
                            \A q \in InGroup(GroupKey(p)): IsDone(q) => DOMAIN sights[q].scores = {}
    OBVIOUS
  <2>1. noted'[p].group = MadeAnew(p, language).group
    BY <1>3
  <2> QED  BY <1>2, <2>1, RewrittenNamesWeakest
<1>12. PostIsWeakest'
  <2> SUFFICES ASSUME NEW p \in Shown, noted'[p].post.by = "rules"
               PROVE  noted'[p].post.weak = WeakestOfPhoto(sights[p])
    BY <1>1 DEF PostIsWeakest
  <2>1. CASE IsDone(p)
    BY <1>10, <2>1, TextsDiffer
  <2>2. CASE ~IsDone(p)
    BY <1>3, <2>2 DEF CommentInv, PostIsWeakest
  <2> QED  BY <2>1, <2>2
<1>13. NobodyIsSilent'
  <2> SUFFICES ASSUME NEW p \in Shown, IsDone(p)
               PROVE  /\ DOMAIN sights[p].scores \union DOMAIN sights[p].visible # {} =>
                            noted'[p].post # Silence
                      /\ DOMAIN sights[p].scores # {} => noted'[p].group # Silence
    BY <1>1, <1>5 DEF NobodyIsSilent
  <2>1. noted'[p].post = Silence => WeakestOfPhoto(sights[p]) = <<>>
    BY <1>10, TextsDiffer
  <2>2. WeakestOfPhoto(sights[p]) = <<>> =>
          DOMAIN sights[p].scores \union DOMAIN sights[p].visible = {}
    <3>1. PICK sight \in Sights: sight = sights[p]
      BY <1>2
    <3> QED  BY <3>1, PhotoWeakest
  <2>3. p \in InGroup(GroupKey(p))
    BY DEF InGroup
  <2> QED  BY <1>11, <2>1, <2>2, <2>3
<1>14. OnlyFitAnswers'
  <2> SUFFICES ASSUME NEW p \in Shown
               PROVE  /\ noted'[p].post.by = "model" /\ PostRefused(noted'[p].post.flaws, sights[p])
                            => WeakestOfPhoto(sights[p]) = <<>>
                      /\ noted'[p].group.by = "model" /\ noted'[p].group.flaws \cap GroupFlaws # {}
                            => \A q \in Shown: GroupKey(q) = GroupKey(p) => DOMAIN sights[q].scores = {}
    BY <1>1 DEF OnlyFitAnswers
  <2>1. CASE IsDone(p)
    BY <1>10, <1>11, <2>1, TextsDiffer
  <2>2. CASE ~IsDone(p)
    BY <1>3, <2>2 DEF CommentInv, OnlyFitAnswers
  <2> QED  BY <2>1, <2>2
<1>15. SpeakAsOne'
  <2>1. \A p, q: GroupKey(p) = GroupKey(q) => MadeAnew(p, language).group = MadeAnew(q, language).group
    BY DEF MadeAnew
  <2> QED  BY <1>3, <1>5, <2>1 DEF SpeakAsOne
<1>16. RewriteSettles'
  <2>1. \A key: RowsOf(key)' = RowsOf(key)
    <3>1. \A key: {p \in InGroup(key): IsDone(p)'} = {p \in InGroup(key): IsDone(p)}
      BY <1>5 DEF InGroup
    <3> QED  BY <1>1, <3>1 DEF RowsOf
  <2>2. \A p: MadeAnew(p, language)' = MadeAnew(p, language)
    BY <1>1, <2>1 DEF MadeAnew, StoredSight
  <2> QED  BY <1>1, <1>3, <1>5, <2>2 DEF RewriteSettles
<1> QED  BY <1>6, <1>7, <1>8, <1>9, <1>12, <1>13, <1>14, <1>15, <1>16 DEF CommentInv

LEMMA CommentsFit ==
    ASSUME CommentInv
    PROVE  CommentsHold
<1>1. sights \in [Shown -> Sights] /\ \A p \in Shown: standing[p].rank \in Int
  <2>1. standing \in [Shown -> [rank: 1..Len(Posted), decision: {"keep", "reject"}]]
    BY DEF CommentInv, CommentTypeOK
  <2>2. \A p \in Shown: standing[p].rank \in 1..Len(Posted)
    BY <2>1
  <2>3. sights \in [Shown -> Sights]
    BY DEF CommentInv, CommentTypeOK
  <2> QED  BY <2>2, <2>3
<1>2. AdviceOnThePhoto
  <2> SUFFICES ASSUME NEW p \in Shown, noted[p].post.by = "rules",
                      NEW d \in ItemsOf(noted[p].post.weak),
                      NEW e \in DOMAIN sights[p].scores \ ItemsOf(noted[p].post.weak)
               PROVE  d \in DOMAIN sights[p].scores /\ sights[p].scores[d] <= sights[p].scores[e]
    BY DEF AdviceOnThePhoto
  <2>1. PICK sight \in Sights: sight = sights[p]
    BY <1>1
  <2>2. PICK weak: weak = noted[p].post.weak /\ weak = WeakestOfPhoto(sight)
    BY <2>1 DEF CommentInv, PostIsWeakest
  <2> QED  BY <2>1, <2>2, PhotoWeakest
<1>3. AdviceOnTheGroup
  <2> SUFFICES ASSUME NEW p \in Shown, IsDone(p), noted[p].group.by = "rules",
                      spoken[GroupKey(p)] = <<noted[p].group>> \/ kept # Unsaid
               PROVE  NamesWeakest(noted[p].group.weak,
                                   {q \in InGroup(GroupKey(p)): kept = Unsaid \/ IsDone(q)})
    BY DEF AdviceOnTheGroup
  <2>1. CASE kept = Unsaid
    <3>1. PICK text: text = noted[p].group
      OBVIOUS
    <3>2. spoken[GroupKey(p)] # <<>> /\ spoken[GroupKey(p)][1] = text
      BY <2>1, <3>1
    <3>3. SuitsGroup(text, InGroup(GroupKey(p)))
      BY <3>2 DEF CommentInv, SpokenFits, GroupKeys
    <3>4. {q \in InGroup(GroupKey(p)): kept = Unsaid \/ IsDone(q)} = InGroup(GroupKey(p))
      BY <2>1
    <3> QED  BY <3>1, <3>3, <3>4 DEF SuitsGroup
  <2>2. CASE kept # Unsaid
    <3>1. PICK text, photos: /\ text = noted[p].group
                             /\ photos = {q \in InGroup(GroupKey(p)): IsDone(q)}
      OBVIOUS
    <3>2. text = MadeAnew(p, kept).group
      BY <2>2, <3>1 DEF CommentInv, RewriteSettles
    <3>3. NamesWeakest(text.weak, photos)
      BY <1>1, <3>1, <3>2, RewrittenNamesWeakest
    <3>4. {q \in InGroup(GroupKey(p)): kept = Unsaid \/ IsDone(q)} = photos
      BY <2>2, <3>1
    <3> QED  BY <3>1, <3>3, <3>4
  <2> QED  BY <2>1, <2>2
<1> QED  BY <1>2, <1>3 DEF CommentInv, CommentsHold

(* Whatever the model answered and whatever failed, the comments fit the   *)
(* scores they stand beside: nobody who has scores is left without one, no *)
(* refused answer is stored where the scores could speak, the rows of a    *)
(* group share its comment, advice names what is weakest, and rewriting    *)
(* once more changes nothing.                                              *)
THEOREM CommentsAlwaysHold == CommentSpec => []CommentsHold
<1>1. CommentInit => CommentInv
  BY CommentStarts
<1>2. CommentInv /\ [CommentNext]_commentVars => CommentInv'
  <2> SUFFICES ASSUME CommentInv, [CommentNext]_commentVars PROVE CommentInv'
    OBVIOUS
  <2>1. ASSUME NEW key \in GroupKeys, NEW flaws \in GroupAnswers \union {Failed},
               CommentGroup(key, flaws)
        PROVE  CommentInv'
    BY <2>1, CommentGroupSteps
  <2>2. ASSUME NEW p \in Shown, NEW flaws \in PostAnswers \union {Failed}, NEW w \in BOOLEAN,
               CommentPhoto(p, flaws, w)
        PROVE  CommentInv'
    BY <2>2, CommentPhotoSteps
  <2>3. CASE EndReview
    BY <2>3, EndReviewSteps
  <2>4. ASSUME NEW s \in StandingsOf({p \in Shown: IsDone(p)}), RescoreRows(s)
        PROVE  CommentInv'
    BY <2>4, RescoreRowsSteps
  <2>5. ASSUME NEW language \in Languages, RewriteComments(language) PROVE CommentInv'
    BY <2>5, RewriteSteps
  <2>6. CASE UNCHANGED commentVars
    <3>1. UNCHANGED <<sights, standing, tongue, reviewing, spoken, noted, kept, rejudged>>
      BY <2>6 DEF commentVars
    <3>2. /\ NotedShape' /\ Untold' /\ PostIsWeakest' /\ NobodyIsSilent'
          /\ OnlyFitAnswers' /\ SpeakAsOne' /\ RewriteSettles'
      BY <3>1, NotesStay
    <3>3. CommentTypeOK'
      BY <3>1 DEF CommentInv, CommentTypeOK
    <3>4. SpokenShape' /\ SpokenFits' /\ UnderReview'
      <4>1. \A said, photos: SuitsGroup(said, photos)' <=> SuitsGroup(said, photos)
        BY <3>1 DEF SuitsGroup, NamesWeakest
      <4>2. \A p: IsDone(p)' <=> IsDone(p)
        BY <3>1 DEF IsDone
      <4> QED  BY <3>1, <4>1, <4>2 DEF CommentInv, SpokenShape, SpokenFits, UnderReview
    <3> QED  BY <3>2, <3>3, <3>4 DEF CommentInv
  <2> QED  BY <2>1, <2>2, <2>3, <2>4, <2>5, <2>6 DEF CommentNext
<1>3. CommentInv => CommentsHold
  BY CommentsFit
<1> QED  BY <1>1, <1>2, <1>3, PTL DEF CommentSpec

-----------------------------------------------------------------------------
(* Whoever asks a model gets its answer, through either client             *)
(* (openvino_service.py, omlx.py, ollama.py, json_extract.py), and the     *)
(* comments fit the scores whatever it answered (commentary.py).           *)
THEOREM AnswersAlwaysHold == AnswersSpec => []AnswersHold
<1>1. AnswersBelong /\ AnswerIsTheModels /\ CommentsHold => AnswersHold
  BY DEF AnswersHold
<1> QED  BY <1>1, AnswersAreTheirs, AnswersAreTheModels, CommentsAlwaysHold, PTL DEF AnswersSpec
=============================================================================
