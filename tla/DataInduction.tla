---------------------------- MODULE DataInduction ----------------------------
(***************************************************************************)
(* Induction over the natural numbers and definition by recursion, in a    *)
(* form that takes sets and functions as parameters.  The sums of sizes    *)
(* and lengths in the models (CharOffs, ForeachSize, Offset) are recursive *)
(* functions, as are FlattenSeq and SumFunction of the community modules,  *)
(* and what they compute is proved with these lemmas.                      *)
(***************************************************************************)
EXTENDS Integers, SequencesExt, SequenceTheorems, FiniteSetTheorems, WellFoundedInduction,
        TLAPS

NatOrder == OpToRel(<, Nat)

(* The order of the natural numbers as a relation.                         *)
LEMMA NatOrderWF == IsWellFoundedOn(NatOrder, Nat)
BY NatLessThanWellFounded, Zenon DEF NatOrder

LEMMA NatOrderLess == NatOrder = {ss \in Nat \X Nat : ss[1] < ss[2]}
BY Zenon DEF NatOrder, OpToRel

(* A set of natural numbers that is not empty has a least element.         *)
LEMMA NatLeast ==
    ASSUME NEW T \in SUBSET Nat, T # {}
    PROVE  \E x \in T : \A y \in T : x <= y
<1>1. PICK x \in T : \A y \in T : ~ (<<y, x>> \in NatOrder)
  BY NatOrderWF, WFMin, Zenon
<1>2. \A y \in T : ~(y < x)
  BY <1>1, NatOrderLess
<1> QED BY <1>2

(* Induction up to a bound: what holds of a and is inherited holds up to b. *)
LEMMA UpToInduction ==
    ASSUME NEW S, NEW a \in Nat, NEW b \in Nat, a \in S,
           \A n \in a .. b : n \in S /\ n + 1 <= b => n + 1 \in S
    PROVE  a .. b \subseteq S
<1> SUFFICES ASSUME (a .. b) \ S # {} PROVE FALSE
  OBVIOUS
<1>1. PICK m \in (a .. b) \ S : \A y \in (a .. b) \ S : m <= y
  <2>1. (a .. b) \ S \in SUBSET Nat
    OBVIOUS
  <2> QED BY <2>1, NatLeast
<1>2. m # a /\ m \in a .. b
  BY <1>1
<1>3. m - 1 \in a .. b /\ (m - 1) + 1 = m
  BY <1>2
<1>4. m - 1 \in S
  BY <1>1, <1>3
<1> QED BY <1>1, <1>3, <1>4

(* Induction, with a set in the place of the predicate.                    *)
LEMMA SetInduction ==
    ASSUME NEW S, 0 \in S, \A n \in Nat : n \in S => n + 1 \in S
    PROVE  Nat \subseteq S
<1> SUFFICES ASSUME NEW b \in Nat PROVE b \in S
  OBVIOUS
<1>1. 0 .. b \subseteq S
  BY UpToInduction
<1> QED BY <1>1

-----------------------------------------------------------------------------
(* The values step produces from v: the beginnings of n + 1 of them.       *)
Runs(V, v, step, n) ==
    {g \in [0 .. n -> V] : g[0] = v /\ \A i \in 1 .. n : g[i] = step[i][g[i - 1]]}

(* There is such a beginning for each n ...                                *)
LEMMA RunExists ==
    ASSUME NEW V, NEW v \in V, NEW step \in [Nat -> [V -> V]]
    PROVE  \A n \in Nat : Runs(V, v, step, n) # {}
<1> DEFINE S == {n \in Nat : Runs(V, v, step, n) # {}}
<1>1. 0 \in S
  <2> DEFINE g == [i \in 0 .. 0 |-> v]
  <2>1. g \in Runs(V, v, step, 0)
    BY DEF Runs
  <2> QED BY <2>1
<1>2. ASSUME NEW n \in Nat, n \in S PROVE n + 1 \in S
  <2>1. PICK g : g \in Runs(V, v, step, n)
    BY <1>2
  <2>2. /\ g \in [0 .. n -> V] /\ g[0] = v /\ \A i \in 1 .. n : g[i] = step[i][g[i - 1]]
    BY <2>1 DEF Runs
  <2> DEFINE h == [i \in 0 .. n + 1 |-> IF i = n + 1 THEN step[n + 1][g[n]] ELSE g[i]]
  <2>3. step[n + 1][g[n]] \in V
    BY <2>2
  <2>4. h \in [0 .. n + 1 -> V] /\ h[0] = v
    BY <2>2, <2>3
  <2>5. ASSUME NEW i \in 1 .. n + 1 PROVE h[i] = step[i][h[i - 1]]
    <3>1. CASE i = n + 1
      BY <3>1, <2>2
    <3>2. CASE i # n + 1
      BY <3>2, <2>2
    <3> QED BY <3>1, <3>2
  <2>6. h \in Runs(V, v, step, n + 1)
    BY <2>4, <2>5 DEF Runs
  <2> QED BY <2>6
<1> HIDE DEF S
<1>3. Nat \subseteq S
  BY <1>1, <1>2, SetInduction
<1> QED BY <1>3 DEF S

(* ... and a longer one continues a shorter one.                           *)
LEMMA RunsAgree ==
    ASSUME NEW V, NEW v \in V, NEW step \in [Nat -> [V -> V]],
           NEW n \in Nat, NEW m \in Nat, n <= m,
           NEW g \in Runs(V, v, step, n), NEW h \in Runs(V, v, step, m)
    PROVE  \A i \in 0 .. n : g[i] = h[i]
<1> DEFINE S == {i \in 0 .. n : g[i] = h[i]}
<1>1. /\ g[0] = v /\ h[0] = v
      /\ \A i \in 1 .. n : g[i] = step[i][g[i - 1]]
      /\ \A i \in 1 .. m : h[i] = step[i][h[i - 1]]
  BY DEF Runs
<1>2. 0 \in S
  BY <1>1
<1>3. ASSUME NEW i \in 0 .. n, i \in S, i + 1 <= n PROVE i + 1 \in S
  <2>1. i + 1 \in 1 .. n /\ i + 1 \in 1 .. m /\ (i + 1) - 1 = i
    BY <1>3
  <2> QED BY <1>1, <1>3, <2>1
<1> HIDE DEF S
<1>4. 0 .. n \subseteq S
  BY <1>2, <1>3, UpToInduction
<1> QED BY <1>4 DEF S

(* A function defined by recursion over the natural numbers.               *)
IsRun(f, v, step) == f[0] = v /\ \A i \in Nat \ {0} : f[i] = step[i][f[i - 1]]

(* There is a function defined by recursion.                               *)
LEMMA RecursionExists ==
    ASSUME NEW V, NEW v \in V, NEW step \in [Nat -> [V -> V]]
    PROVE  \E f \in [Nat -> V] : IsRun(f, v, step)
<1> DEFINE Run(n) == CHOOSE g : g \in Runs(V, v, step, n)
           f == [n \in Nat |-> Run(n)[n]]
<1>1. \A n \in Nat : Run(n) \in Runs(V, v, step, n)
  BY RunExists
<1>2. \A n \in Nat : /\ Run(n) \in [0 .. n -> V] /\ Run(n)[0] = v
                     /\ \A i \in 1 .. n : Run(n)[i] = step[i][Run(n)[i - 1]]
  BY <1>1 DEF Runs
<1> HIDE DEF Run
<1>3. f \in [Nat -> V]
  BY <1>2
<1>4. f[0] = v
  BY <1>2
<1>5. ASSUME NEW i \in Nat \ {0} PROVE f[i] = step[i][f[i - 1]]
  <2>1. i - 1 \in Nat /\ i - 1 <= i /\ i - 1 \in 0 .. i - 1 /\ i \in 1 .. i
    OBVIOUS
  <2>2. Run(i)[i] = step[i][Run(i)[i - 1]]
    BY <1>2, <2>1
  <2>3. Run(i - 1)[i - 1] = Run(i)[i - 1]
    BY <1>1, <2>1, RunsAgree
  <2> QED BY <2>1, <2>2, <2>3
<1> QED BY <1>3, <1>4, <1>5 DEF IsRun

-----------------------------------------------------------------------------
(* Running sums: sum[i] adds up size[0] .. size[i - 1].                    *)
IsSum(sum, size, D) ==
    /\ sum[0] = 0
    /\ \A i \in D : i # 0 => sum[i] = sum[i - 1] + size[i - 1]

(* There is a sum of any natural sizes ...                                 *)
LEMMA SumExists ==
    ASSUME NEW size \in [Nat -> Nat]
    PROVE  \E sum \in [Nat -> Nat] : IsSum(sum, size, Nat)
<1> DEFINE step == [i \in Nat |-> [x \in Nat |-> IF i = 0 THEN x ELSE x + size[i - 1]]]
<1>1. step \in [Nat -> [Nat -> Nat]] /\ 0 \in Nat
  OBVIOUS
<1> HIDE DEF step
<1>2. \E f \in [Nat -> Nat] : IsRun(f, 0, step)
  BY <1>1, RecursionExists, Zenon
<1>3. PICK f \in [Nat -> Nat] : f[0] = 0 /\ \A i \in Nat \ {0} : f[i] = step[i][f[i - 1]]
  BY <1>2 DEF IsRun
<1>4. ASSUME NEW i \in Nat, i # 0 PROVE f[i] = f[i - 1] + size[i - 1]
  <2>1. i - 1 \in Nat /\ f[i - 1] \in Nat
    BY <1>3, <1>4
  <2> QED BY <1>3, <1>4, <2>1 DEF step
<1> QED BY <1>3, <1>4 DEF IsSum

(* ... and every sum of natural sizes is one, up to a bound ...            *)
LEMMA SumType ==
    ASSUME NEW N \in Nat, NEW size, NEW sum, IsSum(sum, size, 0 .. N),
           \A i \in 0 .. N - 1 : size[i] \in Nat
    PROVE  \A i \in 0 .. N : sum[i] \in Nat
<1> DEFINE S == {i \in 0 .. N : sum[i] \in Nat}
<1>1. 0 \in S
  BY DEF IsSum
<1>2. ASSUME NEW n \in 0 .. N, n \in S, n + 1 <= N PROVE n + 1 \in S
  <2>1. n + 1 \in 0 .. N /\ n + 1 # 0 /\ (n + 1) - 1 = n /\ n \in 0 .. N - 1
    BY <1>2
  <2>2. sum[n + 1] = sum[n] + size[n]
    BY <2>1 DEF IsSum
  <2> QED BY <1>2, <2>1, <2>2
<1> HIDE DEF S
<1>3. 0 .. N \subseteq S
  BY <1>1, <1>2, UpToInduction
<1> QED BY <1>3 DEF S

(* ... or without one.                                                     *)
LEMMA SumTypeNat ==
    ASSUME NEW size \in [Nat -> Nat], NEW sum, IsSum(sum, size, Nat)
    PROVE  \A i \in Nat : sum[i] \in Nat
<1> SUFFICES ASSUME NEW N \in Nat PROVE sum[N] \in Nat
  OBVIOUS
<1>1. IsSum(sum, size, 0 .. N)
  BY DEF IsSum
<1>2. \A i \in 0 .. N - 1 : size[i] \in Nat
  OBVIOUS
<1>3. \A i \in 0 .. N : sum[i] \in Nat
  BY <1>1, <1>2, SumType
<1> QED BY <1>3

(* What a bounded recursive definition of a sum needs to have a value.     *)
LEMMA SumExistsUpTo ==
    ASSUME NEW N \in Nat, NEW size \in [0 .. N - 1 -> Nat]
    PROVE  \E f : f = [i \in 0 .. N |-> IF i = 0 THEN 0 ELSE f[i - 1] + size[i - 1]]
<1> DEFINE all == [i \in Nat |-> IF i < N THEN size[i] ELSE 0]
<1>1. all \in [Nat -> Nat] /\ \A i \in 0 .. N - 1 : all[i] = size[i]
  OBVIOUS
<1> HIDE DEF all
<1>2. PICK f \in [Nat -> Nat] : IsSum(f, all, Nat)
  BY <1>1, SumExists
<1> DEFINE g == [i \in 0 .. N |-> f[i]]
<1>3. ASSUME NEW i \in 0 .. N PROVE f[i] = IF i = 0 THEN 0 ELSE g[i - 1] + size[i - 1]
  <2>1. CASE i = 0
    BY <2>1, <1>2 DEF IsSum
  <2>2. CASE i # 0
    <3>1. i \in Nat /\ i - 1 \in 0 .. N - 1 /\ i - 1 \in 0 .. N
      BY <2>2
    <3>2. f[i] = f[i - 1] + all[i - 1]
      BY <1>2, <2>2, <3>1 DEF IsSum
    <3> QED BY <1>1, <2>2, <3>1, <3>2
  <2> QED BY <2>1, <2>2
<1>4. g = [i \in 0 .. N |-> IF i = 0 THEN 0 ELSE g[i - 1] + size[i - 1]]
  BY <1>3
<1> QED BY <1>4

-----------------------------------------------------------------------------
(* Sums over finite sets.                                                  *)

(* Induction over the subsets of a finite set: what holds of a set when it *)
(* holds of the set without any one of its elements holds of all.          *)
LEMMA SubsetInduction ==
    ASSUME NEW D, IsFiniteSet(D), NEW P,
           \A s \in SUBSET D : (\A x \in s : s \ {x} \in P) => s \in P
    PROVE  SUBSET D \subseteq P
<1> DEFINE sized == {n \in Nat : \A s \in SUBSET D : Cardinality(s) = n => s \in P}
<1>1. \A s \in SUBSET D : IsFiniteSet(s) /\ Cardinality(s) \in Nat
  BY FS_Subset, FS_CardinalityType
<1>2. 0 \in sized
  <2> SUFFICES ASSUME NEW s \in SUBSET D, Cardinality(s) = 0 PROVE s \in P
    OBVIOUS
  <2>1. s = {}
    BY <1>1, FS_EmptySet
  <2> QED BY <2>1
<1>3. ASSUME NEW n \in Nat, n \in sized PROVE n + 1 \in sized
  <2> SUFFICES ASSUME NEW s \in SUBSET D, Cardinality(s) = n + 1 PROVE s \in P
    OBVIOUS
  <2>1. ASSUME NEW x \in s PROVE s \ {x} \in P
    <3>1. Cardinality(s \ {x}) = n
      BY <1>1, FS_RemoveElement
    <3> QED BY <1>3, <3>1
  <2> QED BY <2>1
<1> HIDE DEF sized
<1>4. Nat \subseteq sized
  BY <1>2, <1>3, SetInduction
<1> QED BY <1>1, <1>4 DEF sized

(* The sums of f over all subsets of D.                                    *)
IsTotal(total, f, D) ==
    /\ total \in [SUBSET D -> Nat]
    /\ total[{}] = 0
    /\ \A s \in SUBSET D : \A x \in D \ s : total[s \cup {x}] = total[s] + f[x]

LEMMA TotalExists ==
    ASSUME NEW D, IsFiniteSet(D), NEW f, \A x \in D : f[x] \in Nat
    PROVE  \E total : IsTotal(total, f, D)
<1> DEFINE P == {s \in SUBSET D : \E total : IsTotal(total, f, s)}
<1>1. ASSUME NEW s \in SUBSET D, \A x \in s : s \ {x} \in P PROVE s \in P
  <2>1. CASE s = {}
    <3> DEFINE t == [r \in SUBSET s |-> 0]
    <3>1. IsTotal(t, f, s)
      BY <2>1 DEF IsTotal
    <3> QED BY <3>1
  <2>2. CASE s # {}
    <3>1. PICK x \in s : TRUE
      BY <2>2
    <3>2. PICK t : IsTotal(t, f, s \ {x})
      BY <1>1, <3>1
    <3>3. /\ t \in [SUBSET (s \ {x}) -> Nat] /\ t[{}] = 0 /\ f[x] \in Nat
          /\ \A r \in SUBSET (s \ {x}) : \A y \in (s \ {x}) \ r : t[r \cup {y}] = t[r] + f[y]
      BY <3>2 DEF IsTotal
    <3> DEFINE u == [r \in SUBSET s |-> IF x \in r THEN t[r \ {x}] + f[x] ELSE t[r]]
    <3>4. ASSUME NEW r \in SUBSET s
          PROVE  /\ r \ {x} \in SUBSET (s \ {x})
                 /\ x \in r => u[r] = t[r \ {x}] + f[x]
                 /\ x \notin r => u[r] = t[r] /\ r \in SUBSET (s \ {x})
      OBVIOUS
    <3>5. u \in [SUBSET s -> Nat] /\ u[{}] = 0
      <4>1. ASSUME NEW r \in SUBSET s PROVE u[r] \in Nat
        BY <3>3, <3>4
      <4> QED BY <3>3, <4>1
    <3>6. ASSUME NEW r \in SUBSET s, NEW y \in s \ r PROVE u[r \cup {y}] = u[r] + f[y]
      <4> HIDE DEF u
      <4>0. r \cup {y} \in SUBSET s /\ f[y] \in Nat
        OBVIOUS
      <4>1. CASE y = x
        <5>1. (r \cup {y}) \ {x} = r
          BY <4>1, <3>6
        <5> QED BY <3>4, <4>0, <4>1, <5>1
      <4>2. CASE y # x /\ x \in r
        <5>1. (r \cup {y}) \ {x} = (r \ {x}) \cup {y} /\ y \in (s \ {x}) \ (r \ {x})
          BY <4>2
        <5>2. t[(r \ {x}) \cup {y}] = t[r \ {x}] + f[y] /\ t[r \ {x}] \in Nat
          BY <3>3, <3>4, <5>1
        <5>3. u[r \cup {y}] = t[(r \ {x}) \cup {y}] + f[x] /\ u[r] = t[r \ {x}] + f[x]
          BY <3>4, <4>0, <4>2, <5>1
        <5> QED BY <3>3, <4>0, <5>2, <5>3
      <4>3. CASE y # x /\ x \notin r
        <5>1. y \in (s \ {x}) \ r /\ x \notin r \cup {y}
          BY <4>3
        <5> QED BY <3>3, <3>4, <4>0, <4>3, <5>1
      <4> QED BY <4>1, <4>2, <4>3
    <3> HIDE DEF u
    <3>7. IsTotal(u, f, s)
      BY <3>5, <3>6 DEF IsTotal
    <3> QED BY <3>7
  <2> QED BY <2>1, <2>2
<1> HIDE DEF P
<1>2. D \in P
  BY <1>1, SubsetInduction
<1> QED BY <1>2 DEF P

(* SumFunctionOnSet takes the elements in some order; any order gives the  *)
(* same.                                                                   *)
LEMMA SumIsTotal ==
    ASSUME NEW D, IsFiniteSet(D), NEW f, NEW total, IsTotal(total, f, D), NEW s \in SUBSET D,
           \A x \in D : f[x] \in Nat
    PROVE  SumFunctionOnSet(f, s) = total[s]
<1> DEFINE some(r) == CHOOSE x \in r : TRUE
           Fold(g) == g = [r \in SUBSET s |-> IF r = {} THEN 0 ELSE f[some(r)] + g[r \ {some(r)}]]
           fold == CHOOSE g : Fold(g)
<1>1. SumFunctionOnSet(f, s) = fold[s]
  BY Zenon DEF SumFunctionOnSet, FoldFunctionOnSet, MapThenFoldSet
<1>2. ASSUME NEW r \in SUBSET s, r # {}
      PROVE  some(r) \in r /\ total[r] = f[some(r)] + total[r \ {some(r)}]
  <2>1. some(r) \in r
    BY <1>2
  <2> HIDE DEF some
  <2>2. r \ {some(r)} \in SUBSET D /\ some(r) \in D \ (r \ {some(r)})
        /\ (r \ {some(r)}) \cup {some(r)} = r
    BY <2>1
  <2>3. total[r] = total[r \ {some(r)}] + f[some(r)]
    BY <2>2 DEF IsTotal
  <2>4. total[r \ {some(r)}] \in Nat /\ f[some(r)] \in Nat
    BY <2>2 DEF IsTotal
  <2> QED BY <2>1, <2>3, <2>4
<1> HIDE DEF some
<1>3. Fold([r \in SUBSET s |-> total[r]])
  <2> DEFINE g == [r \in SUBSET s |-> total[r]]
  <2>1. ASSUME NEW r \in SUBSET s
        PROVE  total[r] = IF r = {} THEN 0 ELSE f[some(r)] + g[r \ {some(r)}]
    BY <1>2 DEF IsTotal
  <2> QED BY <2>1
<1> HIDE DEF Fold
<1>4. Fold(fold)
  BY <1>3, Zenon
<1> HIDE DEF fold
<1>5. fold = [r \in SUBSET s |-> IF r = {} THEN 0 ELSE f[some(r)] + fold[r \ {some(r)}]]
  BY <1>4 DEF Fold
<1> DEFINE P == {r \in SUBSET s : fold[r] = total[r]}
<1>6. ASSUME NEW r \in SUBSET s, \A x \in r : r \ {x} \in P PROVE r \in P
  <2>1. CASE r = {}
    BY <1>5, <2>1 DEF IsTotal
  <2>2. CASE r # {}
    <3>1. fold[r] = f[some(r)] + fold[r \ {some(r)}]
      BY <1>5, <2>2
    <3>2. fold[r \ {some(r)}] = total[r \ {some(r)}]
      BY <1>2, <1>6, <2>2
    <3> QED BY <1>2, <2>2, <3>1, <3>2
  <2> QED BY <2>1, <2>2
<1> HIDE DEF P
<1>7. s \in P
  <2>1. IsFiniteSet(s)
    BY FS_Subset
  <2> QED BY <1>6, <2>1, SubsetInduction
<1> QED BY <1>1, <1>7 DEF P

(* What the sums of a model need: a sum is a natural number, one more      *)
(* element adds its value, more elements do not make it smaller ...        *)
LEMMA SumFunctionFacts ==
    ASSUME NEW D, IsFiniteSet(D), NEW f, \A x \in D : f[x] \in Nat
    PROVE  /\ SumFunctionOnSet(f, {}) = 0
           /\ \A s \in SUBSET D : SumFunctionOnSet(f, s) \in Nat
           /\ \A s \in SUBSET D : \A x \in D \ s :
                 SumFunctionOnSet(f, s \cup {x}) = SumFunctionOnSet(f, s) + f[x]
<1>1. PICK total : IsTotal(total, f, D)
  BY TotalExists
<1>2. \A s \in SUBSET D : SumFunctionOnSet(f, s) = total[s]
  BY <1>1, SumIsTotal
<1>3. /\ total \in [SUBSET D -> Nat] /\ total[{}] = 0
      /\ \A s \in SUBSET D : \A x \in D \ s : total[s \cup {x}] = total[s] + f[x]
  BY <1>1 DEF IsTotal
<1>4. \A s \in SUBSET D : \A x \in D \ s : s \cup {x} \in SUBSET D
  OBVIOUS
<1> QED BY <1>2, <1>3, <1>4

LEMMA SumFunctionGrows ==
    ASSUME NEW D, IsFiniteSet(D), NEW f, \A x \in D : f[x] \in Nat,
           NEW s \in SUBSET D, NEW t \in SUBSET D, s \subseteq t
    PROVE  SumFunctionOnSet(f, s) <= SumFunctionOnSet(f, t)
<1> DEFINE Sum(r) == SumFunctionOnSet(f, r)
           P == {r \in SUBSET D : s \subseteq r => Sum(s) <= Sum(r)}
<1>1. /\ \A r \in SUBSET D : Sum(r) \in Nat
      /\ \A r \in SUBSET D : \A x \in D \ r : Sum(r \cup {x}) = Sum(r) + f[x]
  BY SumFunctionFacts
<1> HIDE DEF Sum
<1>2. ASSUME NEW r \in SUBSET D, \A x \in r : r \ {x} \in P PROVE r \in P
  <2>1. CASE ~(s \subseteq r) \/ r = s
    BY <1>1, <2>1
  <2>2. CASE s \subseteq r /\ r # s
    <3>1. PICK x \in r : x \notin s
      BY <2>2
    <3>2. s \subseteq r \ {x} /\ r \ {x} \in SUBSET D /\ x \in D \ (r \ {x})
          /\ (r \ {x}) \cup {x} = r
      BY <2>2, <3>1
    <3>3. Sum(s) <= Sum(r \ {x})
      BY <1>2, <3>1, <3>2
    <3>4. Sum(r) = Sum(r \ {x}) + f[x]
      BY <1>1, <3>2
    <3>5. Sum(r) \in Nat /\ Sum(s) \in Nat /\ Sum(r \ {x}) \in Nat /\ f[x] \in Nat
      BY <1>1, <3>2
    <3> QED BY <3>3, <3>4, <3>5
  <2> QED BY <2>1, <2>2
<1> HIDE DEF P
<1>3. t \in P
  BY <1>2, SubsetInduction
<1> QED BY <1>3 DEF P, Sum

(* ... and only the values at its elements count.                          *)
LEMMA SumFunctionAgrees ==
    ASSUME NEW s, IsFiniteSet(s), NEW f, NEW g, \A x \in s : f[x] = g[x] /\ f[x] \in Nat
    PROVE  SumFunctionOnSet(f, s) = SumFunctionOnSet(g, s)
<1>1. PICK total : IsTotal(total, f, s)
  BY TotalExists
<1>2. IsTotal(total, g, s)
  BY <1>1 DEF IsTotal
<1> QED BY <1>1, <1>2, SumIsTotal

-----------------------------------------------------------------------------
(* FlattenSeq puts the sequences one behind the other.                     *)
LEMMA FlattenValue ==
    ASSUME NEW T, NEW seqs \in Seq(Seq(T)), Len(seqs) # 0
    PROVE  \E f \in [1 .. Len(seqs) -> Seq(T)] :
              /\ f[1] = seqs[1]
              /\ \A i \in 2 .. Len(seqs) : f[i] = f[i - 1] \o seqs[i]
              /\ FlattenSeq(seqs) = f[Len(seqs)]
<1> DEFINE n == Len(seqs)
           Flat(f) == f = [i \in 1 .. n |-> IF i = 1 THEN seqs[i] ELSE f[i - 1] \o seqs[i]]
           flatten == CHOOSE f : Flat(f)
<1>1. n \in Nat \ {0} /\ \A i \in 1 .. n : seqs[i] \in Seq(T)
  OBVIOUS
<1>2. FlattenSeq(seqs) = flatten[n]
  BY Zenon DEF FlattenSeq
<1> HIDE DEF n
<1>3. \E f : Flat(f)
  <2> DEFINE V == Seq(T)
             step == [i \in Nat |-> [x \in V |-> IF i + 1 \in 1 .. n THEN x \o seqs[i + 1] ELSE x]]
  <2>1. seqs[1] \in V /\ n - 1 \in Nat
    BY <1>1
  <2>2. step \in [Nat -> [V -> V]]
    <3>1. ASSUME NEW i \in Nat, NEW x \in V
          PROVE  (IF i + 1 \in 1 .. n THEN x \o seqs[i + 1] ELSE x) \in V
      BY <1>1
    <3> QED BY <3>1
  <2>3. \A i \in Nat : \A x \in V : i + 1 \in 1 .. n => step[i][x] = x \o seqs[i + 1]
    OBVIOUS
  <2> HIDE DEF step
  <2>4. Runs(V, seqs[1], step, n - 1) # {}
    BY <2>1, <2>2, RunExists
  <2>5. PICK g : g \in Runs(V, seqs[1], step, n - 1)
    BY <2>4
  <2>6. /\ g \in [0 .. n - 1 -> V] /\ g[0] = seqs[1]
        /\ \A i \in 1 .. n - 1 : g[i] = step[i][g[i - 1]]
    BY <2>5 DEF Runs
  <2> HIDE DEF V
  <2> DEFINE f == [i \in 1 .. n |-> g[i - 1]]
  <2>7. ASSUME NEW i \in 1 .. n
        PROVE  g[i - 1] = IF i = 1 THEN seqs[i] ELSE f[i - 1] \o seqs[i]
    <3>1. CASE i = 1
      BY <3>1, <2>6
    <3>2. CASE i # 1
      <4>1. /\ i - 1 \in 1 .. n - 1 /\ i - 1 \in 1 .. n /\ i - 1 \in Nat
            /\ (i - 1) + 1 = i /\ (i - 1) - 1 \in 0 .. n - 1
        BY <1>1, <3>2
      <4>2. g[i - 1] = g[(i - 1) - 1] \o seqs[i]
        BY <2>3, <2>6, <4>1
      <4>3. f[i - 1] = g[(i - 1) - 1]
        BY <4>1
      <4> QED BY <3>2, <4>2, <4>3
    <3> QED BY <3>1, <3>2
  <2>8. Flat(f)
    BY <2>7
  <2> QED BY <2>8
<1> HIDE DEF Flat
<1>4. Flat(flatten)
  BY <1>3, Zenon
<1> HIDE DEF flatten
<1>5. flatten = [i \in 1 .. n |-> IF i = 1 THEN seqs[i] ELSE flatten[i - 1] \o seqs[i]]
  BY <1>4 DEF Flat
<1>6. flatten[1] = seqs[1] /\ \A i \in 2 .. n : flatten[i] = flatten[i - 1] \o seqs[i]
  <2>1. 1 \in 1 .. n /\ 2 .. n \subseteq 1 .. n /\ \A i \in 2 .. n : i # 1
    BY <1>1
  <2> QED BY <1>5, <2>1
<1>7. 1 .. n \subseteq {i \in 1 .. n : flatten[i] \in Seq(T)}
  <2> DEFINE S == {i \in 1 .. n : flatten[i] \in Seq(T)}
  <2>1. 1 \in S
    BY <1>1, <1>6
  <2>2. ASSUME NEW i \in 1 .. n, i \in S, i + 1 <= n PROVE i + 1 \in S
    <3>1. i + 1 \in 2 .. n /\ i + 1 \in 1 .. n /\ (i + 1) - 1 = i
      BY <1>1, <2>2
    <3>2. flatten[i + 1] = flatten[i] \o seqs[i + 1]
      BY <1>6, <3>1
    <3>3. flatten[i] \in Seq(T) /\ seqs[i + 1] \in Seq(T)
      BY <1>1, <2>2, <3>1
    <3>4. flatten[i] \o seqs[i + 1] \in Seq(T)
      BY <3>3, ConcatProperties
    <3> QED BY <3>1, <3>2, <3>4
  <2> HIDE DEF S
  <2>3. 1 .. n \subseteq S
    BY <1>1, <2>1, <2>2, UpToInduction
  <2> QED BY <2>3 DEF S
<1>8. flatten \in [1 .. n -> Seq(T)]
  BY <1>5, <1>7
<1> QED BY <1>2, <1>6, <1>8 DEF n

(* Where the elements of each are then: behind all those before it.        *)
LEMMA FlattenElements ==
    ASSUME NEW T, NEW seqs \in Seq(Seq(T)), NEW offs, offs[0] = 0,
           \A i \in 0 .. Len(seqs) : offs[i] \in Nat,
           \A i \in 1 .. Len(seqs) : offs[i] = offs[i - 1] + Len(seqs[i])
    PROVE  /\ Len(FlattenSeq(seqs)) = offs[Len(seqs)]
           /\ \A i \in 1 .. Len(seqs) : \A k \in 1 .. Len(seqs[i]) :
                 FlattenSeq(seqs)[offs[i - 1] + k] = seqs[i][k]
<1> DEFINE n == Len(seqs)
           Upto(s, m) ==
              /\ Len(s) = offs[m]
              /\ \A i \in 1 .. m : /\ offs[i] <= offs[m]
                                   /\ \A k \in 1 .. Len(seqs[i]) : s[offs[i - 1] + k] = seqs[i][k]
<1>1. n \in Nat /\ \A i \in 1 .. n : seqs[i] \in Seq(T) /\ Len(seqs[i]) \in Nat
  OBVIOUS
<1>2. CASE n = 0
  <2>1. FlattenSeq(seqs) = seqs
    BY <1>2 DEF FlattenSeq
  <2> QED BY <1>2, <2>1
<1>3. CASE n # 0
  <2>1. PICK f \in [1 .. n -> Seq(T)] :
              /\ f[1] = seqs[1]
              /\ \A i \in 2 .. n : f[i] = f[i - 1] \o seqs[i]
              /\ FlattenSeq(seqs) = f[n]
    BY <1>3, FlattenValue
  <2>2. \A i \in 0 .. n : offs[i] \in Nat
    OBVIOUS
  <2>3. \A i \in 1 .. n : offs[i] = offs[i - 1] + Len(seqs[i])
    OBVIOUS
  <2> HIDE DEF n
  <2> DEFINE S == {m \in 1 .. n : Upto(f[m], m)}
  <2>4. 1 \in S
    <3>1. 1 \in 1 .. n /\ offs[1] = Len(seqs[1]) /\ offs[1 - 1] = 0 /\ offs[1] \in Nat
      BY <1>1, <1>3, <2>2, <2>3
    <3>2. ASSUME NEW i \in 1 .. 1
          PROVE  /\ offs[i] <= offs[1]
                 /\ \A k \in 1 .. Len(seqs[i]) : f[1][offs[i - 1] + k] = seqs[i][k]
      <4>1. i = 1
        OBVIOUS
      <4>2. \A k \in 1 .. Len(seqs[1]) : 0 + k = k
        BY <3>1
      <4> QED BY <2>1, <3>1, <4>1, <4>2
    <3> QED BY <2>1, <3>1, <3>2
  <2>5. ASSUME NEW m \in 1 .. n, m \in S, m + 1 <= n PROVE m + 1 \in S
    <3>1. /\ m + 1 \in 2 .. n /\ m + 1 \in 1 .. n /\ (m + 1) - 1 = m
          /\ m \in 0 .. n /\ m + 1 \in 0 .. n
      BY <1>1, <2>5
    <3> DEFINE b == seqs[m + 1]
               o == offs[m]
    <3>2. f[m + 1] = f[m] \o b
      BY <2>1, <3>1
    <3>3. f[m] \in Seq(T) /\ Len(f[m]) = o /\ b \in Seq(T) /\ o \in Nat /\ Len(b) \in Nat
      BY <1>1, <2>1, <2>2, <2>5, <3>1
    <3>4. offs[m + 1] = o + Len(b)
      BY <2>3, <3>1
    <3> HIDE DEF b, o
    <3>5. /\ Len(f[m] \o b) = o + Len(b)
          /\ \A k \in 1 .. o + Len(b) :
                (f[m] \o b)[k] = IF k <= o THEN f[m][k] ELSE b[k - o]
      <4> DEFINE g == f[m]
      <4>1. g \in Seq(T) /\ Len(g) = o
        BY <3>3
      <4> HIDE DEF g
      <4>2. /\ Len(g \o b) = Len(g) + Len(b)
            /\ \A k \in 1 .. Len(g) + Len(b) :
                  (g \o b)[k] = IF k <= Len(g) THEN g[k] ELSE b[k - Len(g)]
        <5>1. g \in Seq(T)
          BY <4>1
        <5>2. b \in Seq(T)
          BY <3>3
        <5> HIDE DEF S, Upto
        <5> QED BY <5>1, <5>2, ConcatProperties
      <4> QED BY <4>1, <4>2 DEF g
    <3>6. ASSUME NEW i \in 1 .. m + 1
          PROVE  /\ offs[i] <= offs[m + 1]
                 /\ \A k \in 1 .. Len(seqs[i]) : f[m + 1][offs[i - 1] + k] = seqs[i][k]
      <4>1. CASE i = m + 1
        <5>1. seqs[i] = b /\ offs[i - 1] = o
          BY <3>1, <4>1 DEF b, o
        <5>2. ASSUME NEW k \in 1 .. Len(b)
              PROVE  o + k \in 1 .. o + Len(b) /\ ~(o + k <= o) /\ (o + k) - o = k
          BY <3>3
        <5>3. \A k \in 1 .. Len(b) : f[m + 1][o + k] = b[k]
          BY <3>2, <3>5, <5>2
        <5>4. offs[i] <= offs[m + 1]
          BY <3>3, <3>4, <4>1
        <5> QED BY <5>1, <5>3, <5>4
      <4>2. CASE i # m + 1
        <5>1. i \in 1 .. m /\ i \in 1 .. n /\ i \in 0 .. n /\ i - 1 \in 0 .. n
          BY <1>1, <3>1, <4>2
        <5>2. offs[i] <= o /\ \A k \in 1 .. Len(seqs[i]) : f[m][offs[i - 1] + k] = seqs[i][k]
          BY <2>5, <5>1 DEF o
        <5>3. /\ offs[i] \in Nat /\ offs[i - 1] \in Nat /\ Len(seqs[i]) \in Nat
              /\ offs[i] = offs[i - 1] + Len(seqs[i])
          BY <1>1, <2>2, <2>3, <5>1
        <5>4. ASSUME NEW k \in 1 .. Len(seqs[i])
              PROVE  offs[i - 1] + k \in 1 .. o + Len(b) /\ offs[i - 1] + k <= o
          <6> DEFINE from == offs[i - 1]
                     to   == offs[i]
                     size == Len(seqs[i])
                     more == Len(b)
          <6>1. /\ from \in Nat /\ to \in Nat /\ size \in Nat /\ o \in Nat /\ more \in Nat
                /\ to <= o /\ to = from + size /\ k \in 1 .. size
            BY <3>3, <5>2, <5>3
          <6> HIDE DEF from, to, size, more, S, Upto
          <6>2. from + k \in 1 .. o + more /\ from + k <= o
            BY <6>1
          <6> QED BY <6>2 DEF from, more
        <5>5. \A k \in 1 .. Len(seqs[i]) : f[m + 1][offs[i - 1] + k] = f[m][offs[i - 1] + k]
          BY <3>2, <3>5, <5>4
        <5>6. offs[i] <= offs[m + 1]
          BY <3>3, <3>4, <5>2, <5>3
        <5> QED BY <5>2, <5>5, <5>6
      <4> QED BY <4>1, <4>2
    <3>7. Len(f[m + 1]) = offs[m + 1]
      BY <3>2, <3>4, <3>5
    <3> QED BY <3>1, <3>6, <3>7
  <2> HIDE DEF S
  <2>6. 1 .. n \subseteq S
    BY <1>1, <2>4, <2>5, UpToInduction
  <2>7. n \in S
    BY <1>1, <1>3, <2>6
  <2> HIDE DEF Upto
  <2>8. Upto(f[n], n)
    BY <2>7 DEF S
  <2> QED BY <2>1, <2>8 DEF Upto, n
<1> QED BY <1>2, <1>3

=============================================================================
