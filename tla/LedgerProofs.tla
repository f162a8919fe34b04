---------------------------- MODULE LedgerProofs ---------------------------
(***************************************************************************)
(* The facts about money that the proofs about the contracts cite: what    *)
(* the sums of Totals are, and what the operations of a CEP-18 ledger do   *)
(* to it, whoever the principals and the owners of allowances are; and at  *)
(* the end, that a function defined by recursion is what it says.          *)
(*                                                                         *)
(* The induction theorems of the library take an operator as a parameter;  *)
(* here an induction over the naturals is made by looking at the least     *)
(* counterexample, which LeastNatural provides for a set.                  *)
(***************************************************************************)
EXTENDS Totals, Cep18, TLAPS, WellFoundedInduction, FiniteSetTheorems

(* Every non-empty set of naturals has a least element.                    *)
LEMMA LeastNatural ==
    ASSUME NEW T, T \subseteq Nat, T # {}
    PROVE  \E x \in T : \A y \in T : x <= y
<1> DEFINE R == OpToRel(<, Nat)
<1>1. IsWellFoundedOn(R, Nat)
  BY NatLessThanWellFounded
<1>2. ASSUME NEW a \in Nat, NEW b \in Nat, a < b
      PROVE  <<a, b>> \in R
  BY <1>2 DEF OpToRel
<1> HIDE DEF R
<1>3. PICK x \in T : \A y \in T : ~ (<<y, x>> \in R)
  BY <1>1, WFMin
<1>4. ASSUME NEW y \in T
      PROVE  x <= y
  <2>1. ~ (y < x)
    BY <1>2, <1>3
  <2>2. QED
    BY <2>1
<1>5. QED
  BY <1>4

(* s is the function of partial sums of f up to n.                         *)
IsSum(s, f, n) ==
    s = [i \in 0 .. n |-> IF i = 0 THEN 0 ELSE s[i - 1] + f[i - 1]]

(* The recursion that defines PartialSums has a solution for every n.      *)
LEMMA SumExists ==
    ASSUME NEW f, NEW n \in Nat
    PROVE  \E s : IsSum(s, f, n)
<1> DEFINE Bad == {m \in Nat : ~ \E s : IsSum(s, f, m)}
<1>1. SUFFICES Bad = {}
  OBVIOUS
<1>2. SUFFICES ASSUME Bad # {}
               PROVE  FALSE
  OBVIOUS
<1>3. PICK m \in Bad : \A k \in Bad : m <= k
  <2>1. Bad \subseteq Nat
    OBVIOUS
  <2> HIDE DEF Bad
  <2>2. QED
    BY <1>2, <2>1, LeastNatural
<1>4. m # 0
  <2>1. IsSum([i \in 0 .. 0 |-> 0], f, 0)
    BY DEF IsSum
  <2>2. QED
    BY <2>1
<1>5. m - 1 \in Nat /\ m - 1 \notin Bad
  BY <1>3, <1>4
<1>6. PICK s : IsSum(s, f, m - 1)
  BY <1>5
<1> DEFINE t == [i \in 0 .. m |-> IF i = m THEN s[m - 1] + f[m - 1] ELSE s[i]]
<1>7. IsSum(t, f, m)
  <2>1. ASSUME NEW i \in 0 .. m
        PROVE  t[i] = IF i = 0 THEN 0 ELSE t[i - 1] + f[i - 1]
    <3>1. CASE i = m
      BY <1>4, <3>1
    <3>2. CASE i # m /\ i # 0
      <4>1. i \in 0 .. m - 1 /\ i - 1 \in 0 .. m - 1 /\ i - 1 # m
        BY <3>2
      <4>2. s[i] = s[i - 1] + f[i - 1]
        BY <1>6, <3>2, <4>1 DEF IsSum
      <4>3. QED
        BY <3>2, <4>1, <4>2
    <3>3. CASE i = 0
      <4>1. 0 \in 0 .. m - 1 /\ i # m
        BY <1>4, <3>3
      <4>2. s[0] = 0
        BY <1>6, <4>1 DEF IsSum
      <4>3. QED
        BY <3>3, <4>1, <4>2
    <3>4. QED
      BY <3>1, <3>2, <3>3
  <2>2. QED
    BY <2>1 DEF IsSum
<1>8. QED
  BY <1>7

(* PartialSums is such a solution.                                         *)
LEMMA PartialSumsDef ==
    ASSUME NEW f, NEW n \in Nat
    PROVE  IsSum(PartialSums(f, n), f, n)
<1>1. PICK s : IsSum(s, f, n)
  BY SumExists
<1>2. QED
  BY <1>1 DEF IsSum, PartialSums

(* Two sums agree as far as what they sum does.                            *)
LEMMA SumsAgree ==
    ASSUME NEW f, NEW g, NEW s, NEW t, NEW n \in Nat, NEW m \in Nat,
           IsSum(s, f, n), IsSum(t, g, m),
           NEW k \in Nat, k <= n, k <= m,
           \A i \in 0 .. k - 1 : f[i] = g[i]
    PROVE  s[k] = t[k]
<1> DEFINE Bad == {j \in Nat : j <= k /\ s[j] # t[j]}
<1>1. SUFFICES ASSUME Bad # {}
               PROVE  FALSE
  OBVIOUS
<1>2. PICK j \in Bad : \A i \in Bad : j <= i
  <2>1. Bad \subseteq Nat
    OBVIOUS
  <2> HIDE DEF Bad
  <2>2. QED
    BY <1>1, <2>1, LeastNatural
<1>3. CASE j = 0
  <2>1. s[0] = 0 /\ t[0] = 0
    BY DEF IsSum
  <2>2. QED
    BY <1>2, <1>3, <2>1
<1>4. CASE j # 0
  <2>1. j - 1 \in Nat /\ j - 1 \in 0 .. k - 1 /\ j \in 0 .. n /\ j \in 0 .. m
    BY <1>2, <1>4
  <2>2. s[j - 1] = t[j - 1]
    BY <1>2, <2>1
  <2>3. s[j] = s[j - 1] + f[j - 1] /\ t[j] = t[j - 1] + g[j - 1]
    BY <1>4, <2>1 DEF IsSum
  <2>4. QED
    BY <1>2, <2>1, <2>2, <2>3
<1>5. QED
  BY <1>3, <1>4

(* The sum of nothing is zero.                                             *)
LEMMA TotalZero ==
    ASSUME NEW f
    PROVE  Total(f, 0) = 0
BY PartialSumsDef DEF IsSum, Total

(* One more term adds its value.                                           *)
LEMMA TotalStep ==
    ASSUME NEW f, NEW n \in Nat
    PROVE  Total(f, n + 1) = Total(f, n) + f[n]
<1>1. IsSum(PartialSums(f, n), f, n) /\ IsSum(PartialSums(f, n + 1), f, n + 1)
  BY PartialSumsDef
<1>2. PartialSums(f, n)[n] = PartialSums(f, n + 1)[n]
  <2>1. n <= n /\ n <= n + 1 /\ n + 1 \in Nat
    OBVIOUS
  <2>2. QED
    BY <1>1, <2>1, SumsAgree
<1>3. PartialSums(f, n + 1)[n + 1] = PartialSums(f, n + 1)[n] + f[n]
  <2>1. n + 1 \in 0 .. n + 1 /\ n + 1 # 0 /\ (n + 1) - 1 = n
    OBVIOUS
  <2>2. QED
    BY <1>1, <2>1 DEF IsSum
<1>4. QED
  BY <1>2, <1>3 DEF Total

(* The sum depends on the terms below n only.                              *)
LEMMA TotalAgree ==
    ASSUME NEW f, NEW g, NEW n \in Nat,
           \A i \in 0 .. n - 1 : f[i] = g[i]
    PROVE  Total(f, n) = Total(g, n)
<1>1. n <= n
  OBVIOUS
<1>2. QED
  BY <1>1, PartialSumsDef, SumsAgree DEF Total

(* A sum of integers is an integer.                                        *)
LEMMA TotalInt ==
    ASSUME NEW f, NEW n \in Nat, \A i \in 0 .. n - 1 : f[i] \in Int
    PROVE  Total(f, n) \in Int
<1> DEFINE Bad == {m \in Nat : m <= n /\ Total(f, m) \notin Int}
<1>1. SUFFICES ASSUME Bad # {}
               PROVE  FALSE
  OBVIOUS
<1>2. PICK m \in Bad : \A i \in Bad : m <= i
  <2>1. Bad \subseteq Nat
    OBVIOUS
  <2> HIDE DEF Bad
  <2>2. QED
    BY <1>1, <2>1, LeastNatural
<1>3. m # 0
  BY <1>2, TotalZero
<1>4. m - 1 \in Nat /\ m - 1 \in 0 .. n - 1 /\ (m - 1) + 1 = m
  BY <1>2, <1>3
<1>5. Total(f, m - 1) \in Int
  BY <1>2, <1>4
<1>6. Total(f, m) = Total(f, m - 1) + f[m - 1]
  BY <1>4, TotalStep
<1>7. QED
  BY <1>2, <1>4, <1>5, <1>6

(* A sum of integers at least as large, one by one, is at least as large.  *)
LEMMA TotalMonotone ==
    ASSUME NEW f, NEW g, NEW n \in Nat,
           \A i \in 0 .. n - 1 : f[i] \in Int /\ g[i] \in Int /\ f[i] <= g[i]
    PROVE  Total(f, n) <= Total(g, n)
<1> DEFINE Bad == {m \in Nat : m <= n /\ ~ (Total(f, m) <= Total(g, m))}
<1>1. SUFFICES ASSUME Bad # {}
               PROVE  FALSE
  OBVIOUS
<1>2. PICK m \in Bad : \A i \in Bad : m <= i
  <2>1. Bad \subseteq Nat
    OBVIOUS
  <2> HIDE DEF Bad
  <2>2. QED
    BY <1>1, <2>1, LeastNatural
<1>3. m # 0
  BY <1>2, TotalZero
<1>4. m - 1 \in Nat /\ m - 1 \in 0 .. n - 1 /\ (m - 1) + 1 = m
  BY <1>2, <1>3
<1>5. Total(f, m - 1) <= Total(g, m - 1)
  BY <1>2, <1>4
<1>6. Total(f, m - 1) \in Int /\ Total(g, m - 1) \in Int
  <2>1. \A i \in 0 .. (m - 1) - 1 : f[i] \in Int /\ g[i] \in Int
    BY <1>4
  <2>2. QED
    BY <1>4, <2>1, TotalInt
<1>7. /\ Total(f, m) = Total(f, m - 1) + f[m - 1]
      /\ Total(g, m) = Total(g, m - 1) + g[m - 1]
  BY <1>4, TotalStep
<1>8. QED
  BY <1>2, <1>4, <1>5, <1>6, <1>7

(* A sum of linear combinations is the combination of the sums.            *)
LEMMA TotalLinear ==
    ASSUME NEW f, NEW g, NEW h, NEW c \in Int, NEW n \in Nat,
           \A i \in 0 .. n - 1 :
              g[i] \in Int /\ h[i] \in Int /\ f[i] = g[i] + h[i] * c
    PROVE  Total(f, n) = Total(g, n) + Total(h, n) * c
<1> DEFINE Bad == {m \in Nat :
                     m <= n /\ Total(f, m) # Total(g, m) + Total(h, m) * c}
<1>1. SUFFICES ASSUME Bad # {}
               PROVE  FALSE
  OBVIOUS
<1>2. PICK m \in Bad : \A i \in Bad : m <= i
  <2>1. Bad \subseteq Nat
    OBVIOUS
  <2> HIDE DEF Bad
  <2>2. QED
    BY <1>1, <2>1, LeastNatural
<1>3. m # 0
  BY <1>2, TotalZero
<1>4. m - 1 \in Nat /\ m - 1 \in 0 .. n - 1 /\ (m - 1) + 1 = m
  BY <1>2, <1>3
<1>5. PICK a \in Int, b \in Int : a = Total(g, m - 1) /\ b = Total(h, m - 1)
  <2>1. \A i \in 0 .. (m - 1) - 1 : g[i] \in Int /\ h[i] \in Int
    BY <1>4
  <2>2. QED
    BY <1>4, <2>1, TotalInt
<1>6. PICK x \in Int, y \in Int : x = g[m - 1] /\ y = h[m - 1]
  BY <1>4
<1>7. Total(f, m - 1) = a + b * c
  BY <1>2, <1>4, <1>5
<1>8. Total(f, m) = (a + b * c) + (x + y * c)
  BY <1>4, <1>6, <1>7, TotalStep
<1>9. Total(g, m) = a + x /\ Total(h, m) = b + y
  BY <1>4, <1>5, <1>6, TotalStep
<1>10. (a + b * c) + (x + y * c) = (a + x) + (b + y) * c
  OBVIOUS
<1>11. QED
  BY <1>2, <1>8, <1>9, <1>10

(* A sum of naturals is a natural, and at least as large as any of them.   *)
LEMMA TotalMember ==
    ASSUME NEW f, NEW n \in Nat, \A i \in 0 .. n - 1 : f[i] \in Nat
    PROVE  /\ Total(f, n) \in Nat
           /\ \A i \in 0 .. n - 1 : f[i] <= Total(f, n)
<1> DEFINE Good(m) == /\ Total(f, m) \in Nat
                      /\ \A i \in 0 .. m - 1 : f[i] <= Total(f, m)
<1> DEFINE Bad == {m \in Nat : m <= n /\ ~ Good(m)}
<1>1. SUFFICES ASSUME Bad # {}
               PROVE  FALSE
  OBVIOUS
<1>2. PICK m \in Bad : \A i \in Bad : m <= i
  <2>1. Bad \subseteq Nat
    OBVIOUS
  <2> HIDE DEF Bad
  <2>2. QED
    BY <1>1, <2>1, LeastNatural
<1>3. m # 0
  BY <1>2, TotalZero
<1>4. m - 1 \in Nat /\ m - 1 \in 0 .. n - 1 /\ (m - 1) + 1 = m
  BY <1>2, <1>3
<1>5. Good(m - 1)
  <2>1. m - 1 \notin Bad
    BY <1>2, <1>4
  <2>2. QED
    BY <1>4, <2>1
<1>6. Total(f, m) = Total(f, m - 1) + f[m - 1]
  BY <1>4, TotalStep
<1>7. Good(m)
  <2>1. Total(f, m) \in Nat /\ f[m - 1] <= Total(f, m)
    BY <1>4, <1>5, <1>6
  <2>2. ASSUME NEW i \in 0 .. m - 1, i # m - 1
        PROVE  f[i] <= Total(f, m)
    <3>1. i \in 0 .. (m - 1) - 1
      BY <1>4, <2>2
    <3>2. i \in 0 .. n - 1
      BY <1>2, <3>1
    <3>3. f[i] <= Total(f, m - 1) /\ f[i] \in Nat
      BY <1>5, <3>1, <3>2
    <3>4. QED
      BY <1>4, <1>5, <1>6, <3>3
  <2>3. QED
    BY <2>1, <2>2
<1>8. QED
  BY <1>2, <1>7

(* Replacing one term changes the sum by the difference of the two.        *)
LEMMA TotalChange ==
    ASSUME NEW f, NEW g, NEW n \in Nat, NEW k \in 0 .. n - 1,
           \A i \in 0 .. n - 1 : f[i] \in Int /\ g[i] \in Int,
           \A i \in 0 .. n - 1 : i # k => f[i] = g[i]
    PROVE  Total(g, n) = Total(f, n) + (g[k] - f[k])
<1> DEFINE Bad == {m \in Nat : /\ k < m /\ m <= n
                               /\ Total(g, m) # Total(f, m) + (g[k] - f[k])}
<1>1. SUFFICES ASSUME Bad # {}
               PROVE  FALSE
  OBVIOUS
<1>2. PICK m \in Bad : \A i \in Bad : m <= i
  <2>1. Bad \subseteq Nat
    OBVIOUS
  <2> HIDE DEF Bad
  <2>2. QED
    BY <1>1, <2>1, LeastNatural
<1>3. m - 1 \in Nat /\ m - 1 \in 0 .. n - 1 /\ (m - 1) + 1 = m /\ k <= m - 1
  BY <1>2
<1>4. /\ Total(f, m) = Total(f, m - 1) + f[m - 1]
      /\ Total(g, m) = Total(g, m - 1) + g[m - 1]
  BY <1>3, TotalStep
<1>5. Total(f, m - 1) \in Int /\ Total(g, m - 1) \in Int
  <2>1. \A i \in 0 .. (m - 1) - 1 : f[i] \in Int /\ g[i] \in Int
    BY <1>3
  <2>2. QED
    BY <1>3, <2>1, TotalInt
<1>6. CASE k = m - 1
  <2>1. \A i \in 0 .. (m - 1) - 1 : f[i] = g[i]
    BY <1>3, <1>6
  <2>2. Total(f, m - 1) = Total(g, m - 1)
    BY <1>3, <2>1, TotalAgree
  <2>3. QED
    BY <1>2, <1>3, <1>4, <1>5, <1>6, <2>2
<1>7. CASE k # m - 1
  <2>1. k < m - 1 /\ m - 1 <= n /\ m - 1 < m
    BY <1>3, <1>7
  <2>2. Total(g, m - 1) = Total(f, m - 1) + (g[k] - f[k])
    BY <1>2, <1>3, <2>1
  <2>3. f[m - 1] = g[m - 1] /\ f[m - 1] \in Int /\ g[k] \in Int /\ f[k] \in Int
    BY <1>3, <1>7
  <2>4. QED
    BY <1>2, <1>4, <1>5, <2>2, <2>3
<1>8. QED
  BY <1>6, <1>7
-----------------------------------------------------------------------------
(* Sums over a finite set.                                                 *)

AnyOf(T) == CHOOSE x \in T : TRUE

(* s sums f over every set of D, taking out the chosen element first.      *)
IsSetSum(s, f, D) ==
    s = [T \in D |-> IF T = {} THEN 0 ELSE f[AnyOf(T)] + s[T \ {AnyOf(T)}]]

(* The subsets of S with at most n elements.                               *)
UpTo(S, n) == {T \in SUBSET S : Cardinality(T) <= n}

(* A non-empty finite set loses exactly one element with its chosen one.   *)
LEMMA AnyOfRemoved ==
    ASSUME NEW T, IsFiniteSet(T), T # {}
    PROVE  /\ AnyOf(T) \in T
           /\ IsFiniteSet(T \ {AnyOf(T)})
           /\ Cardinality(T) \in Nat
           /\ Cardinality(T \ {AnyOf(T)}) = Cardinality(T) - 1
<1>1. AnyOf(T) \in T
  BY DEF AnyOf
<1>2. QED
  BY <1>1, FS_RemoveElement, FS_CardinalityType

(* The recursion has a solution on the subsets of any size.                *)
LEMMA SetSumUpTo ==
    ASSUME NEW f, NEW S, IsFiniteSet(S), NEW n \in Nat
    PROVE  \E s : IsSetSum(s, f, UpTo(S, n))
<1> DEFINE Bad == {m \in Nat : ~ \E s : IsSetSum(s, f, UpTo(S, m))}
<1>1. SUFFICES ASSUME Bad # {}
               PROVE  FALSE
  OBVIOUS
<1>2. PICK m \in Bad : \A k \in Bad : m <= k
  <2>1. Bad \subseteq Nat
    OBVIOUS
  <2> HIDE DEF Bad
  <2>2. QED
    BY <1>1, <2>1, LeastNatural
<1>3. \A T \in SUBSET S : IsFiniteSet(T) /\ Cardinality(T) \in Nat
  BY FS_Subset, FS_CardinalityType
<1>4. CASE m = 0
  <2>1. \A T \in UpTo(S, 0) : T = {}
    BY <1>3, FS_EmptySet DEF UpTo
  <2>2. IsSetSum([T \in UpTo(S, 0) |-> 0], f, UpTo(S, 0))
    BY <2>1 DEF IsSetSum
  <2>3. QED
    BY <1>4, <2>2
<1>5. CASE m # 0
  <2>1. m \in Nat /\ m - 1 \in Nat /\ m - 1 \notin Bad
    BY <1>2, <1>5
  <2>2. PICK s : IsSetSum(s, f, UpTo(S, m - 1))
    BY <2>1
  <2> DEFINE t == [T \in UpTo(S, m) |->
                     IF T \in UpTo(S, m - 1) THEN s[T]
                     ELSE f[AnyOf(T)] + s[T \ {AnyOf(T)}]]
  <2>3. ASSUME NEW T \in UpTo(S, m)
        PROVE  t[T] = IF T = {} THEN 0 ELSE f[AnyOf(T)] + t[T \ {AnyOf(T)}]
    <3>1. T \in SUBSET S /\ IsFiniteSet(T) /\ Cardinality(T) \in Nat
          /\ Cardinality(T) <= m
      BY <1>3 DEF UpTo
    <3>2. CASE T = {}
      <4>1. T \in UpTo(S, m - 1)
        BY <2>1, <3>1, <3>2, FS_EmptySet DEF UpTo
      <4>2. s[T] = 0
        BY <2>2, <3>2, <4>1 DEF IsSetSum
      <4>3. QED
        BY <3>2, <4>1, <4>2
    <3>3. CASE T # {}
      <4> DEFINE U == T \ {AnyOf(T)}
      <4>1. U \in UpTo(S, m - 1) /\ U \in UpTo(S, m)
        <5>1. Cardinality(U) = Cardinality(T) - 1 /\ U \in SUBSET S
          BY <3>1, <3>3, AnyOfRemoved
        <5>2. Cardinality(U) <= m - 1 /\ Cardinality(U) <= m
          BY <2>1, <3>1, <5>1
        <5>3. QED
          BY <5>1, <5>2 DEF UpTo
      <4>2. t[U] = s[U]
        BY <4>1
      <4>3. T \in UpTo(S, m - 1) => s[T] = f[AnyOf(T)] + s[U]
        BY <2>2, <3>3 DEF IsSetSum
      <4>4. t[T] = f[AnyOf(T)] + s[U]
        BY <4>3
      <4> HIDE DEF t, U
      <4>5. t[T] = f[AnyOf(T)] + t[U]
        BY <4>2, <4>4
      <4>6. QED
        BY <3>3, <4>5 DEF U
    <3>4. QED
      BY <3>2, <3>3
  <2>4. IsSetSum(t, f, UpTo(S, m))
    <3>1. t = [T \in UpTo(S, m) |-> t[T]]
      OBVIOUS
    <3> HIDE DEF t
    <3>2. QED
      BY <2>3, <3>1 DEF IsSetSum
  <2>5. QED
    BY <1>2, <2>4
<1>6. QED
  BY <1>4, <1>5

(* SumsWithin is the solution on all subsets.                              *)
LEMMA SumsWithinDef ==
    ASSUME NEW f, NEW S, IsFiniteSet(S)
    PROVE  IsSetSum(SumsWithin(f, S), f, SUBSET S)
<1>1. UpTo(S, Cardinality(S)) = SUBSET S
  BY FS_Subset DEF UpTo
<1>2. Cardinality(S) \in Nat
  BY FS_CardinalityType
<1>3. PICK s : IsSetSum(s, f, SUBSET S)
  <2>1. \E s : IsSetSum(s, f, UpTo(S, Cardinality(S)))
    BY <1>2, SetSumUpTo
  <2>2. QED
    BY <1>1, <2>1
<1>4. QED
  BY <1>3 DEF IsSetSum, SumsWithin, AnyOf

(* What it says of one set.                                                *)
LEMMA SumsWithinStep ==
    ASSUME NEW f, NEW S, IsFiniteSet(S), NEW T \in SUBSET S
    PROVE  SumsWithin(f, S)[T] =
             IF T = {} THEN 0
             ELSE f[AnyOf(T)] + SumsWithin(f, S)[T \ {AnyOf(T)}]
<1> DEFINE s == SumsWithin(f, S)
<1>1. IsSetSum(s, f, SUBSET S)
  BY SumsWithinDef
<1> HIDE DEF s
<1>2. s = [U \in SUBSET S |-> IF U = {} THEN 0
                              ELSE f[AnyOf(U)] + s[U \ {AnyOf(U)}]]
  BY <1>1 DEF IsSetSum
<1>3. s[T] = IF T = {} THEN 0 ELSE f[AnyOf(T)] + s[T \ {AnyOf(T)}]
  BY <1>2
<1>4. QED
  BY <1>3 DEF s
(* The sum over the empty set is zero.                                     *)
LEMMA SumsWithinEmpty ==
    ASSUME NEW f, NEW S, IsFiniteSet(S)
    PROVE  SumsWithin(f, S)[{}] = 0
<1>1. {} \in SUBSET S
  OBVIOUS
<1>2. QED
  BY <1>1, SumsWithinStep

(* A non-empty collection of subsets of a finite set has a smallest one.   *)
LEMMA SmallestSubset ==
    ASSUME NEW S, IsFiniteSet(S), NEW B, B \subseteq SUBSET S, B # {}
    PROVE  \E T \in B : \A U \in B : Cardinality(T) <= Cardinality(U)
<1> DEFINE sizes == {Cardinality(T) : T \in B}
<1>1. \A T \in B : Cardinality(T) \in Nat
  BY FS_Subset, FS_CardinalityType
<1>2. sizes \subseteq Nat /\ sizes # {}
  BY <1>1
<1>3. PICK n \in sizes : \A m \in sizes : n <= m
  <2> HIDE DEF sizes
  <2>1. QED
    BY <1>2, LeastNatural
<1>4. QED
  BY <1>3

(* Taking the chosen element out of a subset leaves a smaller one.         *)
LEMMA SubsetWithout ==
    ASSUME NEW S, IsFiniteSet(S), NEW T \in SUBSET S, NEW x \in T
    PROVE  /\ T \ {x} \in SUBSET S
           /\ IsFiniteSet(T)
           /\ Cardinality(T) \in Nat
           /\ Cardinality(T \ {x}) \in Nat
           /\ ~ (Cardinality(T) <= Cardinality(T \ {x}))
<1>1. IsFiniteSet(T) /\ Cardinality(T) \in Nat
  BY FS_Subset, FS_CardinalityType
<1>2. IsFiniteSet(T \ {x}) /\ Cardinality(T \ {x}) = Cardinality(T) - 1
  BY <1>1, FS_RemoveElement
<1>3. Cardinality(T \ {x}) \in Nat
  BY <1>2, FS_CardinalityType
<1>4. QED
  BY <1>1, <1>2, <1>3

(* A sum of integers over a set is an integer.                             *)
LEMMA SumsWithinInt ==
    ASSUME NEW f, NEW S, IsFiniteSet(S), \A x \in S : f[x] \in Int
    PROVE  \A T \in SUBSET S : SumsWithin(f, S)[T] \in Int
<1> DEFINE s == SumsWithin(f, S)
           Bad == {T \in SUBSET S : s[T] \notin Int}
<1>1. SUFFICES ASSUME Bad # {}
               PROVE  FALSE
  OBVIOUS
<1>2. PICK T \in Bad : \A U \in Bad : Cardinality(T) <= Cardinality(U)
  <2>1. Bad \subseteq SUBSET S
    OBVIOUS
  <2> HIDE DEF Bad
  <2>2. QED
    BY <1>1, <2>1, SmallestSubset
<1>3. T # {}
  BY SumsWithinEmpty
<1>4. AnyOf(T) \in T
  BY <1>3 DEF AnyOf
<1>5. /\ T \ {AnyOf(T)} \in SUBSET S
      /\ ~ (Cardinality(T) <= Cardinality(T \ {AnyOf(T)}))
  BY <1>4, SubsetWithout
<1>6. s[T \ {AnyOf(T)}] \in Int
  BY <1>2, <1>5
<1>7. s[T] = f[AnyOf(T)] + s[T \ {AnyOf(T)}]
  BY <1>3, SumsWithinStep
<1>8. f[AnyOf(T)] \in Int
  BY <1>4
<1>9. QED
  BY <1>6, <1>7, <1>8

(* Whichever element is taken out first, the sum is the same.              *)
LEMMA SumsWithinRemove ==
    ASSUME NEW f, NEW S, IsFiniteSet(S), \A x \in S : f[x] \in Int
    PROVE  \A T \in SUBSET S : \A x \in T :
              SumsWithin(f, S)[T] = f[x] + SumsWithin(f, S)[T \ {x}]
<1> DEFINE s == SumsWithin(f, S)
           Bad == {T \in SUBSET S : \E x \in T : s[T] # f[x] + s[T \ {x}]}
<1>1. SUFFICES ASSUME Bad # {}
               PROVE  FALSE
  OBVIOUS
<1>2. PICK T \in Bad : \A U \in Bad : Cardinality(T) <= Cardinality(U)
  <2>1. Bad \subseteq SUBSET S
    OBVIOUS
  <2> HIDE DEF Bad
  <2>2. QED
    BY <1>1, <2>1, SmallestSubset
<1>3. PICK x \in T : s[T] # f[x] + s[T \ {x}]
  OBVIOUS
<1> DEFINE a == AnyOf(T)
<1>4. a \in T
  BY <1>3 DEF AnyOf
<1>5. s[T] = f[a] + s[T \ {a}]
  BY <1>3, SumsWithinStep
<1> HIDE DEF a
<1>6. a # x
  BY <1>3, <1>5
<1>7. /\ T \ {a} \in SUBSET S /\ ~ (Cardinality(T) <= Cardinality(T \ {a}))
      /\ T \ {x} \in SUBSET S /\ ~ (Cardinality(T) <= Cardinality(T \ {x}))
  BY <1>3, <1>4, SubsetWithout
<1>8. T \ {a} \notin Bad /\ T \ {x} \notin Bad
  BY <1>2, <1>7
<1>9. /\ s[T \ {a}] = f[x] + s[(T \ {a}) \ {x}]
      /\ s[T \ {x}] = f[a] + s[(T \ {x}) \ {a}]
  BY <1>3, <1>4, <1>6, <1>7, <1>8
<1>10. (T \ {a}) \ {x} = (T \ {x}) \ {a}
  OBVIOUS
<1>11. f[a] \in Int /\ f[x] \in Int /\ s[(T \ {x}) \ {a}] \in Int
  <2>1. (T \ {x}) \ {a} \in SUBSET S
    OBVIOUS
  <2>2. QED
    BY <1>4, <2>1, SumsWithinInt
<1> DEFINE rest == s[(T \ {x}) \ {a}]
<1>12. rest \in Int /\ s[T] = f[a] + (f[x] + rest) /\ s[T \ {x}] = f[a] + rest
  BY <1>5, <1>9, <1>10, <1>11
<1> HIDE DEF s, rest
<1>13. s[T] = f[x] + s[T \ {x}]
  BY <1>11, <1>12
<1>14. QED
  BY <1>3, <1>13

(* A sum depends on the terms it sums only.                                *)
LEMMA SumsWithinAgree ==
    ASSUME NEW f, NEW g, NEW S, IsFiniteSet(S), NEW R \in SUBSET S,
           \A x \in R : f[x] = g[x]
    PROVE  SumsWithin(f, S)[R] = SumsWithin(g, S)[R]
<1> DEFINE s == SumsWithin(f, S)
           t == SumsWithin(g, S)
           Bad == {T \in SUBSET S : T \subseteq R /\ s[T] # t[T]}
<1>1. SUFFICES ASSUME Bad # {}
               PROVE  FALSE
  OBVIOUS
<1>2. PICK T \in Bad : \A U \in Bad : Cardinality(T) <= Cardinality(U)
  <2>1. Bad \subseteq SUBSET S
    OBVIOUS
  <2> HIDE DEF Bad
  <2>2. QED
    BY <1>1, <2>1, SmallestSubset
<1>3. T # {}
  BY SumsWithinEmpty
<1>4. AnyOf(T) \in T
  BY <1>3 DEF AnyOf
<1>5. /\ T \ {AnyOf(T)} \in SUBSET S
      /\ ~ (Cardinality(T) <= Cardinality(T \ {AnyOf(T)}))
  BY <1>4, SubsetWithout
<1>6. s[T \ {AnyOf(T)}] = t[T \ {AnyOf(T)}]
  BY <1>2, <1>5
<1>7. /\ s[T] = f[AnyOf(T)] + s[T \ {AnyOf(T)}]
      /\ t[T] = g[AnyOf(T)] + t[T \ {AnyOf(T)}]
  <2>0. T \in SUBSET S
    OBVIOUS
  <2> HIDE DEF Bad
  <2>1. s[T] = f[AnyOf(T)] + s[T \ {AnyOf(T)}]
    BY <1>3, <2>0, SumsWithinStep
  <2>2. t[T] = g[AnyOf(T)] + t[T \ {AnyOf(T)}]
    BY <1>3, <2>0, SumsWithinStep
  <2>3. QED
    BY <2>1, <2>2
<1>8. f[AnyOf(T)] = g[AnyOf(T)]
  BY <1>4
<1>9. QED
  BY <1>6, <1>7, <1>8

(* A sum of integers over a finite set is an integer.                      *)
LEMMA SumOverInt ==
    ASSUME NEW f, NEW S, IsFiniteSet(S), \A x \in S : f[x] \in Int
    PROVE  SumOver(f, S) \in Int
BY SumsWithinInt DEF SumOver

(* Replacing one term changes the sum by the difference of the two.        *)
LEMMA SumOverChange ==
    ASSUME NEW f, NEW g, NEW S, IsFiniteSet(S), NEW x \in S,
           \A y \in S : f[y] \in Int /\ g[y] \in Int,
           \A y \in S : y # x => f[y] = g[y]
    PROVE  SumOver(g, S) = SumOver(f, S) + (g[x] - f[x])
<1> DEFINE R == S \ {x}
<1>1. /\ SumOver(f, S) = f[x] + SumsWithin(f, S)[R]
      /\ SumOver(g, S) = g[x] + SumsWithin(g, S)[R]
  BY SumsWithinRemove DEF SumOver
<1>2. R \in SUBSET S /\ \A y \in R : f[y] = g[y]
  OBVIOUS
<1>3. SumsWithin(f, S)[R] = SumsWithin(g, S)[R]
  BY <1>2, SumsWithinAgree
<1>4. SumsWithin(f, S)[R] \in Int /\ f[x] \in Int /\ g[x] \in Int
  BY <1>2, SumsWithinInt
<1>5. QED
  BY <1>1, <1>3, <1>4

(* A sum of zeros is zero.                                                 *)
LEMMA SumOverZero ==
    ASSUME NEW f, NEW S, IsFiniteSet(S), \A x \in S : f[x] = 0
    PROVE  SumOver(f, S) = 0
<1> DEFINE s == SumsWithin(f, S)
           Bad == {T \in SUBSET S : s[T] # 0}
<1>1. SUFFICES ASSUME Bad # {}
               PROVE  FALSE
  BY DEF SumOver
<1>2. PICK T \in Bad : \A U \in Bad : Cardinality(T) <= Cardinality(U)
  <2>1. Bad \subseteq SUBSET S
    OBVIOUS
  <2> HIDE DEF Bad
  <2>2. QED
    BY <1>1, <2>1, SmallestSubset
<1>3. T # {}
  BY SumsWithinEmpty
<1>4. AnyOf(T) \in T
  BY <1>3 DEF AnyOf
<1>5. /\ T \ {AnyOf(T)} \in SUBSET S
      /\ ~ (Cardinality(T) <= Cardinality(T \ {AnyOf(T)}))
  BY <1>4, SubsetWithout
<1>6. s[T \ {AnyOf(T)}] = 0
  BY <1>2, <1>5
<1>7. s[T] = f[AnyOf(T)] + s[T \ {AnyOf(T)}]
  BY <1>3, SumsWithinStep
<1>8. f[AnyOf(T)] = 0
  BY <1>4
<1>9. QED
  BY <1>6, <1>7, <1>8

(* A sum of naturals is a natural, and at least as large as any of them.   *)
LEMMA SumOverMember ==
    ASSUME NEW f, NEW S, IsFiniteSet(S), \A x \in S : f[x] \in Nat
    PROVE  /\ SumOver(f, S) \in Nat
           /\ \A x \in S : f[x] <= SumOver(f, S)
<1> DEFINE s == SumsWithin(f, S)
           Bad == {T \in SUBSET S : s[T] \notin Nat}
<1>1. \A T \in SUBSET S : s[T] \in Nat
  <2>1. SUFFICES ASSUME Bad # {}
                 PROVE  FALSE
    OBVIOUS
  <2>2. PICK T \in Bad : \A U \in Bad : Cardinality(T) <= Cardinality(U)
    <3>1. Bad \subseteq SUBSET S
      OBVIOUS
    <3> HIDE DEF Bad
    <3>2. QED
      BY <2>1, <3>1, SmallestSubset
  <2>3. T # {}
    BY SumsWithinEmpty
  <2>4. AnyOf(T) \in T
    BY <2>3 DEF AnyOf
  <2>5. /\ T \ {AnyOf(T)} \in SUBSET S
        /\ ~ (Cardinality(T) <= Cardinality(T \ {AnyOf(T)}))
    BY <2>4, SubsetWithout
  <2>6. s[T \ {AnyOf(T)}] \in Nat
    BY <2>2, <2>5
  <2>7. s[T] = f[AnyOf(T)] + s[T \ {AnyOf(T)}]
    BY <2>3, SumsWithinStep
  <2>8. f[AnyOf(T)] \in Nat
    BY <2>4
  <2>9. QED
    BY <2>6, <2>7, <2>8
<1>2. ASSUME NEW x \in S
      PROVE  f[x] <= SumOver(f, S)
  <2>1. \A y \in S : f[y] \in Int
    OBVIOUS
  <2>2. s[S] = f[x] + s[S \ {x}]
    BY <2>1, SumsWithinRemove
  <2>3. s[S \ {x}] \in Nat /\ s[S] \in Nat /\ f[x] \in Nat
    BY <1>1
  <2> HIDE DEF s
  <2>4. f[x] <= s[S]
    BY <2>2, <2>3
  <2>5. QED
    BY <2>4 DEF s, SumOver
<1>3. QED
  BY <1>1, <1>2 DEF SumOver
-----------------------------------------------------------------------------
(* The ledger of a token.                                                  *)

(* What a transfer of amount from one principal to another means for p.    *)
Moved(p, from, to, amount) ==
    (IF p = to THEN amount ELSE 0) - (IF p = from THEN amount ELSE 0)

(* An admitted transfer keeps the ledger well typed, moves the amount, and *)
(* leaves every other balance and every allowance alone.                   *)
LEMMA TransferLedger ==
    ASSUME NEW P, NEW O, NEW L \in Ledgers(P, O), NEW from \in P, NEW to \in P,
           NEW amount \in Nat, CanTransfer(L, from, to, amount)
    PROVE  /\ Transfer(L, from, to, amount) \in Ledgers(P, O)
           /\ Transfer(L, from, to, amount).allowances = L.allowances
           /\ \A p \in P : Transfer(L, from, to, amount).balances[p]
                             = L.balances[p] + Moved(p, from, to, amount)
<1> DEFINE b == L.balances
           c == [b EXCEPT ![from] = b[from] - amount, ![to] = @ + amount]
<1>1. b \in [P -> Nat] /\ L.allowances \in [O -> Nat]
  BY DEF Ledgers
<1>2. from # to /\ amount <= b[from]
  BY DEF CanTransfer
<1>3. L = [balances |-> b, allowances |-> L.allowances]
  BY DEF Ledgers
<1>4. Transfer(L, from, to, amount) =
        [balances |-> c, allowances |-> L.allowances]
  BY <1>3 DEF Transfer
<1> HIDE DEF b
<1>5. \A p \in P : c[p] = b[p] + Moved(p, from, to, amount)
  BY <1>1, <1>2 DEF Moved
<1>6. c \in [P -> Nat]
  BY <1>1, <1>2
<1> HIDE DEF c
<1>7. QED
  BY <1>1, <1>4, <1>5, <1>6 DEF Ledgers, b

(* So does an admitted pull, which also uses up the owner's allowance.     *)
LEMMA PullLedger ==
    ASSUME NEW P, NEW O, NEW L \in Ledgers(P, O), NEW owner \in P \cap O,
           NEW contract \in P, NEW amount \in Nat,
           CanTransferFrom(L, owner, contract, amount)
    PROVE  /\ TransferFrom(L, owner, contract, amount) \in Ledgers(P, O)
           /\ \A p \in P : TransferFrom(L, owner, contract, amount).balances[p]
                             = L.balances[p] + Moved(p, owner, contract, amount)
<1> DEFINE M == Transfer(L, owner, contract, amount)
<1>1. /\ owner # contract
      /\ amount <= L.balances[owner] /\ amount <= L.allowances[owner]
      /\ L.allowances \in [O -> Nat]
  BY DEF Ledgers, CanTransferFrom
<1>2. /\ M \in Ledgers(P, O) /\ M.allowances = L.allowances
      /\ \A p \in P : M.balances[p]
                        = L.balances[p] + Moved(p, owner, contract, amount)
  BY <1>1, TransferLedger DEF CanTransfer
<1> HIDE DEF M
<1>3. /\ [M EXCEPT !.allowances[owner] = @ - amount] \in Ledgers(P, O)
      /\ [M EXCEPT !.allowances[owner] = @ - amount].balances = M.balances
  BY <1>1, <1>2 DEF Ledgers
<1>4. QED
  BY <1>2, <1>3 DEF M, TransferFrom

(* An approval changes no balance.                                         *)
LEMMA ApproveLedger ==
    ASSUME NEW P, NEW O, NEW L \in Ledgers(P, O), NEW owner \in O,
           NEW amount \in Nat
    PROVE  /\ Approve(L, owner, amount) \in Ledgers(P, O)
           /\ Approve(L, owner, amount).balances = L.balances
BY DEF Approve, Ledgers
-----------------------------------------------------------------------------
(* Functions that are defined by recursion.                                *)

(* s starts from x and goes on by f up to n.                               *)
IsIterate(s, f, x, n) ==
    s = [i \in 0 .. n |-> IF i = 0 THEN x ELSE f[s[i - 1]]]

(* There is one for every n, and it stays where f does.                    *)
LEMMA IterateExists ==
    ASSUME NEW X, NEW f \in [X -> X], NEW x \in X, NEW n \in Nat
    PROVE  \E s \in [0 .. n -> X] : IsIterate(s, f, x, n)
<1> DEFINE Bad == {m \in Nat : ~ \E s \in [0 .. m -> X] : IsIterate(s, f, x, m)}
<1>1. SUFFICES ASSUME Bad # {} PROVE FALSE
  OBVIOUS
<1>2. PICK m \in Bad : \A k \in Bad : m <= k
  <2>1. Bad \subseteq Nat
    OBVIOUS
  <2> HIDE DEF Bad
  <2>2. QED
    BY <1>1, <2>1, LeastNatural
<1>3. m \in Nat /\ ~ \E s \in [0 .. m -> X] : IsIterate(s, f, x, m)
  BY <1>2
<1>4. m # 0
  <2>1. [i \in 0 .. 0 |-> x] \in [0 .. 0 -> X]
        /\ IsIterate([i \in 0 .. 0 |-> x], f, x, 0)
    BY DEF IsIterate
  <2>2. QED
    BY <1>3, <2>1
<1>5. PICK s \in [0 .. m - 1 -> X] : IsIterate(s, f, x, m - 1)
  <2>1. m - 1 \in Nat /\ m - 1 \notin Bad
    BY <1>2, <1>3, <1>4
  <2>2. QED
    BY <2>1
<1> DEFINE t == [i \in 0 .. m |-> IF i = m THEN f[s[m - 1]] ELSE s[i]]
<1>6. t \in [0 .. m -> X]
  <2>1. s[m - 1] \in X
    BY <1>3, <1>4, <1>5
  <2>2. ASSUME NEW i \in 0 .. m, i # m
        PROVE  s[i] \in X
    BY <1>3, <1>5, <2>2
  <2>3. QED
    BY <2>1, <2>2
<1>7. IsIterate(t, f, x, m)
  <2>1. ASSUME NEW i \in 0 .. m
        PROVE  t[i] = IF i = 0 THEN x ELSE f[t[i - 1]]
    <3>1. CASE i = m
      <4>1. m - 1 \in 0 .. m /\ m - 1 # m
        BY <1>3, <1>4
      <4>2. t[i - 1] = s[m - 1] /\ t[i] = f[s[m - 1]]
        BY <3>1, <4>1
      <4>3. QED
        BY <1>4, <3>1, <4>2
    <3>2. CASE i # m /\ i # 0
      <4>1. i \in 0 .. m - 1 /\ i - 1 \in 0 .. m /\ i - 1 # m
        BY <1>3, <3>2
      <4>2. s[i] = f[s[i - 1]]
        BY <1>5, <3>2, <4>1 DEF IsIterate
      <4>3. QED
        BY <3>2, <4>1, <4>2
    <3>3. CASE i = 0
      <4>1. 0 \in 0 .. m - 1 /\ i # m
        BY <1>3, <1>4, <3>3
      <4>2. s[0] = x
        BY <1>5, <4>1 DEF IsIterate
      <4>3. QED
        BY <3>3, <4>1, <4>2
    <3>4. QED
      BY <3>1, <3>2, <3>3
  <2>2. t = [i \in 0 .. m |-> t[i]]
    OBVIOUS
  <2> HIDE DEF t
  <2>3. QED
    BY <2>1, <2>2 DEF IsIterate
<1>8. QED
  BY <1>3, <1>6, <1>7

(* Functions that agree below a rank are made into ones that agree there.  *)
LooksBelow(G, S, R, rank) ==
    \A x \in S : \A f, g \in [S -> R] :
        (\A y \in S : rank[y] < rank[x] => f[y] = g[y]) => G[f][x] = G[g][x]

IsRecursion(G, S, R, rank, base) ==
    /\ rank \in [S -> Nat] /\ base \in [S -> R]
    /\ G \in [[S -> R] -> [S -> R]] /\ LooksBelow(G, S, R, rank)

(* A function that is defined from its values at lower ranks exists.       *)
LEMMA RecursionExists ==
    ASSUME NEW S, NEW R, NEW rank, NEW base, NEW G,
           IsRecursion(G, S, R, rank, base)
    PROVE  \E f \in [S -> R] : f = G[f]
<1> USE DEF IsRecursion
<1> DEFINE Stage(h, n) == h \in [0 .. n -> [S -> R]] /\ IsIterate(h, G, base, n)
(* After n rounds all that ranks below n has settled.                      *)
           Settled(n) == \A h, k : \A m \in Nat :
                n <= m /\ Stage(h, n) /\ Stage(k, m) =>
                    \A x \in S : rank[x] < n => h[n][x] = k[m][x]
<1>1. ASSUME NEW n \in Nat
      PROVE  \E h : Stage(h, n)
  BY IterateExists
<1>2. ASSUME NEW n \in Nat, NEW h, Stage(h, n + 1)
      PROVE  \E k : Stage(k, n) /\ h[n + 1] = G[k[n]]
  <2> DEFINE k == [i \in 0 .. n |-> h[i]]
  <2>1. /\ h \in [0 .. n + 1 -> [S -> R]]
        /\ \A i \in 0 .. n + 1 : h[i] = IF i = 0 THEN base ELSE G[h[i - 1]]
    BY <1>2 DEF IsIterate
  <2>2. k \in [0 .. n -> [S -> R]]
    BY <2>1
  <2>3. ASSUME NEW i \in 0 .. n
        PROVE  h[i] = IF i = 0 THEN base ELSE G[k[i - 1]]
    BY <2>1
  <2>4. k = [i \in 0 .. n |-> IF i = 0 THEN base ELSE G[k[i - 1]]]
    BY <2>3
  <2>5. h[n + 1] = G[k[n]]
    BY <2>1
  <2> HIDE DEF k
  <2>6. QED
    BY <2>2, <2>4, <2>5 DEF IsIterate
<1>3. \A n \in Nat : Settled(n)
  <2> DEFINE Bad == {n \in Nat : ~Settled(n)}
  <2>1. SUFFICES ASSUME Bad # {} PROVE FALSE
    OBVIOUS
  <2>2. PICK n \in Bad : \A m \in Bad : n <= m
    <3>1. Bad \subseteq Nat
      OBVIOUS
    <3> HIDE DEF Bad
    <3>2. QED
      BY <2>1, <3>1, LeastNatural
  <2>3. n \in Nat /\ ~Settled(n)
    BY <2>2
  <2>4. PICK h, k : \E m \in Nat :
            /\ n <= m /\ Stage(h, n) /\ Stage(k, m)
            /\ \E x \in S : rank[x] < n /\ h[n][x] # k[m][x]
    <3> HIDE DEF Stage
    <3>1. QED
      BY <2>3
  <2>5. PICK m \in Nat :
            /\ n <= m /\ Stage(h, n) /\ Stage(k, m)
            /\ \E x \in S : rank[x] < n /\ h[n][x] # k[m][x]
    BY <2>4
  <2>6. PICK x \in S : rank[x] < n /\ h[n][x] # k[m][x]
    BY <2>5
  <2>7. n - 1 \in Nat /\ m - 1 \in Nat /\ n - 1 <= m - 1
        /\ (n - 1) + 1 = n /\ (m - 1) + 1 = m
    <3>1. rank[x] \in Nat
      OBVIOUS
    <3>2. QED
      BY <2>3, <2>5, <2>6, <3>1
  <2>8. PICK h1 : Stage(h1, n - 1) /\ h[n] = G[h1[n - 1]]
    <3> HIDE DEF Stage
    <3>1. QED
      BY <1>2, <2>5, <2>7
  <2>9. PICK k1 : Stage(k1, m - 1) /\ k[m] = G[k1[m - 1]]
    <3>1. m - 1 \in Nat /\ Stage(k, (m - 1) + 1)
      BY <2>5, <2>7
    <3> HIDE DEF Stage
    <3>2. PICK k1 : Stage(k1, m - 1) /\ k[(m - 1) + 1] = G[k1[m - 1]]
      BY <1>2, <3>1
    <3>3. QED
      BY <2>7, <3>2
  <2>10. Settled(n - 1)
    <3> HIDE DEF Settled
    <3>1. (n - 1) \in Nat /\ ~(n <= n - 1)
      BY <2>3, <2>7
    <3>2. n - 1 \notin Bad
      <4> HIDE DEF Bad
      <4>1. QED
        BY <2>2, <3>1
    <3>3. QED
      BY <3>1, <3>2
  <2>11. ASSUME NEW y \in S, rank[y] < rank[x]
         PROVE  h1[n - 1][y] = k1[m - 1][y]
    <3>1. rank[y] \in Nat /\ rank[x] \in Nat
      OBVIOUS
    <3>2. rank[y] < n - 1
      BY <2>3, <2>6, <2>11, <3>1
    <3> HIDE DEF Stage
    <3>3. QED
      BY <2>7, <2>8, <2>9, <2>10, <3>2
  <2>12. h1[n - 1] \in [S -> R] /\ k1[m - 1] \in [S -> R]
    BY <2>7, <2>8, <2>9
  <2>13. G[h1[n - 1]][x] = G[k1[m - 1]][x]
    BY <2>11, <2>12 DEF LooksBelow
  <2>14. QED
    BY <2>6, <2>8, <2>9, <2>13
<1> DEFINE last(n) == CHOOSE h : Stage(h, n)
           f == [x \in S |-> last(rank[x] + 1)[rank[x] + 1][x]]
<1>4. ASSUME NEW n \in Nat
      PROVE  Stage(last(n), n)
  <2> HIDE DEF Stage
  <2>1. QED
    BY <1>1
<1>5. f \in [S -> R]
  <2>1. ASSUME NEW x \in S
        PROVE  last(rank[x] + 1)[rank[x] + 1][x] \in R
    <3> DEFINE n == rank[x] + 1
    <3>1. n \in Nat
      OBVIOUS
    <3> HIDE DEF n, last
    <3>2. last(n)[n] \in [S -> R]
      BY <1>4, <3>1
    <3>3. last(n)[n][x] \in R
      BY <3>2
    <3>4. QED
      BY <3>3 DEF n
  <2> HIDE DEF last
  <2>2. QED
    BY <2>1
<1> HIDE DEF last
<1>6. ASSUME NEW n \in Nat, NEW y \in S, rank[y] < n
      PROVE  f[y] = last(n)[n][y]
  <2>1. rank[y] \in Nat /\ rank[y] + 1 \in Nat /\ rank[y] + 1 <= n
    BY <1>6
  <2>2. /\ Settled(rank[y] + 1)
        /\ Stage(last(rank[y] + 1), rank[y] + 1) /\ Stage(last(n), n)
    BY <1>3, <1>4, <2>1
  <2> HIDE DEF Stage
  <2>3. last(rank[y] + 1)[rank[y] + 1][y] = last(n)[n][y]
    <3>1. rank[y] < rank[y] + 1
      BY <2>1
    <3>2. QED
      BY <2>1, <2>2, <3>1
  <2>4. QED
    BY <2>3
<1>7. ASSUME NEW x \in S
      PROVE  f[x] = G[f][x]
  <2> DEFINE n == rank[x]
  <2>1. n \in Nat /\ n + 1 \in Nat
    OBVIOUS
  <2>2. PICK k : Stage(k, n) /\ last(n + 1)[n + 1] = G[k[n]]
    <3>1. Stage(last(n + 1), n + 1)
      BY <1>4, <2>1
    <3> HIDE DEF Stage, n
    <3>2. QED
      BY <1>2, <2>1, <3>1
  <2>3. k[n] \in [S -> R]
    BY <2>1, <2>2
  <2>4. ASSUME NEW y \in S, rank[y] < rank[x]
        PROVE  f[y] = k[n][y]
    <3>1. f[y] = last(n)[n][y]
      BY <1>6, <2>1, <2>4
    <3>2. Settled(n) /\ Stage(last(n), n) /\ Stage(k, n) /\ n <= n
      <4> HIDE DEF Settled, Stage
      <4>1. QED
        BY <1>3, <1>4, <2>1, <2>2
    <3>3. rank[y] < n
      BY <2>4
    <3> HIDE DEF Stage, f, n
    <3>4. last(n)[n][y] = k[n][y]
      BY <2>1, <3>2, <3>3
    <3>5. QED
      BY <3>1, <3>4
  <2> HIDE DEF f
  <2>5. G[f][x] = G[k[n]][x]
    BY <1>5, <2>3, <2>4 DEF LooksBelow
  <2>6. f[x] = last(n + 1)[n + 1][x]
    BY DEF f
  <2>7. QED
    BY <2>2, <2>5, <2>6
<1> HIDE DEF f
<1>8. G[f] \in [S -> R]
  BY <1>5
<1>9. f = G[f]
  BY <1>5, <1>7, <1>8
<1>10. QED
  BY <1>5, <1>9

(* Functions that are the same where they are the same below               *)
AgreeAlong(f, h, S, rank) ==
    /\ rank \in [S -> Nat]
    /\ f = [x \in S |-> f[x]] /\ h = [x \in S |-> h[x]]
    /\ \A x \in S :
          (\A y \in S : rank[y] < rank[x] => f[y] = h[y]) => f[x] = h[x]

(* are the same.                                                           *)
LEMMA RecursionUnique ==
    ASSUME NEW S, NEW rank, NEW f, NEW h, AgreeAlong(f, h, S, rank)
    PROVE  f = h
<1> USE DEF AgreeAlong
<1> DEFINE Bad == {rank[x] : x \in {y \in S : f[y] # h[y]}}
<1>1. CASE Bad = {}
  <2>1. \A x \in S : f[x] = h[x]
    BY <1>1
  <2>2. QED
    BY <2>1
<1>2. CASE Bad # {}
  <2>1. PICK n \in Bad : \A m \in Bad : n <= m
    <3>1. Bad \subseteq Nat
      OBVIOUS
    <3> HIDE DEF Bad
    <3>2. QED
      BY <1>2, <3>1, LeastNatural
  <2>2. PICK x \in S : rank[x] = n /\ f[x] # h[x]
    BY <2>1
  <2>3. ASSUME NEW y \in S, rank[y] < rank[x]
        PROVE  f[y] = h[y]
    <3>1. rank[y] \in Nat /\ rank[x] \in Nat /\ ~(rank[x] <= rank[y])
      BY <2>3
    <3>2. rank[y] \notin Bad
      <4> HIDE DEF Bad
      <4>1. QED
        BY <2>1, <2>2, <3>1
    <3>3. QED
      BY <3>2
  <2>4. QED
    BY <2>2, <2>3
<1>3. QED
  BY <1>1, <1>2
=============================================================================
