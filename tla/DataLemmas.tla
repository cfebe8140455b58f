---------------------------- MODULE DataLemmas ----------------------------
(***************************************************************************)
(* Facts about data that the proofs about the models need: the least       *)
(* element of a set of natural numbers, which stands in for induction, the *)
(* greatest of a bounded set, partial sums; and lists: the items that are  *)
(* chosen by their places, lists joined and lists flattened.               *)
(***************************************************************************)
EXTENDS Integers, SequencesExt, FiniteSetTheorems, WellFoundedInduction, TLAPS, Lists

\* A set of natural numbers that has an element has a least one: the code
\* behaviour is the search from the front, as for the first variant that is ready.
LEMMA LeastNatural ==
    ASSUME NEW S, S \subseteq Nat, S # {}
    PROVE  \E m \in S : \A k \in S : m <= k
<1> DEFINE R == OpToRel(<, Nat)
<1>1. IsWellFoundedOn(R, Nat)
    BY NatLessThanWellFounded, Zenon
<1>2. \A x, y \in Nat : <<x, y>> \in R <=> x < y
    BY DEF OpToRel
<1> HIDE DEF R
<1>3. PICK m \in S : \A y \in S : ~ (<<y, m>> \in R)
    BY <1>1, WFMin
<1>4. ASSUME NEW k \in S PROVE m <= k
  <2>1. k \in Nat /\ m \in Nat
      OBVIOUS
  <2>2. ~ (k < m)
      BY <1>2, <1>3, <2>1, Zenon
  <2> QED BY <2>1, <2>2
<1> QED BY <1>4

\* A bounded set of natural numbers that has an element has a greatest one, and
\* that is its Max: the code behaviour is the search from the back, as of
\* windowed_segments.
LEMMA MaxOfBounded ==
    ASSUME NEW n \in Nat, NEW S, S \subseteq 0 .. n, S # {}
    PROVE  Max(S) \in S /\ \A k \in S : k <= Max(S)
<1> DEFINE D == {j \in Nat : \E k \in S : j = n - k}
<1>1. D \subseteq Nat
    OBVIOUS
<1>2. PICK s \in S : TRUE
    OBVIOUS
<1>3. n - s \in D
    BY <1>2
<1>4. PICK j \in D : \A k \in D : j <= k
  <2> HIDE DEF D
  <2> QED BY <1>1, <1>3, LeastNatural
<1>5. PICK m \in S : j = n - m
    BY <1>4
<1>6. ASSUME NEW k \in S PROVE m >= k
  <2>1. n - k \in D
      OBVIOUS
  <2>2. j <= n - k
      BY <2>1, <1>4
  <2> QED BY <2>2, <1>5
<1>7. \E x \in S : \A y \in S : x >= y
    BY <1>6
<1>8. Max(S) \in S /\ \A y \in S : Max(S) >= y
    BY <1>7 DEF Max
<1> QED BY <1>8

------------------------------------------------------------------------------
(* Sums *)

\* f[i] is the sum of d[1] .. d[i], for i up to n.
IsSum(f, d, n) ==
    /\ f \in [0 .. n -> Nat]
    /\ f[0] = 0
    /\ \A i \in 1 .. n : f[i] = f[i - 1] + d[i]

\* Natural numbers have partial sums: the code behaviour is a loop that adds
\* one duration after the other.
LEMMA SumExists ==
    ASSUME NEW n \in Nat, NEW d, \A i \in 1 .. n : d[i] \in Nat
    PROVE  \E f : IsSum(f, d, n)
<1> DEFINE Missing == {k \in 0 .. n : ~ \E f : IsSum(f, d, k)}
<1>1. SUFFICES ASSUME Missing # {} PROVE FALSE
    OBVIOUS
<1>2. Missing \subseteq Nat
    OBVIOUS
<1>3. PICK m \in Missing : \A k \in Missing : m <= k
  <2> HIDE DEF Missing
  <2> QED BY <1>1, <1>2, LeastNatural
<1>4. m \in 0 .. n /\ ~ \E f : IsSum(f, d, m)
    OBVIOUS
<1>5. CASE m = 0
  <2> DEFINE f == [i \in 0 .. 0 |-> 0]
  <2>1. IsSum(f, d, 0)
      BY DEF IsSum
  <2> QED BY <1>4, <1>5, <2>1
<1>6. CASE m # 0
  <2>1. m - 1 \in 0 .. n /\ m - 1 \notin Missing
      BY <1>3, <1>4, <1>6
  <2>2. PICK g : IsSum(g, d, m - 1)
      BY <2>1
  <2> DEFINE f == [i \in 0 .. m |-> IF i < m THEN g[i] ELSE g[m - 1] + d[m]]
  <2>3. d[m] \in Nat /\ m \in Nat /\ m >= 1
      BY <1>4, <1>6
  <2>4. g \in [0 .. m - 1 -> Nat] /\ g[0] = 0
      BY <2>2 DEF IsSum
  <2>5. f \in [0 .. m -> Nat]
    <3>1. ASSUME NEW i \in 0 .. m PROVE f[i] \in Nat
      <4>1. CASE i < m
          BY <4>1, <2>3, <2>4
      <4>2. CASE ~ (i < m)
          BY <4>2, <2>3, <2>4
      <4> QED BY <4>1, <4>2
    <3> QED BY <3>1
  <2>6. f[0] = 0
      BY <2>3, <2>4
  <2>7. ASSUME NEW i \in 1 .. m PROVE f[i] = f[i - 1] + d[i]
    <3>1. f[i - 1] = g[i - 1]
        BY <2>3
    <3>2. CASE i < m
      <4>1. i \in 1 .. m - 1
          BY <3>2, <2>3
      <4>2. g[i] = g[i - 1] + d[i]
          BY <4>1, <2>2 DEF IsSum
      <4> QED BY <3>1, <3>2, <4>2
    <3>3. CASE ~ (i < m)
      <4>1. i = m
          BY <3>3, <2>3
      <4> QED BY <3>1, <4>1
    <3> QED BY <3>2, <3>3
  <2> HIDE DEF f
  <2>8. IsSum(f, d, m)
      BY <2>5, <2>6, <2>7 DEF IsSum
  <2> QED BY <1>4, <2>8
<1> QED BY <1>5, <1>6

\* They are determined by the equations of a recursive definition: the code
\* behaviour is that the sum does not depend on how the loop is written.
LEMMA SumUnique ==
    ASSUME NEW n \in Nat, NEW d, NEW f, NEW g, IsSum(f, d, n),
           DOMAIN g = 0 .. n, g[0] = 0, \A i \in 1 .. n : g[i] = g[i - 1] + d[i]
    PROVE  \A i \in 0 .. n : g[i] = f[i]
<1> DEFINE Differ == {k \in 0 .. n : g[k] # f[k]}
<1>1. SUFFICES ASSUME Differ # {} PROVE FALSE
    OBVIOUS
<1>2. Differ \subseteq Nat
    OBVIOUS
<1>3. PICK m \in Differ : \A k \in Differ : m <= k
  <2> HIDE DEF Differ
  <2> QED BY <1>1, <1>2, LeastNatural
<1>4. m \in 0 .. n /\ g[m] # f[m]
    OBVIOUS
<1>5. m # 0
    BY <1>4 DEF IsSum
<1>6. m \in 1 .. n /\ m - 1 \in 0 .. n /\ ~ (m <= m - 1)
    BY <1>4, <1>5
<1>7. m - 1 \notin Differ
    BY <1>3, <1>6
<1>8. g[m - 1] = f[m - 1]
    BY <1>6, <1>7
<1>9. g[m] = g[m - 1] + d[m] /\ f[m] = f[m - 1] + d[m]
    BY <1>6 DEF IsSum
<1> QED BY <1>4, <1>8, <1>9

\* They grow: the code behaviour is that a longer run lasts at least as long.
LEMMA SumMonotone ==
    ASSUME NEW n \in Nat, NEW d, NEW f, IsSum(f, d, n), \A i \in 1 .. n : d[i] \in Nat
    PROVE  \A i, j \in 0 .. n : i <= j => f[i] <= f[j]
<1>1. SUFFICES ASSUME NEW i \in 0 .. n PROVE \A j \in 0 .. n : i <= j => f[i] <= f[j]
    OBVIOUS
<1> DEFINE Below == {j \in 0 .. n : i <= j /\ ~ (f[i] <= f[j])}
<1>2. SUFFICES ASSUME Below # {} PROVE FALSE
    OBVIOUS
<1>3. Below \subseteq Nat
    OBVIOUS
<1>4. PICK m \in Below : \A k \in Below : m <= k
  <2> HIDE DEF Below
  <2> QED BY <1>2, <1>3, LeastNatural
<1>5. m \in 0 .. n /\ i <= m /\ ~ (f[i] <= f[m])
    OBVIOUS
<1>6. \A k \in 0 .. n : f[k] \in Nat
    BY DEF IsSum
<1>7. i # m
    BY <1>5, <1>6
<1>8. m \in 1 .. n /\ m - 1 \in 0 .. n /\ i <= m - 1 /\ ~ (m <= m - 1)
    BY <1>5, <1>7
<1>9. f[i] <= f[m - 1]
    BY <1>4, <1>8
<1>10. f[m] = f[m - 1] + d[m] /\ d[m] \in Nat
    BY <1>8 DEF IsSum
<1> QED BY <1>5, <1>6, <1>8, <1>9, <1>10

\* The sums of a run of the list are differences of the sums of the list: the
\* code behaviour is that a run's total is what the loop adds while it is in it.
LEMMA SumOfRun ==
    ASSUME NEW n \in Nat, NEW d, NEW f, IsSum(f, d, n), \A i \in 1 .. n : d[i] \in Nat,
           NEW a \in 0 .. n, NEW b \in a .. n, NEW e,
           \A i \in 1 .. b - a : e[i] = d[a + i]
    PROVE  IsSum([i \in 0 .. b - a |-> f[a + i] - f[a]], e, b - a)
<1> DEFINE h == [i \in 0 .. b - a |-> f[a + i] - f[a]]
<1>1. \A i \in 0 .. n : f[i] \in Nat
    BY DEF IsSum
<1>2. ASSUME NEW i \in 0 .. b - a PROVE h[i] \in Nat
  <2>1. f[a] <= f[a + i]
      BY SumMonotone, a + i \in 0 .. n, a <= a + i
  <2>2. f[a] \in Nat /\ f[a + i] \in Nat
      BY <1>1, a + i \in 0 .. n
  <2> QED BY <2>1, <2>2
<1>3. h[0] = 0
    BY <1>1
<1>4. ASSUME NEW i \in 1 .. b - a PROVE h[i] = h[i - 1] + e[i]
  <2>1. a + i \in 1 .. n /\ (a + i) - 1 = a + (i - 1) /\ i - 1 \in 0 .. b - a
      OBVIOUS
  <2>2. f[a + i] = f[(a + i) - 1] + d[a + i]
      BY <2>1 DEF IsSum
  <2>3. e[i] = d[a + i] /\ d[a + i] \in Nat
      BY <2>1
  <2>4. f[a] \in Nat /\ f[a + i] \in Nat /\ f[a + (i - 1)] \in Nat
      BY <1>1, <2>1, a + (i - 1) \in 0 .. n
  <2> QED BY <2>1, <2>2, <2>3, <2>4
<1>5. h \in [0 .. b - a -> Nat]
    BY <1>2
<1> HIDE DEF h
<1>6. IsSum(h, e, b - a)
    BY <1>3, <1>4, <1>5 DEF IsSum
<1> QED BY <1>6 DEF h

\* SumUpTo is the last partial sum: the code behaviour is a loop over the first
\* items, as over the references of a sidx.
LEMMA SumUpToIsSum ==
    ASSUME NEW n \in Nat, NEW d, NEW f, IsSum(f, d, n)
    PROVE  SumUpTo(d, n) = f[n]
<1> DEFINE sum == CHOOSE g : g = [i \in 0 .. n |-> IF i = 0 THEN 0 ELSE g[i - 1] + d[i]]
<1>1. f = [i \in 0 .. n |-> IF i = 0 THEN 0 ELSE f[i - 1] + d[i]]
    BY DEF IsSum
<1>2. sum = [i \in 0 .. n |-> IF i = 0 THEN 0 ELSE sum[i - 1] + d[i]]
    BY <1>1
<1> HIDE DEF sum
<1>3. DOMAIN sum = 0 .. n /\ sum[0] = 0
    BY <1>2
<1>4. \A i \in 1 .. n : sum[i] = sum[i - 1] + d[i]
    BY <1>2
<1>5. \A i \in 0 .. n : sum[i] = f[i]
    BY <1>3, <1>4, SumUnique
<1>6. sum[n] = f[n]
    BY <1>5
<1> QED BY <1>6 DEF SumUpTo, sum

-----------------------------------------------------------------------------
(* Lists *)

\* Counting up: what holds of 0 and goes from each number to the next holds up to n.
LEMMA CountUp ==
    ASSUME NEW n \in Nat, NEW T, 0 \in T, \A k \in 0 .. n : k < n /\ k \in T => k + 1 \in T
    PROVE  \A k \in 0 .. n : k \in T
<1> DEFINE Missing == {k \in 0 .. n : k \notin T}
<1>1. SUFFICES ASSUME Missing # {} PROVE FALSE
    OBVIOUS
<1>2. Missing \subseteq Nat
    OBVIOUS
<1>3. PICK m \in Missing : \A k \in Missing : m <= k
  <2> HIDE DEF Missing
  <2> QED BY <1>1, <1>2, LeastNatural
<1>4. m \in 0 .. n /\ m # 0 /\ m \notin T
    OBVIOUS
<1>5. m - 1 \in 0 .. n /\ m - 1 \notin Missing
    BY <1>3, <1>4
<1>6. m - 1 \in T
    BY <1>5
<1>7. (m - 1) + 1 \in T
    BY <1>4, <1>5, <1>6
<1> QED BY <1>4, <1>7

\* The recursive function behind Chosen.
IsChoice(f, s, I, S) ==
    /\ f \in [0 .. Len(s) -> Seq(S)]
    /\ f[0] = <<>>
    /\ \A n \in 1 .. Len(s) : f[n] = IF n \in I THEN Append(f[n - 1], s[n]) ELSE f[n - 1]

\* The recursion of Chosen has a solution on every list.
LEMMA ChoiceExists ==
    ASSUME NEW S, NEW s \in Seq(S), NEW I
    PROVE  \E f : IsChoice(f, s, I, S)
<1> DEFINE pre(n) == SubSeq(s, 1, n)
           T == {n \in 0 .. Len(s) : \E f : IsChoice(f, pre(n), I, S)}
<1>0. Len(s) \in Nat /\ \A n \in 0 .. Len(s) :
          /\ pre(n) \in Seq(S) /\ Len(pre(n)) = n
          /\ \A i \in 1 .. n : pre(n)[i] = s[i] /\ s[i] \in S
    OBVIOUS
<1>1. 0 \in T
  <2> DEFINE g == [i \in 0 .. 0 |-> <<>>]
  <2>1. IsChoice(g, pre(0), I, S)
      BY <1>0 DEF IsChoice
  <2> QED BY <2>1
<1>2. ASSUME NEW n \in 0 .. Len(s), n < Len(s), n \in T PROVE n + 1 \in T
  <2>1. PICK f : IsChoice(f, pre(n), I, S)
      BY <1>2
  <2> DEFINE last == IF n + 1 \in I THEN Append(f[n], s[n + 1]) ELSE f[n]
             g == [i \in 0 .. n + 1 |-> IF i = n + 1 THEN last ELSE f[i]]
  <2>2. n \in 0 .. Len(s) /\ n + 1 \in 0 .. Len(s) /\ n + 1 \in 1 .. Len(s)
      BY <1>0, <1>2
  <2>3. f \in [0 .. n -> Seq(S)] /\ f[0] = <<>>
        /\ \A k \in 1 .. n : f[k] = IF k \in I THEN Append(f[k - 1], s[k]) ELSE f[k - 1]
      BY <1>0, <2>1, <2>2 DEF IsChoice
  <2>4. last \in Seq(S)
    <3>1. f[n] \in Seq(S) /\ s[n + 1] \in S
        BY <2>2, <2>3
    <3> QED BY <3>1
  <2> HIDE DEF last
  <2>5. g \in [0 .. n + 1 -> Seq(S)] /\ g[0] = <<>> /\ g[n + 1] = last
      BY <2>3, <2>4
  <2>6. ASSUME NEW k \in 1 .. n + 1
        PROVE  g[k] = IF k \in I THEN Append(g[k - 1], s[k]) ELSE g[k - 1]
    <3>1. CASE k = n + 1
      <4>1. k - 1 = n /\ n \in 0 .. n + 1 /\ n # n + 1
          BY <2>2, <3>1
      <4>2. g[k - 1] = f[n] /\ g[k] = last
          BY <2>2, <3>1, <4>1
      <4> QED BY <3>1, <4>2 DEF last
    <3>2. CASE k # n + 1
      <4>1. k \in 1 .. n /\ g[k] = f[k] /\ g[k - 1] = f[k - 1]
          BY <3>2
      <4> QED BY <2>3, <4>1
    <3> QED BY <3>1, <3>2
  <2> HIDE DEF g
  <2>7. IsChoice(g, pre(n + 1), I, S)
    <3>1. Len(pre(n + 1)) = n + 1 /\ \A k \in 1 .. n + 1 : pre(n + 1)[k] = s[k]
        BY <1>0, <2>2
    <3> HIDE DEF pre
    <3> QED BY <2>5, <2>6, <3>1 DEF IsChoice
  <2> QED BY <2>2, <2>7
<1>3. Len(s) \in T
  <2> HIDE DEF T
  <2>1. \A n \in 0 .. Len(s) : n < Len(s) /\ n \in T => n + 1 \in T
      BY <1>2
  <2>2. \A n \in 0 .. Len(s) : n \in T
      BY <1>0, <1>1, <2>1, CountUp, Zenon
  <2> QED BY <1>0, <2>2
<1>4. pre(Len(s)) = s
    OBVIOUS
<1>5. \E f : IsChoice(f, pre(Len(s)), I, S)
    BY <1>3
<1> HIDE DEF pre
<1> QED BY <1>4, <1>5

\* Any solution of the recursion gives what is chosen.
LEMMA ChosenIsChoice ==
    ASSUME NEW S, NEW s \in Seq(S), NEW I, NEW f, IsChoice(f, s, I, S)
    PROVE  Chosen(s, I) = f[Len(s)]
<1> DEFINE upTo == CHOOSE g : g = [i \in 0 .. Len(s) |->
                        IF i = 0 THEN <<>>
                        ELSE IF i \in I THEN Append(g[i - 1], s[i]) ELSE g[i - 1]]
<1>1. f = [i \in 0 .. Len(s) |->
              IF i = 0 THEN <<>>
              ELSE IF i \in I THEN Append(f[i - 1], s[i]) ELSE f[i - 1]]
  <2>1. DOMAIN f = 0 .. Len(s) /\ f = [i \in 0 .. Len(s) |-> f[i]]
      BY DEF IsChoice
  <2>2. ASSUME NEW i \in 0 .. Len(s)
        PROVE  f[i] = IF i = 0 THEN <<>>
                      ELSE IF i \in I THEN Append(f[i - 1], s[i]) ELSE f[i - 1]
    <3>1. i = 0 \/ i \in 1 .. Len(s)
        OBVIOUS
    <3> QED BY <3>1 DEF IsChoice
  <2> QED BY <2>1, <2>2
<1>2. upTo = [i \in 0 .. Len(s) |->
              IF i = 0 THEN <<>>
              ELSE IF i \in I THEN Append(upTo[i - 1], s[i]) ELSE upTo[i - 1]]
    BY <1>1
<1> HIDE DEF upTo
<1> DEFINE T == {k \in 0 .. Len(s) : upTo[k] = f[k]}
<1>3. Len(s) \in Nat
    OBVIOUS
<1>4. 0 \in T
    BY <1>2, <1>3 DEF IsChoice
<1>5. ASSUME NEW k \in 0 .. Len(s), k < Len(s), k \in T PROVE k + 1 \in T
  <2>1. k + 1 \in 0 .. Len(s) /\ k + 1 # 0 /\ (k + 1) - 1 = k /\ k + 1 \in 1 .. Len(s)
      BY <1>3, <1>5
  <2>2. upTo[k + 1] = IF k + 1 \in I THEN Append(upTo[k], s[k + 1]) ELSE upTo[k]
      BY <1>2, <2>1
  <2>3. f[k + 1] = IF k + 1 \in I THEN Append(f[k], s[k + 1]) ELSE f[k]
      BY <2>1 DEF IsChoice
  <2>4. upTo[k] = f[k]
      BY <1>5
  <2> QED BY <2>1, <2>2, <2>3, <2>4
<1>6. Len(s) \in T
  <2> HIDE DEF T
  <2>1. \A k \in 0 .. Len(s) : k < Len(s) /\ k \in T => k + 1 \in T
      BY <1>5
  <2>2. \A k \in 0 .. Len(s) : k \in T
      BY <1>3, <1>4, <2>1, CountUp, Zenon
  <2> QED BY <1>3, <2>2
<1>7. upTo[Len(s)] = f[Len(s)]
    BY <1>6
<1> QED BY <1>7 DEF Chosen, upTo

\* Nothing is chosen of nothing, and of a longer list what was chosen before and,
\* if its place is among them, the new item.
LEMMA ChosenOfEmpty == ASSUME NEW I PROVE Chosen(<<>>, I) = <<>>
<1>1. <<>> \in Seq({}) /\ Len(<<>>) = 0
    OBVIOUS
<1>2. PICK f : IsChoice(f, <<>>, I, {})
    BY <1>1, ChoiceExists
<1> QED BY <1>1, <1>2, ChosenIsChoice DEF IsChoice

\* What is chosen of a list is a list of the same items.
LEMMA ChosenType ==
    ASSUME NEW S, NEW s \in Seq(S), NEW I
    PROVE  Chosen(s, I) \in Seq(S)
<1>1. PICK f : IsChoice(f, s, I, S)
    BY ChoiceExists
<1>2. Chosen(s, I) = f[Len(s)]
    BY <1>1, ChosenIsChoice
<1>3. Len(s) \in 0 .. Len(s)
    OBVIOUS
<1> QED BY <1>1, <1>2, <1>3 DEF IsChoice

\* One more item is chosen exactly if its place is asked for.
LEMMA ChosenOfAppend ==
    ASSUME NEW S, NEW s \in Seq(S), NEW e \in S, NEW I
    PROVE  Chosen(Append(s, e), I) =
               IF Len(s) + 1 \in I THEN Append(Chosen(s, I), e) ELSE Chosen(s, I)
<1> DEFINE r == Append(s, e)
           n == Len(s)
<1>1. r \in Seq(S) /\ n \in Nat /\ Len(r) = n + 1 /\ r[n + 1] = e
      /\ \A i \in 1 .. n : r[i] = s[i]
    OBVIOUS
<1>2. PICK f : IsChoice(f, r, I, S)
  <2> HIDE DEF r
  <2> QED BY <1>1, ChoiceExists
<1>3. Chosen(r, I) = f[n + 1]
  <2> HIDE DEF r
  <2> QED BY <1>1, <1>2, ChosenIsChoice
<1> DEFINE g == [i \in 0 .. n |-> f[i]]
<1> HIDE DEF r
<1>4. /\ f \in [0 .. n + 1 -> Seq(S)] /\ f[0] = <<>>
      /\ \A k \in 1 .. n + 1 : f[k] = IF k \in I THEN Append(f[k - 1], r[k]) ELSE f[k - 1]
    BY <1>1, <1>2 DEF IsChoice
<1>5. IsChoice(g, s, I, S)
  <2>1. g \in [0 .. n -> Seq(S)] /\ g[0] = <<>>
      BY <1>1, <1>4
  <2>2. ASSUME NEW k \in 1 .. n
        PROVE  g[k] = IF k \in I THEN Append(g[k - 1], s[k]) ELSE g[k - 1]
    <3>1. k \in 1 .. n + 1 /\ g[k] = f[k] /\ g[k - 1] = f[k - 1] /\ r[k] = s[k]
        BY <1>1
    <3> HIDE DEF g
    <3> QED BY <1>4, <3>1
  <2> HIDE DEF g
  <2> QED BY <2>1, <2>2 DEF IsChoice
<1>6. Chosen(s, I) = g[n]
  <2> HIDE DEF g
  <2> QED BY <1>5, ChosenIsChoice
<1>7. g[n] = f[n]
    BY <1>1
<1>8. f[n + 1] = IF n + 1 \in I THEN Append(f[n], e) ELSE f[n]
    BY <1>1, <1>4
<1> QED BY <1>3, <1>6, <1>7, <1>8 DEF r

-----------------------------------------------------------------------------
(* Induction over lists *)

\* What holds of the empty list and goes from each list to the longer ones holds
\* of every list: the code behaviour is any loop that takes items one by one.
LEMMA ListInduction ==
    ASSUME NEW S, NEW T, <<>> \in T, \A s \in Seq(S), e \in S : s \in T => Append(s, e) \in T
    PROVE  \A s \in Seq(S) : s \in T
<1> SUFFICES ASSUME NEW s \in Seq(S) PROVE s \in T
    OBVIOUS
<1> DEFINE pre(n) == SubSeq(s, 1, n)
           C == {n \in 0 .. Len(s) : pre(n) \in T}
<1>1. Len(s) \in Nat
    OBVIOUS
<1>2. 0 \in C
  <2>1. pre(0) = <<>> /\ 0 \in 0 .. Len(s)
      BY <1>1
  <2> HIDE DEF pre
  <2> QED BY <2>1
<1>3. ASSUME NEW n \in 0 .. Len(s), n < Len(s), n \in C PROVE n + 1 \in C
  <2>1. n + 1 \in 0 .. Len(s) /\ n + 1 \in 1 .. Len(s) /\ s[n + 1] \in S /\ pre(n) \in Seq(S)
      BY <1>1, <1>3
  <2>2. pre(n + 1) = Append(pre(n), s[n + 1])
      BY <1>1, <1>3
  <2>3. pre(n) \in T
      BY <1>3
  <2> HIDE DEF pre
  <2>4. Append(pre(n), s[n + 1]) \in T
      BY <2>1, <2>3
  <2> QED BY <2>1, <2>2, <2>4
<1>4. Len(s) \in C
  <2> HIDE DEF C
  <2>1. \A n \in 0 .. Len(s) : n < Len(s) /\ n \in C => n + 1 \in C
      BY <1>3
  <2>2. \A n \in 0 .. Len(s) : n \in C
      BY <1>1, <1>2, <2>1, CountUp, Zenon
  <2> QED BY <1>1, <2>2
<1>5. pre(Len(s)) = s
    OBVIOUS
<1> QED BY <1>4, <1>5

-----------------------------------------------------------------------------
(* What is chosen of a list *)

\* Only what the set says of the places of the list matters.
LEMMA ChosenAgree ==
    ASSUME NEW S, NEW s \in Seq(S), NEW I, NEW J, \A i \in 1 .. Len(s) : i \in I <=> i \in J
    PROVE  Chosen(s, I) = Chosen(s, J)
<1>1. PICK f : IsChoice(f, s, I, S)
    BY ChoiceExists
<1>2. IsChoice(f, s, J, S)
    BY <1>1 DEF IsChoice
<1> QED BY <1>1, <1>2, ChosenIsChoice

\* Where no place is among those asked for, nothing is chosen.
LEMMA ChosenNone ==
    ASSUME NEW S, NEW s \in Seq(S), NEW I, \A i \in 1 .. Len(s) : i \notin I
    PROVE  Chosen(s, I) = <<>>
<1> DEFINE f == [i \in 0 .. Len(s) |-> <<>>]
<1>1. Len(s) \in Nat /\ <<>> \in Seq(S)
    OBVIOUS
<1>2. f \in [0 .. Len(s) -> Seq(S)]
    BY <1>1
<1>3. f[0] = <<>> /\ f[Len(s)] = <<>>
    BY <1>1
<1>4. \A n \in 1 .. Len(s) : f[n] = f[n - 1] /\ n \notin I
    BY <1>1
<1> HIDE DEF f
<1>5. IsChoice(f, s, I, S)
    BY <1>2, <1>3, <1>4 DEF IsChoice
<1> QED BY <1>3, <1>5, ChosenIsChoice

\* Where every place is, the list is.
LEMMA ChosenAll ==
    ASSUME NEW S, NEW s \in Seq(S), NEW I, \A i \in 1 .. Len(s) : i \in I
    PROVE  Chosen(s, I) = s
<1> DEFINE f == [i \in 0 .. Len(s) |-> SubSeq(s, 1, i)]
<1>1. Len(s) \in Nat
    OBVIOUS
<1>2. f \in [0 .. Len(s) -> Seq(S)]
  <2>1. ASSUME NEW i \in 0 .. Len(s) PROVE SubSeq(s, 1, i) \in Seq(S)
      BY <1>1
  <2> QED BY <2>1
<1>3. f[0] = <<>> /\ f[Len(s)] = s
    BY <1>1
<1>4. ASSUME NEW n \in 1 .. Len(s) PROVE f[n] = Append(f[n - 1], s[n]) /\ n \in I
  <2>1. n - 1 \in 0 .. Len(s) /\ n \in 0 .. Len(s)
      BY <1>1
  <2>2. SubSeq(s, 1, n) = Append(SubSeq(s, 1, n - 1), s[n])
      BY <1>1
  <2> QED BY <2>1, <2>2
<1> HIDE DEF f
<1>5. IsChoice(f, s, I, S)
    BY <1>2, <1>3, <1>4 DEF IsChoice
<1> QED BY <1>3, <1>5, ChosenIsChoice

\* Equations between lists are named, for the provers to take them as one fact.
AppendsToSecond(a, b, e) == Append(a \o b, e) = a \o Append(b, e)

\* Appending to the second of two lists in a row: the code behaviour is push after extend.
LEMMA AppendToConcat ==
    ASSUME NEW S
    PROVE  \A a, b \in Seq(S), e \in S : AppendsToSecond(a, b, e)
BY DEF AppendsToSecond

\* Of two lists in a row, what is chosen of the first and then of the second.
ChosenOfBoth(a, b, I) ==
    Chosen(a \o b, I) = Chosen(a, I) \o Chosen(b, {k \in 1 .. Len(b) : Len(a) + k \in I})

\* Choosing goes over two lists in a row one after the other.
LEMMA ChosenOfConcat ==
    ASSUME NEW S, NEW a \in Seq(S), NEW b \in Seq(S), NEW I
    PROVE  ChosenOfBoth(a, b, I)
<1> SUFFICES Chosen(a \o b, I) =
                 Chosen(a, I) \o Chosen(b, {k \in 1 .. Len(b) : Len(a) + k \in I})
    BY DEF ChosenOfBoth
<1> DEFINE J(c) == {k \in 1 .. Len(c) : Len(a) + k \in I}
           T == {c \in Seq(S) : Chosen(a \o c, I) = Chosen(a, I) \o Chosen(c, J(c))}
<1>1. <<>> \in T
  <2>1. a \o <<>> = a /\ Chosen(<<>>, J(<<>>)) = <<>> /\ <<>> \in Seq(S)
      BY ChosenOfEmpty
  <2>2. Chosen(a, I) \o <<>> = Chosen(a, I)
      BY ChosenType
  <2> QED BY <2>1, <2>2
<1>2. ASSUME NEW c \in Seq(S), NEW e \in S, c \in T PROVE Append(c, e) \in T
  <2> DEFINE r == Append(c, e)
             K == {k \in 1 .. Len(r) : Len(a) + k \in I}
  <2>1. r \in Seq(S) /\ a \o c \in Seq(S) /\ Len(a \o c) = Len(a) + Len(c)
        /\ Len(r) = Len(c) + 1 /\ Len(a) \in Nat /\ Len(c) \in Nat
      OBVIOUS
  <2>2. a \o r = Append(a \o c, e)
      OBVIOUS
  <2>3. Chosen(Append(a \o c, e), I) =
            IF Len(a \o c) + 1 \in I THEN Append(Chosen(a \o c, I), e) ELSE Chosen(a \o c, I)
    <3> DEFINE q == a \o c
    <3>1. q \in Seq(S)
        BY <2>1
    <3> HIDE DEF q
    <3>2. Chosen(Append(q, e), I) =
              IF Len(q) + 1 \in I THEN Append(Chosen(q, I), e) ELSE Chosen(q, I)
        BY <3>1, ChosenOfAppend
    <3> QED BY <3>2 DEF q
  <2>4. Chosen(r, K) = IF Len(c) + 1 \in K THEN Append(Chosen(c, K), e) ELSE Chosen(c, K)
      BY ChosenOfAppend
  <2>5. Chosen(c, K) = Chosen(c, J(c))
    <3>1. \A i \in 1 .. Len(c) : i \in K <=> i \in J(c)
        BY <2>1
    <3> HIDE DEF K, J
    <3> QED BY <3>1, ChosenAgree
  <2>6. Len(c) + 1 \in K <=> Len(a \o c) + 1 \in I
      BY <2>1
  <2>7. Chosen(a, I) \in Seq(S) /\ Chosen(c, K) \in Seq(S)
      BY ChosenType
  <2>8. Chosen(a \o c, I) = Chosen(a, I) \o Chosen(c, K)
      BY <1>2, <2>5
  <2>9. Chosen(a \o r, I) = Chosen(a, I) \o Chosen(r, K)
    <3> HIDE DEF K, r
    <3>1. CASE Len(c) + 1 \in K
      <4>1. Chosen(r, K) = Append(Chosen(c, K), e)
          BY <3>1, <2>4
      <4>2. Chosen(a \o r, I) = Append(Chosen(a, I) \o Chosen(c, K), e)
          BY <3>1, <2>2, <2>3, <2>6, <2>8
      <4>3. Append(Chosen(a, I) \o Chosen(c, K), e) = Chosen(a, I) \o Append(Chosen(c, K), e)
        <5>1. AppendsToSecond(Chosen(a, I), Chosen(c, K), e)
            BY <2>7, AppendToConcat, Zenon
        <5> QED BY <5>1, Zenon DEF AppendsToSecond
      <4> QED BY <4>1, <4>2, <4>3
    <3>2. CASE Len(c) + 1 \notin K
        BY <3>2, <2>2, <2>3, <2>4, <2>6, <2>8
    <3> QED BY <3>1, <3>2
  <2>10. K = J(r)
      OBVIOUS
  <2> HIDE DEF r, K, J
  <2>11. r \in T
      BY <2>1, <2>9, <2>10
  <2> QED BY <2>11 DEF r
<1> HIDE DEF T
<1>3. b \in T
    BY <1>1, <1>2, ListInduction
<1> QED BY <1>3 DEF T

ChosenHas(s, I, x) ==
    (\E k \in 1 .. Len(Chosen(s, I)) : Chosen(s, I)[k] = x)
        <=> \E i \in 1 .. Len(s) : i \in I /\ s[i] = x

\* Each item that is chosen was at a place asked for, and each place asked for is chosen.
LEMMA ChosenMembers ==
    ASSUME NEW S, NEW s \in Seq(S), NEW I
    PROVE  \A x : ChosenHas(s, I, x)
<1> SUFFICES ASSUME NEW x
             PROVE  (\E k \in 1 .. Len(Chosen(s, I)) : Chosen(s, I)[k] = x)
                        <=> \E i \in 1 .. Len(s) : i \in I /\ s[i] = x
    BY DEF ChosenHas
<1> DEFINE In(c) == (\E k \in 1 .. Len(Chosen(c, I)) : Chosen(c, I)[k] = x)
                        <=> \E i \in 1 .. Len(c) : i \in I /\ c[i] = x
           T == {c \in Seq(S) : In(c)}
<1>1. <<>> \in T
    BY ChosenOfEmpty
<1>2. ASSUME NEW c \in Seq(S), NEW e \in S, c \in T PROVE Append(c, e) \in T
  <2> DEFINE r == Append(c, e)
             h == Chosen(c, I)
             g == Chosen(r, I)
  <2>1. r \in Seq(S) /\ Len(r) = Len(c) + 1 /\ Len(c) \in Nat /\ r[Len(c) + 1] = e
        /\ \A i \in 1 .. Len(c) : r[i] = c[i]
      OBVIOUS
  <2>2. h \in Seq(S)
      BY ChosenType
  <2>3. g = IF Len(c) + 1 \in I THEN Append(h, e) ELSE h
      BY ChosenOfAppend
  <2>4. (\E k \in 1 .. Len(h) : h[k] = x) <=> \E i \in 1 .. Len(c) : i \in I /\ c[i] = x
      BY <1>2
  <2>5. (\E i \in 1 .. Len(r) : i \in I /\ r[i] = x)
            <=> ((\E i \in 1 .. Len(c) : i \in I /\ c[i] = x) \/ (Len(c) + 1 \in I /\ e = x))
    <3> HIDE DEF r
    <3> QED BY <2>1
  <2>6. (\E k \in 1 .. Len(g) : g[k] = x)
            <=> ((\E k \in 1 .. Len(h) : h[k] = x) \/ (Len(c) + 1 \in I /\ e = x))
    <3> HIDE DEF g, h
    <3>1. CASE Len(c) + 1 \in I
      <4>1. g = Append(h, e)
          BY <2>3, <3>1
      <4>2. Len(g) = Len(h) + 1 /\ g[Len(h) + 1] = e /\ Len(h) \in Nat
            /\ \A k \in 1 .. Len(h) : g[k] = h[k]
          BY <2>2, <4>1
      <4> QED BY <3>1, <4>2
    <3>2. CASE Len(c) + 1 \notin I
        BY <2>3, <3>2
    <3> QED BY <3>1, <3>2
  <2> HIDE DEF h
  <2>7. (\E k \in 1 .. Len(g) : g[k] = x) <=> \E i \in 1 .. Len(r) : i \in I /\ r[i] = x
      BY <2>4, <2>5, <2>6
  <2> HIDE DEF r
  <2>8. r \in T
      BY <2>1, <2>7
  <2> QED BY <2>8 DEF r
<1> HIDE DEF T
<1>3. s \in T
    BY <1>1, <1>2, ListInduction
<1> QED BY <1>3 DEF T

\* Whatever is chosen stood at a place that was asked for.
LEMMA ChosenFrom ==
    ASSUME NEW S, NEW s \in Seq(S), NEW I, NEW k \in 1 .. Len(Chosen(s, I))
    PROVE  \E i \in 1 .. Len(s) : i \in I /\ s[i] = Chosen(s, I)[k]
<1>1. ChosenHas(s, I, Chosen(s, I)[k])
    BY ChosenMembers
<1> QED BY <1>1 DEF ChosenHas

\* Whatever stands at a place that is asked for is chosen.
LEMMA ChosenAt ==
    ASSUME NEW S, NEW s \in Seq(S), NEW I, NEW i \in 1 .. Len(s), i \in I
    PROVE  \E k \in 1 .. Len(Chosen(s, I)) : Chosen(s, I)[k] = s[i]
<1>1. ChosenHas(s, I, s[i])
    BY ChosenMembers
<1> QED BY <1>1 DEF ChosenHas

\* The first item that is chosen is at the first place asked for.
LEMMA ChosenFirst ==
    ASSUME NEW S, NEW s \in Seq(S), NEW I,
           NEW m \in 1 .. Len(s), m \in I, \A i \in 1 .. m - 1 : i \notin I
    PROVE  Chosen(s, I) # <<>> /\ Chosen(s, I)[1] = s[m]
<1> DEFINE T == {c \in Seq(S) : Len(c) >= m => Len(Chosen(c, I)) >= 1 /\ Chosen(c, I)[1] = c[m]}
<1>0. m \in Nat /\ m >= 1 /\ Len(s) \in Nat /\ Len(s) >= m
    OBVIOUS
<1>1. <<>> \in T
    BY <1>0
<1>2. ASSUME NEW c \in Seq(S), NEW e \in S, c \in T PROVE Append(c, e) \in T
  <2> DEFINE r == Append(c, e)
             h == Chosen(c, I)
             g == Chosen(r, I)
  <2>1. r \in Seq(S) /\ Len(r) = Len(c) + 1 /\ Len(c) \in Nat /\ r[Len(c) + 1] = e
        /\ \A i \in 1 .. Len(c) : r[i] = c[i]
      OBVIOUS
  <2>2. h \in Seq(S)
      BY ChosenType
  <2>3. g = IF Len(c) + 1 \in I THEN Append(h, e) ELSE h
      BY ChosenOfAppend
  <2>4. ASSUME Len(r) >= m PROVE Len(g) >= 1 /\ g[1] = r[m]
    <3>1. CASE Len(c) >= m
      <4>1. Len(h) >= 1 /\ h[1] = c[m] /\ r[m] = c[m]
          BY <1>0, <1>2, <2>1, <3>1
      <4> HIDE DEF h, g, r
      <4>2. Len(Append(h, e)) = Len(h) + 1 /\ Append(h, e)[1] = h[1]
          BY <2>2, <4>1
      <4> QED BY <2>2, <2>3, <4>1, <4>2
    <3>2. CASE ~ (Len(c) >= m)
      <4>1. m = Len(c) + 1
          BY <1>0, <2>1, <2>4, <3>2
      <4>2. \A i \in 1 .. Len(c) : i \notin I
          BY <2>1, <4>1
      <4>3. h = <<>>
          BY <4>2, ChosenNone
      <4> HIDE DEF h, g, r
      <4>4. g = Append(<<>>, e)
          BY <2>3, <4>1, <4>3
      <4> QED BY <2>1, <4>1, <4>4
    <3> QED BY <3>1, <3>2
  <2> HIDE DEF r, h
  <2>5. r \in T
      BY <2>1, <2>4
  <2> QED BY <2>5 DEF r
<1> HIDE DEF T
<1>3. s \in T
    BY <1>1, <1>2, ListInduction
<1> QED BY <1>0, <1>3 DEF T

\* How many items of a list are of one sort: of all of them, and of those at
\* some places.
CountIn(s, P) == Cardinality({k \in 1 .. Len(s) : s[k] \in P})
CountAt(s, I, P) == Cardinality({i \in 1 .. Len(s) : i \in I /\ s[i] \in P})

\* Counting the chosen items of a kind counts the places asked for that hold one.
LEMMA ChosenCount ==
    ASSUME NEW S, NEW s \in Seq(S), NEW I, NEW P
    PROVE  CountIn(Chosen(s, I), P) = CountAt(s, I, P)
<1> SUFFICES Cardinality({k \in 1 .. Len(Chosen(s, I)) : Chosen(s, I)[k] \in P})
                 = Cardinality({i \in 1 .. Len(s) : i \in I /\ s[i] \in P})
    BY DEF CountIn, CountAt
<1> DEFINE A(c) == {k \in 1 .. Len(Chosen(c, I)) : Chosen(c, I)[k] \in P}
           B(c) == {i \in 1 .. Len(c) : i \in I /\ c[i] \in P}
           T == {c \in Seq(S) : Cardinality(A(c)) = Cardinality(B(c))}
<1>1. <<>> \in T
  <2>1. A(<<>>) = {} /\ B(<<>>) = {} /\ <<>> \in Seq(S)
      BY ChosenOfEmpty
  <2> QED BY <2>1
<1>2. ASSUME NEW c \in Seq(S), NEW e \in S, c \in T PROVE Append(c, e) \in T
  <2> DEFINE r == Append(c, e)
             h == Chosen(c, I)
             g == Chosen(r, I)
  <2>1. r \in Seq(S) /\ Len(r) = Len(c) + 1 /\ Len(c) \in Nat /\ r[Len(c) + 1] = e
        /\ \A i \in 1 .. Len(c) : r[i] = c[i]
      OBVIOUS
  <2>2. h \in Seq(S) /\ Len(h) \in Nat
      BY ChosenType
  <2>3. g = IF Len(c) + 1 \in I THEN Append(h, e) ELSE h
      BY ChosenOfAppend
  <2>4. IsFiniteSet(A(c)) /\ IsFiniteSet(B(c)) /\ Len(h) + 1 \notin A(c) /\ Len(c) + 1 \notin B(c)
    <3>1. IsFiniteSet(1 .. Len(h)) /\ IsFiniteSet(1 .. Len(c))
        BY <2>1, <2>2, FS_Interval
    <3>2. A(c) \in SUBSET (1 .. Len(h)) /\ B(c) \in SUBSET (1 .. Len(c))
        OBVIOUS
    <3>3. IsFiniteSet(A(c)) /\ IsFiniteSet(B(c))
      <4> HIDE DEF A, B, h
      <4> QED BY <3>1, <3>2, FS_Subset
    <3>4. Len(h) + 1 \notin A(c) /\ Len(c) + 1 \notin B(c)
        BY <2>1, <2>2
    <3> QED BY <3>3, <3>4
  <2>5. Cardinality(A(c)) = Cardinality(B(c))
      BY <1>2
  <2>6. B(r) = IF Len(c) + 1 \in I /\ e \in P THEN B(c) \union {Len(c) + 1} ELSE B(c)
    <3> HIDE DEF r
    <3> QED BY <2>1
  <2>7. A(r) = IF Len(c) + 1 \in I /\ e \in P THEN A(c) \union {Len(h) + 1} ELSE A(c)
    <3>1. A(c) = {k \in 1 .. Len(h) : h[k] \in P} /\ A(r) = {k \in 1 .. Len(g) : g[k] \in P}
        OBVIOUS
    <3> HIDE DEF A, g, h, r
    <3>2. CASE Len(c) + 1 \in I
      <4>1. g = Append(h, e)
          BY <2>3, <3>2
      <4>2. Len(g) = Len(h) + 1 /\ g[Len(h) + 1] = e /\ Len(h) \in Nat
            /\ \A k \in 1 .. Len(h) : g[k] = h[k]
          BY <2>2, <4>1
      <4> QED BY <3>1, <3>2, <4>2
    <3>3. CASE Len(c) + 1 \notin I
        BY <2>3, <3>1, <3>3
    <3> QED BY <3>2, <3>3
  <2>8. Cardinality(A(r)) = Cardinality(B(r))
    <3> HIDE DEF A, B, h, r
    <3>1. CASE Len(c) + 1 \in I /\ e \in P
      <4>1. Cardinality(A(c) \union {Len(h) + 1}) = Cardinality(A(c)) + 1
          BY <2>4, FS_AddElement
      <4>2. Cardinality(B(c) \union {Len(c) + 1}) = Cardinality(B(c)) + 1
          BY <2>4, FS_AddElement
      <4> QED BY <2>5, <2>6, <2>7, <3>1, <4>1, <4>2
    <3>2. CASE ~ (Len(c) + 1 \in I /\ e \in P)
        BY <2>5, <2>6, <2>7, <3>2
    <3> QED BY <3>1, <3>2
  <2> HIDE DEF A, B, r
  <2>9. r \in T
      BY <2>1, <2>8
  <2> QED BY <2>9 DEF r
<1> HIDE DEF T
<1>3. s \in T
    BY <1>1, <1>2, ListInduction
<1> QED BY <1>3 DEF T

\* As many items are chosen as there are places asked for.
LEMMA ChosenLength ==
    ASSUME NEW S, NEW s \in Seq(S), NEW I
    PROVE  /\ Len(Chosen(s, I)) \in Nat
           /\ Len(Chosen(s, I)) = Cardinality({i \in 1 .. Len(s) : i \in I})
<1> DEFINE c == Chosen(s, I)
           A == {k \in 1 .. Len(c) : c[k] \in S}
           B == {i \in 1 .. Len(s) : i \in I /\ s[i] \in S}
<1>1. c \in Seq(S)
    BY ChosenType
<1>2. Cardinality(A) = Cardinality(B)
  <2>1. CountIn(c, S) = CountAt(s, I, S)
      BY ChosenCount
  <2> HIDE DEF c
  <2> QED BY <2>1 DEF CountIn, CountAt
<1> HIDE DEF c
<1>3. A = 1 .. Len(c) /\ Len(c) \in Nat
    BY <1>1
<1>4. B = {i \in 1 .. Len(s) : i \in I}
    OBVIOUS
<1>5. Cardinality(1 .. Len(c)) = Len(c)
  <2>1. \A k \in Nat : Cardinality(1 .. k) = k
    <3> SUFFICES ASSUME NEW k \in Nat PROVE Cardinality(1 .. k) = k
        OBVIOUS
    <3> QED BY FS_Interval
  <2> QED BY <1>3, <2>1
<1> HIDE DEF A, B
<1> QED BY <1>2, <1>3, <1>4, <1>5 DEF c

-----------------------------------------------------------------------------
(* Lists of lists *)

Joined(a, b) == a \o b

\* What extends an empty list is the list itself.
LEMMA JoinedToEmpty == ASSUME NEW S PROVE \A b \in Seq(S) : Joined(<<>>, b) = b
BY DEF Joined

\* Lists of one kind in a row are one.
LEMMA JoinedType == ASSUME NEW S PROVE \A a, b \in Seq(S) : Joined(a, b) \in Seq(S)
BY DEF Joined

\* The recursive function behind FlattenSeq, from an empty list on.
IsFlat(f, ss, S) ==
    /\ f \in [0 .. Len(ss) -> Seq(S)]
    /\ f[0] = <<>>
    /\ \A n \in 1 .. Len(ss) : f[n] = Joined(f[n - 1], ss[n])

\* What the list is flattened to is its last value: the code behaviour is
\* extend, once for each item.
LEMMA FlattenIsFlat ==
    ASSUME NEW S, NEW ss \in Seq(Seq(S)), NEW f, IsFlat(f, ss, S)
    PROVE  FlattenSeq(ss) = f[Len(ss)]
<1>0. Len(ss) \in Nat /\ \A i \in 1 .. Len(ss) : ss[i] \in Seq(S)
    OBVIOUS
<1>1. CASE Len(ss) = 0
  <2>1. ss = <<>>
      BY <1>1
  <2> QED BY <1>1, <2>1 DEF IsFlat, FlattenSeq
<1>2. CASE Len(ss) # 0
  <2> DEFINE n == Len(ss)
             flatten == CHOOSE g : g = [i \in 1 .. n |->
                            IF i = 1 THEN ss[i] ELSE Joined(g[i - 1], ss[i])]
             w == [i \in 1 .. n |-> f[i]]
  <2>0. f[0] = <<>> /\ \A i \in 1 .. n : f[i] = Joined(f[i - 1], ss[i])
      BY DEF IsFlat
  <2>1. w = [i \in 1 .. n |-> IF i = 1 THEN ss[i] ELSE Joined(w[i - 1], ss[i])]
    <3>1. ASSUME NEW i \in 1 .. n
          PROVE  f[i] = IF i = 1 THEN ss[i] ELSE Joined(w[i - 1], ss[i])
      <4>1. CASE i = 1
        <5>1. f[1] = Joined(<<>>, ss[1]) /\ ss[1] \in Seq(S)
            BY <1>0, <2>0, <4>1
        <5>2. Joined(<<>>, ss[1]) = ss[1]
            BY <5>1, JoinedToEmpty, Zenon
        <5> QED BY <4>1, <5>1, <5>2
      <4>2. CASE i # 1
        <5>1. i - 1 \in 1 .. n
            BY <1>0, <4>2
        <5>2. w[i - 1] = f[i - 1]
            BY <5>1
        <5> HIDE DEF w
        <5> QED BY <2>0, <4>2, <5>2
      <4> QED BY <4>1, <4>2
    <3> QED BY <3>1
  <2>2. flatten = [i \in 1 .. n |-> IF i = 1 THEN ss[i] ELSE Joined(flatten[i - 1], ss[i])]
    <3> HIDE DEF w
    <3> QED BY <2>1
  <2> HIDE DEF flatten
  <2> DEFINE T == {k \in 0 .. n : k # 0 => flatten[k] = f[k]}
  <2>3. 0 \in T
      BY <1>0
  <2>4. ASSUME NEW k \in 0 .. n, k < n, k \in T PROVE k + 1 \in T
    <3>0. k < n
        BY <2>4
    <3>1. k + 1 \in 1 .. n /\ k + 1 \in 0 .. n /\ (k + 1) - 1 = k
      <4> HIDE DEF T
      <4> QED BY <1>0, <3>0
    <3>2. flatten[k + 1] = IF k + 1 = 1 THEN ss[k + 1] ELSE Joined(flatten[k], ss[k + 1])
        BY <2>2, <3>1
    <3>3. f[k + 1] = Joined(f[k], ss[k + 1])
        BY <2>0, <3>1
    <3>4. CASE k = 0
      <4>1. flatten[1] = ss[1] /\ f[1] = Joined(<<>>, ss[1]) /\ ss[1] \in Seq(S)
          BY <1>0, <2>0, <3>1, <3>2, <3>3, <3>4
      <4>2. Joined(<<>>, ss[1]) = ss[1]
          BY <4>1, JoinedToEmpty, Zenon
      <4> QED BY <3>1, <3>4, <4>1, <4>2
    <3>5. CASE k # 0
      <4>1. flatten[k] = f[k] /\ k + 1 # 1
          BY <2>4, <3>5
      <4> QED BY <3>1, <3>2, <3>3, <4>1
    <3> QED BY <3>4, <3>5
  <2>5. n \in T
    <3> HIDE DEF T
    <3>1. \A k \in 0 .. n : k < n /\ k \in T => k + 1 \in T
        BY <2>4
    <3>2. \A k \in 0 .. n : k \in T
        BY <1>0, <2>3, <3>1, CountUp, Zenon
    <3> QED BY <1>0, <3>2
  <2>6. flatten[n] = f[n]
      BY <1>2, <2>5
  <2> QED BY <1>2, <2>6 DEF FlattenSeq, flatten, Joined
<1> QED BY <1>1, <1>2

\* There is such a function for every list of lists.
LEMMA FlatExists ==
    ASSUME NEW S, NEW ss \in Seq(Seq(S))
    PROVE  \E f : IsFlat(f, ss, S)
<1> DEFINE T == {c \in Seq(Seq(S)) : \E f : IsFlat(f, c, S)}
<1>1. <<>> \in T
  <2> DEFINE g == [i \in 0 .. 0 |-> <<>>]
  <2>1. g \in [0 .. 0 -> Seq(S)] /\ g[0] = <<>>
      OBVIOUS
  <2>2. Len(<<>>) = 0 /\ <<>> \in Seq(Seq(S))
      OBVIOUS
  <2> HIDE DEF g
  <2>3. IsFlat(g, <<>>, S)
      BY <2>1, <2>2 DEF IsFlat
  <2> QED BY <2>2, <2>3
<1>2. ASSUME NEW c \in Seq(Seq(S)), NEW e \in Seq(S), c \in T PROVE Append(c, e) \in T
  <2> DEFINE r == Append(c, e)
             n == Len(c)
  <2>1. r \in Seq(Seq(S)) /\ Len(r) = n + 1 /\ n \in Nat /\ r[n + 1] = e
        /\ \A i \in 1 .. n : r[i] = c[i]
      OBVIOUS
  <2>2. PICK f : IsFlat(f, c, S)
      BY <1>2
  <2>3. f \in [0 .. n -> Seq(S)] /\ f[0] = <<>>
        /\ \A k \in 1 .. n : f[k] = Joined(f[k - 1], c[k])
      BY <2>2 DEF IsFlat
  <2> DEFINE last == Joined(f[n], e)
             g == [i \in 0 .. n + 1 |-> IF i = n + 1 THEN last ELSE f[i]]
  <2> HIDE DEF r
  <2>4. last \in Seq(S)
    <3>1. n \in 0 .. n
        BY <2>1
    <3>2. f \in [0 .. n -> Seq(S)]
        BY <2>3
    <3>3. f[n] \in Seq(S)
        BY <3>1, <3>2, Zenon
    <3> QED BY <3>3, JoinedType, Zenon
  <2> HIDE DEF last
  <2>5. g \in [0 .. n + 1 -> Seq(S)] /\ g[0] = <<>> /\ g[n + 1] = last
      BY <2>1, <2>3, <2>4
  <2>6. ASSUME NEW k \in 1 .. n + 1 PROVE g[k] = Joined(g[k - 1], r[k])
    <3>1. CASE k = n + 1
      <4>1. g[k - 1] = f[n] /\ g[k] = last /\ r[k] = e
          BY <2>1, <3>1
      <4> QED BY <4>1 DEF last
    <3>2. CASE k # n + 1
      <4>1. k \in 1 .. n /\ g[k] = f[k] /\ g[k - 1] = f[k - 1] /\ r[k] = c[k]
          BY <2>1, <3>2
      <4> HIDE DEF g
      <4> QED BY <2>3, <4>1
    <3> QED BY <3>1, <3>2
  <2> HIDE DEF g
  <2>7. IsFlat(g, r, S)
      BY <2>1, <2>5, <2>6 DEF IsFlat
  <2>8. r \in T
      BY <2>1, <2>7
  <2> QED BY <2>8 DEF r
<1> HIDE DEF T
<1>3. ss \in T
    BY <1>1, <1>2, ListInduction
<1> QED BY <1>3 DEF T

\* Nothing joined is nothing.
LEMMA FlattenOfEmpty == FlattenSeq(<<>>) = <<>>
BY DEF FlattenSeq

\* Lists of items joined are a list of items.
LEMMA FlattenType ==
    ASSUME NEW S, NEW ss \in Seq(Seq(S))
    PROVE  FlattenSeq(ss) \in Seq(S)
<1>1. PICK f : IsFlat(f, ss, S)
    BY FlatExists
<1>2. FlattenSeq(ss) = f[Len(ss)]
    BY <1>1, FlattenIsFlat
<1>3. Len(ss) \in 0 .. Len(ss)
    OBVIOUS
<1> QED BY <1>1, <1>2, <1>3 DEF IsFlat

\* One list more goes to the end of what the others are flattened to.
LEMMA FlattenOfAppend ==
    ASSUME NEW S, NEW ss \in Seq(Seq(S)), NEW e \in Seq(S)
    PROVE  FlattenSeq(Append(ss, e)) = Joined(FlattenSeq(ss), e)
<1> DEFINE r == Append(ss, e)
           n == Len(ss)
<1>1. r \in Seq(Seq(S)) /\ Len(r) = n + 1 /\ n \in Nat /\ r[n + 1] = e
      /\ \A i \in 1 .. n : r[i] = ss[i]
    OBVIOUS
<1> HIDE DEF r
<1>2. PICK f : IsFlat(f, r, S)
    BY <1>1, FlatExists
<1>3. FlattenSeq(r) = f[n + 1]
    BY <1>1, <1>2, FlattenIsFlat
<1>4. f \in [0 .. n + 1 -> Seq(S)] /\ f[0] = <<>>
      /\ \A k \in 1 .. n + 1 : f[k] = Joined(f[k - 1], r[k])
    BY <1>1, <1>2 DEF IsFlat
<1> DEFINE g == [i \in 0 .. n |-> f[i]]
<1>5. IsFlat(g, ss, S)
  <2>1. g \in [0 .. n -> Seq(S)] /\ g[0] = <<>>
      BY <1>1, <1>4
  <2>2. ASSUME NEW k \in 1 .. n PROVE g[k] = Joined(g[k - 1], ss[k])
    <3>1. k \in 1 .. n + 1 /\ g[k] = f[k] /\ g[k - 1] = f[k - 1] /\ r[k] = ss[k]
        BY <1>1
    <3> HIDE DEF g
    <3> QED BY <1>4, <3>1
  <2> HIDE DEF g
  <2> QED BY <2>1, <2>2 DEF IsFlat
<1>6. FlattenSeq(ss) = g[n]
  <2> HIDE DEF g
  <2> QED BY <1>5, FlattenIsFlat
<1>7. g[n] = f[n] /\ f[n + 1] = Joined(f[n], e)
    BY <1>1, <1>4
<1> QED BY <1>3, <1>6, <1>7 DEF r

-----------------------------------------------------------------------------
(* Lists of whatever items *)

\* A sequence over any set is a list.
LEMMA SeqIsList == ASSUME NEW S PROVE \A x \in Seq(S) : IsList(x)
<1> SUFFICES ASSUME NEW x \in Seq(S) PROVE IsList(x)
    OBVIOUS
<1>1. Len(x) \in Nat /\ DOMAIN x = 1 .. Len(x) /\ \A i \in 1 .. Len(x) : x[i] \in Range(x)
    BY DEF Range
<1>2. x \in Seq(Range(x))
    BY <1>1
<1> QED BY <1>2 DEF IsList

\* Nothing is a list.
LEMMA EmptyIsList == IsList(<<>>)
<1>1. <<>> \in Seq({})
    OBVIOUS
<1> QED BY <1>1, SeqIsList, Zenon

\* A loop that gives one item for each position makes a list of that length.
LEMMA FunctionIsList ==
    ASSUME NEW n \in Nat, NEW f, f = [i \in 1 .. n |-> f[i]]
    PROVE  IsList(f) /\ Len(f) = n
<1>1. f \in Seq({f[i] : i \in 1 .. n}) /\ Len(f) = n
    OBVIOUS
<1> QED BY <1>1, SeqIsList, Zenon

\* A list with one more item is a list.
LEMMA AppendIsList ==
    ASSUME NEW x, IsList(x), NEW e
    PROVE  /\ IsList(Append(x, e)) /\ Len(Append(x, e)) = Len(x) + 1 /\ Len(x) \in Nat
           /\ Append(x, e)[Len(x) + 1] = e
           /\ \A i \in 1 .. Len(x) : Append(x, e)[i] = x[i]
<1>1. x \in Seq(Range(x) \union {e}) /\ e \in Range(x) \union {e}
    BY DEF IsList
<1> HIDE DEF IsList
<1>2. Append(x, e) \in Seq(Range(x) \union {e})
    BY <1>1
<1>3. IsList(Append(x, e))
    BY <1>2, SeqIsList, Zenon
<1> QED BY <1>1, <1>3

\* Two lists in a row, item by item.
IsJoin(z, x, y) ==
    /\ IsList(z) /\ Len(z) = Len(x) + Len(y)
    /\ Len(x) \in Nat /\ Len(y) \in Nat
    /\ \A i \in 1 .. Len(x) : z[i] = x[i]
    /\ \A i \in 1 .. Len(y) : z[Len(x) + i] = y[i]

\* Two lists joined are a list of the items of the first, then of the second.
LEMMA JoinedIsList ==
    ASSUME NEW x, IsList(x), NEW y, IsList(y)
    PROVE  IsJoin(Joined(x, y), x, y)
<1> DEFINE S == Range(x) \union Range(y)
<1>1. x \in Seq(S) /\ y \in Seq(S)
    BY DEF IsList
<1> HIDE DEF S
<1>2. Joined(x, y) \in Seq(S)
    BY <1>1, JoinedType, Zenon
<1>3. IsList(Joined(x, y))
    BY <1>2, SeqIsList, Zenon
<1> QED BY <1>1, <1>3 DEF Joined, IsJoin

\* What holds of the empty list and is kept by each list of a kind that is
\* added holds of all of them in a row: the code behaviour is a loop that extends its result.
LEMMA FlattenInvariant ==
    ASSUME NEW S, NEW E, E \subseteq Seq(S), NEW T, <<>> \in T,
           \A x \in Seq(S), e \in E : x \in T => Joined(x, e) \in T,
           NEW ss \in Seq(E)
    PROVE  FlattenSeq(ss) \in T
<1> DEFINE C == {c \in Seq(E) : FlattenSeq(c) \in T}
<1>1. <<>> \in C
    BY FlattenOfEmpty
<1>2. ASSUME NEW c \in Seq(E), NEW e \in E, c \in C PROVE Append(c, e) \in C
  <2>1. c \in Seq(Seq(S)) /\ e \in Seq(S) /\ Append(c, e) \in Seq(E)
      OBVIOUS
  <2>2. FlattenSeq(Append(c, e)) = Joined(FlattenSeq(c), e)
      BY <2>1, FlattenOfAppend
  <2>3. FlattenSeq(c) \in Seq(S)
      BY <2>1, FlattenType
  <2>4. FlattenSeq(c) \in T
      BY <1>2
  <2>5. Joined(FlattenSeq(c), e) \in T
      BY <2>3, <2>4, Zenon
  <2> QED BY <2>1, <2>2, <2>5
<1>3. ss \in C
  <2> HIDE DEF C
  <2> QED BY <1>1, <1>2, ListInduction
<1> QED BY <1>3

\* Lists of one item each give the list of those items.
LEMMA FlattenOfSingles ==
    ASSUME NEW S, NEW es \in Seq(S)
    PROVE  FlattenSeq([t \in 1 .. Len(es) |-> <<es[t]>>]) = es
<1> DEFINE singles(c) == [t \in 1 .. Len(c) |-> <<c[t]>>]
           T == {c \in Seq(S) : FlattenSeq(singles(c)) = c}
<1>1. <<>> \in T
  <2>1. singles(<<>>) = <<>> /\ <<>> \in Seq(S)
      OBVIOUS
  <2> HIDE DEF singles
  <2> QED BY <2>1, FlattenOfEmpty
<1>2. ASSUME NEW c \in Seq(S), NEW e \in S, c \in T PROVE Append(c, e) \in T
  <2> DEFINE r == Append(c, e)
  <2>1. r \in Seq(S) /\ Len(r) = Len(c) + 1 /\ Len(c) \in Nat /\ r[Len(c) + 1] = e
        /\ \A i \in 1 .. Len(c) : r[i] = c[i]
      OBVIOUS
  <2>2. singles(c) \in Seq(Seq(S)) /\ Len(singles(c)) = Len(c) /\ <<e>> \in Seq(S)
    <3>1. \A i \in 1 .. Len(c) : c[i] \in S
        OBVIOUS
    <3>2. \A x \in S : <<x>> \in Seq(S)
        OBVIOUS
    <3> QED BY <2>1, <3>1, <3>2
  <2>3. singles(r) = Append(singles(c), <<e>>)
    <3> HIDE DEF r
    <3> QED BY <2>1
  <2> HIDE DEF singles
  <2>4. FlattenSeq(singles(r)) = Joined(FlattenSeq(singles(c)), <<e>>)
      BY <2>2, <2>3, FlattenOfAppend
  <2>5. FlattenSeq(singles(c)) = c
      BY <1>2
  <2>6. Joined(c, <<e>>) = r
      BY DEF Joined
  <2> HIDE DEF r
  <2>7. r \in T
      BY <2>1, <2>4, <2>5, <2>6
  <2> QED BY <2>7 DEF r
<1>3. es \in T
  <2> HIDE DEF T
  <2> QED BY <1>1, <1>2, ListInduction
<1> QED BY <1>3

-----------------------------------------------------------------------------
(* The places of lists in a flattened one *)

\* Where each list begins in a flattened one.
FlatAt(flat, f, ss) ==
    /\ Len(flat) = f[Len(ss)]
    /\ \A i \in 1..Len(ss) : \A j \in 1..Len(ss[i]) : flat[f[i - 1] + j] = ss[i][j]

Lengths(ss) == [i \in 1..Len(ss) |-> Len(ss[i])]

\* A place in the next part lies within what the parts together take.
LEMMA PlaceWithin ==
    ASSUME NEW a \in Nat, NEW b \in Nat, NEW c \in Nat, NEW n \in Nat, NEW j \in 1..n,
           b = a + n, b <= c
    PROVE  a + j \in 1..c
OBVIOUS

\* A flattened list has the items of each list after those of the lists before
\* it: the code behaviour is a loop that writes back one sample after another.
LEMMA FlattenPlaces ==
    ASSUME NEW S, NEW ss \in Seq(Seq(S)), NEW f, IsSum(f, Lengths(ss), Len(ss))
    PROVE  FlatAt(FlattenSeq(ss), f, ss)
<1>0. Len(ss) \in Nat /\ \A i \in 1..Len(ss) : ss[i] \in Seq(S) /\ Len(ss[i]) \in Nat
  OBVIOUS
<1>1. PICK g : IsFlat(g, ss, S)
  BY FlatExists
<1>2. FlattenSeq(ss) = g[Len(ss)]
  BY <1>1, FlattenIsFlat
<1> DEFINE At(k, i) == \A j \in 1..Len(ss[i]) : g[k][f[i - 1] + j] = ss[i][j]
           T == {k \in 0..Len(ss) : Len(g[k]) = f[k] /\ \A i \in 1..k : At(k, i)}
<1>3. 0 \in T
  <2>1. g[0] = <<>> /\ f[0] = 0
    BY <1>1 DEF IsFlat, IsSum
  <2> QED BY <1>0, <2>1
<1>4. ASSUME NEW k \in 0..Len(ss), k < Len(ss), k \in T PROVE k + 1 \in T
  <2>1. k + 1 \in 1..Len(ss) /\ (k + 1) - 1 = k /\ k + 1 \in 0..Len(ss) /\ k \in Nat
    <3> DEFINE n == Len(ss)
    <3>1. n \in Nat /\ k \in 0..n /\ k < n
      BY <1>0, <1>4
    <3> HIDE DEF n, T
    <3>2. k + 1 \in 1..n /\ (k + 1) - 1 = k /\ k + 1 \in 0..n /\ k \in Nat
      BY <3>1
    <3> QED BY <3>2 DEF n
  <2>2. g[k + 1] = Joined(g[k], ss[k + 1]) /\ g[k] \in Seq(S)
    BY <1>1, <2>1 DEF IsFlat
  <2>3. ss[k + 1] \in Seq(S) /\ Len(ss[k + 1]) \in Nat
    BY <1>0, <2>1
  <2>4. f[k + 1] = f[k] + Len(ss[k + 1]) /\ f[k] \in Nat
    BY <2>1 DEF IsSum, Lengths
  <2>5. Len(g[k]) = f[k] /\ \A i \in 1..k : At(k, i)
    BY <1>4
  <2>6. IsJoin(g[k + 1], g[k], ss[k + 1])
    BY <2>2, <2>3, SeqIsList, JoinedIsList
  <2>7. Len(g[k + 1]) = f[k + 1]
    BY <2>4, <2>5, <2>6 DEF IsJoin
  <2>8. ASSUME NEW i \in 1..(k + 1) PROVE At(k + 1, i)
    <3>1. CASE i = k + 1
      BY <2>1, <2>5, <2>6, <3>1 DEF IsJoin
    <3>2. CASE i # k + 1
      <4>1. i \in 1..k /\ i \in 1..Len(ss)
        BY <2>1, <2>8, <3>2
      <4>2. ASSUME NEW j \in 1..Len(ss[i]) PROVE g[k + 1][f[i - 1] + j] = ss[i][j]
        <5>1. i \in 1..Len(ss) /\ i - 1 \in 0..Len(ss) /\ i \in 0..Len(ss) /\ i <= k
          BY <1>0, <2>1, <4>1
        <5>2. f[i] = f[i - 1] + Len(ss[i]) /\ f[i - 1] \in Nat /\ f[i] \in Nat
          BY <5>1 DEF IsSum, Lengths
        <5>3. f[i] <= f[k]
          <6>1. \A x \in 1..Len(ss) : Lengths(ss)[x] \in Nat
            BY <1>0 DEF Lengths
          <6> QED BY <1>0, <5>1, <6>1, SumMonotone
        <5>4. f[i - 1] + j \in 1..Len(g[k])
          <6>1. Len(g[k]) = f[k] /\ f[k] \in Nat
            BY <2>4, <2>5, Zenon
          <6>2. Len(ss[i]) \in Nat /\ j \in 1..Len(ss[i])
            BY <1>0, <4>1
          <6>3. f[i - 1] \in Nat /\ f[i] \in Nat /\ f[i] = f[i - 1] + Len(ss[i])
            BY <5>2, Zenon
          <6>4. f[i - 1] + j \in 1..f[k]
            BY <5>3, <6>1, <6>2, <6>3, PlaceWithin, Zenon
          <6> QED BY <6>1, <6>4, Zenon
        <5>5. g[k + 1][f[i - 1] + j] = g[k][f[i - 1] + j]
          BY <2>6, <5>4 DEF IsJoin
        <5> QED BY <2>5, <4>1, <5>5
      <4> QED BY <4>2
    <3> QED BY <3>1, <3>2
  <2> QED BY <2>1, <2>7, <2>8
<1>5. Len(ss) \in T
  <2> HIDE DEF T
  <2>1. \A k \in 0..Len(ss) : k < Len(ss) /\ k \in T => k + 1 \in T
    BY <1>4
  <2>2. \A k \in 0..Len(ss) : k \in T
    BY <1>0, <1>3, <2>1, CountUp, Zenon
  <2> QED BY <1>0, <2>2
<1>6. Len(g[Len(ss)]) = f[Len(ss)] /\ \A i \in 1..Len(ss) : At(Len(ss), i)
  BY <1>5
<1> QED BY <1>2, <1>6 DEF FlatAt

\* Every place up to a sum lies in the part of one summand: a byte of an mdat is
\* a byte of one sample, a segment of a timeline is one that an S stands for.
LEMMA SumPlace ==
    ASSUME NEW n \in Nat, NEW d, NEW f, IsSum(f, d, n), \A i \in 1..n : d[i] \in Nat,
           NEW m \in 1..f[n]
    PROVE  \E i \in 1..n : f[i - 1] < m /\ m <= f[i] /\ m - f[i - 1] \in 1..d[i]
<1> DEFINE Reached == {i \in 0..n : m <= f[i]}
<1>1. \A i \in 0..n : f[i] \in Nat
  BY DEF IsSum
<1>2. n \in Reached /\ Reached \subseteq Nat
  BY <1>1
<1>3. PICK i \in Reached : \A k \in Reached : i <= k
  <2> HIDE DEF Reached
  <2> QED BY <1>2, LeastNatural
<1>4. i \in 0..n /\ m <= f[i]
  OBVIOUS
<1>5. i # 0
  BY <1>4 DEF IsSum
<1>6. i \in 1..n /\ i - 1 \in 0..n /\ ~ (i <= i - 1)
  BY <1>4, <1>5
<1>7. i - 1 \notin Reached
  BY <1>3, <1>6
<1>8. f[i - 1] < m
  BY <1>1, <1>6, <1>7
<1>9. f[i] = f[i - 1] + d[i]
  BY <1>6 DEF IsSum
<1>10. f[i] \in Nat /\ f[i - 1] \in Nat /\ m \in Nat
  BY <1>1, <1>4, <1>6
<1>11. d[i] \in Nat
  BY <1>6
<1>12. m - f[i - 1] \in 1..d[i]
  BY <1>4, <1>8, <1>9, <1>10, <1>11
<1> QED BY <1>4, <1>6, <1>8, <1>12

=============================================================================
