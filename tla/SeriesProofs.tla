----------------------------- MODULE SeriesProofs -----------------------------
(***************************************************************************)
(* Theorems about BalanceSeries, for any rows, readings, widths, windows   *)
(* and budgets, and histories of any length.                               *)
(***************************************************************************)
EXTENDS BalanceSeries, FiniteSetTheorems, SequenceTheorems, TLAPS

-----------------------------------------------------------------------------
(* Recursion.  Well-ordering and definition by recursion are stated of sets *)
(* and functions, since the provers cannot instantiate an operator.         *)

\* A set of natural numbers has a least one: the intervals up to its members
\* are finite sets, and strict inclusion of finite sets is well-founded.
LEMMA LeastNatural ==
    ASSUME NEW T \in SUBSET Nat, T # {}
    PROVE  \E n \in T : \A m \in T : n <= m
<1> DEFINE Below == {0 .. n : n \in T}
           R == StrictSubsetOrdering(Nat)
<1>1. \A n \in Nat : 0 .. n \in FiniteSubsetsOf(Nat)
  <2> SUFFICES ASSUME NEW n \in Nat PROVE IsFiniteSet(0 .. n) /\ 0 .. n \in SUBSET Nat
    BY DEF FiniteSubsetsOf
  <2> QED BY FS_Interval
<1>2. IsWellFoundedOn(R, FiniteSubsetsOf(Nat)) /\ Below \subseteq FiniteSubsetsOf(Nat) /\ Below # {}
  BY <1>1, FS_StrictSubsetOrderingWellFounded
<1>3. \E x \in Below : \A y \in Below : ~ (<<y, x>> \in R)
  <2> HIDE DEF Below, R
  <2> QED BY <1>2, WFMin
<1>4. PICK n \in T : \A m \in T : ~ (<<0 .. m, 0 .. n>> \in R)
  BY <1>3
<1>5. ASSUME NEW m \in T, m < n PROVE FALSE
  <2>1. 0 .. m \subseteq 0 .. n /\ n \in 0 .. n /\ n \notin 0 .. m
    BY <1>5
  <2>2. <<0 .. m, 0 .. n>> \in R
    BY <2>1, <1>1 DEF StrictSubsetOrdering, FiniteSubsetsOf
  <2> QED BY <2>2, <1>4
<1>6. \A m \in T : n <= m
  BY <1>5
<1> QED BY <1>6

\* A set that has 0, and the successor of each of its numbers below m, has all
\* numbers up to m.
LEMMA UpTo ==
    ASSUME NEW m \in Nat, NEW S, 0 \in S, \A n \in 0 .. m - 1 : n \in S => n + 1 \in S
    PROVE  \A n \in 0 .. m : n \in S
<1> DEFINE Bad == (0 .. m) \ S
<1> SUFFICES ASSUME Bad # {} PROVE FALSE
  OBVIOUS
<1>1. PICK x \in Bad : \A y \in Bad : x <= y
  <2>1. Bad \in SUBSET Nat
    OBVIOUS
  <2> HIDE DEF Bad
  <2> QED BY <2>1, LeastNatural
<1>2. x # 0 /\ x - 1 \in 0 .. m - 1 /\ x - 1 \notin Bad
  BY <1>1
<1>3. x - 1 \in S /\ (x - 1) + 1 = x
  BY <1>2
<1>4. x \in S
  BY <1>2, <1>3
<1> QED BY <1>1, <1>4

\* The function that m steps make, from a start.
Unrolled(f, m, V, base, step) ==
    f \in [0 .. m -> V] /\ f[0] = base /\ \A n \in 1 .. m : f[n] = step[n][f[n - 1]]

\* There is one, however many steps there are.
LEMMA Recursion ==
    ASSUME NEW m \in Nat, NEW V, NEW base \in V, NEW step \in [1 .. m -> [V -> V]]
    PROVE  \E f : Unrolled(f, m, V, base, step)
<1> DEFINE Good(k, f) == Unrolled(f, k, V, base, step)
           S == {k \in 0 .. m : \E f : Good(k, f)}
<1>1. 0 \in S
  <2>1. Good(0, [n \in 0 .. 0 |-> base])
    BY DEF Unrolled
  <2> HIDE DEF Good
  <2>2. \E f : Good(0, f)
    BY <2>1
  <2> QED BY <2>2
<1>2. ASSUME NEW k \in 0 .. m - 1, k \in S PROVE k + 1 \in S
  <2>1. PICK f : Good(k, f)
    BY <1>2
  <2> DEFINE g == [n \in 0 .. k + 1 |-> IF n = k + 1 THEN step[k + 1][f[k]] ELSE f[n]]
  <2>2. f[k] \in V /\ k + 1 \in 1 .. m
    BY <2>1 DEF Unrolled
  <2>3. g \in [0 .. k + 1 -> V]
    BY <2>1, <2>2 DEF Unrolled
  <2>4. g[0] = base /\ \A n \in 0 .. k : g[n] = f[n]
    BY <2>1 DEF Unrolled
  <2>5. ASSUME NEW n \in 1 .. k + 1 PROVE g[n] = step[n][g[n - 1]]
    <3>1. CASE n = k + 1
      <4>1. g[n] = step[k + 1][f[k]] /\ n - 1 = k
        BY <3>1
      <4>2. g[k] = f[k]
        BY <2>4
      <4> HIDE DEF g
      <4> QED BY <3>1, <4>1, <4>2
    <3>2. CASE n \in 1 .. k
      BY <3>2, <2>1, <2>4 DEF Unrolled
    <3> QED BY <3>1, <3>2
  <2>6. Good(k + 1, g)
    <3> HIDE DEF g
    <3> QED BY <2>3, <2>4, <2>5 DEF Unrolled
  <2> HIDE DEF g, Good
  <2> QED BY <2>2, <2>6
<1>3. \A n \in 0 .. m : n \in S
  <2> HIDE DEF S
  <2> QED BY <1>1, <1>2, UpTo
<1>4. m \in S
  BY <1>3
<1> QED BY <1>4

-----------------------------------------------------------------------------
(* Filters and sums *)

\* What Keep does to a sequence, one element at a time.
Keeping(f, s, T) ==
    /\ f[0] = << >> /\ f[Len(s)] = Keep(s, T)
    /\ \A n \in 1 .. Len(s) : f[n] = IF s[n] \in T THEN Append(f[n - 1], s[n]) ELSE f[n - 1]

LEMMA KeepSteps ==
    ASSUME NEW V, NEW s \in Seq(V), NEW T
    PROVE  \E f \in [0 .. Len(s) -> Seq(V)] : Keeping(f, s, T)
<1> DEFINE Body(f) == [n \in 0 .. Len(s) |->
               IF n = 0 THEN << >> ELSE IF s[n] \in T THEN Append(f[n - 1], s[n]) ELSE f[n - 1]]
           step == [n \in 1 .. Len(s) |-> [x \in Seq(V) |-> IF s[n] \in T THEN Append(x, s[n]) ELSE x]]
           kept == CHOOSE f : f = Body(f)
<1>0. Len(s) \in Nat /\ \A n \in 1 .. Len(s) : s[n] \in V
  OBVIOUS
<1>1. step \in [1 .. Len(s) -> [Seq(V) -> Seq(V)]]
  BY <1>0
<1>2. PICK g : Unrolled(g, Len(s), Seq(V), << >>, step)
  <2> HIDE DEF step
  <2>1. << >> \in Seq(V)
    OBVIOUS
  <2> QED BY <1>0, <1>1, <2>1, Recursion
<1>3. ASSUME NEW n \in 1 .. Len(s)
      PROVE  g[n] = IF s[n] \in T THEN Append(g[n - 1], s[n]) ELSE g[n - 1]
  <2>0. n - 1 \in 0 .. Len(s)
    BY <1>0
  <2>1. g[n - 1] \in Seq(V)
    BY <1>2, <2>0, Zenon DEF Unrolled
  <2>2. step[n][g[n - 1]] = IF s[n] \in T THEN Append(g[n - 1], s[n]) ELSE g[n - 1]
    BY <2>1, Zenon
  <2> QED BY <1>2, <2>2 DEF Unrolled
<1>4. g = Body(g)
  <2>1. ASSUME NEW n \in 0 .. Len(s)
        PROVE  g[n] = IF n = 0 THEN << >> ELSE IF s[n] \in T THEN Append(g[n - 1], s[n]) ELSE g[n - 1]
    <3>1. CASE n = 0
      BY <1>2, <3>1, Zenon DEF Unrolled
    <3>2. CASE n # 0
      <4>1. n \in 1 .. Len(s)
        BY <1>0, <3>2
      <4> QED BY <1>3, <3>2, <4>1, Zenon
    <3> QED BY <3>1, <3>2
  <2>2. g = [n \in 0 .. Len(s) |-> g[n]]
    BY <1>2, Zenon DEF Unrolled
  <2> QED BY <2>1, <2>2, Zenon
<1>5. kept = Body(kept)
  <2> HIDE DEF Body
  <2> QED BY <1>4
<1>6. Keep(s, T) = kept[Len(s)]
  BY DEF Keep
<1>7. kept[0] = << >> /\ \A n \in 1 .. Len(s) : kept[n] = IF s[n] \in T THEN Append(kept[n - 1], s[n]) ELSE kept[n - 1]
  <2> HIDE DEF kept
  <2>1. \A n \in 0 .. Len(s) : kept[n] =
           IF n = 0 THEN << >> ELSE IF s[n] \in T THEN Append(kept[n - 1], s[n]) ELSE kept[n - 1]
    BY <1>5, Zenon
  <2> QED BY <1>0, <2>1
<1>8. kept \in [0 .. Len(s) -> Seq(V)]
  <2> DEFINE S == {n \in 0 .. Len(s) : kept[n] \in Seq(V)}
  <2> HIDE DEF kept
  <2>1. 0 \in S
    <3>1. << >> \in Seq(V)
      OBVIOUS
    <3>2. 0 \in 0 .. Len(s)
      BY <1>0
    <3> QED BY <1>7, <3>1, <3>2, Zenon
  <2>2. ASSUME NEW n \in 0 .. Len(s) - 1, n \in S PROVE n + 1 \in S
    <3>1. n + 1 \in 1 .. Len(s) /\ (n + 1) - 1 = n /\ kept[n] \in Seq(V) /\ s[n + 1] \in V
      BY <1>0, <2>2
    <3>2. kept[n + 1] = IF s[n + 1] \in T THEN Append(kept[n], s[n + 1]) ELSE kept[n]
      BY <1>7, <3>1
    <3>3. Append(kept[n], s[n + 1]) \in Seq(V)
      BY <3>1
    <3>4. kept[n + 1] \in Seq(V) /\ n + 1 \in 0 .. Len(s)
      BY <1>0, <3>1, <3>2, <3>3
    <3> QED BY <3>4, Zenon
  <2>3. \A n \in 0 .. Len(s) : n \in S
    <3> HIDE DEF S
    <3> QED BY <1>0, <2>1, <2>2, UpTo
  <2>4. kept = [n \in 0 .. Len(s) |-> kept[n]]
    BY <1>5
  <2> QED BY <2>3, <2>4
<1> HIDE DEF kept
<1> QED BY <1>6, <1>7, <1>8 DEF Keeping

\* What Sum does to rows, one at a time.
Adding(f, s) ==
    /\ f[0] = 0 /\ f[Len(s)] = Sum(s)
    /\ \A n \in 1 .. Len(s) : f[n] = f[n - 1] + s[n].amt

LEMMA SumSteps ==
    ASSUME NEW s, Len(s) \in Nat, \A n \in 1 .. Len(s) : s[n].amt \in Int
    PROVE  \E f \in [0 .. Len(s) -> Int] : Adding(f, s)
<1> DEFINE Body(f) == [n \in 0 .. Len(s) |-> IF n = 0 THEN 0 ELSE f[n - 1] + s[n].amt]
           step == [n \in 1 .. Len(s) |-> [x \in Int |-> x + s[n].amt]]
           total == CHOOSE f : f = Body(f)
<1>1. step \in [1 .. Len(s) -> [Int -> Int]]
  OBVIOUS
<1>2. PICK g : Unrolled(g, Len(s), Int, 0, step)
  <2> HIDE DEF step
  <2>1. 0 \in Int
    OBVIOUS
  <2> QED BY <1>1, <2>1, Recursion, Zenon
<1>3. ASSUME NEW n \in 1 .. Len(s) PROVE g[n] = g[n - 1] + s[n].amt
  <2>1. g[n - 1] \in Int
    BY <1>2 DEF Unrolled
  <2>2. step[n][g[n - 1]] = g[n - 1] + s[n].amt
    BY <2>1, Zenon
  <2> QED BY <1>2, <2>2 DEF Unrolled
<1>4. g = Body(g)
  BY <1>2, <1>3 DEF Unrolled
<1>5. total = Body(total)
  <2> HIDE DEF Body
  <2> QED BY <1>4
<1>6. Sum(s) = total[Len(s)]
  BY DEF Sum
<1>7. total[0] = 0 /\ \A n \in 1 .. Len(s) : total[n] = total[n - 1] + s[n].amt
  <2> HIDE DEF total
  <2>1. \A n \in 0 .. Len(s) : total[n] = IF n = 0 THEN 0 ELSE total[n - 1] + s[n].amt
    BY <1>5, Zenon
  <2> QED BY <2>1
<1>8. total \in [0 .. Len(s) -> Int]
  <2> DEFINE S == {n \in 0 .. Len(s) : total[n] \in Int}
  <2> HIDE DEF total
  <2>1. 0 \in S
    BY <1>7
  <2>2. ASSUME NEW n \in 0 .. Len(s) - 1, n \in S PROVE n + 1 \in S
    <3>1. n + 1 \in 1 .. Len(s) /\ (n + 1) - 1 = n /\ total[n] \in Int
      BY <2>2
    <3>2. total[n + 1] = total[n] + s[n + 1].amt
      BY <1>7, <3>1
    <3> QED BY <3>1, <3>2
  <2>3. \A n \in 0 .. Len(s) : n \in S
    <3> HIDE DEF S
    <3> QED BY <2>1, <2>2, UpTo
  <2>4. total = [n \in 0 .. Len(s) |-> total[n]]
    BY <1>5
  <2> QED BY <2>3, <2>4
<1> HIDE DEF total
<1> QED BY <1>6, <1>7, <1>8 DEF Adding

\* k is what is left of the first m elements of s when only those in T are
\* kept; at says which they are.
Picks(k, s, T, m, at) ==
    /\ at \in [1 .. Len(k) -> 1 .. m]
    /\ \A j \in 1 .. Len(k) : k[j] = s[at[j]] /\ k[j] \in T
    /\ \A i, j \in 1 .. Len(k) : i < j => at[i] < at[j]
    /\ \A n \in 1 .. m : s[n] \in T => \E j \in 1 .. Len(k) : at[j] = n

\* One more element, which is kept.
LEMMA PickOne ==
    ASSUME NEW V, NEW s \in Seq(V), NEW T, NEW n \in Nat, n + 1 <= Len(s), s[n + 1] \in T,
           NEW k \in Seq(V), NEW at, Picks(k, s, T, n, at)
    PROVE  \E b : Picks(Append(k, s[n + 1]), s, T, n + 1, b)
<1> DEFINE a == Append(k, s[n + 1])
           b == [j \in 1 .. Len(k) + 1 |-> IF j = Len(k) + 1 THEN n + 1 ELSE at[j]]
<1>1. /\ a \in Seq(V) /\ Len(a) = Len(k) + 1 /\ a[Len(k) + 1] = s[n + 1] /\ Len(k) \in Nat
      /\ \A j \in 1 .. Len(k) : a[j] = k[j]
  OBVIOUS
<1>2. b[Len(k) + 1] = n + 1 /\ \A j \in 1 .. Len(k) : b[j] = at[j] /\ at[j] \in 1 .. n
  <2>1. at \in [1 .. Len(k) -> 1 .. n]
    BY DEF Picks
  <2>2. Len(k) \in Nat
    OBVIOUS
  <2> QED BY <2>1, <2>2
<1>3. b \in [1 .. Len(a) -> 1 .. n + 1]
  <2>1. ASSUME NEW j \in 1 .. Len(k) + 1 PROVE b[j] \in 1 .. n + 1
    <3> HIDE DEF b
    <3>1. j = Len(k) + 1 \/ j \in 1 .. Len(k)
      BY <1>1
    <3> QED BY <1>2, <3>1
  <2>2. b = [j \in 1 .. Len(k) + 1 |-> b[j]]
    OBVIOUS
  <2> HIDE DEF b
  <2> QED BY <1>1, <2>1, <2>2
<1> HIDE DEF a, b
<1>4. ASSUME NEW j \in 1 .. Len(a) PROVE a[j] = s[b[j]] /\ a[j] \in T
  <2>1. CASE j = Len(k) + 1
    BY <1>1, <1>2, <2>1
  <2>2. CASE j \in 1 .. Len(k)
    BY <1>1, <1>2, <2>2 DEF Picks
  <2> QED BY <1>1, <2>1, <2>2
<1>5. ASSUME NEW i \in 1 .. Len(a), NEW j \in 1 .. Len(a), i < j PROVE b[i] < b[j]
  <2>1. i \in 1 .. Len(k)
    BY <1>1, <1>5
  <2>2. CASE j = Len(k) + 1
    BY <1>2, <2>1, <2>2
  <2>3. CASE j \in 1 .. Len(k)
    BY <1>2, <1>5, <2>1, <2>3 DEF Picks
  <2> QED BY <1>1, <2>2, <2>3
<1>6. ASSUME NEW i \in 1 .. n + 1, s[i] \in T PROVE \E j \in 1 .. Len(a) : b[j] = i
  <2>1. CASE i = n + 1
    BY <1>1, <1>2, <2>1
  <2>2. CASE i \in 1 .. n
    <3>1. PICK j \in 1 .. Len(k) : at[j] = i
      BY <1>6, <2>2 DEF Picks
    <3> QED BY <1>1, <1>2, <3>1
  <2> QED BY <2>1, <2>2
<1>7. Picks(a, s, T, n + 1, b)
  BY <1>3, <1>4, <1>5, <1>6 DEF Picks
<1> QED BY <1>7 DEF a

\* One more element, which is not.
LEMMA PickNone ==
    ASSUME NEW V, NEW s \in Seq(V), NEW T, NEW n \in Nat, n + 1 <= Len(s), s[n + 1] \notin T,
           NEW k \in Seq(V), NEW at
    PROVE  Picks(k, s, T, n, at) <=> Picks(k, s, T, n + 1, at)
<1>0. Len(k) \in Nat
  OBVIOUS
<1>1. ASSUME Picks(k, s, T, n, at) PROVE Picks(k, s, T, n + 1, at)
  <2>1. at \in [1 .. Len(k) -> 1 .. n + 1]
    BY <1>0, <1>1 DEF Picks
  <2>2. \A i \in 1 .. n + 1 : s[i] \in T => i \in 1 .. n
    OBVIOUS
  <2> QED BY <1>1, <2>1, <2>2 DEF Picks
<1>2. ASSUME Picks(k, s, T, n + 1, at) PROVE Picks(k, s, T, n, at)
  <2>1. \A j \in 1 .. Len(k) : at[j] \in 1 .. n + 1 /\ at[j] # n + 1
    BY <1>2 DEF Picks
  <2>2. at \in [1 .. Len(k) -> 1 .. n]
    BY <1>2, <2>1 DEF Picks
  <2>3. \A i \in 1 .. n : i \in 1 .. n + 1
    OBVIOUS
  <2> QED BY <1>2, <2>2, <2>3 DEF Picks
<1> QED BY <1>1, <1>2

\* What Keep leaves, it leaves in order, and it leaves all that is in T.
LEMMA KeepPicks ==
    ASSUME NEW V, NEW s \in Seq(V), NEW T
    PROVE  /\ Keep(s, T) \in Seq(V)
           /\ \E at : Picks(Keep(s, T), s, T, Len(s), at)
<1>0. Len(s) \in Nat
  OBVIOUS
<1>k. PICK f \in [0 .. Len(s) -> Seq(V)] : Keeping(f, s, T)
  BY KeepSteps, Zenon
<1>1. /\ f \in [0 .. Len(s) -> Seq(V)] /\ f[0] = << >> /\ f[Len(s)] = Keep(s, T)
      /\ \A n \in 1 .. Len(s) : f[n] = IF s[n] \in T THEN Append(f[n - 1], s[n]) ELSE f[n - 1]
  BY <1>k, Zenon DEF Keeping
<1> DEFINE S == {n \in 0 .. Len(s) : \E at : Picks(f[n], s, T, n, at)}
<1>2. 0 \in S
  <2>1. PICK e \in Seq(V) : e = f[0] /\ Len(e) = 0
    BY <1>0, <1>1
  <2>2. Picks(e, s, T, 0, << >>)
    BY <2>1 DEF Picks
  <2> QED BY <1>0, <2>1, <2>2
<1>3. ASSUME NEW n \in 0 .. Len(s) - 1, n \in S PROVE n + 1 \in S
  <2>1. PICK at : Picks(f[n], s, T, n, at)
    BY <1>3
  <2>2. n \in Nat /\ n + 1 <= Len(s) /\ n + 1 \in 1 .. Len(s) /\ (n + 1) - 1 = n /\ f[n] \in Seq(V)
    BY <1>0
  <2>3. f[n + 1] = IF s[n + 1] \in T THEN Append(f[n], s[n + 1]) ELSE f[n]
    BY <1>1, <2>2
  <2>4. CASE s[n + 1] \in T
    <3>1. \E b : Picks(Append(f[n], s[n + 1]), s, T, n + 1, b)
      BY <2>1, <2>2, <2>4, PickOne
    <3>2. \E b : Picks(f[n + 1], s, T, n + 1, b)
      BY <2>3, <2>4, <3>1
    <3>3. n + 1 \in 0 .. Len(s)
      BY <2>2
    <3> QED BY <3>2, <3>3
  <2>5. CASE s[n + 1] \notin T
    <3>1. Picks(f[n], s, T, n + 1, at)
      BY <2>1, <2>2, <2>5, PickNone
    <3> QED BY <2>2, <2>3, <2>5, <3>1
  <2> QED BY <2>4, <2>5
<1>4. \A n \in 0 .. Len(s) : n \in S
  <2> HIDE DEF S
  <2> QED BY <1>0, <1>2, <1>3, UpTo
<1>5. Len(s) \in S /\ f[Len(s)] \in Seq(V)
  BY <1>0, <1>4
<1> QED BY <1>1, <1>5

\* And only Keep does.
LEMMA KeepUnique ==
    ASSUME NEW V, NEW s \in Seq(V), NEW T, NEW k \in Seq(V), NEW at, Picks(k, s, T, Len(s), at)
    PROVE  Keep(s, T) = k
<1>0. Len(s) \in Nat
  OBVIOUS
<1>k. PICK f \in [0 .. Len(s) -> Seq(V)] : Keeping(f, s, T)
  BY KeepSteps, Zenon
<1>1. /\ f \in [0 .. Len(s) -> Seq(V)] /\ f[0] = << >> /\ f[Len(s)] = Keep(s, T)
      /\ \A n \in 1 .. Len(s) : f[n] = IF s[n] \in T THEN Append(f[n - 1], s[n]) ELSE f[n - 1]
  BY <1>k, Zenon DEF Keeping
<1> DEFINE S == {n \in 0 .. Len(s) : \A q \in Seq(V) : \A b : Picks(q, s, T, n, b) => q = f[n]}
<1>2. 0 \in S
  <2> SUFFICES ASSUME NEW q \in Seq(V), NEW b, Picks(q, s, T, 0, b) PROVE q = f[0]
    BY <1>0
  <2>1. Len(q) \in Nat /\ b \in [1 .. Len(q) -> 1 .. 0]
    BY DEF Picks
  <2>2. Len(q) = 0
    <3> SUFFICES ASSUME Len(q) # 0 PROVE FALSE
      OBVIOUS
    <3>1. 1 \in 1 .. Len(q)
      BY <2>1
    <3>2. b[1] \in 1 .. 0
      BY <2>1, <3>1, Zenon
    <3> QED BY <3>2
  <2> QED BY <1>1, <2>2
<1>3. ASSUME NEW n \in 0 .. Len(s) - 1, n \in S PROVE n + 1 \in S
  <2>1. n \in Nat /\ n + 1 <= Len(s) /\ n + 1 \in 1 .. Len(s) /\ (n + 1) - 1 = n /\ f[n] \in Seq(V)
    BY <1>0
  <2>2. f[n + 1] = IF s[n + 1] \in T THEN Append(f[n], s[n + 1]) ELSE f[n]
    BY <1>1, <2>1
  <2> SUFFICES ASSUME NEW q \in Seq(V), NEW b, Picks(q, s, T, n + 1, b) PROVE q = f[n + 1]
    BY <1>0, <2>1
  <2>3. CASE s[n + 1] \notin T
    <3>1. Picks(q, s, T, n, b)
      BY <2>1, <2>3, PickNone
    <3> QED BY <1>3, <2>2, <2>3, <3>1
  <2>4. CASE s[n + 1] \in T
    <3>0. PICK m \in Nat : m = Len(q)
      OBVIOUS
    <3>1. PICK j \in 1 .. m : m = Len(q) /\ b[j] = n + 1
      BY <3>0, <2>1, <2>4 DEF Picks
    <3>2. j = m
      <4>1. m \in 1 .. m /\ b[m] \in 1 .. n + 1
        BY <3>1 DEF Picks
      <4>2. j < m => b[j] < b[m]
        BY <3>1, <4>1 DEF Picks
      <4> QED BY <3>1, <4>1, <4>2
    <3> DEFINE r == SubSeq(q, 1, m - 1)
               c == [i \in 1 .. m - 1 |-> b[i]]
    <3>3. /\ r \in Seq(V) /\ Len(r) = m - 1 /\ \A i \in 1 .. m - 1 : r[i] = q[i] /\ i \in 1 .. m
          /\ q = Append(r, q[m])
      BY <3>1
    <3>4. q[m] = s[n + 1]
      BY <3>1, <3>2 DEF Picks
    <3>5. \A i \in 1 .. m - 1 : c[i] = b[i] /\ b[i] \in 1 .. n + 1 /\ b[i] < b[m]
      <4>1. \A i \in 1 .. m - 1 : c[i] = b[i] /\ i \in 1 .. m /\ m \in 1 .. m /\ i < m
        BY <3>3
      <4>2. \A i \in 1 .. m : b[i] \in 1 .. n + 1
        BY <3>0 DEF Picks
      <4>3. \A i, l \in 1 .. m : i < l => b[i] < b[l]
        BY <3>0 DEF Picks
      <4> HIDE DEF c
      <4> QED BY <4>1, <4>2, <4>3
    <3>6. Picks(r, s, T, n, c)
      <4>1. c \in [1 .. Len(r) -> 1 .. n]
        BY <3>1, <3>2, <3>3, <3>5
      <4> HIDE DEF r, c
      <4>2. \A i \in 1 .. Len(r) : r[i] = s[c[i]] /\ r[i] \in T
        BY <3>1, <3>3, <3>5 DEF Picks
      <4>3. \A i, l \in 1 .. Len(r) : i < l => c[i] < c[l]
        BY <3>1, <3>3, <3>5 DEF Picks
      <4>4. ASSUME NEW i \in 1 .. n, s[i] \in T PROVE \E l \in 1 .. Len(r) : c[l] = i
        <5>1. PICK l \in 1 .. m : b[l] = i
          BY <3>1, <4>4 DEF Picks
        <5>2. l \in 1 .. m - 1
          BY <3>1, <3>2, <5>1
        <5> QED BY <3>3, <3>5, <5>1, <5>2
      <4> QED BY <4>1, <4>2, <4>3, <4>4 DEF Picks
    <3> HIDE DEF r, c
    <3>7. r = f[n]
      BY <1>3, <3>3, <3>6
    <3> QED BY <2>2, <2>4, <3>3, <3>4, <3>7
  <2> QED BY <2>3, <2>4
<1>4. \A n \in 0 .. Len(s) : n \in S
  <2> HIDE DEF S
  <2> QED BY <1>0, <1>2, <1>3, UpTo
<1>5. Len(s) \in S
  BY <1>0, <1>4
<1> QED BY <1>1, <1>5

\* Only what s has matters.
LEMMA KeepSame ==
    ASSUME NEW V, NEW s \in Seq(V), NEW T, NEW U, \A n \in 1 .. Len(s) : s[n] \in T <=> s[n] \in U
    PROVE  Keep(s, T) = Keep(s, U)
<1>1. PICK k \in Seq(V) : k = Keep(s, U)
  BY KeepPicks
<1>2. PICK at : Picks(k, s, U, Len(s), at)
  BY <1>1, KeepPicks
<1>3. \A j \in 1 .. Len(k) : at[j] \in 1 .. Len(s)
  BY <1>2 DEF Picks
<1>4. Picks(k, s, T, Len(s), at)
  BY <1>2, <1>3 DEF Picks
<1>5. Keep(s, T) = k
  BY <1>4, KeepUnique
<1> QED BY <1>1, <1>5

\* What is left, and that some is.
LEMMA KeepElements ==
    ASSUME NEW V, NEW s \in Seq(V), NEW T
    PROVE  /\ Keep(s, T) \in Seq(V)
           /\ \A j \in 1 .. Len(Keep(s, T)) : Keep(s, T)[j] \in T /\ \E n \in 1 .. Len(s) : Keep(s, T)[j] = s[n]
           /\ \A n \in 1 .. Len(s) : s[n] \in T => \E j \in 1 .. Len(Keep(s, T)) : Keep(s, T)[j] = s[n]
           /\ Keep(s, T) # << >> <=> \E n \in 1 .. Len(s) : s[n] \in T
<1>1. PICK k \in Seq(V) : k = Keep(s, T)
  BY KeepPicks
<1>2. PICK at : Picks(k, s, T, Len(s), at)
  BY <1>1, KeepPicks
<1>3. \A j \in 1 .. Len(k) : at[j] \in 1 .. Len(s) /\ k[j] = s[at[j]] /\ k[j] \in T
  BY <1>2 DEF Picks
<1>4. \A n \in 1 .. Len(s) : s[n] \in T => \E j \in 1 .. Len(k) : k[j] = s[n]
  BY <1>2, <1>3 DEF Picks
<1>5. k # << >> <=> \E n \in 1 .. Len(s) : s[n] \in T
  <2>1. ASSUME k # << >> PROVE \E n \in 1 .. Len(s) : s[n] \in T
    <3>1. 1 \in 1 .. Len(k)
      BY <2>1
    <3> QED BY <1>3, <3>1
  <2>2. ASSUME NEW n \in 1 .. Len(s), s[n] \in T PROVE k # << >>
    <3>1. PICK j \in 1 .. Len(k) : k[j] = s[n]
      BY <1>4, <2>2
    <3> QED BY <3>1
  <2> QED BY <2>1, <2>2
<1> QED BY <1>1, <1>3, <1>4, <1>5

\* The last one that is left is the last one in T.
LEMMA KeepLast ==
    ASSUME NEW V, NEW s \in Seq(V), NEW T, Keep(s, T) # << >>
    PROVE  \E n \in 1 .. Len(s) : /\ s[n] \in T /\ Last(Keep(s, T)) = s[n]
                                  /\ \A i \in 1 .. Len(s) : s[i] \in T => i <= n
<1>1. PICK k \in Seq(V) : k = Keep(s, T)
  BY KeepPicks
<1>2. PICK at : Picks(k, s, T, Len(s), at)
  BY <1>1, KeepPicks
<1>3. PICK m \in Nat \ {0} : m = Len(k) /\ m \in 1 .. m
  BY <1>1
<1>4. PICK n \in 1 .. Len(s) : n = at[m] /\ s[n] \in T /\ k[m] = s[n]
  BY <1>2, <1>3 DEF Picks
<1>5. ASSUME NEW i \in 1 .. Len(s), s[i] \in T PROVE i <= n
  <2>1. PICK j \in 1 .. m : at[j] = i
    BY <1>2, <1>3, <1>5 DEF Picks
  <2>2. j < m => at[j] < at[m]
    BY <1>2, <1>3 DEF Picks
  <2> QED BY <1>3, <1>4, <2>1, <2>2
<1> QED BY <1>1, <1>3, <1>4, <1>5 DEF Last

\* What is kept of what was kept.
LEMMA KeepKeep ==
    ASSUME NEW V, NEW s \in Seq(V), NEW T, NEW U
    PROVE  Keep(Keep(s, T), U) = Keep(s, T \cap U)
<1>1. PICK k \in Seq(V) : k = Keep(s, T)
  BY KeepPicks
<1>2. PICK at : Picks(k, s, T, Len(s), at)
  BY <1>1, KeepPicks
<1>3. PICK l \in Seq(V) : l = Keep(k, U)
  BY <1>1, KeepPicks
<1>4. PICK on : Picks(l, k, U, Len(k), on)
  BY <1>1, <1>3, KeepPicks
<1> DEFINE b == [j \in 1 .. Len(l) |-> at[on[j]]]
<1>5. /\ at \in [1 .. Len(k) -> 1 .. Len(s)]
      /\ \A j \in 1 .. Len(k) : k[j] = s[at[j]] /\ k[j] \in T
      /\ \A i, j \in 1 .. Len(k) : i < j => at[i] < at[j]
      /\ \A n \in 1 .. Len(s) : s[n] \in T => \E j \in 1 .. Len(k) : at[j] = n
  BY <1>2 DEF Picks
<1>6. /\ on \in [1 .. Len(l) -> 1 .. Len(k)]
      /\ \A j \in 1 .. Len(l) : l[j] = k[on[j]] /\ l[j] \in U
      /\ \A i, j \in 1 .. Len(l) : i < j => on[i] < on[j]
      /\ \A n \in 1 .. Len(k) : k[n] \in U => \E j \in 1 .. Len(l) : on[j] = n
  BY <1>4 DEF Picks
<1>7. b \in [1 .. Len(l) -> 1 .. Len(s)] /\ \A j \in 1 .. Len(l) : b[j] = at[on[j]]
  BY <1>5, <1>6
<1> HIDE DEF b
<1>8. ASSUME NEW j \in 1 .. Len(l) PROVE l[j] = s[b[j]] /\ l[j] \in T \cap U
  <2>1. on[j] \in 1 .. Len(k) /\ l[j] = k[on[j]] /\ l[j] \in U /\ b[j] = at[on[j]]
    BY <1>6, <1>7
  <2>2. k[on[j]] = s[at[on[j]]] /\ k[on[j]] \in T
    BY <1>5, <2>1
  <2> QED BY <2>1, <2>2
<1>9. ASSUME NEW i \in 1 .. Len(l), NEW j \in 1 .. Len(l), i < j PROVE b[i] < b[j]
  <2>1. on[i] \in 1 .. Len(k) /\ on[j] \in 1 .. Len(k) /\ on[i] < on[j]
    BY <1>6, <1>9
  <2> QED BY <1>5, <1>7, <2>1
<1>10. ASSUME NEW n \in 1 .. Len(s), s[n] \in T \cap U PROVE \E j \in 1 .. Len(l) : b[j] = n
  <2>1. PICK i \in 1 .. Len(k) : at[i] = n
    BY <1>5, <1>10
  <2>2. k[i] \in U
    BY <1>5, <1>10, <2>1
  <2>3. PICK j \in 1 .. Len(l) : on[j] = i
    BY <1>6, <2>2
  <2> QED BY <1>7, <2>1, <2>3
<1>11. Picks(l, s, T \cap U, Len(s), b)
  BY <1>7, <1>8, <1>9, <1>10 DEF Picks
<1>12. Keep(s, T \cap U) = l
  BY <1>11, KeepUnique
<1> QED BY <1>1, <1>3, <1>12

\* A piece of a sequence.
Piece(V, s, p, q) ==
    /\ SubSeq(s, p + 1, q) \in Seq(V) /\ Len(SubSeq(s, p + 1, q)) = q - p
    /\ \A j \in 1 .. q - p : SubSeq(s, p + 1, q)[j] = s[p + j]

LEMMA SliceIs ==
    ASSUME NEW V, NEW s \in Seq(V), NEW p \in Nat, NEW q \in Nat, p <= q, q <= Len(s)
    PROVE  Piece(V, s, p, q)
<1>0. PICK m \in Nat : m = Len(s)
  OBVIOUS
<1>1. SubSeq(s, p + 1, q) \in Seq(V)
  BY <1>0
<1>2. Len(SubSeq(s, p + 1, q)) = q - p
  BY <1>0
<1>3. \A j \in 1 .. q - p : SubSeq(s, p + 1, q)[j] = s[p + j]
  BY <1>0
<1> QED BY <1>1, <1>2, <1>3 DEF Piece

\* When those in T are next to each other, Keep cuts a piece out.
LEMMA KeepSlice ==
    ASSUME NEW V, NEW s \in Seq(V), NEW T, NEW p \in 0 .. Len(s), NEW q \in p .. Len(s),
           \A n \in 1 .. Len(s) : s[n] \in T <=> p < n /\ n <= q
    PROVE  Keep(s, T) = SubSeq(s, p + 1, q)
<1>0. PICK m \in Nat : m = Len(s) /\ p \in Nat /\ q \in Nat /\ p <= q /\ q <= m
  OBVIOUS
<1>1. PICK k \in Seq(V) : /\ k = SubSeq(s, p + 1, q) /\ Len(k) = q - p
                          /\ \A j \in 1 .. q - p : k[j] = s[p + j]
  <2>1. p <= q /\ q <= Len(s)
    BY <1>0
  <2>2. /\ SubSeq(s, p + 1, q) \in Seq(V) /\ Len(SubSeq(s, p + 1, q)) = q - p
        /\ \A j \in 1 .. q - p : SubSeq(s, p + 1, q)[j] = s[p + j]
    <3>1. Piece(V, s, p, q)
      BY <1>0, <2>1, SliceIs
    <3> QED BY <3>1, Zenon DEF Piece
  <2> QED BY <2>2
<1> DEFINE at == [j \in 1 .. q - p |-> p + j]
<1>2. at \in [1 .. Len(k) -> 1 .. Len(s)] /\ \A j \in 1 .. q - p : at[j] = p + j
  BY <1>0, <1>1
<1> HIDE DEF at
<1>3. \A j \in 1 .. Len(k) : k[j] = s[at[j]] /\ k[j] \in T
  BY <1>0, <1>1, <1>2
<1>4. \A i, j \in 1 .. Len(k) : i < j => at[i] < at[j]
  BY <1>0, <1>1, <1>2
<1>5. ASSUME NEW n \in 1 .. Len(s), s[n] \in T PROVE \E j \in 1 .. Len(k) : at[j] = n
  <2>1. n - p \in 1 .. q - p /\ p + (n - p) = n
    BY <1>0, <1>5
  <2> QED BY <1>0, <1>1, <1>2, <2>1
<1>6. Picks(k, s, T, Len(s), at)
  BY <1>2, <1>3, <1>4, <1>5 DEF Picks
<1> QED BY <1>1, <1>6, KeepUnique

\* When all are in T, nothing changes.
LEMMA KeepAll ==
    ASSUME NEW V, NEW s \in Seq(V), NEW T, \A n \in 1 .. Len(s) : s[n] \in T
    PROVE  Keep(s, T) = s
<1>1. PICK p \in 0 .. Len(s), q \in 0 .. Len(s) : p = 0 /\ q = Len(s)
  OBVIOUS
<1>2. q \in p .. Len(s) /\ \A n \in 1 .. Len(s) : s[n] \in T <=> p < n /\ n <= q
  BY <1>1
<1>3. Keep(s, T) = SubSeq(s, p + 1, q)
  BY <1>2, KeepSlice
<1> QED BY <1>1, <1>3

\* What is kept of a beginning of s begins what is kept of s.
LEMMA KeepBeginning ==
    ASSUME NEW V, NEW s \in Seq(V), NEW T, NEW m \in 0 .. Len(s)
    PROVE  \E l \in 0 .. Len(Keep(s, T)) : Keep(SubSeq(s, 1, m), T) = SubSeq(Keep(s, T), 1, l)
<1>0. PICK M \in Nat : M = Len(s) /\ m \in Nat /\ m <= M
  OBVIOUS
<1>1. PICK h \in Seq(V) : h = SubSeq(s, 1, m) /\ Len(h) = m /\ \A j \in 1 .. m : h[j] = s[j]
  <2>1. PICK p \in Nat : p = 0
    OBVIOUS
  <2>2. /\ SubSeq(s, p + 1, m) \in Seq(V) /\ Len(SubSeq(s, p + 1, m)) = m - p
        /\ \A j \in 1 .. m - p : SubSeq(s, p + 1, m)[j] = s[p + j]
    <3>1. Piece(V, s, p, m)
      BY <1>0, <2>1, SliceIs
    <3> QED BY <3>1, Zenon DEF Piece
  <2>3. p + 1 = 1 /\ m - p = m /\ \A j \in 1 .. m : p + j = j
    BY <1>0, <2>1
  <2> QED BY <2>2, <2>3
<1>2. PICK k \in Seq(V) : k = Keep(s, T)
  BY KeepPicks
<1>3. PICK at : Picks(k, s, T, Len(s), at)
  BY <1>2, KeepPicks
<1>4. PICK K \in Nat : K = Len(k)
  OBVIOUS
<1>5. /\ at \in [1 .. K -> 1 .. M]
      /\ \A j \in 1 .. K : k[j] = s[at[j]] /\ k[j] \in T
      /\ \A i, j \in 1 .. K : i < j => at[i] < at[j]
      /\ \A n \in 1 .. M : s[n] \in T => \E j \in 1 .. K : at[j] = n
  BY <1>0, <1>3, <1>4 DEF Picks
\* l is the number of the first that is kept and not in the beginning, less one.
<1>6. PICK l \in 0 .. K : \A j \in 1 .. K : j <= l <=> at[j] <= m
  <2> DEFINE S == {j \in 1 .. K : at[j] > m}
  <2>1. CASE S = {}
    <3>1. ASSUME NEW j \in 1 .. K PROVE j <= K /\ at[j] <= m
      <4>1. ~(at[j] > m) /\ at[j] \in 1 .. M
        BY <1>5, <2>1
      <4> QED BY <1>0, <4>1
    <3> QED BY <1>4, <3>1
  <2>2. CASE S # {}
    <3>1. S \in SUBSET Nat
      OBVIOUS
    <3>2. PICK i \in S : \A j \in S : i <= j
      <4> HIDE DEF S
      <4> QED BY <2>2, <3>1, LeastNatural
    <3>3. ASSUME NEW j \in 1 .. K PROVE j <= i - 1 <=> at[j] <= m
      <4>0. i \in 1 .. K /\ at[i] > m
        BY <3>2
      <4>1. at[j] \in Int /\ at[i] \in Int /\ at[i] > m /\ i \in 1 .. K /\ m \in Int
        BY <1>0, <1>5, <4>0
      <4>2. CASE j < i
        BY <1>4, <3>2, <4>1, <4>2
      <4>3. CASE j = i
        BY <4>1, <4>3
      <4>4. CASE j > i
        <5>1. at[i] < at[j]
          BY <1>5, <4>1, <4>4
        <5> QED BY <4>1, <4>4, <5>1
      <4> QED BY <1>4, <4>1, <4>2, <4>3, <4>4
    <3>4. i - 1 \in 0 .. K
      BY <1>4, <3>2
    <3> QED BY <3>3, <3>4
  <2> QED BY <2>1, <2>2
<1>7. PICK r \in Seq(V) : r = SubSeq(k, 1, l) /\ Len(r) = l /\ \A j \in 1 .. l : r[j] = k[j]
  <2>1. PICK p \in Nat : p = 0
    OBVIOUS
  <2>2. /\ SubSeq(k, p + 1, l) \in Seq(V) /\ Len(SubSeq(k, p + 1, l)) = l - p
        /\ \A j \in 1 .. l - p : SubSeq(k, p + 1, l)[j] = k[p + j]
    <3>1. Piece(V, k, p, l)
      BY <1>4, <2>1, SliceIs
    <3> QED BY <3>1, Zenon DEF Piece
  <2>3. p + 1 = 1 /\ l - p = l /\ \A j \in 1 .. l : p + j = j
    BY <2>1
  <2> QED BY <2>2, <2>3
<1> DEFINE b == [j \in 1 .. l |-> at[j]]
<1>8. ASSUME NEW j \in 1 .. l PROVE b[j] = at[j] /\ j \in 1 .. K /\ at[j] \in 1 .. m
  <2>1. b[j] = at[j] /\ j \in 1 .. K /\ j <= l
    OBVIOUS
  <2> HIDE DEF b
  <2>2. at[j] <= m /\ at[j] \in 1 .. M
    BY <1>5, <1>6, <2>1
  <2> QED BY <1>0, <2>1, <2>2
<1>9. b \in [1 .. Len(r) -> 1 .. m]
  BY <1>7, <1>8
<1> HIDE DEF b
<1>10. \A j \in 1 .. Len(r) : r[j] = h[b[j]] /\ r[j] \in T
  BY <1>1, <1>5, <1>7, <1>8
<1>11. ASSUME NEW i \in 1 .. Len(r), NEW j \in 1 .. Len(r), i < j PROVE b[i] < b[j]
  <2>1. i \in 1 .. l /\ j \in 1 .. l
    BY <1>7
  <2>2. b[i] = at[i] /\ i \in 1 .. K /\ b[j] = at[j] /\ j \in 1 .. K
    BY <1>8, <2>1
  <2>3. at[i] < at[j]
    BY <1>5, <1>11, <2>2
  <2> QED BY <2>2, <2>3
<1>12. ASSUME NEW n \in 1 .. m, h[n] \in T PROVE \E j \in 1 .. Len(r) : b[j] = n
  <2>1. n \in 1 .. M /\ s[n] \in T
    BY <1>0, <1>1, <1>12
  <2>2. PICK j \in 1 .. K : at[j] = n
    BY <1>5, <2>1
  <2>3. j \in 1 .. l
    BY <1>4, <1>6, <2>2
  <2> QED BY <1>7, <1>8, <2>2, <2>3
<1>13. Picks(r, h, T, Len(h), b)
  BY <1>1, <1>9, <1>10, <1>11, <1>12 DEF Picks
<1>14. Keep(h, T) = r
  BY <1>13, KeepUnique
<1> QED BY <1>1, <1>2, <1>4, <1>6, <1>7, <1>14

-----------------------------------------------------------------------------
(* Numbers *)

\* The least and the greatest of a set of integers, where there is one.
LEMMA LeastIs ==
    ASSUME NEW S \in SUBSET Int, NEW x \in S, \A y \in S : x <= y PROVE Least(S) = x
<1>1. \A y \in S : (\A z \in S : y <= z) => y = x
  OBVIOUS
<1> QED BY <1>1 DEF Least

LEMMA MostIs ==
    ASSUME NEW S \in SUBSET Int, NEW x \in S, \A y \in S : x >= y PROVE Most(S) = x
<1>1. \A y \in S : (\A z \in S : y >= z) => y = x
  OBVIOUS
<1> QED BY <1>1 DEF Most

\* Of two, there is always one.
LEMMA LeastOfTwo ==
    ASSUME NEW a \in Int, NEW b \in Int
    PROVE  /\ Least({a, b}) = IF a <= b THEN a ELSE b
           /\ Most({a, b}) = IF a >= b THEN a ELSE b
<1>1. CASE a <= b /\ a >= b
  BY <1>1, LeastIs, MostIs
<1>2. CASE a < b
  <2>1. Least({a, b}) = a
    BY <1>2, LeastIs
  <2>2. Most({a, b}) = b
    BY <1>2, MostIs
  <2> QED BY <1>2, <2>1, <2>2
<1>3. CASE a > b
  <2>1. Least({a, b}) = b
    BY <1>3, LeastIs
  <2>2. Most({a, b}) = a
    BY <1>3, MostIs
  <2> QED BY <1>3, <2>1, <2>2
<1> QED BY <1>1, <1>2, <1>3

\* And of any that have a bound.
LEMMA LeastOfMany ==
    ASSUME NEW S \in SUBSET Int, S # {}, NEW b \in Int, \A x \in S : b <= x
    PROVE  Least(S) \in S /\ \A x \in S : Least(S) <= x
<1> DEFINE T == {x - b : x \in S}
<1>1. T \in SUBSET Nat /\ T # {}
  <2>1. \A x \in S : x - b \in Nat
    OBVIOUS
  <2>2. T \in SUBSET Nat
    BY <2>1
  <2>3. PICK x \in S : TRUE
    OBVIOUS
  <2>4. x - b \in T
    BY <2>3
  <2> HIDE DEF T
  <2> QED BY <2>2, <2>4
<1>2. PICK t \in T : \A m \in T : t <= m
  <2> HIDE DEF T
  <2> QED BY <1>1, LeastNatural
<1>3. PICK n \in S : t = n - b
  BY <1>2
<1>4. ASSUME NEW x \in S PROVE n <= x
  <2>1. x - b \in T
    OBVIOUS
  <2>2. n - b <= x - b
    BY <2>1, <1>2, <1>3
  <2> HIDE DEF T
  <2> QED BY <2>2
<1>5. Least(S) = n
  BY <1>4, LeastIs
<1> QED BY <1>4, <1>5

LEMMA MostOfMany ==
    ASSUME NEW S \in SUBSET Int, S # {}, NEW b \in Int, \A x \in S : x <= b
    PROVE  Most(S) \in S /\ \A x \in S : Most(S) >= x
<1> DEFINE T == {b - x : x \in S}
<1>1. T \in SUBSET Nat /\ T # {}
  <2>1. \A x \in S : b - x \in Nat
    OBVIOUS
  <2>2. T \in SUBSET Nat
    BY <2>1
  <2>3. PICK x \in S : TRUE
    OBVIOUS
  <2>4. b - x \in T
    BY <2>3
  <2> HIDE DEF T
  <2> QED BY <2>2, <2>4
<1>2. PICK t \in T : \A m \in T : t <= m
  <2> HIDE DEF T
  <2> QED BY <1>1, LeastNatural
<1>3. PICK n \in S : t = b - n
  BY <1>2
<1>4. ASSUME NEW x \in S PROVE n >= x
  <2>1. b - x \in T
    OBVIOUS
  <2>2. b - n <= b - x
    BY <2>1, <1>2, <1>3
  <2> HIDE DEF T
  <2> QED BY <2>2
<1>5. Most(S) = n
  BY <1>4, MostIs
<1> QED BY <1>4, <1>5

\* Multiplication by a natural number preserves the order.
LEMMA TimesMono == ASSUME NEW c \in Nat, NEW a \in Int, NEW b \in Int, a <= b PROVE c * a <= c * b
<1>1. PICK d \in Nat : b = a + d
  <2>1. b - a \in Nat /\ b = a + (b - a)
    OBVIOUS
  <2> QED BY <2>1
<1>2. c * b = c * a + c * d
  BY <1>1
<1>3. c * d \in Nat /\ c * a \in Int
  OBVIOUS
<1> QED BY <1>2, <1>3

\* Division with remainder.
LEMMA DivMod ==
    ASSUME NEW a \in Int, NEW b \in Nat \ {0}
    PROVE  a \div b \in Int /\ a % b \in 0 .. b - 1 /\ a = b * (a \div b) + (a % b)
OBVIOUS

\* A number on the grid of w is a multiple of it; two of them are w apart.
Multiple(b, w) == b \in Int /\ b % w = 0

LEMMA MultipleIs ==
    ASSUME NEW w \in Nat \ {0}, NEW b \in Int
    PROVE  b % w = 0 <=> \E k \in Int : b = w * k
<1>1. PICK p \in Int, r \in 0 .. w - 1 : p = b \div w /\ r = b % w /\ b = w * p + r
  BY DivMod
<1>2. ASSUME r = 0 PROVE \E k \in Int : b = w * k
  BY <1>1, <1>2
<1>3. ASSUME NEW k \in Int, b = w * k PROVE r = 0
  <2>1. w * (k - p) = r
    BY <1>1, <1>3
  <2>2. CASE k - p >= 1
    <3>1. w * (k - p) >= w * 1
      BY <2>2, TimesMono
    <3> QED BY <2>1, <3>1
  <2>3. CASE k - p <= -1
    <3>1. w * (k - p) <= w * (-1)
      BY <2>3, TimesMono
    <3> QED BY <2>1, <3>1
  <2>4. CASE k = p
    BY <1>1, <1>3, <2>4
  <2> QED BY <2>2, <2>3, <2>4
<1> QED BY <1>1, <1>2, <1>3

LEMMA Apart ==
    ASSUME NEW w \in Nat \ {0}, NEW b, NEW c, Multiple(b, w), Multiple(c, w)
    PROVE  Multiple(b + w, w) /\ Multiple(b - w, w) /\ (b < c => b + w <= c)
<1>1. b \in Int /\ c \in Int
  BY DEF Multiple
<1>2. PICK k \in Int : b = w * k
  BY <1>1, MultipleIs DEF Multiple
<1>3. PICK l \in Int : c = w * l
  BY <1>1, MultipleIs DEF Multiple
<1>4. b + w = w * (k + 1) /\ b - w = w * (k - 1) /\ k + 1 \in Int /\ k - 1 \in Int
  BY <1>2
<1>5. b + w \in Int /\ b - w \in Int
  BY <1>1
<1>6. Multiple(b + w, w)
  BY <1>4, <1>5, MultipleIs DEF Multiple
<1>7. Multiple(b - w, w)
  BY <1>4, <1>5, MultipleIs DEF Multiple
<1>8. ASSUME b < c PROVE b + w <= c
  <2>1. k < l
    <3>1. ASSUME l <= k PROVE FALSE
      <4>1. w * l <= w * k
        BY <3>1, TimesMono
      <4> QED BY <1>2, <1>3, <1>8, <4>1
    <3> QED BY <3>1
  <2>2. w * (k + 1) <= w * l
    BY <2>1, TimesMono
  <2> QED BY <1>3, <1>4, <2>2
<1> QED BY <1>6, <1>7, <1>8

\* The bucket of a day.
LEMMA StartIs ==
    ASSUME NEW w \in Nat \ {0}, NEW d \in Int
    PROVE  Multiple(Start(d, w), w) /\ Start(d, w) <= d /\ d < Start(d, w) + w
<1>1. PICK p \in Int, r \in 0 .. w - 1 : p = d \div w /\ r = d % w /\ d = w * p + r
  BY DivMod
<1>2. PICK b \in Int : b = Start(d, w) /\ b = d - r /\ b = w * p
  BY <1>1 DEF Start
<1>3. Multiple(b, w)
  BY <1>2, MultipleIs DEF Multiple
<1> QED BY <1>1, <1>2, <1>3

LEMMA BucketOf ==
    ASSUME NEW w \in Nat \ {0}, NEW d \in Int, NEW b, Multiple(b, w)
    PROVE  /\ Start(d, w) = b <=> b <= d /\ d < b + w
           /\ Start(d, w) <= b <=> d < b + w
           /\ b <= Start(d, w) <=> b <= d
<1>1. PICK c \in Int : c = Start(d, w) /\ Multiple(c, w) /\ c <= d /\ d < c + w
  BY StartIs DEF Multiple
<1>2. b \in Int
  BY DEF Multiple
<1>3. (b < c => b + w <= c) /\ (c < b => c + w <= b)
  BY <1>1, Apart
<1> QED BY <1>1, <1>2, <1>3

-----------------------------------------------------------------------------
(* Rows by day *)

Dated(V, from, to) == {r \in V : (from = Null \/ r.day >= from) /\ (to = Null \/ r.day < to)}

LEMMA WithinIs ==
    ASSUME NEW V, NEW s \in Seq(V), NEW from, NEW to
    PROVE  Within(s, from, to) = Keep(s, Dated(V, from, to))
<1>1. \A n \in 1 .. Len(s) : s[n] \in Range(s) /\ s[n] \in V
  BY DEF Range
<1> QED BY <1>1, KeepSame DEF Within, Dated

LEMMA CoveredIs ==
    ASSUME NEW V, NEW s \in Seq(V) PROVE Covered(s) = Keep(s, {r \in V : r.covered})
<1>1. \A n \in 1 .. Len(s) : s[n] \in Range(s) /\ s[n] \in V
  BY DEF Range
<1> QED BY <1>1, KeepSame DEF Covered

\* A narrower span of a span.
LEMMA WithinWithin ==
    ASSUME NEW V, NEW s \in Seq(V), \A r \in V : r.day \in Int, Null \notin Int,
           NEW a \in Int \cup {Null}, NEW b \in Int \cup {Null},
           NEW c \in Int \cup {Null}, NEW d \in Int \cup {Null},
           a # Null => c # Null /\ a <= c, b # Null => d # Null /\ d <= b
    PROVE  Within(Within(s, a, b), c, d) = Within(s, c, d)
<1>1. PICK k \in Seq(V) : k = Within(s, a, b)
  BY WithinIs, KeepPicks
<1>2. Within(k, c, d) = Keep(Keep(s, Dated(V, a, b)), Dated(V, c, d))
  BY <1>1, WithinIs
<1>3. Dated(V, a, b) \cap Dated(V, c, d) = Dated(V, c, d)
  <2> SUFFICES ASSUME NEW r \in V, r \in Dated(V, c, d) PROVE r \in Dated(V, a, b)
    BY DEF Dated
  <2>1. r.day \in Int /\ (c = Null \/ r.day >= c) /\ (d = Null \/ r.day < d)
    BY DEF Dated
  <2>2. a = Null \/ r.day >= a
    BY <2>1
  <2>3. b = Null \/ r.day < b
    BY <2>1
  <2> QED BY <2>2, <2>3 DEF Dated
<1>4. Keep(Keep(s, Dated(V, a, b)), Dated(V, c, d)) = Keep(s, Dated(V, c, d))
  BY <1>3, KeepKeep
<1> QED BY <1>1, <1>2, <1>4, WithinIs

Sorted(s) == \A i, j \in 1 .. Len(s) : i <= j => s[i].day <= s[j].day

LEMMA KeepSorted ==
    ASSUME NEW V, NEW s \in Seq(V), Sorted(s), \A r \in V : r.day \in Int, NEW T
    PROVE  Sorted(Keep(s, T))
<1>1. PICK k \in Seq(V) : k = Keep(s, T)
  BY KeepPicks
<1>2. PICK at : Picks(k, s, T, Len(s), at)
  BY <1>1, KeepPicks
<1>3. ASSUME NEW i \in 1 .. Len(k), NEW j \in 1 .. Len(k), i <= j PROVE k[i].day <= k[j].day
  <2>1. at[i] \in 1 .. Len(s) /\ at[j] \in 1 .. Len(s) /\ (i < j => at[i] < at[j])
        /\ k[i] = s[at[i]] /\ k[j] = s[at[j]]
    BY <1>2 DEF Picks
  <2>2. i = j \/ i < j
    BY <1>3
  <2>3. at[i] <= at[j]
    BY <2>1, <2>2
  <2> QED BY <2>1, <2>3 DEF Sorted
<1> QED BY <1>1, <1>3 DEF Sorted

\* The first p rows, and only they, come before the day; Null stands before all as
\* a start and behind all as an end.
Cut(s, d, p) == p \in 0 .. Len(s) /\ \A n \in 1 .. Len(s) : s[n].day < d <=> n <= p
CutFrom(s, d, p) == IF d = Null THEN p = 0 ELSE Cut(s, d, p)
CutTo(s, d, p) == IF d = Null THEN p = Len(s) ELSE Cut(s, d, p)

LEMMA CutExists ==
    ASSUME NEW V, NEW s \in Seq(V), Sorted(s), \A r \in V : r.day \in Int, NEW d \in Int
    PROVE  \E p : Cut(s, d, p)
<1>0. PICK m \in Nat : m = Len(s)
  OBVIOUS
<1>1. \A n \in 1 .. m : s[n].day \in Int
  BY <1>0
<1> DEFINE S == {n \in 1 .. m : ~(s[n].day < d)}
<1>2. CASE S = {}
  <2>1. Cut(s, d, m)
    BY <1>0, <1>2 DEF Cut
  <2> QED BY <2>1
<1>3. CASE S # {}
  <2>1. S \in SUBSET Nat
    OBVIOUS
  <2>2. PICK i \in S : \A j \in S : i <= j
    <3> HIDE DEF S
    <3> QED BY <1>3, <2>1, LeastNatural
  <2>3. i \in 1 .. m /\ i - 1 \in 0 .. m /\ ~(s[i].day < d)
    BY <2>2
  <2>4. ASSUME NEW n \in 1 .. m PROVE s[n].day < d <=> n <= i - 1
    <3>1. CASE n < i
      BY <2>2, <2>3, <3>1
    <3>2. CASE i <= n
      <4>1. s[i].day <= s[n].day
        BY <1>0, <2>3, <3>2 DEF Sorted
      <4> QED BY <1>1, <2>3, <3>2, <4>1
    <3> QED BY <2>3, <3>1, <3>2
  <2>5. Cut(s, d, i - 1)
    BY <1>0, <2>3, <2>4 DEF Cut
  <2> QED BY <2>5
<1> QED BY <1>2, <1>3

LEMMA CutUnique ==
    ASSUME NEW s, Len(s) \in Nat, NEW d, NEW p, NEW q, Cut(s, d, p), Cut(s, d, q)
    PROVE  p = q
<1>1. p \in 0 .. Len(s) /\ q \in 0 .. Len(s)
  BY DEF Cut
<1>2. ASSUME NEW x \in 0 .. Len(s), NEW y \in 0 .. Len(s), Cut(s, d, x), Cut(s, d, y), x < y PROVE FALSE
  <2>1. y \in 1 .. Len(s)
    BY <1>2
  <2>2. y <= x
    BY <1>2, <2>1 DEF Cut
  <2> QED BY <1>2, <2>2
<1>3. ~(p < q) /\ ~(q < p)
  BY <1>1, <1>2
<1> QED BY <1>1, <1>3

\* Cuts follow the days.
LEMMA CutMono ==
    ASSUME NEW V, NEW s \in Seq(V), \A r \in V : r.day \in Int, NEW d \in Int, NEW e \in Int, d <= e,
           NEW p, NEW q, Cut(s, d, p), Cut(s, e, q)
    PROVE  p \in 0 .. Len(s) /\ q \in 0 .. Len(s) /\ p <= q
<1>1. p \in 0 .. Len(s) /\ q \in 0 .. Len(s)
  BY DEF Cut
<1>2. ASSUME q < p PROVE FALSE
  <2>1. p \in 1 .. Len(s)
    BY <1>1, <1>2
  <2>2. s[p].day < d /\ s[p].day \in Int
    BY <2>1 DEF Cut
  <2>3. ~(s[p].day < e)
    BY <1>1, <1>2, <2>1 DEF Cut
  <2> QED BY <2>2, <2>3
<1> QED BY <1>1, <1>2

\* The rows of a span are a piece of the rows.
Slices(s, from, to, p, q) ==
    /\ p \in 0 .. Len(s) /\ q \in 0 .. Len(s) /\ p <= q
    /\ Within(s, from, to) = SubSeq(s, p + 1, q)

LEMMA WithinSlice ==
    ASSUME NEW V, NEW s \in Seq(V), \A r \in V : r.day \in Int, Null \notin Int,
           NEW from \in Int \cup {Null}, NEW to \in Int \cup {Null},
           from # Null /\ to # Null => from <= to,
           NEW p, NEW q, CutFrom(s, from, p), CutTo(s, to, q)
    PROVE  Slices(s, from, to, p, q)
<1>0. PICK m \in Nat : m = Len(s)
  OBVIOUS
<1>1. p \in 0 .. m /\ q \in 0 .. m
  BY <1>0 DEF CutFrom, CutTo, Cut
<1>2. p <= q
  <2>1. CASE from # Null /\ to # Null
    BY <2>1, CutMono DEF CutFrom, CutTo
  <2>2. CASE from = Null \/ to = Null
    BY <1>0, <1>1, <2>2 DEF CutFrom, CutTo
  <2> QED BY <2>1, <2>2
<1>3. ASSUME NEW n \in 1 .. m PROVE s[n] \in Dated(V, from, to) <=> p < n /\ n <= q
  <2>1. s[n] \in V /\ s[n].day \in Int
    BY <1>0
  <2>2. from = Null \/ s[n].day >= from <=> p < n
    BY <1>0, <1>1, <2>1 DEF CutFrom, Cut
  <2>3. to = Null \/ s[n].day < to <=> n <= q
    BY <1>0, <1>1, <2>1 DEF CutTo, Cut
  <2> QED BY <2>1, <2>2, <2>3 DEF Dated
<1>4. q \in p .. Len(s) /\ p \in 0 .. Len(s)
  BY <1>0, <1>1, <1>2
<1>5. Keep(s, Dated(V, from, to)) = SubSeq(s, p + 1, q)
  BY <1>0, <1>3, <1>4, KeepSlice
<1> QED BY <1>0, <1>1, <1>2, <1>5, WithinIs DEF Slices

-----------------------------------------------------------------------------
(* Sums of pieces *)

\* L is a running total of s, from whatever it starts at.
Chain(s, L) == L \in [0 .. Len(s) -> Int] /\ \A n \in 1 .. Len(s) : L[n] = L[n - 1] + s[n].amt

LEMMA ChainExists ==
    ASSUME NEW V, NEW s \in Seq(V), \A r \in V : r.amt \in Int
    PROVE  \E L : Chain(s, L)
<1>1. Len(s) \in Nat /\ \A n \in 1 .. Len(s) : s[n].amt \in Int
  OBVIOUS
<1>f. PICK f \in [0 .. Len(s) -> Int] : Adding(f, s)
  BY <1>1, SumSteps, Zenon
<1>2. /\ f \in [0 .. Len(s) -> Int] /\ f[0] = 0 /\ f[Len(s)] = Sum(s)
      /\ \A n \in 1 .. Len(s) : f[n] = f[n - 1] + s[n].amt
  BY <1>f, Zenon DEF Adding
<1>3. Chain(s, f)
  BY <1>2 DEF Chain
<1> QED BY <1>3

\* Two running totals of the same rows differ by where they start.
LEMMA ChainApart ==
    ASSUME NEW s, Len(s) \in Nat, NEW L, NEW M, Chain(s, L), Chain(s, M), \A n \in 1 .. Len(s) : s[n].amt \in Int
    PROVE  \A n \in 0 .. Len(s) : L[n] - L[0] = M[n] - M[0]
<1> DEFINE S == {n \in 0 .. Len(s) : L[n] - L[0] = M[n] - M[0]}
<1>0. PICK m \in Nat : m = Len(s)
  OBVIOUS
<1>1. /\ \A n \in 0 .. m : L[n] \in Int /\ M[n] \in Int
      /\ \A n \in 1 .. m : L[n] = L[n - 1] + s[n].amt /\ M[n] = M[n - 1] + s[n].amt /\ s[n].amt \in Int
  BY <1>0 DEF Chain
<1>2. 0 \in S
  BY <1>0, <1>1
<1>3. ASSUME NEW n \in 0 .. m - 1, n \in S PROVE n + 1 \in S
  <2>1. n + 1 \in 1 .. m /\ (n + 1) - 1 = n /\ n \in 0 .. m /\ n + 1 \in 0 .. m /\ 0 \in 0 .. m
    BY <1>0
  <2>2. L[n + 1] = L[n] + s[n + 1].amt /\ M[n + 1] = M[n] + s[n + 1].amt /\ s[n + 1].amt \in Int
    BY <1>1, <2>1
  <2>3. L[n] - L[0] = M[n] - M[0] /\ L[n] \in Int /\ M[n] \in Int /\ L[0] \in Int /\ M[0] \in Int
    BY <1>1, <1>3, <2>1
  <2>4. L[n + 1] - L[0] = M[n + 1] - M[0]
    <3>1. PICK a \in Int, b \in Int, c \in Int, d \in Int, e \in Int :
              a = L[n] /\ b = M[n] /\ c = L[0] /\ d = M[0] /\ e = s[n + 1].amt
      BY <2>2, <2>3
    <3>2. L[n + 1] = a + e /\ M[n + 1] = b + e /\ a - c = b - d
      BY <2>2, <2>3, <3>1
    <3>3. (a + e) - c = (b + e) - d
      BY <3>2
    <3> QED BY <3>1, <3>2, <3>3
  <2> QED BY <1>0, <2>1, <2>4
<1>4. \A n \in 0 .. m : n \in S
  <2> HIDE DEF S
  <2> QED BY <1>2, <1>3, UpTo
<1> QED BY <1>0, <1>4

\* A sum is the rise of the running total.
LEMMA SumIs ==
    ASSUME NEW V, NEW s \in Seq(V), \A r \in V : r.amt \in Int, NEW L, Chain(s, L)
    PROVE  Sum(s) = L[Len(s)] - L[0] /\ Sum(s) \in Int
<1>1. Len(s) \in Nat /\ \A n \in 1 .. Len(s) : s[n].amt \in Int
  OBVIOUS
<1>f. PICK f \in [0 .. Len(s) -> Int] : Adding(f, s)
  BY <1>1, SumSteps, Zenon
<1>2. /\ f \in [0 .. Len(s) -> Int] /\ f[0] = 0 /\ f[Len(s)] = Sum(s)
      /\ \A n \in 1 .. Len(s) : f[n] = f[n - 1] + s[n].amt
  BY <1>f, Zenon DEF Adding
<1>3. Chain(s, f)
  BY <1>2 DEF Chain
<1>4. L[Len(s)] - L[0] = f[Len(s)] - f[0]
  BY <1>1, <1>3, ChainApart
<1>5. f[Len(s)] \in Int
  BY <1>1, <1>2
<1> QED BY <1>2, <1>4, <1>5

\* Over a piece of the rows too.
LEMMA SumSlice ==
    ASSUME NEW V, NEW s \in Seq(V), \A r \in V : r.amt \in Int, NEW L, Chain(s, L),
           NEW p \in Nat, NEW q \in Nat, p <= q, q <= Len(s)
    PROVE  Sum(SubSeq(s, p + 1, q)) = L[q] - L[p] /\ L[q] \in Int /\ L[p] \in Int
<1>0. PICK m \in Nat : m = Len(s)
  OBVIOUS
<1>1. PICK k \in Seq(V) : /\ k = SubSeq(s, p + 1, q) /\ Len(k) = q - p
                          /\ \A j \in 1 .. q - p : k[j] = s[p + j]
  <2>1. /\ SubSeq(s, p + 1, q) \in Seq(V) /\ Len(SubSeq(s, p + 1, q)) = q - p
        /\ \A j \in 1 .. q - p : SubSeq(s, p + 1, q)[j] = s[p + j]
    <3>1. Piece(V, s, p, q)
      BY SliceIs
    <3> QED BY <3>1, Zenon DEF Piece
  <2> QED BY <2>1
<1> DEFINE M == [n \in 0 .. q - p |-> L[p + n]]
<1>2. \A n \in 0 .. q - p : M[n] = L[p + n] /\ p + n \in 0 .. m
  BY <1>0
<1>3. \A n \in 0 .. m : L[n] \in Int
  BY <1>0 DEF Chain
<1>4. M \in [0 .. q - p -> Int]
  BY <1>2, <1>3
<1> HIDE DEF M
<1>5. ASSUME NEW n \in 1 .. q - p PROVE M[n] = M[n - 1] + k[n].amt
  <2>1. p + n \in 1 .. m /\ (p + n) - 1 = p + (n - 1) /\ n \in 0 .. q - p /\ n - 1 \in 0 .. q - p
    BY <1>0
  <2>2. L[p + n] = L[p + (n - 1)] + s[p + n].amt
    BY <1>0, <2>1 DEF Chain
  <2> QED BY <1>1, <1>2, <2>1, <2>2
<1>6. Chain(k, M)
  BY <1>1, <1>4, <1>5 DEF Chain
<1>7. Sum(k) = M[Len(k)] - M[0]
  BY <1>6, SumIs
<1>8. M[q - p] = L[q] /\ M[0] = L[p] /\ L[q] \in Int /\ L[p] \in Int
  <2>1. q - p \in 0 .. q - p /\ 0 \in 0 .. q - p /\ p + (q - p) = q /\ p + 0 = p /\ q \in 0 .. m /\ p \in 0 .. m
    BY <1>0
  <2> QED BY <1>2, <1>3, <2>1
<1> QED BY <1>1, <1>7, <1>8

-----------------------------------------------------------------------------
(* What an account's history is like *)

Row == [day: Nat, amt: Int, internal: BOOLEAN, level: Int, covered: BOOLEAN, lost: BOOLEAN]
Reading == [day: Nat, balance: Int, seen: Nat]

\* Rows by day, each with the balance after it.
RowsOK ==
    /\ bank \in Seq(Row) /\ Sorted(bank)
    /\ \A i \in 1 .. Len(bank) : /\ bank[i].day <= today
                                 /\ bank[i].level = Level(i - 1) + bank[i].amt
                                 /\ bank[i].lost => ~bank[i].covered

\* A reading of an account that had seen its first seen rows.
ReadingAgrees(r) ==
    /\ r.day <= today /\ r.seen <= Len(bank) /\ r.balance = Level(r.seen)
    /\ \A n \in 1 .. Len(bank) : IF n <= r.seen THEN bank[n].day <= r.day ELSE bank[n].day >= r.day

ReadingsOK ==
    /\ readings \in Seq(Reading) /\ Sorted(readings)
    /\ \A i \in 1 .. Len(readings) : ReadingAgrees(readings[i])

HistoryOK == today \in 0 .. Horizon /\ RowsOK /\ ReadingsOK

LEMMA RowFields ==
    ASSUME NEW r \in Row
    PROVE  /\ r.day \in Nat /\ r.amt \in Int /\ r.level \in Int
           /\ r.internal \in BOOLEAN /\ r.covered \in BOOLEAN /\ r.lost \in BOOLEAN
BY DEF Row

LEMMA ReadingFields ==
    ASSUME NEW r \in Reading PROVE r.day \in Nat /\ r.balance \in Int /\ r.seen \in Nat
BY DEF Reading

\* The bank's balances are a running total of its rows.
LEMMA LevelsChain ==
    ASSUME RowsOK
    PROVE  /\ Chain(bank, [n \in 0 .. Len(bank) |-> Level(n)])
           /\ \A n \in 0 .. Len(bank) : Level(n) \in Int
<1>0. PICK m \in Nat : m = Len(bank)
  BY DEF RowsOK
<1>1. \A n \in 1 .. m : bank[n] \in Row
  BY <1>0 DEF RowsOK
<1>2. ASSUME NEW n \in 0 .. m PROVE Level(n) \in Int
  <2>1. CASE n = 0
    BY <2>1, SeriesAssumption DEF Level
  <2>2. CASE n \in 1 .. m
    BY <1>1, <2>2, RowFields DEF Level
  <2> QED BY <2>1, <2>2
<1> DEFINE L == [n \in 0 .. m |-> Level(n)]
<1>3. \A n \in 0 .. m : L[n] = Level(n)
  OBVIOUS
<1>4. ASSUME NEW n \in 1 .. m PROVE L[n] = L[n - 1] + bank[n].amt
  <2>1. Level(n) = bank[n].level
    BY DEF Level
  <2>2. bank[n].level = Level(n - 1) + bank[n].amt
    BY <1>0 DEF RowsOK
  <2>3. n \in 0 .. m /\ n - 1 \in 0 .. m
    OBVIOUS
  <2> HIDE DEF L
  <2> QED BY <1>3, <2>1, <2>2, <2>3
<1>5. L \in [0 .. m -> Int]
  BY <1>2
<1>6. Chain(bank, L)
  <2> HIDE DEF L
  <2> QED BY <1>0, <1>4, <1>5 DEF Chain
<1> QED BY <1>0, <1>2, <1>6

\* Every row and every reading is one of the history of an account.
THEOREM Invariance == Spec => []HistoryOK
<1>1. Init => HistoryOK
  <2> SUFFICES ASSUME Init PROVE HistoryOK
    OBVIOUS
  <2>1. today = 0 /\ bank = << >> /\ readings = << >> /\ 0 \in 0 .. Horizon
    BY SeriesAssumption DEF Init
  <2>2. RowsOK
    BY <2>1 DEF RowsOK, Sorted
  <2>3. ReadingsOK
    BY <2>1 DEF ReadingsOK, Sorted
  <2> QED BY <2>1, <2>2, <2>3 DEF HistoryOK
<1>2. HistoryOK /\ [Next]_vars => HistoryOK'
  <2> SUFFICES ASSUME HistoryOK, [Next]_vars PROVE HistoryOK'
    OBVIOUS
  <2>0. PICK m \in Nat, l \in Nat : m = Len(bank) /\ l = Len(readings)
    BY DEF HistoryOK, RowsOK, ReadingsOK
  <2>r. /\ today \in Nat /\ today \in 0 .. Horizon /\ bank \in Seq(Row) /\ readings \in Seq(Reading)
        /\ \A i \in 1 .. m : /\ bank[i] \in Row /\ bank[i].day <= today
                             /\ bank[i].level = Level(i - 1) + bank[i].amt
                             /\ bank[i].lost => ~bank[i].covered
        /\ \A i, j \in 1 .. m : i <= j => bank[i].day <= bank[j].day
        /\ \A i \in 1 .. l : readings[i] \in Reading /\ ReadingAgrees(readings[i])
        /\ \A i, j \in 1 .. l : i <= j => readings[i].day <= readings[j].day
    BY <2>0 DEF HistoryOK, RowsOK, ReadingsOK, Sorted
  <2>d. ASSUME NEW d \in 0 .. Horizon, OnDay(d)
        PROVE  /\ d \in Nat /\ today <= d /\ today' = d
               /\ \A i \in 1 .. m : bank[i].day <= d
               /\ \A i \in 1 .. l : readings[i].day <= d
    <3>1. d \in Nat /\ today <= d /\ today' = d
      BY <2>d, <2>r DEF OnDay
    <3>2. ASSUME NEW i \in 1 .. m PROVE bank[i].day <= d
      <4>1. bank[i].day \in Nat /\ bank[i].day <= today
        BY <2>r, RowFields
      <4> QED BY <2>r, <3>1, <4>1
    <3>3. ASSUME NEW i \in 1 .. l PROVE readings[i].day <= d
      <4>1. readings[i].day \in Nat /\ readings[i].day <= today
        BY <2>r, ReadingFields DEF ReadingAgrees
      <4> QED BY <2>r, <3>1, <4>1
    <3> QED BY <3>1, <3>2, <3>3
  <2>1. ASSUME NEW d \in 0 .. Horizon, NEW kind \in Kinds, NEW covered \in BOOLEAN, NEW lost \in BOOLEAN,
               Post(d, kind, covered, lost)
        PROVE  HistoryOK'
    <3> DEFINE r == [day |-> d, amt |-> kind.amt, internal |-> kind.internal,
                     level |-> Level(m) + kind.amt, covered |-> covered, lost |-> lost]
    <3>d. /\ d \in Nat /\ today' = d
          /\ \A i \in 1 .. m : bank[i].day <= d
          /\ \A i \in 1 .. l : readings[i].day <= d
      BY <2>1, <2>d DEF Post
    <3>1. r \in Row
      <4>1. kind.amt \in Int /\ kind.internal \in BOOLEAN
        BY SeriesAssumption
      <4>2. Level(m) \in Int
        BY <2>0, LevelsChain DEF HistoryOK
      <4>3. Level(m) + kind.amt \in Int
        BY <4>1, <4>2
      <4> QED BY <3>d, <4>1, <4>3 DEF Row
    <3>2. bank' = Append(bank, r) /\ today' = d /\ readings' = readings /\ (lost => ~covered)
      BY <2>0, <2>1, <3>d DEF Post
    <3>3. r.day = d /\ r.level = Level(m) + r.amt /\ (r.lost => ~r.covered)
      BY <3>2
    <3> HIDE DEF r
    <3>4. /\ bank' \in Seq(Row) /\ Len(bank') = m + 1 /\ bank'[m + 1] = r
          /\ \A i \in 1 .. m : bank'[i] = bank[i]
      BY <2>0, <2>r, <3>1, <3>2
    <3>5. \A n \in 0 .. m : Level(n)' = Level(n)
      BY <3>4 DEF Level
    <3>6. RowsOK'
      <4>1. ASSUME NEW i \in 1 .. m + 1
            PROVE  /\ bank'[i].day <= today'
                   /\ bank'[i].level = Level(i - 1)' + bank'[i].amt
                   /\ bank'[i].lost => ~bank'[i].covered
        <5>1. CASE i = m + 1
          <6>1. bank'[i] = r /\ i - 1 = m /\ Level(m)' = Level(m)
            BY <3>4, <3>5, <5>1
          <6> QED BY <3>2, <3>3, <3>d, <6>1
        <5>2. CASE i \in 1 .. m
          <6>1. bank'[i] = bank[i] /\ Level(i - 1)' = Level(i - 1)
            BY <3>4, <3>5, <5>2
          <6> QED BY <2>r, <3>d, <5>2, <6>1
        <5> QED BY <5>1, <5>2
      <4>2. ASSUME NEW i \in 1 .. m + 1, NEW j \in 1 .. m + 1, i <= j PROVE bank'[i].day <= bank'[j].day
        <5>1. CASE j = m + 1
          BY <3>2, <3>3, <3>4, <4>1, <5>1
        <5>2. CASE i \in 1 .. m /\ j \in 1 .. m
          BY <2>r, <3>4, <4>2, <5>2
        <5> QED BY <4>2, <5>1, <5>2
      <4> QED BY <3>4, <4>1, <4>2 DEF RowsOK, Sorted
    <3>7. ASSUME NEW i \in 1 .. l PROVE ReadingAgrees(readings[i])'
      <4>1. PICK x \in Reading : x = readings[i] /\ readings'[i] = x /\ ReadingAgrees(x)
        BY <2>r, <3>2
      <4>2. x.seen \in 0 .. m /\ x.balance = Level(x.seen) /\ x.day <= d
        BY <2>0, <3>d, <4>1, ReadingFields DEF ReadingAgrees
      <4>3. x.balance = Level(x.seen)'
        BY <3>5, <4>2
      <4>4. ASSUME NEW n \in 1 .. m + 1
            PROVE  IF n <= x.seen THEN bank'[n].day <= x.day ELSE bank'[n].day >= x.day
        <5>1. CASE n = m + 1
          BY <3>3, <3>4, <4>2, <5>1
        <5>2. CASE n \in 1 .. m
          BY <2>0, <3>4, <4>1, <5>2 DEF ReadingAgrees
        <5> QED BY <5>1, <5>2
      <4>5. x.seen <= m + 1 /\ x.day <= today'
        BY <3>2, <4>2
      <4> QED BY <3>4, <4>1, <4>3, <4>4, <4>5 DEF ReadingAgrees
    <3>8. ReadingsOK'
      BY <2>0, <2>r, <3>2, <3>7 DEF ReadingsOK, Sorted
    <3> QED BY <3>2, <3>6, <3>8 DEF HistoryOK
  <2>2. ASSUME NEW d \in 0 .. Horizon, TakeReading(d) PROVE HistoryOK'
    <3> DEFINE x == [day |-> d, balance |-> Level(m), seen |-> m]
    <3>d. /\ d \in Nat /\ today' = d
          /\ \A i \in 1 .. m : bank[i].day <= d
          /\ \A i \in 1 .. l : readings[i].day <= d
      BY <2>2, <2>d DEF TakeReading
    <3>1. x \in Reading /\ x.day = d /\ x.balance = Level(m) /\ x.seen = m
      <4>1. Level(m) \in Int
        BY <2>0, LevelsChain DEF HistoryOK
      <4> QED BY <2>0, <3>d, <4>1 DEF Reading
    <3>2. readings' = Append(readings, x) /\ bank' = bank /\ today' = d
      BY <2>0, <2>2, <3>d DEF TakeReading
    <3> HIDE DEF x
    <3>3. /\ readings' \in Seq(Reading) /\ Len(readings') = l + 1 /\ readings'[l + 1] = x
          /\ \A i \in 1 .. l : readings'[i] = readings[i]
      BY <2>0, <2>r, <3>1, <3>2
    <3>l. \A n \in 0 .. m : Level(n)' = Level(n)
      BY <3>2 DEF Level
    <3>4. RowsOK'
      <4>1. ASSUME NEW i \in 1 .. m
            PROVE  /\ bank[i].day <= today' /\ bank[i].level = Level(i - 1)' + bank[i].amt
                   /\ bank[i].lost => ~bank[i].covered
        <5>1. Level(i - 1)' = Level(i - 1)
          BY <3>l
        <5> QED BY <2>r, <3>2, <3>d, <5>1
      <4> QED BY <2>0, <2>r, <3>2, <4>1 DEF RowsOK, Sorted
    <3>5. ASSUME NEW i \in 1 .. l + 1 PROVE ReadingAgrees(readings[i])'
      <4>1. CASE i = l + 1
        <5>1. \A n \in 1 .. m : bank'[n].day <= x.day /\ n <= x.seen
          BY <3>1, <3>2, <3>d
        <5>2. x.balance = Level(m)' /\ x.seen = m /\ Len(bank') = m
          BY <2>0, <3>1, <3>2 DEF Level
        <5>3. readings'[i] = x /\ x.day <= today'
          BY <3>1, <3>2, <3>3, <4>1
        <5> QED BY <5>1, <5>2, <5>3 DEF ReadingAgrees
      <4>2. CASE i \in 1 .. l
        <5>1. PICK x0 \in Reading : x0 = readings[i] /\ readings'[i] = x0 /\ ReadingAgrees(x0)
          BY <2>r, <3>3, <4>2
        <5>2. x0.day <= today'
          BY <3>2, <3>d, <4>2, <5>1
        <5> QED BY <3>2, <5>1, <5>2 DEF ReadingAgrees, Level
      <4> QED BY <4>1, <4>2
    <3>6. ASSUME NEW i \in 1 .. l + 1, NEW j \in 1 .. l + 1, i <= j PROVE readings'[i].day <= readings'[j].day
      <4>1. CASE j = l + 1
        <5>1. readings'[i] \in Reading /\ readings'[j].day = d
          BY <3>1, <3>3, <4>1
        <5>2. readings'[i].day <= d
          BY <3>2, <3>5 DEF ReadingAgrees
        <5> QED BY <5>1, <5>2
      <4>2. CASE i \in 1 .. l /\ j \in 1 .. l
        BY <2>r, <3>3, <3>6, <4>2
      <4> QED BY <3>6, <4>1, <4>2
    <3>7. ReadingsOK'
      BY <3>3, <3>5, <3>6 DEF ReadingsOK, Sorted
    <3> QED BY <2>r, <3>2, <3>4, <3>7 DEF HistoryOK
  <2>3. CASE UNCHANGED vars
    BY <2>3 DEF vars, HistoryOK, RowsOK, ReadingsOK, Sorted, ReadingAgrees, Level
  <2> QED BY <2>1, <2>2, <2>3 DEF Next
<1> QED BY <1>1, <1>2, PTL DEF Spec

-----------------------------------------------------------------------------
(* Pages *)

LEMMA ExternalIs ==
    ASSUME NEW V, NEW s \in Seq(V) PROVE External(s) = Keep(s, {r \in V : ~r.internal})
<1>1. \A n \in 1 .. Len(s) : s[n] \in Range(s) /\ s[n] \in V
  BY DEF Range
<1> QED BY <1>1, KeepSame DEF External

LEMMA RowsIs ==
    ASSUME RowsOK PROVE Rows = Keep(bank, {r \in Row : ~r.lost}) /\ Rows \in Seq(Row) /\ Sorted(Rows)
<1>0. PICK b \in Seq(Row) : b = bank /\ Sorted(b)
  BY DEF RowsOK
<1>1. \A n \in 1 .. Len(b) : b[n] \in Range(b) /\ b[n] \in Row
  BY DEF Range
<1>2. Keep(b, {r \in Range(b) : ~r.lost}) = Keep(b, {r \in Row : ~r.lost})
  BY <1>1, KeepSame
<1>3. Keep(b, {r \in Row : ~r.lost}) \in Seq(Row)
  BY KeepElements
<1>4. Sorted(Keep(b, {r \in Row : ~r.lost}))
  BY <1>0, RowFields, KeepSorted
<1> QED BY <1>0, <1>2, <1>3, <1>4 DEF Rows

LEMMA ReverseIs == ASSUME NEW V, NEW s \in Seq(V) PROVE Reverse(s) \in Seq(V)
<1>0. PICK m \in Nat : m = Len(s)
  OBVIOUS
<1>1. \A i \in 1 .. m : (m - i) + 1 \in 1 .. m /\ s[(m - i) + 1] \in V
  BY <1>0
<1>2. [i \in 1 .. m |-> s[(m - i) + 1]] \in Seq(V)
  BY <1>1
<1> QED BY <1>0, <1>2 DEF Reverse

\* A page of a beginning of s is a page of s, cut where the beginning ends.
PagesAgree(s, l, o, t) ==
    /\ Len(SubSeq(s, 1, l)) = l
    /\ SubSeq(SubSeq(s, 1, l), Least({o, l}) + 1, Least({o + t, l})) = SubSeq(s, o + 1, Least({o + t, l}))

LEMMA PageOfBeginning ==
    ASSUME NEW V, NEW s \in Seq(V), NEW l \in 0 .. Len(s), NEW o \in Nat, NEW t \in Nat
    PROVE  PagesAgree(s, l, o, t)
<1>0. PICK m \in Nat : m = Len(s) /\ l \in Nat /\ l <= m
  OBVIOUS
<1>1. PICK k \in Seq(V) : k = SubSeq(s, 1, l) /\ Len(k) = l /\ \A j \in 1 .. l : k[j] = s[j]
  <2>1. PICK p \in Nat : p = 0
    OBVIOUS
  <2>2. /\ SubSeq(s, p + 1, l) \in Seq(V) /\ Len(SubSeq(s, p + 1, l)) = l - p
        /\ \A j \in 1 .. l - p : SubSeq(s, p + 1, l)[j] = s[p + j]
    <3>1. Piece(V, s, p, l)
      BY <1>0, <2>1, SliceIs
    <3> QED BY <3>1, Zenon DEF Piece
  <2>3. p + 1 = 1 /\ l - p = l /\ \A j \in 1 .. l : p + j = j
    BY <1>0, <2>1
  <2> QED BY <2>2, <2>3
<1>2. PICK a \in Nat, b \in Nat : /\ a = Least({o, l}) /\ a = (IF o <= l THEN o ELSE l)
                                  /\ b = Least({o + t, l}) /\ b = (IF o + t <= l THEN o + t ELSE l)
  BY <1>0, LeastOfTwo
<1>3. a <= b /\ b <= m /\ b <= Len(k) /\ (a = o \/ (a = b /\ b <= o))
  BY <1>0, <1>1, <1>2
<1>4. CASE a = o
  <2>1. PICK x \in Seq(V) : /\ x = SubSeq(k, a + 1, b) /\ Len(x) = b - a
                            /\ \A j \in 1 .. b - a : x[j] = k[a + j]
    <3>1. /\ SubSeq(k, a + 1, b) \in Seq(V) /\ Len(SubSeq(k, a + 1, b)) = b - a
          /\ \A j \in 1 .. b - a : SubSeq(k, a + 1, b)[j] = k[a + j]
      <4>1. Piece(V, k, a, b)
        BY <1>3, SliceIs
      <4> QED BY <4>1, Zenon DEF Piece
    <3> QED BY <3>1
  <2>2. PICK y \in Seq(V) : /\ y = SubSeq(s, a + 1, b) /\ Len(y) = b - a
                            /\ \A j \in 1 .. b - a : y[j] = s[a + j]
    <3>1. /\ SubSeq(s, a + 1, b) \in Seq(V) /\ Len(SubSeq(s, a + 1, b)) = b - a
          /\ \A j \in 1 .. b - a : SubSeq(s, a + 1, b)[j] = s[a + j]
      <4>1. Piece(V, s, a, b)
        BY <1>0, <1>3, SliceIs
      <4> QED BY <4>1, Zenon DEF Piece
    <3> QED BY <3>1
  <2>3. \A j \in 1 .. b - a : k[a + j] = s[a + j]
    <3>1. b <= l
      BY <1>0, <1>2
    <3>2. ASSUME NEW j \in 1 .. b - a PROVE a + j \in 1 .. l
      <4>1. a \in Nat /\ b \in Nat /\ l \in Nat
        BY <1>0, <1>2
      <4> QED BY <3>1, <4>1
    <3> QED BY <1>1, <3>2
  <2>4. x = y
    BY <2>1, <2>2, <2>3, SeqEqual
  <2> QED BY <1>1, <1>2, <1>4, <2>1, <2>2, <2>4 DEF PagesAgree
<1>5. CASE a # o
  <2>1. a = b /\ b <= o
    BY <1>3, <1>5
  <2>2. SubSeq(k, a + 1, b) = << >>
    BY <1>2, <2>1
  <2>3. SubSeq(s, o + 1, b) = << >>
    BY <1>2, <2>1
  <2> QED BY <1>1, <1>2, <2>2, <2>3 DEF PagesAgree
<1> QED BY <1>4, <1>5

\* read.go, external_only, for pages of any size and any cap: pages put end to end are
\* the external rows, newest first.
LEMMA PagesOfHistory == ASSUME HistoryOK PROVE PagesAddUp
<1> SUFFICES ASSUME NEW from \in Ends, NEW limit \in 1 .. 2, NEW cap \in Caps
             PROVE  LET Page(k) == ExternalPage(from, limit, k * limit, cap)
                        total == Page(0).total
                        ext   == External(Reverse(Within(Rows, from, Null)))
                    IN  /\ \A k \in 0 .. MaxPosts :
                              Page(k).rows = SubSeq(ext, k * limit + 1, Least({k * limit + limit, total}))
                        /\ total <= Len(ext) /\ (~Page(0).truncated => total = Len(ext))
  BY DEF PagesAddUp
<1> DEFINE match == Reverse(Within(Rows, from, Null))
           over  == from = Null /\ Len(match) > cap
           some  == External(IF over THEN SubSeq(match, 1, cap) ELSE match)
           ext   == External(match)
<1>1. match \in Seq(Row)
  <2>1. Within(Rows, from, Null) \in Seq(Row)
    BY RowsIs, WithinIs, KeepElements DEF HistoryOK
  <2> QED BY <2>1, ReverseIs
<1> HIDE DEF match
<1>2. ext \in Seq(Row)
  <2>1. Keep(match, {r \in Row : ~r.internal}) \in Seq(Row)
    BY <1>1, KeepElements
  <2> QED BY <1>1, <2>1, ExternalIs
<1>3. PICK l \in 0 .. Len(ext) : some = SubSeq(ext, 1, l) /\ (~over => l = Len(ext))
  <2>1. CASE over
    <3>1. cap \in 0 .. Len(match)
      BY <1>1, <2>1, SeriesAssumption
    <3>2. SubSeq(match, 1, cap) \in Seq(Row)
      BY <1>1, <3>1
    <3>3. some = Keep(SubSeq(match, 1, cap), {r \in Row : ~r.internal})
      BY <2>1, <3>2, ExternalIs
    <3>4. ext = Keep(match, {r \in Row : ~r.internal})
      BY <1>1, ExternalIs
    <3>5. \E l \in 0 .. Len(Keep(match, {r \in Row : ~r.internal})) :
             Keep(SubSeq(match, 1, cap), {r \in Row : ~r.internal})
                 = SubSeq(Keep(match, {r \in Row : ~r.internal}), 1, l)
      BY <1>1, <3>1, KeepBeginning
    <3> QED BY <2>1, <3>3, <3>4, <3>5
  <2>2. CASE ~over
    <3>1. some = ext /\ Len(ext) \in 0 .. Len(ext) /\ ext = SubSeq(ext, 1, Len(ext))
      BY <1>2, <2>2
    <3> QED BY <3>1
  <2> QED BY <2>1, <2>2
<1>4. ASSUME NEW o \in Nat
      PROVE  LET page == ExternalPage(from, limit, o, cap)
             IN  /\ page.rows = SubSeq(some, Least({o, Len(some)}) + 1, Least({o + limit, Len(some)}))
                 /\ page.total = Len(some) /\ page.truncated = over
  BY DEF ExternalPage, match
<1> HIDE DEF some, ext, over
<1>5. Len(some) = l
  BY <1>2, <1>3
<1>6. ASSUME NEW k \in 0 .. MaxPosts
      PROVE  /\ k * limit \in Nat
             /\ ExternalPage(from, limit, k * limit, cap).rows
                    = SubSeq(ext, k * limit + 1, Least({k * limit + limit, l}))
  <2>1. k \in Nat /\ limit \in Nat
    OBVIOUS
  <2>2. PICK o \in Nat : o = k * limit
    BY <2>1
  <2>3. ExternalPage(from, limit, o, cap).rows = SubSeq(some, Least({o, l}) + 1, Least({o + limit, l}))
    BY <1>4, <1>5
  <2>4. SubSeq(SubSeq(ext, 1, l), Least({o, l}) + 1, Least({o + limit, l})) = SubSeq(ext, o + 1, Least({o + limit, l}))
    <3>1. PICK e \in Seq(Row) : e = ext /\ l \in 0 .. Len(e)
      BY <1>2, <1>3
    <3>2. PagesAgree(e, l, o, limit)
      BY <2>1, <2>2, <3>1, PageOfBeginning
    <3> QED BY <3>1, <3>2 DEF PagesAgree
  <2> QED BY <1>3, <2>2, <2>3, <2>4
<1>7. /\ ExternalPage(from, limit, 0 * limit, cap).total = l
      /\ ExternalPage(from, limit, 0 * limit, cap).truncated = over
  <2>1. 0 * limit = 0 /\ 0 \in Nat
    OBVIOUS
  <2> QED BY <1>4, <1>5, <2>1
<1>8. l <= Len(ext)
  BY <1>2
<1> QED BY <1>3, <1>6, <1>7, <1>8 DEF ext, match

-----------------------------------------------------------------------------
(* Spans of days *)

Timeline(V, s) == s \in Seq(V) /\ Sorted(s) /\ \A r \in V : r.day \in Int

\* How many rows come before a day, and where a span begins and ends.
CutAt(s, d) == CHOOSE p : Cut(s, d, p)
After(s, d) == IF d = Null THEN 0 ELSE CutAt(s, d)
Before(s, d) == IF d = Null THEN Len(s) ELSE CutAt(s, d)

LEMMA CutAtIs ==
    ASSUME NEW V, NEW s, Timeline(V, s), NEW d \in Int
    PROVE  CutAt(s, d) \in 0 .. Len(s) /\ \A n \in 1 .. Len(s) : s[n].day < d <=> n <= CutAt(s, d)
<1>1. \E p : Cut(s, d, p)
  BY CutExists DEF Timeline
<1>2. Cut(s, d, CutAt(s, d))
  BY <1>1 DEF CutAt
<1> QED BY <1>2 DEF Cut

LEMMA CutAtMono ==
    ASSUME NEW V, NEW s, Timeline(V, s), NEW d \in Int, NEW e \in Int, d <= e
    PROVE  CutAt(s, d) <= CutAt(s, e)
<1>1. PICK p, q : p = CutAt(s, d) /\ q = CutAt(s, e)
  OBVIOUS
<1>2. Cut(s, d, p)
  BY <1>1, CutAtIs DEF Cut
<1>3. Cut(s, e, q)
  BY <1>1, CutAtIs DEF Cut
<1>4. p \in 0 .. Len(s) /\ q \in 0 .. Len(s) /\ p <= q
  BY <1>2, <1>3, CutMono DEF Timeline
<1> QED BY <1>1, <1>4

\* The rows of a span are those from where it begins to where it ends.
Spans(s, from, to) ==
    /\ After(s, from) \in 0 .. Len(s) /\ Before(s, to) \in 0 .. Len(s) /\ After(s, from) <= Before(s, to)
    /\ Within(s, from, to) = SubSeq(s, After(s, from) + 1, Before(s, to))
    /\ Within(s, from, to) # << >> <=> After(s, from) < Before(s, to)
    /\ After(s, from) < Before(s, to) =>
          Within(s, from, to)[1] = s[After(s, from) + 1] /\ Last(Within(s, from, to)) = s[Before(s, to)]

LEMMA SpanIs ==
    ASSUME NEW V, NEW s, Timeline(V, s), NEW from \in Int \cup {Null}, NEW to \in Int \cup {Null},
           from # Null /\ to # Null => from <= to
    PROVE  Spans(s, from, to)
<1>0. PICK p, q : p = After(s, from) /\ q = Before(s, to)
  OBVIOUS
<1>n. Null \notin Int
  BY SeriesAssumption
<1>1. CutFrom(s, from, p)
  <2>1. CASE from = Null
    BY <1>0, <2>1 DEF CutFrom, After
  <2>2. CASE from \in Int
    BY <1>n, <1>0, <2>2, CutAtIs DEF CutFrom, After, Cut
  <2> QED BY <2>1, <2>2
<1>2. CutTo(s, to, q)
  <2>1. CASE to = Null
    BY <1>0, <2>1 DEF CutTo, Before
  <2>2. CASE to \in Int
    BY <1>n, <1>0, <2>2, CutAtIs DEF CutTo, Before, Cut
  <2> QED BY <2>1, <2>2
<1>3. p \in 0 .. Len(s) /\ q \in 0 .. Len(s) /\ p <= q /\ Within(s, from, to) = SubSeq(s, p + 1, q)
  <2>1. s \in Seq(V) /\ \A r \in V : r.day \in Int
    BY DEF Timeline
  <2>2. Slices(s, from, to, p, q)
    BY <1>n, <1>1, <1>2, <2>1, WithinSlice
  <2> QED BY <2>2 DEF Slices
<1>4. PICK m \in Nat : m = Len(s) /\ s \in Seq(V) /\ p \in Nat /\ q \in Nat /\ q <= m
  BY <1>3 DEF Timeline
<1>5. PICK k \in Seq(V) : /\ k = SubSeq(s, p + 1, q) /\ Len(k) = q - p
                          /\ \A j \in 1 .. q - p : k[j] = s[p + j]
  <2>1. /\ SubSeq(s, p + 1, q) \in Seq(V) /\ Len(SubSeq(s, p + 1, q)) = q - p
        /\ \A j \in 1 .. q - p : SubSeq(s, p + 1, q)[j] = s[p + j]
    <3>1. Piece(V, s, p, q)
      BY <1>3, <1>4, SliceIs
    <3> QED BY <3>1, Zenon DEF Piece
  <2> QED BY <2>1
<1>6. k # << >> <=> p < q
  BY <1>3, <1>4, <1>5
<1>7. ASSUME p < q PROVE k[1] = s[p + 1] /\ Last(k) = s[q]
  <2>1. 1 \in 1 .. q - p /\ q - p \in 1 .. q - p /\ p + (q - p) = q
    BY <1>4, <1>7
  <2> QED BY <1>5, <2>1 DEF Last
<1> QED BY <1>0, <1>3, <1>5, <1>6, <1>7 DEF Spans

\* One that ends before it begins has none.
LEMMA SpanReversed ==
    ASSUME NEW V, NEW s, Timeline(V, s), NEW from \in Int, NEW to \in Int, to <= from
    PROVE  Within(s, from, to) = << >>
<1>1. s \in Seq(V) /\ \A r \in V : r.day \in Int
  BY DEF Timeline
<1>2. \A n \in 1 .. Len(s) : s[n] \notin Dated(V, from, to)
  <2> SUFFICES ASSUME NEW n \in 1 .. Len(s), s[n] \in Dated(V, from, to) PROVE FALSE
    OBVIOUS
  <2>1. s[n].day \in Int /\ s[n].day >= from /\ s[n].day < to
    BY <1>1, SeriesAssumption DEF Dated
  <2> QED BY <2>1
<1>3. Keep(s, Dated(V, from, to)) = << >>
  BY <1>1, <1>2, KeepElements
<1> QED BY <1>1, <1>3, WithinIs

\* A span of what a wider span left.
LEMMA SpanOfSpan ==
    ASSUME NEW V, NEW s, Timeline(V, s),
           NEW a \in Int \cup {Null}, NEW b \in Int \cup {Null}, NEW c \in Int, NEW d \in Int,
           a = Null \/ a <= c, b = Null \/ d <= b
    PROVE  Within(Within(s, a, b), c, d) = Within(s, c, d)
BY SeriesAssumption, WithinWithin DEF Timeline

LEMMA SpanTimeline ==
    ASSUME NEW V, NEW s, Timeline(V, s), NEW a, NEW b
    PROVE  Timeline(V, Within(s, a, b))
<1>1. s \in Seq(V)
  BY DEF Timeline
<1>2. Within(s, a, b) = Keep(s, Dated(V, a, b))
  BY <1>1, WithinIs
<1>3. Keep(s, Dated(V, a, b)) \in Seq(V)
  BY <1>1, KeepElements
<1>4. Sorted(Keep(s, Dated(V, a, b)))
  BY <1>1, KeepSorted DEF Timeline
<1> QED BY <1>2, <1>3, <1>4 DEF Timeline

-----------------------------------------------------------------------------
(* The series of readings *)

LEMMA BucketsIs ==
    ASSUME NEW w \in Nat \ {0}, NEW lo, NEW hi \in Int, Multiple(lo, w), NEW b
    PROVE  /\ b \in Buckets(lo, hi, w) <=> Multiple(b, w) /\ lo <= b /\ b <= hi
           /\ b \in Buckets(lo, hi, w) <=> Multiple(b, w) /\ lo <= b /\ b <= Start(hi, w)
<1>1. lo \in Int
  BY DEF Multiple
<1>2. b \in Buckets(lo, hi, w) <=> Multiple(b, w) /\ lo <= b /\ b <= hi
  BY <1>1 DEF Buckets, Multiple
<1>3. ASSUME Multiple(b, w) PROVE b <= hi <=> b <= Start(hi, w)
  BY <1>3, BucketOf
<1> QED BY <1>2, <1>3

\* The last reading of those known when a bucket is over, as the code has it: that of the
\* bucket, that of an earlier one, or the one before the window.
LEMMA SnapshotsOfHistory == ASSUME HistoryOK PROVE SnapshotIsTheLastReading
<1> SUFFICES ASSUME NEW from \in Ends, NEW to \in Ends, NEW w \in Widths
             PROVE  LET pts == SnapshotSeries(from, to, w) IN
                    /\ \A b \in DOMAIN pts :
                          LET known == Within(readings, Null, b + w)
                          IN  /\ known # << >> /\ pts[b].balance = Last(known).balance
                              /\ pts[b].carried <=> Last(known).day < b
                    /\ from # Null /\ to # Null =>
                          DOMAIN pts = {b \in Buckets(Start(from, w), to, w) : Within(readings, Null, b + w) # << >>}
  BY DEF SnapshotIsTheLastReading
<1> DEFINE F == IF from = Null THEN Null ELSE Start(from, w)
           T == IF to = Null THEN Null ELSE Start(to, w) + w
           kept == Within(readings, F, T)
           prime == Prime(from, w)
           first == Start(kept[1].day, w)
           lo == IF prime = Null /\ kept # << >>
                 THEN IF from = Null THEN first ELSE Most({first, Start(from, w)})
                 ELSE Start(from, w)
           hi == IF to # Null THEN Start(to, w)
                 ELSE IF kept # << >> THEN Start(Last(kept).day, w) ELSE lo
           Close(b) == Last(In(kept, b, w)).balance
           Earlier(b) == {c \in Buckets(lo, b - 1, w) : In(kept, c, w) # << >>}
           Point(b) == IF In(kept, b, w) # << >> THEN [balance |-> Close(b), carried |-> FALSE]
                       ELSE [balance |-> IF Earlier(b) # {} THEN Close(Most(Earlier(b))) ELSE prime,
                             carried |-> TRUE]
           pts == SnapshotSeries(from, to, w)
           Known(b) == Within(readings, Null, b + w)
           C(d) == CutAt(readings, d)
           N == Len(readings)
<1>1. Timeline(Reading, readings) /\ N \in Nat /\ \A n \in 1 .. N : readings[n].day \in Int /\ readings[n].balance \in Int
  BY ReadingFields DEF HistoryOK, ReadingsOK, Timeline
<1>2. /\ w \in Nat \ {0} /\ Null \notin Int /\ from \in Int \cup {Null} /\ to \in Int \cup {Null}
      /\ F \in Int \cup {Null} /\ T \in Int \cup {Null}
      /\ from # Null => from \in Int /\ Multiple(F, w) /\ F = Start(from, w)
      /\ to # Null => to \in Int /\ Multiple(Start(to, w), w) /\ T = Start(to, w) + w /\ Start(to, w) <= to /\ to < T
  <2>1. w \in Nat \ {0} /\ Null \notin Int /\ from \in Int \cup {Null} /\ to \in Int \cup {Null}
    BY SeriesAssumption DEF Ends, Days
  <2>2. from # Null => from \in Int /\ Multiple(F, w) /\ F = Start(from, w)
    BY <2>1, StartIs
  <2>3. to # Null => to \in Int /\ Multiple(Start(to, w), w) /\ T = Start(to, w) + w /\ Start(to, w) <= to /\ to < T
    BY <2>1, StartIs
  <2> QED BY <2>1, <2>2, <2>3 DEF Multiple
<1>3. pts = IF kept = << >> /\ prime = Null THEN << >> ELSE [b \in Buckets(lo, hi, w) |-> Point(b)]
  BY DEF SnapshotSeries
<1>4. \A d \in Int : C(d) \in 0 .. N /\ \A n \in 1 .. N : readings[n].day < d <=> n <= C(d)
  BY <1>1, CutAtIs
<1>5. \A d, e \in Int : d <= e => C(d) <= C(e)
  BY <1>1, CutAtMono
<1>c. /\ \A d \in Int : Before(readings, d) = C(d) /\ After(readings, d) = C(d)
      /\ After(readings, Null) = 0 /\ Before(readings, Null) = N
  BY <1>2 DEF After, Before
<1> HIDE DEF C, N
<1>6. ASSUME NEW b \in Int
      PROVE  /\ Known(b) # << >> <=> C(b + w) # 0
             /\ C(b + w) # 0 => Last(Known(b)) = readings[C(b + w)]
  <2>0. b + w \in Int
    BY <1>2
  <2>1. Spans(readings, Null, b + w)
    BY <1>1, <1>2, <2>0, SpanIs
  <2>2. After(readings, Null) = 0 /\ Before(readings, b + w) = C(b + w)
    BY <1>c, <2>0
  <2>3. C(b + w) \in 0 .. N
    BY <1>4, <2>0
  <2> QED BY <1>1, <2>1, <2>2, <2>3 DEF Spans
<1>7. CASE F # Null /\ T # Null /\ T < F
  <2>1. from # Null /\ to # Null /\ from \in Int /\ to \in Int /\ F = Start(from, w) /\ T = Start(to, w) + w
    BY <1>2, <1>7
  <2>2. kept = << >>
    BY <1>1, <1>2, <1>7, SpanReversed
  <2>3. lo = F /\ hi = Start(to, w)
    BY <2>1, <2>2
  <2>4. Buckets(Start(from, w), to, w) = {} /\ Buckets(lo, hi, w) = {}
    <3>1. Start(to, w) \in Int /\ F \in Int /\ Start(to, w) < F /\ to < F
      BY <1>2, <1>7, <2>1 DEF Multiple
    <3> HIDE DEF lo, hi, F
    <3> QED BY <2>1, <2>3, <3>1 DEF Buckets
  <2>5. DOMAIN pts = {}
    <3> HIDE DEF lo, hi, kept, prime, Point, pts
    <3> QED BY <1>3, <2>4
  <2> QED BY <2>4, <2>5
<1>8. CASE ~(F # Null /\ T # Null /\ T < F)
  <2> DEFINE A == After(readings, F)
             Z == Before(readings, T)
  <2>1. Spans(readings, F, T)
    <3>1. F # Null /\ T # Null => F <= T
      BY <1>2, <1>8
    <3> HIDE DEF F, T
    <3> QED BY <1>1, <1>2, <3>1, SpanIs
  <2>2. /\ A \in 0 .. N /\ Z \in 0 .. N /\ A <= Z /\ (kept # << >> <=> A < Z)
        /\ A < Z => kept[1] = readings[A + 1] /\ Last(kept) = readings[Z]
    <3> HIDE DEF F, T
    <3> QED BY <2>1 DEF Spans, N
  <2>3. /\ from = Null => A = 0
        /\ from # Null => A = C(F)
        /\ to = Null => Z = N
        /\ to # Null => Z = C(T)
    <3>1. (from = Null => F = Null) /\ (from # Null => F \in Int)
      BY <1>2 DEF Multiple
    <3>2. (to = Null => T = Null) /\ (to # Null => T \in Int)
      BY <1>2 DEF Multiple
    <3> HIDE DEF F, T
    <3> QED BY <1>c, <3>1, <3>2
  \* The level the window opens with.
  <2>4. /\ prime = Null <=> from = Null \/ A = 0
        /\ from # Null /\ A # 0 => prime = readings[A].balance
    <3>1. CASE from = Null
      BY <3>1 DEF Prime
    <3>2. CASE from # Null
      <4>1. Spans(readings, Null, F)
        BY <1>1, <1>2, <3>2, SpanIs
      <4>2. After(readings, Null) = 0 /\ Before(readings, F) = A
        <5>1. F \in Int /\ A = C(F)
          BY <1>2, <2>3, <3>2 DEF Multiple
        <5> HIDE DEF F, A
        <5> QED BY <1>c, <5>1
      <4>3. Prime(from, w) = IF Within(readings, Null, F) = << >> THEN Null ELSE Last(Within(readings, Null, F)).balance
        BY <3>2 DEF Prime
      <4>4. A # 0 => readings[A].balance \in Int
        BY <1>1, <2>2
      <4>5. /\ Within(readings, Null, F) # << >> <=> A # 0
            /\ A # 0 => Last(Within(readings, Null, F)) = readings[A]
        <5>1. A \in 0 .. N
          BY <2>2
        <5> HIDE DEF F, A
        <5> QED BY <1>1, <4>1, <4>2, <5>1 DEF Spans
      <4>6. readings[A].balance # Null \/ A = 0
        <5> HIDE DEF A
        <5> QED BY <1>2, <4>4
      <4> HIDE DEF F, A
      <4> QED BY <3>2, <4>3, <4>5, <4>6
    <3> QED BY <3>1, <3>2
  <2>5. kept # << >> =>
           /\ first = Start(readings[A + 1].day, w) /\ Multiple(first, w) /\ readings[A + 1].day \in Int
           /\ first <= readings[A + 1].day /\ readings[A + 1].day < first + w
           /\ (from # Null => F <= first)
    <3> SUFFICES ASSUME kept # << >>
                 PROVE  /\ first = Start(readings[A + 1].day, w) /\ Multiple(first, w) /\ readings[A + 1].day \in Int
                        /\ first <= readings[A + 1].day /\ readings[A + 1].day < first + w
                        /\ (from # Null => F <= first)
      OBVIOUS
    <3>1. A + 1 \in 1 .. N /\ kept[1] = readings[A + 1] /\ readings[A + 1].day \in Int
      BY <1>1, <2>2
    <3>2. Multiple(first, w) /\ first <= readings[A + 1].day /\ readings[A + 1].day < first + w
      BY <1>2, <3>1, StartIs
    <3>3. ASSUME from # Null PROVE F <= first
      <4>1. A = C(F) /\ F \in Int /\ Multiple(F, w)
        BY <1>2, <2>3, <3>3 DEF Multiple
      <4>2. ~(readings[A + 1].day < F)
        <5> HIDE DEF F, A
        <5>1. readings[A + 1].day < F <=> A + 1 <= C(F)
          BY <1>4, <3>1, <4>1
        <5>2. A \in Int
          BY <2>2
        <5> QED BY <4>1, <5>1, <5>2
      <4>3. F <= readings[A + 1].day
        <5> HIDE DEF F, A
        <5> QED BY <3>1, <4>1, <4>2
      <4> HIDE DEF F, A
      <4> QED BY <1>2, <3>1, <4>1, <4>3, BucketOf
    <3> QED BY <3>1, <3>2, <3>3
  <2>6. CASE kept = << >> /\ prime = Null
    <3>1. pts = << >> /\ A = Z
      BY <1>3, <2>2, <2>6
    <3>2. DOMAIN pts = {}
      <4> HIDE DEF pts
      <4> QED BY <3>1
    <3>3. ASSUME from # Null, to # Null, NEW b \in Buckets(Start(from, w), to, w) PROVE Known(b) = << >>
      <4>1. b \in Int /\ b <= Start(to, w) /\ T \in Int
        BY <1>2, <3>3, BucketsIs DEF Multiple
      <4>2. b + w <= T
        <5>1. T = Start(to, w) + w /\ Start(to, w) \in Int /\ w \in Int
          BY <1>2, <3>3 DEF Multiple
        <5> HIDE DEF T
        <5> QED BY <4>1, <5>1
      <4>3. C(b + w) <= C(T) /\ C(T) = 0 /\ C(b + w) \in 0 .. N
        <5> HIDE DEF F, T, A, Z, kept, prime
        <5> QED BY <1>2, <1>4, <1>5, <2>3, <2>4, <2>6, <3>1, <3>3, <4>1, <4>2
      <4> HIDE DEF Known, C
      <4> QED BY <1>6, <4>1, <4>3
    <3> QED BY <3>2, <3>3
  <2>7. CASE kept # << >> \/ prime # Null
    <3>1. pts = [b \in Buckets(lo, hi, w) |-> Point(b)]
      BY <1>3, <2>7
    \* Where the series begins and ends.
    <3>2. /\ prime # Null => from # Null /\ A # 0 /\ lo = F
          /\ prime = Null => A = 0 /\ A < Z /\ lo = first
      <4>1. CASE prime # Null
        <5>1. from # Null /\ A # 0
          BY <2>4, <4>1
        <5> QED BY <4>1, <5>1
      <4>2. CASE prime = Null
        <5>1. kept # << >> /\ A < Z
          BY <2>2, <2>7, <4>2
        <5>2. A = 0
          BY <2>3, <2>4, <4>2
        <5>3. lo = first
          <6>1. CASE from = Null
            BY <4>2, <5>1, <6>1
          <6>2. CASE from # Null
            <7>1. lo = Most({first, F}) /\ F \in Int /\ first \in Int /\ F <= first
              BY <1>2, <2>5, <4>2, <5>1, <6>2 DEF Multiple
            <7> HIDE DEF F, first, lo
            <7> QED BY <7>1, LeastOfTwo
          <6> QED BY <6>1, <6>2
        <5> QED BY <4>2, <5>1, <5>2, <5>3
      <4> QED BY <4>1, <4>2
    <3>3. Multiple(lo, w) /\ (from # Null => F <= lo)
      <4> HIDE DEF F, lo, first, prime, kept, A, Z
      <4> QED BY <1>2, <2>2, <2>5, <3>2 DEF Multiple
    <3>4. hi \in Int /\ (to # Null => hi = Start(to, w))
      <4>1. CASE to # Null
        BY <1>2, <4>1 DEF Multiple
      <4>2. CASE to = Null /\ kept # << >>
        <5>1. Z \in 1 .. N /\ Last(kept) = readings[Z]
          <6> HIDE DEF F, T, A, Z, kept
          <6> QED BY <2>2, <4>2
        <5>2. readings[Z].day \in Int /\ hi = Start(readings[Z].day, w)
          BY <1>1, <4>2, <5>1
        <5> HIDE DEF hi, Z
        <5> QED BY <1>2, <4>2, <5>2, StartIs DEF Multiple
      <4>3. CASE to = Null /\ kept = << >>
        BY <3>3, <4>3 DEF Multiple
      <4> QED BY <4>1, <4>2, <4>3
    <3>5. \A b : b \in Buckets(lo, hi, w) <=> Multiple(b, w) /\ lo <= b /\ b <= hi
      <4> HIDE DEF lo, hi
      <4> QED BY <1>2, <3>3, <3>4, BucketsIs
    <3> HIDE DEF lo, hi, prime, first, kept, pts
    <3>f. prime = Null => /\ lo = Start(readings[1].day, w) /\ readings[1].day \in Int /\ 1 \in 1 .. N
                          /\ lo <= readings[1].day /\ readings[1].day < lo + w
      <4> SUFFICES ASSUME prime = Null
                   PROVE  /\ lo = Start(readings[1].day, w) /\ readings[1].day \in Int /\ 1 \in 1 .. N
                          /\ lo <= readings[1].day /\ readings[1].day < lo + w
        OBVIOUS
      <4>1. A = 0 /\ A < Z /\ lo = first /\ kept # << >> /\ Z \in 0 .. N
        BY <2>2, <3>2
      <4> HIDE DEF A, Z
      <4>2. A + 1 = 1 /\ 1 \in 1 .. N
        BY <1>1, <4>1
      <4> QED BY <2>5, <4>1, <4>2
    \* The readings of a bucket of the window.
    <3>6. ASSUME NEW b \in Int, from # Null => F <= b, to # Null => b + w <= T
          PROVE  /\ In(kept, b, w) # << >> <=> C(b) < C(b + w)
                 /\ C(b) < C(b + w) => Last(In(kept, b, w)) = readings[C(b + w)]
                 /\ C(b) <= C(b + w) /\ C(b) \in 0 .. N /\ C(b + w) \in 0 .. N /\ A <= C(b) /\ C(b + w) <= Z
      <4>1. In(kept, b, w) = Within(readings, b, b + w)
        <5>1. b + w \in Int /\ (F = Null \/ F <= b) /\ (T = Null \/ b + w <= T)
          BY <1>2, <3>6
        <5> HIDE DEF F, T
        <5> QED BY <1>1, <1>2, <5>1, SpanOfSpan DEF In, kept
      <4>2. Spans(readings, b, b + w)
        <5>1. b + w \in Int /\ b <= b + w
          BY <1>2
        <5> QED BY <1>1, <5>1, SpanIs
      <4>3. After(readings, b) = C(b) /\ Before(readings, b + w) = C(b + w)
        <5>1. b + w \in Int
          BY <1>2
        <5> QED BY <1>c, <5>1
      <4>4. A <= C(b) /\ C(b + w) <= Z /\ C(b) \in 0 .. N /\ C(b + w) \in 0 .. N
        <5>1. b + w \in Int
          BY <1>2
        <5>2. from # Null => F \in Int
          BY <1>2 DEF Multiple
        <5>3. to # Null => T \in Int
          BY <1>2 DEF Multiple
        <5> HIDE DEF F, T, A, Z, C
        <5>4. A <= C(b)
          BY <1>4, <1>5, <2>3, <3>6, <5>2
        <5>5. C(b + w) <= Z
          BY <1>4, <1>5, <2>3, <3>6, <5>1, <5>3
        <5> QED BY <1>4, <5>1, <5>4, <5>5
      <4> QED BY <4>1, <4>2, <4>3, <4>4 DEF Spans
    <3>7. ASSUME NEW b \in Buckets(lo, hi, w)
          PROVE  /\ Known(b) # << >> /\ Point(b).balance = Last(Known(b)).balance
                 /\ Point(b).carried <=> Last(Known(b)).day < b
      <4>1. b \in Int /\ Multiple(b, w) /\ lo <= b /\ b <= hi /\ lo \in Int /\ b + w \in Int
        BY <1>2, <3>3, <3>5, <3>7 DEF Multiple
      <4>2. from # Null => F \in Int /\ F <= b
        <5>1. from # Null => F \in Int /\ F <= lo
          BY <1>2, <3>3 DEF Multiple
        <5> HIDE DEF F
        <5> QED BY <4>1, <5>1
      <4>3. to # Null => b + w <= T
        BY <1>2, <3>4, <4>1 DEF Multiple
      <4>4. PICK c \in 0 .. N, d \in 0 .. N : c = C(b + w) /\ d = C(b) /\ A <= d /\ d <= c /\ c <= Z
        BY <3>6, <4>1, <4>2, <4>3
      <4>5. (In(kept, b, w) # << >> <=> d < c) /\ (d < c => Last(In(kept, b, w)) = readings[c])
        BY <3>6, <4>1, <4>2, <4>3, <4>4
      <4>6. c # 0
        <5>1. CASE prime # Null
          <6> HIDE DEF A
          <6> QED BY <2>2, <3>2, <4>4, <5>1
        <5>2. CASE prime = Null
          <6>1. A = 0 /\ kept # << >> /\ lo = first
            BY <2>2, <3>2, <5>2
          <6>2. readings[1].day < lo + w /\ readings[1].day \in Int /\ 1 \in 1 .. N
            <7> HIDE DEF A, Z
            <7> QED BY <3>f, <5>2
          <6>3. readings[1].day < b + w
            BY <1>2, <4>1, <6>2
          <6> HIDE DEF C
          <6> QED BY <1>4, <4>1, <4>4, <6>2, <6>3
        <5> QED BY <5>1, <5>2
      <4>7. Known(b) # << >> /\ Last(Known(b)) = readings[c] /\ c \in 1 .. N
        BY <1>6, <4>1, <4>4, <4>6
      <4>8. PICK x \in Int : x = readings[c].day /\ (x < b <=> c <= d)
        BY <1>1, <1>4, <4>1, <4>4, <4>7
      <4>9. CASE d < c
        <5>1. In(kept, b, w) # << >> /\ Close(b) = readings[c].balance
          BY <4>5, <4>9
        <5>2. Point(b) = [balance |-> Close(b), carried |-> FALSE]
          BY <5>1
        <5>3. Point(b).balance = readings[c].balance /\ Point(b).carried = FALSE
          BY <5>1, <5>2
        <5> HIDE DEF Point, Known
        <5> QED BY <4>4, <4>7, <4>8, <4>9, <5>3
      <4>10. CASE d = c
        <5>1. In(kept, b, w) = << >> /\ x < b
          BY <4>5, <4>8, <4>10
        <5>2. /\ Point(b).balance = IF Earlier(b) # {} THEN Close(Most(Earlier(b))) ELSE prime
              /\ Point(b).carried = TRUE
          <6> HIDE DEF Earlier, Close
          <6> QED BY <5>1
        <5>3. \A e \in Earlier(b) : /\ e \in Int /\ Multiple(e, w) /\ lo <= e /\ e < b /\ e + w <= b
                                     /\ C(e) < C(e + w) /\ C(e + w) <= c /\ A <= C(e)
          <6> SUFFICES ASSUME NEW e \in Earlier(b)
                       PROVE  /\ e \in Int /\ Multiple(e, w) /\ lo <= e /\ e < b /\ e + w <= b
                              /\ C(e) < C(e + w) /\ C(e + w) <= c /\ A <= C(e)
            OBVIOUS
          <6>1. e \in Buckets(lo, b - 1, w) /\ In(kept, e, w) # << >>
            OBVIOUS
          <6>2. b - 1 \in Int /\ (e \in Buckets(lo, b - 1, w) <=> Multiple(e, w) /\ lo <= e /\ e <= b - 1)
            BY <1>2, <3>3, <4>1, BucketsIs
          <6>3. Multiple(e, w) /\ e \in Int /\ lo <= e /\ e < b
            BY <4>1, <6>1, <6>2 DEF Multiple
          <6>4. e + w <= b
            BY <1>2, <4>1, <6>3, Apart
          <6>5. from # Null => F <= e
            <7>1. from # Null => F \in Int /\ F <= lo
              BY <1>2, <3>3 DEF Multiple
            <7> HIDE DEF F
            <7> QED BY <4>1, <6>3, <7>1
          <6>6. to # Null => e + w <= T
            <7>1. to # Null => T \in Int
              BY <1>2 DEF Multiple
            <7> HIDE DEF T
            <7> QED BY <1>2, <4>1, <4>3, <6>3, <6>4, <7>1
          <6>7. (In(kept, e, w) # << >> <=> C(e) < C(e + w)) /\ A <= C(e)
            BY <3>6, <6>3, <6>5, <6>6
          <6>8. C(e + w) <= C(b)
            <7>1. e + w \in Int
              BY <1>2, <6>3
            <7> HIDE DEF C
            <7> QED BY <1>5, <4>1, <6>4, <7>1
          <6> HIDE DEF C, A
          <6> QED BY <4>4, <4>10, <6>1, <6>3, <6>4, <6>7, <6>8
        <5>4. CASE A < c
          <6> DEFINE g == Start(x, w)
          <6>1. Multiple(g, w) /\ g \in Int /\ g <= x /\ x < g + w
            BY <1>2, <4>8, StartIs DEF Multiple
          <6>2. g < b /\ g + w <= b
            <7>1. g < b
              <8> HIDE DEF g
              <8> QED BY <4>1, <5>1, <6>1
            <7> QED BY <1>2, <4>1, <6>1, <7>1, Apart
          <6>3. lo <= g
            <7>1. CASE prime # Null
              <8>1. from # Null /\ lo = F /\ F \in Int /\ Multiple(F, w) /\ A = C(F)
                BY <1>2, <2>3, <3>2, <7>1 DEF Multiple
              <8>2. F <= x
                <9> HIDE DEF F, A
                <9>1. x < F <=> c <= C(F)
                  BY <1>4, <4>7, <4>8, <8>1
                <9>2. A \in Int /\ c \in Int
                  BY <2>2, <4>7
                <9> QED BY <4>8, <5>4, <8>1, <9>1, <9>2
              <8> HIDE DEF F
              <8> QED BY <1>2, <4>8, <8>1, <8>2, BucketOf
            <7>2. CASE prime = Null
              <8>1. A = 0 /\ kept # << >> /\ lo = first
                BY <2>2, <3>2, <7>2
              <8>2. lo = Start(readings[1].day, w) /\ lo <= readings[1].day /\ readings[1].day \in Int /\ 1 \in 1 .. N
                <9> HIDE DEF A, Z
                <9> QED BY <3>f, <7>2
              <8>3. readings[1].day <= x
                <9>1. 1 <= c /\ Sorted(readings)
                  BY <1>1, <4>7 DEF Timeline
                <9> QED BY <4>7, <4>8, <8>2, <9>1 DEF Sorted, N
              <8>4. lo <= x
                BY <3>3, <4>1, <4>8, <8>2, <8>3
              <8> QED BY <1>2, <3>3, <4>8, <8>4, BucketOf
            <7> QED BY <7>1, <7>2
          <6> HIDE DEF g
          <6>4. g \in Buckets(lo, b - 1, w)
            <7>1. b - 1 \in Int /\ g <= b - 1
              BY <4>1, <6>1, <6>2
            <7> QED BY <1>2, <3>3, <6>1, <6>3, <7>1, BucketsIs
          <6>5. from # Null => F <= g
            <7>1. from # Null => F \in Int /\ F <= lo
              BY <1>2, <3>3 DEF Multiple
            <7> HIDE DEF F
            <7> QED BY <4>1, <6>1, <6>3, <7>1
          <6>6. to # Null => g + w <= T
            <7>1. to # Null => T \in Int
              BY <1>2 DEF Multiple
            <7> HIDE DEF T
            <7> QED BY <1>2, <4>1, <4>3, <6>1, <6>2, <7>1
          <6>7. C(g) < c /\ C(g + w) = c
            <7>0. g + w \in Int /\ g \in Int
              BY <1>2, <6>1
            <7>1. g + w \in Int /\ C(g + w) \in 0 .. N /\ C(g) \in 0 .. N
              BY <1>4, <7>0
            <7>2. ~(c <= C(g))
              <8>1. x < g <=> c <= C(g)
                BY <1>4, <4>7, <4>8, <6>1
              <8> QED BY <4>8, <6>1, <8>1
            <7>3. c <= C(g + w)
              BY <1>4, <4>7, <4>8, <6>1, <7>1
            <7>4. C(g + w) <= C(b)
              BY <1>5, <4>1, <6>2, <7>1
            <7> QED BY <4>4, <4>10, <7>1, <7>2, <7>3, <7>4
          <6>8. In(kept, g, w) # << >> /\ Close(g) = readings[c].balance
            <7>1. /\ In(kept, g, w) # << >> <=> C(g) < C(g + w)
                  /\ C(g) < C(g + w) => Last(In(kept, g, w)) = readings[C(g + w)]
              BY <3>6, <6>1, <6>5, <6>6
            <7> QED BY <6>7, <7>1
          <6>9. g \in Earlier(b)
            BY <6>4, <6>8
          <6>10. \A e \in Earlier(b) : e <= g
            <7> SUFFICES ASSUME NEW e \in Earlier(b) PROVE e <= g
              OBVIOUS
            <7>1. e \in Int /\ Multiple(e, w) /\ C(e) < C(e + w) /\ C(e + w) <= c /\ e + w \in Int
              BY <1>2, <5>3
            <7>2. C(e) \in 0 .. N /\ C(e + w) \in 0 .. N
              BY <1>4, <7>1
            <7>3. e <= x
              <8>1. x < e <=> c <= C(e)
                BY <1>4, <4>7, <4>8, <7>1
              <8>2. ~(c <= C(e))
                BY <1>1, <7>1, <7>2
              <8> QED BY <4>8, <7>1, <8>1, <8>2
            <7> QED BY <1>2, <4>8, <7>1, <7>3, BucketOf DEF g
          <6>11. Most(Earlier(b)) = g
            <7>1. Earlier(b) \in SUBSET Int
              BY <5>3
            <7> HIDE DEF Earlier
            <7> QED BY <6>9, <6>10, <7>1, MostIs
          <6> HIDE DEF Point, Known, Earlier, Close
          <6> QED BY <4>7, <4>8, <5>1, <5>2, <6>8, <6>9, <6>11
        <5>5. CASE A = c
          <6>1. Earlier(b) = {}
            <7> SUFFICES ASSUME NEW e \in Earlier(b) PROVE FALSE
              OBVIOUS
            <7>1. C(e) < C(e + w) /\ C(e + w) <= c /\ A <= C(e) /\ C(e) \in 0 .. N /\ C(e + w) \in 0 .. N
              <8>1. e \in Int /\ e + w \in Int
                BY <1>2, <5>3
              <8> QED BY <1>4, <5>3, <8>1
            <7> HIDE DEF C, A
            <7> QED BY <5>5, <7>1
          <6>2. prime = readings[c].balance
            <7>1. from # Null /\ A # 0
              <8> HIDE DEF A
              <8> QED BY <3>2, <4>6, <5>5
            <7> HIDE DEF A
            <7> QED BY <2>4, <5>5, <7>1
          <6> HIDE DEF Point, Known, Earlier, Close
          <6> QED BY <4>7, <4>8, <5>1, <5>2, <6>1, <6>2
        <5> HIDE DEF A
        <5> QED BY <2>2, <4>4, <4>10, <5>4, <5>5
      <4> QED BY <4>4, <4>9, <4>10
    <3>8. ASSUME from # Null, to # Null
          PROVE  DOMAIN pts = {b \in Buckets(Start(from, w), to, w) : Known(b) # << >>}
      <4>1. F = Start(from, w) /\ F \in Int /\ Multiple(F, w) /\ to \in Int /\ hi = Start(to, w) /\ A = C(F)
        BY <1>2, <2>3, <3>4, <3>8 DEF Multiple
      <4>2. \A b : b \in Buckets(F, to, w) <=> Multiple(b, w) /\ F <= b /\ b <= hi
        <5> HIDE DEF F, hi
        <5> QED BY <1>2, <4>1, BucketsIs
      <4>3. ASSUME NEW b \in Buckets(F, to, w) PROVE Known(b) # << >> <=> lo <= b
        <5>0. b \in Int /\ b + w \in Int /\ Multiple(b, w) /\ F <= b
          <6>1. Multiple(b, w) /\ F <= b
            BY <4>2, <4>3
          <6> QED BY <1>2, <6>1 DEF Multiple
        <5>1. b \in Int /\ b + w \in Int /\ Multiple(b, w) /\ F <= b /\ C(b + w) \in 0 .. N
          BY <1>4, <5>0
        <5>2. Known(b) # << >> <=> C(b + w) # 0
          BY <1>6, <5>1
        <5>3. CASE prime # Null
          <6>1. A # 0 /\ lo = F /\ A <= C(b + w) /\ A \in 0 .. N
            <7> HIDE DEF F, A, C
            <7> QED BY <1>2, <1>5, <2>2, <3>2, <4>1, <5>1, <5>3
          <6> HIDE DEF A, C, F, Known
          <6> QED BY <5>1, <5>2, <6>1
        <5>4. CASE prime = Null
          <6>1. A = 0 /\ kept # << >> /\ lo = first
            BY <2>2, <3>2, <5>4
          <6>2. lo = Start(readings[1].day, w) /\ readings[1].day \in Int /\ 1 \in 1 .. N
            <7> HIDE DEF A, Z
            <7> QED BY <3>f, <5>4
          <6>3. lo <= b <=> readings[1].day < b + w
            BY <1>2, <5>1, <6>2, BucketOf
          <6>4. readings[1].day < b + w <=> 1 <= C(b + w)
            BY <1>4, <5>1, <6>2
          <6> HIDE DEF C, Known
          <6> QED BY <5>1, <5>2, <6>3, <6>4
        <5> QED BY <5>3, <5>4
      <4>4. \A b : b \in Buckets(lo, hi, w) <=> b \in Buckets(F, to, w) /\ lo <= b
        <5>1. F <= lo /\ lo \in Int /\ hi \in Int
          BY <3>3, <3>4, <3>8 DEF Multiple
        <5>2. \A b : Multiple(b, w) /\ lo <= b => F <= b
          <6> HIDE DEF F
          <6> QED BY <4>1, <5>1 DEF Multiple
        <5> HIDE DEF F
        <5> QED BY <3>5, <4>2, <5>2
      <4>5. DOMAIN pts = Buckets(lo, hi, w)
        BY <3>1
      <4>6. DOMAIN pts = {b \in Buckets(F, to, w) : Known(b) # << >>}
        <5> HIDE DEF F, Known
        <5> QED BY <4>3, <4>4, <4>5
      <4> HIDE DEF F, Known
      <4> QED BY <4>1, <4>6
    <3> QED BY <3>1, <3>7, <3>8 DEF pts
  <2> QED BY <2>6, <2>7
<1> QED BY <1>7, <1>8

-----------------------------------------------------------------------------
(* The balances of a bucket *)

LEMMA SpanSum ==
    ASSUME NEW s, Timeline(Row, s), NEW L, Chain(s, L), NEW a \in Int, NEW b \in Int, a <= b
    PROVE  /\ Sum(Within(s, a, b)) = L[CutAt(s, b)] - L[CutAt(s, a)]
           /\ L[CutAt(s, b)] \in Int /\ L[CutAt(s, a)] \in Int
<1>1. Null \notin Int /\ s \in Seq(Row) /\ \A r \in Row : r.amt \in Int
  BY SeriesAssumption, RowFields DEF Timeline
<1>2. Spans(s, a, b)
  BY <1>1, SpanIs
<1>3. PICK p \in Nat, q \in Nat :
          p = CutAt(s, a) /\ q = CutAt(s, b) /\ p <= q /\ q <= Len(s) /\ Within(s, a, b) = SubSeq(s, p + 1, q)
  <2>1. After(s, a) = CutAt(s, a) /\ Before(s, b) = CutAt(s, b)
    BY <1>1 DEF After, Before
  <2>2. /\ CutAt(s, a) \in 0 .. Len(s) /\ CutAt(s, b) \in 0 .. Len(s) /\ CutAt(s, a) <= CutAt(s, b)
        /\ Within(s, a, b) = SubSeq(s, CutAt(s, a) + 1, CutAt(s, b))
    BY <1>2, <2>1 DEF Spans
  <2>3. PICK N \in Nat : N = Len(s)
    BY <1>1
  <2>4. PICK p, q : p = CutAt(s, a) /\ q = CutAt(s, b)
    OBVIOUS
  <2>5. p \in Nat /\ q \in Nat /\ p <= q /\ q <= Len(s)
    <3>1. p \in 0 .. N /\ q \in 0 .. N /\ p <= q
      BY <2>2, <2>3, <2>4
    <3> QED BY <2>3, <3>1
  <2> QED BY <2>2, <2>4, <2>5
<1>4. Sum(SubSeq(s, p + 1, q)) = L[q] - L[p] /\ L[q] \in Int /\ L[p] \in Int
  BY <1>1, <1>3, SumSlice
<1> QED BY <1>3, <1>4

\* Sums over adjoining spans add up.
LEMMA SpanAdds ==
    ASSUME NEW s, Timeline(Row, s), NEW a \in Int, NEW b \in Int, NEW c \in Int, a <= b, b <= c
    PROVE  /\ Sum(Within(s, a, c)) = Sum(Within(s, a, b)) + Sum(Within(s, b, c))
           /\ Sum(Within(s, a, b)) \in Int /\ Sum(Within(s, b, c)) \in Int
<1>1. s \in Seq(Row) /\ \A r \in Row : r.amt \in Int
  BY RowFields DEF Timeline
<1>2. PICK L : Chain(s, L)
  BY <1>1, ChainExists
<1>3. PICK x \in Int, y \in Int, z \in Int : x = L[CutAt(s, a)] /\ y = L[CutAt(s, b)] /\ z = L[CutAt(s, c)]
  BY <1>2, SpanSum
<1>4. Sum(Within(s, a, b)) = y - x /\ Sum(Within(s, b, c)) = z - y
  BY <1>2, <1>3, SpanSum
<1>5. Sum(Within(s, a, c)) = z - x
  <2>1. a <= c
    OBVIOUS
  <2> QED BY <1>2, <1>3, <2>1, SpanSum
<1> QED BY <1>4, <1>5

LEMMA SpanZero ==
    ASSUME NEW s, Timeline(Row, s), NEW a \in Int PROVE Sum(Within(s, a, a)) = 0
<1>1. s \in Seq(Row) /\ \A r \in Row : r.amt \in Int
  BY RowFields DEF Timeline
<1>2. PICK L : Chain(s, L)
  BY <1>1, ChainExists
<1>3. PICK x \in Int : x = L[CutAt(s, a)] /\ Sum(Within(s, a, a)) = x - x
  BY <1>2, SpanSum
<1> QED BY <1>3

\* The rows carry a running total.
Levels(s, L) == Chain(s, L) /\ \A n \in 1 .. Len(s) : s[n].level = L[n]

LEMMA CoveredAny ==
    ASSUME NEW V, NEW s \in Seq(V)
    PROVE  Covered(s) # << >> <=> \E n \in 1 .. Len(s) : s[n].covered
<1>0. PICK T : T = {r \in V : r.covered}
  OBVIOUS
<1>1. \A n \in 1 .. Len(s) : s[n] \in T <=> s[n].covered
  BY <1>0
<1>2. Keep(s, T) # << >> <=> \E n \in 1 .. Len(s) : s[n] \in T
  BY KeepElements
<1> QED BY <1>0, <1>1, <1>2, CoveredIs

\* When no row is missing, the last running balance of a span leads to the balance at
\* its end, and the first one back to that at its beginning.
LEMMA BankBalances ==
    ASSUME NEW s, Timeline(Row, s), NEW L, Levels(s, L), NEW a \in Int, NEW b \in Int, a <= b,
           Covered(Within(s, a, b)) # << >>
    PROVE  /\ BankClose(Within(s, a, b)) = L[CutAt(s, b)] /\ BankOpening(Within(s, a, b)) = L[CutAt(s, a)]
           /\ L[CutAt(s, b)] \in Int /\ L[CutAt(s, a)] \in Int
<1>1. Null \notin Int /\ s \in Seq(Row) /\ Chain(s, L) /\ \A r \in Row : r.amt \in Int
  BY SeriesAssumption, RowFields DEF Timeline, Levels
<1>2. Spans(s, a, b)
  BY <1>1, SpanIs
<1>3. PICK p \in Nat, q \in Nat :
          p = CutAt(s, a) /\ q = CutAt(s, b) /\ p <= q /\ q <= Len(s) /\ Within(s, a, b) = SubSeq(s, p + 1, q)
  <2>1. After(s, a) = CutAt(s, a) /\ Before(s, b) = CutAt(s, b)
    BY <1>1 DEF After, Before
  <2>2. /\ CutAt(s, a) \in 0 .. Len(s) /\ CutAt(s, b) \in 0 .. Len(s) /\ CutAt(s, a) <= CutAt(s, b)
        /\ Within(s, a, b) = SubSeq(s, CutAt(s, a) + 1, CutAt(s, b))
    BY <1>2, <2>1 DEF Spans
  <2>3. PICK N \in Nat : N = Len(s)
    BY <1>1
  <2>4. PICK p, q : p = CutAt(s, a) /\ q = CutAt(s, b)
    OBVIOUS
  <2>5. p \in Nat /\ q \in Nat /\ p <= q /\ q <= Len(s)
    <3>1. p \in 0 .. N /\ q \in 0 .. N /\ p <= q
      BY <2>2, <2>3, <2>4
    <3> QED BY <2>3, <3>1
  <2> QED BY <2>2, <2>4, <2>5
<1>4. PICK t \in Seq(Row), m \in Nat :
          /\ t = SubSeq(s, p + 1, q) /\ m = q - p /\ Len(t) = m
          /\ \A j \in 1 .. m : t[j] = s[p + j]
  <2>1. /\ SubSeq(s, p + 1, q) \in Seq(Row) /\ Len(SubSeq(s, p + 1, q)) = q - p
        /\ \A j \in 1 .. q - p : SubSeq(s, p + 1, q)[j] = s[p + j]
    <3>1. Piece(Row, s, p, q)
      BY <1>1, <1>3, SliceIs
    <3> QED BY <3>1, Zenon DEF Piece
  <2>2. q - p \in Nat
    BY <1>3
  <2> QED BY <2>1, <2>2
<1>a. p \in Nat /\ q \in Nat /\ m \in Nat /\ p <= q /\ m = q - p
  BY <1>3, <1>4
<1> DEFINE M == [n \in 0 .. m |-> L[p + n]]
<1>5. PICK N \in Nat : N = Len(s) /\ q <= N
  BY <1>1, <1>3
<1>e. p \in Nat /\ q \in Nat /\ m \in Nat /\ p <= q /\ m = q - p /\ N \in Nat /\ q <= N
  BY <1>a, <1>5
<1>6. (\A n \in 0 .. N : L[n] \in Int) /\ \A n \in 1 .. N : L[n] = L[n - 1] + s[n].amt /\ s[n].level = L[n]
  BY <1>5 DEF Levels, Chain
<1>7. \A n \in 0 .. m : M[n] = L[p + n] /\ p + n \in 0 .. N /\ L[p + n] \in Int
  <2>1. \A n \in 0 .. m : p + n \in 0 .. N
    BY <1>e
  <2> QED BY <1>6, <2>1
<1> HIDE DEF M
<1>8. Chain(t, M)
  <2>1. M = [n \in 0 .. m |-> M[n]]
    BY DEF M
  <2>2. M \in [0 .. m -> Int]
    BY <1>7, <2>1
  <2>3. ASSUME NEW n \in 1 .. m PROVE M[n] = M[n - 1] + t[n].amt
    <3>1. p + n \in 1 .. N /\ (p + n) - 1 = p + (n - 1) /\ n \in 0 .. m /\ n - 1 \in 0 .. m
      BY <1>e
    <3>2. L[p + n] = L[p + (n - 1)] + s[p + n].amt
      BY <1>6, <3>1
    <3> QED BY <1>4, <1>7, <3>1, <3>2
  <2> QED BY <1>4, <2>2, <2>3 DEF Chain
<1>b. PICK X : X = M /\ Chain(t, X)
  BY <1>8
<1>d. t \in Seq(Row) /\ \A r \in Row : r.amt \in Int
  BY <1>1, <1>4
<1>9. \A i \in 1 .. m : t[i].level = M[i] /\ M[i] \in Int
  <2> SUFFICES ASSUME NEW i \in 1 .. m PROVE t[i].level = M[i] /\ M[i] \in Int
    OBVIOUS
  <2>1. p + i \in 1 .. N /\ i \in 0 .. m
    BY <1>e
  <2> QED BY <1>4, <1>6, <1>7, <2>1
<1> DEFINE K == {k \in DOMAIN t : t[k].covered}
<1>10. K \subseteq 1 .. m /\ K # {} /\ K \in SUBSET Int
  <2>0. Covered(t) # << >>
    BY <1>3, <1>4
  <2>1. \E n \in 1 .. Len(t) : t[n].covered
    BY <2>0, CoveredAny
  <2>2. DOMAIN t = 1 .. m
    BY <1>4
  <2>3. K \subseteq 1 .. m /\ K # {}
    BY <1>4, <2>1, <2>2
  <2> HIDE DEF K
  <2> QED BY <2>3
<1>11. PICK i \in 1 .. m : i = Most(K)
  <2>1. \A x \in K : x <= m
    BY <1>10
  <2>2. m \in Int
    BY <1>4
  <2> HIDE DEF K
  <2>3. Most(K) \in K
    BY <1>10, <2>1, <2>2, MostOfMany
  <2> QED BY <1>10, <2>3
<1>12. PICK j \in 1 .. m : j = Least(K)
  <2>1. \A x \in K : 1 <= x
    BY <1>10
  <2>2. PICK o \in Int : o = 1
    OBVIOUS
  <2> HIDE DEF K
  <2>3. Least(K) \in K
    BY <1>10, <2>1, <2>2, LeastOfMany
  <2> QED BY <1>10, <2>3
<1>13. M[m] = L[q] /\ M[0] = L[p] /\ L[q] \in Int /\ L[p] \in Int
  <2>1. m \in 0 .. m /\ 0 \in 0 .. m /\ p + m = q /\ p + 0 = p
    BY <1>a
  <2> QED BY <1>7, <2>1
<1>14. BankClose(t) = M[m]
  <2>1. BankClose(t) = t[i].level + Sum(SubSeq(t, i + 1, m))
    BY <1>4, <1>11 DEF BankClose
  <2>2. i \in Nat /\ m \in Nat /\ i <= m /\ m <= Len(t)
    <3>1. i \in Nat /\ i <= m
      BY <1>a, <1>11
    <3>2. m <= Len(t)
      BY <1>a, <1>4
    <3> QED BY <1>a, <3>1, <3>2
  <2>3. Sum(SubSeq(t, i + 1, m)) = M[m] - M[i] /\ M[m] \in Int /\ M[i] \in Int
    <3>1. Sum(SubSeq(t, i + 1, m)) = X[m] - X[i] /\ X[m] \in Int /\ X[i] \in Int
      BY <1>d, <1>b, <2>2, SumSlice
    <3> QED BY <1>b, <3>1
  <2>4. t[i].level = M[i]
    BY <1>9, <1>11
  <2> QED BY <2>1, <2>3, <2>4
<1>15. BankOpening(t) = M[0]
  <2>1. BankOpening(t) = t[j].level - Sum(SubSeq(t, 1, j))
    BY <1>4, <1>12 DEF BankOpening
  <2>2. PICK z \in Nat : z = 0 /\ j \in Nat /\ z <= j /\ j <= Len(t) /\ z + 1 = 1
    <3>1. j \in Nat /\ 0 <= j /\ j <= m
      BY <1>a, <1>12
    <3>2. j <= Len(t)
      BY <1>4, <3>1
    <3> QED BY <3>1, <3>2
  <2>3. Sum(SubSeq(t, z + 1, j)) = M[j] - M[z] /\ M[j] \in Int /\ M[z] \in Int
    <3>1. Sum(SubSeq(t, z + 1, j)) = X[j] - X[z] /\ X[j] \in Int /\ X[z] \in Int
      BY <1>d, <1>b, <2>2, SumSlice
    <3> QED BY <1>b, <3>1
  <2>4. Sum(SubSeq(t, 1, j)) = M[j] - M[0] /\ M[0] \in Int
    BY <2>2, <2>3
  <2> QED BY <1>9, <1>12, <2>1, <2>3, <2>4
<1> QED BY <1>3, <1>4, <1>13, <1>14, <1>15

-----------------------------------------------------------------------------
(* The points of a series, in terms of all the rows of the account *)

\* The buckets that have a running balance.
LeveledIn(s, order, w) == {b \in order : Covered(In(s, b, w)) # << >>}
LevelOf(s, order, w) == Least(IF LeveledIn(s, order, w) # {} THEN LeveledIn(s, order, w) ELSE order)

CloseAt(s, leveled, b, w) ==
    IF leveled = {} THEN WalkClose(s, Last(readings), b, w)
    ELSE LET c == Most({x \in leveled : x <= b}) IN BankClose(In(s, c, w)) + Sum(Within(s, c + w, b + w))
OpenAt(s, leveled, level, b, w) ==
    IF b > level THEN CloseAt(s, leveled, b - w, w)
    ELSE IF leveled # {} THEN BankOpening(In(s, b, w))
    ELSE CloseAt(s, leveled, b, w) - Sum(In(s, b, w))

\* A point that opens and closes so; torn: two of its rows do not tie.
PointOf(s, banked, open, close, torn, b, w) ==
    [open |-> open, close |-> close, net |-> Sum(In(s, b, w)),
     source |-> IF In(s, b, w) = << >> THEN "carried"
                ELSE IF banked /\ Last(In(s, b, w)).covered THEN "balance_after"
                ELSE "accumulated",
     in |-> Income(In(s, b, w)), out |-> Spend(In(s, b, w)),
     drift |-> IF In(readings, b, w) = << >> THEN Null ELSE close - Last(In(readings, b, w)).balance,
     mismatch |-> close - open # Sum(In(s, b, w)) \/ torn]

Emitted(order, lo, hi, level) == {b \in order : lo <= b /\ b <= hi /\ b >= level}

\* No covered row, and no reading to walk from.
Nothing(leveled, order, w) ==
    leveled = {} /\ (readings = << >> \/ Start(Last(readings).day, w) \notin order)

\* Some rows of s have been left out of t, but the buckets from D to E are whole in it.
PointsSo(s, t, order, lo, hi, w) ==
    LET leveled == LeveledIn(s, order, w)
        level   == LevelOf(s, order, w)
    IN  IF Nothing(leveled, order, w) THEN LedgerPoints(t, order, lo, hi, w).points = << >>
        ELSE LedgerPoints(t, order, lo, hi, w).points =
                [b \in Emitted(order, lo, hi, level) |->
                    PointOf(s, leveled # {}, OpenAt(s, leveled, level, b, w), CloseAt(s, leveled, b, w),
                            leveled # {} /\ RowMismatch(t, b, w), b, w)]

LEMMA LeveledAny ==
    ASSUME NEW w \in Nat \ {0}, NEW s, Timeline(Row, s), NEW D, NEW E, Multiple(D, w), Multiple(E, w), D <= E
    PROVE  /\ Covered(Within(s, D, E + w)) # << >> <=> LeveledIn(s, Buckets(D, E, w), w) # {}
           /\ \A b : b \in LeveledIn(s, Buckets(D, E, w), w) <=>
                        /\ Multiple(b, w) /\ D <= b /\ b <= E
                        /\ \E n \in 1 .. Len(s) : s[n].covered /\ Start(s[n].day, w) = b
<1>1. /\ s \in Seq(Row) /\ Null \notin Int /\ D \in Int /\ E \in Int /\ E + w \in Int
      /\ \A n \in 1 .. Len(s) : s[n] \in Row /\ s[n].day \in Int
  BY SeriesAssumption, RowFields DEF Timeline, Multiple
\* The covered rows of a span.
<1>2. ASSUME NEW a \in Int, NEW b \in Int
      PROVE  Covered(Within(s, a, b)) # << >> <=>
                \E n \in 1 .. Len(s) : s[n].covered /\ a <= s[n].day /\ s[n].day < b
  <2>1. Within(s, a, b) = Keep(s, Dated(Row, a, b)) /\ Within(s, a, b) \in Seq(Row)
    BY <1>1, WithinIs, KeepElements
  <2>2. Covered(Within(s, a, b)) = Keep(Within(s, a, b), {r \in Row : r.covered})
    BY <2>1, CoveredIs
  <2>3. Covered(Within(s, a, b)) = Keep(s, Dated(Row, a, b) \cap {r \in Row : r.covered})
    BY <1>1, <2>1, <2>2, KeepKeep
  <2>4. Keep(s, Dated(Row, a, b) \cap {r \in Row : r.covered}) # << >> <=>
           \E n \in 1 .. Len(s) : s[n] \in Dated(Row, a, b) \cap {r \in Row : r.covered}
    <3>1. PICK T : T = Dated(Row, a, b) \cap {r \in Row : r.covered}
      OBVIOUS
    <3>2. Keep(s, T) # << >> <=> \E n \in 1 .. Len(s) : s[n] \in T
      BY <1>1, KeepElements
    <3> QED BY <3>1, <3>2
  <2>5. \A n \in 1 .. Len(s) : s[n] \in Dated(Row, a, b) \cap {r \in Row : r.covered} <=>
                                  s[n].covered /\ a <= s[n].day /\ s[n].day < b
    BY <1>1 DEF Dated
  <2> QED BY <2>3, <2>4, <2>5
<1>3. ASSUME NEW b
      PROVE  b \in LeveledIn(s, Buckets(D, E, w), w) <=>
                /\ Multiple(b, w) /\ D <= b /\ b <= E
                /\ \E n \in 1 .. Len(s) : s[n].covered /\ Start(s[n].day, w) = b
  <2>1. b \in Buckets(D, E, w) <=> Multiple(b, w) /\ D <= b /\ b <= E
    BY <1>1, BucketsIs
  <2>2. ASSUME Multiple(b, w)
        PROVE  Covered(In(s, b, w)) # << >> <=> \E n \in 1 .. Len(s) : s[n].covered /\ Start(s[n].day, w) = b
    <3>1. b \in Int /\ b + w \in Int
      BY <2>2 DEF Multiple
    <3>2. Covered(In(s, b, w)) # << >> <=> \E n \in 1 .. Len(s) : s[n].covered /\ b <= s[n].day /\ s[n].day < b + w
      BY <1>2, <3>1 DEF In
    <3>3. \A n \in 1 .. Len(s) : Start(s[n].day, w) = b <=> b <= s[n].day /\ s[n].day < b + w
      BY <1>1, <2>2, BucketOf
    <3> QED BY <3>2, <3>3
  <2> QED BY <2>1, <2>2 DEF LeveledIn
<1>4. Covered(Within(s, D, E + w)) # << >> <=> LeveledIn(s, Buckets(D, E, w), w) # {}
  <2>1. Covered(Within(s, D, E + w)) # << >> <=>
           \E n \in 1 .. Len(s) : s[n].covered /\ D <= s[n].day /\ s[n].day < E + w
    BY <1>1, <1>2
  <2>2. \A n \in 1 .. Len(s) : /\ Multiple(Start(s[n].day, w), w)
                               /\ D <= s[n].day <=> D <= Start(s[n].day, w)
                               /\ s[n].day < E + w <=> Start(s[n].day, w) <= E
    BY <1>1, StartIs, BucketOf
  <2>3. LeveledIn(s, Buckets(D, E, w), w) # {} <=>
           \E n \in 1 .. Len(s) : s[n].covered /\ D <= s[n].day /\ s[n].day < E + w
    BY <1>3, <2>2
  <2> QED BY <2>1, <2>3
<1> QED BY <1>3, <1>4

LEMMA LedgerPointsAre ==
    ASSUME NEW w \in Nat \ {0}, NEW s, Timeline(Row, s), NEW D, NEW E, Multiple(D, w), Multiple(E, w), D <= E,
           NEW lo, NEW hi
    PROVE  PointsSo(s, Within(s, D, E + w), Buckets(D, E, w), lo, hi, w)
<1> DEFINE t == Within(s, D, E + w)
           order == Buckets(D, E, w)
           anchor == Last(readings)
           byBank == Covered(t) # << >>
           leveled == {b \in order : Covered(In(t, b, w)) # << >>}
           level   == Least(IF byBank THEN leveled ELSE order)
           Close(b) ==
               IF ~byBank THEN WalkClose(t, anchor, b, w)
               ELSE LET c == Most({x \in leveled : x <= b})
                    IN  BankClose(In(t, c, w)) + Sum(Within(t, c + w, b + w))
           Open(b) == IF b > level THEN Close(b - w)
                      ELSE IF byBank THEN BankOpening(In(t, b, w)) ELSE Close(b) - Sum(In(t, b, w))
           Source(b) == IF In(t, b, w) = << >> THEN "carried"
                        ELSE IF byBank /\ Last(In(t, b, w)).covered THEN "balance_after"
                        ELSE "accumulated"
           Read(b) == In(readings, b, w)
           Point(b, open, close, in) ==
               [open |-> open, close |-> close, net |-> Sum(in), source |-> Source(b),
                in |-> Income(in), out |-> Spend(in),
                drift |-> IF Read(b) = << >> THEN Null ELSE close - Last(Read(b)).balance,
                mismatch |-> close - open # Sum(in) \/ (byBank /\ RowMismatch(t, b, w))]
           emitted == {b \in order : lo <= b /\ b <= hi /\ b >= level}
<1>1. LedgerPoints(t, order, lo, hi, w).points =
          IF ~byBank /\ (readings = << >> \/ Start(anchor.day, w) \notin order) THEN << >>
          ELSE [b \in emitted |-> Point(b, Open(b), Close(b), In(t, b, w))]
  BY DEF LedgerPoints, NoPoints
<1>2. D \in Int /\ E \in Int /\ E + w \in Int /\ Null \notin Int
  BY SeriesAssumption DEF Multiple
<1>3. \A b : b \in order <=> Multiple(b, w) /\ D <= b /\ b <= E
  BY <1>2, BucketsIs
<1>4. ASSUME NEW c \in Int, NEW d \in Int, D <= c, d <= E + w PROVE Within(t, c, d) = Within(s, c, d)
  BY <1>2, <1>4, SpanOfSpan
<1>5. ASSUME NEW b \in order PROVE In(t, b, w) = In(s, b, w) /\ b \in Int
  <2>1. b \in Int /\ b + w \in Int /\ D <= b /\ b + w <= E + w
    BY <1>2, <1>3, <1>5 DEF Multiple
  <2> HIDE DEF t
  <2> QED BY <1>4, <2>1 DEF In
<1>6. leveled = LeveledIn(s, order, w) /\ (byBank <=> leveled # {})
  <2>1. leveled = LeveledIn(s, order, w)
    BY <1>5 DEF LeveledIn
  <2>2. byBank <=> LeveledIn(s, order, w) # {}
    BY LeveledAny
  <2> HIDE DEF leveled, byBank
  <2> QED BY <2>1, <2>2
<1>7. level = LevelOf(s, order, w)
  <2> HIDE DEF leveled, byBank, order
  <2> QED BY <1>6 DEF LevelOf
<1>8. /\ byBank => level \in leveled /\ \A x \in leveled : level <= x
      /\ level \in order /\ level \in Int
  <2>1. \A x \in order : x \in Int /\ D <= x
    BY <1>3 DEF Multiple
  <2>2. CASE byBank
    <3>1. leveled \in SUBSET Int /\ leveled # {} /\ leveled \subseteq order /\ \A x \in leveled : D <= x
      BY <1>6, <2>1, <2>2
    <3>2. Least(leveled) \in leveled /\ \A x \in leveled : Least(leveled) <= x
      <4> HIDE DEF leveled
      <4> QED BY <1>2, <3>1, LeastOfMany
    <3> HIDE DEF leveled, order, byBank
    <3> QED BY <2>1, <2>2, <3>1, <3>2
  <2>3. CASE ~byBank
    <3>1. D \in order
      BY <1>2, <1>3
    <3>2. order \in SUBSET Int /\ order # {}
      BY <2>1, <3>1
    <3>3. Least(order) \in order
      <4> HIDE DEF order
      <4> QED BY <1>2, <2>1, <3>2, LeastOfMany
    <3> HIDE DEF leveled, order, byBank
    <3> QED BY <2>1, <2>3, <3>3
  <2> QED BY <2>2, <2>3
<1>9. ASSUME byBank \/ Start(anchor.day, w) \in order, NEW b \in order, b >= level
      PROVE  Close(b) = CloseAt(s, leveled, b, w)
  <2>1. b \in Int /\ D <= b /\ b <= E /\ b + w \in Int
    BY <1>2, <1>3, <1>9 DEF Multiple
  <2>2. CASE byBank
    <3> DEFINE below == {x \in leveled : x <= b}
    <3>1. below \in SUBSET Int /\ below # {} /\ \A x \in below : x <= b
      <4> HIDE DEF leveled, level, byBank, order
      <4>1. level \in leveled /\ leveled \subseteq order
        BY <1>8, <2>2 DEF leveled
      <4> QED BY <1>5, <1>8, <1>9, <2>1, <4>1
    <3>2. PICK c \in leveled : c = Most(below)
      <4>1. Most(below) \in below
        <5> HIDE DEF below
        <5> QED BY <2>1, <3>1, MostOfMany
      <4> QED BY <4>1
    <3>3. c \in order /\ c \in Int /\ D <= c /\ D <= c + w /\ c + w \in Int
      <4>1. c \in order
        BY <3>2
      <4>2. c \in Int /\ D <= c
        BY <1>3, <4>1 DEF Multiple
      <4> QED BY <1>2, <4>1, <4>2
    <3>4. b + w <= E + w
      BY <1>2, <2>1
    <3>5. Within(t, c + w, b + w) = Within(s, c + w, b + w) /\ In(t, c, w) = In(s, c, w)
      <4> HIDE DEF t, order
      <4> QED BY <1>4, <1>5, <2>1, <3>3, <3>4
    <3>6. Close(b) = BankClose(In(t, c, w)) + Sum(Within(t, c + w, b + w))
      <4> HIDE DEF leveled, byBank, t
      <4> QED BY <2>2, <3>2
    <3>7. CloseAt(s, leveled, b, w) = BankClose(In(s, c, w)) + Sum(Within(s, c + w, b + w))
      <4> HIDE DEF leveled, byBank, t
      <4> QED BY <1>6, <2>2, <3>2 DEF CloseAt
    <3> HIDE DEF Close, leveled, t
    <3> QED BY <3>5, <3>6, <3>7
  <2>3. CASE ~byBank
    <3> DEFINE at == Start(anchor.day, w)
    <3>1. at \in Int /\ D <= at /\ at + w \in Int /\ at + w <= E + w
      <4>1. at \in order
        BY <1>9, <2>3
      <4>2. Multiple(at, w) /\ D <= at /\ at <= E
        <5> HIDE DEF at, order
        <5> QED BY <1>3, <4>1
      <4> HIDE DEF at
      <4> QED BY <1>2, <4>2 DEF Multiple
    <3>2. WalkClose(t, anchor, b, w) = WalkClose(s, anchor, b, w)
      <4>1. D <= b + w /\ D <= at + w /\ b + w <= E + w
        BY <1>2, <2>1, <3>1
      <4>2. Within(t, b + w, at + w) = Within(s, b + w, at + w) /\ Within(t, at + w, b + w) = Within(s, at + w, b + w)
        <5> HIDE DEF t, at
        <5> QED BY <1>4, <2>1, <3>1, <4>1
      <4> HIDE DEF t, anchor
      <4> QED BY <4>2 DEF WalkClose, at
    <3>3. Close(b) = WalkClose(t, anchor, b, w) /\ leveled = {}
      <4> HIDE DEF leveled, byBank, t, anchor
      <4> QED BY <1>6, <2>3
    <3> HIDE DEF Close, leveled, t
    <3> QED BY <3>2, <3>3 DEF CloseAt
  <2> QED BY <2>2, <2>3
<1>10. ASSUME byBank \/ Start(anchor.day, w) \in order, NEW b \in order, b >= level
       PROVE  Open(b) = OpenAt(s, leveled, level, b, w)
  <2>1. In(t, b, w) = In(s, b, w) /\ b \in Int
    BY <1>5
  <2>2. CASE b > level
    <3>1. b - w \in order /\ b - w >= level
      <4>1. Multiple(b, w) /\ b <= E /\ Multiple(level, w) /\ D <= level
        <5> HIDE DEF order, level
        <5> QED BY <1>3, <1>8
      <4>2. Multiple(b - w, w) /\ level + w <= b
        <5> HIDE DEF level
        <5> QED BY <2>2, <4>1, Apart
      <4>3. b - w \in Int /\ level <= b - w /\ b - w <= E /\ D <= b - w
        <5> HIDE DEF level
        <5> QED BY <1>2, <1>8, <2>1, <4>1, <4>2
      <4> HIDE DEF order, level
      <4> QED BY <1>3, <4>2, <4>3
    <3>2. Close(b - w) = CloseAt(s, leveled, b - w, w)
      <4> HIDE DEF order, level, leveled, byBank, Close
      <4> QED BY <1>9, <1>10, <3>1
    <3> HIDE DEF order, level, leveled, byBank, Close
    <3> QED BY <2>2, <3>2 DEF OpenAt
  <2>3. CASE ~(b > level)
    <3>1. Close(b) = CloseAt(s, leveled, b, w)
      <4> HIDE DEF order, level, leveled, byBank, Close
      <4> QED BY <1>9, <1>10
    <3> HIDE DEF order, level, leveled, byBank, Close, t
    <3> QED BY <1>6, <2>1, <2>3, <3>1 DEF OpenAt
  <2> QED BY <2>2, <2>3
<1>11. ASSUME byBank \/ Start(anchor.day, w) \in order, NEW b \in emitted
       PROVE  Point(b, Open(b), Close(b), In(t, b, w)) =
                 PointOf(s, leveled # {}, OpenAt(s, leveled, level, b, w), CloseAt(s, leveled, b, w),
                         leveled # {} /\ RowMismatch(t, b, w), b, w)
  <2>1. b \in order /\ b >= level
    OBVIOUS
  <2>2. In(t, b, w) = In(s, b, w)
    BY <1>5
  <2>3. Close(b) = CloseAt(s, leveled, b, w) /\ Open(b) = OpenAt(s, leveled, level, b, w)
    <3> HIDE DEF order, level, leveled, byBank, Close, Open, emitted
    <3> QED BY <1>9, <1>10, <1>11, <2>1
  <2> HIDE DEF order, level, leveled, byBank, Close, Open, emitted, t
  <2> QED BY <1>6, <2>2, <2>3 DEF PointOf
<1>12. emitted = Emitted(order, lo, hi, level)
  BY DEF Emitted
<1>13. ~byBank /\ (readings = << >> \/ Start(anchor.day, w) \notin order) <=> Nothing(leveled, order, w)
  <2> HIDE DEF byBank, leveled, order
  <2> QED BY <1>6 DEF Nothing
<1>14. CASE Nothing(leveled, order, w)
  <2> HIDE DEF order, leveled, byBank, level, emitted, Point, Open, Close, t
  <2> QED BY <1>1, <1>6, <1>13, <1>14 DEF PointsSo, order, t
<1>15. CASE ~Nothing(leveled, order, w)
  <2>1. byBank \/ Start(anchor.day, w) \in order
    BY <1>13, <1>15
  <2>2. LedgerPoints(t, order, lo, hi, w).points = [b \in emitted |-> Point(b, Open(b), Close(b), In(t, b, w))]
    <3> HIDE DEF order, leveled, byBank, level, emitted, Point, Open, Close, t, anchor
    <3> QED BY <1>1, <1>13, <1>15
  <2>3. LedgerPoints(t, order, lo, hi, w).points =
           [b \in emitted |->
               PointOf(s, leveled # {}, OpenAt(s, leveled, level, b, w), CloseAt(s, leveled, b, w),
                       leveled # {} /\ RowMismatch(t, b, w), b, w)]
    <3> HIDE DEF order, leveled, byBank, level, emitted, Point, Open, Close, t, anchor
    <3> QED BY <1>11, <2>1, <2>2
  <2> HIDE DEF order, leveled, byBank, level, emitted, Point, Open, Close, t, anchor
  <2> QED BY <1>6, <1>7, <1>12, <1>15, <2>3 DEF PointsSo, order, t
<1> QED BY <1>14, <1>15

-----------------------------------------------------------------------------
(* Where a series is derived from, and where it ends *)

FirstOf(s, w) == Start(s[1].day, w)
LoOf(s, from, w) == Most({FirstOf(s, w)} \cup IF from = Null THEN {} ELSE {Start(from, w)})
AnchorOf(w) == Start(Last(readings).day, w)

LEMMA LedgerSeriesIs ==
    ASSUME NEW from, NEW to, NEW w
    PROVE  LedgerSeries(from, to, w) =
              LET lo == LoOf(Rows, from, w)
                  hi == LedgerHi(Rows, to, w)
                  D  == DerivLo(Rows, lo, w)
                  E  == DerivHi(hi, w)
              IN  IF Rows = << >> THEN NoPoints
                  ELSE IF hi < lo THEN NoPoints
                  ELSE LedgerPoints(Within(Rows, D, E + w), Buckets(D, E, w), lo, hi, w)
BY DEF LedgerSeries, LoOf, FirstOf

LEMMA LoIs ==
    ASSUME NEW w \in Nat \ {0}, NEW s, Timeline(Row, s), s # << >>, NEW from \in Int \cup {Null}
    PROVE  /\ Multiple(FirstOf(s, w), w) /\ Multiple(LoOf(s, from, w), w)
           /\ from = Null => LoOf(s, from, w) = FirstOf(s, w)
           /\ from # Null => LoOf(s, from, w) = IF FirstOf(s, w) >= Start(from, w) THEN FirstOf(s, w) ELSE Start(from, w)
           /\ \A n \in 1 .. Len(s) : FirstOf(s, w) <= Start(s[n].day, w) /\ s[n].day \in Int
<1>1. /\ Len(s) \in Nat /\ 1 \in 1 .. Len(s) /\ Null \notin Int
      /\ \A n \in 1 .. Len(s) : s[n].day \in Int /\ s[1].day <= s[n].day
  <2>1. s \in Seq(Row) /\ \A r \in Row : r.day \in Int
    BY DEF Timeline
  <2>2. Len(s) \in Nat /\ 1 \in 1 .. Len(s)
    BY <2>1
  <2>3. \A n \in 1 .. Len(s) : s[n] \in Row /\ s[n].day \in Int
    BY <2>1
  <2>4. \A n \in 1 .. Len(s) : s[1].day <= s[n].day
    BY <2>2 DEF Timeline, Sorted
  <2> QED BY <2>2, <2>3, <2>4, SeriesAssumption
<1>2. PICK f \in Int : f = FirstOf(s, w) /\ Multiple(f, w) /\ f <= s[1].day
  BY <1>1, StartIs DEF FirstOf, Multiple
<1>3. \A n \in 1 .. Len(s) : f <= Start(s[n].day, w)
  <2> SUFFICES ASSUME NEW n \in 1 .. Len(s) PROVE f <= Start(s[n].day, w)
    OBVIOUS
  <2>1. s[n].day \in Int /\ f <= s[n].day
    BY <1>1, <1>2
  <2> QED BY <1>2, <2>1, BucketOf
<1>4. CASE from = Null
  <2>1. LoOf(s, from, w) = Most({f})
    BY <1>2, <1>4 DEF LoOf
  <2>2. Most({f}) = f
    BY MostIs
  <2> QED BY <1>1, <1>2, <1>3, <1>4, <2>1, <2>2
<1>5. CASE from # Null
  <2>1. PICK g \in Int : g = Start(from, w) /\ Multiple(g, w)
    BY <1>5, StartIs DEF Multiple
  <2>2. LoOf(s, from, w) = Most({f, g})
    <3>1. {f} \cup {g} = {f, g}
      OBVIOUS
    <3> QED BY <1>2, <1>5, <2>1, <3>1 DEF LoOf
  <2>3. LoOf(s, from, w) = IF f >= g THEN f ELSE g
    BY <2>2, LeastOfTwo
  <2> QED BY <1>1, <1>2, <1>3, <1>5, <2>1, <2>3
<1> QED BY <1>4, <1>5

\* The reading a series walks from.
AnchorReady(w) == readings # << >> => Multiple(AnchorOf(w), w) /\ Last(readings) \in Reading

LEMMA AnchorIs ==
    ASSUME ReadingsOK, NEW w \in Nat \ {0}
    PROVE  /\ AnchorReady(w)
           /\ readings # << >> => AnchorOf(w) <= Last(readings).day /\ Last(readings).day < AnchorOf(w) + w
<1> SUFFICES ASSUME readings # << >>
             PROVE  /\ Multiple(AnchorOf(w), w) /\ Last(readings) \in Reading
                    /\ AnchorOf(w) <= Last(readings).day /\ Last(readings).day < AnchorOf(w) + w
  BY DEF AnchorReady
<1>1. Last(readings) \in Reading
  <2>1. readings \in Seq(Reading)
    BY DEF ReadingsOK
  <2>2. Len(readings) \in 1 .. Len(readings)
    BY <2>1
  <2> QED BY <2>1, <2>2 DEF Last
<1>2. Last(readings).day \in Int
  BY <1>1, ReadingFields
<1> QED BY <1>1, <1>2, StartIs DEF AnchorOf

\* An open end: the last row, or the reading if that is later.
LEMMA HiIs ==
    ASSUME ReadingsOK, NEW w \in Nat \ {0}, NEW s, Timeline(Row, s), s # << >>
    PROVE  /\ Multiple(LedgerHi(s, Null, w), w)
           /\ \A n \in 1 .. Len(s) : Start(s[n].day, w) <= LedgerHi(s, Null, w)
           /\ DerivHi(LedgerHi(s, Null, w), w) = LedgerHi(s, Null, w)
           /\ readings # << >> => AnchorOf(w) <= LedgerHi(s, Null, w)
<1>1. PICK m \in Nat \ {0} : m = Len(s) /\ Last(s) = s[m]
  BY DEF Timeline, Last
<1>2. \A n \in 1 .. m : s[n].day \in Int /\ s[n].day <= s[m].day
  <2>1. s \in Seq(Row) /\ \A r \in Row : r.day \in Int
    BY DEF Timeline
  <2>2. \A n \in 1 .. m : s[n] \in Row /\ s[n].day \in Int
    BY <1>1, <2>1
  <2>3. m \in 1 .. m
    BY <1>1
  <2>4. \A n \in 1 .. m : s[n].day <= s[m].day
    BY <1>1, <2>3 DEF Timeline, Sorted
  <2> QED BY <2>2, <2>4
<1>3. PICK l \in Int : l = Start(s[m].day, w) /\ Multiple(l, w) /\ l <= s[m].day /\ s[m].day < l + w
  <2>1. s[m].day \in Int
    BY <1>1, <1>2
  <2> QED BY <2>1, StartIs DEF Multiple
<1>4. \A n \in 1 .. m : Start(s[n].day, w) <= l
  <2> SUFFICES ASSUME NEW n \in 1 .. m PROVE Start(s[n].day, w) <= l
    OBVIOUS
  <2>1. s[n].day \in Int /\ s[n].day < l + w
    <3>1. s[n].day \in Int /\ s[n].day <= s[m].day /\ s[m].day \in Int
      BY <1>1, <1>2
    <3> QED BY <1>3, <3>1
  <2> QED BY <1>3, <2>1, BucketOf
<1>5. CASE readings = << >>
  <2>1. LedgerHi(s, Null, w) = Most({l} \cup {})
    BY <1>1, <1>3, <1>5 DEF LedgerHi
  <2>2. DerivHi(l, w) = Most({l} \cup {})
    BY <1>5 DEF DerivHi, AnchorOf
  <2>3. Most({l}) = l /\ {l} \cup {} = {l}
    BY MostIs
  <2> QED BY <1>1, <1>3, <1>4, <1>5, <2>1, <2>2, <2>3
<1>6. CASE readings # << >>
  <2>1. PICK a \in Int : a = AnchorOf(w) /\ Multiple(a, w)
    BY <1>6, AnchorIs DEF AnchorReady, Multiple
  <2>2. LedgerHi(s, Null, w) = Most({l, a})
    <3>1. {l} \cup {a} = {l, a}
      OBVIOUS
    <3> QED BY <1>1, <1>3, <1>6, <2>1, <3>1 DEF LedgerHi, AnchorOf
  <2>3. PICK h \in Int : h = LedgerHi(s, Null, w) /\ h = IF l >= a THEN l ELSE a
    BY <2>2, LeastOfTwo
  <2>4. DerivHi(h, w) = Most({h, a})
    <3>1. {h} \cup {a} = {h, a}
      OBVIOUS
    <3> QED BY <1>6, <2>1, <3>1 DEF DerivHi, AnchorOf
  <2>5. DerivHi(h, w) = h
    BY <2>3, <2>4, LeastOfTwo
  <2>6. Multiple(h, w) /\ l <= h /\ a <= h
    BY <1>3, <2>1, <2>3
  <2>7. \A n \in 1 .. m : Start(s[n].day, w) <= h
    <3> SUFFICES ASSUME NEW n \in 1 .. m PROVE Start(s[n].day, w) <= h
      OBVIOUS
    <3>1. Start(s[n].day, w) <= l /\ Start(s[n].day, w) \in Int
      BY <1>2, <1>4, StartIs DEF Multiple
    <3> QED BY <1>3, <2>6, <3>1
  <2> QED BY <1>1, <2>1, <2>3, <2>5, <2>6, <2>7
<1> QED BY <1>5, <1>6

\* The derivation ends with the window, or with the anchor's bucket after it.
LEMMA EndIs ==
    ASSUME ReadingsOK, NEW w \in Nat \ {0}, NEW hi, Multiple(hi, w)
    PROVE  /\ Multiple(DerivHi(hi, w), w) /\ hi <= DerivHi(hi, w)
           /\ readings # << >> => AnchorOf(w) <= DerivHi(hi, w)
           /\ DerivHi(hi, w) = hi \/ (readings # << >> /\ DerivHi(hi, w) = AnchorOf(w))
<1>1. hi \in Int
  BY DEF Multiple
<1>2. CASE readings = << >>
  <2>1. {hi} \cup {} = {hi} /\ Most({hi}) = hi
    BY <1>1, MostIs
  <2> QED BY <1>1, <1>2, <2>1 DEF DerivHi, AnchorOf
<1>3. CASE readings # << >>
  <2>1. PICK a \in Int : a = AnchorOf(w) /\ Multiple(a, w)
    BY <1>3, AnchorIs DEF AnchorReady, Multiple
  <2>2. DerivHi(hi, w) = Most({hi, a})
    <3>1. {hi} \cup {a} = {hi, a}
      OBVIOUS
    <3> QED BY <1>3, <2>1, <3>1 DEF DerivHi, AnchorOf
  <2>3. PICK e \in Int : e = DerivHi(hi, w) /\ e = IF hi >= a THEN hi ELSE a
    <3>1. Most({hi, a}) = IF hi >= a THEN hi ELSE a
      BY <1>1, <2>1, LeastOfTwo
    <3> QED BY <1>1, <2>1, <2>2, <3>1
  <2>4. Multiple(e, w) /\ hi <= e /\ a <= e /\ (e = hi \/ e = a)
    <3>1. CASE hi >= a
      BY <1>1, <2>1, <2>3, <3>1
    <3>2. CASE ~(hi >= a)
      BY <1>1, <2>1, <2>3, <3>2
    <3> QED BY <3>1, <3>2
  <2> QED BY <1>3, <2>1, <2>3, <2>4
<1> QED BY <1>2, <1>3

\* The last bucket of a window.
LEMMA WindowEnd ==
    ASSUME ReadingsOK, NEW w \in Nat \ {0}, NEW s, Timeline(Row, s), s # << >>, NEW to \in Int \cup {Null}
    PROVE  Multiple(LedgerHi(s, to, w), w) /\ (to # Null => LedgerHi(s, to, w) = Start(to, w))
<1>1. CASE to = Null
  BY <1>1, HiIs
<1>2. CASE to # Null
  <2>1. LedgerHi(s, to, w) = Start(to, w)
    BY <1>2 DEF LedgerHi
  <2> QED BY <1>2, <2>1, StartIs
<1> QED BY <1>1, <1>2

\* Where the derivation begins: no covered row is left out before it, or it is the
\* bucket of one, before the window.
DerivSo(s, lo, D, w) ==
    /\ Multiple(D, w) /\ FirstOf(s, w) <= D /\ D <= lo
    /\ readings # << >> => (D <= AnchorOf(w) <=> FirstOf(s, w) <= AnchorOf(w))
    /\ \/ D < lo /\ \E n \in 1 .. Len(s) : s[n].covered /\ Start(s[n].day, w) = D
       \/ \A n \in 1 .. Len(s) : s[n].covered => D <= Start(s[n].day, w)

LEMMA DerivIs ==
    ASSUME ReadingsOK, NEW w \in Nat \ {0}, NEW s, Timeline(Row, s), s # << >>,
           NEW lo, Multiple(lo, w), FirstOf(s, w) <= lo
    PROVE  DerivSo(s, lo, DerivLo(s, lo, w), w)
<1>1. PICK f \in Int, l \in Int : f = FirstOf(s, w) /\ Multiple(f, w) /\ l = lo /\ f <= l
  BY LoIs DEF Multiple
<1>2. s \in Seq(Row) /\ Null \notin Int /\ \A n \in 1 .. Len(s) : s[n] \in Row /\ s[n].day \in Int /\ f <= Start(s[n].day, w)
  <2>1. s \in Seq(Row) /\ Null \notin Int
    BY SeriesAssumption DEF Timeline
  <2> QED BY <1>1, <2>1, LoIs
<1> DEFINE near == IF readings = << >> THEN lo ELSE Least({lo, Start(Last(readings).day, w)})
           prior == Covered(Within(s, Null, near))
           reach == IF prior = << >> THEN near ELSE Start(Last(prior).day, w)
<1>3. PICK g \in Int : /\ g = near /\ Multiple(g, w) /\ g <= l
                       /\ readings # << >> => g <= AnchorOf(w) /\ AnchorOf(w) \in Int /\ (g = l \/ g = AnchorOf(w))
  <2>1. CASE readings = << >>
    BY <1>1, <2>1
  <2>2. CASE readings # << >>
    <3>1. PICK a \in Int : a = AnchorOf(w) /\ Multiple(a, w)
      BY <2>2, AnchorIs DEF AnchorReady, Multiple
    <3>2. near = Least({l, a})
      BY <1>1, <2>2, <3>1 DEF AnchorOf
    <3>3. near = IF l <= a THEN l ELSE a
      BY <3>2, LeastOfTwo
    <3> HIDE DEF near
    <3> QED BY <1>1, <3>1, <3>3
  <2> QED BY <2>1, <2>2
<1>4. DerivLo(s, lo, w) = Most({reach, f})
  BY <1>1 DEF DerivLo, FirstOf
<1> HIDE DEF near
<1>5. prior = Keep(s, Dated(Row, Null, g) \cap {r \in Row : r.covered})
  <2>1. Within(s, Null, g) = Keep(s, Dated(Row, Null, g)) /\ Within(s, Null, g) \in Seq(Row)
    BY <1>2, WithinIs, KeepElements
  <2>2. Covered(Within(s, Null, g)) = Keep(Within(s, Null, g), {r \in Row : r.covered})
    BY <2>1, CoveredIs
  <2> QED BY <1>2, <1>3, <2>1, <2>2, KeepKeep
<1>6. PICK T : T = Dated(Row, Null, g) \cap {r \in Row : r.covered}
  OBVIOUS
<1>7. \A n \in 1 .. Len(s) : s[n] \in T <=> s[n].covered /\ s[n].day < g
  BY <1>2, <1>3, <1>6 DEF Dated
<1>8. CASE prior = << >>
  <2>1. \A n \in 1 .. Len(s) : s[n] \notin T
    <3>1. Keep(s, T) = << >>
      BY <1>5, <1>6, <1>8
    <3>2. Keep(s, T) # << >> <=> \E n \in 1 .. Len(s) : s[n] \in T
      BY <1>2, KeepElements
    <3> QED BY <3>1, <3>2
  <2>2. PICK d \in Int : d = DerivLo(s, lo, w) /\ d = IF g >= f THEN g ELSE f
    <3>1. reach = g
      BY <1>3, <1>8
    <3> HIDE DEF reach
    <3> QED BY <1>4, <3>1, LeastOfTwo
  <2>3. Multiple(d, w) /\ f <= d /\ d <= l
    BY <1>1, <1>3, <2>2
  <2>4. ASSUME NEW n \in 1 .. Len(s), s[n].covered PROVE d <= Start(s[n].day, w)
    <3>1. s[n].day \in Int /\ ~(s[n].day < g) /\ f <= Start(s[n].day, w)
      BY <1>2, <1>7, <2>1, <2>4
    <3>2. g <= Start(s[n].day, w)
      <4>1. g <= s[n].day
        BY <3>1
      <4> QED BY <1>3, <3>1, <4>1, BucketOf
    <3> QED BY <2>2, <3>1, <3>2
  <2>5. readings # << >> => (d <= AnchorOf(w) <=> f <= AnchorOf(w))
    BY <1>3, <2>2
  <2> QED BY <1>1, <2>2, <2>3, <2>4, <2>5 DEF DerivSo
<1>9. CASE prior # << >>
  <2>1. PICK n \in 1 .. Len(s) : s[n] \in T /\ Last(prior) = s[n]
    <3>1. Keep(s, T) # << >> /\ prior = Keep(s, T)
      BY <1>5, <1>6, <1>9
    <3>2. \E n \in 1 .. Len(s) : /\ s[n] \in T /\ Last(Keep(s, T)) = s[n]
                                 /\ \A i \in 1 .. Len(s) : s[i] \in T => i <= n
      BY <1>2, <3>1, KeepLast
    <3> QED BY <3>1, <3>2
  <2>2. PICK d \in Int : d = Start(s[n].day, w) /\ Multiple(d, w) /\ d <= s[n].day /\ f <= d
    BY <1>2, StartIs DEF Multiple
  <2>3. s[n].covered /\ d < g
    BY <1>2, <1>3, <1>7, <2>1, <2>2
  <2>4. DerivLo(s, lo, w) = d
    <3>1. reach = d
      BY <1>9, <2>1, <2>2
    <3>2. Most({d, f}) = d
      BY <2>2, LeastOfTwo
    <3> HIDE DEF reach
    <3> QED BY <1>4, <3>1, <3>2
  <2>5. readings # << >> => (d <= AnchorOf(w) <=> f <= AnchorOf(w))
    <3>1. readings # << >> => d <= AnchorOf(w) /\ f <= AnchorOf(w)
      BY <1>3, <2>2, <2>3
    <3> QED BY <3>1
  <2> QED BY <1>1, <1>3, <2>2, <2>3, <2>4, <2>5 DEF DerivSo
<1> QED BY <1>8, <1>9

-----------------------------------------------------------------------------
(* A window is a slice *)

\* Row n and the one before it are covered, and do not tie.
Torn(s, n) == s[n].covered /\ s[n - 1].covered /\ s[n].level - s[n - 1].level # s[n].amt

\* Which rows of [a, e) a bucket is flagged for.
TornRows(s, a, e, b, w) ==
    /\ CutAt(s, a) \in 0 .. Len(s) /\ CutAt(s, e) \in 0 .. Len(s)
    /\ RowMismatch(Within(s, a, e), b, w) <=>
          \E n \in CutAt(s, a) + 2 .. CutAt(s, e) : Start(s[n].day, w) = b /\ Torn(s, n)

LEMMA TornIs ==
    ASSUME NEW w, NEW s, Timeline(Row, s), NEW a \in Int, NEW e \in Int, a <= e, NEW b
    PROVE  TornRows(s, a, e, b, w)
<1>1. Null \notin Int /\ s \in Seq(Row)
  BY SeriesAssumption DEF Timeline
<1>2. Spans(s, a, e)
  BY <1>1, SpanIs
<1>3. PICK p, q : p = CutAt(s, a) /\ q = CutAt(s, e) /\ p \in 0 .. Len(s) /\ q \in 0 .. Len(s) /\ p <= q
                  /\ Within(s, a, e) = SubSeq(s, p + 1, q)
  <2>1. After(s, a) = CutAt(s, a) /\ Before(s, e) = CutAt(s, e)
    BY <1>1 DEF After, Before
  <2> QED BY <1>2, <2>1 DEF Spans
<1>4. p \in Nat /\ q \in Nat /\ q <= Len(s)
  <2>1. Len(s) \in Nat
    BY <1>1
  <2> QED BY <1>3, <2>1
<1>5. PICK t \in Seq(Row), m \in Nat :
          /\ t = SubSeq(s, p + 1, q) /\ m = q - p /\ Len(t) = m
          /\ \A j \in 1 .. m : t[j] = s[p + j]
  <2>1. /\ SubSeq(s, p + 1, q) \in Seq(Row) /\ Len(SubSeq(s, p + 1, q)) = q - p
        /\ \A j \in 1 .. q - p : SubSeq(s, p + 1, q)[j] = s[p + j]
    <3>1. Piece(Row, s, p, q)
      BY <1>1, <1>3, <1>4, SliceIs
    <3> QED BY <3>1, Zenon DEF Piece
  <2>2. q - p \in Nat
    BY <1>3, <1>4
  <2> QED BY <2>1, <2>2
<1>6. DOMAIN t = 1 .. m /\ m = q - p /\ m \in Nat /\ \A j \in 1 .. m : t[j] = s[p + j]
  BY <1>5
<1>7. ASSUME NEW i \in DOMAIN t \ {1}, Start(t[i].day, w) = b, t[i].covered, t[i - 1].covered,
             t[i].level - t[i - 1].level # t[i].amt
      PROVE  \E n \in p + 2 .. q : Start(s[n].day, w) = b /\ Torn(s, n)
  <2>1. i \in 2 .. m /\ i - 1 \in 1 .. m /\ i \in 1 .. m
    BY <1>6
  <2>2. t[i] = s[p + i] /\ t[i - 1] = s[p + (i - 1)] /\ p + (i - 1) = (p + i) - 1 /\ p + i \in p + 2 .. q
    <3>1. t[i] = s[p + i] /\ t[i - 1] = s[p + (i - 1)]
      BY <1>6, <2>1, Zenon
    <3>2. p \in Int /\ q \in Int /\ m = q - p /\ i \in Int /\ 2 <= i /\ i <= m
      BY <1>4, <1>6, <2>1
    <3>3. p + (i - 1) = (p + i) - 1 /\ p + i \in p + 2 .. q
      BY <3>2
    <3> QED BY <3>1, <3>3
  <2> QED BY <1>7, <2>2 DEF Torn
<1>8. ASSUME NEW n \in p + 2 .. q, Start(s[n].day, w) = b, Torn(s, n)
      PROVE  \E i \in DOMAIN t \ {1} : /\ Start(t[i].day, w) = b /\ t[i].covered /\ t[i - 1].covered
                                       /\ t[i].level - t[i - 1].level # t[i].amt
  <2>1. n - p \in 1 .. m /\ n - p # 1 /\ (n - p) - 1 \in 1 .. m /\ p + (n - p) = n /\ p + ((n - p) - 1) = n - 1
    BY <1>4, <1>6
  <2>2. t[n - p] = s[n] /\ t[(n - p) - 1] = s[n - 1] /\ n - p \in DOMAIN t \ {1}
    BY <1>6, <2>1
  <2> QED BY <1>8, <2>2 DEF Torn
<1>9. RowMismatch(t, b, w) <=> \E n \in p + 2 .. q : Start(s[n].day, w) = b /\ Torn(s, n)
  BY <1>7, <1>8 DEF RowMismatch
<1> QED BY <1>3, <1>5, <1>9 DEF TornRows

\* The first bucket that has a level.
LEMMA LevelIs ==
    ASSUME NEW w \in Nat \ {0}, NEW s, Timeline(Row, s), NEW D, NEW E, Multiple(D, w), Multiple(E, w), D <= E
    PROVE  LET leveled == LeveledIn(s, Buckets(D, E, w), w)
               level   == LevelOf(s, Buckets(D, E, w), w)
           IN  /\ leveled \in SUBSET Int /\ Multiple(level, w) /\ D <= level /\ level <= E
               /\ leveled # {} => level \in leveled /\ \A x \in leveled : level <= x
               /\ leveled = {} => level = D
<1> DEFINE order == Buckets(D, E, w)
           leveled == LeveledIn(s, order, w)
           level == LevelOf(s, order, w)
<1>1. D \in Int /\ E \in Int
  BY DEF Multiple
<1>2. \A b : b \in order <=> Multiple(b, w) /\ D <= b /\ b <= E
  BY <1>1, BucketsIs
<1>3. leveled \subseteq order
  BY DEF LeveledIn
<1>4. \A x \in order : x \in Int /\ D <= x
  BY <1>2 DEF Multiple
<1> HIDE DEF order, leveled
<1>5. CASE leveled # {}
  <2>1. leveled \in SUBSET Int /\ \A x \in leveled : D <= x
    BY <1>3, <1>4
  <2>2. Least(leveled) \in leveled /\ \A x \in leveled : Least(leveled) <= x
    BY <1>1, <1>5, <2>1, LeastOfMany
  <2>3. level = Least(leveled)
    BY <1>5 DEF LevelOf, leveled
  <2>4. level \in order
    BY <1>3, <2>2, <2>3
  <2>5. Multiple(level, w) /\ D <= level /\ level <= E
    BY <1>2, <2>4
  <2> QED BY <1>5, <2>1, <2>2, <2>3, <2>5 DEF leveled, order
<1>6. CASE leveled = {}
  <2>1. D \in order
    BY <1>1, <1>2
  <2>2. order \in SUBSET Int
    BY <1>4
  <2>3. Least(order) = D
    BY <1>4, <2>1, <2>2, LeastIs
  <2>4. level = D
    BY <1>6, <2>3 DEF LevelOf, leveled
  <2> QED BY <1>1, <1>6, <2>4 DEF leveled, order
<1> QED BY <1>5, <1>6

\* With more buckets to the left, none of which is between b and the last leveled one
\* before it, b closes alike.
LEMMA CloseSame ==
    ASSUME NEW w, NEW s, NEW more \in SUBSET Int, NEW less \in SUBSET more, NEW D \in Int,
           \A x \in more : x \in less <=> D <= x,
           less = {} <=> more = {},
           NEW b \in Int, less # {} => \E x \in less : x <= b
    PROVE  CloseAt(s, less, b, w) = CloseAt(s, more, b, w)
<1>1. CASE less = {}
  BY <1>1 DEF CloseAt
<1>2. CASE less # {}
  <2> DEFINE T == {x \in less : x <= b}
             U == {x \in more : x <= b}
  <2>1. T \in SUBSET Int /\ T # {} /\ T \subseteq U /\ U \in SUBSET Int
    BY <1>2
  <2>2. \A x \in T : x <= b
    OBVIOUS
  <2>3. PICK c : c = Most(T) /\ c \in T /\ \A x \in T : c >= x
    <3> HIDE DEF T
    <3> QED BY <2>1, <2>2, MostOfMany
  <2>4. \A x \in U : c >= x
    <3> SUFFICES ASSUME NEW x \in U PROVE c >= x
      OBVIOUS
    <3>1. c \in less /\ D <= c /\ x \in more /\ x <= b /\ x \in Int /\ c \in Int
      BY <2>3
    <3>2. CASE D <= x
      <4>1. x \in T
        BY <3>1, <3>2
      <4> QED BY <2>3, <4>1
    <3>3. CASE ~(D <= x)
      BY <3>1, <3>3
    <3> QED BY <3>2, <3>3
  <2>5. Most(U) = c
    <3>1. c \in U
      BY <2>1, <2>3
    <3> HIDE DEF U
    <3> QED BY <2>1, <2>4, <3>1, MostIs
  <2> QED BY <1>2, <2>3, <2>5 DEF CloseAt
<1> QED BY <1>1, <1>2

\* Two derivations of the same rows up to E: from the first row, and from D.
LEMMA SliceOfSeries ==
    ASSUME ReadingsOK, NEW w \in Nat \ {0}, NEW s, Timeline(Row, s), s # << >>,
           NEW lo, NEW hi, NEW D, NEW E, Multiple(lo, w), Multiple(hi, w), Multiple(E, w),
           lo <= hi, hi <= E, readings # << >> => AnchorOf(w) <= E, DerivSo(s, lo, D, w)
    PROVE  LET f     == FirstOf(s, w)
               whole == LedgerPoints(Within(s, f, E + w), Buckets(f, E, w), f, hi, w).points
               part  == LedgerPoints(Within(s, D, E + w), Buckets(D, E, w), lo, hi, w).points
           IN  /\ DOMAIN part = {b \in DOMAIN whole : b >= lo}
               /\ \A b \in DOMAIN part : part[b] = whole[b]
               /\ \A b \in DOMAIN whole : b \in Int /\ f <= b
<1>1. PICK f \in Int : f = FirstOf(s, w) /\ Multiple(f, w)
  BY LoIs, SeriesAssumption DEF Multiple
<1>2. /\ Null \notin Int /\ s \in Seq(Row) /\ lo \in Int /\ hi \in Int /\ D \in Int /\ E \in Int /\ Multiple(D, w)
      /\ f <= D /\ D <= lo /\ f <= lo /\ D <= hi /\ f <= hi /\ D <= E /\ f <= E /\ E + w \in Int
  <2>1. lo \in Int /\ hi \in Int /\ E \in Int /\ Multiple(D, w) /\ D \in Int /\ f <= D /\ D <= lo
    BY <1>1 DEF Multiple, DerivSo
  <2> QED BY <1>1, <2>1, SeriesAssumption DEF Timeline
<1>3. \A n \in 1 .. Len(s) : s[n] \in Row /\ s[n].day \in Int /\ f <= Start(s[n].day, w)
  <2>1. Null \in Int \cup {Null}
    OBVIOUS
  <2>2. \A n \in 1 .. Len(s) : FirstOf(s, w) <= Start(s[n].day, w) /\ s[n].day \in Int
    BY <2>1, LoIs
  <2>3. \A n \in 1 .. Len(s) : s[n] \in Row
    BY <1>2
  <2> QED BY <1>1, <2>2, <2>3
<1> DEFINE O0 == Buckets(f, E, w)
           O1 == Buckets(D, E, w)
           l0 == LeveledIn(s, O0, w)
           l1 == LeveledIn(s, O1, w)
           v0 == LevelOf(s, O0, w)
           v1 == LevelOf(s, O1, w)
           t0 == Within(s, f, E + w)
           t1 == Within(s, D, E + w)
           whole == LedgerPoints(t0, O0, f, hi, w).points
           part  == LedgerPoints(t1, O1, lo, hi, w).points
           Point0(b) == PointOf(s, l0 # {}, OpenAt(s, l0, v0, b, w), CloseAt(s, l0, b, w), l0 # {} /\ RowMismatch(t0, b, w), b, w)
           Point1(b) == PointOf(s, l1 # {}, OpenAt(s, l1, v1, b, w), CloseAt(s, l1, b, w), l1 # {} /\ RowMismatch(t1, b, w), b, w)
<1>4. /\ IF Nothing(l0, O0, w) THEN whole = << >> ELSE whole = [b \in Emitted(O0, f, hi, v0) |-> Point0(b)]
      /\ IF Nothing(l1, O1, w) THEN part = << >> ELSE part = [b \in Emitted(O1, lo, hi, v1) |-> Point1(b)]
  <2>1. PointsSo(s, t0, O0, f, hi, w)
    BY <1>1, <1>2, LedgerPointsAre
  <2>2. PointsSo(s, t1, O1, lo, hi, w)
    BY <1>2, LedgerPointsAre
  <2> QED BY <2>1, <2>2 DEF PointsSo
\* The buckets, and those of them that have a running balance.
<1>5. /\ \A b : b \in O0 <=> Multiple(b, w) /\ f <= b /\ b <= E
      /\ \A b : b \in O1 <=> Multiple(b, w) /\ D <= b /\ b <= E
  BY <1>1, <1>2, BucketsIs
<1>6. /\ \A b : b \in l0 <=> /\ Multiple(b, w) /\ f <= b /\ b <= E
                             /\ \E n \in 1 .. Len(s) : s[n].covered /\ Start(s[n].day, w) = b
      /\ \A b : b \in l1 <=> /\ Multiple(b, w) /\ D <= b /\ b <= E
                             /\ \E n \in 1 .. Len(s) : s[n].covered /\ Start(s[n].day, w) = b
  <2>1. \A b : b \in l0 <=> /\ Multiple(b, w) /\ f <= b /\ b <= E
                            /\ \E n \in 1 .. Len(s) : s[n].covered /\ Start(s[n].day, w) = b
    BY <1>1, <1>2, LeveledAny
  <2>2. \A b : b \in l1 <=> /\ Multiple(b, w) /\ D <= b /\ b <= E
                            /\ \E n \in 1 .. Len(s) : s[n].covered /\ Start(s[n].day, w) = b
    BY <1>2, LeveledAny
  <2> QED BY <2>1, <2>2
<1>7. /\ l0 \in SUBSET Int /\ Multiple(v0, w) /\ f <= v0 /\ v0 <= E /\ v0 \in Int
      /\ l0 # {} => v0 \in l0 /\ \A x \in l0 : v0 <= x
      /\ l0 = {} => v0 = f
  <2>1. /\ l0 \in SUBSET Int /\ Multiple(v0, w) /\ f <= v0 /\ v0 <= E
        /\ l0 # {} => v0 \in l0 /\ \A x \in l0 : v0 <= x
        /\ l0 = {} => v0 = f
    BY <1>1, <1>2, LevelIs
  <2> QED BY <2>1 DEF Multiple
<1>8. /\ l1 \in SUBSET Int /\ Multiple(v1, w) /\ D <= v1 /\ v1 <= E /\ v1 \in Int
      /\ l1 # {} => v1 \in l1 /\ \A x \in l1 : v1 <= x
      /\ l1 = {} => v1 = D
  <2>1. /\ l1 \in SUBSET Int /\ Multiple(v1, w) /\ D <= v1 /\ v1 <= E
        /\ l1 # {} => v1 \in l1 /\ \A x \in l1 : v1 <= x
        /\ l1 = {} => v1 = D
    BY <1>2, LevelIs
  <2> QED BY <2>1 DEF Multiple
<1>n0. Nothing(l0, O0, w) <=> l0 = {} /\ (readings = << >> \/ AnchorOf(w) \notin O0)
  BY DEF Nothing, AnchorOf
<1>n1. Nothing(l1, O1, w) <=> l1 = {} /\ (readings = << >> \/ AnchorOf(w) \notin O1)
  BY DEF Nothing, AnchorOf
<1>e0. \A b : b \in Emitted(O0, f, hi, v0) <=> b \in O0 /\ f <= b /\ b <= hi /\ b >= v0
  BY DEF Emitted
<1>e1. \A b : b \in Emitted(O1, lo, hi, v1) <=> b \in O1 /\ lo <= b /\ b <= hi /\ b >= v1
  BY DEF Emitted
<1> HIDE DEF O0, O1, l0, l1, v0, v1, t0, t1, whole, part, Point0, Point1
<1>9. /\ l1 \subseteq l0 /\ \A x \in l0 : x \in l1 <=> D <= x
  <2>1. ASSUME NEW x \in l1 PROVE x \in l0
    <3>1. Multiple(x, w) /\ D <= x /\ x <= E /\ x \in Int
      BY <1>6, <1>8
    <3>2. \E n \in 1 .. Len(s) : s[n].covered /\ Start(s[n].day, w) = x
      BY <1>6
    <3>3. f <= x
      BY <1>2, <3>1
    <3> QED BY <1>6, <3>1, <3>2, <3>3
  <2>2. ASSUME NEW x \in l0 PROVE x \in l1 <=> D <= x
    <3>1. /\ Multiple(x, w) /\ f <= x /\ x <= E
          /\ \E n \in 1 .. Len(s) : s[n].covered /\ Start(s[n].day, w) = x
      BY <1>6
    <3> QED BY <1>6, <3>1
  <2> QED BY <2>1, <2>2
\* D is the bucket of a covered row, or no covered row is before it.
<1>10. \/ D < lo /\ D \in l1 /\ \E n \in 1 .. Len(s) : Start(s[n].day, w) = D
       \/ l0 = l1 /\ \A n \in 1 .. Len(s) : s[n].covered => D <= Start(s[n].day, w)
  <2>1. CASE D < lo /\ \E n \in 1 .. Len(s) : s[n].covered /\ Start(s[n].day, w) = D
    BY <1>2, <1>6, <2>1
  <2>2. CASE \A n \in 1 .. Len(s) : s[n].covered => D <= Start(s[n].day, w)
    <3>1. \A x \in l0 : D <= x
      BY <1>6, <2>2
    <3> QED BY <1>9, <2>2, <3>1
  <2> QED BY <2>1, <2>2 DEF DerivSo
<1>11. l0 = {} <=> l1 = {}
  BY <1>9, <1>10
<1>12. Nothing(l0, O0, w) <=> Nothing(l1, O1, w)
  <2>1. readings # << >> => (AnchorOf(w) \in O0 <=> AnchorOf(w) \in O1)
    <3> SUFFICES ASSUME readings # << >> PROVE AnchorOf(w) \in O0 <=> AnchorOf(w) \in O1
      OBVIOUS
    <3>1. Multiple(AnchorOf(w), w)
      BY AnchorIs DEF AnchorReady
    <3>2. D <= AnchorOf(w) <=> f <= AnchorOf(w)
      BY <1>1 DEF DerivSo
    <3> QED BY <1>5, <3>1, <3>2
  <2> QED BY <1>11, <1>n0, <1>n1, <2>1
<1>13. v0 <= v1
  BY <1>2, <1>7, <1>8, <1>9, <1>11
<1>14. \A b : b \in Emitted(O1, lo, hi, v1) <=> b \in Emitted(O0, f, hi, v0) /\ b >= lo
  <2> SUFFICES ASSUME NEW b, Multiple(b, w)
               PROVE  lo <= b /\ b <= hi /\ b >= v1 /\ D <= b <=> f <= b /\ b <= hi /\ b >= v0 /\ b >= lo
    <3>1. \A b : Multiple(b, w) => b \in Int
      BY DEF Multiple
    <3>2. \A b \in Int : b <= hi => b <= E
      BY <1>2
    <3> QED BY <1>5, <1>e0, <1>e1, <3>1, <3>2
  <2>1. b \in Int
    BY DEF Multiple
  <2>2. CASE D < lo /\ D \in l1
    <3>1. v1 <= D
      BY <1>8, <2>2
    <3> QED BY <1>2, <1>7, <1>8, <1>13, <2>1, <2>2, <3>1
  <2>3. CASE l0 = l1 /\ l0 # {}
    <3>1. v0 = v1
      BY <1>7, <1>8, <2>3
    <3> QED BY <1>2, <1>7, <2>1, <3>1
  <2>4. CASE l0 = l1 /\ l0 = {}
    <3>1. v0 = f /\ v1 = D
      BY <1>7, <1>8, <2>4
    <3> QED BY <1>2, <2>1, <3>1
  <2> QED BY <1>10, <2>2, <2>3, <2>4
<1>15. ASSUME NEW b, Multiple(b, w), v1 <= b PROVE CloseAt(s, l1, b, w) = CloseAt(s, l0, b, w)
  <2>1. b \in Int /\ (l1 # {} => \E x \in l1 : x <= b)
    BY <1>8, <1>15 DEF Multiple
  <2>2. PICK m, k : m = l0 /\ k = l1 /\ m \in SUBSET Int /\ k \in SUBSET m
    BY <1>7, <1>9
  <2>3. CloseAt(s, k, b, w) = CloseAt(s, m, b, w)
    <3>1. /\ \A x \in m : x \in k <=> D <= x
          /\ k = {} <=> m = {}
          /\ k # {} => \E x \in k : x <= b
      BY <1>9, <1>11, <2>1, <2>2
    <3>2. D \in Int /\ m \in SUBSET Int /\ k \in SUBSET m
      BY <1>2, <2>2
    <3> QED BY <2>1, <3>1, <3>2, CloseSame
  <2> QED BY <2>2, <2>3
<1>16. ASSUME ~Nothing(l1, O1, w), NEW b \in Emitted(O1, lo, hi, v1)
       PROVE  OpenAt(s, l1, v1, b, w) = OpenAt(s, l0, v0, b, w)
  <2>1. Multiple(b, w) /\ b \in Int /\ lo <= b /\ b <= hi /\ b >= v1 /\ D <= b
    BY <1>5, <1>e1, <1>16 DEF Multiple
  <2>2. CASE b > v1
    <3>1. b > v0
      BY <1>7, <1>8, <1>13, <2>1, <2>2
    <3>2. Multiple(b - w, w) /\ v1 <= b - w
      <4>1. Multiple(b - w, w) /\ v1 + w <= b
        BY <1>8, <2>1, <2>2, Apart
      <4> QED BY <1>8, <2>1, <4>1
    <3>3. CloseAt(s, l1, b - w, w) = CloseAt(s, l0, b - w, w)
      BY <1>15, <3>2
    <3> QED BY <2>2, <3>1, <3>3 DEF OpenAt
  <2>3. CASE b = v1 /\ l1 # {}
    <3>1. l0 = l1
      <4>1. ~(D < lo /\ D \in l1)
        <5> SUFFICES ASSUME D < lo, D \in l1 PROVE FALSE
          OBVIOUS
        <5>1. v1 <= D
          BY <1>8
        <5> QED BY <1>2, <1>8, <2>1, <2>3, <5>1
      <4> QED BY <1>10, <4>1
    <3>2. v0 = v1
      BY <1>7, <1>8, <2>3, <3>1
    <3> QED BY <3>1, <3>2
  <2>4. CASE b = v1 /\ l1 = {}
    <3>1. l0 = {} /\ v0 = f /\ v1 = D /\ b = D
      BY <1>7, <1>8, <1>11, <2>4
    <3>2. CASE f = D
      BY <2>4, <3>1, <3>2
    <3>3. CASE f # D
      <4>1. b > v0 /\ ~(b > v1)
        BY <1>2, <2>1, <3>1, <3>3
      <4>2. readings # << >> /\ AnchorOf(w) \in O1
        BY <1>16, <1>n1, <2>4
      <4>3. PICK a \in Int : a = AnchorOf(w) /\ Multiple(a, w) /\ b <= a
        BY <1>5, <3>1, <4>2 DEF Multiple
      <4>4. PICK x \in Int : x = Last(readings).balance
        BY <4>2, AnchorIs, ReadingFields DEF AnchorReady
      <4>5. b - w <= a /\ (b - w) + w = b /\ b \in Int /\ b + w \in Int /\ a + w \in Int /\ b <= b + w /\ b + w <= a + w
        BY <2>1, <4>3
      <4>6. CloseAt(s, l1, b, w) = x - Sum(Within(s, b + w, a + w))
        BY <2>4, <4>3, <4>4 DEF CloseAt, WalkClose, AnchorOf
      <4>7. CloseAt(s, l0, b - w, w) = x - Sum(Within(s, b, a + w))
        <5>1. CloseAt(s, l0, b - w, w) = x - Sum(Within(s, (b - w) + w, a + w))
          BY <3>1, <4>3, <4>4, <4>5 DEF CloseAt, WalkClose, AnchorOf
        <5> QED BY <4>5, <5>1
      <4>8. /\ Sum(Within(s, b, a + w)) = Sum(Within(s, b, b + w)) + Sum(Within(s, b + w, a + w))
            /\ Sum(Within(s, b, b + w)) \in Int /\ Sum(Within(s, b + w, a + w)) \in Int
        BY <4>5, SpanAdds
      <4>9. OpenAt(s, l1, v1, b, w) = CloseAt(s, l1, b, w) - Sum(Within(s, b, b + w))
        BY <2>4, <4>1 DEF OpenAt, In
      <4>10. OpenAt(s, l0, v0, b, w) = CloseAt(s, l0, b - w, w)
        BY <4>1 DEF OpenAt
      <4>11. PICK y \in Int, z \in Int : y = Sum(Within(s, b, b + w)) /\ z = Sum(Within(s, b + w, a + w))
        BY <4>8
      <4>12. OpenAt(s, l1, v1, b, w) = (x - z) - y /\ OpenAt(s, l0, v0, b, w) = x - (y + z)
        BY <4>6, <4>7, <4>8, <4>9, <4>10, <4>11
      <4> QED BY <4>12
    <3> QED BY <3>2, <3>3
  <2> QED BY <1>8, <2>1, <2>2, <2>3, <2>4
<1>17. ASSUME l1 # {}, NEW b \in Emitted(O1, lo, hi, v1)
       PROVE  RowMismatch(t1, b, w) <=> RowMismatch(t0, b, w)
  <2>1. Multiple(b, w) /\ b \in Int /\ lo <= b /\ b <= hi
    BY <1>5, <1>e1, <1>17 DEF Multiple
  <2> DEFINE p0 == CutAt(s, f)
             p1 == CutAt(s, D)
             q == CutAt(s, E + w)
  <2>2. /\ p0 \in 0 .. Len(s) /\ q \in 0 .. Len(s)
        /\ RowMismatch(t0, b, w) <=> \E n \in p0 + 2 .. q : Start(s[n].day, w) = b /\ Torn(s, n)
    <3>1. f <= E + w
      BY <1>2
    <3>2. TornRows(s, f, E + w, b, w)
      BY <1>2, <3>1, TornIs
    <3> QED BY <3>2 DEF TornRows, t0
  <2>3. /\ p1 \in 0 .. Len(s)
        /\ RowMismatch(t1, b, w) <=> \E n \in p1 + 2 .. q : Start(s[n].day, w) = b /\ Torn(s, n)
    <3>1. D <= E + w
      BY <1>2
    <3>2. TornRows(s, D, E + w, b, w)
      BY <1>2, <3>1, TornIs
    <3> QED BY <3>2 DEF TornRows, t1
  <2>4. p0 <= p1
    BY <1>2, CutAtMono
  <2>5. \A n \in 1 .. Len(s) : s[n].day < D <=> n <= p1
    BY <1>2, CutAtIs
  <2> HIDE DEF p0, p1, q
  <2>6. PICK m \in Nat : m = Len(s)
    BY <1>2
  <2>7. ASSUME NEW n \in p0 + 2 .. q, Start(s[n].day, w) = b, Torn(s, n) PROVE n \in p1 + 2 .. q
    <3>1. n \in 1 .. m /\ n \in Int /\ n - 1 \in 1 .. m /\ n <= q
      BY <2>2, <2>6
    <3>2. n > p1
      <4>1. s[n].day \in Int /\ b <= s[n].day
        BY <1>3, <2>1, <2>6, <2>7, <3>1, StartIs
      <4>2. ~(s[n].day < D)
        BY <1>2, <2>1, <4>1
      <4> QED BY <2>3, <2>5, <2>6, <3>1, <4>2
    <3>3. n # p1 + 1
      <4> SUFFICES ASSUME n = p1 + 1 PROVE FALSE
        OBVIOUS
      <4>1. n - 1 = p1 /\ s[n - 1].covered
        BY <2>3, <2>7 DEF Torn
      <4>2. s[n - 1].day < D /\ s[n - 1].day \in Int
        <5>1. n - 1 <= p1 /\ n - 1 \in 1 .. Len(s)
          BY <2>3, <2>6, <3>1, <4>1
        <5> QED BY <1>3, <2>5, <5>1
      <4>3. ~(D <= Start(s[n - 1].day, w))
        BY <1>2, <4>2, BucketOf
      <4>4. PICK i \in 1 .. m : D < lo /\ Start(s[i].day, w) = D
        BY <1>10, <2>6, <3>1, <4>1, <4>3
      <4>5. D <= s[i].day /\ s[i].day < D + w /\ s[i].day \in Int
        BY <1>2, <1>3, <2>6, <4>4, StartIs
      <4>6. n <= i
        <5>1. ~(s[i].day < D)
          BY <1>2, <4>5
        <5>2. ~(i <= p1)
          BY <2>5, <2>6, <5>1
        <5> QED BY <2>3, <2>6, <3>1, <4>1, <5>2
      <4>7. s[n].day <= s[i].day /\ s[n].day \in Int
        BY <1>3, <2>6, <3>1, <4>6 DEF Timeline, Sorted
      <4>8. b <= s[n].day
        BY <1>3, <2>1, <2>6, <2>7, <3>1, StartIs
      <4>9. D + w <= b
        <5>1. D < b
          BY <1>2, <2>1, <4>4
        <5> QED BY <1>2, <2>1, <5>1, Apart
      <4> QED BY <1>2, <2>1, <4>5, <4>7, <4>8, <4>9
    <3> QED BY <2>3, <2>6, <3>1, <3>2, <3>3
  <2>8. \A n \in p1 + 2 .. q : n \in p0 + 2 .. q
    BY <2>2, <2>3, <2>4
  <2> QED BY <2>2, <2>3, <2>7, <2>8
<1>18. CASE Nothing(l1, O1, w)
  <2>1. whole = << >> /\ part = << >>
    BY <1>4, <1>12, <1>18
  <2>2. DOMAIN whole = {} /\ DOMAIN part = {}
    BY <2>1
  <2>3. /\ DOMAIN part = {b \in DOMAIN whole : b >= lo}
        /\ \A b \in DOMAIN part : part[b] = whole[b]
        /\ \A b \in DOMAIN whole : b \in Int /\ f <= b
    BY <2>2
  <2> QED BY <1>1, <2>3 DEF whole, part, t0, t1, O0, O1
<1>19. CASE ~Nothing(l1, O1, w)
  <2>1. whole = [b \in Emitted(O0, f, hi, v0) |-> Point0(b)] /\ part = [b \in Emitted(O1, lo, hi, v1) |-> Point1(b)]
    BY <1>4, <1>12, <1>19
  <2>2. DOMAIN whole = Emitted(O0, f, hi, v0) /\ DOMAIN part = Emitted(O1, lo, hi, v1)
    BY <2>1
  <2>3. ASSUME NEW b \in Emitted(O1, lo, hi, v1) PROVE Point1(b) = Point0(b)
    <3>1. CloseAt(s, l1, b, w) = CloseAt(s, l0, b, w)
      <4>1. Multiple(b, w) /\ v1 <= b
        BY <1>5, <1>8, <1>e1, <2>3 DEF Multiple
      <4> QED BY <1>15, <4>1
    <3>2. OpenAt(s, l1, v1, b, w) = OpenAt(s, l0, v0, b, w)
      BY <1>16, <1>19, <2>3
    <3>3. (l1 # {} /\ RowMismatch(t1, b, w)) = (l0 # {} /\ RowMismatch(t0, b, w)) /\ (l1 # {}) = (l0 # {})
      BY <1>11, <1>17, <2>3
    <3> QED BY <3>1, <3>2, <3>3 DEF Point0, Point1
  <2>4. \A b \in DOMAIN part : b \in DOMAIN whole /\ part[b] = Point1(b) /\ whole[b] = Point0(b)
    BY <1>14, <2>1, <2>2
  <2>5. \A b \in DOMAIN part : part[b] = whole[b]
    BY <2>2, <2>3, <2>4
  <2>6. DOMAIN part = {b \in DOMAIN whole : b >= lo}
    BY <1>14, <2>2
  <2>7. \A b \in DOMAIN whole : b \in Int /\ f <= b
    BY <1>5, <1>e0, <2>2 DEF Multiple
  <2> QED BY <1>1, <2>5, <2>6, <2>7 DEF whole, part, t0, t1, O0, O1
<1> QED BY <1>18, <1>19

\* The series of the rows there are, over a window.
LEMMA WindowSeries ==
    ASSUME HistoryOK, NEW w \in Nat \ {0}, NEW from \in Int \cup {Null}, NEW to \in Int \cup {Null}, Rows # << >>
    PROVE  LET s  == Rows
               lo == LoOf(s, from, w)
               hi == LedgerHi(s, to, w)
               D  == DerivLo(s, lo, w)
               E  == DerivHi(hi, w)
           IN  /\ Timeline(Row, s) /\ Multiple(lo, w) /\ Multiple(hi, w) /\ Multiple(E, w) /\ Multiple(FirstOf(s, w), w)
               /\ FirstOf(s, w) <= lo /\ hi <= E
               /\ readings # << >> => AnchorOf(w) <= E
               /\ to = Null => E = hi /\ FirstOf(s, w) <= hi
               /\ DerivSo(s, lo, D, w)
               /\ LedgerSeries(from, to, w) =
                    IF hi < lo THEN NoPoints
                    ELSE LedgerPoints(Within(s, D, E + w), Buckets(D, E, w), lo, hi, w)
<1>1. PICK s : s = Rows
  OBVIOUS
<1>2. Timeline(Row, s) /\ s # << >> /\ ReadingsOK
  BY <1>1, RowsIs, RowFields DEF HistoryOK, Timeline
<1>3. PICK lo, hi, D, E : /\ lo = LoOf(s, from, w) /\ hi = LedgerHi(s, to, w)
                          /\ D = DerivLo(s, lo, w) /\ E = DerivHi(hi, w)
  OBVIOUS
<1>4. /\ Multiple(FirstOf(s, w), w) /\ Multiple(lo, w)
      /\ from = Null => lo = FirstOf(s, w)
      /\ from # Null => lo = IF FirstOf(s, w) >= Start(from, w) THEN FirstOf(s, w) ELSE Start(from, w)
      /\ \A n \in 1 .. Len(s) : FirstOf(s, w) <= Start(s[n].day, w) /\ s[n].day \in Int
  <2>1. /\ Multiple(FirstOf(s, w), w) /\ Multiple(LoOf(s, from, w), w)
        /\ from = Null => LoOf(s, from, w) = FirstOf(s, w)
        /\ from # Null => LoOf(s, from, w) = IF FirstOf(s, w) >= Start(from, w) THEN FirstOf(s, w) ELSE Start(from, w)
        /\ \A n \in 1 .. Len(s) : FirstOf(s, w) <= Start(s[n].day, w) /\ s[n].day \in Int
    BY <1>2, LoIs
  <2> QED BY <1>3, <2>1
<1>5. Multiple(hi, w)
  BY <1>2, <1>3, WindowEnd
<1>e. Multiple(E, w) /\ hi <= E /\ (readings # << >> => AnchorOf(w) <= E)
  BY <1>2, <1>3, <1>5, EndIs
<1>6. FirstOf(s, w) \in Int /\ lo \in Int /\ hi \in Int
  BY <1>4, <1>5 DEF Multiple
<1>7. FirstOf(s, w) <= lo
  <2>1. CASE from = Null
    BY <1>4, <1>6, <2>1
  <2>2. CASE from # Null
    <3>1. Start(from, w) \in Int
      BY <2>2, StartIs DEF Multiple
    <3> QED BY <1>4, <1>6, <2>2, <3>1
  <2> QED BY <2>1, <2>2
<1>8. ASSUME to = Null PROVE E = hi /\ FirstOf(s, w) <= hi
  <2>1. 1 \in 1 .. Len(s)
    BY <1>2 DEF Timeline
  <2>2. hi = LedgerHi(s, Null, w)
    BY <1>3, <1>8
  <2>3. DerivHi(hi, w) = hi /\ \A n \in 1 .. Len(s) : Start(s[n].day, w) <= hi
    BY <1>2, <2>2, HiIs
  <2> QED BY <1>3, <2>1, <2>3 DEF FirstOf
<1>9. DerivSo(s, lo, D, w)
  BY <1>2, <1>3, <1>4, <1>7, DerivIs
<1>10. LedgerSeries(from, to, w) =
          IF hi < lo THEN NoPoints
          ELSE LedgerPoints(Within(s, D, E + w), Buckets(D, E, w), lo, hi, w)
  BY <1>1, <1>2, <1>3, LedgerSeriesIs
<1> QED BY <1>1, <1>2, <1>3, <1>4, <1>5, <1>e, <1>7, <1>8, <1>9, <1>10

\* The series from the first row on, up to wherever: its derivation, and the points in it.
EndedIs(s, to, f, hi, E, w) ==
    /\ Timeline(Row, s) /\ Multiple(f, w) /\ Multiple(hi, w) /\ Multiple(E, w) /\ f <= hi /\ hi <= E
    /\ readings # << >> => AnchorOf(w) <= E
    /\ \A n \in 1 .. Len(s) : s[n].day \in Int /\ f <= Start(s[n].day, w)
    /\ LedgerSeries(Null, to, w).points =
          LedgerPoints(Within(s, f, E + w), Buckets(f, E, w), f, hi, w).points
    /\ PointsSo(s, Within(s, f, E + w), Buckets(f, E, w), f, hi, w)
    /\ DOMAIN LedgerSeries(Null, to, w).points \in SUBSET {b \in Int : Multiple(b, w) /\ f <= b /\ b <= hi}

LEMMA EndedSeries ==
    ASSUME HistoryOK, NEW w \in Nat \ {0}, NEW to \in Int \cup {Null}, Rows # << >>,
           NEW s, s = Rows, NEW f, f = FirstOf(s, w), NEW hi, hi = LedgerHi(s, to, w)
    PROVE  /\ hi < f => LedgerSeries(Null, to, w) = NoPoints
           /\ ~(hi < f) => EndedIs(s, to, f, hi, DerivHi(hi, w), w)
<1>1. PICK D, E : D = DerivLo(s, f, w) /\ E = DerivHi(hi, w)
  OBVIOUS
<1>2. Timeline(Row, s) /\ s # << >> /\ Null \in Int \cup {Null}
  BY RowsIs, RowFields DEF HistoryOK, Timeline
<1>3. /\ LoOf(s, Null, w) = f
      /\ \A n \in 1 .. Len(s) : f <= Start(s[n].day, w) /\ s[n].day \in Int
  BY <1>2, LoIs
<1>4. /\ Multiple(f, w) /\ Multiple(hi, w) /\ Multiple(E, w) /\ hi <= E
      /\ readings # << >> => AnchorOf(w) <= E
      /\ DerivSo(s, f, D, w)
      /\ LedgerSeries(Null, to, w) =
            IF hi < f THEN NoPoints
            ELSE LedgerPoints(Within(s, D, E + w), Buckets(D, E, w), f, hi, w)
  BY <1>1, <1>2, <1>3, WindowSeries
<1>5. D = f
  <2>1. D \in Int /\ f \in Int /\ f <= D /\ D <= f
    BY <1>4 DEF DerivSo, Multiple
  <2> QED BY <2>1
<1>6. ASSUME ~(hi < f) PROVE EndedIs(s, to, f, hi, E, w)
  <2>1. f \in Int /\ hi \in Int /\ E \in Int /\ f <= hi /\ f <= E
    BY <1>4, <1>6 DEF Multiple
  <2>2. PICK pts : pts = LedgerSeries(Null, to, w).points
    OBVIOUS
  <2>3. pts = LedgerPoints(Within(s, f, E + w), Buckets(f, E, w), f, hi, w).points
    BY <1>4, <1>5, <1>6, <2>2
  <2>4. PointsSo(s, Within(s, f, E + w), Buckets(f, E, w), f, hi, w)
    BY <1>2, <1>4, <2>1, LedgerPointsAre
  <2>5. \A b \in DOMAIN pts : b \in Int /\ Multiple(b, w) /\ f <= b /\ b <= hi
    <3>1. \/ pts = << >>
          \/ DOMAIN pts = Emitted(Buckets(f, E, w), f, hi, LevelOf(s, Buckets(f, E, w), w))
      BY <2>3, <2>4 DEF PointsSo
    <3>2. \A b \in Emitted(Buckets(f, E, w), f, hi, LevelOf(s, Buckets(f, E, w), w)) :
              b \in Int /\ Multiple(b, w) /\ f <= b /\ b <= hi
      BY DEF Emitted, Buckets, Multiple
    <3> QED BY <3>1, <3>2
  <2>6. DOMAIN pts \in SUBSET {b \in Int : Multiple(b, w) /\ f <= b /\ b <= hi}
    BY <2>5
  <2> QED BY <1>2, <1>3, <1>4, <2>1, <2>2, <2>3, <2>4, <2>6 DEF EndedIs
<1> QED BY <1>1, <1>4, <1>6

\* Where a window begins changes no figure and drops no bucket.
LEMMA BeginsAlike ==
    ASSUME HistoryOK, NEW w \in Nat \ {0}, NEW from \in Int, NEW to \in Int \cup {Null},
           NEW whole, whole = LedgerSeries(Null, to, w).points,
           NEW window, window = LedgerSeries(from, to, w).points
    PROVE  IsPart(window, whole, {b \in DOMAIN whole : b >= Start(from, w)})
<1>0. Null \notin Int
  BY SeriesAssumption
<1>1. CASE Rows = << >>
  <2>1. LedgerSeries(Null, to, w) = NoPoints /\ LedgerSeries(from, to, w) = NoPoints
    BY <1>1, LedgerSeriesIs
  <2>2. whole = << >> /\ window = << >>
    BY <2>1 DEF NoPoints
  <2> QED BY <2>2 DEF IsPart
<1>2. CASE Rows # << >>
  <2>1. PICK s, f, lo, hi, D, E : /\ s = Rows /\ f = FirstOf(s, w) /\ lo = LoOf(s, from, w)
                                  /\ hi = LedgerHi(s, to, w)
                                  /\ D = DerivLo(s, lo, w) /\ E = DerivHi(hi, w)
    OBVIOUS
  <2>2. /\ Timeline(Row, s) /\ Multiple(lo, w) /\ Multiple(hi, w) /\ Multiple(E, w) /\ Multiple(f, w)
        /\ f <= lo /\ hi <= E
        /\ readings # << >> => AnchorOf(w) <= E
        /\ DerivSo(s, lo, D, w)
        /\ LedgerSeries(from, to, w) =
              IF hi < lo THEN NoPoints
              ELSE LedgerPoints(Within(s, D, E + w), Buckets(D, E, w), lo, hi, w)
    BY <1>2, <2>1, WindowSeries
  <2>3. /\ hi < f => LedgerSeries(Null, to, w) = NoPoints
        /\ ~(hi < f) => EndedIs(s, to, f, hi, E, w)
    BY <1>2, <2>1, EndedSeries
  <2>5. f \in Int /\ lo \in Int /\ hi \in Int /\ E \in Int /\ Start(from, w) \in Int
    BY <2>2, StartIs DEF Multiple
  <2>6. lo = IF f >= Start(from, w) THEN f ELSE Start(from, w)
    BY <1>0, <1>2, <2>1, <2>2, LoIs
  <2>8. CASE hi < f
    <3>1. hi < lo
      BY <2>2, <2>5, <2>8
    <3>2. whole = << >> /\ window = << >>
      BY <2>2, <2>3, <2>8, <3>1 DEF NoPoints
    <3> QED BY <3>2 DEF IsPart
  <2>9. CASE ~(hi < f) /\ hi < lo
    <3>1. window = << >>
      BY <2>2, <2>9 DEF NoPoints
    <3>2. \A b \in DOMAIN whole : b \in Int /\ b <= hi
      BY <2>3, <2>9 DEF EndedIs
    <3>3. ~(Start(from, w) <= hi)
      BY <2>5, <2>6, <2>9
    <3>4. {b \in DOMAIN whole : b >= Start(from, w)} = {}
      BY <2>5, <3>2, <3>3
    <3> QED BY <3>1, <3>4 DEF IsPart
  <2>10. CASE ~(hi < lo)
    <3>0. ~(hi < f) /\ lo <= hi
      BY <2>2, <2>5, <2>10
    <3>1. /\ whole = LedgerPoints(Within(s, f, E + w), Buckets(f, E, w), f, hi, w).points
          /\ \A b \in DOMAIN whole : b \in Int /\ f <= b
      BY <2>3, <3>0 DEF EndedIs
    <3>2. window = LedgerPoints(Within(s, D, E + w), Buckets(D, E, w), lo, hi, w).points
      BY <2>2, <2>10
    <3>3. /\ DOMAIN window = {b \in DOMAIN whole : b >= lo}
          /\ \A b \in DOMAIN window : window[b] = whole[b]
      <4>1. ReadingsOK /\ s # << >>
        BY <1>2, <2>1 DEF HistoryOK
      <4> QED BY <2>1, <2>2, <3>0, <3>1, <3>2, <4>1, SliceOfSeries
    <3>4. \A b \in DOMAIN whole : b >= lo <=> b >= Start(from, w)
      BY <2>5, <2>6, <3>1
    <3>5. {b \in DOMAIN whole : b >= lo} = {b \in DOMAIN whole : b >= Start(from, w)}
      BY <3>4
    <3> QED BY <3>3, <3>5 DEF IsPart
  <2> QED BY <2>8, <2>9, <2>10
<1> QED BY <1>1, <1>2

\* Two derivations of the same rows from the first one on: up to E, and further.  Beyond
\* E there is nothing that the first one needs when it has what the other is leveled by.
LEMMA EndOfSeries ==
    ASSUME ReadingsOK, NEW w \in Nat \ {0}, NEW s, Timeline(Row, s), NEW f, Multiple(f, w),
           \A n \in 1 .. Len(s) : s[n].day \in Int /\ f <= Start(s[n].day, w),
           NEW hi, NEW E, NEW end, NEW more, Multiple(hi, w), Multiple(E, w), Multiple(end, w), Multiple(more, w),
           f <= hi, hi <= E, hi <= end, end <= more, E <= more,
           readings # << >> => AnchorOf(w) <= E,
           \/ \A n \in 1 .. Len(s) : ~s[n].covered
           \/ \E n \in 1 .. Len(s) : s[n].covered /\ Start(s[n].day, w) <= E,
           NEW whole, whole = LedgerPoints(Within(s, f, more + w), Buckets(f, more, w), f, end, w).points,
           NEW part, part = LedgerPoints(Within(s, f, E + w), Buckets(f, E, w), f, hi, w).points
    PROVE  IsPart(part, whole, {b \in DOMAIN whole : b <= hi})
<1>1. /\ f \in Int /\ hi \in Int /\ E \in Int /\ end \in Int /\ more \in Int /\ w \in Int /\ 0 < w
      /\ f <= E /\ f <= end /\ f <= more /\ E + w \in Int /\ more + w \in Int
  <2>1. f \in Int /\ hi \in Int /\ E \in Int /\ end \in Int /\ more \in Int
    BY DEF Multiple
  <2> QED BY <2>1
<1> DEFINE O0 == Buckets(f, more, w)
           O1 == Buckets(f, E, w)
           l0 == LeveledIn(s, O0, w)
           l1 == LeveledIn(s, O1, w)
           v0 == LevelOf(s, O0, w)
           v1 == LevelOf(s, O1, w)
           t0 == Within(s, f, more + w)
           t1 == Within(s, f, E + w)
           Point0(b) == PointOf(s, l0 # {}, OpenAt(s, l0, v0, b, w), CloseAt(s, l0, b, w), l0 # {} /\ RowMismatch(t0, b, w), b, w)
           Point1(b) == PointOf(s, l1 # {}, OpenAt(s, l1, v1, b, w), CloseAt(s, l1, b, w), l1 # {} /\ RowMismatch(t1, b, w), b, w)
<1>4. /\ IF Nothing(l0, O0, w) THEN whole = << >> ELSE whole = [b \in Emitted(O0, f, end, v0) |-> Point0(b)]
      /\ IF Nothing(l1, O1, w) THEN part = << >> ELSE part = [b \in Emitted(O1, f, hi, v1) |-> Point1(b)]
  <2>1. PointsSo(s, t0, O0, f, end, w)
    BY <1>1, LedgerPointsAre
  <2>2. PointsSo(s, t1, O1, f, hi, w)
    BY <1>1, LedgerPointsAre
  <2> QED BY <2>1, <2>2 DEF PointsSo
<1>5. /\ \A b : b \in O0 <=> Multiple(b, w) /\ f <= b /\ b <= more
      /\ \A b : b \in O1 <=> Multiple(b, w) /\ f <= b /\ b <= E
  BY <1>1, BucketsIs
<1>6. /\ \A b : b \in l0 <=> /\ Multiple(b, w) /\ f <= b /\ b <= more
                             /\ \E n \in 1 .. Len(s) : s[n].covered /\ Start(s[n].day, w) = b
      /\ \A b : b \in l1 <=> /\ Multiple(b, w) /\ f <= b /\ b <= E
                             /\ \E n \in 1 .. Len(s) : s[n].covered /\ Start(s[n].day, w) = b
  <2>1. \A b : b \in l0 <=> /\ Multiple(b, w) /\ f <= b /\ b <= more
                            /\ \E n \in 1 .. Len(s) : s[n].covered /\ Start(s[n].day, w) = b
    BY <1>1, LeveledAny
  <2>2. \A b : b \in l1 <=> /\ Multiple(b, w) /\ f <= b /\ b <= E
                            /\ \E n \in 1 .. Len(s) : s[n].covered /\ Start(s[n].day, w) = b
    BY <1>1, LeveledAny
  <2> QED BY <2>1, <2>2
<1>7. /\ l0 \in SUBSET Int /\ v0 \in Int
      /\ l0 # {} => v0 \in l0 /\ \A x \in l0 : v0 <= x
      /\ l0 = {} => v0 = f
  <2>1. /\ l0 \in SUBSET Int /\ Multiple(v0, w)
        /\ l0 # {} => v0 \in l0 /\ \A x \in l0 : v0 <= x
        /\ l0 = {} => v0 = f
    BY <1>1, LevelIs
  <2> QED BY <2>1 DEF Multiple
<1>8. /\ l1 \in SUBSET Int /\ v1 \in Int /\ Multiple(v1, w)
      /\ l1 # {} => v1 \in l1 /\ \A x \in l1 : v1 <= x
      /\ l1 = {} => v1 = f
  <2>1. /\ l1 \in SUBSET Int /\ Multiple(v1, w)
        /\ l1 # {} => v1 \in l1 /\ \A x \in l1 : v1 <= x
        /\ l1 = {} => v1 = f
    BY <1>1, LevelIs
  <2> QED BY <2>1 DEF Multiple
<1>n0. Nothing(l0, O0, w) <=> l0 = {} /\ (readings = << >> \/ AnchorOf(w) \notin O0)
  BY DEF Nothing, AnchorOf
<1>n1. Nothing(l1, O1, w) <=> l1 = {} /\ (readings = << >> \/ AnchorOf(w) \notin O1)
  BY DEF Nothing, AnchorOf
<1>e0. \A b : b \in Emitted(O0, f, end, v0) <=> b \in O0 /\ f <= b /\ b <= end /\ b >= v0
  BY DEF Emitted
<1>e1. \A b : b \in Emitted(O1, f, hi, v1) <=> b \in O1 /\ f <= b /\ b <= hi /\ b >= v1
  BY DEF Emitted
<1> HIDE DEF O0, O1, l0, l1, v0, v1, t0, t1, Point0, Point1
<1>9. \A x : x \in l1 <=> x \in l0 /\ x <= E
  <2> SUFFICES ASSUME NEW x, Multiple(x, w) PROVE x <= E => x <= more
    BY <1>6
  <2> QED BY <1>1 DEF Multiple
<1>11. l0 = {} <=> l1 = {}
  <2>1. ASSUME NEW n \in 1 .. Len(s), s[n].covered, Start(s[n].day, w) <= E PROVE l1 # {}
    <3>1. PICK b : b = Start(s[n].day, w) /\ Multiple(b, w) /\ f <= b /\ b <= E
      BY <2>1, StartIs
    <3>2. b \in l1
      BY <1>6, <2>1, <3>1
    <3> QED BY <3>2
  <2>2. (\A n \in 1 .. Len(s) : ~s[n].covered) => l0 = {}
    BY <1>6
  <2> QED BY <1>9, <2>1, <2>2
<1>12. Nothing(l0, O0, w) <=> Nothing(l1, O1, w)
  <2>1. readings # << >> => (AnchorOf(w) \in O0 <=> AnchorOf(w) \in O1)
    <3> SUFFICES ASSUME readings # << >> PROVE AnchorOf(w) \in O0 <=> AnchorOf(w) \in O1
      OBVIOUS
    <3>1. PICK a \in Int : a = AnchorOf(w) /\ Multiple(a, w) /\ a <= E /\ a <= more
      <4>1. Multiple(AnchorOf(w), w) /\ AnchorOf(w) \in Int
        BY AnchorIs DEF AnchorReady, Multiple
      <4> QED BY <1>1, <4>1
    <3> QED BY <1>5, <3>1
  <2> QED BY <1>11, <1>n0, <1>n1, <2>1
<1>13. v0 = v1
  <2>1. CASE l1 = {}
    BY <1>7, <1>8, <1>11, <2>1
  <2>2. CASE l1 # {}
    <3>1. v0 \in l0 /\ v1 \in l1 /\ v0 <= v1 /\ v1 <= E
      BY <1>7, <1>8, <1>9, <1>11, <2>2
    <3>2. v0 \in l1
      BY <1>1, <1>7, <1>8, <1>9, <3>1
    <3> QED BY <1>7, <1>8, <2>2, <3>1, <3>2
  <2> QED BY <2>1, <2>2
<1>14. \A b : b \in Emitted(O1, f, hi, v1) <=> b \in Emitted(O0, f, end, v0) /\ b <= hi
  <2> SUFFICES ASSUME NEW b, Multiple(b, w)
               PROVE  b <= E /\ b <= hi <=> b <= more /\ b <= end /\ b <= hi
    BY <1>5, <1>13, <1>e0, <1>e1
  <2> QED BY <1>1 DEF Multiple
<1>15. ASSUME NEW b \in Int, b <= E PROVE CloseAt(s, l1, b, w) = CloseAt(s, l0, b, w)
  <2>1. CASE l1 = {}
    BY <1>11, <2>1
  <2>2. CASE l1 # {}
    <3>1. {x \in l1 : x <= b} = {x \in l0 : x <= b}
      <4>1. \A x \in l0 : x <= b => x <= E
        BY <1>1, <1>7, <1>15
      <4> QED BY <1>9, <4>1
    <3> QED BY <1>11, <2>2, <3>1 DEF CloseAt
  <2> QED BY <2>1, <2>2
<1>16. ASSUME NEW b \in Int, b <= E PROVE OpenAt(s, l1, v1, b, w) = OpenAt(s, l0, v0, b, w)
  <2>1. b - w \in Int /\ b - w <= E
    BY <1>1, <1>16
  <2>2. CloseAt(s, l1, b, w) = CloseAt(s, l0, b, w) /\ CloseAt(s, l1, b - w, w) = CloseAt(s, l0, b - w, w)
    BY <1>15, <1>16, <2>1
  <2> QED BY <1>11, <1>13, <2>2 DEF OpenAt
<1>17. ASSUME NEW b, Multiple(b, w), b <= hi PROVE RowMismatch(t1, b, w) <=> RowMismatch(t0, b, w)
  <2> DEFINE p == CutAt(s, f)
             q0 == CutAt(s, more + w)
             q1 == CutAt(s, E + w)
  <2>0. b \in Int /\ b + w <= E + w /\ f <= E + w /\ f <= more + w /\ E + w <= more + w
    <3>1. b \in Int
      BY <1>17 DEF Multiple
    <3> QED BY <1>1, <1>17, <3>1
  <2>2. /\ p \in 0 .. Len(s) /\ q0 \in 0 .. Len(s)
        /\ RowMismatch(t0, b, w) <=> \E n \in p + 2 .. q0 : Start(s[n].day, w) = b /\ Torn(s, n)
    <3>2. TornRows(s, f, more + w, b, w)
      BY <1>1, <2>0, TornIs
    <3> QED BY <3>2 DEF TornRows, t0
  <2>3. /\ q1 \in 0 .. Len(s)
        /\ RowMismatch(t1, b, w) <=> \E n \in p + 2 .. q1 : Start(s[n].day, w) = b /\ Torn(s, n)
    <3>2. TornRows(s, f, E + w, b, w)
      BY <1>1, <2>0, TornIs
    <3> QED BY <3>2 DEF TornRows, t1
  <2>4. q1 <= q0
    BY <1>1, <2>0, CutAtMono
  <2>5. \A n \in 1 .. Len(s) : s[n].day < E + w <=> n <= q1
    BY <1>1, CutAtIs
  <2> HIDE DEF p, q0, q1
  <2>6. PICK m \in Nat : m = Len(s)
    BY DEF Timeline
  <2>7. ASSUME NEW n \in p + 2 .. q0, Start(s[n].day, w) = b PROVE n \in p + 2 .. q1
    <3>1. n \in 1 .. m
      BY <2>2, <2>6
    <3>2. PICK d \in Int : d = s[n].day /\ d < b + w
      <4>1. s[n].day \in Int
        BY <2>6, <3>1
      <4> QED BY <2>7, <4>1, StartIs
    <3>3. d < E + w
      BY <1>1, <2>0, <3>2
    <3>4. n <= q1
      BY <2>5, <2>6, <3>1, <3>2, <3>3
    <3> QED BY <2>2, <2>3, <3>4
  <2>8. \A n \in p + 2 .. q1 : n \in p + 2 .. q0
    BY <2>2, <2>3, <2>4
  <2> QED BY <2>2, <2>3, <2>7, <2>8
<1>18. CASE Nothing(l1, O1, w)
  <2>1. whole = << >> /\ part = << >>
    BY <1>4, <1>12, <1>18
  <2> QED BY <2>1 DEF IsPart
<1>19. CASE ~Nothing(l1, O1, w)
  <2>1. whole = [b \in Emitted(O0, f, end, v0) |-> Point0(b)] /\ part = [b \in Emitted(O1, f, hi, v1) |-> Point1(b)]
    BY <1>4, <1>12, <1>19
  <2>2. DOMAIN whole = Emitted(O0, f, end, v0) /\ DOMAIN part = Emitted(O1, f, hi, v1)
    BY <2>1
  <2>3. ASSUME NEW b \in Emitted(O1, f, hi, v1) PROVE Point1(b) = Point0(b)
    <3>0. Multiple(b, w) /\ b \in Int /\ b <= E /\ b <= hi
      BY <1>5, <1>e1, <2>3 DEF Multiple
    <3>1. CloseAt(s, l1, b, w) = CloseAt(s, l0, b, w) /\ OpenAt(s, l1, v1, b, w) = OpenAt(s, l0, v0, b, w)
      BY <1>15, <1>16, <3>0
    <3>3. (l1 # {} /\ RowMismatch(t1, b, w)) = (l0 # {} /\ RowMismatch(t0, b, w)) /\ (l1 # {}) = (l0 # {})
      BY <1>11, <1>17, <3>0
    <3> QED BY <3>1, <3>3 DEF Point0, Point1
  <2>4. \A b \in DOMAIN part : part[b] = whole[b]
    BY <1>14, <2>1, <2>2, <2>3
  <2>5. DOMAIN part = {b \in DOMAIN whole : b <= hi}
    BY <1>14, <2>2
  <2> QED BY <2>4, <2>5 DEF IsPart
<1> QED BY <1>18, <1>19

\* A running balance is in reach of the window when it is in the range it is derived over.
LEMMA BankedIs ==
    ASSUME HistoryOK, NEW w \in Nat \ {0}, NEW to \in Int \cup {Null}, Rows # << >>,
           NEW s, s = Rows, NEW hi, hi = LedgerHi(s, to, w), NEW E, E = DerivHi(hi, w)
    PROVE  BankedBy(to, w) <=> \E n \in 1 .. Len(s) : s[n].covered /\ Start(s[n].day, w) <= E
<1>1. Timeline(Row, s) /\ ReadingsOK /\ s \in Seq(Row) /\ \A n \in 1 .. Len(s) : s[n].day \in Int
  <2>1. Timeline(Row, s) /\ ReadingsOK /\ Null \in Int \cup {Null}
    BY RowsIs, RowFields DEF HistoryOK, Timeline
  <2> QED BY <2>1, LoIs DEF Timeline
<1>2. BankedBy(to, w) <=>
          \E n \in 1 .. Len(s) :
              /\ s[n].covered
              /\ \/ to = Null \/ Start(s[n].day, w) <= to
                 \/ readings # << >> /\ Start(s[n].day, w) <= Last(readings).day
  <2>1. DOMAIN s = 1 .. Len(s)
    BY <1>1
  <2> QED BY <2>1 DEF BankedBy
<1>3. /\ Multiple(hi, w) /\ Multiple(E, w) /\ hi <= E /\ hi \in Int /\ E \in Int
      /\ readings # << >> => AnchorOf(w) <= E
      /\ E = hi \/ (readings # << >> /\ E = AnchorOf(w))
  <2>1. Multiple(hi, w)
    BY <1>1, WindowEnd
  <2>2. /\ Multiple(E, w) /\ hi <= E
        /\ readings # << >> => AnchorOf(w) <= E
        /\ E = hi \/ (readings # << >> /\ E = AnchorOf(w))
    BY <1>1, <2>1, EndIs
  <2> QED BY <2>1, <2>2 DEF Multiple
<1>4. ASSUME NEW n \in 1 .. Len(s)
      PROVE  Start(s[n].day, w) <= E <=>
                \/ to = Null \/ Start(s[n].day, w) <= to
                \/ readings # << >> /\ Start(s[n].day, w) <= Last(readings).day
  <2>1. PICK c \in Int : c = Start(s[n].day, w) /\ Multiple(c, w)
    <3>1. s[n].day \in Int
      BY <1>1
    <3> QED BY <3>1, StartIs DEF Multiple
  <2>2. CASE to = Null
    <3>1. c <= hi
      BY <1>1, <2>1, <2>2, HiIs
    <3> QED BY <1>3, <2>1, <2>2, <3>1
  <2>3. CASE to # Null
    <3>1. hi = Start(to, w) /\ to \in Int
      BY <1>1, <2>3, WindowEnd
    <3>2. c <= hi <=> c <= to
      BY <2>1, <3>1, BucketOf
    <3>3. ASSUME readings # << >>
          PROVE  AnchorOf(w) \in Int /\ (c <= AnchorOf(w) <=> c <= Last(readings).day)
      <4>1. PICK d \in Int : d = Last(readings).day
        BY <1>1, <3>3, AnchorIs, ReadingFields DEF AnchorReady
      <4>2. AnchorOf(w) = Start(d, w) /\ AnchorOf(w) \in Int
        BY <4>1, StartIs DEF AnchorOf, Multiple
      <4> QED BY <2>1, <4>1, <4>2, BucketOf
    <3>4. c <= E <=> c <= hi \/ (readings # << >> /\ c <= AnchorOf(w))
      <4>1. c <= hi => c <= E
        BY <1>3, <2>1
      <4>2. readings # << >> /\ c <= AnchorOf(w) => c <= E
        BY <1>3, <2>1, <3>3
      <4> QED BY <1>3, <4>1, <4>2
    <3> QED BY <2>1, <2>3, <3>2, <3>3, <3>4
  <2> QED BY <2>2, <2>3
<1> QED BY <1>2, <1>4

\* The last bucket of a window is the last that it comes to.
LEMMA ReachesIs ==
    ASSUME HistoryOK, NEW w \in Nat \ {0}, NEW to \in Int \cup {Null}, Rows # << >>,
           NEW hi, hi = LedgerHi(Rows, to, w), NEW b, Multiple(b, w)
    PROVE  Reaches(to, b) <=> b <= hi
<1>1. PICK s : s = Rows /\ Timeline(Row, s) /\ ReadingsOK
  <2>1. Timeline(Row, Rows) /\ ReadingsOK
    BY RowsIs, RowFields DEF HistoryOK, Timeline
  <2> QED BY <2>1
<1>2. CASE to # Null
  <2>1. hi = Start(to, w) /\ to \in Int
    BY <1>1, <1>2, WindowEnd
  <2> QED BY <1>2, <2>1, BucketOf DEF Reaches
<1>3. CASE to = Null
  <2>1. PICK m \in Nat : m = Len(s) /\ m \in 1 .. m /\ Last(s) = s[m] /\ DOMAIN s = 1 .. m
    BY <1>1 DEF Timeline, Last
  <2>2. \A n \in 1 .. m : s[n].day \in Int
    <3>1. Null \in Int \cup {Null}
      OBVIOUS
    <3> QED BY <1>1, <2>1, <3>1, LoIs
  <2>3. /\ Multiple(hi, w) /\ hi \in Int /\ b \in Int
        /\ \A n \in 1 .. m : Start(s[n].day, w) <= hi
        /\ readings # << >> => AnchorOf(w) <= hi
    <3>1. /\ Multiple(hi, w)
          /\ \A n \in 1 .. m : Start(s[n].day, w) <= hi
          /\ readings # << >> => AnchorOf(w) <= hi
      BY <1>1, <1>3, <2>1, HiIs
    <3> QED BY <3>1 DEF Multiple
  <2>4. \A n \in 1 .. m : b <= s[n].day <=> b <= Start(s[n].day, w)
    BY <2>2, BucketOf
  <2>5. PICK l \in Nat : l = Len(readings) /\ DOMAIN readings = 1 .. l /\ (readings # << >> => l \in 1 .. l)
    BY <1>1 DEF ReadingsOK
  <2>6. \A i \in 1 .. l : readings[i].day \in Int /\ readings[i].day <= readings[l].day
    <3>1. \A i \in 1 .. l : readings[i] \in Reading
      BY <1>1, <2>5 DEF ReadingsOK
    <3>2. \A i \in 1 .. l : readings[i].day <= readings[l].day
      <4>1. \A i \in 1 .. l : i <= l /\ l \in 1 .. l
        BY <2>5
      <4> QED BY <1>1, <2>5, <4>1 DEF ReadingsOK, Sorted
    <3> QED BY <3>1, <3>2, ReadingFields
  <2>7. ASSUME readings # << >>
        PROVE  AnchorOf(w) \in Int /\ Last(readings) = readings[l] /\ (b <= readings[l].day <=> b <= AnchorOf(w))
    <3>1. Last(readings) = readings[l] /\ readings[l].day \in Int
      BY <2>5, <2>6, <2>7 DEF Last
    <3>2. AnchorOf(w) = Start(readings[l].day, w) /\ AnchorOf(w) \in Int
      BY <3>1, StartIs DEF AnchorOf, Multiple
    <3> QED BY <3>1, <3>2, BucketOf
  <2>8. Reaches(to, b) <=> (\E n \in 1 .. m : b <= s[n].day) \/ \E i \in 1 .. l : b <= readings[i].day
    BY <1>1, <1>3, <2>1, <2>5 DEF Reaches
  <2>9. ASSUME Reaches(to, b) PROVE b <= hi
    <3>1. CASE \E n \in 1 .. m : b <= s[n].day
      <4>1. PICK n \in 1 .. m : b <= Start(s[n].day, w)
        BY <2>4, <3>1
      <4>2. Start(s[n].day, w) <= hi /\ Start(s[n].day, w) \in Int
        BY <2>2, <2>3, StartIs DEF Multiple
      <4> QED BY <2>3, <4>1, <4>2
    <3>2. CASE \E i \in 1 .. l : b <= readings[i].day
      <4>1. PICK i \in 1 .. l : b <= readings[i].day
        BY <3>2
      <4>2. readings # << >>
        BY <2>5
      <4>3. b <= readings[l].day
        <5>1. readings[l].day \in Int
          BY <2>5, <2>6, <4>2
        <5> QED BY <2>3, <2>6, <4>1, <5>1
      <4> QED BY <2>3, <2>7, <4>2, <4>3
    <3> QED BY <2>8, <2>9, <3>1, <3>2
  <2>10. ASSUME b <= hi PROVE Reaches(to, b)
    <3>1. PICK a \in Int : a = Start(s[m].day, w)
      BY <2>1, <2>2, StartIs DEF Multiple
    <3>2. CASE readings = << >>
      <4>1. hi = Most({a} \cup {})
        BY <1>1, <1>3, <2>1, <3>1, <3>2 DEF LedgerHi
      <4>2. {a} \cup {} = {a} /\ {a} \in SUBSET Int /\ a \in {a} /\ \A y \in {a} : a >= y
        OBVIOUS
      <4>3. Most({a}) = a
        BY <4>2, MostIs
      <4> QED BY <2>1, <2>4, <2>8, <2>10, <3>1, <4>1, <4>2, <4>3
    <3>3. CASE readings # << >>
      <4>1. PICK r \in Int : r = AnchorOf(w)
        BY <2>7, <3>3
      <4>2. hi = Most({a, r})
        <5>1. {a} \cup {r} = {a, r}
          OBVIOUS
        <5> QED BY <1>1, <1>3, <2>1, <3>1, <3>3, <4>1, <5>1 DEF LedgerHi, AnchorOf
      <4>3. hi = a \/ hi = r
        BY <4>2, LeastOfTwo
      <4>4. CASE hi = a
        BY <2>1, <2>4, <2>8, <2>10, <3>1, <4>4
      <4>5. CASE hi = r
        BY <2>5, <2>7, <2>8, <2>10, <3>3, <4>1, <4>5
      <4> QED BY <4>3, <4>4, <4>5
    <3> QED BY <3>2, <3>3
  <2> QED BY <2>9, <2>10
<1> QED BY <1>2, <1>3

\* No window of the calendar ends after it.
LEMMA HorizonIs ==
    ASSUME HistoryOK, NEW w \in Nat \ {0}, NEW to \in Ends, Rows # << >>,
           NEW end, end = LedgerHi(Rows, Horizon, w), NEW hi, hi = LedgerHi(Rows, to, w)
    PROVE  FirstOf(Rows, w) <= end /\ hi <= end
<1>0. Horizon \in Int /\ Horizon \in Nat /\ Null \notin Int /\ to \in Int \cup {Null}
  BY SeriesAssumption DEF Ends, Days
<1>1. PICK s : s = Rows /\ Timeline(Row, s) /\ ReadingsOK
  <2>1. Timeline(Row, Rows) /\ ReadingsOK
    BY RowsIs, RowFields DEF HistoryOK, Timeline
  <2> QED BY <2>1
<1>2. end = Start(Horizon, w) /\ Multiple(end, w) /\ end \in Int
  <2>1. Multiple(end, w) /\ end = Start(Horizon, w)
    BY <1>0, <1>1, WindowEnd
  <2> QED BY <2>1 DEF Multiple
<1>3. \A d \in Int : d <= Horizon => Start(d, w) <= end
  <2> SUFFICES ASSUME NEW d \in Int, d <= Horizon PROVE Start(d, w) <= end
    OBVIOUS
  <2>1. Horizon < end + w
    BY <1>0, <1>2, StartIs
  <2>2. d < end + w
    BY <1>0, <1>2, <2>1
  <2> QED BY <1>2, <2>2, BucketOf
<1>4. \A n \in 1 .. Len(s) : s[n].day \in Int /\ s[n].day <= Horizon
  <2> SUFFICES ASSUME NEW n \in 1 .. Len(s) PROVE s[n].day \in Int /\ s[n].day <= Horizon
    OBVIOUS
  <2>1. bank \in Seq(Row) /\ today \in Int /\ today <= Horizon
    BY DEF HistoryOK, RowsOK
  <2>2. s = Keep(bank, {r \in Row : ~r.lost})
    BY <1>1, RowsIs DEF HistoryOK
  <2>3. PICK T : T = {r \in Row : ~r.lost}
    OBVIOUS
  <2>4. \A j \in 1 .. Len(Keep(bank, T)) : \E i \in 1 .. Len(bank) : Keep(bank, T)[j] = bank[i]
    BY <2>1, KeepElements
  <2>5. PICK i \in 1 .. Len(bank) : s[n] = bank[i]
    BY <2>2, <2>3, <2>4
  <2>6. bank[i].day \in Int /\ bank[i].day <= today
    BY <2>1, RowFields DEF HistoryOK, RowsOK
  <2> QED BY <1>0, <2>1, <2>5, <2>6
<1>5. readings # << >> => AnchorOf(w) <= end
  <2> SUFFICES ASSUME readings # << >> PROVE AnchorOf(w) <= end
    OBVIOUS
  <2>1. readings \in Seq(Reading) /\ Len(readings) \in 1 .. Len(readings) /\ today \in Int /\ today <= Horizon
    BY DEF HistoryOK, ReadingsOK
  <2>2. Last(readings) = readings[Len(readings)] /\ Last(readings) \in Reading /\ Last(readings).day <= today
    BY <2>1 DEF Last, HistoryOK, ReadingsOK, ReadingAgrees
  <2>3. Last(readings).day \in Int /\ Last(readings).day <= Horizon
    BY <1>0, <2>1, <2>2, ReadingFields
  <2> QED BY <1>3, <2>3 DEF AnchorOf
<1>6. FirstOf(Rows, w) <= end
  <2>1. 1 \in 1 .. Len(s)
    BY <1>1 DEF Timeline
  <2> QED BY <1>1, <1>3, <1>4, <2>1 DEF FirstOf
<1>7. hi <= end
  <2>1. CASE to # Null
    <3>1. to \in Int /\ to <= Horizon
      BY <1>0, <2>1 DEF Ends, Days
    <3>2. hi = Start(to, w)
      BY <1>0, <1>1, <2>1, WindowEnd
    <3> QED BY <1>3, <3>1, <3>2
  <2>2. CASE to = Null
    <3>1. PICK m \in Nat : m = Len(s) /\ m \in 1 .. m /\ Last(s) = s[m]
      BY <1>1 DEF Timeline, Last
    <3>2. PICK a \in Int : a = Start(s[m].day, w) /\ a <= end
      <4>1. s[m].day \in Int /\ s[m].day <= Horizon
        BY <1>4, <3>1
      <4> QED BY <1>3, <4>1, StartIs DEF Multiple
    <3>3. CASE readings = << >>
      <4>1. hi = Most({a} \cup {})
        BY <1>0, <1>1, <2>2, <3>1, <3>2, <3>3 DEF LedgerHi
      <4>2. {a} \cup {} = {a} /\ {a} \in SUBSET Int /\ a \in {a} /\ \A y \in {a} : a >= y
        OBVIOUS
      <4>3. Most({a}) = a
        BY <4>2, MostIs
      <4> QED BY <3>2, <4>1, <4>2, <4>3
    <3>4. CASE readings # << >>
      <4>1. PICK r \in Int : r = AnchorOf(w) /\ r <= end
        BY <1>1, <1>5, <3>4, AnchorIs DEF AnchorReady, Multiple
      <4>2. hi = Most({a, r})
        <5>1. {a} \cup {r} = {a, r}
          OBVIOUS
        <5> QED BY <1>1, <2>2, <3>1, <3>2, <3>4, <4>1, <5>1 DEF LedgerHi, AnchorOf
      <4>3. hi = a \/ hi = r
        BY <4>2, LeastOfTwo
      <4> QED BY <3>2, <4>1, <4>3
    <3> QED BY <3>3, <3>4
  <2> QED BY <2>1, <2>2
<1> QED BY <1>6, <1>7

\* Where a window ends changes no figure and drops no bucket either, on an account without
\* running balances or with one of them in reach.
LEMMA EndsAlike ==
    ASSUME HistoryOK, NEW w \in Nat \ {0}, NEW to \in Ends, Covered(Rows) = << >> \/ BankedBy(to, w),
           NEW whole, whole = LedgerSeries(Null, Horizon, w).points,
           NEW ended, ended = LedgerSeries(Null, to, w).points
    PROVE  IsPart(ended, whole, {b \in DOMAIN whole : Reaches(to, b)})
<1>0. Horizon \in Int \cup {Null} /\ to \in Int \cup {Null}
  BY SeriesAssumption DEF Ends, Days
<1>1. CASE Rows = << >>
  <2>1. LedgerSeries(Null, to, w) = NoPoints /\ LedgerSeries(Null, Horizon, w) = NoPoints
    BY <1>1, LedgerSeriesIs
  <2>2. whole = << >> /\ ended = << >>
    BY <2>1 DEF NoPoints
  <2> QED BY <2>2 DEF IsPart
<1>2. CASE Rows # << >>
  <2>1. PICK s, f, hi, E, end, more : /\ s = Rows /\ f = FirstOf(s, w)
                                      /\ hi = LedgerHi(s, to, w) /\ E = DerivHi(hi, w)
                                      /\ end = LedgerHi(s, Horizon, w) /\ more = DerivHi(end, w)
    OBVIOUS
  <2>2. Timeline(Row, s) /\ ReadingsOK /\ s \in Seq(Row)
    BY <2>1, RowsIs, RowFields DEF HistoryOK, Timeline
  <2>3. f <= end /\ hi <= end
    BY <1>2, <2>1, HorizonIs
  <2>4. /\ Multiple(hi, w) /\ hi \in Int /\ Multiple(E, w) /\ E \in Int
        /\ E = hi \/ (readings # << >> /\ E = AnchorOf(w))
    <3>1. Multiple(hi, w)
      BY <1>0, <1>2, <2>1, <2>2, WindowEnd
    <3>2. Multiple(E, w) /\ (E = hi \/ (readings # << >> /\ E = AnchorOf(w)))
      BY <2>1, <2>2, <3>1, EndIs
    <3> QED BY <3>1, <3>2 DEF Multiple
  <2>5. Multiple(f, w) /\ f \in Int
    <3>1. Null \in Int \cup {Null}
      OBVIOUS
    <3>2. Multiple(f, w)
      BY <1>2, <2>1, <2>2, <3>1, LoIs
    <3> QED BY <3>2 DEF Multiple
  <2>6. EndedIs(s, Horizon, f, end, more, w)
    <3>1. ~(end < f)
      <4>1. Multiple(end, w)
        BY <1>0, <1>2, <2>1, <2>2, WindowEnd
      <4> QED BY <2>3, <2>5, <4>1 DEF Multiple
    <3> QED BY <1>0, <1>2, <2>1, <3>1, EndedSeries
  <2>7. /\ Multiple(end, w) /\ Multiple(more, w) /\ end \in Int /\ more \in Int /\ end <= more
        /\ readings # << >> => AnchorOf(w) <= more
        /\ whole = LedgerPoints(Within(s, f, more + w), Buckets(f, more, w), f, end, w).points
        /\ \A b \in DOMAIN whole : b \in Int /\ Multiple(b, w) /\ f <= b
    BY <2>6 DEF EndedIs, Multiple
  <2>8. {b \in DOMAIN whole : Reaches(to, b)} = {b \in DOMAIN whole : b <= hi}
    <3>1. \A b : Multiple(b, w) => (Reaches(to, b) <=> b <= hi)
      BY <1>0, <1>2, <2>1, ReachesIs
    <3> QED BY <2>7, <3>1
  <2>9. CASE hi < f
    <3>1. LedgerSeries(Null, to, w) = NoPoints
      BY <1>0, <1>2, <2>1, <2>9, EndedSeries
    <3>2. ended = << >>
      BY <3>1 DEF NoPoints
    <3>3. {b \in DOMAIN whole : b <= hi} = {}
      BY <2>4, <2>5, <2>7, <2>9
    <3> QED BY <2>8, <3>2, <3>3 DEF IsPart
  <2>10. CASE ~(hi < f)
    <3>1. EndedIs(s, to, f, hi, E, w)
      BY <1>0, <1>2, <2>1, <2>10, EndedSeries
    <3>2. /\ f <= hi /\ hi <= E /\ (readings # << >> => AnchorOf(w) <= E)
          /\ \A n \in 1 .. Len(s) : s[n].day \in Int /\ f <= Start(s[n].day, w)
          /\ ended = LedgerPoints(Within(s, f, E + w), Buckets(f, E, w), f, hi, w).points
      BY <3>1 DEF EndedIs
    <3>3. E <= more
      BY <2>3, <2>4, <2>7
    <3>4. \/ \A n \in 1 .. Len(s) : ~s[n].covered
          \/ \E n \in 1 .. Len(s) : s[n].covered /\ Start(s[n].day, w) <= E
      <4>1. CASE BankedBy(to, w)
        BY <1>0, <1>2, <2>1, <4>1, BankedIs
      <4>2. CASE Covered(Rows) = << >>
        BY <2>1, <2>2, <4>2, CoveredAny
      <4> QED BY <4>1, <4>2
    <3>5. IsPart(ended, whole, {b \in DOMAIN whole : b <= hi})
      BY <2>2, <2>3, <2>4, <2>5, <2>7, <3>2, <3>3, <3>4, EndOfSeries
    <3> QED BY <2>8, <3>5
  <2> QED BY <2>9, <2>10
<1> QED BY <1>1, <1>2

\* A window is a part of the series, from end to end.
LEMMA WindowsOfHistory == ASSUME HistoryOK PROVE WindowIsASlice
<1> SUFFICES ASSUME NEW w \in Widths, NEW to \in Ends
             PROVE  LET whole == LedgerSeries(Null, Horizon, w).points
                        ended == LedgerSeries(Null, to, w).points
                    IN  /\ \A from \in Days :
                              IsPart(LedgerSeries(from, to, w).points, ended,
                                     {b \in DOMAIN ended : b >= Start(from, w)})
                        /\ Covered(Rows) = << >> \/ BankedBy(to, w) =>
                              IsPart(ended, whole, {b \in DOMAIN whole : Reaches(to, b)})
  BY DEF WindowIsASlice
<1>1. w \in Nat \ {0} /\ to \in Int \cup {Null} /\ \A from \in Days : from \in Int
  BY SeriesAssumption DEF Days, Ends
<1>2. PICK whole, ended : whole = LedgerSeries(Null, Horizon, w).points /\ ended = LedgerSeries(Null, to, w).points
  OBVIOUS
<1>3. ASSUME NEW from \in Days
      PROVE  IsPart(LedgerSeries(from, to, w).points, ended, {b \in DOMAIN ended : b >= Start(from, w)})
  BY <1>1, <1>2, BeginsAlike
<1>4. ASSUME Covered(Rows) = << >> \/ BankedBy(to, w)
      PROVE  IsPart(ended, whole, {b \in DOMAIN whole : Reaches(to, b)})
  BY <1>1, <1>2, <1>4, EndsAlike
<1> QED BY <1>2, <1>3, <1>4

-----------------------------------------------------------------------------
(* Opening and closing levels *)

\* With running balances: the level is the account's, wherever the bucket takes it from.
LEMMA BankedLevels ==
    ASSUME NEW w \in Nat \ {0}, NEW s, Timeline(Row, s), NEW L, Levels(s, L),
           NEW leveled \in SUBSET Int, NEW level \in leveled, \A x \in leveled : level <= x,
           \A x \in leveled : Covered(In(s, x, w)) # << >>,
           Multiple(level, w), NEW b, Multiple(b, w), level <= b
    PROVE  /\ CloseAt(s, leveled, b, w) = L[CutAt(s, b + w)] /\ OpenAt(s, leveled, level, b, w) = L[CutAt(s, b)]
           /\ L[CutAt(s, b + w)] \in Int /\ L[CutAt(s, b)] \in Int
<1>0. b \in Int /\ level \in Int /\ Chain(s, L) /\ w \in Int /\ 0 < w
  BY DEF Multiple, Levels
<1>1. ASSUME NEW d \in Int, level <= d
      PROVE  CloseAt(s, leveled, d, w) = L[CutAt(s, d + w)] /\ L[CutAt(s, d + w)] \in Int
  <2> DEFINE before == {x \in leveled : x <= d}
  <2>1. before \in SUBSET Int /\ before # {} /\ \A x \in before : x <= d
    BY <1>1
  <2> HIDE DEF before
  <2>2. Most(before) \in before
    BY <2>1, MostOfMany
  <2>3. PICK c \in Int : c = Most(before) /\ c \in leveled /\ c <= d
    BY <2>1, <2>2 DEF before
  <2>4. c <= c + w /\ c + w <= d + w /\ c + w \in Int /\ d + w \in Int
    BY <1>0, <2>3
  <2>5. Covered(Within(s, c, c + w)) # << >>
    BY <2>3 DEF In
  <2>6. BankClose(Within(s, c, c + w)) = L[CutAt(s, c + w)]
    BY <2>4, <2>5, BankBalances
  <2>7. /\ Sum(Within(s, c + w, d + w)) = L[CutAt(s, d + w)] - L[CutAt(s, c + w)]
        /\ L[CutAt(s, d + w)] \in Int /\ L[CutAt(s, c + w)] \in Int
    BY <1>0, <2>4, SpanSum
  <2>8. CloseAt(s, leveled, d, w) = BankClose(Within(s, c, c + w)) + Sum(Within(s, c + w, d + w))
    BY <2>3 DEF CloseAt, In, before
  <2> QED BY <2>6, <2>7, <2>8
<1>2. CASE b > level
  <2>1. Multiple(b - w, w) /\ level + w <= b
    BY <1>0, <1>2, Apart
  <2>2. b - w \in Int /\ level <= b - w /\ (b - w) + w = b
    BY <1>0, <2>1
  <2>3. CloseAt(s, leveled, b - w, w) = L[CutAt(s, b)] /\ L[CutAt(s, b)] \in Int
    <3>1. /\ CloseAt(s, leveled, b - w, w) = L[CutAt(s, (b - w) + w)] /\ L[CutAt(s, (b - w) + w)] \in Int
      BY <1>1, <2>2
    <3> QED BY <2>2, <3>1
  <2>4. OpenAt(s, leveled, level, b, w) = CloseAt(s, leveled, b - w, w)
    BY <1>2 DEF OpenAt
  <2> QED BY <1>0, <1>1, <2>3, <2>4
<1>3. CASE b = level
  <2>1. Covered(Within(s, b, b + w)) # << >> /\ b <= b + w /\ b + w \in Int
    BY <1>0, <1>3 DEF In
  <2>2. BankOpening(Within(s, b, b + w)) = L[CutAt(s, b)] /\ L[CutAt(s, b)] \in Int
    BY <1>0, <2>1, BankBalances
  <2>3. OpenAt(s, leveled, level, b, w) = BankOpening(Within(s, b, b + w))
    BY <1>0, <1>3 DEF OpenAt, In
  <2> QED BY <1>0, <1>1, <2>2, <2>3
<1> QED BY <1>0, <1>2, <1>3

\* Walked from a reading: off the account's level by what the reading is off at the end
\* of its bucket.
OffAt(s, L, w) == Last(readings).balance - L[CutAt(s, AnchorOf(w) + w)]
WalkedFrom(s, L, level, b, w) ==
    /\ CloseAt(s, {}, b, w) = OffAt(s, L, w) + L[CutAt(s, b + w)]
    /\ OpenAt(s, {}, level, b, w) = OffAt(s, L, w) + L[CutAt(s, b)]
    /\ OffAt(s, L, w) \in Int /\ L[CutAt(s, b + w)] \in Int /\ L[CutAt(s, b)] \in Int

LEMMA WalkedLevels ==
    ASSUME ReadingsOK, readings # << >>, NEW w \in Nat \ {0}, NEW s, Timeline(Row, s), NEW L, Chain(s, L),
           NEW level, NEW b \in Int
    PROVE  WalkedFrom(s, L, level, b, w)
<1>1. PICK at \in Int, x \in Int : at = AnchorOf(w) /\ x = Last(readings).balance
  BY AnchorIs, ReadingFields DEF AnchorReady, Multiple
<1>2. w \in Int /\ 0 < w /\ at + w \in Int
  OBVIOUS
<1>3. L[CutAt(s, at + w)] \in Int
  <2>1. at + w <= at + w
    BY <1>2
  <2> QED BY <1>2, <2>1, SpanSum
<1>4. PICK off \in Int, z \in Int : off = x - z /\ z = L[CutAt(s, at + w)]
  BY <1>3
<1>5. ASSUME NEW d \in Int PROVE CloseAt(s, {}, d, w) = off + L[CutAt(s, d + w)] /\ L[CutAt(s, d + w)] \in Int
  <2>1. d + w \in Int
    BY <1>2
  <2>2. CASE d <= at
    <3>1. d + w <= at + w
      BY <1>2, <2>2
    <3>e. PICK e \in Int, g \in Int : e = at + w /\ g = d + w /\ g <= e
      BY <1>2, <2>1, <3>1
    <3>s. Sum(Within(s, g, e)) = L[CutAt(s, e)] - L[CutAt(s, g)] /\ L[CutAt(s, g)] \in Int
      BY <3>e, SpanSum
    <3>2. Sum(Within(s, d + w, at + w)) = z - L[CutAt(s, d + w)] /\ L[CutAt(s, d + w)] \in Int
      BY <1>4, <3>e, <3>s
    <3>3. CloseAt(s, {}, d, w) = x - Sum(Within(s, d + w, at + w))
      BY <1>1, <2>2 DEF CloseAt, WalkClose, AnchorOf
    <3> QED BY <1>4, <3>2, <3>3
  <2>3. CASE ~(d <= at)
    <3>1. at + w <= d + w
      BY <1>2, <2>3
    <3>e. PICK e \in Int, g \in Int : e = at + w /\ g = d + w /\ e <= g
      BY <1>2, <2>1, <3>1
    <3>s. Sum(Within(s, e, g)) = L[CutAt(s, g)] - L[CutAt(s, e)] /\ L[CutAt(s, g)] \in Int
      BY <3>e, SpanSum
    <3>2. Sum(Within(s, at + w, d + w)) = L[CutAt(s, d + w)] - z /\ L[CutAt(s, d + w)] \in Int
      BY <1>4, <3>e, <3>s
    <3>3. CloseAt(s, {}, d, w) = x + Sum(Within(s, at + w, d + w))
      BY <1>1, <2>3 DEF CloseAt, WalkClose, AnchorOf
    <3> QED BY <1>4, <3>2, <3>3
  <2> QED BY <2>2, <2>3
<1>6. OpenAt(s, {}, level, b, w) = off + L[CutAt(s, b)] /\ L[CutAt(s, b)] \in Int
  <2>0. b - w \in Int /\ (b - w) + w = b /\ b + w \in Int /\ b <= b + w
    BY <1>2
  <2>1. CASE b > level
    <3>1. OpenAt(s, {}, level, b, w) = CloseAt(s, {}, b - w, w)
      BY <2>1 DEF OpenAt
    <3>2. CloseAt(s, {}, b - w, w) = off + L[CutAt(s, (b - w) + w)] /\ L[CutAt(s, (b - w) + w)] \in Int
      BY <1>5, <2>0
    <3> QED BY <2>0, <3>1, <3>2
  <2>2. CASE ~(b > level)
    <3>1. OpenAt(s, {}, level, b, w) = CloseAt(s, {}, b, w) - Sum(Within(s, b, b + w))
      BY <2>2 DEF OpenAt, In
    <3>2. Sum(Within(s, b, b + w)) = L[CutAt(s, b + w)] - L[CutAt(s, b)] /\ L[CutAt(s, b)] \in Int
      BY <2>0, SpanSum
    <3>3. CloseAt(s, {}, b, w) = off + L[CutAt(s, b + w)] /\ L[CutAt(s, b + w)] \in Int
      BY <1>5
    <3> QED BY <3>1, <3>2, <3>3
  <2> QED BY <2>1, <2>2
<1> QED BY <1>1, <1>4, <1>5, <1>6 DEF OffAt, WalkedFrom

-----------------------------------------------------------------------------
(* The whole series *)

\* Its points, and that every row is in it.
WholeIs(s, f, hi, w) ==
    /\ Timeline(Row, s) /\ Multiple(f, w) /\ Multiple(hi, w) /\ f <= hi
    /\ readings # << >> => AnchorOf(w) <= hi
    /\ \A n \in 1 .. Len(s) : s[n].day \in Int /\ f <= Start(s[n].day, w) /\ Start(s[n].day, w) <= hi
    /\ LedgerSeries(Null, Null, w).points =
          LedgerPoints(Within(s, f, hi + w), Buckets(f, hi, w), f, hi, w).points
    /\ PointsSo(s, Within(s, f, hi + w), Buckets(f, hi, w), f, hi, w)

LEMMA WholeSeriesIs ==
    ASSUME HistoryOK, NEW w \in Nat \ {0}, Rows # << >>
    PROVE  WholeIs(Rows, FirstOf(Rows, w), LedgerHi(Rows, Null, w), w)
<1>1. PICK s, f, hi, E : s = Rows /\ f = FirstOf(s, w) /\ hi = LedgerHi(s, Null, w) /\ E = DerivHi(hi, w)
  OBVIOUS
<1>2. Timeline(Row, s) /\ s # << >> /\ ReadingsOK /\ Null \in Int \cup {Null}
  BY <1>1, RowsIs, RowFields DEF HistoryOK, Timeline
<1>3. Multiple(f, w) /\ Multiple(hi, w) /\ E = hi /\ f <= hi
  BY <1>1, <1>2, WindowSeries
<1>4. EndedIs(s, Null, f, hi, hi, w)
  <2>1. ~(hi < f)
    BY <1>3 DEF Multiple
  <2> QED BY <1>1, <1>2, <1>3, <2>1, EndedSeries
<1>5. \A n \in 1 .. Len(s) : Start(s[n].day, w) <= hi
  BY <1>1, <1>2, HiIs
<1> QED BY <1>1, <1>4, <1>5 DEF EndedIs, WholeIs

\* The points up to wherever have the levels of the account, off by the same amount throughout.
OffBy(s, L, off, to, w) ==
    LET ended == LedgerSeries(Null, to, w).points IN
    \A b \in DOMAIN ended :
        /\ Multiple(b, w) /\ L[CutAt(s, b + w)] \in Int /\ L[CutAt(s, b)] \in Int
        /\ ended[b].close = off + L[CutAt(s, b + w)]
        /\ ~ended[b].mismatch

\* Nothing where a running balance is in reach, and what the reading is off where not.
OffSo(s, L, off, to, w) ==
    /\ BankedBy(to, w) => off = 0
    /\ ~BankedBy(to, w) =>
          \/ LedgerSeries(Null, to, w).points = << >>
          \/ readings # << >> /\ off = OffAt(s, L, w)

LEMMA LevelsOfSeries ==
    ASSUME HistoryOK, NEW w \in Nat \ {0}, NEW to \in Int \cup {Null}, Rows # << >>, NEW L, Levels(Rows, L)
    PROVE  \E off \in Int : OffBy(Rows, L, off, to, w) /\ OffSo(Rows, L, off, to, w)
<1>1. PICK s, f, hi, E : s = Rows /\ f = FirstOf(s, w) /\ hi = LedgerHi(s, to, w) /\ E = DerivHi(hi, w)
  OBVIOUS
<1> DEFINE O == Buckets(f, E, w)
           l == LeveledIn(s, O, w)
           v == LevelOf(s, O, w)
           t == Within(s, f, E + w)
           ended == LedgerSeries(Null, to, w).points
           Point(b) == PointOf(s, l # {}, OpenAt(s, l, v, b, w), CloseAt(s, l, b, w), l # {} /\ RowMismatch(t, b, w), b, w)
<1>0. CASE hi < f
  <2>1. ended = << >>
    BY <1>0, <1>1, EndedSeries DEF NoPoints
  <2>2. 0 \in Int /\ OffBy(s, L, 0, to, w) /\ OffSo(s, L, 0, to, w)
    BY <2>1 DEF OffBy, OffSo, ended
  <2> QED BY <1>1, <2>2
<1> SUFFICES ASSUME ~(hi < f)
             PROVE  \E off \in Int : OffBy(Rows, L, off, to, w) /\ OffSo(Rows, L, off, to, w)
  BY <1>0
<1>2. EndedIs(s, to, f, hi, E, w) /\ Levels(s, L) /\ Chain(s, L)
  BY <1>1, EndedSeries DEF Levels
<1>3. Timeline(Row, s) /\ Multiple(f, w) /\ Multiple(E, w) /\ f <= E /\ s \in Seq(Row)
  BY <1>2 DEF EndedIs, Timeline, Multiple
<1>4. f \in Int /\ E \in Int /\ w \in Int /\ 0 < w
  BY <1>3 DEF Multiple
<1>5. IF Nothing(l, O, w) THEN ended = << >> ELSE ended = [b \in Emitted(O, f, hi, v) |-> Point(b)]
  BY <1>2 DEF EndedIs, PointsSo
<1>6. /\ l \in SUBSET Int /\ Multiple(v, w) /\ f <= v /\ v <= E
      /\ l # {} => v \in l /\ \A x \in l : v <= x
      /\ l = {} => v = f
  BY <1>3, LevelIs
<1>7. l # {} <=> BankedBy(to, w)
  <2>1. \A b : b \in l <=> /\ Multiple(b, w) /\ f <= b /\ b <= E
                           /\ \E n \in 1 .. Len(s) : s[n].covered /\ Start(s[n].day, w) = b
    BY <1>3, LeveledAny
  <2>2. BankedBy(to, w) <=> \E n \in 1 .. Len(s) : s[n].covered /\ Start(s[n].day, w) <= E
    BY <1>1, BankedIs
  <2>3. ASSUME NEW n \in 1 .. Len(s), s[n].covered, Start(s[n].day, w) <= E PROVE l # {}
    <3>1. PICK b : b = Start(s[n].day, w)
      OBVIOUS
    <3>2. Multiple(b, w) /\ f <= b /\ b <= E
      BY <1>2, <2>3, <3>1, StartIs DEF EndedIs
    <3>3. b \in l
      <4> HIDE DEF l
      <4> QED BY <2>1, <2>3, <3>1, <3>2
    <3> QED BY <3>3
  <2> HIDE DEF l
  <2> QED BY <2>1, <2>2, <2>3
<1>8. /\ \A x \in l : Covered(In(s, x, w)) # << >>
      /\ \A b \in Emitted(O, f, hi, v) : Multiple(b, w) /\ b \in Int /\ v <= b
  BY <1>4, <1>6 DEF LeveledIn, Emitted, Buckets, Multiple
<1>9. \A b : ~RowMismatch(t, b, w)
  <2> SUFFICES ASSUME NEW b, RowMismatch(t, b, w) PROVE FALSE
    OBVIOUS
  <2>1. f <= E + w /\ E + w \in Int
    BY <1>3, <1>4
  <2>e. PICK e \in Int : e = E + w /\ f <= e
    BY <2>1
  <2>r. /\ CutAt(s, f) \in 0 .. Len(s) /\ CutAt(s, e) \in 0 .. Len(s)
        /\ RowMismatch(Within(s, f, e), b, w) <=>
              \E n \in CutAt(s, f) + 2 .. CutAt(s, e) : Start(s[n].day, w) = b /\ Torn(s, n)
    <3>1. Timeline(Row, s) /\ f \in Int /\ e \in Int /\ f <= e
      BY <1>3, <1>4, <2>e
    <3>2. TornRows(s, f, e, b, w)
      BY <3>1, TornIs
    <3> QED BY <3>2 DEF TornRows
  <2>2. /\ CutAt(s, f) \in 0 .. Len(s) /\ CutAt(s, E + w) \in 0 .. Len(s)
        /\ \E n \in CutAt(s, f) + 2 .. CutAt(s, E + w) : Start(s[n].day, w) = b /\ Torn(s, n)
    BY <2>e, <2>r
  <2>3. PICK n \in CutAt(s, f) + 2 .. CutAt(s, E + w) : Torn(s, n)
    BY <2>2
  <2>4. n \in 1 .. Len(s) /\ n - 1 \in 1 .. Len(s)
    <3>1. PICK m \in Nat : m = Len(s)
      BY <1>3
    <3> QED BY <2>2, <2>3, <3>1
  <2>5. s[n].level = L[n] /\ s[n - 1].level = L[n - 1] /\ L[n] = L[n - 1] + s[n].amt
    BY <1>2, <2>4 DEF Levels, Chain
  <2>6. L[n - 1] \in Int /\ s[n].amt \in Int
    <3>1. n - 1 \in 0 .. Len(s)
      BY <2>4
    <3>2. L[n - 1] \in Int
      BY <1>2, <3>1 DEF Chain
    <3>3. s[n] \in Row
      BY <1>3, <2>4
    <3> QED BY <3>2, <3>3, RowFields
  <2> QED BY <2>3, <2>5, <2>6 DEF Torn
<1> HIDE DEF O, l, v, t, ended, Point
<1>10. ASSUME NEW off \in Int,
              \A b \in Emitted(O, f, hi, v) :
                  /\ CloseAt(s, l, b, w) = off + L[CutAt(s, b + w)] /\ OpenAt(s, l, v, b, w) = off + L[CutAt(s, b)]
                  /\ L[CutAt(s, b + w)] \in Int /\ L[CutAt(s, b)] \in Int,
              ~Nothing(l, O, w)
       PROVE  OffBy(s, L, off, to, w)
  <2>1. ended = [b \in Emitted(O, f, hi, v) |-> Point(b)]
    BY <1>5, <1>10
  <2>2. ASSUME NEW b \in Emitted(O, f, hi, v)
        PROVE  /\ Multiple(b, w) /\ L[CutAt(s, b + w)] \in Int /\ L[CutAt(s, b)] \in Int
               /\ ended[b].close = off + L[CutAt(s, b + w)]
               /\ ~ended[b].mismatch
    <3>1. ended[b] = Point(b)
      BY <2>1
    <3>2. /\ Point(b).close = CloseAt(s, l, b, w)
          /\ Point(b).mismatch <=> CloseAt(s, l, b, w) - OpenAt(s, l, v, b, w) # Sum(In(s, b, w))
      BY <1>9 DEF Point, PointOf
    <3>3. b \in Int /\ b <= b + w /\ b + w \in Int
      BY <1>4, <1>8
    <3>4. Sum(In(s, b, w)) = L[CutAt(s, b + w)] - L[CutAt(s, b)]
      BY <1>2, <1>3, <3>3, SpanSum DEF In
    <3>5. PICK x \in Int, y \in Int : x = L[CutAt(s, b + w)] /\ y = L[CutAt(s, b)]
      BY <1>10
    <3>6. (off + x) - (off + y) = x - y
      OBVIOUS
    <3>7. CloseAt(s, l, b, w) - OpenAt(s, l, v, b, w) = Sum(In(s, b, w))
      BY <1>10, <3>4, <3>5, <3>6
    <3> QED BY <1>8, <1>10, <3>1, <3>2, <3>7
  <2>3. DOMAIN ended = Emitted(O, f, hi, v)
    BY <2>1
  <2> QED BY <2>2, <2>3 DEF OffBy, ended
<1>11. CASE l # {}
  <2>1. \A b \in Emitted(O, f, hi, v) :
            /\ CloseAt(s, l, b, w) = L[CutAt(s, b + w)] /\ OpenAt(s, l, v, b, w) = L[CutAt(s, b)]
            /\ L[CutAt(s, b + w)] \in Int /\ L[CutAt(s, b)] \in Int
    BY <1>2, <1>3, <1>6, <1>8, <1>11, BankedLevels
  <2>2. \A b \in Emitted(O, f, hi, v) :
            /\ CloseAt(s, l, b, w) = 0 + L[CutAt(s, b + w)] /\ OpenAt(s, l, v, b, w) = 0 + L[CutAt(s, b)]
            /\ L[CutAt(s, b + w)] \in Int /\ L[CutAt(s, b)] \in Int
    BY <2>1
  <2>3. ~Nothing(l, O, w)
    BY <1>11 DEF Nothing
  <2>4. 0 \in Int /\ OffBy(s, L, 0, to, w)
    BY <1>10, <2>2, <2>3
  <2>5. OffSo(s, L, 0, to, w)
    BY <1>7, <1>11 DEF OffSo
  <2> QED BY <1>1, <2>4, <2>5
<1>12. CASE l = {} /\ readings # << >>
  <2>1. ReadingsOK
    BY DEF HistoryOK
  <2>2. PICK off : off = OffAt(s, L, w)
    OBVIOUS
  <2>3. off \in Int
    <3>1. Timeline(Row, s) /\ Chain(s, L) /\ readings # << >>
      BY <1>2, <1>3, <1>12
    <3>2. WalkedFrom(s, L, v, f, w)
      BY <1>4, <2>1, <3>1, WalkedLevels
    <3> QED BY <2>2, <3>2 DEF WalkedFrom
  <2>4. ASSUME NEW b \in Emitted(O, f, hi, v)
        PROVE  /\ CloseAt(s, l, b, w) = off + L[CutAt(s, b + w)] /\ OpenAt(s, l, v, b, w) = off + L[CutAt(s, b)]
               /\ L[CutAt(s, b + w)] \in Int /\ L[CutAt(s, b)] \in Int
    <3>1. b \in Int
      BY <1>8
    <3>2. Timeline(Row, s) /\ Chain(s, L) /\ readings # << >>
      BY <1>2, <1>3, <1>12
    <3>3. WalkedFrom(s, L, v, b, w)
      BY <2>1, <3>1, <3>2, WalkedLevels
    <3> QED BY <1>12, <2>2, <3>3 DEF WalkedFrom
  <2>5. OffBy(s, L, off, to, w)
    <3>1. CASE Nothing(l, O, w)
      BY <1>5, <3>1 DEF OffBy, ended
    <3> QED BY <1>10, <2>3, <2>4, <3>1
  <2>6. OffSo(s, L, off, to, w)
    BY <1>7, <1>12, <2>2 DEF OffSo
  <2> QED BY <1>1, <2>3, <2>5, <2>6
<1>13. CASE l = {} /\ readings = << >>
  <2>1. ended = << >>
    BY <1>5, <1>13 DEF Nothing
  <2>2. 0 \in Int /\ OffBy(s, L, 0, to, w) /\ OffSo(s, L, 0, to, w)
    BY <2>1 DEF OffBy, OffSo, ended
  <2> QED BY <1>1, <2>2
<1> QED BY <1>11, <1>12, <1>13

\* The account's balances at the end of a day, and the rows when none is lost.
LEMMA AtEndIs ==
    ASSUME HistoryOK, NEW d \in Int
    PROVE  CutAt(bank, d) \in 0 .. Len(bank) /\ AtEnd(d - 1) = Level(CutAt(bank, d))
<1>1. Timeline(Row, bank)
  BY RowFields DEF HistoryOK, RowsOK, Timeline
<1>2. PICK m, c : m \in Nat /\ m = Len(bank) /\ c = CutAt(bank, d)
  BY <1>1 DEF Timeline
<1>3. c \in 0 .. m /\ \A n \in 1 .. m : bank[n].day < d <=> n <= c
  BY <1>1, <1>2, CutAtIs
<1> DEFINE S == {0} \cup {i \in DOMAIN bank : bank[i].day <= d - 1}
<1>4. DOMAIN bank = 1 .. m /\ \A n \in 1 .. m : bank[n].day \in Int
  BY <1>1, <1>2 DEF Timeline
<1>5. \A n \in 1 .. m : bank[n].day <= d - 1 <=> n <= c
  BY <1>3, <1>4
<1>6. S \in SUBSET Int /\ c \in S /\ \A y \in S : c >= y
  <2>1. S \in SUBSET Int
    BY <1>4
  <2>2. c \in S
    BY <1>3, <1>4, <1>5
  <2>3. \A y \in S : c >= y
    BY <1>3, <1>4, <1>5
  <2> QED BY <2>1, <2>2, <2>3
<1>7. Most(S) = c
  <2> HIDE DEF S
  <2> QED BY <1>6, MostIs
<1> QED BY <1>2, <1>3, <1>7 DEF AtEnd

LEMMA CompleteRows ==
    ASSUME HistoryOK, Complete
    PROVE  /\ Rows = bank /\ Timeline(Row, bank)
           /\ Levels(bank, [n \in 0 .. Len(bank) |-> Level(n)])
<1>1. RowsOK /\ bank \in Seq(Row) /\ Timeline(Row, bank)
  BY RowFields DEF HistoryOK, RowsOK, Timeline
<1>2. Rows = bank
  <2>1. \A n \in 1 .. Len(bank) : bank[n] \in {r \in Row : ~r.lost}
    BY <1>1 DEF Complete
  <2>2. Keep(bank, {r \in Row : ~r.lost}) = bank
    BY <1>1, <2>1, KeepAll
  <2> QED BY <1>1, <2>2, RowsIs
<1>3. Chain(bank, [n \in 0 .. Len(bank) |-> Level(n)])
  BY <1>1, LevelsChain
<1>4. \A n \in 1 .. Len(bank) : bank[n].level = [k \in 0 .. Len(bank) |-> Level(k)][n]
  BY <1>1 DEF Level
<1> QED BY <1>1, <1>2, <1>3, <1>4 DEF Levels

\* With every row there, what the series says is what the account had.
LEMMA ExactOfHistory == ASSUME HistoryOK PROVE LedgerIsExact
<1> SUFFICES ASSUME NEW from \in Ends, NEW to \in Ends, NEW w \in Widths, Complete,
                    ~BankedBy(to, w) => AnchorCloses(w),
                    NEW b \in DOMAIN LedgerSeries(from, to, w).points
             PROVE  LedgerSeries(from, to, w).points[b].close = AtEnd(b + w - 1)
  BY DEF LedgerIsExact
<1>0. w \in Nat \ {0} /\ from \in Int \cup {Null} /\ to \in Int \cup {Null}
  BY SeriesAssumption DEF Ends, Days
<1> DEFINE ended == LedgerSeries(Null, to, w).points
           L == [n \in 0 .. Len(bank) |-> Level(n)]
<1>1. Rows = bank /\ Timeline(Row, bank) /\ Levels(bank, L)
  BY CompleteRows
<1>2. b \in DOMAIN ended /\ LedgerSeries(from, to, w).points[b] = ended[b]
  <2>1. CASE from = Null
    BY <2>1
  <2>2. CASE from # Null
    <3>1. PICK window : window = LedgerSeries(from, to, w).points
      OBVIOUS
    <3>2. PICK all : all = ended
      OBVIOUS
    <3>3. from \in Int
      BY <1>0, <2>2
    <3>4. IsPart(window, all, {c \in DOMAIN all : c >= Start(from, w)})
      BY <1>0, <3>1, <3>2, <3>3, BeginsAlike
    <3>5. b \in DOMAIN all /\ window[b] = all[b]
      BY <3>1, <3>4 DEF IsPart
    <3> QED BY <3>1, <3>2, <3>5
  <2> QED BY <2>1, <2>2
<1>3. bank # << >>
  <2> SUFFICES ASSUME bank = << >> PROVE FALSE
    OBVIOUS
  <2>1. LedgerSeries(Null, to, w) = NoPoints
    BY <1>1, LedgerSeriesIs
  <2> QED BY <1>2, <2>1 DEF NoPoints
<1> HIDE DEF ended, L
<1>4. PICK off \in Int : OffBy(bank, L, off, to, w) /\ OffSo(bank, L, off, to, w)
  BY <1>0, <1>1, <1>3, LevelsOfSeries
<1>5. Multiple(b, w) /\ ended[b].close = off + L[CutAt(bank, b + w)] /\ L[CutAt(bank, b + w)] \in Int
  BY <1>2, <1>4 DEF OffBy, ended
<1>6. PICK d \in Int : d = b + w
  BY <1>0, <1>5 DEF Multiple
<1>7. CutAt(bank, b + w) \in 0 .. Len(bank) /\ AtEnd(b + w - 1) = Level(CutAt(bank, b + w))
  <2>1. CutAt(bank, d) \in 0 .. Len(bank) /\ AtEnd(d - 1) = Level(CutAt(bank, d))
    BY AtEndIs
  <2>2. b \in Int /\ w \in Int
    BY <1>0, <1>5 DEF Multiple
  <2> QED BY <1>6, <2>1, <2>2
<1>8. L[CutAt(bank, b + w)] = AtEnd(b + w - 1)
  BY <1>7 DEF L
<1>9. ASSUME readings # << >>, off = OffAt(bank, L, w), AnchorCloses(w) PROVE off = 0
  <2>1. PICK x \in Reading : x = Last(readings) /\ ReadingAgrees(x)
    <3>1. readings \in Seq(Reading) /\ Len(readings) \in 1 .. Len(readings)
      BY <1>9 DEF HistoryOK, ReadingsOK
    <3>2. Last(readings) = readings[Len(readings)] /\ readings[Len(readings)] \in Reading
      BY <3>1 DEF Last
    <3> QED BY <3>1, <3>2 DEF HistoryOK, ReadingsOK
  <2>2. PICK m \in Nat, e \in Int : m = Len(bank) /\ e = AnchorOf(w) + w /\ Multiple(AnchorOf(w), w)
    <3>1. Multiple(AnchorOf(w), w)
      BY <1>0, <1>9, AnchorIs DEF AnchorReady, HistoryOK
    <3> QED BY <1>0, <1>1, <3>1 DEF Timeline, Multiple
  <2>3. x.seen \in 0 .. m /\ x.day \in Int /\ x.balance = Level(x.seen) /\ \A n \in 1 .. m : n <= x.seen => bank[n].day <= x.day
    BY <2>1, <2>2, ReadingFields DEF ReadingAgrees
  <2>4. AnchorOf(w) = Start(x.day, w) /\ x.day < e /\ AnchorOf(w) \in Int
    <3>1. Start(x.day, w) \in Int /\ x.day < Start(x.day, w) + w
      BY <1>0, <2>3, StartIs DEF Multiple
    <3> QED BY <2>1, <2>2, <3>1 DEF AnchorOf
  <2>5. ASSUME NEW n \in 1 .. m PROVE bank[n].day < e <=> n <= x.seen
    <3>1. bank[n].day \in Int
      BY <1>1, <2>2 DEF Timeline
    <3>2. CASE n <= x.seen
      BY <2>3, <2>4, <3>1, <3>2
    <3>3. CASE ~(n <= x.seen)
      <4>1. n > x.seen /\ n \in DOMAIN bank
        BY <1>1, <2>2, <2>3, <3>3 DEF Timeline
      <4>3. Start(bank[n].day, w) > AnchorOf(w)
        BY <1>9, <2>1, <4>1 DEF AnchorCloses, AnchorOf
      <4>4. Multiple(Start(bank[n].day, w), w) /\ Start(bank[n].day, w) <= bank[n].day
        BY <1>0, <3>1, StartIs
      <4>5. AnchorOf(w) + w <= Start(bank[n].day, w)
        BY <1>0, <2>2, <4>3, <4>4, Apart DEF Multiple
      <4>6. e <= bank[n].day
        BY <1>0, <2>2, <2>4, <3>1, <4>4, <4>5 DEF Multiple
      <4> QED BY <2>2, <3>1, <3>3, <4>6
    <3> QED BY <3>2, <3>3
  <2>6. CutAt(bank, e) = x.seen
    <3>1. CutAt(bank, e) \in 0 .. m /\ \A n \in 1 .. m : bank[n].day < e <=> n <= CutAt(bank, e)
      BY <1>1, <2>2, CutAtIs
    <3>2. Cut(bank, e, CutAt(bank, e)) /\ Cut(bank, e, x.seen)
      BY <2>2, <2>3, <2>5, <3>1 DEF Cut
    <3> QED BY <2>2, <3>2, CutUnique
  <2>7. L[x.seen] = Level(x.seen) /\ Level(x.seen) \in Int
    BY <2>2, <2>3, LevelsChain DEF L, HistoryOK
  <2> QED BY <1>9, <2>1, <2>2, <2>3, <2>6, <2>7 DEF OffAt
<1>10. off = 0
  <2>1. ended # << >>
    BY <1>2
  <2>2. CASE BankedBy(to, w)
    BY <1>4, <2>2 DEF OffSo
  <2>3. CASE ~BankedBy(to, w)
    <3>1. readings # << >> /\ off = OffAt(bank, L, w)
      BY <1>4, <2>1, <2>3 DEF OffSo, ended
    <3> QED BY <1>9, <2>3, <3>1
  <2> QED BY <2>2, <2>3
<1> QED BY <1>2, <1>5, <1>8, <1>10

\* A flag is a row that is not there, and a row that is not there is flagged.
LEMMA MismatchOfHistory == ASSUME HistoryOK PROVE MismatchIsALostRow
<1> SUFFICES ASSUME NEW w \in Widths
             PROVE  LET series == LedgerSeries(Null, Null, w).points IN
                    /\ Complete => \A b \in DOMAIN series : ~series[b].mismatch
                    /\ Covered(Rows) = Rows =>
                          \A i \in 1 .. Len(Rows) - 1 :
                              Rows[i + 1].level - Rows[i].level # Rows[i + 1].amt =>
                                  series[Start(Rows[i + 1].day, w)].mismatch
  BY DEF MismatchIsALostRow
<1> DEFINE whole == LedgerSeries(Null, Null, w).points
<1>0. w \in Nat \ {0} /\ 0 < w /\ w \in Int
  BY SeriesAssumption
<1>1. ASSUME Complete, NEW b \in DOMAIN whole PROVE ~whole[b].mismatch
  <2>1. PICK L : Rows = bank /\ Levels(bank, L)
    BY <1>1, CompleteRows
  <2>2. CASE bank = << >>
    <3>1. LedgerSeries(Null, Null, w) = NoPoints
      BY <2>1, <2>2, LedgerSeriesIs
    <3> QED BY <1>1, <3>1 DEF NoPoints
  <2>3. CASE bank # << >>
    <3>1. \E off \in Int : OffBy(bank, L, off, Null, w)
      <4>1. Null \in Int \cup {Null} /\ Levels(Rows, L) /\ Rows # << >>
        BY <2>1, <2>3
      <4>2. \E off \in Int : OffBy(Rows, L, off, Null, w)
        BY <1>0, <4>1, LevelsOfSeries
      <4> QED BY <2>1, <4>2
    <3> QED BY <1>1, <3>1 DEF OffBy
  <2> QED BY <2>2, <2>3
<1>2. ASSUME Covered(Rows) = Rows, NEW i \in 1 .. Len(Rows) - 1,
             Rows[i + 1].level - Rows[i].level # Rows[i + 1].amt
      PROVE  whole[Start(Rows[i + 1].day, w)].mismatch
  <2>1. Rows \in Seq(Row)
    BY RowsIs DEF HistoryOK
  <2>2. Rows # << >>
    BY <1>2, <2>1
  <2>3. PICK s, f, hi : s = Rows /\ f = FirstOf(Rows, w) /\ hi = LedgerHi(Rows, Null, w) /\ WholeIs(s, f, hi, w)
    BY <1>0, <2>2, WholeSeriesIs
  <2>4. /\ Timeline(Row, s) /\ Multiple(f, w) /\ Multiple(hi, w) /\ f <= hi
        /\ \A n \in 1 .. Len(s) : s[n].day \in Int /\ f <= Start(s[n].day, w) /\ Start(s[n].day, w) <= hi
        /\ whole = LedgerPoints(Within(s, f, hi + w), Buckets(f, hi, w), f, hi, w).points
        /\ PointsSo(s, Within(s, f, hi + w), Buckets(f, hi, w), f, hi, w)
    BY <2>3 DEF WholeIs
  <2>5. PICK m \in Nat, n \in Int : m = Len(s) /\ n = i + 1 /\ n \in 2 .. m /\ i = n - 1 /\ i \in 1 .. m
    BY <1>2, <2>1, <2>3
  <2>6. \A k \in 1 .. m : s[k].covered
    <3>1. Covered(s) = Keep(s, {r \in Row : r.covered})
      BY <2>1, <2>3, CoveredIs
    <3>2. PICK T : T = {r \in Row : r.covered}
      OBVIOUS
    <3>3. \A j \in 1 .. Len(Keep(s, T)) : Keep(s, T)[j] \in T
      BY <2>1, <2>3, KeepElements
    <3>4. Keep(s, T) = s
      BY <1>2, <2>3, <3>1, <3>2
    <3> QED BY <2>5, <3>2, <3>3, <3>4
  <2>7. PICK b \in Int : b = Start(s[n].day, w) /\ Multiple(b, w) /\ f <= b /\ b <= hi
    <3>1. n \in 1 .. m
      BY <2>5
    <3> QED BY <1>0, <2>4, <2>5, <3>1, StartIs DEF Multiple
  <2> DEFINE O == Buckets(f, hi, w)
             l == LeveledIn(s, O, w)
             v == LevelOf(s, O, w)
             t == Within(s, f, hi + w)
  <2>8. b \in l
    <3>1. \A c : c \in l <=> /\ Multiple(c, w) /\ f <= c /\ c <= hi
                             /\ \E k \in 1 .. Len(s) : s[k].covered /\ Start(s[k].day, w) = c
      BY <1>0, <2>4, LeveledAny
    <3>2. n \in 1 .. m
      BY <2>5
    <3> HIDE DEF l
    <3> QED BY <2>5, <2>6, <2>7, <3>1, <3>2
  <2>9. \A x \in l : v <= x
    BY <1>0, <2>4, <2>8, LevelIs
  <2>10. b \in Emitted(O, f, hi, v)
    <3>1. b \in O /\ v <= b
      BY <2>8, <2>9 DEF LeveledIn
    <3>2. v \in Int
      BY <1>0, <2>4, LevelIs DEF Multiple
    <3> QED BY <2>7, <3>1, <3>2 DEF Emitted
  <2>11. ~Nothing(l, O, w)
    BY <2>8 DEF Nothing
  <2>12. whole[b].mismatch <=> \/ CloseAt(s, l, b, w) - OpenAt(s, l, v, b, w) # Sum(In(s, b, w))
                               \/ l # {} /\ RowMismatch(t, b, w)
    <3>1. whole = [c \in Emitted(O, f, hi, v) |->
                      PointOf(s, l # {}, OpenAt(s, l, v, c, w), CloseAt(s, l, c, w), l # {} /\ RowMismatch(t, c, w), c, w)]
      BY <2>4, <2>11 DEF PointsSo
    <3>2. whole[b] = PointOf(s, l # {}, OpenAt(s, l, v, b, w), CloseAt(s, l, b, w), l # {} /\ RowMismatch(t, b, w), b, w)
      BY <2>10, <3>1
    <3>3. PICK x : x = whole[b]
      OBVIOUS
    <3>4. PICK y, z, u : y = OpenAt(s, l, v, b, w) /\ z = CloseAt(s, l, b, w) /\ u = (l # {} /\ RowMismatch(t, b, w))
      OBVIOUS
    <3>5. x = PointOf(s, l # {}, y, z, u, b, w)
      BY <3>2, <3>3, <3>4
    <3>6. x.mismatch = (z - y # Sum(In(s, b, w)) \/ u)
      BY <3>5 DEF PointOf
    <3> QED BY <3>3, <3>4, <3>6
  <2>13. RowMismatch(Within(s, f, hi + w), b, w)
    <3>0. f \in Int /\ hi \in Int /\ f <= hi + w /\ hi + w \in Int
      BY <1>0, <2>4 DEF Multiple
    <3>e. PICK e \in Int : e = hi + w /\ f <= e
      BY <3>0
    <3>t. /\ CutAt(s, f) \in 0 .. Len(s) /\ CutAt(s, e) \in 0 .. Len(s)
          /\ RowMismatch(Within(s, f, e), b, w) <=>
                \E k \in CutAt(s, f) + 2 .. CutAt(s, e) : Start(s[k].day, w) = b /\ Torn(s, k)
      <4>1. Timeline(Row, s) /\ f \in Int /\ e \in Int /\ f <= e
        BY <2>4, <3>0, <3>e
      <4>2. TornRows(s, f, e, b, w)
        BY <4>1, TornIs
      <4> QED BY <4>2 DEF TornRows
    <3>1. /\ CutAt(s, f) \in 0 .. Len(s) /\ CutAt(s, hi + w) \in 0 .. Len(s)
          /\ RowMismatch(Within(s, f, hi + w), b, w) <=>
                \E k \in CutAt(s, f) + 2 .. CutAt(s, hi + w) : Start(s[k].day, w) = b /\ Torn(s, k)
      BY <3>e, <3>t
    <3>2. \A k \in 1 .. m : f <= s[k].day /\ s[k].day < hi + w /\ s[k].day \in Int
      <4> SUFFICES ASSUME NEW k \in 1 .. m PROVE f <= s[k].day /\ s[k].day < hi + w /\ s[k].day \in Int
        OBVIOUS
      <4>1. s[k].day \in Int /\ f <= Start(s[k].day, w) /\ Start(s[k].day, w) <= hi
        BY <2>4, <2>5
      <4>2. Start(s[k].day, w) \in Int /\ Start(s[k].day, w) <= s[k].day /\ s[k].day < Start(s[k].day, w) + w
        BY <1>0, <4>1, StartIs DEF Multiple
      <4> QED BY <1>0, <3>0, <4>1, <4>2
    <3>3. CutAt(s, f) = 0
      <4>1. \A k \in 1 .. Len(s) : s[k].day < f <=> k <= CutAt(s, f)
        BY <2>4, <3>0, CutAtIs
      <4>2. ASSUME CutAt(s, f) # 0 PROVE FALSE
        <5>1. 1 \in 1 .. m /\ 1 <= CutAt(s, f)
          BY <2>5, <3>1, <4>2
        <5>2. s[1].day < f /\ ~(s[1].day < f)
          BY <2>5, <3>0, <3>2, <4>1, <5>1
        <5> QED BY <5>2
      <4> QED BY <4>2
    <3>4. n <= CutAt(s, hi + w)
      <4>1. \A k \in 1 .. Len(s) : s[k].day < hi + w <=> k <= CutAt(s, hi + w)
        BY <2>4, <3>0, CutAtIs
      <4>2. n \in 1 .. m
        BY <2>5
      <4> QED BY <2>5, <3>2, <4>1, <4>2
    <3>5. n \in CutAt(s, f) + 2 .. CutAt(s, hi + w)
      BY <2>5, <3>1, <3>3, <3>4
    <3>6. Torn(s, n)
      <4>1. n \in 1 .. m /\ n - 1 \in 1 .. m
        BY <2>5
      <4> QED BY <1>2, <2>3, <2>5, <2>6, <4>1 DEF Torn
    <3> QED BY <2>7, <3>1, <3>5, <3>6
  <2> QED BY <2>3, <2>5, <2>7, <2>8, <2>12, <2>13
<1> QED BY <1>1, <1>2

-----------------------------------------------------------------------------
(* Flows *)

\* What a level rises by, bucket by bucket, it rises by from end to end.
DaySum(f) == Sum([n \in 1 .. Horizon + 1 |-> [amt |-> IF n - 1 \in DOMAIN f THEN f[n - 1] ELSE 0]])

LEMMA DaysAdd ==
    ASSUME NEW w \in Nat \ {0}, NEW from \in Days, NEW to \in Days, from <= to,
           Multiple(from, w), Multiple(to + 1, w),
           NEW P \in [Int -> Int], NEW f,
           \A b \in DOMAIN f : Multiple(b, w) /\ from <= b /\ b <= to /\ f[b] = P[b + w] - P[b],
           \A b : Multiple(b, w) /\ from <= b /\ b <= to /\ b \notin DOMAIN f => P[b + w] = P[b]
    PROVE  DaySum(f) = P[to + 1] - P[from]
<1>1. PICK H \in Nat, m \in Nat : H = Horizon /\ m = H + 1
  BY SeriesAssumption
<1>2. from \in 0 .. H /\ to \in 0 .. H /\ w \in Int /\ 0 < w
  BY <1>1 DEF Days
<1> DEFINE z == [n \in 1 .. m |-> [amt |-> IF n - 1 \in DOMAIN f THEN f[n - 1] ELSE 0]]
           C(d) == IF d <= from THEN from ELSE IF d > to THEN to + 1 ELSE Start(d - 1, w) + w
           M == [d \in 0 .. m |-> P[C(d)]]
<1>3. \A d \in 0 .. m : C(d) \in Int
  <2> SUFFICES ASSUME NEW d \in 0 .. m PROVE C(d) \in Int
    OBVIOUS
  <2>1. Start(d - 1, w) \in Int
    BY StartIs DEF Multiple
  <2> QED BY <1>2, <2>1
<1>4. \A b \in Int : P[b] \in Int
  OBVIOUS
<1>5. \A b \in DOMAIN f : f[b] \in Int
  <2> SUFFICES ASSUME NEW b \in DOMAIN f PROVE f[b] \in Int
    OBVIOUS
  <2>1. b \in Int /\ b + w \in Int /\ f[b] = P[b + w] - P[b]
    BY <1>2 DEF Multiple
  <2> QED BY <1>4, <2>1
<1>6. z \in Seq([amt : Int]) /\ Len(z) = m
  <2>1. \A n \in 1 .. m : [amt |-> IF n - 1 \in DOMAIN f THEN f[n - 1] ELSE 0] \in [amt : Int]
    BY <1>5
  <2> QED BY <1>1, <2>1
<1>7. \A n \in 1 .. m : z[n].amt = IF n - 1 \in DOMAIN f THEN f[n - 1] ELSE 0
  OBVIOUS
<1>8. /\ \A d \in 0 .. m : M[d] = P[C(d)] /\ M[d] \in Int
      /\ M = [d \in 0 .. m |-> M[d]]
  BY <1>3, <1>4
\* Day d = n - 1 adds what its bucket adds, if it starts one.
<1>9. ASSUME NEW n \in 1 .. m PROVE P[C(n)] = P[C(n - 1)] + z[n].amt
  <2> DEFINE d == n - 1
  <2>0. d \in Int /\ d + 1 = n /\ 0 <= d /\ d <= H /\ n <= d + 1
    BY <1>1
  <2> HIDE DEF d
  <2>1. CASE d < from \/ to < d
    <3>1. d \notin DOMAIN f
      BY <1>2, <2>0, <2>1 DEF Multiple
    <3>2. C(n) = C(d)
      BY <1>2, <2>0, <2>1
    <3>3. z[n].amt = 0 /\ C(d) = C(n - 1) /\ P[C(d)] \in Int
      BY <1>3, <1>4, <1>7, <2>0, <3>1 DEF d
    <3> QED BY <3>2, <3>3
  <2>2. CASE from <= d /\ d <= to
    <3>1. PICK b \in Int : b = Start(d, w) /\ Multiple(b, w) /\ b <= d /\ d < b + w
      BY <2>0, StartIs DEF Multiple
    <3>2. from <= b
      BY <2>0, <2>2, <3>1, BucketOf
    <3>3. C(n) = b + w
      <4>1. C(n) = IF n > to THEN to + 1 ELSE Start(n - 1, w) + w
        BY <1>2, <2>0, <2>2
      <4>2. CASE n > to
        <5>1. d = to
          BY <1>2, <2>0, <2>2, <4>2
        <5>2. b + w <= to + 1
          <6>1. b < to + 1
            BY <1>2, <3>1, <5>1
          <6> QED BY <3>1, <6>1, Apart
        <5> QED BY <1>2, <3>1, <4>1, <4>2, <5>1, <5>2
      <4>3. CASE ~(n > to)
        BY <3>1, <4>1, <4>3 DEF d
      <4> QED BY <4>2, <4>3
    <3>4. CASE b = d
      <4>1. C(d) = b
        <5>1. CASE d = from
          BY <2>2, <3>4, <5>1
        <5>2. CASE d # from
          <6>1. C(d) = Start(d - 1, w) + w
            BY <1>2, <2>0, <2>2, <5>2
          <6>2. Start(d - 1, w) = b - w
            <7>1. Multiple(b - w, w)
              BY <3>1, Apart
            <7>2. b - w <= d - 1 /\ d - 1 < (b - w) + w /\ d - 1 \in Int
              BY <1>2, <2>0, <3>1, <3>4
            <7> QED BY <7>1, <7>2, BucketOf
          <6> QED BY <1>2, <3>1, <6>1, <6>2
        <5> QED BY <5>1, <5>2
      <4>2. z[n].amt = IF b \in DOMAIN f THEN f[b] ELSE 0
        BY <1>7, <3>4 DEF d
      <4>3. b <= to /\ P[b] \in Int /\ P[b + w] \in Int
        BY <1>2, <1>4, <2>2, <3>1, <3>4
      <4>4. P[b + w] = P[b] + z[n].amt
        <5>1. CASE b \in DOMAIN f
          BY <4>2, <4>3, <5>1
        <5>2. CASE b \notin DOMAIN f
          BY <3>1, <3>2, <4>2, <4>3, <5>2
        <5> QED BY <5>1, <5>2
      <4> QED BY <3>3, <4>1, <4>4 DEF d
    <3>5. CASE b # d
      <4>1. d # from /\ d \notin DOMAIN f
        <5> SUFFICES ASSUME Multiple(d, w) PROVE FALSE
          OBVIOUS
        <5>1. b < d
          BY <2>0, <3>1, <3>5
        <5>2. b + w <= d
          BY <3>1, <5>1, Apart
        <5> QED BY <1>2, <2>0, <3>1, <5>2
      <4>2. C(d) = Start(d - 1, w) + w
        BY <1>2, <2>0, <2>2, <4>1
      <4>3. Start(d - 1, w) = b
        <5>1. b <= d - 1 /\ d - 1 < b + w /\ d - 1 \in Int
          BY <1>2, <2>0, <3>1, <3>5
        <5> QED BY <3>1, <5>1, BucketOf
      <4>4. z[n].amt = 0 /\ P[b + w] \in Int
        BY <1>2, <1>4, <1>7, <3>1, <4>1 DEF d
      <4> QED BY <3>3, <4>2, <4>3, <4>4 DEF d
    <3> QED BY <3>4, <3>5
  <2> QED BY <1>2, <2>0, <2>1, <2>2
<1>10. M[m] = P[to + 1] /\ M[0] = P[from]
  <2>1. m \in 0 .. m /\ 0 \in 0 .. m /\ m > to /\ ~(m <= from) /\ 0 <= from
    BY <1>1, <1>2
  <2>2. C(m) = to + 1 /\ C(0) = from
    BY <2>1
  <2> HIDE DEF C, M
  <2> QED BY <1>8, <2>1, <2>2
<1> HIDE DEF z, C, M
<1>11. Chain(z, M)
  <2>1. ASSUME NEW n \in 1 .. m PROVE M[n] = M[n - 1] + z[n].amt
    <3>1. n \in 0 .. m /\ n - 1 \in 0 .. m
      OBVIOUS
    <3> QED BY <1>8, <1>9, <3>1
  <2>2. M \in [0 .. m -> Int]
    BY <1>8
  <2> QED BY <1>6, <2>1, <2>2 DEF Chain
<1>12. Sum(z) = M[Len(z)] - M[0]
  <2>1. \A r \in [amt : Int] : r.amt \in Int
    OBVIOUS
  <2> QED BY <1>6, <1>11, <2>1, SumIs
<1>13. DaySum(f) = Sum(z)
  BY <1>1 DEF DaySum, z
<1> QED BY <1>6, <1>10, <1>12, <1>13

\* The rows of one kind in a span are the span of the rows of that kind.
LEMMA SpanOfKind ==
    ASSUME NEW s, Timeline(Row, s), NEW T, NEW a \in Int, NEW b \in Int
    PROVE  /\ Keep(Within(s, a, b), T) = Within(Keep(s, T), a, b) /\ Within(s, a, b) \in Seq(Row)
           /\ Timeline(Row, Keep(s, T))
<1>1. s \in Seq(Row) /\ Sorted(s) /\ \A r \in Row : r.day \in Int
  BY DEF Timeline
<1>2. PICK A, k, u : A = Dated(Row, a, b) /\ k = Keep(s, A) /\ u = Keep(s, T) /\ k \in Seq(Row) /\ u \in Seq(Row)
  BY <1>1, KeepPicks
<1>3. k = Within(s, a, b) /\ Within(u, a, b) = Keep(u, A)
  BY <1>1, <1>2, WithinIs
<1>4. Keep(k, T) = Keep(s, A \cap T) /\ Keep(u, A) = Keep(s, T \cap A)
  BY <1>1, <1>2, KeepKeep
<1>5. A \cap T = T \cap A
  OBVIOUS
<1>6. Sorted(u)
  BY <1>1, <1>2, KeepSorted
<1>7. Timeline(Row, u)
  BY <1>1, <1>2, <1>6 DEF Timeline
<1> QED BY <1>2, <1>3, <1>4, <1>5, <1>7

Incoming == {r \in Row : ~r.internal /\ r.amt >= 0}
Outgoing == {r \in Row : ~r.internal /\ r.amt < 0}

LEMMA FlowsAre ==
    ASSUME NEW x \in Seq(Row)
    PROVE  Income(x) = Sum(Keep(x, Incoming)) /\ Spend(x) = -Sum(Keep(x, Outgoing))
<1>1. \A n \in 1 .. Len(x) : x[n] \in Range(x) /\ x[n] \in Row
  BY DEF Range
<1>2. Keep(x, {r \in Range(x) : ~r.internal /\ r.amt >= 0}) = Keep(x, Incoming)
  BY <1>1, KeepSame DEF Incoming
<1>3. Keep(x, {r \in Range(x) : ~r.internal /\ r.amt < 0}) = Keep(x, Outgoing)
  BY <1>1, KeepSame DEF Outgoing
<1> QED BY <1>2, <1>3 DEF Income, Spend

\* Any flow as the rise of a running total between two days.
Flows(s, T, P) ==
    /\ P \in [Int -> Int]
    /\ \A a, b \in Int : a <= b => Sum(Keep(Within(s, a, b), T)) = P[b] - P[a]
    /\ \A a, b \in Int : a <= b /\ Within(s, a, b) = << >> => P[b] = P[a]

LEMMA FlowExists ==
    ASSUME NEW s, Timeline(Row, s), NEW T PROVE \E P : Flows(s, T, P)
<1>1. PICK u : u = Keep(s, T) /\ Timeline(Row, u)
  <2>1. Timeline(Row, Keep(s, T))
    <3>1. 0 \in Int
      OBVIOUS
    <3> QED BY <3>1, SpanOfKind
  <2> QED BY <2>1
<1>2. u \in Seq(Row) /\ \A r \in Row : r.amt \in Int
  BY <1>1, RowFields DEF Timeline
<1>3. PICK L : Chain(u, L)
  BY <1>2, ChainExists
<1> DEFINE P == [d \in Int |-> L[CutAt(u, d)]]
<1>4. \A d \in Int : P[d] = L[CutAt(u, d)] /\ L[CutAt(u, d)] \in Int
  <2> SUFFICES ASSUME NEW d \in Int PROVE L[CutAt(u, d)] \in Int
    OBVIOUS
  <2>1. d <= d
    OBVIOUS
  <2> QED BY <1>1, <1>3, <2>1, SpanSum
<1>5. P \in [Int -> Int]
  BY <1>4
<1> HIDE DEF P
<1>6. ASSUME NEW a \in Int, NEW b \in Int, a <= b
      PROVE  Sum(Keep(Within(s, a, b), T)) = P[b] - P[a]
  <2>1. Keep(Within(s, a, b), T) = Within(u, a, b)
    BY <1>1, SpanOfKind
  <2>2. Sum(Within(u, a, b)) = L[CutAt(u, b)] - L[CutAt(u, a)]
    BY <1>1, <1>3, <1>6, SpanSum
  <2> QED BY <1>4, <2>1, <2>2
<1>7. ASSUME NEW a \in Int, NEW b \in Int, a <= b, Within(s, a, b) = << >>
      PROVE  P[b] = P[a]
  <2>1. << >> \in Seq(Row) /\ Len(<< >>) = 0
    OBVIOUS
  <2>2. Keep(<< >>, T) = << >>
    <3>1. \A n \in 1 .. Len(<< >>) : << >>[n] \in T
      BY <2>1
    <3> QED BY <2>1, <3>1, KeepAll
  <2>3. Within(u, a, b) = << >>
    <3>1. Keep(Within(s, a, b), T) = Within(u, a, b)
      BY <1>1, SpanOfKind
    <3> QED BY <1>7, <2>2, <3>1
  <2>4. Spans(u, a, b)
    BY <1>1, <1>7, SpanIs
  <2>5. PICK p \in Int, q \in Int : p = CutAt(u, a) /\ q = CutAt(u, b) /\ p <= q /\ ~(p < q)
    <3>1. After(u, a) = CutAt(u, a) /\ Before(u, b) = CutAt(u, b)
      BY SeriesAssumption DEF After, Before
    <3>2. /\ After(u, a) \in 0 .. Len(u) /\ Before(u, b) \in 0 .. Len(u) /\ After(u, a) <= Before(u, b)
          /\ Within(u, a, b) # << >> <=> After(u, a) < Before(u, b)
      BY <2>4 DEF Spans
    <3> QED BY <2>3, <3>1, <3>2
  <2>6. p = q
    BY <2>5
  <2> QED BY <1>4, <2>5, <2>6
<1>8. Flows(s, T, P)
  BY <1>5, <1>6, <1>7 DEF Flows
<1> QED BY <1>8

\* The series of a window with both ends at bucket boundaries: its figures, and the rows
\* its buckets take in.
BoundedSo(s, from, to, w) ==
    LET series == LedgerSeries(from, to, w).points IN
    /\ from <= to
    /\ \A b \in DOMAIN series : /\ Multiple(b, w) /\ from <= b /\ b <= to
                                /\ series[b].in = Income(In(s, b, w)) /\ series[b].out = Spend(In(s, b, w))
    /\ \A n \in 1 .. Len(s) : from <= s[n].day /\ s[n].day <= to => Start(s[n].day, w) \in DOMAIN series

LEMMA AllCovered ==
    ASSUME NEW s \in Seq(Row), Covered(s) = s PROVE \A n \in 1 .. Len(s) : s[n].covered
<1>1. PICK T : T = {r \in Row : r.covered}
  OBVIOUS
<1>2. Keep(s, T) = s
  BY <1>1, CoveredIs
<1>3. \A j \in 1 .. Len(Keep(s, T)) : Keep(s, T)[j] \in T
  BY KeepElements
<1> QED BY <1>1, <1>2, <1>3

LEMMA BoundedSeries ==
    ASSUME HistoryOK, NEW w \in Nat \ {0}, NEW from \in Int, NEW to \in Int,
           Multiple(from, w), Multiple(to + 1, w),
           Covered(Rows) \in {Rows, << >>}, DOMAIN LedgerSeries(from, to, w).points # {}
    PROVE  BoundedSo(Rows, from, to, w)
<1> DEFINE series == LedgerSeries(from, to, w).points
<1>1. PICK s : s = Rows
  OBVIOUS
<1>2. Timeline(Row, s) /\ ReadingsOK /\ s \in Seq(Row) /\ w \in Int /\ 0 < w
  BY <1>1, RowsIs, RowFields DEF HistoryOK, Timeline
<1>3. PICK lo, hi, D, E : /\ lo = LoOf(s, from, w) /\ hi = LedgerHi(s, to, w)
                          /\ D = DerivLo(s, lo, w) /\ E = DerivHi(hi, w)
  OBVIOUS
<1>4. from # Null /\ to # Null /\ DOMAIN NoPoints.points = {}
  BY SeriesAssumption DEF NoPoints
<1>5. LedgerSeries(from, to, w) =
          IF s = << >> THEN NoPoints ELSE IF hi < lo THEN NoPoints
          ELSE LedgerPoints(Within(s, D, E + w), Buckets(D, E, w), lo, hi, w)
  BY <1>1, <1>3, LedgerSeriesIs
<1>6. s # << >> /\ ~(hi < lo) /\ LedgerSeries(from, to, w) = LedgerPoints(Within(s, D, E + w), Buckets(D, E, w), lo, hi, w)
  BY <1>4, <1>5
<1>7. hi \in Int /\ Multiple(hi, w) /\ hi <= to /\ to < hi + w /\ hi = Start(to, w)
  <2>1. hi = Start(to, w)
    BY <1>3, <1>4 DEF LedgerHi
  <2> QED BY <2>1, StartIs DEF Multiple
<1>8. hi + w = to + 1
  <2>1. PICK e \in Int : e = to + 1 /\ Multiple(e, w)
    BY DEF Multiple
  <2>2. hi < e
    BY <1>7, <2>1
  <2>3. hi + w <= e
    BY <1>7, <2>1, <2>2, Apart
  <2> QED BY <1>2, <1>7, <2>1, <2>3
<1>9. PICK f \in Int : /\ f = FirstOf(s, w) /\ Multiple(f, w) /\ f <= lo /\ lo \in Int /\ Multiple(lo, w)
                       /\ from <= lo /\ (f < lo => lo = from)
                       /\ \A n \in 1 .. Len(s) : f <= Start(s[n].day, w) /\ s[n].day \in Int
  <2>1. /\ Multiple(FirstOf(s, w), w) /\ Multiple(LoOf(s, from, w), w)
        /\ LoOf(s, from, w) = IF FirstOf(s, w) >= Start(from, w) THEN FirstOf(s, w) ELSE Start(from, w)
        /\ \A n \in 1 .. Len(s) : FirstOf(s, w) <= Start(s[n].day, w) /\ s[n].day \in Int
    BY <1>2, <1>4, <1>6, LoIs
  <2>2. Start(from, w) = from
    <3>1. from <= from /\ from < from + w
      BY <1>2
    <3> QED BY <3>1, BucketOf
  <2>3. PICK f \in Int : f = FirstOf(s, w)
    BY <2>1 DEF Multiple
  <2>4. lo = IF f >= from THEN f ELSE from
    BY <1>3, <2>1, <2>2, <2>3
  <2> QED BY <1>3, <2>1, <2>3, <2>4
<1>10. D \in Int /\ Multiple(D, w) /\ D <= lo
  <2>1. DerivSo(s, lo, D, w)
    BY <1>2, <1>3, <1>6, <1>9, DerivIs
  <2> QED BY <2>1 DEF DerivSo, Multiple
<1>11. E \in Int /\ Multiple(E, w) /\ hi <= E /\ D <= E
  <2>1. Multiple(E, w) /\ hi <= E
    BY <1>2, <1>3, <1>7, EndIs
  <2> QED BY <1>6, <1>7, <1>9, <1>10, <2>1 DEF Multiple
<1> DEFINE O == Buckets(D, E, w)
           l == LeveledIn(s, O, w)
           v == LevelOf(s, O, w)
           t == Within(s, D, E + w)
<1>12. PointsSo(s, t, O, lo, hi, w)
  BY <1>2, <1>10, <1>11, LedgerPointsAre
<1>13. ~Nothing(l, O, w)
  <2>1. series = LedgerPoints(t, O, lo, hi, w).points /\ series # << >>
    BY <1>4, <1>6 DEF NoPoints
  <2> QED BY <1>12, <2>1 DEF PointsSo
<1>14. series = [b \in Emitted(O, lo, hi, v) |->
                    PointOf(s, l # {}, OpenAt(s, l, v, b, w), CloseAt(s, l, b, w), l # {} /\ RowMismatch(t, b, w), b, w)]
  BY <1>6, <1>12, <1>13 DEF PointsSo
<1>15. DOMAIN series = Emitted(O, lo, hi, v)
  BY <1>14
<1>16. \A b : b \in O <=> Multiple(b, w) /\ D <= b /\ b <= E
  BY <1>10, <1>11, BucketsIs
<1>17. ASSUME NEW b \in DOMAIN series
       PROVE  /\ Multiple(b, w) /\ from <= b /\ b <= to /\ b \in Int
              /\ series[b].in = Income(In(s, b, w)) /\ series[b].out = Spend(In(s, b, w))
  <2>1. b \in O /\ lo <= b /\ b <= hi
    BY <1>15, <1>17 DEF Emitted
  <2>2. Multiple(b, w) /\ b \in Int
    BY <1>16, <2>1 DEF Multiple
  <2>3. from <= b /\ b <= to
    BY <1>7, <1>9, <2>1, <2>2
  <2>4. PICK x, y, u, c : series[b] = PointOf(s, c, x, y, u, b, w)
    BY <1>14, <1>15, <1>17
  <2>5. series[b].in = Income(In(s, b, w)) /\ series[b].out = Spend(In(s, b, w))
    <3> HIDE DEF series
    <3> QED BY <2>4 DEF PointOf
  <2> QED BY <2>2, <2>3, <2>5
<1>18. from <= to
  <2>1. PICK b : b \in DOMAIN series
    OBVIOUS
  <2> QED BY <1>17, <2>1
<1>19. ASSUME NEW n \in 1 .. Len(s), from <= s[n].day, s[n].day <= to
       PROVE  Start(s[n].day, w) \in DOMAIN series
  <2>1. PICK d \in Int, b \in Int : d = s[n].day /\ b = Start(d, w) /\ Multiple(b, w) /\ b <= d /\ d < b + w
    <3>1. s[n].day \in Int
      BY <1>9, <1>19
    <3> QED BY <3>1, StartIs DEF Multiple
  <2>2. from <= b /\ f <= b
    <3>1. from <= b <=> from <= d
      BY <2>1, BucketOf
    <3> QED BY <1>9, <1>19, <2>1, <3>1
  <2>3. lo <= b
    BY <1>9, <2>2
  <2>4. b <= hi
    <3>1. d < hi + w
      BY <1>8, <1>19, <2>1
    <3>2. Start(d, w) <= hi <=> d < hi + w
      BY <1>7, <2>1, BucketOf
    <3> QED BY <2>1, <3>1, <3>2
  <2>5. b \in O
    <3>0. D \in Int /\ E \in Int /\ lo \in Int /\ hi \in Int /\ b \in Int /\ D <= lo /\ hi <= E
      BY <1>7, <1>9, <1>10, <1>11
    <3>1. D <= b /\ b <= E
      BY <2>3, <2>4, <3>0
    <3> QED BY <1>16, <2>1, <3>1
  <2>6. v <= b
    <3>1. /\ v \in Int /\ (l # {} => v \in l /\ \A x \in l : v <= x) /\ (l = {} => v = D)
      BY <1>2, <1>10, <1>11, LevelIs DEF Multiple
    <3>2. CASE l = {}
      BY <1>9, <1>10, <2>1, <2>3, <3>1, <3>2
    <3>3. CASE l # {}
      <4>1. \A c : c \in l <=> /\ Multiple(c, w) /\ D <= c /\ c <= E
                               /\ \E k \in 1 .. Len(s) : s[k].covered /\ Start(s[k].day, w) = c
        BY <1>2, <1>10, <1>11, LeveledAny
      <4> HIDE DEF l, v, O
      <4>2. Covered(s) # << >>
        <5>1. \E k \in 1 .. Len(s) : s[k].covered
          BY <3>3, <4>1
        <5> QED BY <1>2, <5>1, CoveredAny
      <4>3. s[n].covered
        BY <1>1, <1>2, <1>19, <4>2, AllCovered
      <4>4. D <= b /\ b <= E
        BY <1>16, <2>5
      <4>5. b \in l
        BY <1>19, <2>1, <4>1, <4>3, <4>4
      <4> QED BY <3>1, <3>3, <4>5
    <3> QED BY <3>2, <3>3
  <2>7. b \in Emitted(O, lo, hi, v)
    <3>1. v \in Int
      BY <1>2, <1>10, <1>11, LevelIs DEF Multiple
    <3> QED BY <2>1, <2>3, <2>4, <2>5, <2>6, <3>1 DEF Emitted
  <2> QED BY <1>15, <2>1, <2>7
<1> HIDE DEF series
<1>20. BoundedSo(s, from, to, w)
  BY <1>17, <1>18, <1>19 DEF BoundedSo, series
<1> QED BY <1>1, <1>20

\* The buckets outside the series have no row.
LEMMA OutsideIsEmpty ==
    ASSUME NEW w \in Nat \ {0}, NEW s, Timeline(Row, s), NEW from \in Int, NEW to \in Int,
           Multiple(to + 1, w), BoundedSo(s, from, to, w),
           NEW b, Multiple(b, w), from <= b, b <= to, b \notin DOMAIN LedgerSeries(from, to, w).points
    PROVE  Within(s, b, b + w) = << >>
<1>1. b \in Int /\ w \in Int /\ 0 < w /\ s \in Seq(Row)
  BY DEF Multiple, Timeline
<1>2. PICK e \in Int, g \in Int : e = b + w /\ g = to + 1
  BY <1>1
<1>3. e <= g
  <2>1. b < g
    BY <1>1, <1>2
  <2> QED BY <1>2, <2>1, Apart
<1> SUFFICES ASSUME Within(s, b, e) # << >> PROVE FALSE
  BY <1>2
<1>4. PICK T : T = Dated(Row, b, e) /\ Keep(s, T) # << >>
  BY <1>1, WithinIs
<1>5. PICK n \in 1 .. Len(s) : s[n] \in T
  BY <1>1, <1>4, KeepElements
<1>6. PICK d \in Int : d = s[n].day /\ b <= d /\ d < e
  <2>1. s[n] \in Row /\ s[n].day \in Int
    BY <1>1 DEF Timeline
  <2>2. (b = Null \/ s[n].day >= b) /\ (e = Null \/ s[n].day < e)
    BY <1>4, <1>5 DEF Dated
  <2> QED BY <1>1, <1>2, <2>1, <2>2, SeriesAssumption
<1>7. Start(d, w) = b
  BY <1>2, <1>6, BucketOf
<1>8. from <= d /\ d <= to
  BY <1>1, <1>2, <1>3, <1>6
<1> QED BY <1>6, <1>7, <1>8 DEF BoundedSo

\* A flow, bucket by bucket and end to end.
Rises(f, P, from, to, w) ==
    DOMAIN f = DOMAIN LedgerSeries(from, to, w).points /\ \A b \in DOMAIN f : f[b] = P[b + w] - P[b]
Rests(s, P) == P \in [Int -> Int] /\ \A a, b \in Int : a <= b /\ Within(s, a, b) = << >> => P[b] = P[a]

Raised(f, P, from, to) == DaySum(f) = P[to + 1] - P[from]

LEMMA FlowAdds ==
    ASSUME NEW w \in Nat \ {0}, NEW s, Timeline(Row, s), NEW from \in Days, NEW to \in Days,
           Multiple(from, w), Multiple(to + 1, w), BoundedSo(s, from, to, w),
           NEW P, NEW f, Rises(f, P, from, to, w), Rests(s, P)
    PROVE  Raised(f, P, from, to)
<1>1. from \in Int /\ to \in Int /\ from <= to /\ w \in Int /\ 0 < w
  BY SeriesAssumption DEF Days, BoundedSo
<1>2. \A b \in DOMAIN f : Multiple(b, w) /\ from <= b /\ b <= to /\ f[b] = P[b + w] - P[b]
  BY DEF BoundedSo, Rises
<1>3. ASSUME NEW b, Multiple(b, w), from <= b, b <= to, b \notin DOMAIN f PROVE P[b + w] = P[b]
  <2>1. Within(s, b, b + w) = << >>
    <3>1. b \notin DOMAIN LedgerSeries(from, to, w).points
      BY <1>3 DEF Rises
    <3> QED BY <1>1, <1>3, <3>1, OutsideIsEmpty
  <2>2. PICK e \in Int : e = b + w /\ b \in Int /\ b <= e
    BY <1>1, <1>3 DEF Multiple
  <2>3. P[e] = P[b]
    BY <2>1, <2>2 DEF Rests
  <2> QED BY <2>2, <2>3
<1>4. P \in [Int -> Int]
  BY DEF Rests
<1>5. DaySum(f) = P[to + 1] - P[from]
  BY <1>1, <1>2, <1>3, <1>4, DaysAdd
<1> QED BY <1>5 DEF Raised

LEMMA FlowsOfHistory == ASSUME HistoryOK PROVE FlowsTieOut
<1> SUFFICES ASSUME NEW from \in Days, NEW to \in Days, NEW w \in Widths,
                    Covered(Rows) \in {Rows, << >>}, DOMAIN LedgerSeries(from, to, w).points # {},
                    from % w = 0, (to + 1) % w = 0
             PROVE  LET series == LedgerSeries(from, to, w).points IN
                    /\ DaySum([b \in DOMAIN series |-> series[b].in]) = SpendingSummary(from, to).income
                    /\ DaySum([b \in DOMAIN series |-> series[b].out]) = SpendingSummary(from, to).spend
  BY DEF FlowsTieOut, DaySum
<1> DEFINE series == LedgerSeries(from, to, w).points
<1>1. w \in Nat \ {0} /\ w \in Int /\ 0 < w /\ from \in Int /\ to \in Int /\ to + 1 \in Int
  BY SeriesAssumption DEF Days
<1>2. Multiple(from, w) /\ Multiple(to + 1, w)
  BY <1>1 DEF Multiple
<1>3. PICK s : s = Rows /\ Timeline(Row, s)
  <2>1. Timeline(Row, Rows)
    BY RowsIs, RowFields DEF HistoryOK, Timeline
  <2> QED BY <2>1
<1>4. BoundedSo(s, from, to, w)
  BY <1>1, <1>2, <1>3, BoundedSeries
<1>5. PICK P : Flows(s, Incoming, P)
  BY <1>3, FlowExists
<1>6. PICK N : Flows(s, Outgoing, N)
  BY <1>3, FlowExists
<1>7. \A a, b \in Int : a <= b => Income(Within(s, a, b)) = P[b] - P[a] /\ Spend(Within(s, a, b)) = N[a] - N[b]
  <2> SUFFICES ASSUME NEW a \in Int, NEW b \in Int, a <= b
               PROVE  Income(Within(s, a, b)) = P[b] - P[a] /\ Spend(Within(s, a, b)) = N[a] - N[b]
    OBVIOUS
  <2>1. PICK x \in Seq(Row) : x = Within(s, a, b)
    BY <1>3, SpanOfKind
  <2>2. Income(x) = Sum(Keep(x, Incoming)) /\ Spend(x) = -Sum(Keep(x, Outgoing))
    BY FlowsAre
  <2>3. Sum(Keep(x, Incoming)) = P[b] - P[a] /\ Sum(Keep(x, Outgoing)) = N[b] - N[a]
    BY <1>5, <1>6, <2>1 DEF Flows
  <2>4. N[b] \in Int /\ N[a] \in Int
    BY <1>6 DEF Flows
  <2> QED BY <2>1, <2>2, <2>3, <2>4
<1> DEFINE M == [d \in Int |-> -N[d]]
<1>8. M \in [Int -> Int] /\ \A d \in Int : M[d] = -N[d] /\ N[d] \in Int
  BY <1>6 DEF Flows
<1> HIDE DEF M
<1>9. ASSUME NEW b \in DOMAIN series
      PROVE  series[b].in = P[b + w] - P[b] /\ series[b].out = M[b + w] - M[b]
  <2>1. series[b].in = Income(Within(s, b, b + w)) /\ series[b].out = Spend(Within(s, b, b + w)) /\ b \in Int
    BY <1>4, <1>9 DEF BoundedSo, In, Multiple
  <2> HIDE DEF series
  <2>2. b + w \in Int /\ b <= b + w
    BY <1>1, <2>1
  <2>3. Income(Within(s, b, b + w)) = P[b + w] - P[b] /\ Spend(Within(s, b, b + w)) = N[b] - N[b + w]
    BY <1>7, <2>1, <2>2
  <2>4. M[b + w] = -N[b + w] /\ M[b] = -N[b] /\ N[b + w] \in Int /\ N[b] \in Int
    BY <1>8, <2>1, <2>2
  <2>5. N[b] - N[b + w] = M[b + w] - M[b]
    BY <2>4
  <2> QED BY <2>1, <2>3, <2>5
<1> DEFINE in == [b \in DOMAIN series |-> series[b].in]
           out == [b \in DOMAIN series |-> series[b].out]
<1>10. DaySum(in) = P[to + 1] - P[from]
  <2>1. Rises(in, P, from, to, w)
    BY <1>9 DEF Rises
  <2>2. Rests(s, P)
    BY <1>5 DEF Flows, Rests
  <2> HIDE DEF in, series
  <2>3. PICK g : g = in
    OBVIOUS
  <2>4. DaySum(g) = P[to + 1] - P[from]
    <3>1. Rises(g, P, from, to, w)
      BY <2>1, <2>3
    <3>2. /\ w \in Nat \ {0} /\ Timeline(Row, s) /\ from \in Days /\ to \in Days
          /\ Multiple(from, w) /\ Multiple(to + 1, w) /\ BoundedSo(s, from, to, w)
          /\ Rests(s, P)
      BY <1>1, <1>2, <1>3, <1>4, <2>2
    <3>3. Raised(g, P, from, to)
      BY <3>1, <3>2, FlowAdds
    <3> QED BY <3>3 DEF Raised
  <2> QED BY <2>3, <2>4
<1>11. DaySum(out) = M[to + 1] - M[from]
  <2>1. Rises(out, M, from, to, w)
    BY <1>9 DEF Rises
  <2>2. Rests(s, M)
    BY <1>6, <1>8 DEF Flows, Rests
  <2> HIDE DEF out, series
  <2>3. PICK g : g = out
    OBVIOUS
  <2>4. DaySum(g) = M[to + 1] - M[from]
    <3>1. Rises(g, M, from, to, w)
      BY <2>1, <2>3
    <3>2. /\ w \in Nat \ {0} /\ Timeline(Row, s) /\ from \in Days /\ to \in Days
          /\ Multiple(from, w) /\ Multiple(to + 1, w) /\ BoundedSo(s, from, to, w)
          /\ Rests(s, M)
      BY <1>1, <1>2, <1>3, <1>4, <1>8, <2>2
    <3>3. Raised(g, M, from, to)
      BY <3>1, <3>2, FlowAdds
    <3> QED BY <3>3 DEF Raised
  <2> QED BY <2>3, <2>4
<1>12. /\ SpendingSummary(from, to).income = P[to + 1] - P[from]
       /\ SpendingSummary(from, to).spend = M[to + 1] - M[from]
  <2>1. /\ SpendingSummary(from, to).income = Income(Within(s, from, to + 1))
        /\ SpendingSummary(from, to).spend = Spend(Within(s, from, to + 1))
    BY <1>3 DEF SpendingSummary
  <2>2. from <= to + 1
    BY <1>1, <1>4 DEF BoundedSo
  <2>3. /\ Income(Within(s, from, to + 1)) = P[to + 1] - P[from]
        /\ Spend(Within(s, from, to + 1)) = N[from] - N[to + 1]
    BY <1>1, <1>7, <2>2
  <2>4. M[to + 1] = -N[to + 1] /\ M[from] = -N[from] /\ N[to + 1] \in Int /\ N[from] \in Int
    BY <1>1, <1>8
  <2>5. N[from] - N[to + 1] = M[to + 1] - M[from]
    BY <2>4
  <2> QED BY <2>1, <2>3, <2>5
<1> QED BY <1>10, <1>11, <1>12

-----------------------------------------------------------------------------
(* The points of a series that several share *)

\* The helpers of Allot: the shallowest of the series in S, and what it is given.
ShallowestOf(sizes, S) ==
    CHOOSE i \in S : \A j \in S : sizes[i] < sizes[j] \/ (sizes[i] = sizes[j] /\ i <= j)
ShareOf(sizes, acc, i) ==
    LET share == Least({sizes[i], Most({1, acc.remaining \div acc.left})})
    IN  [allot |-> [acc.allot EXCEPT ![i] = share], rest |-> acc.rest \ {i},
         remaining |-> Most({0, acc.remaining - share}), left |-> acc.left - 1]
Undivided(sizes, budget) ==
    [allot |-> sizes, rest |-> DOMAIN sizes, remaining |-> budget, left |-> Len(sizes)]
Divided(sizes, acc) == ShareOf(sizes, acc, ShallowestOf(sizes, acc.rest))
TotalOf(sizes) == Sum([i \in DOMAIN sizes |-> [amt |-> sizes[i]]])

\* What Allot does with three series, one at a time.
AllotSo(sizes, budget) ==
    Allot(sizes, budget) =
        IF TotalOf(sizes) <= budget THEN sizes
        ELSE Divided(sizes, Divided(sizes, Divided(sizes, Undivided(sizes, budget)))).allot

LEMMA AllotSteps == ASSUME NEW sizes, Len(sizes) = 3, NEW budget PROVE AllotSo(sizes, budget)
<1> DEFINE Body(f) == [n \in 0 .. Len(sizes) |->
                          IF n = 0 THEN Undivided(sizes, budget) ELSE Divided(sizes, f[n - 1])]
           shared == CHOOSE f : f = Body(f)
<1>1. PICK x0, x1, x2, x3 : /\ x0 = Undivided(sizes, budget) /\ x1 = Divided(sizes, x0)
                            /\ x2 = Divided(sizes, x1) /\ x3 = Divided(sizes, x2)
  OBVIOUS
<1> DEFINE g == [n \in 0 .. 3 |-> IF n = 0 THEN x0 ELSE IF n = 1 THEN x1 ELSE IF n = 2 THEN x2 ELSE x3]
<1>2. g = Body(g)
  <2>1. g[0] = x0 /\ g[1] = x1 /\ g[2] = x2
    OBVIOUS
  <2>2. ASSUME NEW n \in 0 .. 3
        PROVE  g[n] = IF n = 0 THEN Undivided(sizes, budget) ELSE Divided(sizes, g[n - 1])
    <3>1. CASE n = 0
      BY <1>1, <3>1
    <3>2. CASE n = 1
      BY <1>1, <2>1, <3>2
    <3>3. CASE n = 2
      BY <1>1, <2>1, <3>3
    <3>4. CASE n = 3
      BY <1>1, <2>1, <3>4
    <3> QED BY <3>1, <3>2, <3>3, <3>4
  <2>3. g = [n \in 0 .. 3 |-> g[n]]
    OBVIOUS
  <2> HIDE DEF g
  <2> QED BY <2>2, <2>3
<1>3. shared = Body(shared)
  <2> HIDE DEF g, Body
  <2> QED BY <1>2
<1>4. shared[3] = x3
  <2> HIDE DEF shared
  <2>1. \A n \in 0 .. 3 : shared[n] = IF n = 0 THEN Undivided(sizes, budget) ELSE Divided(sizes, shared[n - 1])
    BY <1>3, Zenon
  <2>2. shared[0] = x0
    BY <1>1, <2>1
  <2>3. shared[1] = x1
    BY <1>1, <2>1, <2>2
  <2>4. shared[2] = x2
    BY <1>1, <2>1, <2>3
  <2> QED BY <1>1, <2>1, <2>4
<1>5. Allot(sizes, budget) = IF TotalOf(sizes) <= budget THEN sizes ELSE shared[3].allot
  BY DEF Allot, TotalOf, Divided, Undivided, ShareOf, ShallowestOf
<1> HIDE DEF shared
<1> QED BY <1>1, <1>4, <1>5 DEF AllotSo

\* A shallowest series there is.
LEMMA ShallowestIs ==
    ASSUME NEW sizes \in [1 .. 3 -> Nat], NEW S \in SUBSET (1 .. 3), S # {}
    PROVE  /\ ShallowestOf(sizes, S) \in S
           /\ \A j \in S : sizes[ShallowestOf(sizes, S)] <= sizes[j]
<1>1. \A i \in S : sizes[i] \in Nat /\ i \in Nat
  OBVIOUS
<1> DEFINE T == {sizes[i] : i \in S}
<1>2. PICK z \in T : \A y \in T : z <= y
  <2>1. T \in SUBSET Nat /\ T # {}
    BY <1>1
  <2> HIDE DEF T
  <2> QED BY <2>1, LeastNatural
<1>3. PICK i \in S : sizes[i] = z
  OBVIOUS
<1> DEFINE U == {j \in S : sizes[j] = z}
<1>4. PICK k \in U : \A j \in U : k <= j
  <2>1. U \in SUBSET Nat /\ U # {}
    BY <1>1, <1>3
  <2> HIDE DEF U
  <2> QED BY <2>1, LeastNatural
<1>5. \A j \in S : sizes[k] < sizes[j] \/ (sizes[k] = sizes[j] /\ k <= j)
  <2> SUFFICES ASSUME NEW j \in S PROVE sizes[k] < sizes[j] \/ (sizes[k] = sizes[j] /\ k <= j)
    OBVIOUS
  <2>1. sizes[k] = z /\ z <= sizes[j] /\ sizes[j] \in Nat /\ z \in Nat
    BY <1>1, <1>2, <1>4
  <2>2. sizes[j] = z => k <= j
    BY <1>4
  <2> QED BY <2>1, <2>2
<1>6. k \in S
  OBVIOUS
<1>7. PICK i0 : i0 = ShallowestOf(sizes, S) /\ i0 \in S
               /\ \A j \in S : sizes[i0] < sizes[j] \/ (sizes[i0] = sizes[j] /\ i0 <= j)
  <2> HIDE DEF T, U
  <2> QED BY <1>5, <1>6 DEF ShallowestOf
<1>8. \A j \in S : sizes[i0] <= sizes[j]
  <2> HIDE DEF T, U
  <2> QED BY <1>1, <1>7
<1> QED BY <1>7, <1>8

\* One series after another is given its share.
Lesser(a, b) == IF a <= b THEN a ELSE b
Greater(a, b) == IF a >= b THEN a ELSE b
Share(size, q) == Lesser(size, Greater(1, q))
Quotient(r, l, q) == q \in Nat /\ l * q <= r /\ r < l * q + l
State(allot, rest, r, l) == [allot |-> allot, rest |-> rest, remaining |-> r, left |-> l]

Handed(sizes, f, R, r, l, i, q) ==
    /\ i \in R /\ (\A j \in R : sizes[i] <= sizes[j]) /\ Quotient(r, l, q)
    /\ Divided(sizes, State(f, R, r, l)) =
          State([f EXCEPT ![i] = Share(sizes[i], q)], R \ {i}, Greater(0, r - Share(sizes[i], q)), l - 1)

LEMMA HandOut ==
    ASSUME NEW sizes \in [1 .. 3 -> Nat], NEW f, NEW R \in SUBSET (1 .. 3), R # {},
           NEW r \in Nat, NEW l \in Nat \ {0}
    PROVE  \E i, q : Handed(sizes, f, R, r, l, i, q)
<1>1. PICK i \in R : i = ShallowestOf(sizes, R) /\ \A j \in R : sizes[i] <= sizes[j]
  BY ShallowestIs
<1>2. PICK q \in Int : q = r \div l /\ q \in Nat /\ l * q <= r /\ r < l * q + l
  <2>1. PICK q \in Int, m \in 0 .. l - 1, p \in Int : q = r \div l /\ m = r % l /\ p = l * q /\ r = p + m
    <3>0. r \in Int
      OBVIOUS
    <3>1. r \div l \in Int /\ r % l \in 0 .. l - 1 /\ r = l * (r \div l) + (r % l)
      BY <3>0, DivMod, Zenon
    <3>2. l * (r \div l) \in Int
      BY <3>1
    <3> QED BY <3>1, <3>2
  <2>2. p <= r /\ r < p + l
    BY <2>1
  <2>3. q >= 0
    <3> SUFFICES ASSUME q <= -1 PROVE FALSE
      BY <2>1
    <3>1. -1 \in Int /\ l * q <= l * (-1)
      BY TimesMono
    <3>2. l * (-1) = -l
      OBVIOUS
    <3>3. PICK e \in Int : e = l * q /\ e + l <= 0 /\ r < e + l
      <4>1. PICK e \in Int : e = l * q /\ e <= -l /\ r < e + l
        BY <2>1, <2>2, <3>1, <3>2
      <4> QED BY <4>1
    <3>4. l \in Int /\ r \in Int /\ 0 <= r
      OBVIOUS
    <3> QED BY <3>3, <3>4
  <2>4. q = r \div l /\ q \in Int /\ q \in Nat /\ l * q <= r /\ r < l * q + l
    BY <2>1, <2>2, <2>3
  <2> QED BY <2>4
<1>3. PICK z \in Nat : z = sizes[i]
  OBVIOUS
<1>4. Most({1, q}) = Greater(1, q) /\ Greater(1, q) \in Int
  <2>1. 1 \in Int
    OBVIOUS
  <2>2. Most({1, q}) = IF 1 >= q THEN 1 ELSE q
    BY <2>1, LeastOfTwo
  <2> QED BY <2>1, <2>2 DEF Greater
<1>5. Least({z, Greater(1, q)}) = Share(z, q) /\ Share(z, q) \in Int
  BY <1>4, LeastOfTwo DEF Lesser, Share
<1>6. Most({0, r - Share(z, q)}) = Greater(0, r - Share(z, q))
  <2>1. PICK y \in Int : y = r - Share(z, q)
    BY <1>5
  <2>2. Most({0, y}) = Greater(0, y)
    BY LeastOfTwo DEF Greater
  <2> QED BY <2>1, <2>2
<1>7. PICK acc : acc = State(f, R, r, l) /\ acc.allot = f /\ acc.rest = R /\ acc.remaining = r /\ acc.left = l
  <2>1. PICK acc : acc = State(f, R, r, l)
    OBVIOUS
  <2>2. acc.allot = f /\ acc.rest = R /\ acc.remaining = r /\ acc.left = l
    BY <2>1 DEF State
  <2> QED BY <2>1, <2>2
<1>8. Divided(sizes, acc) = ShareOf(sizes, acc, i)
  BY <1>1, <1>7 DEF Divided
<1>9. Least({sizes[i], Most({1, acc.remaining \div acc.left})}) = Share(z, q)
  BY <1>2, <1>3, <1>4, <1>5, <1>7
<1>10. ShareOf(sizes, acc, i) =
          [allot |-> [f EXCEPT ![i] = Share(z, q)], rest |-> R \ {i},
           remaining |-> Greater(0, r - Share(z, q)), left |-> l - 1]
  BY <1>6, <1>7, <1>9 DEF ShareOf
<1>11. Handed(sizes, f, R, r, l, i, q)
  BY <1>1, <1>2, <1>3, <1>7, <1>8, <1>10 DEF Handed, Quotient, State
<1> QED BY <1>11

\* Three shares, from the shallowest on.
LEMMA ThreeShares ==
    ASSUME NEW a \in Nat, NEW b \in Nat, NEW c \in Nat, a <= b, b <= c,
           NEW budget \in Nat, budget < a + b + c,
           NEW q, NEW p, NEW o, NEW r, NEW t, Quotient(budget, 3, q),
           r = Greater(0, budget - Share(a, q)), Quotient(r, 2, p),
           t = Greater(0, r - Share(b, p)), Quotient(t, 1, o)
    PROVE  /\ Share(a, q) + Share(b, p) + Share(c, o) <= Greater(budget, 3)
           /\ Share(a, q) + Share(b, p) + Share(c, o) >= budget
           /\ Share(a, q) \in Nat /\ Share(b, p) \in Nat /\ Share(c, o) \in Nat
           /\ Share(b, p) >= Share(b, q) /\ Share(c, o) >= Share(c, q)
<1>1. q \in Nat /\ 3 * q <= budget /\ budget < 3 * q + 3
  BY DEF Quotient
<1>2. PICK x \in Nat : x = Share(a, q) /\ x = IF a <= (IF q <= 1 THEN 1 ELSE q) THEN a ELSE IF q <= 1 THEN 1 ELSE q
  BY <1>1 DEF Share, Lesser, Greater
<1>3. r \in Nat /\ r = IF x <= budget THEN budget - x ELSE 0
  BY <1>2 DEF Greater
<1>4. p \in Nat /\ 2 * p <= r /\ r < 2 * p + 2
  BY DEF Quotient
<1>5. PICK y \in Nat : y = Share(b, p) /\ y = IF b <= (IF p <= 1 THEN 1 ELSE p) THEN b ELSE IF p <= 1 THEN 1 ELSE p
  BY <1>4 DEF Share, Lesser, Greater
<1>6. t \in Nat /\ t = IF y <= r THEN r - y ELSE 0
  BY <1>3, <1>5 DEF Greater
<1>7. o = t
  BY <1>6 DEF Quotient
<1>8. PICK z \in Nat : z = Share(c, o) /\ z = IF c <= (IF t <= 1 THEN 1 ELSE t) THEN c ELSE IF t <= 1 THEN 1 ELSE t
  BY <1>6, <1>7 DEF Share, Lesser, Greater
<1>9. PICK m \in Nat : m = Greater(budget, 3) /\ m = IF budget >= 3 THEN budget ELSE 3
  BY DEF Greater
<1>10. x + y + z <= m
  BY <1>1, <1>2, <1>3, <1>4, <1>5, <1>6, <1>8, <1>9
<1>11. x + y + z >= budget
  BY <1>1, <1>2, <1>3, <1>4, <1>5, <1>6, <1>8, <1>9
<1>12. Share(b, q) = (IF b <= (IF q <= 1 THEN 1 ELSE q) THEN b ELSE IF q <= 1 THEN 1 ELSE q)
  BY <1>1 DEF Share, Lesser, Greater
<1>13. Share(c, q) = (IF c <= (IF q <= 1 THEN 1 ELSE q) THEN c ELSE IF q <= 1 THEN 1 ELSE q)
  BY <1>1 DEF Share, Lesser, Greater
<1>14. y >= Share(b, q)
  BY <1>1, <1>2, <1>3, <1>4, <1>5, <1>12
<1>15. z >= Share(c, q)
  BY <1>1, <1>2, <1>3, <1>4, <1>5, <1>6, <1>8, <1>13
<1> QED BY <1>2, <1>5, <1>8, <1>9, <1>10, <1>11, <1>14, <1>15

\* Three shares, from the shallowest on, whichever that is.
FairlyShared(sizes, budget, got) ==
    /\ got[1] + got[2] + got[3] <= Most({budget, 3})
    /\ got[1] + got[2] + got[3] >= Least({budget, sizes[1] + sizes[2] + sizes[3]})
    /\ \A i \in 1 .. 3 : got[i] >= Least({sizes[i], Most({1, budget \div 3})})

LEMMA ThreeAllotted ==
    ASSUME NEW sizes \in [1 .. 3 -> Nat], NEW budget \in Nat, Len(sizes) = 3, DOMAIN sizes = 1 .. 3,
           budget < sizes[1] + sizes[2] + sizes[3]
    PROVE  \E q, got : /\ Quotient(budget, 3, q)
                       /\ got = Divided(sizes, Divided(sizes, Divided(sizes, Undivided(sizes, budget)))).allot
                       /\ got[1] + got[2] + got[3] <= Greater(budget, 3)
                       /\ got[1] + got[2] + got[3] >= budget
                       /\ \A n \in 1 .. 3 : got[n] \in Nat /\ got[n] >= Share(sizes[n], q)
<1>1. Undivided(sizes, budget) = State(sizes, 1 .. 3, budget, 3)
  BY DEF Undivided, State
<1>2. \A n \in 1 .. 3 : sizes[n] \in Nat
  OBVIOUS
<1>3. PICK i, q : Handed(sizes, sizes, 1 .. 3, budget, 3, i, q)
  <2>1. 1 .. 3 \in SUBSET (1 .. 3) /\ 1 .. 3 # {} /\ 3 \in Nat \ {0}
    OBVIOUS
  <2> QED BY <2>1, HandOut
<1>4. PICK x, r, f, R : /\ x = Share(sizes[i], q) /\ r = Greater(0, budget - x) /\ R = (1 .. 3) \ {i}
                        /\ f = [sizes EXCEPT ![i] = x]
  OBVIOUS
<1>5. /\ i \in 1 .. 3 /\ (\A n \in 1 .. 3 : sizes[i] <= sizes[n]) /\ Quotient(budget, 3, q)
      /\ Divided(sizes, State(sizes, 1 .. 3, budget, 3)) = State(f, R, r, 2)
  <2>1. 3 - 1 = 2
    OBVIOUS
  <2> QED BY <1>3, <1>4, <2>1 DEF Handed
<1>6. x \in Nat /\ r \in Nat
  <2>1. q \in Nat /\ sizes[i] \in Nat
    BY <1>2, <1>5 DEF Quotient
  <2>2. x \in Nat
    BY <1>4, <2>1 DEF Share, Lesser, Greater
  <2> QED BY <1>4, <2>2 DEF Greater
<1>7. R \in SUBSET (1 .. 3) /\ R # {}
  <2>1. 1 # i \/ 2 # i
    OBVIOUS
  <2> QED BY <1>4, <2>1
<1>8. PICK j, p : Handed(sizes, f, R, r, 2, j, p)
  <2>1. 2 \in Nat \ {0}
    OBVIOUS
  <2> QED BY <1>6, <1>7, <2>1, HandOut
<1>9. PICK y, t, g, S : /\ y = Share(sizes[j], p) /\ t = Greater(0, r - y) /\ S = R \ {j}
                        /\ g = [f EXCEPT ![j] = y]
  OBVIOUS
<1>10. /\ j \in R /\ (\A n \in R : sizes[j] <= sizes[n]) /\ Quotient(r, 2, p)
       /\ Divided(sizes, State(f, R, r, 2)) = State(g, S, t, 1)
  <2>1. 2 - 1 = 1
    OBVIOUS
  <2> QED BY <1>8, <1>9, <2>1 DEF Handed
<1>11. y \in Nat /\ t \in Nat
  <2>1. p \in Nat /\ sizes[j] \in Nat
    BY <1>2, <1>7, <1>10 DEF Quotient
  <2>2. y \in Nat
    BY <1>9, <2>1 DEF Share, Lesser, Greater
  <2> QED BY <1>6, <1>9, <2>2 DEF Greater
<1>12. S \in SUBSET (1 .. 3) /\ S # {}
  <2>1. i \in {1, 2, 3} /\ j \in {1, 2, 3}
    BY <1>5, <1>7, <1>10
  <2>2. \E n \in {1, 2, 3} : n # i /\ n # j
    BY <2>1
  <2> QED BY <1>4, <1>7, <1>9, <2>2
<1>13. PICK k, o : Handed(sizes, g, S, t, 1, k, o)
  <2>1. 1 \in Nat \ {0}
    OBVIOUS
  <2> QED BY <1>11, <1>12, <2>1, HandOut
<1>14. PICK z, h : z = Share(sizes[k], o) /\ h = [g EXCEPT ![k] = z]
  OBVIOUS
<1>15. k \in S /\ Quotient(t, 1, o) /\ Divided(sizes, State(g, S, t, 1)).allot = h
  <2>1. \A u, v, m, n : State(u, v, m, n).allot = u
    BY DEF State
  <2> QED BY <1>13, <1>14, <2>1 DEF Handed
<1>16. /\ i \in {1, 2, 3} /\ j \in {1, 2, 3} /\ k \in {1, 2, 3} /\ i # j /\ i # k /\ j # k
  BY <1>4, <1>5, <1>7, <1>9, <1>10, <1>12, <1>15
<1>17. h[i] = x /\ h[j] = y /\ h[k] = z
  <2>1. f \in [1 .. 3 -> Nat] /\ f[i] = x
    BY <1>4, <1>6, <1>16
  <2>2. g \in [1 .. 3 -> Nat] /\ g[i] = x /\ g[j] = y
    BY <1>9, <1>11, <1>16, <2>1
  <2> QED BY <1>14, <1>16, <2>2
<1>18. PICK a \in Nat, b \in Nat, c \in Nat : a = sizes[i] /\ b = sizes[j] /\ c = sizes[k]
  BY <1>2, <1>16
<1>19. a <= b /\ b <= c
  <2>1. j \in 1 .. 3 /\ k \in R
    BY <1>9, <1>15, <1>16
  <2> QED BY <1>5, <1>10, <1>18, <2>1
<1>20. sizes[1] + sizes[2] + sizes[3] = a + b + c
  BY <1>2, <1>16, <1>18
<1>21. /\ x + y + z <= Greater(budget, 3) /\ x + y + z >= budget
       /\ x \in Nat /\ y \in Nat /\ z \in Nat /\ x = Share(a, q) /\ y >= Share(b, q) /\ z >= Share(c, q)
  <2>1. Quotient(budget, 3, q) /\ r = Greater(0, budget - Share(a, q)) /\ Quotient(r, 2, p)
        /\ t = Greater(0, r - Share(b, p)) /\ Quotient(t, 1, o) /\ budget < a + b + c
    BY <1>4, <1>5, <1>9, <1>10, <1>15, <1>18, <1>20
  <2>2. x = Share(a, q) /\ y = Share(b, p) /\ z = Share(c, o)
    BY <1>4, <1>9, <1>14, <1>18
  <2> QED BY <1>19, <2>1, <2>2, ThreeShares
<1>22. h[1] + h[2] + h[3] = x + y + z
  BY <1>16, <1>17, <1>21
<1>23. \A n \in 1 .. 3 : h[n] \in Nat /\ h[n] >= Share(sizes[n], q)
  <2> SUFFICES ASSUME NEW n \in 1 .. 3 PROVE h[n] \in Nat /\ h[n] >= Share(sizes[n], q)
    OBVIOUS
  <2>1. n = i \/ n = j \/ n = k
    BY <1>16
  <2>2. x >= Share(a, q)
    BY <1>21
  <2> QED BY <1>17, <1>18, <1>21, <2>1, <2>2
<1>24. h = Divided(sizes, Divided(sizes, Divided(sizes, Undivided(sizes, budget)))).allot
  BY <1>1, <1>5, <1>10, <1>15
<1> QED BY <1>5, <1>21, <1>22, <1>23, <1>24

LEMMA TotalIs ==
    ASSUME NEW sizes \in [1 .. 3 -> Nat]
    PROVE  TotalOf(sizes) = sizes[1] + sizes[2] + sizes[3]
<1> DEFINE z == [i \in 1 .. 3 |-> [amt |-> sizes[i]]]
<1>1. sizes[1] \in Nat /\ sizes[2] \in Nat /\ sizes[3] \in Nat
  OBVIOUS
<1>2. Len(z) = 3 /\ \A n \in 1 .. 3 : z[n].amt = sizes[n] /\ z[n].amt \in Int
  OBVIOUS
<1>3. DOMAIN sizes = 1 .. 3
  OBVIOUS
<1>4. TotalOf(sizes) = Sum(z)
  BY <1>3 DEF TotalOf
<1> HIDE DEF z
<1>5. PICK f : Adding(f, z)
  <2>1. Len(z) \in Nat /\ \A n \in 1 .. Len(z) : z[n].amt \in Int
    BY <1>2
  <2> QED BY <2>1, SumSteps
<1>6. f[0] = 0 /\ f[3] = Sum(z) /\ \A n \in 1 .. 3 : f[n] = f[n - 1] + z[n].amt
  BY <1>2, <1>5 DEF Adding
<1>7. f[1] = 0 + z[1].amt /\ f[2] = f[1] + z[2].amt /\ f[3] = f[2] + z[3].amt
  BY <1>6
<1>8. f[1] = sizes[1] /\ f[2] = f[1] + sizes[2] /\ f[3] = f[2] + sizes[3]
  BY <1>1, <1>2, <1>7
<1> QED BY <1>1, <1>4, <1>6, <1>8

\* Three series share a budget.
LEMMA ShareOfThree ==
    ASSUME NEW sizes \in Seq(Nat), Len(sizes) = 3, NEW budget \in Nat
    PROVE  FairlyShared(sizes, budget, Allot(sizes, budget))
<1>1. sizes \in [1 .. 3 -> Nat] /\ DOMAIN sizes = 1 .. 3
  OBVIOUS
<1>2. TotalOf(sizes) = sizes[1] + sizes[2] + sizes[3]
  BY <1>1, TotalIs
<1>3. PICK T \in Nat : T = sizes[1] + sizes[2] + sizes[3]
  <2>1. sizes[1] \in Nat /\ sizes[2] \in Nat /\ sizes[3] \in Nat
    BY <1>1
  <2> QED BY <2>1
<1>4. PICK got : /\ got = Allot(sizes, budget)
                 /\ got = IF T <= budget THEN sizes
                          ELSE Divided(sizes, Divided(sizes, Divided(sizes, Undivided(sizes, budget)))).allot
  <2>1. AllotSo(sizes, budget)
    BY AllotSteps
  <2> QED BY <1>2, <1>3, <2>1 DEF AllotSo
<1>5. PICK q \in Int : q = budget \div 3 /\ q \in Nat /\ Quotient(budget, 3, q)
  <2>1. PICK u \in Int, m \in 0 .. 2 : u = budget \div 3 /\ budget = 3 * u + m
    <3>1. 3 \in Nat \ {0} /\ 3 - 1 = 2
      OBVIOUS
    <3>2. budget \div 3 \in Int /\ budget % 3 \in 0 .. 3 - 1 /\ budget = 3 * (budget \div 3) + (budget % 3)
      BY <3>1, DivMod
    <3> QED BY <3>1, <3>2
  <2>2. u \in Nat /\ 3 * u <= budget /\ budget < 3 * u + 3
    BY <2>1
  <2> QED BY <2>1, <2>2 DEF Quotient
<1>6. Most({budget, 3}) = Greater(budget, 3) /\ Least({budget, T}) = Lesser(budget, T)
  <2>1. budget \in Int /\ 3 \in Int /\ T \in Int
    OBVIOUS
  <2>2. Most({budget, 3}) = IF budget >= 3 THEN budget ELSE 3
    BY <2>1, LeastOfTwo
  <2>3. Least({budget, T}) = IF budget <= T THEN budget ELSE T
    BY <2>1, LeastOfTwo
  <2> QED BY <2>2, <2>3 DEF Greater, Lesser
<1>7. \A n \in 1 .. 3 : Least({sizes[n], Most({1, budget \div 3})}) = Share(sizes[n], q)
  <2> SUFFICES ASSUME NEW n \in 1 .. 3 PROVE Least({sizes[n], Most({1, q})}) = Share(sizes[n], q)
    BY <1>5
  <2>1. Most({1, q}) = Greater(1, q) /\ Greater(1, q) \in Int
    <3>1. 1 \in Int /\ q \in Int
      OBVIOUS
    <3>2. Most({1, q}) = IF 1 >= q THEN 1 ELSE q
      BY <3>1, LeastOfTwo
    <3> QED BY <3>1, <3>2 DEF Greater
  <2>2. sizes[n] \in Int
    BY <1>1
  <2>3. Least({sizes[n], Greater(1, q)}) = Lesser(sizes[n], Greater(1, q))
    BY <2>1, <2>2, LeastOfTwo DEF Lesser
  <2> QED BY <2>1, <2>3 DEF Share
<1> SUFFICES /\ got[1] + got[2] + got[3] <= Greater(budget, 3)
             /\ got[1] + got[2] + got[3] >= Lesser(budget, T)
             /\ \A n \in 1 .. 3 : got[n] >= Share(sizes[n], q)
  BY <1>3, <1>4, <1>6, <1>7 DEF FairlyShared
<1>8. CASE T <= budget
  <2>1. got = sizes /\ got[1] + got[2] + got[3] = T
    BY <1>3, <1>4, <1>8
  <2>2. T <= Greater(budget, 3) /\ T >= Lesser(budget, T)
    BY <1>8 DEF Greater, Lesser
  <2>3. \A n \in 1 .. 3 : sizes[n] >= Share(sizes[n], q)
    <3> SUFFICES ASSUME NEW n \in 1 .. 3, NEW x \in Nat, x = sizes[n] PROVE x >= Share(x, q)
      BY <1>1
    <3> QED BY <1>5 DEF Share, Lesser, Greater
  <2> QED BY <2>1, <2>2, <2>3
<1>9. CASE budget < T
  <2>1. PICK p, h : /\ Quotient(budget, 3, p)
                    /\ h = Divided(sizes, Divided(sizes, Divided(sizes, Undivided(sizes, budget)))).allot
                    /\ h[1] + h[2] + h[3] <= Greater(budget, 3)
                    /\ h[1] + h[2] + h[3] >= budget
                    /\ \A n \in 1 .. 3 : h[n] \in Nat /\ h[n] >= Share(sizes[n], p)
    BY <1>1, <1>3, <1>9, ThreeAllotted
  <2>2. p = q
    <3>1. p \in Nat /\ 3 * p <= budget /\ budget < 3 * p + 3
      BY <2>1 DEF Quotient
    <3>2. q \in Nat /\ 3 * q <= budget /\ budget < 3 * q + 3
      BY <1>5 DEF Quotient
    <3> QED BY <3>1, <3>2
  <2>3. h = got
    BY <1>4, <1>9, <2>1
  <2>4. Lesser(budget, T) = budget
    BY <1>9 DEF Lesser
  <2> QED BY <2>1, <2>2, <2>3, <2>4
<1> QED BY <1>8, <1>9

\* A series has finitely many points.
LEMMA PointsAreFinite ==
    ASSUME HistoryOK PROVE Cardinality(DOMAIN LedgerSeries(Null, Null, 1).points) \in Nat
<1> DEFINE X == DOMAIN LedgerSeries(Null, Null, 1).points
<1>1. ASSUME X = {} PROVE Cardinality(X) \in Nat
  <2> HIDE DEF X
  <2> QED BY <1>1, FS_EmptySet
<1>2. CASE Rows = << >>
  <2>1. LedgerSeries(Null, Null, 1) = NoPoints
    BY <1>2, LedgerSeriesIs
  <2> QED BY <1>1, <2>1 DEF NoPoints
<1>3. CASE Rows # << >>
  <2>0. 1 \in Nat \ {0}
    OBVIOUS
  <2>1. PICK s, f, hi : s = Rows /\ WholeIs(s, f, hi, 1)
    BY <1>3, <2>0, WholeSeriesIs
  <2>2. f \in Int /\ hi \in Int /\ Multiple(f, 1)
    BY <2>1 DEF WholeIs, Multiple
  <2> DEFINE O == Buckets(f, hi, 1)
  <2>3. LedgerSeries(Null, Null, 1).points = << >> \/ X = Emitted(O, f, hi, LevelOf(s, O, 1))
    BY <2>1 DEF WholeIs, PointsSo
  <2>4. CASE LedgerSeries(Null, Null, 1).points = << >>
    BY <1>1, <2>4
  <2>5. CASE X = Emitted(O, f, hi, LevelOf(s, O, 1))
    <3>1. X \in SUBSET (f .. hi)
      BY <2>5 DEF Emitted, Buckets
    <3> HIDE DEF X
    <3>2. IsFiniteSet(f .. hi)
      BY <2>2, FS_Interval
    <3>3. IsFiniteSet(X)
      BY <3>1, <3>2, FS_Subset
    <3>4. Cardinality(X) \in Nat
      BY <3>3, FS_CardinalityType
    <3> QED BY <3>4 DEF X
  <2> QED BY <2>3, <2>4, <2>5
<1> QED BY <1>2, <1>3

LEMMA BudgetOfHistory == ASSUME HistoryOK PROVE BudgetIsShared
<1> DEFINE mine == Cardinality(DOMAIN LedgerSeries(Null, Null, 1).points)
<1>1. mine \in Nat
  BY PointsAreFinite
<1> SUFFICES ASSUME NEW others \in {0, 1, 3} \X {0, 1, 3}, NEW budget \in Budgets
             PROVE  LET sizes == <<mine>> \o others
                        got == Allot(sizes, budget)
                    IN  /\ got[1] + got[2] + got[3] <= Most({budget, 3})
                        /\ got[1] + got[2] + got[3] >= Least({budget, sizes[1] + sizes[2] + sizes[3]})
                        /\ \A n \in 1 .. 3 : got[n] >= Least({sizes[n], Most({1, budget \div 3})})
  BY Zenon DEF BudgetIsShared
<1> HIDE DEF mine
<1>2. \E i, j \in {0, 1, 3} : others = <<i, j>>
  OBVIOUS
<1>3. PICK i \in Nat, j \in Nat : others = <<i, j>>
  BY <1>2
<1> DEFINE sizes == <<mine>> \o others
<1>5. sizes \in Seq(Nat) /\ Len(sizes) = 3
  BY <1>1, <1>3
<1>6. budget \in Nat
  BY SeriesAssumption
<1> HIDE DEF sizes
<1>7. FairlyShared(sizes, budget, Allot(sizes, budget))
  BY <1>5, <1>6, ShareOfThree
<1> QED BY <1>7, Zenon DEF FairlyShared, sizes

-----------------------------------------------------------------------------
(* What the reads promise, in every history *)

\* SnapshotSeries (balance_series.go): a bucket closes on its last reading, one without
\* says it is carried, and a window opens on the last level known before it.
THEOREM SnapshotsAreReadings == Spec => []SnapshotIsTheLastReading
<1>1. HistoryOK => SnapshotIsTheLastReading
  BY SnapshotsOfHistory
<1> QED BY <1>1, Invariance, PTL

\* LedgerSeries: wherever a window begins, it has the buckets and figures of the series
\* with the same end, whichever rows the ledger lost and wherever the derivation had to
\* reach back to; wherever it ends, those of the whole, if no row carries a running
\* balance or one in the window's reach does.
THEOREM WindowsAreSlices == Spec => []WindowIsASlice
<1>1. HistoryOK => WindowIsASlice
  BY WindowsOfHistory
<1> QED BY <1>1, Invariance, PTL

\* LedgerSeries: with every row there, each close in a window, open or bounded at either
\* end, is the balance the bank had: from a row's running balance, accumulated, or walked
\* from a reading that closes its bucket.
THEOREM LedgersAreExact == Spec => []LedgerIsExact
<1>1. HistoryOK => LedgerIsExact
  BY ExactOfHistory
<1> QED BY <1>1, Invariance, PTL

\* flow_mismatch: never raised over a whole ledger, and raised where the running
\* balances of two neighbouring rows say that something between them was lost.
THEOREM MismatchesAreLostRows == Spec => []MismatchIsALostRow
<1>1. HistoryOK => MismatchIsALostRow
  BY MismatchOfHistory
<1> QED BY <1>1, Invariance, PTL

\* LedgerPoint.ExternalIn and ExternalOut: over a window of whole buckets they add up to
\* what SpendingSummary says of it, on an account covered throughout or not at all.
THEOREM FlowsAreTheSummaries == Spec => []FlowsTieOut
<1>1. HistoryOK => FlowsTieOut
  BY FlowsOfHistory
<1> QED BY <1>1, Invariance, PTL

\* listExternalOnly (read.go): pages put end to end are the external rows of the scan.
THEOREM PagesOfTheLedger == Spec => []PagesAddUp
<1>1. HistoryOK => PagesAddUp
  BY PagesOfHistory
<1> QED BY <1>1, Invariance, PTL

\* allotPoints (mcp/tools.go): three series share the whole budget, or one point each, and
\* none is cut below an equal share of it.
THEOREM BudgetsAreShared == Spec => []BudgetIsShared
<1>1. HistoryOK => BudgetIsShared
  BY BudgetOfHistory
<1> QED BY <1>1, Invariance, PTL

=============================================================================
