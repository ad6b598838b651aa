---------------------------- MODULE ListsProofs ----------------------------
(***************************************************************************)
(* Induction on the naturals and recursion along a list, in a form without *)
(* operator parameters, and what Sift keeps.                               *)
(***************************************************************************)
EXTENDS Lists, SequenceTheorems, WellFoundedInduction, TLAPS

\* A set of naturals has a least element.
LEMMA Least ==
  ASSUME NEW T \in SUBSET Nat, T # {}
  PROVE  \E x \in T : \A y \in T : x <= y
<1>1. IsWellFoundedOn(OpToRel(<, Nat), Nat)
  BY NatLessThanWellFounded
<1>2. PICK x \in T : \A y \in T : ~(<<y, x>> \in OpToRel(<, Nat))
  BY <1>1, WFMin
<1>3. \A y \in T : <<y, x>> \in OpToRel(<, Nat) <=> y < x
  BY DEF OpToRel
<1>4. \A y \in T : ~(y < x)
  BY <1>2, <1>3
<1>5. x \in Nat /\ \A y \in T : y \in Nat
  OBVIOUS
<1> QED
  BY <1>4, <1>5

\* Induction: a set with 0 and with the successor of each of its naturals
\* holds them all.
LEMMA Induction ==
  ASSUME NEW S, 0 \in S, \A n \in Nat : n \in S => n + 1 \in S
  PROVE  Nat \subseteq S
<1> DEFINE T == {n \in Nat : n \notin S}
<1>1. CASE T # {}
  <2>1. PICK x \in T : \A y \in T : x <= y
    BY <1>1, Least
  <2>2. x # 0 /\ x - 1 \in Nat
    BY <2>1
  <2>3. x - 1 \in S
    BY <2>1, <2>2
  <2>4. x \in S
    BY <2>2, <2>3
  <2> QED
    BY <2>1, <2>4
<1>2. CASE T = {}
  BY <1>2
<1> QED
  BY <1>1, <1>2

\* Induction up to n.
LEMMA InductionUpTo ==
  ASSUME NEW n \in Nat, NEW S, 0 \in S,
         \A i \in 1..n : i - 1 \in S => i \in S
  PROVE  0..n \subseteq S
<1> DEFINE T == {k \in Nat : k <= n => k \in S}
<1>1. 0 \in T
  OBVIOUS
<1>2. \A k \in Nat : k \in T => k + 1 \in T
  <2> TAKE k \in Nat
  <2> HAVE k \in T
  <2>1. ASSUME k + 1 <= n PROVE k + 1 \in S
    <3>1. k + 1 \in 1..n /\ (k + 1) - 1 = k /\ k \in S
      BY <2>1
    <3> QED
      BY <3>1
  <2> QED
    BY <2>1
<1>3. Nat \subseteq T
  <2> HIDE DEF T
  <2> QED
    BY <1>1, <1>2, Induction
<1> QED
  BY <1>3

\* f starts with base and goes on by one step for each place up to n.
Runs(f, n, T, base, step) ==
    f \in [0..n -> T] /\ f[0] = base /\ \A i \in 1..n : f[i] = step[i][f[i - 1]]

\* A first value and a step for each place define a function.
LEMMA Recursion ==
  ASSUME NEW n \in Nat, NEW T, NEW base \in T, NEW step \in [1..n -> [T -> T]]
  PROVE  \E f : Runs(f, n, T, base, step)
<1> DEFINE Upto(k) == \E f \in [0..k -> T] :
                         f[0] = base /\ \A i \in 1..k : f[i] = step[i][f[i - 1]]
           S == {k \in 0..n : Upto(k)}
<1>1. 0 \in S
  <2> DEFINE f == [k \in 0..0 |-> base]
  <2>1. f \in [0..0 -> T] /\ f[0] = base /\ \A i \in 1..0 : FALSE
    OBVIOUS
  <2>2. Upto(0)
    <3> HIDE DEF f
    <3> QED
      BY <2>1
  <2> QED
    BY <2>2
<1>2. \A i \in 1..n : i - 1 \in S => i \in S
  <2> TAKE i \in 1..n
  <2> HAVE i - 1 \in S
  <2>1. PICK f \in [0..(i - 1) -> T] :
               f[0] = base /\ \A j \in 1..(i - 1) : f[j] = step[j][f[j - 1]]
    OBVIOUS
  <2> DEFINE g == [j \in 0..i |-> IF j = i THEN step[i][f[i - 1]] ELSE f[j]]
  <2>2. step[i] \in [T -> T] /\ f[i - 1] \in T
    OBVIOUS
  <2>3. g \in [0..i -> T]
    BY <2>2
  <2>4. g[0] = base
    BY <2>1
  <2>5. ASSUME NEW j \in 1..i PROVE g[j] = step[j][g[j - 1]]
    <3>1. CASE j = i
      BY <3>1
    <3>2. CASE j # i
      <4>1. j \in 1..(i - 1) /\ j \in 0..i /\ j - 1 \in 0..i /\ j - 1 # i
        BY <3>2
      <4>2. g[j] = f[j] /\ g[j - 1] = f[j - 1]
        BY <4>1, <3>2
      <4> QED
        BY <4>1, <4>2, <2>1
    <3> QED
      BY <3>1, <3>2
  <2>6. Upto(i)
    <3> HIDE DEF g
    <3> QED
      BY <2>3, <2>4, <2>5
  <2> HIDE DEF Upto
  <2> QED
    BY <2>6
<1>3. 0..n \subseteq S
  <2> HIDE DEF S
  <2> QED
    BY <1>1, <1>2, InductionUpTo
<1>4. Upto(n)
  BY <1>3
<1> QED
  BY <1>4 DEF Runs

\* f is a function on the places up to n and before the first.
Spans(f, n) == f = [i \in 0..n |-> f[i]]

\* A function that takes the steps, as long as it stays in T, does stay in T.
LEMMA RunsAlong ==
  ASSUME NEW n \in Nat, NEW T, NEW base \in T, NEW step \in [1..n -> [T -> T]],
         NEW f, Spans(f, n), f[0] = base,
         \A i \in 1..n : f[i - 1] \in T => f[i] = step[i][f[i - 1]]
  PROVE  Runs(f, n, T, base, step)
<1> DEFINE S == {i \in 0..n : f[i] \in T}
<1>1. 0 \in S
  OBVIOUS
<1>2. ASSUME NEW i \in 1..n, i - 1 \in S PROVE i \in S
  <2>1. f[i - 1] \in T /\ i \in 0..n /\ f[i] = step[i][f[i - 1]]
    BY <1>2
  <2>2. step[i] \in [T -> T]
    OBVIOUS
  <2> QED
    BY <2>1, <2>2
<1>3. 0..n \subseteq S
  <2> HIDE DEF S
  <2> QED
    BY <1>1, <1>2, InductionUpTo
<1>4. f \in [0..n -> T]
  BY <1>3 DEF Spans
<1>5. \A i \in 1..n : i - 1 \in 0..n
  OBVIOUS
<1> QED
  BY <1>3, <1>4, <1>5 DEF Runs

-----------------------------------------------------------------------------
(* Sift *)

\* What Sift has kept of the first places of s.
SiftStep(s, S, t, i) == IF s[i] \in S THEN Append(t, s[i]) ELSE t
Sifting(s, S, kept) ==
    kept = [i \in 0..Len(s) |-> IF i = 0 THEN <<>> ELSE SiftStep(s, S, kept[i - 1], i)]

\* A step of the sieve keeps a sequence a sequence.
LEMMA SiftStepType ==
  ASSUME NEW D, NEW s \in Seq(D), NEW S, NEW t \in Seq(D), NEW i \in 1..Len(s)
  PROVE  SiftStep(s, S, t, i) \in Seq(D)
  BY DEF SiftStep

\* kept is what Sift has kept of D at every place of s.
Keeps(kept, s, S, D) ==
    /\ kept \in [0..Len(s) -> Seq(D)]
    /\ Sift(s, S) = kept[Len(s)]
    /\ kept[0] = <<>>
    /\ \A i \in 1..Len(s) : kept[i] = SiftStep(s, S, kept[i - 1], i)

\* Sift is the last value of the recursion its definition describes.
LEMMA SiftDef ==
  ASSUME NEW D, NEW s \in Seq(D), NEW S
  PROVE  \E kept : Keeps(kept, s, S, D)
<1> DEFINE n == Len(s)
           T == Seq(D)
           step == [i \in 1..n |-> [t \in T |-> SiftStep(s, S, t, i)]]
           none == <<>>
           kept == CHOOSE F : Sifting(s, S, F)
<1>1. n \in Nat /\ none \in T /\ step \in [1..n -> [T -> T]]
  BY SiftStepType
<1>2. PICK f : Runs(f, n, T, none, step)
  <2> HIDE DEF step, n, T, none
  <2> QED
    BY <1>1, Recursion
<1>3. ASSUME NEW i \in 1..n PROVE f[i] = SiftStep(s, S, f[i - 1], i)
  <2>1. f[i - 1] \in T /\ f[i] = step[i][f[i - 1]]
    <3> HIDE DEF T, step, n, none
    <3>1. i - 1 \in 0..n
      BY <1>1
    <3> QED
      BY <3>1, <1>2 DEF Runs
  <2>2. step[i] = [t \in T |-> SiftStep(s, S, t, i)]
    OBVIOUS
  <2> QED
    BY <2>1, <2>2
<1>4. Sifting(s, S, f)
  <2> DEFINE g == [i \in 0..n |-> IF i = 0 THEN <<>> ELSE SiftStep(s, S, f[i - 1], i)]
  <2>1. ASSUME NEW i \in 0..n PROVE f[i] = g[i]
    <3>1. g[i] = IF i = 0 THEN <<>> ELSE SiftStep(s, S, f[i - 1], i)
      OBVIOUS
    <3>2. i # 0 => i \in 1..n
      BY <1>1
    <3> HIDE DEF g, step, T, n
    <3> QED
      BY <3>1, <3>2, <1>2, <1>3 DEF Runs
  <2>2. f = g
    <3>1. DOMAIN g = 0..n /\ g = [i \in 0..n |-> g[i]]
      OBVIOUS
    <3>2. DOMAIN f = 0..n /\ f = [i \in 0..n |-> f[i]]
      BY <1>2 DEF Runs
    <3> HIDE DEF g
    <3> QED
      BY <2>1, <3>1, <3>2
  <2> QED
    BY <2>2 DEF Sifting
<1>5. Sifting(s, S, kept)
  BY <1>4
<1>6. Sift(s, S) = kept[n]
  BY DEF Sift, Sifting, SiftStep
<1> HIDE DEF kept
<1>7. kept[0] = <<>> /\ \A i \in 1..n : kept[i] = SiftStep(s, S, kept[i - 1], i)
  <2>1. \A i \in 0..n : kept[i] = IF i = 0 THEN <<>> ELSE SiftStep(s, S, kept[i - 1], i)
    BY <1>5 DEF Sifting
  <2> HIDE DEF n
  <2>2. 0 \in 0..n /\ \A i \in 1..n : i \in 0..n /\ i # 0
    BY <1>1
  <2> QED
    BY <2>1, <2>2
<1>8. kept \in [0..n -> T]
  <2> DEFINE G == {i \in 0..n : kept[i] \in T}
  <2>1. 0 \in G
    <3> HIDE DEF T, n
    <3> QED
      BY <1>1, <1>7
  <2>2. ASSUME NEW i \in 1..n, i - 1 \in G PROVE i \in G
    <3>1. i \in 0..n /\ kept[i - 1] \in T /\ kept[i] = SiftStep(s, S, kept[i - 1], i)
      BY <1>1, <1>7, <2>2
    <3>2. kept[i] \in T
      BY <3>1, SiftStepType
    <3> QED
      BY <3>1, <3>2
  <2>3. 0..n \subseteq G
    <3> HIDE DEF G, n
    <3> QED
      BY <2>1, <2>2, <1>1, InductionUpTo
  <2>4. kept = [i \in 0..n |-> kept[i]]
    BY <1>5 DEF Sifting
  <2> QED
    BY <2>3, <2>4
<1> QED
  BY <1>6, <1>7, <1>8 DEF Keeps

Items(s) == {s[i] : i \in 1..Len(s)}
Distinct(s) == \A i, j \in 1..Len(s) : s[i] = s[j] => i = j

\* A list whose elements are all in E is a list over E.
LEMMA ItemsType ==
  ASSUME NEW D, NEW s \in Seq(D), NEW E, Items(s) \subseteq E
  PROVE  s \in Seq(E)
<1>1. \A i \in 1..Len(s) : s[i] \in E
  BY DEF Items
<1> QED
  BY <1>1

\* A list of naturals has a greatest element.
LEMMA Greatest ==
  ASSUME NEW s \in Seq(Nat), s # <<>>
  PROVE  \E y \in Items(s) : \A n \in Items(s) : y >= n
<1> DEFINE n == Len(s)
           Top(i) == \E j \in 1..i : \A k \in 1..i : s[j] >= s[k]
           S == {i \in 0..n : i # 0 => Top(i)}
<1>1. n \in Nat /\ n # 0 /\ \A i \in 1..n : s[i] \in Nat
  OBVIOUS
<1>2. 0 \in S
  BY <1>1
<1>3. ASSUME NEW i \in 1..n, i - 1 \in S PROVE i \in S
  <2>1. 1..i = 1..(i - 1) \cup {i} /\ i \in 1..i /\ i \in 0..n
    BY <1>1
  <2>2. CASE i = 1
    <3>1. \A k \in 1..i : s[i] >= s[k]
      BY <1>1, <2>2
    <3> QED
      BY <2>1, <3>1
  <2>3. CASE i # 1
    <3>1. PICK j \in 1..(i - 1) : \A k \in 1..(i - 1) : s[j] >= s[k]
      BY <1>1, <1>3, <2>3
    <3>2. s[j] \in Nat /\ s[i] \in Nat /\ \A k \in 1..(i - 1) : s[k] \in Nat
      BY <1>1
    <3>3. CASE s[j] >= s[i]
      BY <2>1, <3>1, <3>3
    <3>4. CASE ~(s[j] >= s[i])
      <4>1. \A k \in 1..i : s[i] >= s[k]
        BY <2>1, <3>1, <3>2, <3>4
      <4> QED
        BY <2>1, <4>1
    <3> QED
      BY <3>3, <3>4
  <2> QED
    BY <2>2, <2>3
<1>4. 0..n \subseteq S
  <2> HIDE DEF S, n
  <2> QED
    BY <1>1, <1>2, <1>3, InductionUpTo
<1>5. Top(n)
  <2>1. n \in S /\ n # 0
    <3> HIDE DEF S, n
    <3>1. n \in 0..n
      BY <1>1
    <3> QED
      BY <1>1, <1>4, <3>1
  <2> HIDE DEF Top, n
  <2> QED
    BY <2>1
<1> QED
  BY <1>5 DEF Items

\* What a longer sequence holds.
LEMMA AppendItems ==
  ASSUME NEW D, NEW t \in Seq(D), NEW x \in D
  PROVE  Append(t, x) \in Seq(D) /\ Items(Append(t, x)) = Items(t) \cup {x}
<1>1. Len(Append(t, x)) = Len(t) + 1 /\ Len(t) \in Nat /\ Append(t, x) \in Seq(D)
  OBVIOUS
<1>2. /\ \A i \in 1..Len(t) : Append(t, x)[i] = t[i]
      /\ Append(t, x)[Len(t) + 1] = x
  OBVIOUS
<1>3. 1..Len(Append(t, x)) = 1..Len(t) \cup {Len(t) + 1}
  BY <1>1
<1> QED
  BY <1>1, <1>2, <1>3 DEF Items

\* A new item keeps the items distinct.
LEMMA AppendDistinct ==
  ASSUME NEW D, NEW t \in Seq(D), NEW x \in D, x \notin Items(t), Distinct(t)
  PROVE  Distinct(Append(t, x))
<1> SUFFICES ASSUME NEW i \in 1..Len(Append(t, x)), NEW j \in 1..Len(Append(t, x)),
                    Append(t, x)[i] = Append(t, x)[j]
             PROVE  i = j
  BY DEF Distinct
<1>1. /\ Len(Append(t, x)) = Len(t) + 1 /\ Len(t) \in Nat
      /\ \A k \in 1..Len(t) : Append(t, x)[k] = t[k] /\ t[k] # x
      /\ Append(t, x)[Len(t) + 1] = x
  BY DEF Items
<1>2. i \in 1..Len(t) \/ i = Len(t) + 1
  BY <1>1
<1>3. j \in 1..Len(t) \/ j = Len(t) + 1
  BY <1>1
<1> QED
  BY <1>1, <1>2, <1>3 DEF Distinct

\* What Sift keeps are the elements of the list that are in S.
LEMMA SiftItems ==
  ASSUME NEW D, NEW s \in Seq(D), NEW S
  PROVE  Sift(s, S) \in Seq(D) /\ Items(Sift(s, S)) = Items(s) \cap S
<1> DEFINE n == Len(s)
<1>0. PICK kept : Keeps(kept, s, S, D)
  BY SiftDef
<1>1. /\ kept \in [0..n -> Seq(D)] /\ Sift(s, S) = kept[n] /\ kept[0] = <<>>
      /\ \A i \in 1..n : kept[i] = SiftStep(s, S, kept[i - 1], i)
  BY <1>0 DEF Keeps
<1> DEFINE G == {i \in 0..n : Items(kept[i]) = {s[j] : j \in 1..i} \cap S}
<1>2. n \in Nat /\ \A i \in 1..n : s[i] \in D
  OBVIOUS
<1>3. 0 \in G
  BY <1>1, <1>2 DEF Items
<1>4. ASSUME NEW i \in 1..n, i - 1 \in G PROVE i \in G
  <2>1. kept[i - 1] \in Seq(D) /\ kept[i] = SiftStep(s, S, kept[i - 1], i) /\ s[i] \in D
    BY <1>1, <1>2
  <2>2. Items(kept[i]) = IF s[i] \in S THEN Items(kept[i - 1]) \cup {s[i]}
                            ELSE Items(kept[i - 1])
    <3>1. Items(Append(kept[i - 1], s[i])) = Items(kept[i - 1]) \cup {s[i]}
      BY <2>1, AppendItems
    <3> QED
      BY <2>1, <3>1 DEF SiftStep
  <2>3. 1..i = 1..(i - 1) \cup {i}
    BY <1>2
  <2>4. {s[j] : j \in 1..i} = {s[j] : j \in 1..(i - 1)} \cup {s[i]}
    BY <2>3
  <2>5. Items(kept[i - 1]) = {s[j] : j \in 1..(i - 1)} \cap S
    BY <1>4
  <2>6. i \in 0..n
    BY <1>2
  <2> QED
    BY <2>2, <2>4, <2>5, <2>6
<1>5. 0..n \subseteq G
  <2> HIDE DEF G, n
  <2> QED
    BY <1>2, <1>3, <1>4, InductionUpTo
<1>6. n \in 0..n
  BY <1>2
<1> QED
  BY <1>1, <1>5, <1>6 DEF Items

\* Sift repeats nothing that the list does not repeat.
LEMMA SiftDistinct ==
  ASSUME NEW D, NEW s \in Seq(D), NEW S, Distinct(s)
  PROVE  Distinct(Sift(s, S))
<1> DEFINE n == Len(s)
<1>0. PICK kept : Keeps(kept, s, S, D)
  BY SiftDef
<1>1. /\ kept \in [0..n -> Seq(D)] /\ Sift(s, S) = kept[n] /\ kept[0] = <<>>
      /\ \A i \in 1..n : kept[i] = SiftStep(s, S, kept[i - 1], i)
  BY <1>0 DEF Keeps
<1> DEFINE Early(i) == Items(kept[i]) \subseteq {s[j] : j \in 1..i}
           G == {i \in 0..n : Early(i) /\ Distinct(kept[i])}
<1>2. n \in Nat /\ \A i \in 1..n : s[i] \in D
  OBVIOUS
<1>3. 0 \in G
  BY <1>1, <1>2 DEF Items, Distinct
<1>4. ASSUME NEW i \in 1..n, i - 1 \in G PROVE i \in G
  <2>1. /\ kept[i - 1] \in Seq(D) /\ kept[i] = SiftStep(s, S, kept[i - 1], i) /\ s[i] \in D
        /\ Early(i - 1) /\ Distinct(kept[i - 1])
    BY <1>1, <1>2, <1>4
  <2>2. 1..i = 1..(i - 1) \cup {i} /\ i \in 0..n
    BY <1>2
  <2>3. {s[j] : j \in 1..i} = {s[j] : j \in 1..(i - 1)} \cup {s[i]}
    BY <2>2
  <2>4. CASE s[i] \notin S
    BY <2>1, <2>2, <2>3, <2>4 DEF SiftStep
  <2>5. CASE s[i] \in S
    <3> DEFINE t == kept[i - 1]
    <3>1. kept[i] = Append(t, s[i])
      BY <2>1, <2>5 DEF SiftStep
    <3>2. Early(i)
      BY <2>1, <2>3, <3>1, AppendItems
    <3>3. s[i] \notin Items(t)
      <4>1. \A j \in 1..(i - 1) : s[j] # s[i]
        BY <1>2 DEF Distinct
      <4> QED
        BY <2>1, <4>1
    <3>4. Distinct(Append(t, s[i]))
      BY <2>1, <3>3, AppendDistinct
    <3> QED
      BY <2>2, <3>1, <3>2, <3>4
  <2> QED
    BY <2>4, <2>5
<1>5. 0..n \subseteq G
  <2> HIDE DEF G, n
  <2> QED
    BY <1>2, <1>3, <1>4, InductionUpTo
<1>6. n \in 0..n
  BY <1>2
<1> QED
  BY <1>1, <1>5, <1>6
=============================================================================
