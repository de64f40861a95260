---------------------------- MODULE SeriesProofs ----------------------------
(***************************************************************************)
(* Facts about the operators the detectors are built from, for sequences   *)
(* of any length: sums, the entries of a sequence that are in a set, the   *)
(* newest samples, and the bounds that relate a value of a sequence to the *)
(* mean and the spread of all of them.                                     *)
(*                                                                         *)
(* Induction is stated over sets here: a set of numbers that has 0 and is  *)
(* closed under adding 1 has all numbers, and a set of sequences that has  *)
(* the empty one and is closed under Append has all sequences.             *)
(***************************************************************************)
EXTENDS Detectors, TLAPS, SequenceTheorems, FiniteSetTheorems

\* Induction on a set of numbers.
LEMMA NatSetInduction ==
  ASSUME NEW P, 0 \in P, \A i \in Nat : i \in P => i + 1 \in P
  PROVE  \A i \in Nat : i \in P
  <1> DEFINE T == Nat \ P
  <1>1. CASE T # {}
    <2>1. PICK x \in T : \A y \in T : ~(<<y, x>> \in OpToRel(<, Nat))
      <3>1. T \subseteq Nat
        OBVIOUS
      <3> HIDE DEF T
      <3> QED BY <1>1, <3>1, NatLessThanWellFounded, WFMin
    <2>2. x \in Nat /\ x # 0 /\ x - 1 \in Nat
      OBVIOUS
    <2>3. <<x - 1, x>> \in OpToRel(<, Nat)
      <3> DEFINE p == <<x - 1, x>>
      <3>1. p \in Nat \X Nat /\ p[1] < p[2]
        BY <2>2
      <3> HIDE DEF p
      <3>2. p \in OpToRel(<, Nat)
        BY <3>1 DEF OpToRel
      <3> QED BY <3>2 DEF p
    <2>4. x - 1 \in P
      BY <2>1, <2>2, <2>3
    <2> QED BY <2>2, <2>4
  <1>2. CASE T = {}
    BY <1>2
  <1> QED BY <1>1, <1>2

\* Induction on a set of sequences.
LEMMA SeqSetInduction ==
  ASSUME NEW R, NEW P, <<>> \in P,
         \A s \in Seq(R), e \in R : s \in P => Append(s, e) \in P
  PROVE  \A s \in Seq(R) : s \in P
  <1> DEFINE L == {n \in Nat : \A s \in Seq(R) : Len(s) = n => s \in P}
  <1>1. 0 \in L
    OBVIOUS
  <1>2. ASSUME NEW n \in Nat, n \in L PROVE n + 1 \in L
    <2> SUFFICES ASSUME NEW s \in Seq(R), Len(s) = n + 1 PROVE s \in P
      OBVIOUS
    <2>1. s # <<>>
      BY EmptySeq
    <2>2. PICK t \in Seq(R), e \in R : s = Append(t, e)
      BY <2>1, SequenceEmptyOrAppend
    <2>3. Len(t) = n
      BY <2>2, AppendProperties, LenProperties
    <2> QED BY <1>2, <2>2, <2>3
  <1>3. \A n \in Nat : n \in L
    <2> HIDE DEF L
    <2> QED BY <1>1, <1>2, NatSetInduction
  <1> QED BY <1>3, LenProperties

-----------------------------------------------------------------------------
\* A function that starts with x0 and goes from one value to the next.
Follows(f, x0, n, step) ==
    f[0] = x0 /\ \A i \in 1..n : f[i] = step[i][f[i - 1]]

\* There is one for every start and every step.
LEMMA Recursion ==
  ASSUME NEW X, NEW x0 \in X, NEW n \in Nat, NEW step \in [1..n -> [X -> X]]
  PROVE  \E f \in [0..n -> X] : Follows(f, x0, n, step)
  <1> DEFINE P == {m \in Nat : m <= n => \E f \in [0..m -> X] : Follows(f, x0, m, step)}
  <1>1. 0 \in P
    <2>1. [i \in 0..0 |-> x0] \in [0..0 -> X]
      OBVIOUS
    <2>2. Follows([i \in 0..0 |-> x0], x0, 0, step)
      BY DEF Follows
    <2> QED BY <2>1, <2>2
  <1>2. ASSUME NEW m \in Nat, m \in P PROVE m + 1 \in P
    <2> SUFFICES ASSUME m + 1 <= n
                 PROVE \E f \in [0..(m + 1) -> X] : Follows(f, x0, m + 1, step)
      OBVIOUS
    <2>1. PICK f \in [0..m -> X] : Follows(f, x0, m, step)
      BY <1>2
    <2> DEFINE g == [i \in 0..(m + 1) |-> IF i = m + 1 THEN step[m + 1][f[m]] ELSE f[i]]
    <2>2. step[m + 1][f[m]] \in X
      BY <2>1
    <2>3. g \in [0..(m + 1) -> X] /\ g[0] = x0
      BY <2>1, <2>2 DEF Follows
    <2>4. ASSUME NEW i \in 1..(m + 1) PROVE g[i] = step[i][g[i - 1]]
      <3>1. CASE i = m + 1
        BY <3>1
      <3>2. CASE i \in 1..m
        <4>1. g[i] = f[i] /\ g[i - 1] = f[i - 1]
          BY <3>2
        <4> QED BY <2>1, <3>2, <4>1 DEF Follows
      <3> QED BY <3>1, <3>2
    <2>5. Follows(g, x0, m + 1, step)
      BY <2>3, <2>4 DEF Follows
    <2> QED BY <2>3, <2>5
  <1>3. n \in P
    <2> HIDE DEF P
    <2> QED BY <1>1, <1>2, NatSetInduction
  <1> QED BY <1>3

\* The partial sums of a sequence.
SumEquation(f, s) == f = [i \in 0..Len(s) |-> IF i = 0 THEN 0 ELSE f[i - 1] + s[i]]
PartialSums(s) == CHOOSE f : SumEquation(f, s)

LEMMA SumSolved ==
  ASSUME NEW s \in Seq(Int)
  PROVE  /\ PartialSums(s)[0] = 0
         /\ \A i \in 1..Len(s) : PartialSums(s)[i] = PartialSums(s)[i - 1] + s[i]
         /\ \A i \in 0..Len(s) : PartialSums(s)[i] \in Int
         /\ SumSeq(s) = PartialSums(s)[Len(s)]
  <1> DEFINE n == Len(s)
             sum == PartialSums(s)
  <1>1. n \in Nat /\ \A i \in 1..n : s[i] \in Int
    OBVIOUS
  <1>2. \E f : SumEquation(f, s)
    <2> DEFINE step == [i \in 1..n |-> [x \in Int |-> x + s[i]]]
    <2>1. step \in [1..n -> [Int -> Int]] /\ 0 \in Int
      BY <1>1
    <2>2. PICK f \in [0..n -> Int] : Follows(f, 0, n, step)
      <3> HIDE DEF n, step
      <3> QED BY <1>1, <2>1, Recursion, Zenon
    <2>3. ASSUME NEW i \in 1..n PROVE f[i] = f[i - 1] + s[i]
      <3>1. f[i] = step[i][f[i - 1]] /\ f[i - 1] \in Int
        <4>1. i - 1 \in 0..n
          BY <1>1
        <4> HIDE DEF step, n
        <4> QED BY <2>2, <4>1 DEF Follows
      <3>2. step[i] = [x \in Int |-> x + s[i]]
        BY <1>1
      <3> QED BY <3>1, <3>2
    <2> DEFINE g == [i \in 0..n |-> IF i = 0 THEN 0 ELSE f[i - 1] + s[i]]
    <2>4. \A i \in 0..n : g[i] = f[i]
      BY <1>1, <2>2, <2>3 DEF Follows
    <2>5. \A i \in 0..n : i # 0 => i - 1 \in 0..n
      BY <1>1
    <2>6. g = [i \in 0..n |-> IF i = 0 THEN 0 ELSE g[i - 1] + s[i]]
      BY <2>4, <2>5
    <2> QED BY <2>6 DEF SumEquation
  <1>3. SumEquation(sum, s)
    BY <1>2 DEF PartialSums
  <1>4. SumSeq(s) = sum[n]
    BY DEF SumSeq, PartialSums, SumEquation
  <1> HIDE DEF sum
  <1>5. sum[0] = 0 /\ \A i \in 1..n : sum[i] = sum[i - 1] + s[i]
    BY <1>1, <1>3 DEF SumEquation
  <1> DEFINE P == {i \in Nat : i <= n => sum[i] \in Int}
  <1>6. \A i \in Nat : i \in P
    <2>1. 0 \in P
      BY <1>5
    <2>2. ASSUME NEW i \in Nat, i \in P PROVE i + 1 \in P
      <3>1. i + 1 <= n => i + 1 \in 1..n /\ (i + 1) - 1 = i
        BY <1>1
      <3>2. i + 1 <= n => sum[i + 1] = sum[i] + s[i + 1] /\ sum[i] \in Int /\ s[i + 1] \in Int
        BY <1>1, <1>5, <2>2, <3>1
      <3> QED BY <3>2
    <2> HIDE DEF P
    <2> QED BY <2>1, <2>2, NatSetInduction
  <1> QED BY <1>1, <1>4, <1>5, <1>6 DEF sum

\* A sum grows by what is appended.
LEMMA SumAppend ==
  /\ SumSeq(<<>>) = 0
  /\ \A s \in Seq(Int), v \in Int :
        SumSeq(s) \in Int /\ SumSeq(Append(s, v)) = SumSeq(s) + v
  <1>1. SumSeq(<<>>) = 0
    <2>1. <<>> \in Seq(Int) /\ Len(<<>>) = 0
      OBVIOUS
    <2> QED BY <2>1, SumSolved
  <1>2. ASSUME NEW s \in Seq(Int), NEW v \in Int
        PROVE  SumSeq(s) \in Int /\ SumSeq(Append(s, v)) = SumSeq(s) + v
    <2> DEFINE n == Len(s)
               t == Append(s, v)
               f == PartialSums(s)
               g == PartialSums(t)
               P == {i \in Nat : i <= n => g[i] = f[i]}
    <2>1. /\ n \in Nat /\ t \in Seq(Int) /\ Len(t) = n + 1
          /\ t[n + 1] = v /\ \A i \in 1..n : t[i] = s[i]
      OBVIOUS
    <2> HIDE DEF t
    <2>2. /\ f[0] = 0 /\ SumSeq(s) = f[n]
          /\ \A i \in 1..n : f[i] = f[i - 1] + s[i]
          /\ \A i \in 0..n : f[i] \in Int
      BY SumSolved
    <2>3. /\ g[0] = 0 /\ SumSeq(t) = g[n + 1]
          /\ \A i \in 1..(n + 1) : g[i] = g[i - 1] + t[i]
      BY <2>1, SumSolved
    <2> HIDE DEF n, f, g
    <2>4. 0 \in P
      BY <2>2, <2>3
    <2>5. ASSUME NEW i \in Nat, i \in P PROVE i + 1 \in P
      <3>1. i + 1 <= n => i + 1 \in 1..n /\ i + 1 \in 1..(n + 1) /\ (i + 1) - 1 = i
        BY <2>1
      <3>2. i + 1 <= n => /\ g[i + 1] = g[i] + t[i + 1] /\ f[i + 1] = f[i] + s[i + 1]
                          /\ t[i + 1] = s[i + 1] /\ g[i] = f[i]
        BY <2>1, <2>2, <2>3, <2>5, <3>1
      <3> QED BY <3>2
    <2>6. n \in P
      <3> HIDE DEF P
      <3> QED BY <2>1, <2>4, <2>5, NatSetInduction
    <2>7. g[n + 1] = g[n] + v
      <3>1. n + 1 \in 1..(n + 1) /\ (n + 1) - 1 = n
        BY <2>1
      <3> QED BY <2>1, <2>3, <3>1
    <2> QED BY <2>1, <2>2, <2>3, <2>6, <2>7 DEF t
  <1> QED BY <1>1, <1>2

\* The entries of s that are in S, after each of its entries.
Add(q, e, S) == IF e \in S THEN Append(q, e) ELSE q
KeptEquation(f, s, S) ==
    f = [i \in 0..Len(s) |-> IF i = 0 THEN <<>> ELSE Add(f[i - 1], s[i], S)]
Kept(s, S) == CHOOSE f : KeptEquation(f, s, S)

LEMMA AddType ==
  ASSUME NEW R, NEW q \in Seq(R), NEW e \in R, NEW S
  PROVE  Add(q, e, S) \in Seq(R)
  BY DEF Add

LEMMA ThoseIsKept == \A s, S : Those(s, S) = Kept(s, S)[Len(s)]
  BY DEF Those, Kept, KeptEquation, Add

LEMMA KeptSolved ==
  ASSUME NEW R, NEW s \in Seq(R), NEW S, NEW none, none = <<>>
  PROVE  /\ Kept(s, S)[0] = none
         /\ \A i \in 1..Len(s) : Kept(s, S)[i] = Add(Kept(s, S)[i - 1], s[i], S)
         /\ \A i \in 0..Len(s) : Kept(s, S)[i] \in Seq(R)
         /\ Those(s, S) = Kept(s, S)[Len(s)]
  <1> DEFINE n == Len(s)
             kept == Kept(s, S)
  <1>1. n \in Nat /\ \A i \in 1..n : s[i] \in R
    OBVIOUS
  <1>0. none \in Seq(R)
    OBVIOUS
  <1>2. \E f : KeptEquation(f, s, S)
    <2> DEFINE step == [i \in 1..n |-> [x \in Seq(R) |-> Add(x, s[i], S)]]
    <2>1. step \in [1..n -> [Seq(R) -> Seq(R)]]
      BY <1>1, AddType
    <2>2. PICK f \in [0..n -> Seq(R)] : Follows(f, none, n, step)
      <3> HIDE DEF n, step
      <3> QED BY <1>0, <1>1, <2>1, Recursion, Zenon
    <2>3. ASSUME NEW i \in 1..n PROVE f[i] = Add(f[i - 1], s[i], S)
      <3>1. f[i] = step[i][f[i - 1]] /\ f[i - 1] \in Seq(R)
        <4>1. i - 1 \in 0..n
          BY <1>1
        <4> HIDE DEF step, n
        <4> QED BY <2>2, <4>1 DEF Follows
      <3>2. step[i] = [x \in Seq(R) |-> Add(x, s[i], S)]
        BY <1>1
      <3> HIDE DEF step
      <3> QED BY <3>1, <3>2
    <2> DEFINE g == [i \in 0..n |-> IF i = 0 THEN none ELSE Add(f[i - 1], s[i], S)]
    <2>4. \A i \in 0..n : g[i] = f[i]
      <3> HIDE DEF n
      <3>1. f[0] = none
        BY <2>2 DEF Follows
      <3> QED BY <1>1, <2>3, <3>1
    <2>5. \A i \in 0..n : i # 0 => i - 1 \in 0..n
      BY <1>1
    <2>6. g = [i \in 0..n |-> IF i = 0 THEN none ELSE Add(g[i - 1], s[i], S)]
      BY <2>4, <2>5
    <2> QED BY <2>6 DEF KeptEquation
  <1>3. KeptEquation(kept, s, S)
    BY <1>2 DEF Kept
  <1> HIDE DEF kept
  <1>5. kept[0] = none /\ \A i \in 1..n : kept[i] = Add(kept[i - 1], s[i], S)
    <2>1. kept = [i \in 0..n |-> IF i = 0 THEN none ELSE Add(kept[i - 1], s[i], S)]
      BY <1>3 DEF KeptEquation
    <2> HIDE DEF n
    <2> QED BY <1>1, <2>1
  <1> DEFINE P == {i \in Nat : i <= n => kept[i] \in Seq(R)}
  <1>6. \A i \in Nat : i \in P
    <2> HIDE DEF n
    <2>1. 0 \in P
      BY <1>0, <1>5
    <2>2. ASSUME NEW i \in Nat, i \in P PROVE i + 1 \in P
      <3>1. i + 1 <= n => i + 1 \in 1..n /\ (i + 1) - 1 = i
        BY <1>1
      <3>2. i + 1 <= n => kept[i + 1] = Add(kept[i], s[i + 1], S) /\ kept[i] \in Seq(R) /\ s[i + 1] \in R
        BY <1>1, <1>5, <2>2, <3>1
      <3> QED BY <3>2, AddType
    <2> HIDE DEF P
    <2> QED BY <2>1, <2>2, NatSetInduction
  <1>7. Those(s, S) = kept[n]
    BY ThoseIsKept DEF kept
  <1> HIDE DEF n
  <1>8. \A i \in 0..n : kept[i] \in Seq(R)
    BY <1>1, <1>6
  <1> QED BY <1>5, <1>7, <1>8 DEF kept, n

\* The entries in a set, when one more is appended.
LEMMA ThoseAppend ==
  ASSUME NEW R, NEW S
  PROVE  /\ Those(<<>>, S) = <<>>
         /\ \A s \in Seq(R), e \in R :
               Those(s, S) \in Seq(R) /\ Those(Append(s, e), S) = Add(Those(s, S), e, S)
  <1> DEFINE none == <<>>
  <1>1. Those(none, S) = none
    <2>1. none \in Seq(R) /\ Len(none) = 0
      OBVIOUS
    <2>2. Those(none, S) = Kept(none, S)[Len(none)] /\ Kept(none, S)[0] = none
      <3>1. Those(none, S) = Kept(none, S)[Len(none)]
        BY ThoseIsKept, Zenon
      <3>2. Kept(none, S)[0] = none
        <4> HIDE DEF none
        <4> QED BY <2>1, KeptSolved DEF none
      <3> QED BY <3>1, <3>2
    <2> HIDE DEF none
    <2> QED BY <2>1, <2>2
  <1>2. ASSUME NEW s \in Seq(R), NEW e \in R
        PROVE  Those(s, S) \in Seq(R) /\ Those(Append(s, e), S) = Add(Those(s, S), e, S)
    <2> DEFINE n == Len(s)
               t == Append(s, e)
               f == Kept(s, S)
               g == Kept(t, S)
               P == {i \in Nat : i <= n => g[i] = f[i]}
    <2>1. /\ n \in Nat /\ t \in Seq(R) /\ Len(t) = n + 1
          /\ t[n + 1] = e /\ \A i \in 1..n : t[i] = s[i]
      OBVIOUS
    <2> HIDE DEF t
    <2>2. /\ f[0] = none /\ Those(s, S) = f[n]
          /\ \A i \in 1..n : f[i] = Add(f[i - 1], s[i], S)
          /\ \A i \in 0..n : f[i] \in Seq(R)
      BY KeptSolved
    <2>3. /\ g[0] = none /\ Those(t, S) = g[n + 1]
          /\ \A i \in 1..(n + 1) : g[i] = Add(g[i - 1], t[i], S)
      BY <2>1, KeptSolved
    <2> HIDE DEF n, f, g, none
    <2>4. 0 \in P
      BY <2>2, <2>3
    <2>5. ASSUME NEW i \in Nat, i \in P PROVE i + 1 \in P
      <3>1. i + 1 <= n => i + 1 \in 1..n /\ i + 1 \in 1..(n + 1) /\ (i + 1) - 1 = i
        BY <2>1
      <3>2. i + 1 <= n => /\ g[i + 1] = Add(g[i], t[i + 1], S) /\ f[i + 1] = Add(f[i], s[i + 1], S)
                          /\ t[i + 1] = s[i + 1] /\ g[i] = f[i]
        BY <2>1, <2>2, <2>3, <2>5, <3>1
      <3> QED BY <3>2
    <2>6. n \in P
      <3> HIDE DEF P
      <3> QED BY <2>1, <2>4, <2>5, NatSetInduction
    <2>7. g[n + 1] = Add(g[n], e, S)
      <3>1. n + 1 \in 1..(n + 1) /\ (n + 1) - 1 = n
        BY <2>1
      <3> QED BY <2>1, <2>3, <3>1
    <2>8. g[n] = f[n] /\ f[n] \in Seq(R)
      BY <2>1, <2>2, <2>6
    <2> QED BY <2>2, <2>3, <2>7, <2>8 DEF t
  <1> QED BY <1>1, <1>2

-----------------------------------------------------------------------------
\* The entries of a sequence, when one more is appended.
LEMMA ToSetAppend ==
  ASSUME NEW R
  PROVE  /\ ToSet(<<>>) = {}
         /\ \A s \in Seq(R), e \in R : ToSet(Append(s, e)) = ToSet(s) \cup {e}
         /\ \A s \in Seq(R) : ToSet(s) = {s[i] : i \in 1..Len(s)} /\ ToSet(s) \subseteq R
  <1>1. ToSet(<<>>) = {}
    BY DEF ToSet
  <1>2. \A s \in Seq(R) : ToSet(s) = {s[i] : i \in 1..Len(s)} /\ ToSet(s) \subseteq R
    BY LenProperties DEF ToSet
  <1>3. ASSUME NEW s \in Seq(R), NEW e \in R PROVE ToSet(Append(s, e)) = ToSet(s) \cup {e}
    <2> DEFINE t == Append(s, e)
    <2>1. /\ t \in Seq(R) /\ Len(t) = Len(s) + 1 /\ Len(s) \in Nat
          /\ t[Len(s) + 1] = e /\ \A i \in 1..Len(s) : t[i] = s[i]
      OBVIOUS
    <2> HIDE DEF t
    <2>2. ToSet(t) = {t[i] : i \in 1..(Len(s) + 1)} /\ ToSet(s) = {s[i] : i \in 1..Len(s)}
      BY <1>2, <2>1
    <2>3. ToSet(t) \subseteq ToSet(s) \cup {e}
      BY <2>1, <2>2
    <2>4. ToSet(s) \cup {e} \subseteq ToSet(t)
      BY <2>1, <2>2
    <2> QED BY <2>3, <2>4 DEF t
  <1> QED BY <1>1, <1>2, <1>3

\* Those keeps exactly the entries that are in the set, all of them if all are,
\* and no more of them than there are.
LEMMA ThoseMembers ==
  ASSUME NEW R, NEW S
  PROVE  \A s \in Seq(R) :
            /\ Those(s, S) \in Seq(R)
            /\ ToSet(Those(s, S)) = ToSet(s) \cap S
            /\ Len(Those(s, S)) <= Len(s)
            /\ ToSet(s) \subseteq S => Those(s, S) = s
  <1> DEFINE P == {s \in Seq(R) :
                     /\ ToSet(Those(s, S)) = ToSet(s) \cap S
                     /\ Len(Those(s, S)) <= Len(s)
                     /\ ToSet(s) \subseteq S => Those(s, S) = s}
  <1>1. <<>> \in P
    <2>1. <<>> \in Seq(R) /\ Those(<<>>, S) = <<>> /\ Len(<<>>) = 0 /\ ToSet(<<>>) = {}
      BY ThoseAppend, ToSetAppend
    <2> QED BY <2>1
  <1>2. ASSUME NEW s \in Seq(R), NEW e \in R, s \in P PROVE Append(s, e) \in P
    <2> DEFINE t == Append(s, e)
               q == Those(s, S)
    <2>1. q \in Seq(R) /\ Those(t, S) = Add(q, e, S)
      BY ThoseAppend
    <2>2. t \in Seq(R) /\ Len(t) = Len(s) + 1 /\ Len(s) \in Nat /\ Len(q) \in Nat
      BY <2>1, LenProperties, AppendProperties
    <2>3. ToSet(t) = ToSet(s) \cup {e} /\ ToSet(Append(q, e)) = ToSet(q) \cup {e}
      BY <2>1, ToSetAppend
    <2>4. ToSet(q) = ToSet(s) \cap S /\ Len(q) <= Len(s) /\ (ToSet(s) \subseteq S => q = s)
      BY <1>2
    <2>5. Len(Append(q, e)) = Len(q) + 1
      BY <2>1, AppendProperties
    <2> HIDE DEF P, q
    <2>6. ToSet(Those(t, S)) = ToSet(t) \cap S
      BY <2>1, <2>3, <2>4 DEF Add
    <2>7. Len(Those(t, S)) <= Len(t)
      BY <2>1, <2>2, <2>4, <2>5 DEF Add
    <2>8. ToSet(t) \subseteq S => Those(t, S) = t
      BY <2>1, <2>3, <2>4 DEF Add
    <2> QED BY <2>2, <2>6, <2>7, <2>8 DEF P
  <1>3. \A s \in Seq(R) : s \in P
    <2> HIDE DEF P
    <2> QED BY <1>1, <1>2, SeqSetInduction
  <1> QED BY <1>3, ThoseAppend

\* Only the entries of the sequence matter to what is kept of it.
LEMMA ThoseAgree ==
  ASSUME NEW R, NEW S, NEW T
  PROVE  \A s \in Seq(R) : (\A e \in ToSet(s) : e \in S <=> e \in T) => Those(s, S) = Those(s, T)
  <1> DEFINE P == {s \in Seq(R) :
                     (\A e \in ToSet(s) : e \in S <=> e \in T) => Those(s, S) = Those(s, T)}
  <1>1. <<>> \in P
    BY ThoseAppend
  <1>2. ASSUME NEW s \in Seq(R), NEW e \in R, s \in P PROVE Append(s, e) \in P
    <2>1. Append(s, e) \in Seq(R) /\ ToSet(Append(s, e)) = ToSet(s) \cup {e}
      BY ToSetAppend, AppendProperties
    <2>2. /\ Those(Append(s, e), S) = Add(Those(s, S), e, S)
          /\ Those(Append(s, e), T) = Add(Those(s, T), e, T)
      BY ThoseAppend
    <2>3. (\A x \in ToSet(s) : x \in S <=> x \in T) => Those(s, S) = Those(s, T)
      BY <1>2
    <2> QED BY <2>1, <2>2, <2>3 DEF Add
  <1>3. \A s \in Seq(R) : s \in P
    <2> HIDE DEF P
    <2> QED BY <1>1, <1>2, SeqSetInduction
  <1> QED BY <1>3

\* The largest and the smallest of a nonempty sequence of numbers.
LEMMA Extremes ==
  \A s \in Seq(Int) : s # <<>> =>
      /\ Max(ToSet(s)) \in ToSet(s) /\ \A v \in ToSet(s) : Max(ToSet(s)) >= v
      /\ Min(ToSet(s)) \in ToSet(s) /\ \A v \in ToSet(s) : Min(ToSet(s)) <= v
  <1> DEFINE P == {s \in Seq(Int) : s # <<>> =>
                     /\ \E x \in ToSet(s) : \A v \in ToSet(s) : x >= v
                     /\ \E x \in ToSet(s) : \A v \in ToSet(s) : x <= v}
  <1>1. <<>> \in P
    OBVIOUS
  <1>2. ASSUME NEW s \in Seq(Int), NEW e \in Int, s \in P PROVE Append(s, e) \in P
    <2>1. Append(s, e) \in Seq(Int) /\ ToSet(Append(s, e)) = ToSet(s) \cup {e}
      BY ToSetAppend, AppendProperties
    <2>2. ToSet(s) \subseteq Int /\ (s = <<>> => ToSet(s) = {})
      BY ToSetAppend
    <2>3. CASE s = <<>>
      BY <2>1, <2>2, <2>3
    <2>4. CASE s # <<>>
      <3>1. PICK x \in ToSet(s), y \in ToSet(s) : \A v \in ToSet(s) : x >= v /\ y <= v
        BY <1>2, <2>4
      <3>2. \A a, b \in Int : a >= b \/ b >= a
        OBVIOUS
      <3>3. \E z \in ToSet(s) \cup {e} : \A v \in ToSet(s) \cup {e} : z >= v
        <4>1. CASE x >= e
          BY <3>1, <4>1
        <4>2. CASE ~(x >= e)
          <5>1. \A v \in ToSet(s) \cup {e} : e >= v
            BY <2>2, <3>1, <4>2
          <5> QED BY <5>1
        <4> QED BY <4>1, <4>2
      <3>4. \E z \in ToSet(s) \cup {e} : \A v \in ToSet(s) \cup {e} : z <= v
        <4>1. CASE y <= e
          BY <3>1, <4>1
        <4>2. CASE ~(y <= e)
          <5>1. \A v \in ToSet(s) \cup {e} : e <= v
            BY <2>2, <3>1, <4>2
          <5> QED BY <5>1
        <4> QED BY <4>1, <4>2
      <3> QED BY <2>1, <3>3, <3>4
    <2> QED BY <2>3, <2>4
  <1>3. \A s \in Seq(Int) : s \in P
    <2> HIDE DEF P
    <2> QED BY <1>1, <1>2, SeqSetInduction
  <1> QED BY <1>3 DEF Max, Min
-----------------------------------------------------------------------------
\* Numbers only, for the bounds below: q and m are the sums of the squares and
\* of the values of n samples, v is one more.
LEMMA SquareNonneg == \A x \in Int : x * x >= 0
  OBVIOUS

LEMMA SpreadGrows ==
  ASSUME NEW n \in Nat, NEW q \in Int, NEW m \in Int, NEW v \in Int,
         n * q - m * m >= 0, n = 0 => q = 0 /\ m = 0
  PROVE  /\ q + n * (v * v) - 2 * (m * v) >= 0
         /\ (n + 1) * (q + v * v) - (m + v) * (m + v)
               = (n * q - m * m) + (q + n * (v * v) - 2 * (m * v))
  <1> DEFINE r == q + n * (v * v) - 2 * (m * v)
             w == m - n * v
  <1>1. r \in Int /\ w \in Int
    OBVIOUS
  <1>2. n * r = (n * q - m * m) + w * w
    BY SMTT(30)
  <1>3. w * w >= 0
    BY <1>1, SquareNonneg
  <1>4. r >= 0
    <2>1. CASE n = 0
      BY <2>1
    <2>2. CASE n > 0
      <3>1. n * q - m * m \in Int /\ w * w \in Int
        OBVIOUS
      <3>2. n * r >= 0
        <4> HIDE DEF r, w
        <4> QED BY <1>1, <1>2, <1>3, <3>1
      <3> HIDE DEF r
      <3> QED BY <1>1, <2>2, <3>2, SMTT(30)
    <2> QED BY <2>1, <2>2
  <1>5. (n + 1) * (q + v * v) - (m + v) * (m + v) = (n * q - m * m) + r
    BY SMTT(30)
  <1> QED BY <1>4, <1>5

\* How far one of n + 1 values is from their mean, against their spread.
LEMMA DistanceBySpread ==
  ASSUME NEW n \in Nat, NEW q \in Int, NEW m \in Int, NEW v \in Int, n * q - m * m >= 0
  PROVE  LET d == (n + 1) * v - (m + v)
         IN  d * d <= n * ((n + 1) * (q + v * v) - (m + v) * (m + v))
  <1> DEFINE d == (n + 1) * v - (m + v)
             spread == (n + 1) * (q + v * v) - (m + v) * (m + v)
             left == n * q - m * m
  <1>1. n * spread - d * d = (n + 1) * left
    BY SMTT(30)
  <1>2. d * d \in Int /\ n * spread \in Int /\ left \in Int
    OBVIOUS
  <1>3. (n + 1) * left >= 0
    <2>1. left >= 0 /\ n + 1 \in Nat
      OBVIOUS
    <2> HIDE DEF left
    <2> QED BY <1>2, <2>1, SMTT(30)
  <1> HIDE DEF d, spread, left
  <1>4. d * d <= n * spread
    BY <1>1, <1>2, <1>3
  <1> QED BY <1>4 DEF d, spread

-----------------------------------------------------------------------------
LEMMA SquaresAppend ==
  /\ Squares(<<>>) = <<>>
  /\ \A s \in Seq(Int), v \in Int :
        /\ Squares(s) \in Seq(Int) /\ Len(Squares(s)) = Len(s)
        /\ Squares(Append(s, v)) = Append(Squares(s), v * v)
  <1>1. Squares(<<>>) = <<>>
    BY DEF Squares
  <1>2. ASSUME NEW s \in Seq(Int)
        PROVE  /\ Squares(s) \in Seq(Int) /\ Len(Squares(s)) = Len(s)
               /\ \A i \in 1..Len(s) : Squares(s)[i] = s[i] * s[i]
    <2>1. Len(s) \in Nat /\ DOMAIN s = 1..Len(s) /\ \A i \in 1..Len(s) : s[i] \in Int
      OBVIOUS
    <2>2. \A i \in 1..Len(s) : s[i] * s[i] \in Int
      BY <2>1
    <2>3. Squares(s) = [i \in 1..Len(s) |-> s[i] * s[i]]
      BY <2>1 DEF Squares
    <2> QED BY <2>1, <2>2, <2>3
  <1>3. ASSUME NEW s \in Seq(Int), NEW v \in Int
        PROVE  Squares(Append(s, v)) = Append(Squares(s), v * v)
    <2> DEFINE t == Append(s, v)
               a == Squares(t)
               b == Append(Squares(s), v * v)
    <2>1. /\ t \in Seq(Int) /\ Len(t) = Len(s) + 1 /\ Len(s) \in Nat
          /\ t[Len(s) + 1] = v /\ \A i \in 1..Len(s) : t[i] = s[i]
      OBVIOUS
    <2> HIDE DEF t
    <2>2. a \in Seq(Int) /\ Len(a) = Len(s) + 1 /\ \A i \in 1..Len(t) : a[i] = t[i] * t[i]
      BY <1>2, <2>1
    <2>3. v * v \in Int
      OBVIOUS
    <2>4. /\ b \in Seq(Int) /\ Len(b) = Len(s) + 1 /\ b[Len(s) + 1] = v * v
          /\ \A i \in 1..Len(s) : b[i] = Squares(s)[i]
      <3>1. Squares(s) \in Seq(Int) /\ Len(Squares(s)) = Len(s)
        BY <1>2
      <3> QED BY <2>3, <3>1, AppendProperties
    <2> HIDE DEF a, b
    <2>5. \A i \in 1..Len(a) : a[i] = b[i]
      <3> TAKE i \in 1..Len(a)
      <3>1. CASE i = Len(s) + 1
        <4>1. i \in 1..Len(t) /\ t[i] = v
          BY <2>1, <3>1
        <4> QED BY <2>2, <2>4, <3>1, <4>1, Zenon
      <3>2. CASE i \in 1..Len(s)
        <4>1. i \in 1..Len(t)
          BY <2>1, <3>2
        <4>2. Squares(s)[i] = s[i] * s[i]
          BY <1>2, <3>2
        <4>3. t[i] = s[i] /\ b[i] = Squares(s)[i] /\ a[i] = t[i] * t[i]
          BY <2>1, <2>2, <2>4, <3>2, <4>1
        <4> QED BY <4>2, <4>3, Zenon
      <3> QED BY <2>1, <2>2, <3>1, <3>2
    <2>6. a = b
      BY <2>2, <2>4, <2>5, SeqEqual
    <2> QED BY <2>6 DEF a, b, t
  <1> QED BY <1>1, <1>2, <1>3

\* The three sums that mean and spread are made of.
LEMMA Moments ==
  /\ \A s \in Seq(Int) : Len(s) \in Nat /\ SumSeq(s) \in Int /\ SumSeq(Squares(s)) \in Int
  /\ \A s \in Seq(Int) : Len(s) = 0 => SumSeq(s) = 0 /\ SumSeq(Squares(s)) = 0
  /\ \A s \in Seq(Int), v \in Int :
        /\ Append(s, v) \in Seq(Int) /\ Len(Append(s, v)) = Len(s) + 1
        /\ SumSeq(Append(s, v)) = SumSeq(s) + v
        /\ SumSeq(Squares(Append(s, v))) = SumSeq(Squares(s)) + v * v
  <1>1. \A s \in Seq(Int) : Len(s) \in Nat /\ SumSeq(s) \in Int /\ SumSeq(Squares(s)) \in Int
    <2>1. \A s \in Seq(Int) : SumSeq(s) \in Int
      <3>1. 0 \in Int
        OBVIOUS
      <3> QED BY <3>1, SumAppend
    <2>2. \A s \in Seq(Int) : Squares(s) \in Seq(Int)
      <3>1. 0 \in Int
        OBVIOUS
      <3> QED BY <3>1, SquaresAppend
    <2> QED BY <2>1, <2>2, LenProperties
  <1>2. \A s \in Seq(Int) : Len(s) = 0 => SumSeq(s) = 0 /\ SumSeq(Squares(s)) = 0
    <2>1. \A s \in Seq(Int) : Len(s) = 0 => s = <<>>
      OBVIOUS
    <2> QED BY <2>1, SumAppend, SquaresAppend
  <1>3. \A s \in Seq(Int), v \in Int :
        /\ Append(s, v) \in Seq(Int) /\ Len(Append(s, v)) = Len(s) + 1
        /\ SumSeq(Append(s, v)) = SumSeq(s) + v
        /\ SumSeq(Squares(Append(s, v))) = SumSeq(Squares(s)) + v * v
    <2> TAKE s \in Seq(Int), v \in Int
    <2>1. Append(s, v) \in Seq(Int) /\ Len(Append(s, v)) = Len(s) + 1
      OBVIOUS
    <2>2. Squares(s) \in Seq(Int) /\ v * v \in Int
      BY SquaresAppend
    <2>3. SumSeq(Append(Squares(s), v * v)) = SumSeq(Squares(s)) + v * v
      BY <2>2, SumAppend
    <2> QED BY <2>1, <2>3, SumAppend, SquaresAppend
  <1> QED BY <1>1, <1>2, <1>3

\* A spread is not negative.
LEMMA SpreadNonneg == \A s \in Seq(Int) : Spread(s) \in Int /\ Spread(s) >= 0
  <1> DEFINE P == {s \in Seq(Int) : Spread(s) >= 0}
  <1>1. <<>> \in P
    <2>1. <<>> \in Seq(Int) /\ Len(<<>>) = 0
      OBVIOUS
    <2>2. SumSeq(<<>>) = 0 /\ SumSeq(Squares(<<>>)) = 0
      BY <2>1, Moments
    <2>3. Spread(<<>>) = 0 * 0 - 0 * 0
      BY <2>1, <2>2, Zenon DEF Spread
    <2>4. Spread(<<>>) >= 0
      BY <2>3
    <2> QED BY <2>1, <2>4
  <1>2. ASSUME NEW s \in Seq(Int), NEW v \in Int, s \in P PROVE Append(s, v) \in P
    <2> DEFINE n == Len(s)
               q == SumSeq(Squares(s))
               m == SumSeq(s)
    <2>1. n \in Nat /\ q \in Int /\ m \in Int /\ (n = 0 => q = 0 /\ m = 0)
      BY Moments
    <2>2. n * q - m * m >= 0
      BY <1>2 DEF Spread
    <2>3. Spread(Append(s, v)) = (n + 1) * (q + v * v) - (m + v) * (m + v)
      BY Moments, Zenon DEF Spread
    <2> HIDE DEF n, q, m
    <2>4. (n + 1) * (q + v * v) - (m + v) * (m + v) >= 0
      <3> DEFINE r == q + n * (v * v) - 2 * (m * v)
                 l == n * q - m * m
      <3>1. r >= 0 /\ (n + 1) * (q + v * v) - (m + v) * (m + v) = l + r
        BY <2>1, <2>2, SpreadGrows
      <3>2. r \in Int /\ l \in Int /\ l >= 0
        BY <2>1, <2>2
      <3> HIDE DEF r, l
      <3>3. l + r >= 0
        BY <3>1, <3>2
      <3> QED BY <3>1, <3>3
    <2> QED BY <2>3, <2>4, Moments
  <1>3. \A s \in Seq(Int) : s \in P
    <2> HIDE DEF P
    <2> QED BY <1>1, <1>2, SeqSetInduction
  <1>4. \A s \in Seq(Int) : Spread(s) \in Int
    BY Moments DEF Spread
  <1> QED BY <1>3, <1>4

\* The last of n values is no further from their mean than their spread allows.
LEMMA LastWithinSpread ==
  ASSUME NEW s \in Seq(Int), s # <<>>
  PROVE  LET n == Len(s)
             distance == n * s[n] - SumSeq(s)
         IN  distance \in Int /\ distance * distance <= (n - 1) * Spread(s)
  <1>1. PICK t \in Seq(Int), v \in Int : s = Append(t, v)
    BY SequenceEmptyOrAppend
  <1> DEFINE n == Len(t)
             q == SumSeq(Squares(t))
             m == SumSeq(t)
             d == (n + 1) * v - (m + v)
  <1>2. n \in Nat /\ q \in Int /\ m \in Int
    BY Moments
  <1>3. n * q - m * m >= 0
    BY SpreadNonneg DEF Spread
  <1>4. Len(s) = n + 1 /\ s[n + 1] = v /\ SumSeq(s) = m + v
    BY <1>1, Moments, AppendProperties
  <1>5. Spread(s) = (n + 1) * (q + v * v) - (m + v) * (m + v)
    BY <1>1, Moments, Zenon DEF Spread
  <1> HIDE DEF n, q, m
  <1>6. d \in Int /\ d * d <= n * ((n + 1) * (q + v * v) - (m + v) * (m + v))
    BY <1>2, <1>3, DistanceBySpread
  <1>7. Len(s) * s[Len(s)] - SumSeq(s) = d /\ Len(s) - 1 = n
    BY <1>2, <1>4
  <1> QED BY <1>5, <1>6, <1>7
-----------------------------------------------------------------------------
LEMMA MaxOfTwo ==
  ASSUME NEW a \in Int, NEW b \in Int
  PROVE  /\ Max({a, b}) \in Int /\ Max({a, b}) >= a /\ Max({a, b}) >= b
         /\ Max({a, b}) = a \/ Max({a, b}) = b
  <1>1. \E x \in {a, b} : \A y \in {a, b} : x >= y
    <2>1. a >= b \/ b >= a
      OBVIOUS
    <2>2. a >= a /\ b >= b
      OBVIOUS
    <2> QED BY <2>1, <2>2
  <1> QED BY <1>1 DEF Max

\* The last entry of a sequence is one of its entries.
LEMMA LastEntry ==
  ASSUME NEW R, NEW s \in Seq(R), s # <<>>
  PROVE  Last(s) \in ToSet(s) /\ Last(s) = s[Len(s)] /\ Len(s) \in Nat \ {0}
  <1>1. Len(s) \in Nat \ {0}
    BY EmptySeq
  <1>2. Len(s) \in 1..Len(s)
    BY <1>1
  <1> QED BY <1>1, <1>2, ToSetAppend DEF Last

\* The last entries of a sequence.
Newest(q, limit) == SubSeq(q, Max({1, Len(q) - limit + 1}), Len(q))

LEMMA NewestEntries ==
  ASSUME NEW R, NEW q \in Seq(R), NEW limit \in Int
  PROVE  LET m == Max({1, Len(q) - limit + 1})
         IN  /\ m \in Int /\ m >= 1 /\ (m = 1 \/ m = Len(q) - limit + 1) /\ m >= Len(q) - limit + 1
             /\ Newest(q, limit) \in Seq(R) /\ ToSet(Newest(q, limit)) \subseteq ToSet(q)
             /\ Len(Newest(q, limit)) = IF m <= Len(q) THEN Len(q) - m + 1 ELSE 0
             /\ \A i \in 1..(Len(q) - m + 1) : Newest(q, limit)[i] = q[m + i - 1]
  <1> DEFINE n == Len(q)
             m == Max({1, n - limit + 1})
             new == Newest(q, limit)
  <1>1. n \in Nat /\ \A i \in 1..n : q[i] \in R
    OBVIOUS
  <1> HIDE DEF n
  <1>2. m \in Int /\ m >= 1 /\ (m = 1 \/ m = n - limit + 1) /\ m >= n - limit + 1
    <2> DEFINE b == n - limit + 1
    <2>1. 1 \in Int /\ b \in Int
      BY <1>1
    <2> HIDE DEF b
    <2>2. /\ Max({1, b}) \in Int /\ Max({1, b}) >= 1 /\ Max({1, b}) >= b
          /\ Max({1, b}) = 1 \/ Max({1, b}) = b
      BY <2>1, MaxOfTwo, Zenon
    <2> QED BY <2>2, Zenon DEF b
  <1> HIDE DEF m
  <1>3. /\ new \in Seq(R) /\ Len(new) = IF m <= n THEN n - m + 1 ELSE 0
        /\ \A i \in 1..(n - m + 1) : new[i] = q[m + i - 1]
    <2>1. \A i \in m..n : q[i] \in R
      BY <1>1, <1>2
    <2>2. new = SubSeq(q, m, n)
      BY DEF Newest, m, n
    <2> HIDE DEF new
    <2> QED BY <1>1, <1>2, <2>1, <2>2, SubSeqProperties
  <1> HIDE DEF new
  <1>4. ToSet(new) \subseteq ToSet(q)
    <2>1. ToSet(new) = {new[i] : i \in 1..Len(new)} /\ ToSet(q) = {q[i] : i \in 1..n}
      BY <1>3, ToSetAppend DEF n
    <2>2. \A i \in 1..Len(new) : i \in 1..(n - m + 1) /\ m + i - 1 \in 1..n
      BY <1>1, <1>2, <1>3
    <2> QED BY <1>3, <2>1, <2>2
  <1> QED BY <1>2, <1>3, <1>4 DEF n, m, new

\* Samples are rows of the table, with values that can be read.
LEMMA Fetched ==
  ASSUME NEW R, NEW rows \in Seq(R), NEW since, NEW limit \in Int
  PROVE  /\ FetchRecentRows(rows, since, limit) \in Seq(R)
         /\ ToSet(FetchRecentRows(rows, since, limit)) \subseteq ToSet(rows)
         /\ fetchSamples(rows, since, limit) \in Seq(R)
         /\ ToSet(fetchSamples(rows, since, limit)) \subseteq ToSet(rows)
         /\ \A r \in ToSet(fetchSamples(rows, since, limit)) : r.value # None
  <1> DEFINE recent == Those(rows, {r \in ToSet(rows) : r.ts >= Seconds(Unix(since))})
             fetched == FetchRecentRows(rows, since, limit)
  <1>1. recent \in Seq(R) /\ ToSet(recent) \subseteq ToSet(rows)
    BY ThoseMembers
  <1>2. fetched = Newest(recent, limit)
    BY DEF FetchRecentRows, Newest
  <1> HIDE DEF recent
  <1>3. fetched \in Seq(R) /\ ToSet(fetched) \subseteq ToSet(rows)
    BY <1>1, <1>2, NewestEntries
  <1> HIDE DEF fetched
  <1>4. /\ Readable(fetched) \in Seq(R)
        /\ ToSet(Readable(fetched)) = ToSet(fetched) \cap {r \in ToSet(fetched) : r.value # None}
    BY <1>3, ThoseMembers DEF Readable
  <1>5. fetchSamples(rows, since, limit) = Readable(fetched)
    BY DEF fetchSamples, fetched
  <1> QED BY <1>3, <1>4, <1>5 DEF fetched

LEMMA Filtered ==
  ASSUME NEW R, NEW s \in Seq(R), NEW start, NEW end
  PROVE  /\ filterSamplesByRange(s, start, end) \in Seq(R)
         /\ ToSet(filterSamplesByRange(s, start, end)) \subseteq ToSet(s)
  BY ThoseMembers DEF filterSamplesByRange

\* A sequence keeps its beginnings when it grows.
LEMMA Beginnings ==
  ASSUME NEW R, NEW s \in Seq(R)
  PROVE  /\ SubSeq(s, 1, Len(s)) = s
         /\ \A k \in 0..Len(s) :
               /\ SubSeq(s, 1, k) \in Seq(R) /\ Len(SubSeq(s, 1, k)) = k
               /\ \A i \in 1..k : SubSeq(s, 1, k)[i] = s[i]
               /\ ToSet(SubSeq(s, 1, k)) \subseteq ToSet(s)
         /\ \A k \in 0..Len(s), e \in R : SubSeq(Append(s, e), 1, k) = SubSeq(s, 1, k)
  <1>1. ASSUME NEW q \in Seq(R), NEW k \in 0..Len(q)
        PROVE  /\ SubSeq(q, 1, k) \in Seq(R) /\ Len(SubSeq(q, 1, k)) = k
               /\ \A i \in 1..k : SubSeq(q, 1, k)[i] = q[i]
    <2>1. Len(q) \in Nat /\ k \in Int /\ \A i \in 1..k : i \in 1..Len(q)
      OBVIOUS
    <2> QED BY <2>1, SubSeqProperties
  <1>2. Len(s) \in 0..Len(s)
    OBVIOUS
  <1>3. SubSeq(s, 1, Len(s)) = s
    BY <1>1, <1>2, SeqEqual
  <1>4. ASSUME NEW k \in 0..Len(s) PROVE ToSet(SubSeq(s, 1, k)) \subseteq ToSet(s)
    <2> DEFINE q == SubSeq(s, 1, k)
    <2>1. q \in Seq(R) /\ Len(q) = k /\ \A i \in 1..k : q[i] = s[i]
      BY <1>1
    <2> HIDE DEF q
    <2>2. ToSet(q) = {q[i] : i \in 1..k}
      BY <2>1, ToSetAppend
    <2>3. ToSet(s) = {s[i] : i \in 1..Len(s)} /\ \A i \in 1..k : i \in 1..Len(s)
      BY ToSetAppend
    <2> QED BY <2>1, <2>2, <2>3 DEF q
  <1>5. ASSUME NEW k \in 0..Len(s), NEW e \in R PROVE SubSeq(Append(s, e), 1, k) = SubSeq(s, 1, k)
    <2>1. /\ Append(s, e) \in Seq(R) /\ k \in 0..Len(Append(s, e))
          /\ \A i \in 1..k : Append(s, e)[i] = s[i]
      OBVIOUS
    <2>2. /\ SubSeq(Append(s, e), 1, k) \in Seq(R) /\ Len(SubSeq(Append(s, e), 1, k)) = k
          /\ \A i \in 1..k : SubSeq(Append(s, e), 1, k)[i] = Append(s, e)[i]
      BY <1>1, <2>1
    <2>3. /\ SubSeq(s, 1, k) \in Seq(R) /\ Len(SubSeq(s, 1, k)) = k
          /\ \A i \in 1..k : SubSeq(s, 1, k)[i] = s[i]
      BY <1>1
    <2> QED BY <2>1, <2>2, <2>3, SeqEqual
  <1> QED BY <1>1, <1>3, <1>4, <1>5

LEMMA SingleMax == \A x \in Int : Max({x}) = x
  <1> TAKE x \in Int
  <1>1. Max({x, x}) = x
    BY MaxOfTwo
  <1>2. {x, x} = {x}
    OBVIOUS
  <1> QED BY <1>1, <1>2

\* The values of samples that have one.
LEMMA Extracted ==
  ASSUME NEW R, NEW s \in Seq(R), \A r \in ToSet(s) : r.value \in Int
  PROVE  /\ extractValues(s) \in Seq(Int) /\ Len(extractValues(s)) = Len(s)
         /\ \A i \in 1..Len(s) : extractValues(s)[i] = s[i].value
         /\ ToSet(extractValues(s)) = {r.value : r \in ToSet(s)}
  <1> DEFINE n == Len(s)
             V(i) == s[i].value
             v == [i \in 1..n |-> V(i)]
  <1>1. n \in Nat /\ DOMAIN s = 1..n
    BY LenProperties
  <1>2. extractValues(s) = v
    BY <1>1 DEF extractValues
  <1>3. ToSet(s) = {s[i] : i \in 1..n}
    BY ToSetAppend
  <1>4. \A i \in 1..n : V(i) \in Int
    BY <1>3
  <1> HIDE DEF V, n
  <1>5. v \in Seq(Int) /\ Len(v) = n /\ \A i \in 1..n : v[i] = V(i)
    BY <1>1, <1>4
  <1> HIDE DEF v
  <1>6. ToSet(v) = {v[i] : i \in 1..n}
    BY <1>5, ToSetAppend
  <1>7. ToSet(v) = {r.value : r \in ToSet(s)}
    BY <1>3, <1>5, <1>6 DEF V
  <1> QED BY <1>2, <1>5, <1>7 DEF V, n
-----------------------------------------------------------------------------
\* The keys of a finite set of numbers up to a key.
UpTo(S, key) == {k \in S : k <= key}
Ranked(S) ==
    /\ S # {} => \E m \in S : \A k \in S : k <= m
    /\ \A g \in 1..Cardinality(S) : \E key \in S : Cardinality(UpTo(S, key)) = g

\* Every rank has its number, so that groupBySubgroup finds a key for it.
LEMMA RankExists == \A S \in SUBSET Int : IsFiniteSet(S) => Cardinality(S) \in Nat /\ Ranked(S)
  <1> DEFINE P == {n \in Nat : \A S \in SUBSET Int :
                      (IsFiniteSet(S) /\ Cardinality(S) = n) => Ranked(S)}
  <1>1. 0 \in P
    <2> SUFFICES ASSUME NEW S \in SUBSET Int, IsFiniteSet(S), Cardinality(S) = 0 PROVE Ranked(S)
      OBVIOUS
    <2>1. S = {}
      BY FS_EmptySet
    <2> QED BY <2>1 DEF Ranked
  <1>2. ASSUME NEW n \in Nat, n \in P PROVE n + 1 \in P
    <2> SUFFICES ASSUME NEW S \in SUBSET Int, IsFiniteSet(S), Cardinality(S) = n + 1
                 PROVE  Ranked(S)
      OBVIOUS
    <2>1. S # {}
      BY FS_EmptySet
    <2>2. PICK m \in S : \A k \in S : k <= m
      <3>1. PICK x \in S : TRUE
        BY <2>1
      <3> DEFINE T == S \ {x}
      <3>2. T \in SUBSET Int /\ IsFiniteSet(T) /\ Cardinality(T) = n
        BY FS_RemoveElement
      <3>3. Ranked(T)
        BY <1>2, <3>2
      <3>4. CASE T = {}
        BY <3>4
      <3>5. CASE T # {}
        <4>1. PICK y \in T : \A k \in T : k <= y
          BY <3>3, <3>5 DEF Ranked
        <4>2. x \in Int /\ y \in Int /\ \A k \in S : k \in Int /\ (k = x \/ k \in T)
          OBVIOUS
        <4>3. CASE x <= y
          BY <4>1, <4>2, <4>3
        <4>4. CASE ~(x <= y)
          <5>1. \A k \in T : k <= x
            BY <4>1, <4>2, <4>4
          <5> QED BY <4>2, <5>1
        <4> QED BY <4>3, <4>4
      <3> QED BY <3>4, <3>5
    <2> DEFINE T == S \ {m}
    <2>3. T \in SUBSET Int /\ IsFiniteSet(T) /\ Cardinality(T) = n
      BY FS_RemoveElement
    <2>4. Ranked(T)
      BY <1>2, <2>3
    <2>5. m \in Int /\ \A k \in T : k \in Int /\ k < m
      BY <2>2
    <2>6. ASSUME NEW g \in 1..(n + 1) PROVE \E key \in S : Cardinality(UpTo(S, key)) = g
      <3>1. CASE g = n + 1
        <4>1. UpTo(S, m) = S
          BY <2>2 DEF UpTo
        <4> QED BY <3>1, <4>1
      <3>2. CASE g # n + 1
        <4>1. g \in 1..n
          BY <3>2
        <4>2. PICK key \in T : Cardinality(UpTo(T, key)) = g
          BY <2>3, <2>4, <4>1 DEF Ranked
        <4>3. UpTo(S, key) = UpTo(T, key)
          <5>1. key \in Int /\ key < m /\ ~(m <= key)
            BY <2>5
          <5> QED BY <5>1 DEF UpTo
        <4> QED BY <4>2, <4>3
      <3> QED BY <3>1, <3>2
    <2> QED BY <2>2, <2>6 DEF Ranked
  <1> HIDE DEF P
  <1>3. \A n \in Nat : n \in P
    BY <1>1, <1>2, NatSetInduction
  <1> QED BY <1>3, FS_CardinalityType DEF P

\* The subgroups of samples: each a sequence of some of them.
Grouping(groups, s, R) ==
    /\ Len(groups) \in Nat /\ DOMAIN groups = 1..Len(groups) /\ groups \in Seq(Seq(R))
    /\ \A g \in 1..Len(groups) : groups[g] \in Seq(R) /\ ToSet(groups[g]) \subseteq ToSet(s)

\* Complete groups fit.
LEMMA Fits ==
  ASSUME NEW n \in Nat, NEW size \in Nat \ {0}, NEW g \in 1..(n \div size)
  PROVE  (g - 1) * size + 1 \in 1..n /\ g * size \in 1..n /\ (g - 1) * size + 1 <= g * size
  <1> DEFINE q == n \div size
  <1>1. q \in Nat /\ q * size <= n
    <2>1. n = size * q + (n % size) /\ n % size \in 0..(size - 1) /\ q \in Nat
      OBVIOUS
    <2> HIDE DEF q
    <2>2. n % size \in Nat
      BY <2>1
    <2> DEFINE rest == n % size
    <2> HIDE DEF rest
    <2>3. rest \in Nat /\ n = size * q + rest
      BY <2>1, <2>2 DEF rest
    <2>4. size * q = q * size
      BY <2>1
    <2> QED BY <2>1, <2>3, <2>4
  <1>2. g \in 1..q
    OBVIOUS
  <1> HIDE DEF q
  <1>3. \A a, b \in Nat : a <= b => a * size <= b * size
    BY SMTT(30)
  <1>4. (g - 1) * size >= 0 /\ g * size <= q * size /\ g * size = (g - 1) * size + size
    <2>1. g \in Nat /\ g - 1 \in Nat /\ 0 <= g - 1 /\ g <= q
      BY <1>1, <1>2
    <2>2. 0 * size <= (g - 1) * size /\ g * size <= q * size
      BY <1>1, <1>3, <2>1
    <2>3. g * size = (g - 1) * size + size
      BY <2>1, SMTT(30)
    <2> QED BY <2>2, <2>3
  <1> DEFINE a == (g - 1) * size
             b == g * size
             c == q * size
  <1>5. a \in Int /\ b \in Int /\ c \in Int
    BY <1>1
  <1>6. a >= 0 /\ b <= c /\ b = a + size /\ c <= n
    BY <1>1, <1>4
  <1> HIDE DEF a, b, c
  <1>7. a + 1 \in 1..n /\ b \in 1..n /\ a + 1 <= b
    BY <1>5, <1>6
  <1> QED BY <1>7 DEF a, b

LEMMA ConsecutiveGroups ==
  ASSUME NEW R, NEW s \in Seq(R), NEW size \in Nat \ {0}
  PROVE  /\ Grouping(groupConsecutive(s, size), s, R)
         /\ Len(groupConsecutive(s, size)) = Len(s) \div size
  <1> DEFINE n == Len(s)
             q == n \div size
             G(g) == SubSeq(s, (g - 1) * size + 1, g * size)
             groups == groupConsecutive(s, size)
  <1>1. n \in Nat /\ \A i \in 1..n : s[i] \in R
    OBVIOUS
  <1>2. q \in Nat
    BY <1>1
  <1>3. groups = [g \in 1..q |-> G(g)]
    BY DEF groupConsecutive
  <1>4. ASSUME NEW g \in 1..q PROVE G(g) \in Seq(R) /\ ToSet(G(g)) \subseteq ToSet(s)
    <2> DEFINE a == (g - 1) * size + 1
               b == g * size
               e == SubSeq(s, a, b)
    <2>1. a \in 1..n /\ b \in 1..n /\ a <= b
      BY <1>1, Fits
    <2> HIDE DEF a, b
    <2>2. \A i \in a..b : i \in 1..n /\ s[i] \in R
      BY <1>1, <2>1
    <2>3. /\ e \in Seq(R) /\ Len(e) = b - a + 1
          /\ \A i \in 1..(b - a + 1) : e[i] = s[a + i - 1]
      BY <1>1, <2>1, <2>2, SubSeqProperties
    <2> HIDE DEF e
    <2>4. ToSet(e) = {e[i] : i \in 1..Len(e)} /\ ToSet(s) = {s[i] : i \in 1..n}
      BY <2>3, ToSetAppend
    <2>5. \A i \in 1..Len(e) : a + i - 1 \in 1..n /\ e[i] = s[a + i - 1]
      BY <1>1, <2>1, <2>3
    <2>6. ToSet(e) \subseteq ToSet(s)
      BY <2>4, <2>5
    <2> QED BY <2>3, <2>6 DEF e, a, b
  <1> HIDE DEF G, q
  <1>5. /\ groups \in Seq(Seq(R)) /\ Len(groups) = q /\ DOMAIN groups = 1..q
        /\ \A g \in 1..q : groups[g] = G(g)
    BY <1>2, <1>3, <1>4
  <1> QED BY <1>2, <1>4, <1>5 DEF Grouping, q

LEMMA EntriesFinite == \A R : \A s \in Seq(R) : IsFiniteSet(ToSet(s))
  <1> SUFFICES ASSUME NEW R, NEW s \in Seq(R) PROVE IsFiniteSet(ToSet(s))
    OBVIOUS
  <1>1. Len(s) \in Nat /\ s \in [1..Len(s) -> R] /\ ToSet(s) = {s[i] : i \in 1..Len(s)}
    BY LenProperties, ToSetAppend
  <1>2. s \in Surjection(1..Len(s), ToSet(s))
    BY <1>1 DEF Surjection
  <1>3. IsFiniteSet(1..Len(s))
    BY <1>1, FS_Interval
  <1> QED BY <1>2, <1>3, FS_Surjection

LEMMA GroupsByKey ==
  ASSUME NEW R, NEW s \in Seq(R), NEW size \in Nat \ {0},
         \A r \in R : r.group \in Int \cup {None}
  PROVE  Grouping(groupBySubgroup(s, size), s, R)
  <1> DEFINE of(key) == Those(s, {r \in ToSet(s) : r.group = key})
             keys == {r.group : r \in ToSet(s)} \ {None}
             large == {key \in keys : Len(of(key)) >= size}
             nth(g) == CHOOSE key \in large : Cardinality({k \in large : k <= key}) = g
             G(g) == SubSeq(of(nth(g)), 1, size)
             groups == groupBySubgroup(s, size)
  <1>1. ToSet(s) \subseteq R
    BY ToSetAppend
  <1>2. keys \in SUBSET Int
    BY <1>1
  <1>3. IsFiniteSet(keys)
    <2> DEFINE T == ToSet(s)
               f == [r \in T |-> r.group]
               K == {r.group : r \in T}
    <2>1. IsFiniteSet(T)
      BY EntriesFinite
    <2> HIDE DEF T
    <2>2. f \in Surjection(T, K)
      BY DEF Surjection
    <2>3. IsFiniteSet(K)
      BY <2>1, <2>2, FS_Surjection
    <2>4. keys \in SUBSET K
      BY DEF T
    <2> QED BY <2>3, <2>4, FS_Subset
  <1>4. large \in SUBSET Int /\ IsFiniteSet(large)
    <2>1. large \in SUBSET keys
      OBVIOUS
    <2> QED BY <1>2, <1>3, <2>1, FS_Subset
  <1>5. \A key : of(key) \in Seq(R) /\ ToSet(of(key)) \subseteq ToSet(s)
    BY ThoseMembers
  <1>6. \A key \in large : Len(of(key)) >= size
    OBVIOUS
  <1>7. groups = [g \in 1..Cardinality(large) |-> G(g)]
    BY Zenon DEF groupBySubgroup
  <1> HIDE DEF large, of, groups
  <1>8. Cardinality(large) \in Nat /\ Ranked(large)
    BY <1>4, RankExists
  <1>9. \A g \in 1..Cardinality(large) : nth(g) \in large
    <2>1. \A g \in 1..Cardinality(large) :
             \E key \in large : Cardinality({k \in large : k <= key}) = g
      BY <1>8, Zenon DEF Ranked, UpTo
    <2> QED BY <2>1, Zenon
  <1> HIDE DEF nth
  <1>10. ASSUME NEW g \in 1..Cardinality(large)
         PROVE  G(g) \in Seq(R) /\ ToSet(G(g)) \subseteq ToSet(s)
    <2> DEFINE q == of(nth(g))
    <2>1. q \in Seq(R) /\ ToSet(q) \subseteq ToSet(s) /\ Len(q) >= size
      BY <1>5, <1>6, <1>9
    <2> HIDE DEF q
    <2>2. size \in 0..Len(q)
      BY <2>1
    <2>3. SubSeq(q, 1, size) \in Seq(R) /\ ToSet(SubSeq(q, 1, size)) \subseteq ToSet(q)
      BY <2>1, <2>2, Beginnings
    <2> QED BY <2>1, <2>3 DEF q
  <1> HIDE DEF G
  <1> DEFINE m == Cardinality(large)
  <1>11. m \in Nat
    BY <1>8
  <1>12. groups = [g \in 1..m |-> G(g)] /\ \A g \in 1..m : G(g) \in Seq(R) /\ ToSet(G(g)) \subseteq ToSet(s)
    BY <1>7, <1>10
  <1> HIDE DEF m
  <1>13. /\ groups \in Seq(Seq(R)) /\ Len(groups) = m /\ DOMAIN groups = 1..m
         /\ \A g \in 1..m : groups[g] = G(g)
    BY <1>11, <1>12
  <1> QED BY <1>11, <1>12, <1>13 DEF Grouping, groups

\* Sums of numbers that are not negative.
LEMMA SumOfNaturals ==
  /\ \A s \in Seq(Nat) : SumSeq(s) \in Int /\ SumSeq(s) >= 0
  /\ \A s \in Seq(Nat) : s # <<>> => Last(s) \in Nat /\ SumSeq(s) >= Last(s)
  <1>0. \A s \in Seq(Nat) : s \in Seq(Int)
    BY SeqMonotonic
  <1>1. \A s \in Seq(Nat) : SumSeq(s) \in Int /\ SumSeq(s) >= 0
    <2> DEFINE P == {s \in Seq(Nat) : SumSeq(s) >= 0}
    <2>1. <<>> \in P
      BY SumAppend, EmptySeq
    <2>2. \A s \in Seq(Nat), e \in Nat : s \in P => Append(s, e) \in P
      <3> SUFFICES ASSUME NEW s \in Seq(Nat), NEW e \in Nat, s \in P PROVE Append(s, e) \in P
        OBVIOUS
      <3>1. s \in Seq(Int) /\ e \in Int /\ Append(s, e) \in Seq(Nat)
        BY <1>0
      <3>2. SumSeq(s) \in Int /\ SumSeq(Append(s, e)) = SumSeq(s) + e /\ SumSeq(s) >= 0
        BY <3>1, SumAppend
      <3>3. SumSeq(s) + e >= 0
        BY <3>2
      <3> QED BY <3>1, <3>2, <3>3
    <2> HIDE DEF P
    <2>3. \A s \in Seq(Nat) : s \in P
      BY <2>1, <2>2, SeqSetInduction
    <2> QED BY <1>0, <2>3, SumAppend DEF P
  <1>2. ASSUME NEW s \in Seq(Nat), s # <<>> PROVE Last(s) \in Nat /\ SumSeq(s) >= Last(s)
    <2>1. PICK t \in Seq(Nat), e \in Nat : s = Append(t, e)
      BY <1>2, SequenceEmptyOrAppend
    <2>2. Last(s) = e
      BY <2>1 DEF Last
    <2>3. t \in Seq(Int) /\ e \in Int
      BY <1>0
    <2>4. SumSeq(s) = SumSeq(t) + e /\ SumSeq(t) >= 0 /\ SumSeq(t) \in Int
      BY <1>1, <2>1, <2>3, SumAppend
    <2> QED BY <2>2, <2>3, <2>4
  <1> QED BY <1>1, <1>2

\* The range of a subgroup is not negative.
LEMMA RangeIsNatural ==
  ASSUME NEW R, NEW s \in Seq(R), \A r \in ToSet(s) : r.value \in Int
  PROVE  subgroupRange(s) \in Nat
  <1> DEFINE v == extractValues(s)
  <1>1. v \in Seq(Int)
    BY Extracted
  <1> HIDE DEF v
  <1>2. subgroupRange(s) = IF ToSet(v) = {} THEN 0 ELSE Max(ToSet(v)) - Min(ToSet(v))
    BY Zenon DEF subgroupRange, v
  <1>3. CASE ToSet(v) = {}
    BY <1>2, <1>3
  <1>4. CASE ToSet(v) # {}
    <2>1. v # <<>>
      BY <1>4, ToSetAppend
    <2> DEFINE low == Min(ToSet(v))
               high == Max(ToSet(v))
    <2>2. low \in ToSet(v) /\ high \in ToSet(v) /\ \A x \in ToSet(v) : high >= x
      BY <1>1, <2>1, Extremes
    <2>3. ToSet(v) \subseteq Int
      BY <1>1, ToSetAppend
    <2>4. subgroupRange(s) = high - low
      BY <1>2, <1>4
    <2> HIDE DEF low, high
    <2> QED BY <2>2, <2>3, <2>4
  <1> QED BY <1>3, <1>4
-----------------------------------------------------------------------------
\* How far k sigma are: the arithmetic of a value that is judged by limits it
\* is itself a part of.
LEMMA Scaled == \A a, b \in Int, c \in Nat : a <= b => a * c <= b * c
  BY SMTT(30)

LEMMA Unscaled == \A a, b \in Int, c \in Nat : a * c < b * c => a < b
  BY SMTT(30)

LEMMA SigmasNeedSamples ==
  ASSUME NEW n \in Nat \ {0}, NEW k \in Int, NEW unit \in Nat, NEW denom \in {n, n - 1},
         NEW spread \in Nat, NEW square \in Nat, square <= (n - 1) * spread,
         unit * unit * (square * denom) > k * k * (n * spread)
  PROVE  /\ denom = n => unit * unit * (n - 1) > k * k
         /\ denom = n - 1 => unit * unit * ((n - 1) * (n - 1)) > k * k * n
  <1> DEFINE kk == k * k
             uu == unit * unit
             m == n - 1
  <1>1. kk \in Nat /\ uu \in Nat /\ m \in Nat /\ denom \in Nat
    <2>1. kk \in Int /\ kk >= 0 /\ uu \in Int /\ uu >= 0
      BY SquareNonneg
    <2> QED BY <2>1
  <1>2. square <= m * spread /\ uu * (square * denom) > kk * (n * spread)
    OBVIOUS
  <1> HIDE DEF kk, uu, m
  <1> DEFINE most == m * spread
  <1>3. most \in Nat /\ square <= most
    BY <1>1, <1>2
  <1> HIDE DEF most
  <1> DEFINE seen == square * denom
             bound == most * denom
  <1>4. seen \in Int /\ bound \in Int /\ seen <= bound
    BY <1>1, <1>3, Scaled
  <1>5. bound = (m * denom) * spread
    BY <1>1, SMTT(30) DEF most
  <1> HIDE DEF seen, bound
  <1>6. seen * uu <= bound * uu /\ seen * uu = uu * seen
    BY <1>1, <1>4, Scaled
  <1> DEFINE md == m * denom
             left == kk * n
             right == uu * md
  <1>7. md \in Nat
    BY <1>1
  <1>8. bound * uu = right * spread
    <2>1. bound = md * spread
      BY <1>5
    <2> HIDE DEF md
    <2> QED BY <1>1, <1>7, <2>1, SMTT(30)
  <1>9. kk * (n * spread) = left * spread
    BY <1>1, SMTT(30)
  <1>10. left \in Nat /\ right \in Nat
    <2> HIDE DEF md
    <2> QED BY <1>1, <1>7
  <1>11. left * spread < uu * seen
    BY <1>2, <1>9 DEF seen
  <1> HIDE DEF left, right
  <1>12. left * spread < right * spread
    <2>1. left * spread \in Int /\ right * spread \in Int /\ seen * uu \in Int
      BY <1>1, <1>4, <1>10
    <2> QED BY <1>6, <1>8, <1>11, <2>1
  <1>13. left < right
    BY <1>10, <1>12, Unscaled
  <1>14. ASSUME denom = m PROVE uu * (m * m) > kk * n
    BY <1>13, <1>14 DEF left, right
  <1>15. ASSUME denom = n PROVE uu * m > kk
    <2>1. right = (uu * m) * n
      BY <1>1, <1>15, SMTT(30) DEF right
    <2>2. kk * n < (uu * m) * n
      BY <1>13, <2>1 DEF left
    <2>3. uu * m \in Int
      BY <1>1
    <2> QED BY <1>1, <2>2, <2>3, Unscaled
  <1> QED BY <1>14, <1>15 DEF kk, uu, m
-----------------------------------------------------------------------------
\* The entries of q are entries of s, in the order of s.
Embedding(f, q, s) ==
    /\ f \in [1..Len(q) -> 1..Len(s)]
    /\ \A i, j \in 1..Len(q) : i < j => f[i] < f[j]
    /\ \A i \in 1..Len(q) : q[i] = s[f[i]]
Embeds(q, s) == \E f : Embedding(f, q, s)

LEMMA EmbedsItself == \A R : \A s \in Seq(R) : Embeds(s, s)
  <1> SUFFICES ASSUME NEW R, NEW s \in Seq(R) PROVE Embeds(s, s)
    OBVIOUS
  <1> DEFINE n == Len(s)
             f == [i \in 1..n |-> i]
  <1>1. n \in Nat
    OBVIOUS
  <1> HIDE DEF n
  <1>2. /\ f \in [1..n -> 1..n] /\ \A i, j \in 1..n : i < j => f[i] < f[j]
        /\ \A i \in 1..n : s[i] = s[f[i]]
    BY <1>1
  <1>3. Embedding(f, s, s)
    BY <1>2 DEF Embedding, n
  <1> QED BY <1>3 DEF Embeds

LEMMA EmbedsFurther ==
  ASSUME NEW R, NEW p \in Seq(R), NEW q \in Seq(R), NEW s \in Seq(R), Embeds(p, q), Embeds(q, s)
  PROVE  Embeds(p, s)
  <1>1. PICK f : Embedding(f, p, q)
    BY DEF Embeds
  <1>2. PICK g : Embedding(g, q, s)
    BY DEF Embeds
  <1> DEFINE l == Len(p)
             m == Len(q)
             n == Len(s)
             h == [i \in 1..l |-> g[f[i]]]
  <1>3. l \in Nat /\ m \in Nat /\ n \in Nat
    OBVIOUS
  <1>4. /\ f \in [1..l -> 1..m] /\ \A i, j \in 1..l : i < j => f[i] < f[j]
        /\ \A i \in 1..l : p[i] = q[f[i]]
    BY <1>1 DEF Embedding
  <1>5. /\ g \in [1..m -> 1..n] /\ \A i, j \in 1..m : i < j => g[i] < g[j]
        /\ \A i \in 1..m : q[i] = s[g[i]]
    BY <1>2 DEF Embedding
  <1> HIDE DEF l, m, n
  <1>6. \A i \in 1..l : f[i] \in 1..m /\ h[i] = g[f[i]] /\ g[f[i]] \in 1..n
    BY <1>4, <1>5
  <1>7. h \in [1..l -> 1..n] /\ \A i \in 1..l : p[i] = s[h[i]]
    BY <1>4, <1>5, <1>6
  <1>8. \A i, j \in 1..l : i < j => h[i] < h[j]
    BY <1>4, <1>5, <1>6
  <1> HIDE DEF h
  <1>9. Embedding(h, p, s)
    BY <1>7, <1>8 DEF Embedding, l, n
  <1> QED BY <1>9 DEF Embeds

LEMMA EmbedsLonger ==
  ASSUME NEW R, NEW q \in Seq(R), NEW s \in Seq(R), NEW e \in R, Embeds(q, s)
  PROVE  Embeds(q, Append(s, e)) /\ Embeds(Append(q, e), Append(s, e))
  <1>1. PICK f : Embedding(f, q, s)
    BY DEF Embeds
  <1> DEFINE m == Len(q)
             n == Len(s)
             qe == Append(q, e)
             se == Append(s, e)
             h == [i \in 1..(m + 1) |-> IF i = m + 1 THEN n + 1 ELSE f[i]]
  <1>2. m \in Nat /\ n \in Nat
    OBVIOUS
  <1>3. /\ f \in [1..m -> 1..n] /\ \A i, j \in 1..m : i < j => f[i] < f[j]
        /\ \A i \in 1..m : q[i] = s[f[i]]
    BY <1>1 DEF Embedding
  <1>4. /\ Len(qe) = m + 1 /\ Len(se) = n + 1
        /\ \A i \in 1..m : qe[i] = q[i]
        /\ \A i \in 1..n : se[i] = s[i]
        /\ qe[m + 1] = e /\ se[n + 1] = e
    OBVIOUS
  <1> HIDE DEF m, n, qe, se
  <1>5. \A i \in 1..m : f[i] \in 1..n /\ f[i] \in 1..(n + 1) /\ se[f[i]] = s[f[i]]
    BY <1>2, <1>3, <1>4
  <1>6. Embedding(f, q, se)
    <2>1. f \in [1..m -> 1..(n + 1)]
      BY <1>3, <1>5
    <2> QED BY <1>3, <1>4, <1>5, <2>1 DEF Embedding, m
  <1>7. /\ \A i \in 1..m : i \in 1..(m + 1) /\ i # m + 1 /\ h[i] = f[i]
        /\ m + 1 \in 1..(m + 1) /\ h[m + 1] = n + 1
    BY <1>2
  <1>8. \A i \in 1..(m + 1) : i = m + 1 \/ i \in 1..m
    BY <1>2
  <1>9. h \in [1..(m + 1) -> 1..(n + 1)]
    BY <1>2, <1>5
  <1> HIDE DEF h
  <1>10. \A i \in 1..(m + 1) : qe[i] = se[h[i]]
    BY <1>3, <1>4, <1>5, <1>7, <1>8
  <1>11. ASSUME NEW i \in 1..(m + 1), NEW j \in 1..(m + 1), i < j PROVE h[i] < h[j]
    <2>1. i \in 1..m
      BY <1>2, <1>11
    <2>2. CASE j = m + 1
      BY <1>2, <1>5, <1>7, <2>1, <2>2
    <2>3. CASE j # m + 1
      BY <1>3, <1>7, <1>8, <1>11, <2>1, <2>3
    <2> QED BY <2>2, <2>3
  <1>12. Embedding(h, qe, se)
    BY <1>4, <1>9, <1>10, <1>11 DEF Embedding
  <1> QED BY <1>6, <1>12 DEF Embeds, qe, se

LEMMA ThoseEmbed ==
  ASSUME NEW R, NEW S
  PROVE  \A s \in Seq(R) : Embeds(Those(s, S), s)
  <1> DEFINE P == {s \in Seq(R) : Embeds(Those(s, S), s)}
  <1>1. <<>> \in P
    <2>1. <<>> \in Seq(R) /\ Those(<<>>, S) = <<>>
      BY ThoseAppend, EmptySeq
    <2> QED BY <2>1, EmbedsItself
  <1>2. ASSUME NEW s \in Seq(R), NEW e \in R, s \in P PROVE Append(s, e) \in P
    <2> DEFINE q == Those(s, S)
               next == Those(Append(s, e), S)
    <2>1. q \in Seq(R) /\ next = Add(q, e, S)
      BY ThoseAppend
    <2>2. Embeds(q, s)
      BY <1>2
    <2>3. Embeds(q, Append(s, e)) /\ Embeds(Append(q, e), Append(s, e))
      BY <2>1, <2>2, EmbedsLonger
    <2> HIDE DEF q, next
    <2>4. Embeds(next, Append(s, e))
      BY <2>1, <2>3, Zenon DEF Add
    <2>5. Append(s, e) \in Seq(R)
      OBVIOUS
    <2> QED BY <2>4, <2>5 DEF next
  <1> HIDE DEF P
  <1>3. \A s \in Seq(R) : s \in P
    BY <1>1, <1>2, SeqSetInduction
  <1> QED BY <1>3 DEF P

LEMMA PartEmbeds ==
  ASSUME NEW R, NEW s \in Seq(R), NEW m \in Nat \ {0}
  PROVE  SubSeq(s, m, Len(s)) \in Seq(R) /\ Embeds(SubSeq(s, m, Len(s)), s)
  <1> DEFINE n == Len(s)
             q == SubSeq(s, m, n)
             l == Len(q)
             f == [i \in 1..l |-> m + i - 1]
  <1>1. n \in Nat /\ \A i \in m..n : i \in 1..n /\ s[i] \in R
    OBVIOUS
  <1>2. /\ q \in Seq(R) /\ l = (IF m <= n THEN n - m + 1 ELSE 0)
        /\ \A i \in 1..(n - m + 1) : q[i] = s[m + i - 1]
    <2> HIDE DEF n
    <2> QED BY <1>1, SubSeqProperties
  <1> HIDE DEF n, q, l
  <1>3. l \in Nat /\ \A i \in 1..l : m + i - 1 \in 1..n /\ i \in 1..(n - m + 1)
    BY <1>1, <1>2
  <1>4. /\ f \in [1..l -> 1..n] /\ \A i, j \in 1..l : i < j => f[i] < f[j]
        /\ \A i \in 1..l : q[i] = s[f[i]]
    BY <1>2, <1>3
  <1> HIDE DEF f
  <1>5. Embedding(f, q, s)
    BY <1>4 DEF Embedding, l, n
  <1> QED BY <1>2, <1>5 DEF Embeds, q, n

\* Between two entries of an embedded sequence lie at least as many of the
\* other.
LEMMA EmbeddingGrows ==
  ASSUME NEW n \in Nat, NEW m \in Nat, NEW f \in [1..n -> 1..m],
         \A i, j \in 1..n : i < j => f[i] < f[j]
  PROVE  \A k \in Nat : \A i \in 1..n : i + k <= n => f[i + k] >= f[i] + k
  <1> DEFINE P == {k \in Nat : \A i \in 1..n : i + k <= n => f[i + k] >= f[i] + k}
  <1>0. \A i \in 1..n : f[i] \in Nat
    OBVIOUS
  <1>1. 0 \in P
    BY <1>0
  <1>2. ASSUME NEW k \in Nat, k \in P PROVE k + 1 \in P
    <2> SUFFICES ASSUME NEW i \in 1..n, i + (k + 1) <= n PROVE f[i + (k + 1)] >= f[i] + (k + 1)
      OBVIOUS
    <2> DEFINE a == i + k
               b == i + (k + 1)
    <2>1. a \in 1..n /\ b \in 1..n /\ a < b /\ a <= n
      OBVIOUS
    <2>2. f[a] >= f[i] + k
      BY <1>2, <2>1
    <2>3. f[a] < f[b]
      BY <2>1
    <2>4. f[a] \in Nat /\ f[b] \in Nat /\ f[i] \in Nat
      BY <1>0, <2>1
    <2> HIDE DEF a, b
    <2>5. f[b] >= f[i] + (k + 1)
      BY <2>2, <2>3, <2>4
    <2> QED BY <2>5 DEF b
  <1> HIDE DEF P
  <1>3. \A k \in Nat : k \in P
    BY <1>1, <1>2, NatSetInduction
  <1> QED BY <1>3 DEF P

\* The samples of a query are rows of the table, in its order.
LEMMA FetchedEmbeds ==
  ASSUME NEW R, NEW rows \in Seq(R), NEW since, NEW limit \in Int
  PROVE  Embeds(fetchSamples(rows, since, limit), rows)
  <1> DEFINE recent == Those(rows, {r \in ToSet(rows) : r.ts >= Seconds(Unix(since))})
             fetched == FetchRecentRows(rows, since, limit)
             m == Max({1, Len(recent) - limit + 1})
  <1>1. recent \in Seq(R) /\ Embeds(recent, rows)
    BY ThoseMembers, ThoseEmbed
  <1>2. fetched = SubSeq(recent, m, Len(recent))
    BY Zenon DEF FetchRecentRows
  <1> HIDE DEF recent, fetched
  <1>3. m \in Nat \ {0}
    <2>1. m \in Int /\ m >= 1
      BY <1>1, NewestEntries, Zenon
    <2> HIDE DEF m
    <2> QED BY <2>1
  <1> HIDE DEF m
  <1>4. fetched \in Seq(R) /\ Embeds(fetched, recent)
    BY <1>1, <1>2, <1>3, PartEmbeds
  <1>5. Readable(fetched) \in Seq(R) /\ Embeds(Readable(fetched), fetched)
    BY <1>4, ThoseMembers, ThoseEmbed DEF Readable
  <1>6. fetchSamples(rows, since, limit) = Readable(fetched)
    BY DEF fetchSamples, fetched
  <1> QED BY <1>1, <1>4, <1>5, <1>6, EmbedsFurther

\* Numbers without spread are all the same, so that a regression has a line
\* unless all its samples have the same x.
LEMMA NoSpread ==
  \A s \in Seq(Int) : Spread(s) = 0 => \A i \in 1..Len(s) : s[i] = s[Len(s)]
  <1> DEFINE P == {s \in Seq(Int) : Spread(s) = 0 => \A i \in 1..Len(s) : s[i] = s[Len(s)]}
  <1>1. <<>> \in P
    OBVIOUS
  <1>2. ASSUME NEW t \in Seq(Int), NEW v \in Int, t \in P PROVE Append(t, v) \in P
    <2> DEFINE s == Append(t, v)
               n == Len(t)
               q == SumSeq(Squares(t))
               m == SumSeq(t)
    <2>1. /\ n \in Nat /\ m \in Int /\ q \in Int /\ s \in Seq(Int) /\ Len(s) = n + 1
          /\ SumSeq(s) = m + v /\ SumSeq(Squares(s)) = q + v * v
          /\ n = 0 => m = 0 /\ q = 0
      BY Moments
    <2>2. s[n + 1] = v /\ \A i \in 1..n : s[i] = t[i] /\ t[i] \in Int
      OBVIOUS
    <2>3. /\ Spread(s) = (n + 1) * (q + v * v) - (m + v) * (m + v)
          /\ Spread(t) = n * q - m * m
      BY <2>1 DEF Spread
    <2>4. Spread(t) \in Int /\ Spread(t) >= 0
      BY SpreadNonneg
    <2> HIDE DEF s, n, q, m
    <2> SUFFICES ASSUME Spread(s) = 0 PROVE \A i \in 1..(n + 1) : s[i] = s[n + 1]
      BY <2>1 DEF s
    <2> DEFINE growth == q + n * (v * v) - 2 * (m * v)
    <2>5. growth >= 0 /\ Spread(s) = Spread(t) + growth /\ growth \in Int
      <3>1. n * q - m * m >= 0
        BY <2>3, <2>4
      <3>2. /\ growth >= 0
            /\ (n + 1) * (q + v * v) - (m + v) * (m + v) = (n * q - m * m) + growth
        BY <2>1, <3>1, SpreadGrows
      <3>3. growth \in Int
        BY <2>1
      <3> HIDE DEF growth
      <3> QED BY <2>3, <3>2, <3>3
    <2> HIDE DEF growth
    <2>6. Spread(t) = 0
      BY <2>4, <2>5
    <2>7. \A i \in 1..n : t[i] = t[n]
      BY <1>2, <2>6 DEF n
    <2>8. n * v = m
      <3> DEFINE distance == (n + 1) * s[n + 1] - SumSeq(s)
      <3>1. s # <<>>
        BY <2>1
      <3>2. distance \in Int /\ distance * distance <= ((n + 1) - 1) * Spread(s)
        BY <2>1, <3>1, LastWithinSpread
      <3> HIDE DEF distance
      <3>3. ((n + 1) - 1) * Spread(s) = 0
        BY <2>1
      <3>4. distance = 0
        <4>1. distance * distance <= 0
          BY <3>2, <3>3
        <4>2. \A x \in Int : x * x <= 0 => x = 0
          BY SMTT(30)
        <4> QED BY <3>2, <4>1, <4>2
      <3>5. (n + 1) * v = m + v
        BY <2>1, <2>2, <3>4 DEF distance
      <3>6. (n + 1) * v = n * v + v /\ n * v \in Int
        BY <2>1, SMTT(30)
      <3> QED BY <2>1, <3>5, <3>6
    <2>9. n # 0 => t[n] = v
      <3> SUFFICES ASSUME n # 0 PROVE t[n] = v
        OBVIOUS
      <3>1. n \in 1..n /\ t[n] \in Int /\ n - 1 \in Nat
        BY <2>1, <2>2
      <3> DEFINE distance == n * t[n] - m
      <3>2. t # <<>> /\ Len(t) = n /\ SumSeq(t) = m
        BY <3>1 DEF n, m
      <3>3. distance \in Int /\ distance * distance <= (n - 1) * Spread(t)
        BY <3>2, LastWithinSpread
      <3> HIDE DEF distance
      <3>4. (n - 1) * Spread(t) = 0
        BY <2>6, <3>1
      <3>5. distance = 0
        <4>1. distance * distance <= 0
          BY <3>3, <3>4
        <4>2. \A x \in Int : x * x <= 0 => x = 0
          BY SMTT(30)
        <4> QED BY <3>3, <4>1, <4>2
      <3>6. n * t[n] = n * v
        <4>1. n * t[n] \in Int
          BY <2>1, <3>1
        <4>2. m \in Int
          BY <2>1
        <4>3. n * t[n] - m = 0
          BY <3>5 DEF distance
        <4>4. \A x, y \in Int : x - y = 0 => x = y
          OBVIOUS
        <4>5. n * t[n] = m
          BY <4>1, <4>2, <4>3, <4>4, Zenon
        <4> QED BY <2>8, <4>5, Zenon
      <3>7. \A x, y \in Int, k \in Nat : (k # 0 /\ k * x = k * y) => x = y
        BY SMTT(30)
      <3> QED BY <2>1, <3>1, <3>6, <3>7
    <2> SUFFICES ASSUME NEW i \in 1..(n + 1) PROVE s[i] = v
      BY <2>2
    <2>10. CASE i = n + 1
      BY <2>2, <2>10
    <2>11. CASE i # n + 1
      <3>1. i \in 1..n /\ n # 0
        BY <2>1, <2>11
      <3> QED BY <2>2, <2>7, <2>9, <3>1
    <2> QED BY <2>10, <2>11
  <1> HIDE DEF P
  <1>3. \A s \in Seq(Int) : s \in P
    BY <1>1, <1>2, SeqSetInduction
  <1> QED BY <1>3 DEF P

-----------------------------------------------------------------------------
\* The sequence s ends with the entries of q.
Ends(q, s) ==
    Len(q) <= Len(s) /\ \A i \in 1..Len(q) : q[i] = s[Len(s) - Len(q) + i]

LEMMA EndsFurther ==
  ASSUME NEW R, NEW p \in Seq(R), NEW q \in Seq(R), NEW s \in Seq(R), Ends(p, q), Ends(q, s)
  PROVE  Ends(p, s)
  <1> DEFINE l == Len(p)
             m == Len(q)
             n == Len(s)
  <1>1. l \in Nat /\ m \in Nat /\ n \in Nat
    OBVIOUS
  <1>2. l <= m /\ \A i \in 1..l : p[i] = q[m - l + i]
    BY DEF Ends
  <1>3. m <= n /\ \A i \in 1..m : q[i] = s[n - m + i]
    BY DEF Ends
  <1> HIDE DEF l, m, n
  <1>4. ASSUME NEW i \in 1..l PROVE p[i] = s[n - l + i]
    <2>1. m - l + i \in 1..m /\ n - m + (m - l + i) = n - l + i
      BY <1>1, <1>2
    <2> QED BY <1>2, <1>3, <2>1
  <1>5. l <= n
    BY <1>1, <1>2, <1>3
  <1> QED BY <1>4, <1>5 DEF Ends, l, n

\* Sequences end alike before and after the same entry.
LEMMA EndsLonger ==
  ASSUME NEW R, NEW q \in Seq(R), NEW s \in Seq(R), NEW e \in R
  PROVE  /\ Ends(q, s) <=> Ends(Append(q, e), Append(s, e))
         /\ \A t \in Seq(R) : (Ends(t, Append(s, e)) /\ t # <<>>) =>
               \E u \in Seq(R) : t = Append(u, e) /\ Ends(u, s)
  <1> DEFINE qe == Append(q, e)
             se == Append(s, e)
             m == Len(q)
             n == Len(s)
  <1>1. /\ m \in Nat /\ n \in Nat /\ Len(qe) = m + 1 /\ Len(se) = n + 1
        /\ qe[m + 1] = e /\ \A i \in 1..m : qe[i] = q[i]
        /\ se[n + 1] = e /\ \A i \in 1..n : se[i] = s[i]
    OBVIOUS
  <1> HIDE DEF qe, se, m, n
  <1>2. (m <= n) <=> (m + 1 <= n + 1)
    BY <1>1
  <1>3. ASSUME m <= n
        PROVE  (\A i \in 1..m : q[i] = s[n - m + i])
                  <=> \A i \in 1..(m + 1) : qe[i] = se[(n + 1) - (m + 1) + i]
    <2>1. \A i \in 1..m : /\ n - m + i \in 1..n /\ (n + 1) - (m + 1) + i = n - m + i
                          /\ i \in 1..(m + 1)
      BY <1>1, <1>3
    <2>2. \A i \in 1..(m + 1) : i \in 1..m \/ i = m + 1
      BY <1>1
    <2>3. (n + 1) - (m + 1) + (m + 1) = n + 1
      BY <1>1
    <2> QED BY <1>1, <2>1, <2>2, <2>3
  <1>4. Ends(q, s) <=> Ends(qe, se)
    BY <1>1, <1>2, <1>3 DEF Ends, m, n
  <1>5. ASSUME NEW t \in Seq(R), Ends(t, se), t # <<>>
        PROVE  \E u \in Seq(R) : t = Append(u, e) /\ Ends(u, s)
    <2> DEFINE l == Len(t)
               u == SubSeq(t, 1, l - 1)
    <2>1. l \in Nat /\ l >= 1 /\ \A i \in 1..l : t[i] \in R
      BY <1>5
    <2>2. l <= n + 1 /\ \A i \in 1..l : t[i] = se[n + 1 - l + i]
      BY <1>1, <1>5 DEF Ends
    <2>3. u \in Seq(R) /\ Len(u) = l - 1 /\ \A i \in 1..(l - 1) : u[i] = t[i]
      <3>1. l - 1 \in 0..l
        BY <2>1
      <3> HIDE DEF u
      <3> QED BY <3>1, Beginnings DEF u, l
    <2> HIDE DEF u
    <2>4. t[l] = e
      <3>1. l \in 1..l /\ n + 1 - l + l = n + 1
        BY <1>1, <2>1
      <3> QED BY <1>1, <2>2, <3>1
    <2>5. t = Append(u, e)
      <3>1. Append(u, e) \in Seq(R) /\ Len(Append(u, e)) = l
        BY <2>1, <2>3
      <3>2. \A i \in 1..l : Append(u, e)[i] = t[i]
        <4>1. \A i \in 1..l : i \in 1..(l - 1) \/ i = (l - 1) + 1
          BY <2>1
        <4>2. (l - 1) + 1 = l
          BY <2>1
        <4> QED BY <2>3, <2>4, <4>1, <4>2
      <3> QED BY <3>1, <3>2 DEF l
    <2>6. Ends(u, s)
      <3>1. l - 1 <= n
        BY <1>1, <2>1, <2>2
      <3>2. \A i \in 1..(l - 1) : i \in 1..l /\ n - (l - 1) + i \in 1..n
                                  /\ n + 1 - l + i = n - (l - 1) + i
        BY <1>1, <2>1, <2>2
      <3>3. \A i \in 1..(l - 1) : u[i] = s[n - (l - 1) + i]
        BY <1>1, <2>2, <2>3, <3>2
      <3> QED BY <2>3, <3>1, <3>3 DEF Ends, n
    <2> QED BY <2>3, <2>5, <2>6
  <1> QED BY <1>4, <1>5 DEF qe, se

LEMMA PartEnds ==
  ASSUME NEW R, NEW s \in Seq(R), NEW m \in Nat \ {0}
  PROVE  Ends(SubSeq(s, m, Len(s)), s)
  <1> DEFINE n == Len(s)
             part == SubSeq(s, m, n)
  <1>1. n \in Nat /\ \A i \in 1..n : s[i] \in R
    OBVIOUS
  <1> HIDE DEF n
  <1>2. /\ Len(part) = IF m <= n THEN n - m + 1 ELSE 0
        /\ \A i \in 1..(n - m + 1) : part[i] = s[m + i - 1]
    <2>1. \A i \in m..n : s[i] \in R
      BY <1>1
    <2> HIDE DEF part
    <2> QED BY <1>1, <2>1, SubSeqProperties DEF part
  <1> HIDE DEF part
  <1>3. CASE m <= n
    <2>1. \A i \in 1..(n - m + 1) : m + i - 1 = n - (n - m + 1) + i
      BY <1>1
    <2>2. n - m + 1 <= n /\ Len(part) = n - m + 1
      BY <1>1, <1>2, <1>3
    <2>3. Ends(part, s)
      BY <1>2, <2>1, <2>2 DEF Ends, n
    <2> QED BY <2>3 DEF part, n
  <1>4. CASE ~(m <= n)
    <2>1. Len(part) = 0 /\ 1..0 = {}
      BY <1>2, <1>4
    <2>2. Ends(part, s)
      BY <1>1, <2>1 DEF Ends, n
    <2> QED BY <2>2 DEF part, n
  <1> QED BY <1>3, <1>4

\* What is kept of the end of a sequence is the end of what is kept.
LEMMA ThoseEnd ==
  ASSUME NEW R, NEW S
  PROVE  \A s \in Seq(R) : \A t \in Seq(R) : Ends(t, s) => Ends(Those(t, S), Those(s, S))
  <1> DEFINE P == {s \in Seq(R) : \A t \in Seq(R) : Ends(t, s) => Ends(Those(t, S), Those(s, S))}
  <1>1. \A s \in Seq(R) : Ends(<<>>, s)
    BY DEF Ends
  <1>2. <<>> \in P
    <2>1. ASSUME NEW t \in Seq(R), Ends(t, <<>>) PROVE t = <<>>
      BY <2>1 DEF Ends
    <2>2. <<>> \in Seq(R)
      OBVIOUS
    <2>3. Those(<<>>, S) = <<>>
      BY ThoseAppend, Zenon
    <2> QED BY <1>1, <2>1, <2>2, <2>3, Zenon
  <1>3. ASSUME NEW s \in Seq(R), NEW e \in R, s \in P PROVE Append(s, e) \in P
    <2> SUFFICES ASSUME NEW t \in Seq(R), Ends(t, Append(s, e))
                 PROVE  Ends(Those(t, S), Those(Append(s, e), S))
      OBVIOUS
    <2>1. Those(s, S) \in Seq(R) /\ Those(Append(s, e), S) = Add(Those(s, S), e, S)
      BY ThoseAppend
    <2>2. CASE t = <<>>
      <3>1. Those(t, S) = <<>> /\ Those(Append(s, e), S) \in Seq(R)
        BY <2>1, <2>2, ThoseAppend, AddType
      <3> QED BY <1>1, <3>1
    <2>3. CASE t # <<>>
      <3>1. PICK u \in Seq(R) : t = Append(u, e) /\ Ends(u, s)
        BY <2>3, EndsLonger
      <3>2. Ends(Those(u, S), Those(s, S))
        BY <1>3, <3>1
      <3>3. Those(u, S) \in Seq(R) /\ Those(t, S) = Add(Those(u, S), e, S)
        BY <3>1, ThoseAppend
      <3> QED BY <2>1, <3>2, <3>3, EndsLonger DEF Add
    <2> QED BY <2>2, <2>3
  <1> HIDE DEF P
  <1>4. \A s \in Seq(R) : s \in P
    BY <1>2, <1>3, SeqSetInduction
  <1> QED BY <1>4 DEF P

\* A sequence in which what follows an entry of S is in S ends with what is
\* kept of it.
Settles(s, S) == \A i, j \in 1..Len(s) : i < j /\ s[i] \in S => s[j] \in S

LEMMA SettledEnd ==
  ASSUME NEW R, NEW S
  PROVE  \A s \in Seq(R) : Settles(s, S) => Ends(Those(s, S), s)
  <1> DEFINE P == {s \in Seq(R) : Settles(s, S) => Ends(Those(s, S), s)}
  <1>1. \A s \in Seq(R) : Ends(<<>>, s)
    BY DEF Ends
  <1>2. <<>> \in P
    <2>1. <<>> \in Seq(R)
      OBVIOUS
    <2>2. Those(<<>>, S) = <<>>
      BY ThoseAppend, Zenon
    <2> QED BY <1>1, <2>1, <2>2, Zenon
  <1>3. ASSUME NEW s \in Seq(R), NEW e \in R, s \in P PROVE Append(s, e) \in P
    <2> DEFINE se == Append(s, e)
               n == Len(s)
    <2>1. /\ n \in Nat /\ se \in Seq(R) /\ Len(se) = n + 1
          /\ se[n + 1] = e /\ \A i \in 1..n : se[i] = s[i]
      OBVIOUS
    <2> HIDE DEF se, n
    <2> SUFFICES ASSUME Settles(se, S) PROVE Ends(Those(se, S), se)
      BY <2>1 DEF se
    <2>2. \A i \in 1..n : i \in 1..(n + 1) /\ n + 1 \in 1..(n + 1) /\ i < n + 1
      BY <2>1
    <2>3. Settles(s, S) /\ \A i \in 1..n : s[i] \in S => e \in S
      BY <2>1, <2>2 DEF Settles, n
    <2>4. Those(s, S) \in Seq(R) /\ Those(se, S) = Add(Those(s, S), e, S)
      BY ThoseAppend DEF se
    <2>5. Ends(Those(s, S), s)
      BY <1>3, <2>3
    <2>6. CASE e \in S
      BY <2>4, <2>5, <2>6, EndsLonger DEF Add, se
    <2>7. CASE e \notin S
      <3>1. ToSet(s) \cap S = {}
        <4>1. ToSet(s) = {s[i] : i \in 1..n}
          BY ToSetAppend DEF n
        <4> QED BY <2>3, <2>7, <4>1
      <3>2. ToSet(Those(s, S)) = {} /\ Those(s, S) \in Seq(R)
        BY <3>1, ThoseMembers
      <3>3. Those(s, S) = <<>>
        BY <3>2, LastEntry
      <3>4. Those(se, S) = <<>>
        BY <2>4, <2>7, <3>3 DEF Add
      <3> QED BY <1>1, <2>1, <3>4
    <2> QED BY <2>6, <2>7
  <1> HIDE DEF P
  <1>4. \A s \in Seq(R) : s \in P
    BY <1>2, <1>3, SeqSetInduction
  <1> QED BY <1>4 DEF P

\* The rows that are as new as asked for end a table in order.
Recent(rows, since) == Those(rows, {r \in ToSet(rows) : r.ts >= Seconds(Unix(since))})

LEMMA RecentEnd ==
  ASSUME NEW R, NEW rows \in Seq(R), NEW since \in Int,
         TicksPerSecond \in Nat \ {0}, \A r \in R : r.ts \in Int,
         \A i, j \in 1..Len(rows) : i < j => rows[i].ts < rows[j].ts
  PROVE  Recent(rows, since) \in Seq(R) /\ Ends(Recent(rows, since), rows)
  <1> DEFINE bound == Seconds(Unix(since))
             S == {r \in ToSet(rows) : r.ts >= bound}
  <1>1. Recent(rows, since) = Those(rows, S)
    BY DEF Recent
  <1>2. Those(rows, S) \in Seq(R)
    BY ThoseMembers
  <1>3. bound \in Int
    <2>1. Unix(since) \in Int
      BY DEF Unix
    <2> HIDE DEF bound
    <2> QED BY <2>1 DEF Seconds, bound
  <1> HIDE DEF bound
  <1>4. \A i \in 1..Len(rows) : rows[i] \in R /\ rows[i] \in ToSet(rows)
    BY ToSetAppend
  <1>5. \A i \in 1..Len(rows) : rows[i] \in S <=> rows[i].ts >= bound
    BY <1>4
  <1>6. \A i, j \in 1..Len(rows) : i < j /\ rows[i].ts >= bound => rows[j].ts >= bound
    <2> SUFFICES ASSUME NEW i \in 1..Len(rows), NEW j \in 1..Len(rows), i < j,
                        rows[i].ts >= bound
                 PROVE  rows[j].ts >= bound
      OBVIOUS
    <2>1. rows[i].ts < rows[j].ts /\ rows[i].ts \in Int /\ rows[j].ts \in Int
      BY <1>4
    <2> QED BY <1>3, <2>1
  <1> HIDE DEF S
  <1>7. Settles(rows, S)
    BY <1>5, <1>6, Zenon DEF Settles
  <1> QED BY <1>1, <1>2, <1>7, SettledEnd

\* What can be read of the end of a sequence ends what can be read of it.
LEMMA ReadableEnd ==
  ASSUME NEW R, NEW t \in Seq(R), NEW s \in Seq(R), Ends(t, s)
  PROVE  Ends(Readable(t), Readable(s))
  <1> DEFINE T == {r \in ToSet(s) : r.value # None}
  <1>1. ToSet(t) \subseteq ToSet(s)
    <2>1. ToSet(t) = {t[i] : i \in 1..Len(t)} /\ ToSet(s) = {s[i] : i \in 1..Len(s)}
      BY ToSetAppend
    <2>2. ASSUME NEW i \in 1..Len(t) PROVE t[i] \in ToSet(s)
      <3>1. Len(s) - Len(t) + i \in 1..Len(s)
        BY LenProperties DEF Ends
      <3> QED BY <2>1, <3>1 DEF Ends
    <2> QED BY <2>1, <2>2
  <1>2. Readable(t) = Those(t, T)
    <2>1. \A e \in ToSet(t) : e \in {r \in ToSet(t) : r.value # None} <=> e \in T
      BY <1>1
    <2> HIDE DEF T
    <2> QED BY <2>1, ThoseAgree DEF Readable
  <1>3. Readable(s) = Those(s, T)
    BY DEF Readable
  <1> HIDE DEF T
  <1> QED BY <1>2, <1>3, ThoseEnd

\* The samples of a query are the newest rows of a table in order that can be
\* read, without a gap.
LEMMA FetchedEnd ==
  ASSUME NEW R, NEW rows \in Seq(R), NEW since \in Int, NEW limit \in Int,
         TicksPerSecond \in Nat \ {0}, \A r \in R : r.ts \in Int,
         \A i, j \in 1..Len(rows) : i < j => rows[i].ts < rows[j].ts
  PROVE  Ends(fetchSamples(rows, since, limit), Readable(rows))
  <1> DEFINE recent == Recent(rows, since)
             fetched == FetchRecentRows(rows, since, limit)
             m == Max({1, Len(recent) - limit + 1})
  <1>1. recent \in Seq(R) /\ Ends(recent, rows)
    BY RecentEnd
  <1>2. fetched = SubSeq(recent, m, Len(recent))
    BY Zenon DEF FetchRecentRows, Recent
  <1> HIDE DEF recent, fetched
  <1>3. m \in Nat \ {0}
    <2>1. m \in Int /\ m >= 1
      BY <1>1, NewestEntries, Zenon
    <2> HIDE DEF m
    <2> QED BY <2>1
  <1> HIDE DEF m
  <1>4. fetched \in Seq(R) /\ Ends(fetched, recent)
    BY <1>1, <1>2, <1>3, PartEnds, PartEmbeds
  <1>5. Ends(fetched, rows)
    BY <1>1, <1>4, EndsFurther
  <1>6. Ends(Readable(fetched), Readable(rows))
    BY <1>4, <1>5, ReadableEnd
  <1> QED BY <1>6 DEF fetchSamples, fetched

\* The last w entries of a sequence are those of every end that has as many.
LEMMA NewestOfEnd ==
  ASSUME NEW R, NEW q \in Seq(R), NEW s \in Seq(R), Ends(q, s), NEW w \in Nat, w <= Len(q)
  PROVE  /\ w <= Len(s)
         /\ SubSeq(s, Max({1, Len(s) - w + 1}), Len(s)) = SubSeq(q, Len(q) - w + 1, Len(q))
  <1> DEFINE m == Len(q)
             n == Len(s)
  <1>1. m \in Nat /\ n \in Nat /\ (\A i \in 1..m : q[i] \in R) /\ \A i \in 1..n : s[i] \in R
    OBVIOUS
  <1>2. m <= n /\ \A i \in 1..m : q[i] = s[n - m + i]
    BY DEF Ends
  <1>3. w <= m
    OBVIOUS
  <1> HIDE DEF m, n
  <1>4. w <= n
    BY <1>1, <1>2, <1>3
  <1>5. Max({1, n - w + 1}) = n - w + 1
    <2> DEFINE b == n - w + 1
    <2>1. b \in Int /\ 1 \in Int /\ b >= 1
      BY <1>1, <1>4
    <2> HIDE DEF b
    <2>2. Max({1, b}) >= b /\ (Max({1, b}) = 1 \/ Max({1, b}) = b) /\ Max({1, b}) \in Int
      BY <2>1, MaxOfTwo, Zenon
    <2>3. Max({1, b}) = b
      <3> DEFINE x == Max({1, b})
      <3> HIDE DEF x
      <3>1. x >= b /\ (x = 1 \/ x = b) /\ x \in Int
        BY <2>2, Zenon DEF x
      <3>2. x = b
        BY <2>1, <3>1
      <3> QED BY <3>2, Zenon DEF x
    <2> QED BY <2>3, Zenon DEF b
  <1> DEFINE t == SubSeq(s, n - w + 1, n)
             p == SubSeq(q, m - w + 1, m)
  <1>6. t \in Seq(R) /\ Len(t) = w /\ \A i \in 1..w : t[i] = s[n - w + i]
    <2> DEFINE a == n - w + 1
    <2>1. a \in Int /\ n \in Int /\ (\A i \in a..n : s[i] \in R) /\ n - a + 1 = w
          /\ \A i \in 1..w : a + i - 1 = n - w + i
      BY <1>1, <1>4
    <2>2. a <= n \/ w = 0
      BY <1>1
    <2> HIDE DEF a
    <2>3. /\ SubSeq(s, a, n) \in Seq(R)
          /\ Len(SubSeq(s, a, n)) = (IF a <= n THEN n - a + 1 ELSE 0)
          /\ \A i \in 1..(n - a + 1) : SubSeq(s, a, n)[i] = s[a + i - 1]
      BY <2>1, SubSeqProperties
    <2>4. t = SubSeq(s, a, n)
      BY Zenon DEF a
    <2> HIDE DEF t
    <2> QED BY <2>1, <2>2, <2>3, <2>4
  <1>7. p \in Seq(R) /\ Len(p) = w /\ \A i \in 1..w : p[i] = q[m - w + i]
    <2> DEFINE a == m - w + 1
    <2>1. a \in Int /\ m \in Int /\ (\A i \in a..m : q[i] \in R) /\ m - a + 1 = w
          /\ \A i \in 1..w : a + i - 1 = m - w + i
      BY <1>1, <1>3
    <2>2. a <= m \/ w = 0
      BY <1>1
    <2> HIDE DEF a
    <2>3. /\ SubSeq(q, a, m) \in Seq(R)
          /\ Len(SubSeq(q, a, m)) = (IF a <= m THEN m - a + 1 ELSE 0)
          /\ \A i \in 1..(m - a + 1) : SubSeq(q, a, m)[i] = q[a + i - 1]
      BY <2>1, SubSeqProperties
    <2>4. p = SubSeq(q, a, m)
      BY Zenon DEF a
    <2> HIDE DEF p
    <2> QED BY <2>1, <2>2, <2>3, <2>4
  <1> HIDE DEF t, p
  <1>8. \A i \in 1..w : t[i] = p[i]
    <2> SUFFICES ASSUME NEW i \in 1..w PROVE t[i] = p[i]
      OBVIOUS
    <2>1. m - w + i \in 1..m /\ n - m + (m - w + i) = n - w + i
      BY <1>1, <1>3
    <2> QED BY <1>2, <1>6, <1>7, <2>1
  <1>9. t = p
    BY <1>6, <1>7, <1>8
  <1>10. t = SubSeq(s, n - w + 1, n) /\ p = SubSeq(q, m - w + 1, m)
    BY Zenon DEF t, p
  <1> QED BY <1>4, <1>5, <1>9, <1>10, Zenon DEF m, n

\* Steps that all exceed epsilon add up.
LEMMA StepsAddUp ==
  ASSUME NEW n \in Nat, NEW v \in [1..n -> Int], NEW epsilon \in Int,
         \A i \in 1..(n - 1) : v[i + 1] - v[i] > epsilon
  PROVE  \A i, j \in 1..n : i < j => v[j] - v[i] > (j - i) * epsilon
  <1> DEFINE P == {k \in Nat : k # 0 => \A i \in 1..n : i + k <= n => v[i + k] - v[i] > k * epsilon}
  <1>1. 0 \in P
    OBVIOUS
  <1>2. ASSUME NEW k \in Nat, k \in P PROVE k + 1 \in P
    <2> SUFFICES ASSUME NEW i \in 1..n, i + (k + 1) <= n
                 PROVE  v[i + (k + 1)] - v[i] > (k + 1) * epsilon
      OBVIOUS
    <2>1. /\ i + k \in 1..(n - 1) /\ i + k \in 1..n /\ i + k <= n
          /\ (i + k) + 1 = i + (k + 1) /\ i + (k + 1) \in 1..n
      OBVIOUS
    <2>2. v[i + (k + 1)] - v[i + k] > epsilon
      BY <2>1
    <2>3. v[i] \in Int /\ v[i + k] \in Int /\ v[i + (k + 1)] \in Int
      BY <2>1
    <2>4. (k + 1) * epsilon = k * epsilon + epsilon /\ k * epsilon \in Int
      BY SMTT(30)
    <2>5. CASE k = 0
      <3>1. k * epsilon = 0 /\ i + k = i
        BY <2>5
      <3> QED BY <2>2, <2>3, <2>4, <3>1
    <2>6. CASE k # 0
      <3>1. v[i + k] - v[i] > k * epsilon
        BY <1>2, <2>1, <2>6
      <3> QED BY <2>2, <2>3, <2>4, <3>1
    <2> QED BY <2>5, <2>6
  <1> HIDE DEF P
  <1>3. \A k \in Nat : k \in P
    BY <1>1, <1>2, NatSetInduction
  <1> SUFFICES ASSUME NEW i \in 1..n, NEW j \in 1..n, i < j
               PROVE  v[j] - v[i] > (j - i) * epsilon
    OBVIOUS
  <1>4. j - i \in Nat /\ j - i # 0 /\ i + (j - i) = j /\ i + (j - i) <= n
    OBVIOUS
  <1>5. \A k \in Nat : k # 0 => (i + k <= n => v[i + k] - v[i] > k * epsilon)
    BY <1>3 DEF P
  <1> QED BY <1>4, <1>5

\* As many samples as the limit, if the table has them and all can be read.
LEMMA FetchedLength ==
  ASSUME NEW R, NEW rows \in Seq(R), \A r \in ToSet(rows) : r.value # None,
         NEW since, NEW limit \in Nat
  PROVE  /\ Len(Recent(rows, since)) \in Nat
         /\ Len(fetchSamples(rows, since, limit))
               = IF limit <= Len(Recent(rows, since)) THEN limit ELSE Len(Recent(rows, since))
  <1> DEFINE recent == Recent(rows, since)
             fetched == Newest(recent, limit)
             m == Max({1, Len(recent) - limit + 1})
  <1>1. recent \in Seq(R) /\ ToSet(recent) \subseteq ToSet(rows)
    BY ThoseMembers DEF Recent
  <1> HIDE DEF recent
  <1>2. /\ fetched \in Seq(R) /\ ToSet(fetched) \subseteq ToSet(recent)
        /\ m \in Int /\ m >= 1 /\ (m = 1 \/ m = Len(recent) - limit + 1)
        /\ m >= Len(recent) - limit + 1
        /\ Len(fetched) = IF m <= Len(recent) THEN Len(recent) - m + 1 ELSE 0
    <2>1. limit \in Int
      OBVIOUS
    <2> QED BY <1>1, <2>1, NewestEntries, Zenon
  <1>3. FetchRecentRows(rows, since, limit) = fetched
    BY Zenon DEF FetchRecentRows, Newest, recent, Recent
  <1> HIDE DEF fetched, m
  <1>4. Readable(fetched) = fetched
    <2>1. ToSet(fetched) \subseteq {r \in ToSet(fetched) : r.value # None}
      BY <1>1, <1>2
    <2> QED BY <1>2, <2>1, ThoseMembers DEF Readable
  <1>5. fetchSamples(rows, since, limit) = fetched
    BY <1>3, <1>4 DEF fetchSamples
  <1>6. Len(recent) \in Nat
    BY <1>1
  <1>7. Len(fetched) = IF limit <= Len(recent) THEN limit ELSE Len(recent)
    BY <1>2, <1>6
  <1> QED BY <1>5, <1>6, <1>7 DEF recent

LEMMA NotFiltered ==
  ASSUME NEW R, NEW s \in Seq(R)
  PROVE  filterSamplesByRange(s, None, None) = s
  <1>1. ToSet(s) \subseteq {r \in ToSet(s) : /\ None = None \/ r.ts >= None
                                             /\ None = None \/ r.ts <= None}
    OBVIOUS
  <1> QED BY <1>1, ThoseMembers DEF filterSamplesByRange

LEMMA MoreGroups ==
  \A a, b \in Nat, k \in Nat \ {0} : a <= b => a \div k <= b \div k
  <1>1. \A x, y \in Int, k \in Nat : x <= y => x * k <= y * k
    BY SMTT(30)
  <1> SUFFICES ASSUME NEW a \in Nat, NEW b \in Nat, NEW k \in Nat \ {0}, a <= b
               PROVE  a \div k <= b \div k
    OBVIOUS
  <1> DEFINE p == a \div k
             q == b \div k
  <1>2. p \in Int /\ q \in Int /\ p * k <= a /\ b < (q + 1) * k
    BY SMTT(30)
  <1> HIDE DEF p, q
  <1>3. p * k < (q + 1) * k
    <2>1. p * k \in Int /\ (q + 1) * k \in Int
      BY <1>2
    <2> QED BY <1>2, <2>1
  <1>4. p < q + 1
    BY <1>2, <1>3, Unscaled
  <1>5. p <= q
    BY <1>2, <1>4
  <1> QED BY <1>5 DEF p, q

\* Of two ends of a sequence the shorter one ends the longer one.
LEMMA ShorterEnd ==
  ASSUME NEW R, NEW p \in Seq(R), NEW q \in Seq(R), NEW s \in Seq(R),
         Ends(p, s), Ends(q, s), Len(p) <= Len(q)
  PROVE  Ends(p, q)
  <1> DEFINE l == Len(p)
             m == Len(q)
             n == Len(s)
  <1>1. l \in Nat /\ m \in Nat /\ n \in Nat /\ l <= m
    OBVIOUS
  <1>2. \A i \in 1..l : p[i] = s[n - l + i]
    BY DEF Ends
  <1>3. \A i \in 1..m : q[i] = s[n - m + i]
    BY DEF Ends
  <1> HIDE DEF l, m, n
  <1>4. ASSUME NEW i \in 1..l PROVE p[i] = q[m - l + i]
    <2>1. m - l + i \in 1..m /\ n - m + (m - l + i) = n - l + i
      BY <1>1
    <2> QED BY <1>2, <1>3, <2>1
  <1> QED BY <1>1, <1>4 DEF Ends, l, m

\* A larger set keeps no fewer entries.
LEMMA ThoseMore ==
  ASSUME NEW R, NEW S, NEW T
  PROVE  \A s \in Seq(R) : ToSet(s) \cap S \subseteq T => Len(Those(s, S)) <= Len(Those(s, T))
  <1> DEFINE P == {s \in Seq(R) :
                     ToSet(s) \cap S \subseteq T => Len(Those(s, S)) <= Len(Those(s, T))}
  <1>1. <<>> \in P
    <2>1. <<>> \in Seq(R) /\ Those(<<>>, S) = <<>> /\ Those(<<>>, T) = <<>> /\ Len(<<>>) = 0
      BY ThoseAppend
    <2> QED BY <2>1
  <1>2. ASSUME NEW s \in Seq(R), NEW e \in R, s \in P PROVE Append(s, e) \in P
    <2> DEFINE p == Those(s, S)
               q == Those(s, T)
    <2>1. Append(s, e) \in Seq(R) /\ ToSet(Append(s, e)) = ToSet(s) \cup {e}
      BY ToSetAppend, AppendProperties
    <2>2. /\ p \in Seq(R) /\ Those(Append(s, e), S) = Add(p, e, S)
          /\ q \in Seq(R) /\ Those(Append(s, e), T) = Add(q, e, T)
      BY ThoseAppend
    <2>3. ToSet(s) \cap S \subseteq T => Len(p) <= Len(q)
      BY <1>2
    <2> HIDE DEF p, q
    <2>4. /\ Len(p) \in Nat /\ Len(Append(p, e)) = Len(p) + 1
          /\ Len(q) \in Nat /\ Len(Append(q, e)) = Len(q) + 1
      BY <2>2, AppendProperties, LenProperties
    <2> SUFFICES ASSUME ToSet(Append(s, e)) \cap S \subseteq T
                 PROVE  Len(Add(p, e, S)) <= Len(Add(q, e, T))
      BY <2>1, <2>2
    <2>5. Len(p) <= Len(q) /\ (e \in S => e \in T)
      BY <2>1, <2>3
    <2> QED BY <2>4, <2>5 DEF Add
  <1> HIDE DEF P
  <1>3. \A s \in Seq(R) : s \in P
    BY <1>1, <1>2, SeqSetInduction
  <1> QED BY <1>3 DEF P

\* The rows of a query are the newest ones of a table in order, as many as the
\* limit if so many are as new as asked for.
LEMMA RowsFetched ==
  ASSUME NEW R, NEW rows \in Seq(R), NEW since \in Int, NEW limit \in Nat,
         TicksPerSecond \in Nat \ {0}, \A r \in R : r.ts \in Int,
         \A i, j \in 1..Len(rows) : i < j => rows[i].ts < rows[j].ts
  PROVE  /\ FetchRecentRows(rows, since, limit) \in Seq(R)
         /\ Ends(FetchRecentRows(rows, since, limit), rows)
         /\ Len(Recent(rows, since)) \in Nat
         /\ Len(FetchRecentRows(rows, since, limit))
               = IF limit <= Len(Recent(rows, since)) THEN limit ELSE Len(Recent(rows, since))
  <1> DEFINE recent == Recent(rows, since)
             fetched == Newest(recent, limit)
             m == Max({1, Len(recent) - limit + 1})
  <1>1. recent \in Seq(R) /\ Ends(recent, rows)
    BY RecentEnd
  <1> HIDE DEF recent
  <1>2. /\ m \in Int /\ m >= 1 /\ (m = 1 \/ m = Len(recent) - limit + 1)
        /\ m >= Len(recent) - limit + 1
        /\ Len(fetched) = IF m <= Len(recent) THEN Len(recent) - m + 1 ELSE 0
    <2>1. limit \in Int
      OBVIOUS
    <2> QED BY <1>1, <2>1, NewestEntries, Zenon
  <1>3. fetched = SubSeq(recent, m, Len(recent))
    BY Zenon DEF Newest
  <1>4. FetchRecentRows(rows, since, limit) = fetched
    BY Zenon DEF FetchRecentRows, Newest, recent, Recent
  <1> HIDE DEF fetched, m
  <1>5. m \in Nat \ {0}
    BY <1>2
  <1>6. fetched \in Seq(R) /\ Ends(fetched, recent)
    BY <1>1, <1>3, <1>5, PartEnds, PartEmbeds
  <1>7. Ends(fetched, rows)
    BY <1>1, <1>6, EndsFurther
  <1>8. Len(recent) \in Nat
    BY <1>1
  <1>9. Len(fetched) = IF limit <= Len(recent) THEN limit ELSE Len(recent)
    BY <1>2, <1>8
  <1> QED BY <1>4, <1>6, <1>7, <1>8, <1>9 DEF recent

\* A query that looks back less far, for fewer rows, answers with the end of
\* what a wider one answers with.
LEMMA FetchedWithin ==
  ASSUME NEW R, NEW rows \in Seq(R), NEW since \in Int, NEW from \in Int, from <= since,
         NEW limit \in Nat, NEW more \in Nat, limit <= more,
         TicksPerSecond \in Nat \ {0}, \A r \in R : r.ts \in Int,
         \A i, j \in 1..Len(rows) : i < j => rows[i].ts < rows[j].ts
  PROVE  Ends(fetchSamples(rows, since, limit), fetchSamples(rows, from, more))
  <1> DEFINE p == FetchRecentRows(rows, since, limit)
             q == FetchRecentRows(rows, from, more)
             l == Len(Recent(rows, since))
             k == Len(Recent(rows, from))
  <1>1. p \in Seq(R) /\ Ends(p, rows) /\ l \in Nat /\ Len(p) = IF limit <= l THEN limit ELSE l
    BY RowsFetched
  <1>2. q \in Seq(R) /\ Ends(q, rows) /\ k \in Nat /\ Len(q) = IF more <= k THEN more ELSE k
    BY RowsFetched
  <1>3. l <= k
    <2>1. Unix(from) <= Unix(since) /\ Unix(from) \in Int /\ Unix(since) \in Int
      BY DEF Unix
    <2>2. /\ Seconds(Unix(from)) <= Seconds(Unix(since))
          /\ Seconds(Unix(from)) \in Int /\ Seconds(Unix(since)) \in Int
      <3> DEFINE a == Unix(from)
                 b == Unix(since)
      <3> HIDE DEF a, b
      <3>1. a * TicksPerSecond <= b * TicksPerSecond
        BY <2>1, Scaled DEF a, b
      <3> QED BY <2>1, <3>1 DEF Seconds, a, b
    <2> DEFINE a == Seconds(Unix(from))
               b == Seconds(Unix(since))
               S == {r \in ToSet(rows) : r.ts >= b}
               T == {r \in ToSet(rows) : r.ts >= a}
    <2> HIDE DEF a, b
    <2>3. \A r \in ToSet(rows) : r.ts \in Int
      BY ToSetAppend
    <2>4. S \subseteq T
      BY <2>2, <2>3 DEF a, b
    <2>5. Len(Those(rows, S)) <= Len(Those(rows, T))
      BY <2>4, ThoseMore
    <2> QED BY <2>5 DEF Recent, a, b
  <1> HIDE DEF l, k, p, q
  <1>4. Len(p) <= Len(q)
    BY <1>1, <1>2, <1>3
  <1>5. Ends(p, q)
    BY <1>1, <1>2, <1>4, ShorterEnd
  <1>6. Ends(Readable(p), Readable(q))
    BY <1>1, <1>2, <1>5, ReadableEnd
  <1> QED BY <1>6 DEF fetchSamples, p, q
=============================================================================
