------------------------------ MODULE Recursion -------------------------------
(***************************************************************************)
(* Induction and recursion for the proofs about definitions that recur.    *)
(* The library states induction with an operator as a parameter; here the  *)
(* formula is the set of the numbers that satisfy it.                      *)
(***************************************************************************)
EXTENDS SequencesExt, SequenceTheorems, WellFoundedInduction, TLAPS

Less == {p \in Nat \X Nat : p[1] < p[2]}

LEMMA LessIsWellFounded == IsWellFoundedOn(Less, Nat)
BY NatLessThanWellFounded DEF OpToRel, Less

LEMMA Induction ==
    ASSUME NEW T, 0 \in T, \A n \in Nat : n \in T => n + 1 \in T
    PROVE  Nat \subseteq T
<1> DEFINE Missing == {n \in Nat : n \notin T}
<1> SUFFICES ASSUME Missing # {} PROVE FALSE
  OBVIOUS
<1>1. Missing \subseteq Nat
  OBVIOUS
<1> HIDE DEF Missing
<1>2. PICK x \in Missing : \A y \in Missing : <<y, x>> \notin Less
  BY <1>1, LessIsWellFounded, WFMin
<1>3. x \in Nat /\ x \notin T /\ x # 0
  BY DEF Missing
<1>4. x - 1 \in Nat /\ x - 1 < x /\ (x - 1) + 1 = x
  BY <1>3
<1>5. x - 1 \notin Missing
  BY <1>2, <1>3, <1>4 DEF Less
<1>6. x - 1 \in T
  BY <1>4, <1>5 DEF Missing
<1> QED
  BY <1>3, <1>4, <1>6

\* From a upwards to b, and from b downwards to a.
LEMMA UpwardInduction ==
    ASSUME NEW a \in Nat, NEW b \in Nat, NEW T, a \in T,
           \A i \in a..(b - 1) : i \in T => i + 1 \in T
    PROVE  a..b \subseteq T
<1> DEFINE U == {n \in Nat : a + n <= b => a + n \in T}
<1>1. 0 \in U
  OBVIOUS
<1>2. ASSUME NEW n \in Nat, n \in U PROVE n + 1 \in U
  <2> SUFFICES ASSUME a + (n + 1) <= b PROVE a + (n + 1) \in T
    OBVIOUS
  <2>1. a + n \in T /\ a + n \in a..(b - 1) /\ (a + n) + 1 = a + (n + 1)
    BY <1>2
  <2> QED
    BY <2>1
<1>3. Nat \subseteq U
  <2> HIDE DEF U
  <2> QED
    BY <1>1, <1>2, Induction
<1>4. ASSUME NEW i \in a..b PROVE i \in T
  <2>1. i - a \in Nat /\ a + (i - a) = i /\ i <= b
    OBVIOUS
  <2>2. i - a \in U
    BY <1>3, <2>1
  <2> QED
    BY <2>1, <2>2
<1> QED
  BY <1>4

LEMMA DownwardInduction ==
    ASSUME NEW a \in Nat, NEW b \in Nat, NEW T, b \in T,
           \A i \in (a + 1)..b : i \in T => i - 1 \in T
    PROVE  a..b \subseteq T
<1> DEFINE U == {n \in Nat : a <= b - n => b - n \in T}
<1>1. 0 \in U
  OBVIOUS
<1>2. ASSUME NEW n \in Nat, n \in U PROVE n + 1 \in U
  <2> SUFFICES ASSUME a <= b - (n + 1) PROVE b - (n + 1) \in T
    OBVIOUS
  <2>1. b - n \in T /\ b - n \in (a + 1)..b /\ (b - n) - 1 = b - (n + 1)
    BY <1>2
  <2> QED
    BY <2>1
<1>3. Nat \subseteq U
  <2> HIDE DEF U
  <2> QED
    BY <1>1, <1>2, Induction
<1>4. ASSUME NEW i \in a..b PROVE i \in T
  <2>1. b - i \in Nat /\ b - (b - i) = i /\ a <= i
    OBVIOUS
  <2>2. b - i \in U
    BY <1>3, <2>1
  <2> QED
    BY <2>1, <2>2
<1> QED
  BY <1>4

\* Primitive recursion up to n has a solution.
IsStep(F, D, n) == F \in [D \X (1..n) -> D]
HasSolution(D, base, n, F) ==
    \E g \in [0..n -> D] : g[0] = base /\ \A i \in 1..n : g[i] = F[<<g[i - 1], i>>]

LEMMA PrimitiveRecursion ==
    ASSUME NEW D, NEW base \in D, NEW n \in Nat, NEW F, IsStep(F, D, n)
    PROVE  HasSolution(D, base, n, F)
<1> USE DEF IsStep, HasSolution
<1> DEFINE Solves(g, m) ==
             /\ g \in [0..m -> D]
             /\ g[0] = base
             /\ \A i \in 1..m : g[i] = F[<<g[i - 1], i>>]
           T == {m \in 0..n : \E g : Solves(g, m)}
<1>1. 0 \in T
  <2>1. Solves([i \in 0..0 |-> base], 0)
    OBVIOUS
  <2> HIDE DEF Solves
  <2> QED
    BY <2>1
<1>2. ASSUME NEW m \in 0..(n - 1), m \in T PROVE m + 1 \in T
  <2>1. PICK g : Solves(g, m)
    BY <1>2
  <2> DEFINE next == F[<<g[m], m + 1>>]
             h == [i \in 0..(m + 1) |-> IF i <= m THEN g[i] ELSE next]
  <2>2. m \in Nat /\ m + 1 \in 1..n /\ m + 1 \in 0..n
    OBVIOUS
  <2>3. g[m] \in D /\ next \in D
    BY <2>1, <2>2
  <2>4. h \in [0..(m + 1) -> D] /\ h[0] = base
    BY <2>1, <2>2, <2>3
  <2>5. ASSUME NEW i \in 1..(m + 1) PROVE h[i] = F[<<h[i - 1], i>>]
    <3>1. CASE i \in 1..m
      BY <2>1, <2>2, <3>1
    <3>2. CASE i = m + 1
      <4>1. h[m + 1] = next /\ h[m] = g[m] /\ i - 1 = m
        BY <2>2, <3>2
      <4> HIDE DEF h
      <4> QED
        BY <3>2, <4>1
    <3> QED
      BY <2>2, <3>1, <3>2
  <2>6. Solves(h, m + 1)
    BY <2>4, <2>5
  <2> HIDE DEF Solves, h
  <2> QED
    BY <2>2, <2>6
<1>3. n \in T
  <2> HIDE DEF T
  <2> QED
    BY <1>1, <1>2, UpwardInduction
<1> QED
  BY <1>3

-----------------------------------------------------------------------------
LEMMA SeqParts ==
    ASSUME NEW S, NEW s \in Seq(S)
    PROVE  /\ Len(s) \in Nat /\ DOMAIN s = 1..Len(s)
           /\ \A k \in 1..Len(s) : s[k] \in S
OBVIOUS

LEMMA FunctionIsSeq ==
    ASSUME NEW S, NEW n \in Nat, NEW f \in [1..n -> S]
    PROVE  f \in Seq(S) /\ Len(f) = n
OBVIOUS

LEMMA ConcatIndexed ==
    ASSUME NEW S, NEW s \in Seq(S), NEW t \in Seq(S)
    PROVE  /\ s \o t \in Seq(S)
           /\ Len(s \o t) = Len(s) + Len(t)
           /\ \A i \in 1..Len(s) : (s \o t)[i] = s[i]
           /\ \A i \in 1..Len(t) : (s \o t)[Len(s) + i] = t[i]
<1>1. Len(s) \in Nat /\ Len(t) \in Nat
  OBVIOUS
<1>2. \A i \in 1..Len(t) : Len(s) + i \in 1..(Len(s) + Len(t)) /\ (Len(s) + i) - Len(s) = i
  BY <1>1
<1> QED
  BY <1>1, <1>2

\* The same with names for the lengths.
LEMMA ConcatAt ==
    ASSUME NEW S, NEW s \in Seq(S), NEW t \in Seq(S), NEW a, NEW b,
           Len(s) = a, Len(t) = b
    PROVE  /\ s \o t \in Seq(S)
           /\ Len(s \o t) = a + b
           /\ \A i \in 1..a : (s \o t)[i] = s[i]
           /\ \A i \in 1..b : (s \o t)[a + i] = t[i]
<1>1. s \o t \in Seq(S) /\ Len(s \o t) = a + b
  BY ConcatIndexed
<1>2. ASSUME NEW i \in 1..a PROVE (s \o t)[i] = s[i]
  BY <1>2, ConcatIndexed
<1>3. ASSUME NEW i \in 1..b PROVE (s \o t)[a + i] = t[i]
  BY <1>3, ConcatIndexed
<1> QED
  BY <1>1, <1>2, <1>3

\* One element before a sequence.
LEMMA ConsIndexed ==
    ASSUME NEW S, NEW x \in S, NEW t \in Seq(S)
    PROVE  /\ <<x>> \o t \in Seq(S)
           /\ Len(<<x>> \o t) = 1 + Len(t)
           /\ (<<x>> \o t)[1] = x
           /\ \A i \in 1..Len(t) : (<<x>> \o t)[1 + i] = t[i]
<1> DEFINE s == <<x>>
<1>1. s \in Seq(S) /\ Len(s) = 1 /\ s[1] = x /\ 1 \in 1..Len(s)
  OBVIOUS
<1> HIDE DEF s
<1>2. s \in Seq(S)
  BY <1>1
<1>3. /\ s \o t \in Seq(S) /\ Len(s \o t) = Len(s) + Len(t)
      /\ \A i \in 1..Len(s) : (s \o t)[i] = s[i]
      /\ \A i \in 1..Len(t) : (s \o t)[Len(s) + i] = t[i]
  BY <1>2, ConcatIndexed
<1> QED
  BY <1>1, <1>3, Zenon DEF s

\* FlattenSeq is the last of the sequences it builds up.
LEMMA FlattenUnfolds ==
    ASSUME NEW S, NEW seqs \in Seq(Seq(S)), seqs # <<>>
    PROVE  \E f \in [1..Len(seqs) -> Seq(S)] :
              /\ f[1] = seqs[1]
              /\ \A i \in 2..Len(seqs) : f[i] = f[i - 1] \o seqs[i]
              /\ FlattenSeq(seqs) = f[Len(seqs)]
<1> DEFINE n == Len(seqs)
           Equation(f) == f = [i \in 1..n |-> IF i = 1 THEN seqs[i] ELSE f[i - 1] \o seqs[i]]
           chosen == CHOOSE f : Equation(f)
<1>1. n \in Nat /\ n >= 1 /\ \A i \in 1..n : seqs[i] \in Seq(S)
  OBVIOUS
<1>2. PICK g \in [0..n -> Seq(S)] :
             g[0] = <<>> /\ \A i \in 1..n : g[i] = g[i - 1] \o seqs[i]
  <2> DEFINE F == [p \in Seq(S) \X (1..n) |-> p[1] \o seqs[p[2]]]
  <2>1. F \in [Seq(S) \X (1..n) -> Seq(S)]
    BY <1>1
  <2>2. \A t \in Seq(S), i \in 1..n : F[<<t, i>>] = t \o seqs[i]
    OBVIOUS
  <2>3. <<>> \in Seq(S)
    OBVIOUS
  <2> HIDE DEF F, n
  <2>6. IsStep(F, Seq(S), n)
    BY <2>1 DEF IsStep
  <2>7. HasSolution(Seq(S), <<>>, n, F)
    BY <1>1, <2>3, <2>6, PrimitiveRecursion
  <2>4. PICK g \in [0..n -> Seq(S)] : g[0] = <<>> /\ \A i \in 1..n : g[i] = F[<<g[i - 1], i>>]
    BY <2>7 DEF HasSolution
  <2>5. \A i \in 1..n : g[i - 1] \in Seq(S)
    BY <1>1
  <2> QED
    BY <2>2, <2>4, <2>5
<1>3. Equation([i \in 1..n |-> g[i]])
  <2> DEFINE h == [i \in 1..n |-> g[i]]
  <2>1. ASSUME NEW i \in 1..n
        PROVE  h[i] = IF i = 1 THEN seqs[i] ELSE h[i - 1] \o seqs[i]
    <3>1. CASE i = 1
      <4>1. 1 \in 1..n /\ h[1] = g[1] /\ 1 - 1 = 0
        BY <1>1
      <4>2. <<>> \o seqs[1] = seqs[1]
        BY <1>1, <4>1
      <4> HIDE DEF h, n
      <4> QED
        BY <1>2, <3>1, <4>1, <4>2
    <3>2. CASE i # 1
      <4>1. i - 1 \in 1..n /\ h[i] = g[i] /\ h[i - 1] = g[i - 1]
        BY <1>1, <3>2
      <4> HIDE DEF h, n
      <4> QED
        BY <1>2, <3>2, <4>1
    <3> QED
      BY <3>1, <3>2
  <2> HIDE DEF n
  <2> QED
    BY <2>1, Zenon
<1>4. Equation(chosen)
  <2> HIDE DEF Equation
  <2> QED
    BY <1>3, Zenon
<1>5. FlattenSeq(seqs) = chosen[n]
  BY <1>1 DEF FlattenSeq
<1> HIDE DEF chosen, n
<1>6. /\ chosen[1] = seqs[1]
      /\ \A i \in 2..n : chosen[i] = chosen[i - 1] \o seqs[i]
      /\ chosen = [i \in 1..n |-> chosen[i]]
  <2>1. chosen = [i \in 1..n |-> IF i = 1 THEN seqs[i] ELSE chosen[i - 1] \o seqs[i]]
    BY <1>4
  <2>2. \A i \in 1..n : chosen[i] = IF i = 1 THEN seqs[i] ELSE chosen[i - 1] \o seqs[i]
    BY <2>1, Zenon
  <2>3. chosen = [i \in 1..n |-> chosen[i]]
    BY <2>1, <2>2, Zenon
  <2>4. 1 \in 1..n /\ \A i \in 2..n : i \in 1..n /\ i # 1
    BY <1>1
  <2> HIDE DEF Equation
  <2> QED
    BY <2>2, <2>3, <2>4
<1> HIDE DEF Equation
<1>7. \A i \in 1..n : chosen[i] \in Seq(S)
  <2> DEFINE T == {i \in 1..n : chosen[i] \in Seq(S)}
  <2>1. 1 \in T
    BY <1>1, <1>6
  <2>2. ASSUME NEW i \in 1..(n - 1), i \in T PROVE i + 1 \in T
    <3>1. i + 1 \in 2..n /\ i + 1 \in 1..n /\ (i + 1) - 1 = i /\ chosen[i] \in Seq(S)
      BY <1>1, <2>2
    <3>2. chosen[i + 1] = chosen[i] \o seqs[i + 1]
      BY <1>6, <3>1
    <3>3. chosen[i] \o seqs[i + 1] \in Seq(S)
      BY <1>1, <3>1, ConcatIndexed
    <3> QED
      BY <3>1, <3>2, <3>3
  <2> HIDE DEF T
  <2>3. 1..n \subseteq T
    BY <1>1, <2>1, <2>2, UpwardInduction
  <2> QED
    BY <2>3 DEF T
<1>8. chosen \in [1..n -> Seq(S)]
  BY <1>6, <1>7
<1> QED
  BY <1>5, <1>6, <1>8 DEF n

\* Where each of the sequences lies in the flattened one.
LEMMA FlattenLayout ==
    ASSUME NEW S, NEW seqs \in Seq(Seq(S))
    PROVE  /\ FlattenSeq(seqs) \in Seq(S)
           /\ \E start \in [1..(Len(seqs) + 1) -> Nat] :
                /\ start[1] = 0
                /\ start[Len(seqs) + 1] = Len(FlattenSeq(seqs))
                /\ \A k \in 1..Len(seqs) :
                     /\ start[k + 1] = start[k] + Len(seqs[k])
                     /\ start[k + 1] <= Len(FlattenSeq(seqs))
                     /\ \A i \in 1..Len(seqs[k]) : FlattenSeq(seqs)[start[k] + i] = seqs[k][i]
<1>1. CASE seqs = <<>>
  <2>1. FlattenSeq(seqs) = <<>>
    BY <1>1 DEF FlattenSeq
  <2> DEFINE start == [k \in 1..(Len(seqs) + 1) |-> 0]
  <2>2. start \in [1..(Len(seqs) + 1) -> Nat] /\ Len(seqs) = 0 /\ start[1] = 0
    BY <1>1
  <2>3. Len(FlattenSeq(seqs)) = 0 /\ FlattenSeq(seqs) \in Seq(S)
    BY <2>1
  <2> HIDE DEF start
  <2> QED
    BY <2>2, <2>3
<1>2. CASE seqs # <<>>
  <2>1. PICK f \in [1..Len(seqs) -> Seq(S)] :
               /\ f[1] = seqs[1]
               /\ \A i \in 2..Len(seqs) : f[i] = f[i - 1] \o seqs[i]
               /\ FlattenSeq(seqs) = f[Len(seqs)]
    BY <1>2, FlattenUnfolds
  <2> DEFINE n == Len(seqs)
             start == [k \in 1..(n + 1) |-> IF k = 1 THEN 0 ELSE Len(f[k - 1])]
             Laid(m, k) == /\ start[k + 1] <= Len(f[m])
                           /\ \A i \in 1..Len(seqs[k]) : f[m][start[k] + i] = seqs[k][i]
             T == {m \in 1..n : \A k \in 1..m : Laid(m, k)}
  <2>2. n \in Nat /\ n >= 1 /\ \A i \in 1..n : seqs[i] \in Seq(S) /\ Len(seqs[i]) \in Nat
    BY <1>2
  <2>3. \A k \in 1..n : f[k] \in Seq(S) /\ Len(f[k]) \in Nat
    <3>1. \A k \in 1..n : f[k] \in Seq(S)
      BY Zenon
    <3> HIDE DEF n
    <3> QED
      BY <3>1
  <2>4. start[1] = 0 /\ \A k \in 1..n : start[k + 1] = Len(f[k]) /\ start[k] \in Nat
    BY <2>2, <2>3
  <2>5. \A k \in 1..n : start[k + 1] = start[k] + Len(seqs[k])
    <3> SUFFICES ASSUME NEW k \in 1..n PROVE start[k + 1] = start[k] + Len(seqs[k])
      OBVIOUS
    <3>1. CASE k = 1
      BY <2>1, <2>2, <2>4, <3>1
    <3>2. CASE k # 1
      <4>1. k - 1 \in 1..n /\ k \in 2..n /\ start[k] = Len(f[k - 1])
        BY <2>2, <3>2
      <4>2. f[k] = f[k - 1] \o seqs[k]
        BY <2>1, <4>1
      <4>3. Len(f[k]) = Len(f[k - 1]) + Len(seqs[k])
        BY <2>2, <2>3, <4>1, <4>2, ConcatIndexed
      <4> HIDE DEF start
      <4> QED
        BY <2>4, <4>1, <4>3
    <3> QED
      BY <3>1, <3>2
  <2>6. start \in [1..(n + 1) -> Nat] /\ start[n + 1] = Len(f[n])
    BY <2>2, <2>3
  <2> HIDE DEF start, n
  <2>7. 1 \in T
    BY <2>1, <2>2, <2>3, <2>4 DEF n
  <2>8. ASSUME NEW m \in 1..(n - 1), m \in T PROVE m + 1 \in T
    <3>1. m + 1 \in 2..n /\ m + 1 \in 1..n /\ m \in 1..n
      BY <2>2
    <3>2. f[m + 1] = f[m] \o seqs[m + 1]
      <4>1. (m + 1) - 1 = m
        OBVIOUS
      <4> QED
        BY <2>1, <3>1, <4>1 DEF n
    <3>5. /\ f[m] \in Seq(S) /\ seqs[m + 1] \in Seq(S)
          /\ Len(f[m + 1]) = Len(f[m]) + Len(seqs[m + 1])
          /\ \A i \in 1..Len(f[m]) : f[m + 1][i] = f[m][i]
          /\ \A i \in 1..Len(seqs[m + 1]) : f[m + 1][Len(f[m]) + i] = seqs[m + 1][i]
      <4>1. f[m] \in Seq(S) /\ seqs[m + 1] \in Seq(S)
        BY <2>2, <2>3, <3>1
      <4> DEFINE s == f[m]
                 t == seqs[m + 1]
      <4>2. f[m + 1] = s \o t /\ s \in Seq(S) /\ t \in Seq(S)
        BY <3>2, <4>1
      <4> HIDE DEF s, t
      <4>3. /\ Len(s \o t) = Len(s) + Len(t)
            /\ \A i \in 1..Len(s) : (s \o t)[i] = s[i]
            /\ \A i \in 1..Len(t) : (s \o t)[Len(s) + i] = t[i]
        BY <4>2, ConcatIndexed
      <4> QED
        BY <4>2, <4>3, Zenon DEF s, t
    <3>3. ASSUME NEW k \in 1..m PROVE Laid(m + 1, k)
      <4>1. Laid(m, k)
        <5> HIDE DEF Laid
        <5> QED
          BY <2>8
      <4>5. k \in 1..n
        BY <2>2, <3>1
      <4>2. start[k] \in Nat /\ start[k + 1] = start[k] + Len(seqs[k]) /\ seqs[k] \in Seq(S)
        BY <2>2, <2>4, <2>5, <4>5
      <4>3. Len(f[m]) \in Nat /\ Len(seqs[m + 1]) \in Nat /\ Len(seqs[k]) \in Nat
        BY <2>2, <2>3, <3>1, <4>5
      <4>8. start[k + 1] <= Len(f[m])
        BY <4>1
      <4>4. \A i \in 1..Len(seqs[k]) : start[k] + i \in 1..Len(f[m])
        <5>1. \A a, b, c, d \in Nat : c = a + b /\ c <= d =>
                  \A i \in 1..b : a + i \in 1..d
          OBVIOUS
        <5>2. start[k + 1] \in Nat
          BY <4>2, <4>3
        <5> QED
          BY <4>2, <4>3, <4>8, <5>1, <5>2, Zenon
      <4>6. start[k + 1] <= Len(f[m + 1])
        <5>1. start[k + 1] <= Len(f[m]) /\ start[k + 1] \in Nat
          BY <4>2, <4>3, <4>8
        <5>2. Len(f[m + 1]) = Len(f[m]) + Len(seqs[m + 1])
          BY <3>5
        <5>3. \A a, b, c, d \in Nat : a <= b /\ c = b + d => a <= c
          OBVIOUS
        <5>4. Len(f[m]) \in Nat /\ Len(seqs[m + 1]) \in Nat /\ Len(f[m + 1]) \in Nat
          BY <2>2, <2>3, <3>1
        <5> QED
          BY <5>1, <5>2, <5>3, <5>4, Zenon
      <4>7. \A i \in 1..Len(seqs[k]) : f[m + 1][start[k] + i] = seqs[k][i]
        BY <3>5, <4>1, <4>4
      <4> QED
        BY <4>6, <4>7
    <3>4. Laid(m + 1, m + 1)
      <4>1. start[(m + 1) + 1] = Len(f[m + 1]) /\ start[m + 1] = Len(f[m])
        BY <2>4, <3>1
      <4> QED
        BY <2>3, <3>1, <3>5, <4>1
    <3> HIDE DEF Laid
    <3> QED
      BY <3>1, <3>3, <3>4
  <2>9. n \in T
    <3> HIDE DEF T
    <3>1. 1..n \subseteq T
      BY <2>2, <2>7, <2>8, UpwardInduction
    <3> QED
      BY <2>2, <3>1
  <2> DEFINE flat == FlattenSeq(seqs)
  <2>10. flat = f[n] /\ flat \in Seq(S) /\ Len(flat) = start[n + 1]
    BY <2>1, <2>2, <2>3, <2>6 DEF n
  <2>11. \A k \in 1..n : Laid(n, k)
    <3> HIDE DEF Laid
    <3> QED
      BY <2>9
  <2>12. \A k \in 1..n : /\ start[k + 1] <= Len(flat)
                         /\ \A i \in 1..Len(seqs[k]) : flat[start[k] + i] = seqs[k][i]
    <3> HIDE DEF flat
    <3> QED
      BY <2>10, <2>11
  <2>13. start[1] = 0 /\ start \in [1..(n + 1) -> Nat]
    BY <2>4, <2>6
  <2> HIDE DEF flat, Laid, T
  <2>14. \E h \in [1..(n + 1) -> Nat] :
             /\ h[1] = 0
             /\ h[n + 1] = Len(flat)
             /\ \A k \in 1..n :
                  /\ h[k + 1] = h[k] + Len(seqs[k])
                  /\ h[k + 1] <= Len(flat)
                  /\ \A i \in 1..Len(seqs[k]) : flat[h[k] + i] = seqs[k][i]
    BY <2>5, <2>10, <2>12, <2>13, Zenon
  <2> QED
    BY <2>10, <2>14, Zenon DEF flat, n
<1> QED
  BY <1>1, <1>2
=============================================================================
