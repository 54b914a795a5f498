---------------------------- MODULE ExtractorProofs ----------------------------
(***************************************************************************)
(* What holds of extract::analyze for every file.  The argument is that of *)
(* ExtractorInvariant:                                                     *)
(*   - recursions and folds: a recursion over 0 .. n has a solution and    *)
(*     stays where its steps stay;                                         *)
(*   - disambiguation: each symbol is given a key of its own, and the keys *)
(*     of a prefix do not depend on what follows;                          *)
(*   - the walk: each handler, of TypeScript and of C#, and each fact noted *)
(*     leaves everything collected fitting the file;                       *)
(*   - recognition: fact by fact, each symbol gains what it has earned;    *)
(*   - the end: deferred targets, recognition and disambiguation together. *)
(***************************************************************************)
EXTENDS ExtractorInvariant, FiniteSetTheorems, SequenceTheorems, WellFoundedInduction, TLAPS

-----------------------------------------------------------------------------
(* Recursive functions over the numbers: no theorem of the library can be    *)
(* cited for them, since each has an operator for a parameter.               *)

(* A set of numbers that holds 0, and with each number the next, holds all  *)
(* of them: induction, for a set in place of a predicate.                   *)
LEMMA AllNumbers ==
  ASSUME NEW T, 0 \in T, \A k \in Nat : k \in T => k + 1 \in T
  PROVE  Nat \subseteq T
<1>. SUFFICES ASSUME Nat \ T # {} PROVE FALSE
  OBVIOUS
<1>1. PICK n \in Nat \ T : \A k \in Nat \ T : <<k, n>> \notin OpToRel(<, Nat)
  <2>1. Nat \ T \subseteq Nat
    OBVIOUS
  <2>. QED BY <2>1, NatLessThanWellFounded, WFMin
<1>2. \A k \in Nat \ T : ~(k < n)
  BY <1>1 DEF OpToRel
<1>3. n \in Nat /\ n # 0
  OBVIOUS
<1>4. n - 1 \in Nat /\ (n - 1) + 1 = n /\ n - 1 < n
  BY <1>3
<1>. QED BY <1>2, <1>4

\* A step for each number, within a set; a function that starts from a and takes them.
Steps(step, A) == step \in [Nat -> [A -> A]]
Takes(F, A, a, step) ==
    F \in [Nat -> A] /\ F[0] = a /\ \A k \in Nat : F[k + 1] = step[k][F[k]]

(* Going on from a start, by a step for each number, is a function on the   *)
(* numbers.                                                                 *)
LEMMA Recursed ==
  ASSUME NEW A, NEW a \in A, NEW step, Steps(step, A)
  PROVE  \E F : Takes(F, A, a, step)
<1>. USE DEF Steps
<1>. DEFINE Upto(n) == {g \in [0 .. n -> A] :
                          g[0] = a /\ \A k \in 0 .. n : k < n => g[k + 1] = step[k][g[k]]}
            Done == {n \in Nat : Upto(n) # {}}
<1>1. ASSUME NEW n \in Nat PROVE Upto(n) # {}
  <2>1. 0 \in Done
    <3>1. [k \in 0 .. 0 |-> a] \in Upto(0)
      OBVIOUS
    <3>. QED BY <3>1
  <2>2. ASSUME NEW k \in Nat, k \in Done PROVE k + 1 \in Done
    <3>1. PICK g : g \in Upto(k)
      BY <2>2
    <3>2. g[k] \in A /\ step[k] \in [A -> A] /\ step[k][g[k]] \in A
      BY <3>1
    <3>. DEFINE h == [i \in 0 .. k + 1 |-> IF i = k + 1 THEN step[k][g[k]] ELSE g[i]]
    <3>3. h \in [0 .. k + 1 -> A]
      BY <3>1, <3>2
    <3>4. h[0] = a
      BY <3>1
    <3>5. ASSUME NEW i \in 0 .. k + 1, i < k + 1 PROVE h[i + 1] = step[i][h[i]]
      <4>1. i \in 0 .. k /\ h[i] = g[i]
        BY <3>5
      <4>2. CASE i = k
        BY <4>1, <4>2
      <4>3. CASE i # k
        BY <3>1, <4>1, <4>3
      <4>. QED BY <4>2, <4>3
    <3>. HIDE DEF h
    <3>6. h \in Upto(k + 1)
      BY <3>3, <3>4, <3>5
    <3>. QED BY <3>6
  <2>. HIDE DEF Upto
  <2>3. Nat \subseteq Done
    <3>. HIDE DEF Done
    <3>. QED BY <2>1, <2>2, AllNumbers
  <2>. QED BY <2>3
<1>2. ASSUME NEW n \in Nat, NEW m \in Nat, n <= m, NEW g \in Upto(n), NEW h \in Upto(m)
      PROVE  g[n] = h[n]
  <2>. DEFINE Same == {k \in Nat : k <= n => g[k] = h[k]}
  <2>1. 0 \in Same
    OBVIOUS
  <2>2. ASSUME NEW k \in Nat, k \in Same PROVE k + 1 \in Same
    <3>. SUFFICES ASSUME k + 1 <= n PROVE g[k + 1] = h[k + 1]
      OBVIOUS
    <3>1. k \in 0 .. n /\ k < n /\ k \in 0 .. m /\ k < m /\ g[k] = h[k]
      BY <1>2, <2>2
    <3>. QED BY <3>1
  <2>3. Nat \subseteq Same
    <3>. HIDE DEF Same
    <3>. QED BY <2>1, <2>2, AllNumbers
  <2>. QED BY <2>3
<1>. DEFINE Pick(n) == CHOOSE g : g \in Upto(n)
            F == [n \in Nat |-> Pick(n)[n]]
<1>3. ASSUME NEW n \in Nat PROVE Pick(n) \in Upto(n)
  <2>. HIDE DEF Upto
  <2>. QED BY <1>1
<1>4. F \in [Nat -> A]
  <2>. SUFFICES ASSUME NEW n \in Nat PROVE Pick(n)[n] \in A
    OBVIOUS
  <2>1. Pick(n) \in [0 .. n -> A]
    BY <1>3
  <2>. HIDE DEF Pick
  <2>. QED BY <2>1
<1>5. F[0] = a
  <2>1. Pick(0)[0] = a
    BY <1>3
  <2>. HIDE DEF Pick
  <2>. QED BY <2>1
<1>6. ASSUME NEW k \in Nat PROVE F[k + 1] = step[k][F[k]]
  <2>1. Pick(k)[k] = Pick(k + 1)[k]
    <3>. HIDE DEF Upto, Pick
    <3>1. k + 1 \in Nat /\ k <= k + 1
      OBVIOUS
    <3>. QED BY <1>2, <1>3, <3>1
  <2>2. Pick(k + 1)[k + 1] = step[k][Pick(k + 1)[k]]
    <3>1. Pick(k + 1) \in Upto(k + 1)
      <4>. HIDE DEF Upto, Pick
      <4>. QED BY <1>3
    <3>. HIDE DEF Pick
    <3>. QED BY <3>1
  <2>. HIDE DEF Pick
  <2>. QED BY <2>1, <2>2
<1>. HIDE DEF F
<1>. QED BY <1>4, <1>5, <1>6 DEF Takes

(* What a recursion over 0 .. n starts in and never leaves, it is in        *)
(* throughout.                                                              *)
LEMMA Stays ==
  ASSUME NEW n \in Nat, NEW A, NEW g, g[0] \in A,
         \A k \in 1 .. n : g[k - 1] \in A => g[k] \in A
  PROVE  \A k \in 0 .. n : g[k] \in A
<1>. DEFINE In == {k \in Nat : k <= n => g[k] \in A}
<1>1. 0 \in In
  OBVIOUS
<1>2. ASSUME NEW k \in Nat, k \in In PROVE k + 1 \in In
  <2>. SUFFICES ASSUME k + 1 <= n PROVE g[k + 1] \in A
    OBVIOUS
  <2>1. k + 1 \in 1 .. n /\ (k + 1) - 1 = k /\ g[k] \in A
    BY <1>2
  <2>. QED BY <2>1
<1>3. Nat \subseteq In
  <2>. HIDE DEF In
  <2>. QED BY <1>1, <1>2, AllNumbers
<1>. QED BY <1>3

\* The same up to a number.
StepsTo(n, step, A) == step \in [1 .. n -> [A -> A]]
Solves(f, n, A, a, step) ==
    /\ f \in [0 .. n -> A]
    /\ f = [k \in 0 .. n |-> IF k = 0 THEN a ELSE step[k][f[k - 1]]]

(* A recursion over 0 .. n whose steps stay within a set has a solution, so *)
(* that CHOOSE, by which TLA+ defines the recursive function, finds one.    *)
LEMMA Solved ==
  ASSUME NEW n \in Nat, NEW A, NEW a \in A, NEW step, StepsTo(n, step, A)
  PROVE  \E f : Solves(f, n, A, a, step)
<1>. USE DEF StepsTo
<1>. DEFINE onward == [k \in Nat |-> IF k < n THEN step[k + 1] ELSE [x \in A |-> x]]
<1>1. onward \in [Nat -> [A -> A]]
  <2>1. ASSUME NEW k \in Nat, k < n PROVE step[k + 1] \in [A -> A]
    <3>1. k + 1 \in 1 .. n
      BY <2>1
    <3>. QED BY <3>1
  <2>. QED BY <2>1
<1>2. PICK F \in [Nat -> A] : F[0] = a /\ \A k \in Nat : F[k + 1] = onward[k][F[k]]
  <2>1. Steps(onward, A)
    BY <1>1 DEF Steps
  <2>2. PICK F : Takes(F, A, a, onward)
    <3>. HIDE DEF onward
    <3>. QED BY <2>1, Recursed
  <2>. HIDE DEF onward
  <2>. QED BY <2>2 DEF Takes
<1>. DEFINE f == [k \in 0 .. n |-> F[k]]
<1>3. ASSUME NEW k \in 1 .. n PROVE F[k] = step[k][F[k - 1]]
  <2>1. k - 1 \in Nat /\ (k - 1) + 1 = k /\ k - 1 < n
    OBVIOUS
  <2>2. F[(k - 1) + 1] = onward[k - 1][F[k - 1]]
    BY <1>2, <2>1
  <2>. QED BY <2>1, <2>2
<1>4. \A k \in 0 .. n : f[k] = IF k = 0 THEN a ELSE step[k][f[k - 1]]
  <2>1. \A k \in 1 .. n : k - 1 \in 0 .. n
    OBVIOUS
  <2>2. F[0] = a /\ \A k \in 1 .. n : F[k] = step[k][F[k - 1]]
    BY <1>2, <1>3
  <2>. HIDE DEF onward
  <2>3. ASSUME NEW k \in 0 .. n, k # 0 PROVE f[k] = step[k][f[k - 1]]
    <3>1. k \in 1 .. n
      BY <2>3
    <3>. QED BY <2>1, <2>2, <3>1
  <2>4. f[0] = a
    BY <2>2
  <2>. HIDE DEF f
  <2>. QED BY <2>3, <2>4
<1>5. f \in [0 .. n -> A]
  BY <1>2
<1>6. f = [k \in 0 .. n |-> IF k = 0 THEN a ELSE step[k][f[k - 1]]]
  <2>1. f = [k \in 0 .. n |-> f[k]]
    OBVIOUS
  <2>. HIDE DEF f
  <2>. QED BY <1>4, <2>1
<1>. HIDE DEF f
<1>. QED BY <1>5, <1>6 DEF Solves

(* Laid end to end, sequences make one that holds what they hold and no     *)
(* more.                                                                    *)
LEMMA Flattened ==
  ASSUME NEW X, NEW ss \in Seq(Seq(X))
  PROVE  /\ FlattenSeq(ss) \in Seq(X)
         /\ \A s \in 1 .. Len(ss) : \A i \in 1 .. Len(ss[s]) :
              \E e \in 1 .. Len(FlattenSeq(ss)) : FlattenSeq(ss)[e] = ss[s][i]
         /\ \A e \in 1 .. Len(FlattenSeq(ss)) :
              \E s \in 1 .. Len(ss) : \E i \in 1 .. Len(ss[s]) : FlattenSeq(ss)[e] = ss[s][i]
<1>1. CASE ss = <<>>
  BY <1>1 DEF FlattenSeq
<1>2. CASE ss # <<>>
  <2>. DEFINE n == Len(ss)
              Flat(f) == f = [i \in 1 .. n |-> IF i = 1 THEN ss[i] ELSE f[i - 1] \o ss[i]]
              g == CHOOSE f : Flat(f)
              Holds(k) == {t \in Seq(X) :
                 /\ \A s \in 1 .. k : \A i \in 1 .. Len(ss[s]) :
                      \E e \in 1 .. Len(t) : t[e] = ss[s][i]
                 /\ \A e \in 1 .. Len(t) :
                      \E s \in 1 .. k : \E i \in 1 .. Len(ss[s]) : t[e] = ss[s][i]}
  <2>1. n \in Nat \ {0} /\ \A i \in 1 .. n : ss[i] \in Seq(X)
    BY <1>2
  <2>2. FlattenSeq(ss) = g[n]
    BY <2>1 DEF FlattenSeq
  <2>3. \E f : Flat(f)
    <3>. DEFINE step == [k \in 1 .. n |-> [x \in Seq(X) |-> IF k = 1 THEN ss[k] ELSE x \o ss[k]]]
    <3>1. step \in [1 .. n -> [Seq(X) -> Seq(X)]]
      BY <2>1
    <3>2. <<>> \in Seq(X)
      OBVIOUS
    <3>. HIDE DEF n
    <3>3. PICK f \in [0 .. n -> Seq(X)] :
             f = [k \in 0 .. n |-> IF k = 0 THEN <<>> ELSE step[k][f[k - 1]]]
      <4>1. n \in Nat /\ StepsTo(n, step, Seq(X))
        BY <2>1, <3>1 DEF StepsTo
      <4>2. PICK f : Solves(f, n, Seq(X), <<>>, step)
        <5>. HIDE DEF step
        <5>. QED BY <3>2, <4>1, Solved
      <4>. HIDE DEF step
      <4>. QED BY <4>2 DEF Solves
    <3>4. \A k \in 1 .. n : f[k] = IF k = 1 THEN ss[k] ELSE f[k - 1] \o ss[k]
      <4>1. ASSUME NEW k \in 1 .. n PROVE f[k] = IF k = 1 THEN ss[k] ELSE f[k - 1] \o ss[k]
        <5>1. k \in 0 .. n /\ k # 0 /\ k - 1 \in 0 .. n
          BY <2>1
        <5>4. f[k - 1] \in Seq(X)
          <6>. HIDE DEF step
          <6>. QED BY <3>3, <5>1
        <5>2. f[k] = step[k][f[k - 1]]
          <6>. HIDE DEF step
          <6>. QED BY <3>3, <5>1
        <5>. QED BY <5>1, <5>2, <5>4
      <4>. QED BY <4>1
    <3>5. Flat([k \in 1 .. n |-> f[k]])
      <4>1. \A k \in 1 .. n : k # 1 => k - 1 \in 1 .. n
        BY <2>1
      <4>. QED BY <3>4, <4>1
    <3>. QED BY <3>5
  <2>4. Flat(g)
    <3>. HIDE DEF Solves
    <3>. QED BY <2>3
  <2>. HIDE DEF g, n
  <2>5. g[1] = ss[1] /\ \A k \in 1 .. n : k # 1 => g[k] = g[k - 1] \o ss[k]
    <3>1. ASSUME NEW k \in 1 .. n PROVE g[k] = IF k = 1 THEN ss[k] ELSE g[k - 1] \o ss[k]
      BY <2>4
    <3>. HIDE DEF Flat
    <3>2. 1 \in 1 .. n
      BY <2>1
    <3>. QED BY <3>1, <3>2
  <2>. HIDE DEF Flat, Holds
  <2>6. ASSUME NEW k \in Nat PROVE k + 1 <= n => g[k + 1] \in Holds(k + 1)
    <3>. DEFINE In == {j \in Nat : j + 1 <= n => g[j + 1] \in Holds(j + 1)}
    <3>1. 0 \in In
      <4>1. g[1] \in Holds(1)
        BY <2>1, <2>5 DEF Holds
      <4>. QED BY <4>1
    <3>2. ASSUME NEW j \in Nat, j \in In PROVE j + 1 \in In
      <4>. SUFFICES ASSUME (j + 1) + 1 <= n PROVE g[(j + 1) + 1] \in Holds((j + 1) + 1)
        OBVIOUS
      <4>. DEFINE t == g[j + 1]
                  m == (j + 1) + 1
                  u == ss[m]
      <4>1. t \in Holds(j + 1) /\ m \in 1 .. n /\ m # 1 /\ m - 1 = j + 1 /\ m \in Nat
        BY <2>1, <3>2
      <4>6. t \in Seq(X)
        BY <4>1 DEF Holds
      <4>2. g[m] = t \o u /\ t \in Seq(X) /\ u \in Seq(X)
        BY <2>1, <2>5, <4>1, <4>6
      <4>. HIDE DEF t, u
      <4>3. t \o u \in Seq(X) /\ Len(t \o u) = Len(t) + Len(u)
        BY <4>2
      <4>4. ASSUME NEW s \in 1 .. m, NEW i \in 1 .. Len(ss[s])
            PROVE  \E e \in 1 .. Len(t \o u) : (t \o u)[e] = ss[s][i]
        <5>1. CASE s = m
          <6>1. Len(t) + i \in 1 .. Len(t \o u) /\ (t \o u)[Len(t) + i] = u[i]
            BY <4>2, <4>3, <5>1 DEF u
          <6>. QED BY <5>1, <6>1 DEF u
        <5>2. CASE s # m
          <6>1. s \in 1 .. j + 1
            BY <5>2
          <6>2. PICK e \in 1 .. Len(t) : t[e] = ss[s][i]
            BY <4>1, <6>1 DEF Holds
          <6>. QED BY <4>2, <4>3, <6>2
        <5>. QED BY <5>1, <5>2
      <4>5. ASSUME NEW e \in 1 .. Len(t \o u)
            PROVE  \E s \in 1 .. m : \E i \in 1 .. Len(ss[s]) : (t \o u)[e] = ss[s][i]
        <5>1. CASE e <= Len(t)
          <6>1. e \in 1 .. Len(t) /\ (t \o u)[e] = t[e]
            BY <4>2, <4>3, <5>1
          <6>2. PICK s \in 1 .. j + 1 : \E i \in 1 .. Len(ss[s]) : t[e] = ss[s][i]
            BY <4>1, <6>1 DEF Holds
          <6>. QED BY <6>1, <6>2
        <5>2. CASE e > Len(t)
          <6>1. e - Len(t) \in 1 .. Len(u) /\ (t \o u)[e] = u[e - Len(t)]
            BY <4>2, <4>3, <5>2
          <6>. QED BY <4>1, <6>1 DEF u
        <5>. QED BY <4>2, <4>3, <5>1, <5>2
      <4>. HIDE DEF m
      <4>7. t \o u \in Holds(m)
        BY <4>3, <4>4, <4>5 DEF Holds
      <4>. QED BY <4>2, <4>7 DEF m
    <3>3. Nat \subseteq In
      <4>. HIDE DEF In
      <4>. QED BY <3>1, <3>2, AllNumbers
    <3>. QED BY <3>3
  <2>7. g[n] \in Holds(n)
    <3>1. n - 1 \in Nat /\ (n - 1) + 1 = n
      BY <2>1
    <3>. HIDE DEF Holds
    <3>. QED BY <2>6, <3>1
  <2>. DEFINE r == FlattenSeq(ss)
  <2>8. r \in Holds(n)
    BY <2>2, <2>7
  <2>. HIDE DEF r
  <2>9. /\ r \in Seq(X)
        /\ \A s \in 1 .. n : \A i \in 1 .. Len(ss[s]) : \E e \in 1 .. Len(r) : r[e] = ss[s][i]
        /\ \A e \in 1 .. Len(r) : \E s \in 1 .. n : \E i \in 1 .. Len(ss[s]) : r[e] = ss[s][i]
    BY <2>8 DEF Holds
  <2>. QED BY <2>9 DEF n, r
<1>. QED BY <1>1, <1>2

(* A set of numbers has a least one, which Min gives.                       *)
LEMMA Least ==
  ASSUME NEW S \in SUBSET Nat, S # {}
  PROVE  Min(S) \in S /\ \A x \in S : Min(S) <= x
<1>. DEFINE Below == {k \in Nat : \A x \in S : k <= x}
<1>1. PICK m \in S : \A x \in S : m <= x
  <2>. SUFFICES ASSUME \A m \in S : \E x \in S : ~(m <= x) PROVE FALSE
    OBVIOUS
  <2>1. 0 \in Below
    OBVIOUS
  <2>2. ASSUME NEW k \in Nat, k \in Below PROVE k + 1 \in Below
    <3>1. k \notin S
      BY <2>2
    <3>. QED BY <2>2, <3>1
  <2>3. Nat \subseteq Below
    <3>. HIDE DEF Below
    <3>. QED BY <2>1, <2>2, AllNumbers
  <2>4. PICK x : x \in S
    OBVIOUS
  <2>5. x + 1 \in Below
    <3>1. x + 1 \in Nat
      BY <2>4
    <3>. QED BY <2>3, <3>1
  <2>. QED BY <2>4, <2>5
<1>. QED BY <1>1 DEF Min

(* A bounded set of numbers has a greatest one, which Max gives.            *)
LEMMA Greatest ==
  ASSUME NEW n \in Nat, NEW S \in SUBSET (1 .. n), S # {}
  PROVE  Max(S) \in S /\ \A x \in S : Max(S) >= x
<1>. DEFINE T == {n - x : x \in S}
<1>1. T \in SUBSET Nat /\ T # {}
  <2>1. ASSUME NEW x \in S PROVE n - x \in Nat
    <3>1. x \in 1 .. n
      OBVIOUS
    <3>. QED BY <3>1
  <2>. QED BY <2>1
<1>2. Min(T) \in T /\ \A y \in T : Min(T) <= y
  <2>. HIDE DEF T
  <2>. QED BY <1>1, Least
<1>3. PICK m \in S : Min(T) = n - m
  BY <1>2
<1>4. ASSUME NEW x \in S PROVE m >= x
  <2>1. n - x \in T /\ x \in 1 .. n /\ m \in 1 .. n
    OBVIOUS
  <2>2. n - m <= n - x
    BY <1>2, <1>3, <2>1
  <2>. QED BY <2>1, <2>2
<1>5. \E y \in S : \A x \in S : y >= x
  BY <1>4
<1>. QED BY <1>5 DEF Max

\* The keys given so far, to what symbols, and the next ordinal to try.
GivenSet ==
    {acc \in [seen : SUBSET IdentitySet, next : Nat, out : Seq(SymbolSet)] :
        IsFiniteSet(acc.seen)}

(* A window one longer than the keys given away has a free ordinal in it.   *)
LEMMA FreeOrdinal ==
  ASSUME NEW acc \in GivenSet, NEW symbol \in SymbolSet
  PROVE  /\ NextFree(acc, symbol) \in Nat
         /\ Identity(symbol, NextFree(acc, symbol)) \notin acc.seen
         /\ Identity(symbol, NextFree(acc, symbol)) \in IdentitySet
<1>. DEFINE seen == acc.seen
            first == acc.next
            c == Cardinality(seen)
            W == first .. (first + c)
            Free == {n \in W : Identity(symbol, n) \notin seen}
<1>1. IsFiniteSet(seen) /\ first \in Nat
  BY DEF GivenSet
<1>2. c \in Nat
  BY <1>1, FS_CardinalityType
<1>3. Free # {}
  <2>. SUFFICES ASSUME \A n \in W : Identity(symbol, n) \in seen PROVE FALSE
    OBVIOUS
  <2>. HIDE DEF seen, first, c
  <2>1. IsFiniteSet(W) /\ Cardinality(W) = c + 1
    BY <1>1, <1>2, FS_Interval
  <2>. DEFINE f == [n \in W |-> Identity(symbol, n)]
  <2>2. f \in [W -> seen]
    OBVIOUS
  <2>3. \E x, y \in W : x # y /\ f[x] = f[y]
    <3>1. Cardinality(seen) < Cardinality(W)
      BY <1>2, <2>1 DEF c
    <3>. HIDE DEF f, W
    <3>. QED BY <1>1, <2>1, <2>2, <3>1, FS_PigeonHole
  <2>. QED BY <2>3 DEF Identity
<1>4. Free \in SUBSET Nat /\ NextFree(acc, symbol) = Min(Free)
  BY <1>1, <1>2 DEF NextFree
<1>5. NextFree(acc, symbol) \in Free
  <2>. HIDE DEF Free
  <2>. QED BY <1>3, <1>4, Least
<1>6. ASSUME NEW i \in Nat PROVE Identity(symbol, i) \in IdentitySet
  BY DEF Identity, IdentitySet, SymbolSet
<1>7. NextFree(acc, symbol) \in Nat /\ Identity(symbol, NextFree(acc, symbol)) \notin seen
  <2>. HIDE DEF W, seen
  <2>. QED BY <1>4, <1>5
<1>. QED BY <1>6, <1>7

(* A record of keys given is one when its three fields are.                 *)
LEMMA Giving ==
  ASSUME NEW seen, seen \in SUBSET IdentitySet, IsFiniteSet(seen), NEW next \in Nat,
         NEW out, out \in Seq(SymbolSet)
  PROVE  [seen |-> seen, next |-> next, out |-> out] \in GivenSet
BY DEF GivenSet

(* Giving one more symbol its key leaves a record of keys given.            *)
LEMMA KeyGivenType ==
  ASSUME NEW acc \in GivenSet, NEW symbol \in SymbolSet
  PROVE  KeyGiven(acc, symbol) \in GivenSet
<1>1. /\ acc.seen \in SUBSET IdentitySet /\ IsFiniteSet(acc.seen)
      /\ acc.next \in Nat /\ acc.out \in Seq(SymbolSet)
  BY DEF GivenSet
<1>2. CASE StorageKey(symbol) \notin acc.seen
  <2>1. StorageKey(symbol) \in IdentitySet
    BY DEF StorageKey, Identity, SymbolSet, IdentitySet
  <2>2. IsFiniteSet(acc.seen \union {StorageKey(symbol)})
    BY <1>1, FS_AddElement
  <2>3. Append(acc.out, symbol) \in Seq(SymbolSet)
    BY <1>1
  <2>4. KeyGiven(acc, symbol) =
          [seen |-> acc.seen \union {StorageKey(symbol)}, next |-> acc.next,
           out |-> Append(acc.out, symbol)]
    BY <1>2 DEF KeyGiven
  <2>5. acc.seen \union {StorageKey(symbol)} \in SUBSET IdentitySet
    BY <1>1, <2>1
  <2>. QED BY <1>1, <2>2, <2>3, <2>4, <2>5, Giving
<1>3. CASE StorageKey(symbol) \in acc.seen
  <2>. DEFINE free == NextFree(acc, symbol)
  <2>1. free \in Nat /\ Identity(symbol, free) \in IdentitySet
    BY FreeOrdinal
  <2>2. IsFiniteSet(acc.seen \union {Identity(symbol, free)})
    BY <1>1, FS_AddElement
  <2>. HIDE DEF free
  <2>3. [symbol EXCEPT !.ordinal = free] \in SymbolSet
    BY <2>1 DEF SymbolSet
  <2>4. KeyGiven(acc, symbol) =
          [seen |-> acc.seen \union {Identity(symbol, free)}, next |-> free + 1,
           out |-> Append(acc.out, [symbol EXCEPT !.ordinal = free])]
    BY <1>3 DEF KeyGiven, free
  <2>5. Append(acc.out, [symbol EXCEPT !.ordinal = free]) \in Seq(SymbolSet)
    BY <1>1, <2>3
  <2>6. acc.seen \union {Identity(symbol, free)} \in SUBSET IdentitySet /\ free + 1 \in Nat
    BY <1>1, <2>1
  <2>. QED BY <2>2, <2>4, <2>5, <2>6, Giving
<1>. QED BY <1>2, <1>3

(* Given is what its recursion says: it starts with no key given and gives  *)
(* the symbols their keys one after another.                                *)
LEMMA GivenRuns ==
  ASSUME NEW all \in Seq(SymbolSet)
  PROVE  /\ Given(all)[0] = NoKeyGiven
         /\ \A k \in 1 .. Len(all) : Given(all)[k] = KeyGiven(Given(all)[k - 1], all[k])
         /\ \A k \in 0 .. Len(all) : Given(all)[k] \in GivenSet
<1>. DEFINE n == Len(all)
            step == [k \in 1 .. n |-> [acc \in GivenSet |-> KeyGiven(acc, all[k])]]
            g == Given(all)
            Runs(f) == f = [k \in 0 .. n |->
                              IF k = 0 THEN NoKeyGiven ELSE KeyGiven(f[k - 1], all[k])]
<1>1. n \in Nat /\ \A k \in 1 .. n : all[k] \in SymbolSet
  OBVIOUS
<1>2. NoKeyGiven \in GivenSet
  <2>1. IsFiniteSet({}) /\ <<>> \in Seq(SymbolSet) /\ DuplicateOrdinalBase \in Nat
    BY FS_EmptySet DEF DuplicateOrdinalBase
  <2>. QED BY <2>1 DEF NoKeyGiven, GivenSet
<1>3. StepsTo(n, step, GivenSet)
  BY <1>1, KeyGivenType DEF StepsTo
<1>4. PICK f : Solves(f, n, GivenSet, NoKeyGiven, step)
  <2>. HIDE DEF step, n
  <2>. QED BY <1>1, <1>2, <1>3, Solved
<1>5. Runs(f)
  <2>1. f = [k \in 0 .. n |-> IF k = 0 THEN NoKeyGiven ELSE step[k][f[k - 1]]]
        /\ f \in [0 .. n -> GivenSet]
    BY <1>4 DEF Solves
  <2>2. ASSUME NEW k \in 0 .. n, k # 0 PROVE step[k][f[k - 1]] = KeyGiven(f[k - 1], all[k])
    <3>1. k \in 1 .. n /\ k - 1 \in 0 .. n
      BY <1>1, <2>2
    <3>. QED BY <2>1, <3>1
  <2>. HIDE DEF step
  <2>. QED BY <2>1, <2>2
<1>6. g = CHOOSE h : Runs(h)
  BY DEF Given
<1>7. Runs(g)
  <2>. HIDE DEF Runs, g
  <2>. QED BY <1>5, <1>6
<1>. HIDE DEF g, n
<1>8. g[0] = NoKeyGiven /\ \A k \in 1 .. n : g[k] = KeyGiven(g[k - 1], all[k])
  BY <1>1, <1>7
<1>. HIDE DEF Runs
<1>9. \A k \in 0 .. n : g[k] \in GivenSet
  <2>1. \A k \in 1 .. n : g[k - 1] \in GivenSet => g[k] \in GivenSet
    BY <1>1, <1>8, KeyGivenType
  <2>2. g[0] \in GivenSet
    BY <1>2, <1>8
  <2>. QED BY <1>1, <2>1, <2>2, Stays
<1>. QED BY <1>8, <1>9 DEF g, n

\* The keys given so far: each given to one symbol, and none kept back.
Keyed(acc) ==
    /\ acc.seen = {StorageKey(acc.out[i]) : i \in 1 .. Len(acc.out)}
    /\ \A i, j \in 1 .. Len(acc.out) : StorageKey(acc.out[i]) = StorageKey(acc.out[j]) => i = j

\* The same symbol but for its ordinal.
Renumbered(s, t) ==
    s.name = t.name /\ s.path = t.path /\ s.kind = t.kind /\ s.print = t.print /\ s.key = t.key

(* One symbol more has a key, and no other symbol's.                        *)
LEMMA KeyGivenKeeps ==
  ASSUME NEW acc \in GivenSet, NEW symbol \in SymbolSet, Keyed(acc)
  PROVE  /\ Keyed(KeyGiven(acc, symbol))
         /\ \E s \in SymbolSet : /\ KeyGiven(acc, symbol).out = Append(acc.out, s)
                                 /\ Renumbered(s, symbol)
<1>1. acc.out \in Seq(SymbolSet)
  BY DEF GivenSet
<1>2. PICK s \in SymbolSet :
         /\ KeyGiven(acc, symbol).out = Append(acc.out, s)
         /\ KeyGiven(acc, symbol).seen = acc.seen \union {StorageKey(s)}
         /\ StorageKey(s) \notin acc.seen
         /\ Renumbered(s, symbol)
  <2>1. CASE StorageKey(symbol) \notin acc.seen
    BY <2>1 DEF KeyGiven, Renumbered
  <2>2. CASE StorageKey(symbol) \in acc.seen
    <3>. DEFINE free == NextFree(acc, symbol)
                s == [symbol EXCEPT !.ordinal = free]
    <3>1. free \in Nat /\ Identity(symbol, free) \notin acc.seen
      BY FreeOrdinal
    <3>2. KeyGiven(acc, symbol).out = Append(acc.out, s)
          /\ KeyGiven(acc, symbol).seen = acc.seen \union {Identity(symbol, free)}
      BY <2>2 DEF KeyGiven
    <3>. HIDE DEF free
    <3>3. s \in SymbolSet /\ Renumbered(s, symbol) /\ StorageKey(s) = Identity(symbol, free)
      BY <3>1 DEF SymbolSet, Renumbered, StorageKey, Identity
    <3>. HIDE DEF s
    <3>. QED BY <3>1, <3>2, <3>3
  <2>. QED BY <2>1, <2>2
<1>3. Keyed(KeyGiven(acc, symbol))
  <2>. DEFINE new == Append(acc.out, s)
              n == Len(acc.out)
  <2>1. n \in Nat /\ Len(new) = n + 1 /\ new[n + 1] = s /\ \A i \in 1 .. n : new[i] = acc.out[i]
    BY <1>1
  <2>. HIDE DEF new
  <2>2. acc.seen \union {StorageKey(s)} = {StorageKey(new[i]) : i \in 1 .. n + 1}
    <3>1. acc.seen = {StorageKey(acc.out[i]) : i \in 1 .. n}
      BY DEF Keyed
    <3>. HIDE DEF n
    <3>2. ASSUME NEW i \in 1 .. n + 1 PROVE StorageKey(new[i]) \in acc.seen \union {StorageKey(s)}
      <4>1. CASE i = n + 1
        BY <2>1, <4>1
      <4>2. CASE i # n + 1
        <5>1. i \in 1 .. n
          BY <2>1, <4>2
        <5>. QED BY <2>1, <3>1, <5>1
      <4>. QED BY <4>1, <4>2
    <3>3. ASSUME NEW i \in 1 .. n PROVE StorageKey(acc.out[i]) \in {StorageKey(new[j]) : j \in 1 .. n + 1}
      <4>1. i \in 1 .. n + 1
        BY <2>1
      <4>. QED BY <2>1, <4>1
    <3>4. n + 1 \in 1 .. n + 1
      BY <2>1
    <3>. QED BY <2>1, <3>1, <3>2, <3>3, <3>4
  <2>3. ASSUME NEW i \in 1 .. n + 1, NEW j \in 1 .. n + 1, i # j
        PROVE  StorageKey(new[i]) # StorageKey(new[j])
    <3>1. \A k \in 1 .. n : StorageKey(acc.out[k]) \in acc.seen
      BY DEF Keyed
    <3>2. \A k, l \in 1 .. n : StorageKey(acc.out[k]) = StorageKey(acc.out[l]) => k = l
      BY DEF Keyed
    <3>. HIDE DEF n
    <3>3. CASE i = n + 1
      <4>1. j \in 1 .. n
        BY <2>1, <2>3, <3>3
      <4>. QED BY <1>2, <2>1, <3>1, <3>3, <4>1
    <3>4. CASE j = n + 1
      <4>1. i \in 1 .. n
        BY <2>1, <2>3, <3>4
      <4>. QED BY <1>2, <2>1, <3>1, <3>4, <4>1
    <3>5. CASE i # n + 1 /\ j # n + 1
      <4>1. i \in 1 .. n /\ j \in 1 .. n
        BY <2>1, <3>5
      <4>. QED BY <2>1, <2>3, <3>2, <4>1
    <3>. QED BY <3>3, <3>4, <3>5
  <2>. HIDE DEF n
  <2>4. KeyGiven(acc, symbol).out = new /\ KeyGiven(acc, symbol).seen = acc.seen \union {StorageKey(s)}
    BY <1>2 DEF new
  <2>. DEFINE given == KeyGiven(acc, symbol)
  <2>5. given.seen = {StorageKey(given.out[i]) : i \in 1 .. n + 1} /\ Len(given.out) = n + 1
    BY <2>1, <2>2, <2>4
  <2>6. \A i, j \in 1 .. n + 1 : StorageKey(given.out[i]) = StorageKey(given.out[j]) => i = j
    BY <2>3, <2>4
  <2>. HIDE DEF given
  <2>7. Keyed(given)
    BY <2>5, <2>6 DEF Keyed
  <2>. QED BY <2>7 DEF given
<1>. QED BY <1>2, <1>3

\* After k symbols: k keys, each of its own symbol.
GivenTo(all, k) ==
    LET acc == Given(all)[k]
    IN /\ Keyed(acc)
       /\ Len(acc.out) = k
       /\ \A i \in 1 .. k : Renumbered(acc.out[i], all[i])

(* After k symbols there are k keys given, each to its own symbol.          *)
LEMMA KeysGiven ==
  ASSUME NEW all \in Seq(SymbolSet)
  PROVE  \A k \in 0 .. Len(all) : GivenTo(all, k)
<1>. DEFINE n == Len(all)
            In == {k \in Nat : k <= n => GivenTo(all, k)}
<1>1. n \in Nat /\ \A k \in 1 .. n : all[k] \in SymbolSet
  OBVIOUS
<1>2. 0 \in In
  <2>1. Given(all)[0].out = <<>> /\ Given(all)[0].seen = {}
    BY GivenRuns DEF NoKeyGiven
  <2>. QED BY <2>1 DEF GivenTo, Keyed
<1>3. ASSUME NEW k \in Nat, k \in In PROVE k + 1 \in In
  <2>. SUFFICES ASSUME k + 1 <= n PROVE GivenTo(all, k + 1)
    OBVIOUS
  <2>. DEFINE acc == Given(all)[k]
              next == Given(all)[k + 1]
              m == k + 1
  <2>1. k \in 0 .. n /\ m \in 1 .. n /\ m - 1 = k
    BY <1>1
  <2>2. acc \in GivenSet /\ next = KeyGiven(acc, all[m]) /\ all[m] \in SymbolSet
    BY <1>1, <2>1, GivenRuns
  <2>3. /\ Keyed(acc) /\ Len(acc.out) = k
        /\ \A i \in 1 .. k : Renumbered(acc.out[i], all[i])
    BY <1>3, <2>1 DEF GivenTo
  <2>. HIDE DEF acc, next, m
  <2>4. PICK s \in SymbolSet : next.out = Append(acc.out, s) /\ Renumbered(s, all[m])
    BY <2>2, <2>3, KeyGivenKeeps
  <2>5. Keyed(next)
    BY <2>2, <2>3, KeyGivenKeeps
  <2>6. acc.out \in Seq(SymbolSet)
    BY <2>2 DEF GivenSet
  <2>7. /\ Len(next.out) = k + 1 /\ next.out[k + 1] = s
        /\ \A i \in 1 .. k : next.out[i] = acc.out[i]
    BY <2>3, <2>4, <2>6
  <2>8. ASSUME NEW i \in 1 .. k + 1 PROVE Renumbered(next.out[i], all[i])
    <3>1. CASE i = k + 1
      BY <2>4, <2>7, <3>1 DEF m
    <3>2. CASE i # k + 1
      <4>1. i \in 1 .. k
        BY <3>2
      <4>. QED BY <2>3, <2>7, <4>1
    <3>. QED BY <3>1, <3>2
  <2>. QED BY <2>5, <2>7, <2>8 DEF GivenTo, next, m
<1>4. Nat \subseteq In
  <2>. HIDE DEF In
  <2>. QED BY <1>2, <1>3, AllNumbers
<1>. QED BY <1>1, <1>4

(* What comes out: the same symbols but for their ordinals, each with a key *)
(* of its own.                                                              *)
LEMMA Disambiguation ==
  ASSUME NEW all \in Seq(SymbolSet)
  PROVE  /\ Disambiguated(all) \in Seq(SymbolSet)
         /\ Len(Disambiguated(all)) = Len(all)
         /\ \A i \in 1 .. Len(all) : Renumbered(Disambiguated(all)[i], all[i])
         /\ \A i, j \in 1 .. Len(all) :
              StorageKey(Disambiguated(all)[i]) = StorageKey(Disambiguated(all)[j]) => i = j
<1>. DEFINE n == Len(all)
            acc == Given(all)[n]
<1>1. n \in 0 .. n
  OBVIOUS
<1>2. acc \in GivenSet /\ GivenTo(all, n)
  BY <1>1, GivenRuns, KeysGiven
<1>3. Disambiguated(all) = acc.out
  BY DEF Disambiguated
<1>4. acc.out \in Seq(SymbolSet)
  BY <1>2 DEF GivenSet
<1>5. /\ Len(acc.out) = n /\ \A i \in 1 .. n : Renumbered(acc.out[i], all[i])
      /\ \A i, j \in 1 .. n : StorageKey(acc.out[i]) = StorageKey(acc.out[j]) => i = j
  BY <1>2 DEF GivenTo, Keyed
<1>. HIDE DEF acc
<1>. QED BY <1>3, <1>4, <1>5

(* Declarations that come after change no key given before them.            *)
LEMMA KeysStay ==
  ASSUME NEW all \in Seq(SymbolSet), NEW more \in Seq(SymbolSet)
  PROVE  IsPrefix(Disambiguated(all), Disambiguated(all \o more))
<1>. DEFINE n == Len(all)
            both == all \o more
            m == Len(both)
<1>1. /\ both \in Seq(SymbolSet) /\ n \in Nat /\ m \in Nat /\ n <= m
      /\ \A k \in 1 .. n : both[k] = all[k] /\ all[k] \in SymbolSet
  OBVIOUS
<1>. HIDE DEF both, m, n
<1>2. /\ Given(all)[0] = NoKeyGiven /\ Given(both)[0] = NoKeyGiven
      /\ \A k \in 1 .. n : Given(all)[k] = KeyGiven(Given(all)[k - 1], all[k])
      /\ \A k \in 1 .. m : Given(both)[k] = KeyGiven(Given(both)[k - 1], both[k])
      /\ \A k \in 0 .. m : Given(both)[k] \in GivenSet
  BY <1>1, GivenRuns DEF n, m
<1>3. Given(all)[n] = Given(both)[n]
  <2>. DEFINE Same == {k \in Nat : k <= n => Given(all)[k] = Given(both)[k]}
  <2>1. 0 \in Same
    BY <1>2
  <2>2. ASSUME NEW k \in Nat, k \in Same PROVE k + 1 \in Same
    <3>. SUFFICES ASSUME k + 1 <= n PROVE Given(all)[k + 1] = Given(both)[k + 1]
      OBVIOUS
    <3>1. k + 1 \in 1 .. n /\ k + 1 \in 1 .. m /\ (k + 1) - 1 = k
      BY <1>1
    <3>2. Given(all)[k] = Given(both)[k]
      BY <1>1, <2>2
    <3>. QED BY <1>1, <1>2, <3>1, <3>2
  <2>3. Nat \subseteq Same
    <3>. HIDE DEF Same
    <3>. QED BY <2>1, <2>2, AllNumbers
  <2>. QED BY <1>1, <2>3
<1>. DEFINE Out(k) == Given(both)[k].out
<1>4. \A k \in n .. m : /\ Len(Out(k)) = k
                        /\ Out(k) \in Seq(SymbolSet)
  BY <1>1, <1>2, KeysGiven DEF GivenTo, GivenSet, m
<1>5. ASSUME NEW k \in n .. m, k # m PROVE \E s \in SymbolSet : Out(k + 1) = Append(Out(k), s)
  <2>1. k + 1 \in 1 .. m /\ (k + 1) - 1 = k /\ k \in 0 .. m
    BY <1>1, <1>5
  <2>2. Given(both)[k + 1] = KeyGiven(Given(both)[k], both[k + 1])
    BY <1>2, <2>1
  <2>3. Keyed(Given(both)[k]) /\ both[k + 1] \in SymbolSet /\ Given(both)[k] \in GivenSet
    <3>1. GivenTo(both, k)
      BY <1>1, <2>1, KeysGiven DEF m
    <3>2. Keyed(Given(both)[k])
      BY <3>1 DEF GivenTo
    <3>3. both[k + 1] \in SymbolSet
      BY <1>1, <2>1 DEF m
    <3>4. Given(both)[k] \in GivenSet
      BY <1>2, <2>1
    <3>. QED BY <3>2, <3>3, <3>4
  <2>. DEFINE acc == Given(both)[k]
              symbol == both[k + 1]
  <2>4. acc \in GivenSet /\ symbol \in SymbolSet /\ Keyed(acc)
    BY <2>3
  <2>. HIDE DEF acc, symbol
  <2>5. \E s \in SymbolSet : KeyGiven(acc, symbol).out = Append(acc.out, s)
    BY <2>4, KeyGivenKeeps
  <2>. QED BY <2>2, <2>5 DEF acc, symbol
<1>6. ASSUME NEW j \in Nat PROVE n + j <= m => \A i \in 1 .. n : Out(n + j)[i] = Out(n)[i]
  <2>. DEFINE In == {k \in Nat : n + k <= m => \A i \in 1 .. n : Out(n + k)[i] = Out(n)[i]}
  <2>. HIDE DEF Out
  <2>1. 0 \in In
    BY <1>1
  <2>2. ASSUME NEW k \in Nat, k \in In PROVE k + 1 \in In
    <3>. SUFFICES ASSUME n + (k + 1) <= m, NEW i \in 1 .. n
                  PROVE  Out(n + (k + 1))[i] = Out(n)[i]
      OBVIOUS
    <3>1. n + k \in n .. m /\ n + k # m /\ n + (k + 1) = (n + k) + 1 /\ i \in 1 .. n + k
      BY <1>1
    <3>2. PICK s \in SymbolSet : Out(n + (k + 1)) = Append(Out(n + k), s)
      BY <1>5, <3>1
    <3>3. Out(n + k)[i] = Out(n)[i]
      BY <1>1, <2>2, <3>1
    <3>4. Out(n + k) \in Seq(SymbolSet) /\ Len(Out(n + k)) = n + k
      BY <1>4, <3>1
    <3>5. Append(Out(n + k), s)[i] = Out(n + k)[i]
      BY <3>1, <3>4
    <3>. QED BY <3>2, <3>3, <3>5
  <2>3. Nat \subseteq In
    <3>. HIDE DEF In
    <3>. QED BY <2>1, <2>2, AllNumbers
  <2>. QED BY <2>3
<1>7. \A i \in 1 .. n : Out(m)[i] = Out(n)[i]
  <2>1. PICK j \in Nat : n + j = m
    <3>1. m - n \in Nat /\ n + (m - n) = m
      BY <1>1
    <3>. QED BY <3>1
  <2>2. n + j <= m
    BY <1>1, <2>1
  <2>3. \A i \in 1 .. n : Out(n + j)[i] = Out(n)[i]
    <3>. HIDE DEF Out
    <3>. QED BY <1>6, <2>2
  <2>. QED BY <2>1, <2>3
<1>8. Disambiguated(all) = Out(n) /\ Disambiguated(both) = Out(m)
  BY <1>3 DEF Disambiguated, n, m
<1>9. n \in n .. m /\ m \in n .. m
  BY <1>1
<1>. HIDE DEF Out
<1>10. SubSeq(Out(n), 1, n) = SubSeq(Out(m), 1, n)
  BY <1>1, <1>4, <1>7, <1>9
<1>11. IsPrefix(Out(n), Out(m))
  BY <1>1, <1>4, <1>9, <1>10 DEF IsPrefix
<1>. QED BY <1>8, <1>11 DEF both

-----------------------------------------------------------------------------
(* What files are made of, and what becomes of the file when more is        *)
(* collected of it.                                                         *)

(* The lists of a file are sequences of its words.                          *)
LEMMA ListsArePaths ==
  /\ <<>> \in Paths
  /\ \A list \in Lists : list \in Paths /\ \A n \in 1 .. Len(list) : list[n] \in Words
  /\ \A name \in Names : name \in Words /\ <<name>> \in Paths
  /\ Program \in Words /\ Main \in Words
<1>1. ASSUME NEW list \in Lists PROVE list \in Paths /\ \A n \in 1 .. Len(list) : list[n] \in Words
  <2>1. list \in Seq(Range(list))
    BY ListsAreSequences
  <2>2. \A n \in 1 .. Len(list) : list[n] \in Range(list)
    BY <2>1
  <2>3. Range(list) \subseteq Words
    BY DEF Words, ListWords
  <2>. HIDE DEF Words
  <2>4. list \in Seq(Words)
    BY <2>1, <2>2, <2>3
  <2>. QED BY <2>2, <2>3, <2>4 DEF Paths
<1>2. \A name \in Names : name \in Words
  BY DEF Words
<1>3. Program \in Words /\ Main \in Words
  BY DEF Words
<1>. HIDE DEF Words
<1>. QED BY <1>1, <1>2, <1>3 DEF Paths

(* The file's key, a plain key and a key with a print and an ordinal are    *)
(* keys.                                                                    *)
LEMMA KeysAreKeys ==
  /\ FileKey \in KeySet
  /\ \A path \in Paths : PlainKey(path) \in KeySet
  /\ \A path \in Paths, ordinal \in Int, print \in AllPrints :
        LocalKeyFor(path, ordinal, print) \in KeySet
BY ListsArePaths DEF KeySet, FileKey, PlainKey, Key, LocalKeyFor, NoOrdinal, AllPrints

(* The dotted name of the enclosing namespaces is a name.                   *)
LEMMA DottedIsPath ==
  ASSUME CSharpTyped, NEW name \in Words
  PROVE  /\ Dotted \in Paths /\ CsQualified(name) \in Paths /\ CsQualified(name) # <<>>
         /\ FullName(name) \in Paths /\ FullName(name) # <<>>
<1>1. Dotted \in Seq(Words)
  <2>1. namespaces \in Seq(Seq(Words))
    BY DEF CSharpTyped, Paths
  <2>. QED BY <2>1, Flattened DEF Dotted
<1>2. types \in Seq(Words) /\ <<name>> \in Seq(Words)
  BY DEF CSharpTyped, Paths
<1>. HIDE DEF Dotted, Words
<1>3. /\ Dotted \o types \o <<name>> \in Seq(Words) /\ Dotted \o types \o <<name>> # <<>>
      /\ Dotted \o <<name>> \in Seq(Words) /\ Dotted \o <<name>> # <<>>
  BY <1>1, <1>2
<1>. QED BY <1>1, <1>3 DEF Paths, CsQualified, FullName

(* A declaration makes a symbol of its parts.                               *)
LEMMA MakesSymbol ==
  ASSUME NEW name \in Paths, NEW path \in Paths, NEW kind \in SymbolKinds,
         NEW print \in AllPrints, NEW ordinal \in Int, NEW key \in KeySet
  PROVE  Declared(name, path, kind, print, ordinal, key) \in SymbolSet
BY DEF Declared, SymbolSet

(* Each form of edge, and a deferred target, is made of a source, a kind    *)
(* and a target.                                                            *)
LEMMA MakesEdge ==
  ASSUME NEW source \in KeySet, NEW kind \in EdgeKinds
  PROVE  /\ \A name \in Words : UnresolvedEdge(source, kind, <<name>>) \in EdgeSet
         /\ UnresolvedEdge(source, kind, <<>>) \in EdgeSet
         /\ \A key \in KeySet, confidence \in Confidences :
               Edge(source, kind, LocalTarget(key), confidence) \in EdgeSet
         /\ \A key \in KeySet : ContainsEdge(source, key) \in EdgeSet
         /\ \A name \in Words : Deferred(source, kind, name) \in DeferredSet
<1>1. /\ FileKey \in KeySet /\ <<>> \in Paths
      /\ \A name \in Words : <<name>> \in Paths
  BY KeysAreKeys, ListsArePaths DEF Paths
<1>2. \A key \in KeySet, text \in Paths :
         LocalTarget(key) \in TargetSet /\ NamedTarget(text) \in TargetSet
  BY <1>1 DEF LocalTarget, NamedTarget, TargetSet, TargetKinds
<1>3. \A target \in TargetSet, confidence \in Confidences :
         Edge(source, kind, target, confidence) \in EdgeSet
  BY DEF Edge, EdgeSet
<1>4. \A text \in Paths : UnresolvedEdge(source, kind, text) \in EdgeSet
  BY <1>2, <1>3 DEF UnresolvedEdge, Confidences
<1>5. \A key \in KeySet, confidence \in Confidences :
         Edge(source, kind, LocalTarget(key), confidence) \in EdgeSet
  BY <1>1, <1>2, <1>3
<1>6. \A key \in KeySet : ContainsEdge(source, key) \in EdgeSet
  <2>1. \A target \in TargetSet : Edge(source, "contains", target, "exact") \in EdgeSet
    BY DEF Edge, EdgeSet, EdgeKinds, Confidences
  <2>. QED BY <1>1, <1>2, <2>1 DEF ContainsEdge
<1>7. \A name \in Words : Deferred(source, kind, name) \in DeferredSet
  BY DEF Deferred, DeferredSet
<1>. QED BY <1>1, <1>4, <1>5, <1>6, <1>7

\* new is old with more after it.
Longer(new, old, more, X) ==
    /\ new \in Seq(X)
    /\ Len(new) = Len(old) + Len(more)
    /\ \A i \in 1 .. Len(old) : new[i] = old[i]
    /\ \A k \in 1 .. Len(more) : new[Len(old) + k] = more[k]
    /\ \A i \in 1 .. Len(new) :
          i \in 1 .. Len(old) \/ \E k \in 1 .. Len(more) : i = Len(old) + k

(* What is laid after a sequence is found after its length.                 *)
LEMMA LaidAfter ==
  ASSUME NEW X, NEW new, NEW old, NEW more, Longer(new, old, more, X),
         Len(old) \in Nat, Len(more) \in Nat, NEW k \in 1 .. Len(more)
  PROVE  Len(old) + k \in 1 .. Len(new) /\ new[Len(old) + k] = more[k]
BY DEF Longer

(* A sequence with another laid after it is the longer one of the two.      *)
LEMMA Lengthened ==
  ASSUME NEW X, NEW old \in Seq(X), NEW more \in Seq(X)
  PROVE  Longer(old \o more, old, more, X)
<1>1. /\ old \o more \in Seq(X) /\ Len(old \o more) = Len(old) + Len(more)
      /\ \A i \in 1 .. Len(old) : (old \o more)[i] = old[i]
      /\ \A k \in 1 .. Len(more) : (old \o more)[Len(old) + k] = more[k]
  OBVIOUS
<1>2. ASSUME NEW i \in 1 .. Len(old \o more), i \notin 1 .. Len(old)
      PROVE  \E k \in 1 .. Len(more) : i = Len(old) + k
  <2>1. i - Len(old) \in 1 .. Len(more) /\ i = Len(old) + (i - Len(old))
    BY <1>1, <1>2
  <2>. QED BY <2>1
<1>. QED BY <1>1, <1>2 DEF Longer

\* A file to which declarations and edges are added, none taken back.
Grown(new, old) ==
    /\ new.language = old.language
    /\ Len(old.homes) = Len(old.symbols)
    /\ Len(old.symbols) \in Nat /\ Len(new.symbols) \in Nat /\ Len(old.symbols) <= Len(new.symbols)
    /\ \A i \in 1 .. Len(old.symbols) :
          /\ new.symbols[i].key = old.symbols[i].key
          /\ new.symbols[i].name = old.symbols[i].name
          /\ new.symbols[i].kind = old.symbols[i].kind
    /\ Len(new.homes) \in Nat /\ Len(old.homes) <= Len(new.homes)
    /\ \A i \in 1 .. Len(old.homes) : new.homes[i] = old.homes[i]

(* What hung from the file hangs from it still.                             *)
LEMMA StaysAnchored ==
  ASSUME NEW new, NEW old, Grown(new, old), NEW key, Anchored(old, key)
  PROVE  Anchored(new, key)
<1>1. CASE \E i \in 1 .. Len(old.symbols) : old.symbols[i].key = key
  BY <1>1 DEF Grown, Anchored
<1>2. CASE /\ old.language = "typescript"
           /\ \E i \in 1 .. Len(old.homes) :
                 /\ old.symbols[i].kind = "class" /\ old.homes[i] # 0
                 /\ old.symbols[i].name = key.path
  <2>1. PICK i \in 1 .. Len(old.homes) :
           old.symbols[i].kind = "class" /\ old.homes[i] # 0 /\ old.symbols[i].name = key.path
    BY <1>2
  <2>2. /\ i \in 1 .. Len(new.homes) /\ new.homes[i] = old.homes[i]
        /\ new.symbols[i].kind = old.symbols[i].kind /\ new.symbols[i].name = old.symbols[i].name
        /\ new.language = old.language
    BY DEF Grown
  <2>. QED BY <1>2, <2>1, <2>2 DEF Anchored
<1>. QED BY <1>1, <1>2 DEF Anchored

(* An edge that hung from something of the file still does when the file    *)
(* has grown.                                                               *)
LEMMA StaysSourced ==
  ASSUME NEW new, NEW old, Grown(new, old), NEW edge, Sourced(old, edge)
  PROVE  Sourced(new, edge)
<1>1. Anchored(old, edge.source) => Anchored(new, edge.source)
  BY StaysAnchored
<1>2. new.language = old.language
  BY DEF Grown
<1>. QED BY <1>1, <1>2 DEF Sourced

(* An open declaration still fits the file when the file has grown.         *)
LEMMA FrameStillFits ==
  ASSUME NEW new, NEW old, Grown(new, old), NEW frame, frame.home \in Nat, FrameFits(old, frame)
  PROVE  FrameFits(new, frame)
<1>1. \A key : Anchored(old, key) => Anchored(new, key)
  BY StaysAnchored
<1>2. new.language = old.language /\ frame.home <= Len(new.homes)
  BY DEF Grown, FrameFits
<1>3. frame.home # 0 => new.symbols[frame.home].key = old.symbols[frame.home].key
  BY DEF Grown, FrameFits
<1>. QED BY <1>1, <1>2, <1>3 DEF FrameFits

(* A fact still fits the file when the file has grown.                      *)
LEMMA FactStillFits ==
  ASSUME NEW new, NEW old, Grown(new, old), \A i \in 1 .. Len(old.homes) : old.homes[i] \in Nat /\ old.homes[i] < i,
         NEW fact, fact.home \in Nat, FactFits(old, fact)
  PROVE  FactFits(new, fact)
<1>1. new.language = old.language /\ fact.home <= Len(new.homes)
  BY DEF Grown, FactFits
<1>2. fact.home # 0 => /\ new.homes[fact.home] = old.homes[fact.home]
                       /\ new.symbols[fact.home].kind = old.symbols[fact.home].kind
  BY DEF Grown, FactFits
<1>3. fact.home # 0 /\ old.homes[fact.home] # 0 =>
         new.symbols[old.homes[fact.home]].kind = old.symbols[old.homes[fact.home]].kind
  <2>. SUFFICES ASSUME fact.home # 0, old.homes[fact.home] # 0
                PROVE  new.symbols[old.homes[fact.home]].kind = old.symbols[old.homes[fact.home]].kind
    OBVIOUS
  <2>1. fact.home \in 1 .. Len(old.homes) /\ Len(old.homes) \in Nat /\ Len(old.homes) = Len(old.symbols)
    BY DEF Grown, FactFits
  <2>2. old.homes[fact.home] \in 1 .. Len(old.symbols)
    BY <2>1
  <2>. QED BY <2>2 DEF Grown
<1>4. \A what : what \in CallFacts => what \notin {"dbset"} \union MethodFacts
  BY DEF CallFacts, MethodFacts
<1>. QED BY <1>1, <1>2, <1>3, <1>4 DEF FactFits

(* A symbol still fits the file when the file has grown: the edge that      *)
(* contains it is still there.                                              *)
LEMMA StaysContained ==
  ASSUME NEW new, NEW old, Grown(new, old),
         Len(old.rels) \in Nat, Len(new.rels) \in Nat, Len(old.rels) <= Len(new.rels),
         \A e \in 1 .. Len(old.rels) : new.rels[e] = old.rels[e],
         NEW i \in 1 .. Len(old.symbols), new.symbols[i] = old.symbols[i],
         old.homes[i] \in Nat, SymbolFits(old, i)
  PROVE  SymbolFits(new, i)
<1>1. new.language = old.language /\ new.homes[i] = old.homes[i] /\ old.homes[i] < i
  BY DEF Grown, SymbolFits
<1>2. old.homes[i] # 0 => new.symbols[old.homes[i]].key = old.symbols[old.homes[i]].key
  <2>1. Len(old.symbols) \in Nat
    BY DEF Grown
  <2>2. old.homes[i] # 0 => old.homes[i] \in 1 .. Len(old.symbols)
    BY <1>1, <2>1
  <2>. QED BY <2>2 DEF Grown
<1>3. Contained(old, i) => Contained(new, i)
  BY <1>1, <1>2 DEF Contained
<1>. QED BY <1>1, <1>3 DEF SymbolFits

(* What the walk has collected is made of symbols, homes, edges, deferred   *)
(* targets and facts, one by one.                                           *)
LEMMA Collection ==
  ASSUME Typed
  PROVE  /\ \A f \in 1 .. Len(open) : open[f] \in FrameSet
         /\ \A i \in 1 .. Len(symbols) : symbols[i] \in SymbolSet
         /\ \A i \in 1 .. Len(homes) : homes[i] \in Nat
         /\ \A e \in 1 .. Len(rels) : rels[e] \in EdgeSet
         /\ \A p \in 1 .. Len(pending) : pending[p] \in DeferredSet
         /\ \A f \in 1 .. Len(facts) : facts[f] \in FactSet
         /\ Len(open) \in Nat /\ Len(symbols) \in Nat /\ Len(homes) \in Nat /\ Len(rels) \in Nat
         /\ Len(pending) \in Nat /\ Len(facts) \in Nat
<1>1. /\ open \in Seq(FrameSet) /\ symbols \in Seq(SymbolSet) /\ homes \in Seq(Nat)
      /\ rels \in Seq(EdgeSet) /\ pending \in Seq(DeferredSet) /\ facts \in Seq(FactSet)
  BY DEF Typed
<1>. QED BY <1>1

(* What the fields of an open declaration, a symbol, an edge, a deferred    *)
(* target and a fact are.                                                   *)
LEMMA Fields ==
  /\ \A frame \in FrameSet : /\ frame.home \in Nat /\ frame.container \in KeySet
                             /\ frame.scope \in KeySet /\ frame.parent \in Paths
  /\ \A symbol \in SymbolSet : /\ symbol.name \in Paths /\ symbol.path \in Paths
                               /\ symbol.kind \in SymbolKinds /\ symbol.print \in AllPrints
                               /\ symbol.ordinal \in Int /\ symbol.key \in KeySet
  /\ \A edge \in EdgeSet : edge.source \in KeySet /\ edge.kind \in EdgeKinds
  /\ \A reference \in DeferredSet : /\ reference.source \in KeySet /\ reference.kind \in EdgeKinds
                                    /\ reference.name \in Words
  /\ \A fact \in FactSet : fact.what \in FactKinds /\ fact.home \in Nat /\ fact.names \in Paths
BY DEF FrameSet, SymbolSet, EdgeSet, DeferredSet, FactSet

(* What a handler collects comes after what was collected.                  *)
LEMMA Collected ==
  ASSUME Typed, Walked, NEW s \in Seq(SymbolSet), NEW h \in Seq(Nat), Len(h) = Len(s),
         NEW r \in Seq(EdgeSet), NEW p \in Seq(DeferredSet), Collect(s, h, r, p)
  PROVE  /\ Longer(symbols', symbols, s, SymbolSet) /\ Longer(homes', homes, h, Nat)
         /\ Longer(rels', rels, r, EdgeSet) /\ Longer(pending', pending, p, DeferredSet)
         /\ language' = language /\ finished' = finished
         /\ Grown(File', File)
<1>1. /\ symbols' = symbols \o s /\ homes' = homes \o h /\ rels' = rels \o r
      /\ pending' = pending \o p /\ language' = language /\ finished' = finished
  BY DEF Collect
<1>2. /\ symbols \in Seq(SymbolSet) /\ homes \in Seq(Nat) /\ rels \in Seq(EdgeSet)
      /\ pending \in Seq(DeferredSet) /\ Len(homes) = Len(symbols)
  BY DEF Typed, Walked
<1>3. /\ Longer(symbols', symbols, s, SymbolSet) /\ Longer(homes', homes, h, Nat)
      /\ Longer(rels', rels, r, EdgeSet) /\ Longer(pending', pending, p, DeferredSet)
  BY <1>1, <1>2, Lengthened
<1>4. /\ Len(symbols) \in Nat /\ Len(symbols') \in Nat /\ Len(homes') \in Nat
      /\ Len(symbols) <= Len(symbols') /\ Len(homes) <= Len(homes')
      /\ \A i \in 1 .. Len(symbols) : symbols'[i] = symbols[i]
      /\ \A i \in 1 .. Len(homes) : homes'[i] = homes[i]
  BY <1>2, <1>3 DEF Longer
<1>5. Grown(File', File)
  BY <1>1, <1>2, <1>4 DEF Grown, File
<1>. QED BY <1>1, <1>3, <1>5

(* A handler that collects what fits the file leaves a file in which all    *)
(* fits.                                                                    *)
LEMMA WalkGoesOn ==
  ASSUME Typed, Walked, NEW s \in Seq(SymbolSet), NEW h \in Seq(Nat), Len(h) = Len(s),
         NEW r \in Seq(EdgeSet), NEW p \in Seq(DeferredSet), Collect(s, h, r, p),
         facts' = facts, open' \in Seq(FrameSet), Len(open') >= 1,
         \A f \in 1 .. Len(open') :
            (\E g \in 1 .. Len(open) : open'[f] = open[g]) \/ FrameFits(File', open'[f]),
         \A k \in 1 .. Len(s) : SymbolFits(File', Len(symbols) + k),
         \A k \in 1 .. Len(r) : Sourced(File', r[k]),
         \A k \in 1 .. Len(p) : Anchored(File', p[k].source)
  PROVE  Typed' /\ Walked'
<1>1. /\ Longer(symbols', symbols, s, SymbolSet) /\ Longer(homes', homes, h, Nat)
      /\ Longer(rels', rels, r, EdgeSet) /\ Longer(pending', pending, p, DeferredSet)
      /\ language' = language /\ finished' = finished
      /\ Grown(File', File)
  BY Collected
<1>2. Typed'
  BY <1>1 DEF Typed, Longer
<1>3. Len(homes') = Len(symbols')
  <2>1. Len(homes) = Len(symbols)
    BY DEF Walked
  <2>. QED BY <1>1, <2>1 DEF Longer
<1>4. ASSUME NEW f \in 1 .. Len(open') PROVE FrameFits(File', open'[f])
  <2>1. CASE \E g \in 1 .. Len(open) : open'[f] = open[g]
    <3>1. PICK g \in 1 .. Len(open) : open'[f] = open[g]
      BY <2>1
    <3>2. open[g].home \in Nat
      BY Collection, Fields
    <3>3. FrameFits(File, open[g])
      BY DEF Walked
    <3>. QED BY <1>1, <3>1, <3>2, <3>3, FrameStillFits
  <2>. QED BY <2>1
<1>5. ASSUME NEW i \in 1 .. Len(symbols') PROVE SymbolFits(File', i)
  <2>1. CASE i \in 1 .. Len(symbols)
    <3>1. /\ Len(rels) \in Nat /\ Len(rels') \in Nat /\ Len(rels) <= Len(rels')
          /\ \A e \in 1 .. Len(rels) : rels'[e] = rels[e]
      <4>1. Len(rels) \in Nat /\ Len(r) \in Nat
        BY Collection
      <4>. QED BY <1>1, <4>1 DEF Longer
    <3>2. symbols'[i] = symbols[i] /\ homes[i] \in Nat /\ SymbolFits(File, i)
      <4>1. Len(homes) = Len(symbols) /\ \A j \in 1 .. Len(homes) : homes[j] \in Nat
        BY Collection DEF Walked
      <4>. QED BY <1>1, <2>1, <4>1 DEF Longer, Walked
    <3>. DEFINE new == File'
                old == File
    <3>3. /\ new.rels = rels' /\ old.rels = rels /\ new.symbols = symbols' /\ old.symbols = symbols
          /\ old.homes = homes
      BY DEF File
    <3>. HIDE DEF new, old
    <3>4. Grown(new, old) /\ SymbolFits(old, i)
      BY <1>1, <3>2 DEF new, old
    <3>5. SymbolFits(new, i)
      BY <2>1, <3>1, <3>2, <3>3, <3>4, StaysContained
    <3>. QED BY <3>5 DEF new
  <2>2. CASE i \notin 1 .. Len(symbols)
    <3>1. PICK k \in 1 .. Len(s) : i = Len(symbols) + k
      BY <1>1, <2>2 DEF Longer
    <3>. QED BY <3>1
  <2>. QED BY <2>1, <2>2
<1>6. ASSUME NEW e \in 1 .. Len(rels') PROVE Sourced(File', rels'[e])
  <2>1. CASE e \in 1 .. Len(rels)
    <3>1. rels'[e] = rels[e] /\ Sourced(File, rels[e])
      BY <1>1, <2>1 DEF Longer, Walked
    <3>. QED BY <1>1, <3>1, StaysSourced
  <2>2. CASE e \notin 1 .. Len(rels)
    <3>1. PICK k \in 1 .. Len(r) : e = Len(rels) + k
      BY <1>1, <2>2 DEF Longer
    <3>2. rels'[e] = r[k]
      BY <1>1, <3>1 DEF Longer
    <3>. QED BY <3>2
  <2>. QED BY <2>1, <2>2
<1>7. ASSUME NEW q \in 1 .. Len(pending') PROVE Anchored(File', pending'[q].source)
  <2>1. CASE q \in 1 .. Len(pending)
    <3>1. pending'[q] = pending[q] /\ Anchored(File, pending[q].source)
      BY <1>1, <2>1 DEF Longer, Walked
    <3>. QED BY <1>1, <3>1, StaysAnchored
  <2>2. CASE q \notin 1 .. Len(pending)
    <3>1. PICK k \in 1 .. Len(p) : q = Len(pending) + k
      BY <1>1, <2>2 DEF Longer
    <3>2. pending'[q] = p[k]
      BY <1>1, <3>1 DEF Longer
    <3>. QED BY <3>2
  <2>. QED BY <2>1, <2>2
<1>8. ASSUME NEW f \in 1 .. Len(facts') PROVE FactFits(File', facts'[f])
  <2>1. facts[f].home \in Nat /\ FactFits(File, facts[f])
    BY Collection, Fields DEF Walked
  <2>2. \A i \in 1 .. Len(File.homes) : File.homes[i] \in Nat /\ File.homes[i] < i
    BY DEF Typed, Walked, SymbolFits, File
  <2>. QED BY <1>1, <2>1, <2>2, FactStillFits
<1>9. Walked'
  BY <1>3, <1>4, <1>5, <1>6, <1>7, <1>8 DEF Walked
<1>. QED BY <1>2, <1>9

\* What becomes of the open declarations.
OpenFits ==
    /\ open' \in Seq(FrameSet) /\ Len(open') >= 1
    /\ \A f \in 1 .. Len(open') :
          (\E g \in 1 .. Len(open) : open'[f] = open[g]) \/ FrameFits(File', open'[f])

(* The innermost open declaration is there and fits the file.               *)
LEMMA HereFits ==
  ASSUME Typed, Walked
  PROVE  /\ Here \in FrameSet /\ Here.home \in Nat /\ Here.container \in KeySet
         /\ Here.scope \in KeySet /\ Here.parent \in Paths
         /\ FrameFits(File, Here) /\ Here.home <= Len(symbols) /\ Len(symbols) \in Nat
<1>1. Len(open) \in 1 .. Len(open) /\ Here = open[Len(open)]
  BY Collection DEF Typed, Here, Last
<1>2. Here \in FrameSet /\ FrameFits(File, Here)
  BY <1>1, Collection DEF Walked
<1>3. Here.home <= Len(File.homes)
  BY <1>2 DEF FrameFits
<1>4. File.homes = homes /\ Len(homes) = Len(symbols)
  BY DEF File, Walked
<1>. QED BY <1>2, <1>3, <1>4, Fields, Collection

(* Leaving the open declarations alone leaves them fitting the file.        *)
LEMMA OpenStays ==
  ASSUME Typed, open' = open
  PROVE  OpenFits
BY DEF OpenFits, Typed

(* Opening a declaration that fits the file leaves all the open ones        *)
(* fitting it.                                                              *)
LEMMA OpenGrows ==
  ASSUME Typed, NEW frame \in FrameSet, open' = Append(open, frame), FrameFits(File', frame)
  PROVE  OpenFits
<1>1. open \in Seq(FrameSet) /\ Len(open) \in Nat
  BY DEF Typed
<1>2. /\ open' \in Seq(FrameSet) /\ Len(open') = Len(open) + 1
      /\ open'[Len(open) + 1] = frame /\ \A f \in 1 .. Len(open) : open'[f] = open[f]
  BY <1>1
<1>3. ASSUME NEW f \in 1 .. Len(open'), f \notin 1 .. Len(open) PROVE f = Len(open) + 1
  BY <1>1, <1>2, <1>3
<1>. QED BY <1>1, <1>2, <1>3 DEF OpenFits

(* Closing the innermost declaration, when it is not the file, leaves the   *)
(* others fitting it.                                                       *)
LEMMA OpenShrinks ==
  ASSUME Typed, open' = Front(open), Len(open) > 1
  PROVE  OpenFits
<1>1. open \in Seq(FrameSet) /\ Len(open) \in Nat
  BY DEF Typed
<1>2. /\ open' \in Seq(FrameSet) /\ Len(open') = Len(open) - 1
      /\ \A f \in 1 .. Len(open) - 1 : open'[f] = open[f]
  BY <1>1 DEF Front
<1>. QED BY <1>1, <1>2 DEF OpenFits

(* The same, in terms of what became of the open declarations: WalkGoesOn   *)
(* for a handler that notes no fact.                                        *)
LEMMA Handled ==
  ASSUME Typed, Walked, NEW s \in Seq(SymbolSet), NEW h \in Seq(Nat), Len(h) = Len(s),
         NEW r \in Seq(EdgeSet), NEW p \in Seq(DeferredSet), Collect(s, h, r, p),
         facts' = facts, OpenFits,
         \A k \in 1 .. Len(s) : SymbolFits(File', Len(symbols) + k),
         \A k \in 1 .. Len(r) : Sourced(File', r[k]),
         \A k \in 1 .. Len(p) : Anchored(File', p[k].source)
  PROVE  Typed' /\ Walked'
BY WalkGoesOn DEF OpenFits

(* One symbol collected.                                                    *)
LEMMA OneCollected ==
  ASSUME Typed, Walked, NEW symbol \in SymbolSet, NEW home \in Nat,
         NEW r \in Seq(EdgeSet), NEW p \in Seq(DeferredSet), Collect(<<symbol>>, <<home>>, r, p)
  PROVE  /\ File'.symbols[Len(symbols) + 1] = symbol
         /\ File'.homes[Len(symbols) + 1] = home
         /\ Len(File'.symbols) = Len(symbols) + 1 /\ Len(File'.homes) = Len(symbols) + 1
         /\ Len(symbols) + 1 \in 1 .. Len(File'.symbols)
         /\ File'.language = language
         /\ Grown(File', File)
         /\ Anchored(File', symbol.key)
         /\ Longer(rels', rels, r, EdgeSet) /\ File'.rels = rels'
<1>1. <<symbol>> \in Seq(SymbolSet) /\ <<home>> \in Seq(Nat) /\ Len(<<home>>) = Len(<<symbol>>)
      /\ <<symbol>>[1] = symbol /\ <<home>>[1] = home /\ Len(<<symbol>>) = 1
  OBVIOUS
<1>2. /\ Longer(symbols', symbols, <<symbol>>, SymbolSet) /\ Longer(homes', homes, <<home>>, Nat)
      /\ Longer(rels', rels, r, EdgeSet) /\ language' = language /\ Grown(File', File)
  BY <1>1, Collected
<1>3. Len(homes) = Len(symbols) /\ Len(symbols) \in Nat
  BY Collection DEF Walked
<1>4. /\ symbols'[Len(symbols) + 1] = symbol /\ homes'[Len(symbols) + 1] = home
      /\ Len(symbols') = Len(symbols) + 1 /\ Len(homes') = Len(symbols) + 1
  BY <1>1, <1>2, <1>3 DEF Longer
<1>5. /\ File'.symbols = symbols' /\ File'.homes = homes' /\ File'.language = language'
      /\ File'.rels = rels'
  BY DEF File
<1>6. Len(symbols) + 1 \in 1 .. Len(symbols')
  BY <1>3, <1>4
<1>. QED BY <1>2, <1>4, <1>5, <1>6 DEF Anchored

(* The decorators of a declaration are edges that hang from it.             *)
LEMMA DecorationsFit ==
  ASSUME NEW source \in KeySet, NEW list \in Lists
  PROVE  /\ Decorations(source, list) \in Seq(EdgeSet)
         /\ \A d \in 1 .. Len(Decorations(source, list)) :
               /\ Decorations(source, list)[d].source = source
               /\ Decorations(source, list)[d].kind = "decorates"
<1>1. list \in Paths /\ Len(list) \in Nat /\ \A n \in 1 .. Len(list) : list[n] \in Words
  BY ListsArePaths DEF Paths
<1>2. \A n \in 1 .. Len(list) : UnresolvedEdge(source, "decorates", <<list[n]>>) \in EdgeSet
  BY <1>1, MakesEdge DEF EdgeKinds
<1>3. \A text : /\ UnresolvedEdge(source, "decorates", text).source = source
                /\ UnresolvedEdge(source, "decorates", text).kind = "decorates"
  BY DEF UnresolvedEdge, Edge
<1>. HIDE DEF UnresolvedEdge
<1>. QED BY <1>1, <1>2, <1>3 DEF Decorations

(* The bases and interfaces of a class are deferred targets that hang from  *)
(* it.                                                                      *)
LEMMA HeritageFits ==
  ASSUME NEW name \in Names, NEW extends \in Lists, NEW implements \in Lists
  PROVE  /\ Heritage(name, extends, implements) \in Seq(DeferredSet)
         /\ \A d \in 1 .. Len(Heritage(name, extends, implements)) :
               Heritage(name, extends, implements)[d].source = ClassKey(name)
<1>. DEFINE key == ClassKey(name)
            e == [n \in 1 .. Len(extends) |-> Deferred(key, "inherits", extends[n])]
            i == [n \in 1 .. Len(implements) |-> Deferred(key, "implements", implements[n])]
            Of == {reference \in DeferredSet : reference.source = key}
<1>1. key \in KeySet
  BY ListsArePaths, KeysAreKeys DEF ClassKey
<1>. HIDE DEF key
<1>2. \A kind \in EdgeKinds, word \in Words : Deferred(key, kind, word) \in Of
  BY <1>1, MakesEdge DEF Deferred
<1>. HIDE DEF Of
<1>3. /\ Len(extends) \in Nat /\ \A n \in 1 .. Len(extends) : extends[n] \in Words
      /\ Len(implements) \in Nat /\ \A n \in 1 .. Len(implements) : implements[n] \in Words
  BY ListsArePaths DEF Paths
<1>4. e \in Seq(Of) /\ i \in Seq(Of)
  BY <1>2, <1>3 DEF EdgeKinds
<1>. HIDE DEF e, i
<1>5. e \o i \in Seq(Of)
  BY <1>4
<1>6. Heritage(name, extends, implements) = e \o i
  BY DEF Heritage, e, i, key
<1>. HIDE DEF Heritage
<1>7. \A d \in 1 .. Len(e \o i) : (e \o i)[d] \in Of
  BY <1>5
<1>8. e \o i \in Seq(DeferredSet)
  BY <1>5 DEF Of
<1>. QED BY <1>6, <1>7, <1>8 DEF Of, key

-----------------------------------------------------------------------------
(* The TypeScript walk, handler by handler.                                 *)

\* A TypeScript walk: its step, and that nothing else is touched.
TypeScriptStep == Typed /\ Walked /\ ~finished /\ language = "typescript" /\ facts' = facts

(* A name, or a name in its class, is a path with a key, and a member's key *)
(* is two names long.                                                       *)
LEMMA QualifiedIsPath ==
  ASSUME NEW parent \in Paths, NEW name \in Names
  PROVE  /\ Qualified(parent, name) \in Paths /\ PlainKey(Qualified(parent, name)) \in KeySet
         /\ MemberKey(parent, name) = PlainKey(Qualified(parent, name))
         /\ ClassKey(name) \in KeySet /\ <<name>> \in Paths
         /\ ClassKey(name).path = <<name>>
         /\ parent = <<>> => Qualified(parent, name) = <<name>>
         /\ Len(parent) = 1 => Len(MemberKey(parent, name).path) = 2
<1>1. <<name>> \in Paths /\ name \in Words
  BY ListsArePaths
<1>2. Qualified(parent, name) \in Paths
  BY <1>1 DEF Qualified, Paths
<1>3. PlainKey(Qualified(parent, name)) \in KeySet /\ ClassKey(name) \in KeySet
  BY <1>1, <1>2, KeysAreKeys DEF ClassKey
<1>4. /\ MemberKey(parent, name) = PlainKey(Qualified(parent, name))
      /\ MemberKey(parent, name).path = Qualified(parent, name)
      /\ ClassKey(name).path = <<name>>
  BY DEF MemberKey, ClassKey, PlainKey, Key
<1>5. parent = <<>> => Qualified(parent, name) = <<name>>
  BY <1>1 DEF Qualified, Paths
<1>6. Len(Qualified(parent, name)) = Len(parent) + 1
  <2>1. parent \in Seq(Words) /\ <<name>> \in Seq(Words) /\ Len(<<name>>) = 1
    BY <1>1 DEF Paths
  <2>. QED BY <2>1 DEF Qualified
<1>7. Len(parent) = 1 => Len(MemberKey(parent, name).path) = 2
  BY <1>4, <1>6
<1>. HIDE DEF Qualified, MemberKey, ClassKey
<1>. QED BY <1>1, <1>2, <1>3, <1>4, <1>5, <1>7

(* A TypeScript declaration makes a symbol keyed by its class and name.     *)
LEMMA NamedIsSymbol ==
  ASSUME NEW kind \in SymbolKinds, NEW parent \in Paths, NEW name \in Names,
         NEW print \in AllPrints
  PROVE  /\ Named(kind, parent, name, print) \in SymbolSet
         /\ Named(kind, parent, name, print).name = <<name>>
         /\ Named(kind, parent, name, print).kind = kind
         /\ Named(kind, parent, name, print).key = PlainKey(Qualified(parent, name))
<1>1. /\ <<name>> \in Paths /\ Qualified(parent, name) \in Paths
      /\ PlainKey(Qualified(parent, name)) \in KeySet /\ NoOrdinal \in Int
  BY QualifiedIsPath DEF NoOrdinal
<1>2. Named(kind, parent, name, print) \in SymbolSet
  BY <1>1, MakesSymbol DEF Named
<1>. QED BY <1>2 DEF Named, Declared

(* A symbol that is no class, or stands on its own, fits a TypeScript file. *)
LEMMA SymbolOfTypeScript ==
  ASSUME NEW file, NEW i, file.language = "typescript", file.homes[i] < i,
         file.symbols[i].kind = "class" /\ file.homes[i] = 0 =>
            file.symbols[i].key = PlainKey(file.symbols[i].name)
  PROVE  SymbolFits(file, i)
BY DEF SymbolFits

(* A TypeScript handler that collects one symbol keeps the walk sound.      *)
LEMMA SymbolStep ==
  ASSUME Typed, Walked, facts' = facts, NEW symbol \in SymbolSet, NEW home \in Nat,
         NEW r \in Seq(EdgeSet), NEW p \in Seq(DeferredSet), Collect(<<symbol>>, <<home>>, r, p),
         OpenFits, SymbolFits(File', Len(symbols) + 1),
         \A k \in 1 .. Len(r) : Sourced(File', r[k]),
         \A k \in 1 .. Len(p) : Anchored(File', p[k].source)
  PROVE  Typed' /\ Walked'
<1>1. <<symbol>> \in Seq(SymbolSet) /\ <<home>> \in Seq(Nat) /\ Len(<<home>>) = Len(<<symbol>>)
  OBVIOUS
<1>2. \A k \in 1 .. Len(<<symbol>>) : SymbolFits(File', Len(symbols) + k)
  OBVIOUS
<1>. QED BY <1>1, <1>2, Handled

(* A TypeScript handler that collects no symbol keeps the walk sound.       *)
LEMMA ReferenceStep ==
  ASSUME Typed, Walked, facts' = facts,
         NEW r \in Seq(EdgeSet), NEW p \in Seq(DeferredSet), Collect(<<>>, <<>>, r, p),
         OpenFits,
         \A k \in 1 .. Len(r) : Sourced(File', r[k]),
         \A k \in 1 .. Len(p) : Anchored(File', p[k].source)
  PROVE  Typed' /\ Walked'
<1>1. <<>> \in Seq(SymbolSet) /\ <<>> \in Seq(Nat)
      /\ \A k \in 1 .. Len(<<>>) : SymbolFits(File', Len(symbols) + k)
  OBVIOUS
<1>. QED BY <1>1, Handled

(* Collecting no symbol leaves a file that has grown by edges alone.        *)
LEMMA NoneCollected ==
  ASSUME Typed, Walked, NEW r \in Seq(EdgeSet), NEW p \in Seq(DeferredSet),
         Collect(<<>>, <<>>, r, p)
  PROVE  Grown(File', File) /\ File'.language = language /\ Len(File'.homes) = Len(symbols)
<1>1. <<>> \in Seq(SymbolSet) /\ <<>> \in Seq(Nat)
  OBVIOUS
<1>2. Longer(homes', homes, <<>>, Nat) /\ Grown(File', File) /\ language' = language
  BY <1>1, Collected
<1>. QED BY <1>2, Collection DEF Longer, File, Walked

(* class_declaration keeps the walk sound: the class is keyed by its name   *)
(* alone, wherever it is written, and its edges hang from that key.         *)
LEMMA ClassStep ==
  ASSUME TypeScriptStep, NEW name \in Names, NEW extends \in Lists, NEW implements \in Lists,
         NEW decorators \in Lists, ClassDeclaration(name, extends, implements, decorators)
  PROVE  Typed' /\ Walked'
<1>. USE DEF TypeScriptStep
<1>. DEFINE symbol == Named("class", Here.parent, name, NoPrint)
            r == Decorations(ClassKey(name), decorators)
            p == Heritage(name, extends, implements)
            frame == Frame("class", FileKey, <<name>>, Here.scope, Len(symbols) + 1)
            n == Len(symbols) + 1
<1>1. /\ Here.parent \in Paths /\ Here.home \in Nat /\ FrameFits(File, Here)
      /\ Here.scope \in KeySet /\ Here.home < n /\ n \in Nat /\ n # 0
  BY HereFits
<1>2. /\ symbol \in SymbolSet /\ symbol.name = <<name>> /\ symbol.kind = "class"
      /\ symbol.key = PlainKey(Qualified(Here.parent, name))
  BY <1>1, NamedIsSymbol DEF SymbolKinds, AllPrints
<1>3. r \in Seq(EdgeSet) /\ p \in Seq(DeferredSet)
  BY <1>1, QualifiedIsPath, DecorationsFit, HeritageFits
<1>4. Collect(<<symbol>>, <<Here.home>>, r, p) /\ open' = Append(open, frame)
  BY DEF ClassDeclaration, Enter
<1>. HIDE DEF symbol, r, p, frame, n, Collect
<1>5. /\ File'.symbols[n] = symbol /\ File'.homes[n] = Here.home
      /\ Len(File'.homes) = n /\ n \in 1 .. Len(File'.homes)
      /\ File'.language = "typescript" /\ Grown(File', File) /\ Anchored(File', symbol.key)
  BY <1>1, <1>2, <1>3, <1>4, OneCollected DEF n
<1>6. Here.home = 0 => Here.parent = <<>>
  BY <1>1 DEF FrameFits, File
<1>7. Here.home = 0 => symbol.key = ClassKey(name)
  BY <1>1, <1>2, <1>6, QualifiedIsPath DEF ClassKey
<1>8. Anchored(File', ClassKey(name))
  <2>1. CASE Here.home = 0
    BY <1>5, <1>7, <2>1
  <2>2. CASE Here.home # 0
    <3>1. symbol.name = ClassKey(name).path
      BY <1>1, <1>2, QualifiedIsPath
    <3>. QED BY <1>2, <1>5, <2>2, <3>1 DEF Anchored
  <2>. QED BY <2>1, <2>2
<1>9. SymbolFits(File', n)
  BY <1>1, <1>2, <1>5, <1>7, SymbolOfTypeScript DEF ClassKey
<1>10. FrameFits(File', frame) /\ frame \in FrameSet
  <2>1. Anchored(File', Here.scope)
    BY <1>1, <1>5, StaysAnchored DEF FrameFits
  <2>2. <<name>> \in Paths /\ FileKey \in KeySet /\ <<name>> # <<>> /\ Len(<<name>>) = 1
    BY ListsArePaths, KeysAreKeys
  <2>3. frame \in FrameSet
    BY <1>1, <2>2 DEF frame, n, Frame, FrameSet, FrameKinds
  <2>4. /\ frame.home = n /\ frame.what = "class" /\ frame.scope = Here.scope /\ frame.parent = <<name>>
    BY DEF frame, n, Frame
  <2>5. n <= Len(File'.homes)
    BY <1>1, <1>5
  <2>. QED BY <1>1, <1>5, <1>8, <2>1, <2>2, <2>3, <2>4, <2>5 DEF FrameFits, ClassKey
<1>11. OpenFits
  BY <1>4, <1>10, OpenGrows
<1>12. \A k \in 1 .. Len(r) : Sourced(File', r[k])
  <2>1. \A k \in 1 .. Len(r) : r[k].source = ClassKey(name)
    <3>1. ClassKey(name) \in KeySet
      BY <1>1, QualifiedIsPath
    <3>. QED BY <3>1, DecorationsFit DEF r
  <2>. QED BY <1>8, <2>1 DEF Sourced
<1>13. \A k \in 1 .. Len(p) : Anchored(File', p[k].source)
  BY <1>8, HeritageFits DEF p
<1>14. SymbolFits(File', Len(symbols) + 1)
  BY <1>9 DEF n
<1>. QED BY <1>1, <1>2, <1>3, <1>4, <1>11, <1>12, <1>13, <1>14, SymbolStep

(* interface_declaration keeps the walk sound.                              *)
LEMMA InterfaceStep ==
  ASSUME TypeScriptStep, NEW name \in Names, InterfaceDeclaration(name)
  PROVE  Typed' /\ Walked'
<1>. USE DEF TypeScriptStep
<1>. DEFINE symbol == Named("interface", Here.parent, name, NoPrint)
            n == Len(symbols) + 1
<1>1. Here.parent \in Paths /\ Here.home \in Nat /\ Here.home < n /\ n \in Nat
  BY HereFits
<1>2. symbol \in SymbolSet /\ symbol.kind = "interface"
  BY <1>1, NamedIsSymbol DEF SymbolKinds, AllPrints
<1>3. Collect(<<symbol>>, <<Here.home>>, <<>>, <<>>) /\ open' = open
  BY DEF InterfaceDeclaration, Stay
<1>4. <<>> \in Seq(EdgeSet) /\ <<>> \in Seq(DeferredSet)
  OBVIOUS
<1>. HIDE DEF symbol, n, Collect
<1>5. File'.symbols[n] = symbol /\ File'.homes[n] = Here.home /\ File'.language = "typescript"
  BY <1>1, <1>2, <1>3, <1>4, OneCollected DEF n
<1>6. SymbolFits(File', Len(symbols) + 1)
  BY <1>1, <1>2, <1>5, SymbolOfTypeScript DEF n
<1>7. OpenFits
  BY <1>3, OpenStays
<1>8. /\ \A k \in 1 .. Len(<<>>) : Sourced(File', <<>>[k])
      /\ \A k \in 1 .. Len(<<>>) : Anchored(File', <<>>[k].source)
  OBVIOUS
<1>. QED BY <1>1, <1>2, <1>3, <1>4, <1>6, <1>7, <1>8, SymbolStep

(* A handler that collects a symbol with a body, and opens it with its key  *)
(* as the scope, keeps the walk sound.                                      *)
LEMMA BodyStep ==
  ASSUME TypeScriptStep, NEW symbol \in SymbolSet, symbol.kind # "class",
         NEW r \in Seq(EdgeSet), NEW parent \in Paths,
         parent = <<>> \/ parent = Here.parent,
         Collect(<<symbol>>, <<Here.home>>, r, <<>>),
         open' = Append(open, Frame("body", FileKey, parent, symbol.key, Len(symbols) + 1)),
         \A k \in 1 .. Len(r) : \/ Anchored(File, r[k].source)
                                \/ r[k].source = symbol.key
  PROVE  Typed' /\ Walked'
<1>. USE DEF TypeScriptStep
<1>. DEFINE n == Len(symbols) + 1
            frame == Frame("body", FileKey, parent, symbol.key, n)
<1>1. /\ Here.parent \in Paths /\ Here.home \in Nat /\ FrameFits(File, Here)
      /\ Here.home < n /\ n \in Nat /\ n # 0 /\ symbol.key \in KeySet /\ FileKey \in KeySet
  BY HereFits, Fields, KeysAreKeys
<1>2. open' = Append(open, frame)
  OBVIOUS
<1>3. <<>> \in Seq(DeferredSet)
  OBVIOUS
<1>. HIDE DEF frame, n, Collect
<1>4. /\ File'.symbols[n] = symbol /\ File'.homes[n] = Here.home
      /\ Len(File'.homes) = n
      /\ File'.language = "typescript" /\ Grown(File', File) /\ Anchored(File', symbol.key)
  BY <1>1, <1>3, OneCollected DEF n
<1>5. SymbolFits(File', Len(symbols) + 1)
  BY <1>1, <1>4, SymbolOfTypeScript DEF n
<1>6. \A key : Anchored(File, key) => Anchored(File', key)
  BY <1>4, StaysAnchored
<1>7. frame \in FrameSet
  BY <1>1 DEF frame, Frame, FrameSet, FrameKinds
<1>8. FrameFits(File', frame)
  <2>1. /\ frame.home = n /\ frame.what = "body" /\ frame.scope = symbol.key
        /\ frame.parent = parent
    BY DEF frame, Frame
  <2>2. parent # <<>> => Len(parent) = 1 /\ Anchored(File', PlainKey(parent))
    BY <1>1, <1>6 DEF FrameFits, File
  <2>3. n <= Len(File'.homes)
    BY <1>1, <1>4
  <2>. QED BY <1>1, <1>4, <2>1, <2>2, <2>3 DEF FrameFits
<1>9. OpenFits
  BY <1>2, <1>7, <1>8, OpenGrows
<1>10. \A k \in 1 .. Len(r) : Sourced(File', r[k])
  BY <1>4, <1>6 DEF Sourced
<1>11. \A k \in 1 .. Len(<<>>) : Anchored(File', <<>>[k].source)
  OBVIOUS
<1>. QED BY <1>1, <1>3, <1>5, <1>9, <1>10, <1>11, SymbolStep

(* method_definition keeps the walk sound.                                  *)
LEMMA MethodStep ==
  ASSUME TypeScriptStep, NEW kind \in {"method", "constructor"}, NEW name \in Names,
         NEW print \in Prints, NEW decorators \in Lists,
         MethodDefinition(kind, name, print, decorators)
  PROVE  Typed' /\ Walked'
<1>. USE DEF TypeScriptStep
<1>. DEFINE symbol == Named(kind, Here.parent, name, print)
            key == MemberKey(Here.parent, name)
            d == IF Here.what = "class" THEN Decorations(key, decorators) ELSE <<>>
            c == ContainsEdge(PlainKey(Here.parent), key)
            r == d \o <<c>>
            Fine == {edge \in EdgeSet : Anchored(File, edge.source) \/ edge.source = key}
<1>1. Here.parent \in Paths /\ FrameFits(File, Here)
  BY HereFits
<1>2. /\ symbol \in SymbolSet /\ symbol.kind # "class" /\ symbol.key = key /\ key \in KeySet
      /\ PlainKey(Here.parent) \in KeySet
  <2>1. /\ kind \in SymbolKinds /\ kind # "class" /\ print \in AllPrints
    BY DEF SymbolKinds, AllPrints
  <2>2. symbol \in SymbolSet /\ symbol.kind = kind /\ symbol.key = PlainKey(Qualified(Here.parent, name))
    BY <1>1, <2>1, NamedIsSymbol
  <2>3. key = PlainKey(Qualified(Here.parent, name)) /\ key \in KeySet
    BY <1>1, QualifiedIsPath
  <2>4. PlainKey(Here.parent) \in KeySet
    BY <1>1, KeysAreKeys
  <2>. HIDE DEF symbol, key
  <2>. QED BY <2>1, <2>2, <2>3, <2>4
<1>3. Anchored(File, PlainKey(Here.parent))
  <2>1. Here.what \in {"class", "field"}
    BY DEF MethodDefinition
  <2>. QED BY <1>1, <2>1 DEF FrameFits, File
<1>4. d \in Seq(Fine)
  <2>1. /\ Decorations(key, decorators) \in Seq(EdgeSet)
        /\ \A n \in 1 .. Len(Decorations(key, decorators)) : Decorations(key, decorators)[n].source = key
    BY <1>2, DecorationsFit
  <2>. HIDE DEF Decorations, key
  <2>2. Decorations(key, decorators) \in Seq(Fine)
    <3>. DEFINE ds == Decorations(key, decorators)
    <3>1. ds \in Seq(EdgeSet) /\ \A n \in 1 .. Len(ds) : ds[n].source = key
      BY <2>1
    <3>. HIDE DEF ds
    <3>2. \A n \in 1 .. Len(ds) : ds[n] \in EdgeSet
      BY <3>1
    <3>3. \A n \in 1 .. Len(ds) : ds[n] \in Fine
      BY <3>1, <3>2
    <3>4. ds \in Seq(Fine)
      <4>. HIDE DEF Fine
      <4>. QED BY <3>1, <3>3
    <3>. QED BY <3>4 DEF ds
  <2>. QED BY <2>2
<1>5. c \in Fine
  <2>1. c \in EdgeSet
    BY <1>2, MakesEdge DEF EdgeKinds
  <2>2. c.source = PlainKey(Here.parent)
    BY DEF ContainsEdge, Edge
  <2>. QED BY <1>3, <2>1, <2>2
<1>6. r \in Seq(Fine)
  <2>. HIDE DEF d, c, Fine
  <2>. QED BY <1>4, <1>5
<1>7. /\ Collect(<<symbol>>, <<Here.home>>, r, <<>>)
      /\ open' = Append(open, Frame("body", FileKey, <<>>, symbol.key, Len(symbols) + 1))
  BY <1>2 DEF MethodDefinition, Enter
<1>. HIDE DEF symbol, r, Collect
<1>8. r \in Seq(EdgeSet) /\ \A k \in 1 .. Len(r) : r[k] \in Fine
  BY <1>6
<1>9. <<>> \in Paths
  BY ListsArePaths
<1>. QED BY <1>2, <1>7, <1>8, <1>9, BodyStep

(* function_declaration keeps the walk sound.                               *)
LEMMA FunctionStep ==
  ASSUME TypeScriptStep, NEW name \in Names, NEW print \in Prints, FunctionDeclaration(name, print)
  PROVE  Typed' /\ Walked'
<1>. USE DEF TypeScriptStep
<1>. DEFINE symbol == Named("function", <<>>, name, print)
<1>1. Here.parent \in Paths /\ <<>> \in Paths
  BY HereFits, ListsArePaths
<1>2. symbol \in SymbolSet /\ symbol.kind # "class" /\ symbol.key = PlainKey(<<name>>)
  <2>1. "function" \in SymbolKinds /\ print \in AllPrints
    BY DEF SymbolKinds, AllPrints
  <2>2. /\ symbol \in SymbolSet /\ symbol.kind = "function"
        /\ symbol.key = PlainKey(Qualified(<<>>, name))
    BY <1>1, <2>1, NamedIsSymbol
  <2>3. Qualified(<<>>, name) = <<name>>
    BY <1>1, QualifiedIsPath
  <2>. HIDE DEF symbol
  <2>. QED BY <2>2, <2>3
<1>3. /\ Collect(<<symbol>>, <<Here.home>>, <<>>, <<>>)
      /\ open' = Append(open, Frame("body", FileKey, Here.parent, symbol.key, Len(symbols) + 1))
  BY <1>2 DEF FunctionDeclaration, Enter
<1>4. <<>> \in Seq(EdgeSet)
  OBVIOUS
<1>. HIDE DEF symbol, Collect
<1>5. \A k \in 1 .. Len(<<>>) : Anchored(File, <<>>[k].source) \/ <<>>[k].source = symbol.key
  OBVIOUS
<1>. QED BY <1>1, <1>2, <1>3, <1>4, <1>5, BodyStep

(* A field keeps the walk sound: it is no symbol, and its decorators hang   *)
(* from a member that its class has not got.                                *)
LEMMA FieldStep ==
  ASSUME TypeScriptStep, NEW name \in Names, NEW decorators \in Lists,
         FieldDefinition(name, decorators)
  PROVE  Typed' /\ Walked'
<1>. USE DEF TypeScriptStep
<1>. DEFINE key == MemberKey(Here.parent, name)
            r == Decorations(key, decorators)
            frame == Frame("field", FileKey, Here.parent, Here.scope, Here.home)
<1>1. /\ Here.parent \in Paths /\ Here.home \in Nat /\ FrameFits(File, Here)
      /\ Here.scope \in KeySet /\ Here.what = "class" /\ FileKey \in KeySet
  BY HereFits, KeysAreKeys DEF FieldDefinition
<1>2. /\ Collect(<<>>, <<>>, r, <<>>) /\ open' = Append(open, frame)
  BY DEF FieldDefinition, Enter
<1>3. /\ Here.parent # <<>> /\ Len(Here.parent) = 1 /\ Here.home # 0
      /\ Anchored(File, PlainKey(Here.parent)) /\ Anchored(File, Here.scope)
      /\ Here.home <= Len(File.homes)
  BY <1>1 DEF FrameFits, File
<1>4. key \in KeySet /\ Len(key.path) = 2
  BY <1>1, <1>3, QualifiedIsPath
<1>. HIDE DEF key
<1>5. /\ r \in Seq(EdgeSet) /\ <<>> \in Seq(DeferredSet)
      /\ \A k \in 1 .. Len(r) : r[k].source = key /\ r[k].kind = "decorates"
  BY <1>4, DecorationsFit
<1>. HIDE DEF r, frame, Collect
<1>6. /\ Grown(File', File) /\ File'.language = "typescript"
  BY <1>2, <1>5, NoneCollected
<1>7. \A k \in 1 .. Len(r) : Sourced(File', r[k])
  BY <1>4, <1>5, <1>6 DEF Sourced
<1>8. frame \in FrameSet
  BY <1>1 DEF frame, Frame, FrameSet, FrameKinds
<1>9. FrameFits(File', frame)
  <2>1. /\ frame.home = Here.home /\ frame.what = "field" /\ frame.scope = Here.scope
        /\ frame.parent = Here.parent
    BY DEF frame, Frame
  <2>2. Anchored(File', Here.scope) /\ Anchored(File', PlainKey(Here.parent))
    BY <1>3, <1>6, StaysAnchored
  <2>3. Here.home <= Len(File'.homes)
    BY <1>1, <1>3, <1>6, Collection DEF Grown, File
  <2>. QED BY <1>3, <1>6, <2>1, <2>2, <2>3 DEF FrameFits
<1>10. OpenFits
  BY <1>2, <1>8, <1>9, OpenGrows
<1>11. \A k \in 1 .. Len(<<>>) : Anchored(File', <<>>[k].source)
  OBVIOUS
<1>. QED BY <1>2, <1>5, <1>7, <1>10, <1>11, ReferenceStep

(* A handler that collects one edge that names its target outright keeps    *)
(* the walk sound.                                                          *)
LEMMA EdgeStep ==
  ASSUME Typed, Walked, facts' = facts, NEW edge \in EdgeSet, Anchored(File, edge.source),
         Collect(<<>>, <<>>, <<edge>>, <<>>), open' = open
  PROVE  Typed' /\ Walked'
<1>1. <<edge>> \in Seq(EdgeSet) /\ <<>> \in Seq(DeferredSet)
  OBVIOUS
<1>2. Grown(File', File)
  BY <1>1, NoneCollected
<1>3. \A k \in 1 .. Len(<<edge>>) : Sourced(File', <<edge>>[k])
  BY <1>2, StaysAnchored DEF Sourced
<1>4. \A k \in 1 .. Len(<<>>) : Anchored(File', <<>>[k].source)
  OBVIOUS
<1>. QED BY <1>1, <1>3, <1>4, OpenStays, ReferenceStep

(* A handler that puts one target off keeps the walk sound.                 *)
LEMMA DeferredStep ==
  ASSUME Typed, Walked, facts' = facts, NEW reference \in DeferredSet,
         Anchored(File, reference.source), Collect(<<>>, <<>>, <<>>, <<reference>>), open' = open
  PROVE  Typed' /\ Walked'
<1>1. <<reference>> \in Seq(DeferredSet) /\ <<>> \in Seq(EdgeSet)
  OBVIOUS
<1>2. Grown(File', File)
  BY <1>1, NoneCollected
<1>3. \A k \in 1 .. Len(<<reference>>) : Anchored(File', <<reference>>[k].source)
  BY <1>2, StaysAnchored
<1>4. \A k \in 1 .. Len(<<>>) : Sourced(File', <<>>[k])
  OBVIOUS
<1>. QED BY <1>1, <1>3, <1>4, OpenStays, ReferenceStep

(* Anything that names the file is anchored.                                *)
LEMMA FromFile ==
  /\ \A kind \in EdgeKinds, word \in Words :
        /\ UnresolvedEdge(FileKey, kind, <<word>>) \in EdgeSet
        /\ UnresolvedEdge(FileKey, kind, <<word>>).source = FileKey
        /\ Deferred(FileKey, kind, word) \in DeferredSet
        /\ Deferred(FileKey, kind, word).source = FileKey
  /\ \A file : Anchored(file, FileKey)
<1>1. \A kind \in EdgeKinds, word \in Words :
        /\ UnresolvedEdge(FileKey, kind, <<word>>) \in EdgeSet
        /\ Deferred(FileKey, kind, word) \in DeferredSet
  BY KeysAreKeys, MakesEdge
<1>2. \A kind, word : /\ UnresolvedEdge(FileKey, kind, <<word>>).source = FileKey
                      /\ Deferred(FileKey, kind, word).source = FileKey
  BY DEF UnresolvedEdge, Edge, Deferred
<1>3. \A file : Anchored(file, FileKey)
  BY DEF Anchored
<1>. QED BY <1>1, <1>2, <1>3

(* An import or a re-export keeps the walk sound: its edge hangs from the   *)
(* file.                                                                    *)
LEMMA ModuleStep ==
  ASSUME TypeScriptStep, NEW kind \in {"imports", "exports"}, NEW name \in Names,
         ModuleStatement(kind, name)
  PROVE  Typed' /\ Walked'
<1>1. kind \in EdgeKinds /\ name \in Words
  BY ListsArePaths DEF EdgeKinds
<1>2. Collect(<<>>, <<>>, <<UnresolvedEdge(FileKey, kind, <<name>>)>>, <<>>) /\ open' = open
  BY DEF ModuleStatement, Stay
<1>3. /\ UnresolvedEdge(FileKey, kind, <<name>>) \in EdgeSet
      /\ Anchored(File, UnresolvedEdge(FileKey, kind, <<name>>).source)
  BY <1>1, FromFile
<1>. QED BY <1>2, <1>3, EdgeStep DEF TypeScriptStep

(* An export of a local name keeps the walk sound.                          *)
LEMMA ExportStep ==
  ASSUME TypeScriptStep, NEW name \in Names, LocalExport(name)
  PROVE  Typed' /\ Walked'
<1>1. "exports" \in EdgeKinds /\ name \in Words
  BY ListsArePaths DEF EdgeKinds
<1>2. Collect(<<>>, <<>>, <<>>, <<Deferred(FileKey, "exports", name)>>) /\ open' = open
  BY DEF LocalExport, Stay
<1>3. /\ Deferred(FileKey, "exports", name) \in DeferredSet
      /\ Anchored(File, Deferred(FileKey, "exports", name).source)
  BY <1>1, FromFile
<1>. QED BY <1>2, <1>3, DeferredStep DEF TypeScriptStep

(* An edge or a deferred target that hangs from an anchored key may be      *)
(* collected.                                                               *)
LEMMA ReferenceFrom ==
  ASSUME Typed, Walked, facts' = facts, NEW source \in KeySet, Anchored(File, source),
         NEW kind \in EdgeKinds, NEW name \in Names,
         Collect(<<>>, <<>>, <<>>, <<Deferred(source, kind, name)>>), open' = open
  PROVE  Typed' /\ Walked'
<1>1. Deferred(source, kind, name) \in DeferredSet
  BY ListsArePaths, MakesEdge
<1>2. Deferred(source, kind, name).source = source
  BY DEF Deferred
<1>. QED BY <1>1, <1>2, DeferredStep

(* A call or a construction keeps the walk sound: it hangs from the scope.  *)
LEMMA CallStep ==
  ASSUME TypeScriptStep, NEW kind \in {"calls", "constructs"}, NEW name \in Names,
         CallOrNew(kind, name)
  PROVE  Typed' /\ Walked'
<1>1. kind \in EdgeKinds
  BY DEF EdgeKinds
<1>2. Collect(<<>>, <<>>, <<>>, <<Deferred(Here.scope, kind, name)>>) /\ open' = open
  BY DEF CallOrNew, Stay
<1>3. Here.scope \in KeySet /\ Anchored(File, Here.scope)
  BY HereFits DEF TypeScriptStep, FrameFits
<1>. QED BY <1>1, <1>2, <1>3, ReferenceFrom DEF TypeScriptStep

(* A type annotation keeps the walk sound: it hangs from the scope.         *)
LEMMA AnnotationStep ==
  ASSUME TypeScriptStep, NEW name \in Names, TypeAnnotation(name)
  PROVE  Typed' /\ Walked'
<1>1. "references" \in EdgeKinds
  BY DEF EdgeKinds
<1>2. Collect(<<>>, <<>>, <<>>, <<Deferred(ReferenceScope, "references", name)>>) /\ open' = open
  BY DEF TypeAnnotation, Stay
<1>3. ReferenceScope \in KeySet /\ Anchored(File, ReferenceScope)
  <2>1. /\ Here.scope \in KeySet /\ Here.parent \in Paths /\ FrameFits(File, Here)
        /\ FileKey \in KeySet
    BY HereFits, KeysAreKeys DEF TypeScriptStep
  <2>2. /\ Anchored(File, Here.scope) /\ Anchored(File, FileKey)
        /\ Here.parent # <<>> => Anchored(File, PlainKey(Here.parent)) /\ PlainKey(Here.parent) \in KeySet
    BY <2>1, FromFile, KeysAreKeys DEF FrameFits, File, TypeScriptStep
  <2>. QED BY <2>1, <2>2 DEF ReferenceScope
<1>. QED BY <1>1, <1>2, <1>3, ReferenceFrom DEF TypeScriptStep

(* The end of a declaration changes no more than what is open.              *)
LEMMA CloseStep ==
  ASSUME Typed, Walked, Len(open) > 1, open' = Front(open),
         UNCHANGED <<language, symbols, rels, pending, finished, homes, facts>>
  PROVE  Typed' /\ Walked'
<1>1. File' = File
  BY DEF File
<1>2. OpenFits
  BY OpenShrinks
<1>3. Typed'
  BY <1>2 DEF Typed, OpenFits
<1>4. ASSUME NEW f \in 1 .. Len(open') PROVE FrameFits(File', open'[f])
  BY <1>1, <1>2 DEF OpenFits, Walked
<1>5. Walked'
  BY <1>1, <1>4 DEF Walked
<1>. QED BY <1>3, <1>5

(* Every step of the TypeScript walk keeps what is collected typed and      *)
(* fitting the file.                                                        *)
LEMMA TypeScriptWalks ==
  ASSUME Typed, Walked, ~finished, TypeScriptNext, UNCHANGED <<csharpVars, frameworkVars>>
  PROVE  Typed' /\ Walked'
<1>1. TypeScriptStep
  BY DEF TypeScriptNext, TypeScriptStep, frameworkVars
<1>2. ASSUME NEW name \in Names, NEW extends \in Lists, NEW implements \in Lists,
             NEW decorators \in Lists, ClassDeclaration(name, extends, implements, decorators)
      PROVE  Typed' /\ Walked'
  BY <1>1, <1>2, ClassStep
<1>3. ASSUME NEW name \in Names, InterfaceDeclaration(name) PROVE Typed' /\ Walked'
  BY <1>1, <1>3, InterfaceStep
<1>4. ASSUME NEW kind \in {"method", "constructor"}, NEW name \in Names, NEW print \in Prints,
             NEW decorators \in Lists, MethodDefinition(kind, name, print, decorators)
      PROVE  Typed' /\ Walked'
  BY <1>1, <1>4, MethodStep
<1>5. ASSUME NEW name \in Names, NEW print \in Prints, FunctionDeclaration(name, print)
      PROVE  Typed' /\ Walked'
  BY <1>1, <1>5, FunctionStep
<1>6. ASSUME NEW name \in Names, NEW decorators \in Lists, FieldDefinition(name, decorators)
      PROVE  Typed' /\ Walked'
  BY <1>1, <1>6, FieldStep
<1>7. ASSUME NEW kind \in {"imports", "exports"}, NEW name \in Names, ModuleStatement(kind, name)
      PROVE  Typed' /\ Walked'
  BY <1>1, <1>7, ModuleStep
<1>8. ASSUME NEW name \in Names, LocalExport(name) PROVE Typed' /\ Walked'
  BY <1>1, <1>8, ExportStep
<1>9. ASSUME NEW kind \in {"calls", "constructs"}, NEW name \in Names, CallOrNew(kind, name)
      PROVE  Typed' /\ Walked'
  BY <1>1, <1>9, CallStep
<1>10. ASSUME NEW name \in Names, TypeAnnotation(name) PROVE Typed' /\ Walked'
  BY <1>1, <1>10, AnnotationStep
<1>11. ASSUME CloseNode PROVE Typed' /\ Walked'
  BY <1>11, CloseStep DEF CloseNode, frameworkVars
<1>. QED BY <1>2, <1>3, <1>4, <1>5, <1>6, <1>7, <1>8, <1>9, <1>10, <1>11 DEF TypeScriptNext

-----------------------------------------------------------------------------
(* The C# walk, handler by handler.                                         *)

\* A step of the C# walk.
CSharpStep ==
    Typed /\ CSharpTyped /\ Walked /\ FragmentsCounted /\ ~finished /\ language = "csharp"
          /\ facts' = facts
CSharpGoesOn == Typed' /\ CSharpTyped' /\ Walked' /\ FragmentsCounted'

(* A key with a path is not the file's; a key tells the path.               *)
LEMMA KeysTell ==
  /\ \A path, ordinal, print : LocalKeyFor(path, ordinal, print).path = path
  /\ \A path : PlainKey(path).path = path /\ PlainKey(path) = LocalKeyFor(path, NoOrdinal, NoPrint)
  /\ \A path, ordinal, print : path # <<>> => LocalKeyFor(path, ordinal, print) # FileKey
  /\ FileKey.path = <<>>
<1>1. \A path, ordinal, print : Key(path, ordinal, print).path = path
  BY DEF Key
<1>2. \A path, ordinal, print : LocalKeyFor(path, ordinal, print).path = path
  BY <1>1 DEF LocalKeyFor
<1>3. FileKey.path = <<>>
  BY <1>1 DEF FileKey, PlainKey
<1>. QED BY <1>1, <1>2, <1>3 DEF PlainKey, LocalKeyFor

(* The edge that contains what is declared here.                            *)
LEMMA ContainedHere ==
  ASSUME Typed, Walked, language = "csharp", NEW key \in KeySet
  PROVE  /\ ContainedIn(Here, key) \in Seq(EdgeSet)
         /\ \A e \in 1 .. Len(ContainedIn(Here, key)) :
               Anchored(File, ContainedIn(Here, key)[e].source)
         /\ Here.home # 0 =>
               /\ Here.home \in 1 .. Len(symbols)
               /\ ContainedIn(Here, key) = <<ContainsEdge(symbols[Here.home].key, key)>>
<1>1. /\ Here.container \in KeySet /\ Here.home \in Nat /\ FrameFits(File, Here)
      /\ Here.home <= Len(symbols) /\ Len(symbols) \in Nat
  BY HereFits
<1>2. Here.container = IF Here.home = 0 THEN FileKey ELSE symbols[Here.home].key
  BY <1>1 DEF FrameFits, File
<1>3. CASE Here.home = 0
  BY <1>2, <1>3 DEF ContainedIn
<1>4. CASE Here.home # 0
  <2>1. Here.home \in 1 .. Len(symbols)
    BY <1>1, <1>4
  <2>2. symbols[Here.home].key # FileKey
    <3>1. SymbolFits(File, Here.home)
      BY <2>1 DEF Walked
    <3>2. /\ symbols[Here.home].path # <<>>
          /\ symbols[Here.home].key = LocalKeyFor(symbols[Here.home].path,
                                         symbols[Here.home].ordinal, symbols[Here.home].print)
      BY <3>1 DEF SymbolFits, File
    <3>. QED BY <3>2, KeysTell
  <2>3. ContainedIn(Here, key) = <<ContainsEdge(symbols[Here.home].key, key)>>
    BY <1>2, <1>4, <2>2 DEF ContainedIn
  <2>4. symbols[Here.home].key \in KeySet
    BY <1>1, <1>2, <1>4
  <2>5. ContainsEdge(symbols[Here.home].key, key) \in EdgeSet
    BY <2>4, MakesEdge DEF EdgeKinds
  <2>6. Anchored(File, ContainsEdge(symbols[Here.home].key, key).source)
    <3>1. ContainsEdge(symbols[Here.home].key, key).source = symbols[Here.home].key
      BY DEF ContainsEdge, Edge
    <3>2. File.symbols = symbols
      BY DEF File
    <3>. QED BY <2>1, <3>1, <3>2 DEF Anchored
  <2>. HIDE DEF ContainsEdge
  <2>. QED BY <2>1, <2>3, <2>5, <2>6
<1>. QED BY <1>3, <1>4

(* What a type or a member uses.                                            *)
LEMMA UsesFit ==
  ASSUME NEW source \in KeySet, NEW used \in Lists \union {<<>>}
  PROVE  /\ TypeUses(source, "uses_type", used) \in Seq(EdgeSet)
         /\ \A n \in 1 .. Len(TypeUses(source, "uses_type", used)) :
               TypeUses(source, "uses_type", used)[n].source = source
<1>1. Len(used) \in Nat /\ \A n \in 1 .. Len(used) : used[n] \in Words
  <2>1. CASE used \in Lists
    BY <2>1, ListsArePaths DEF Paths
  <2>2. CASE used = <<>>
    BY <2>2
  <2>. QED BY <2>1, <2>2
<1>2. \A n \in 1 .. Len(used) : UnresolvedEdge(source, "uses_type", <<used[n]>>) \in EdgeSet
  BY <1>1, MakesEdge DEF EdgeKinds
<1>3. \A text : UnresolvedEdge(source, "uses_type", text).source = source
  BY DEF UnresolvedEdge, Edge
<1>. HIDE DEF UnresolvedEdge
<1>. QED BY <1>1, <1>2, <1>3 DEF TypeUses

(* A C# symbol fits when it is keyed by its path and contained where it is  *)
(* written.                                                                 *)
LEMMA SymbolOfCSharp ==
  ASSUME NEW file, NEW i, file.language = "csharp", file.homes[i] < i,
         file.symbols[i].path # <<>>,
         file.symbols[i].key = LocalKeyFor(file.symbols[i].path, file.symbols[i].ordinal,
                                           file.symbols[i].print),
         Contained(file, i)
  PROVE  SymbolFits(file, i)
BY DEF SymbolFits

(* Declaring symbols without a fragment's ordinal leaves the count of the   *)
(* fragments as it is.                                                      *)
LEMMA NoFragment ==
  ASSUME Typed, FragmentsCounted, language' = language, fragments' = fragments,
         NEW s \in Seq(SymbolSet), Longer(symbols', symbols, s, SymbolSet),
         \A k \in 1 .. Len(s) : s[k].ordinal = NoOrdinal
  PROVE  FragmentsCounted'
<1>. SUFFICES ASSUME language' = "csharp" PROVE FragmentsCounted'
  BY DEF FragmentsCounted
<1>1. ASSUME NEW i \in 1 .. Len(symbols'), symbols'[i].ordinal # NoOrdinal
      PROVE  i \in 1 .. Len(symbols) /\ symbols'[i] = symbols[i]
  <2>1. i \in 1 .. Len(symbols)
    BY <1>1 DEF Longer
  <2>. QED BY <2>1 DEF Longer
<1>2. \A i \in 1 .. Len(symbols) : symbols[i].ordinal # NoOrdinal =>
         /\ symbols[i].ordinal \in Nat /\ symbols[i].path \in DOMAIN fragments
         /\ symbols[i].ordinal < fragments[symbols[i].path]
  BY DEF FragmentsCounted, Fragment
<1>3. \A i, j \in 1 .. Len(symbols) :
         symbols[i].ordinal # NoOrdinal /\ symbols[i].path = symbols[j].path
            /\ symbols[i].ordinal = symbols[j].ordinal => i = j
  BY DEF FragmentsCounted, Fragment
<1>4. \A i \in 1 .. Len(symbols') : symbols'[i].ordinal # NoOrdinal =>
         /\ symbols'[i].ordinal \in Nat /\ symbols'[i].path \in DOMAIN fragments'
         /\ symbols'[i].ordinal < fragments'[symbols'[i].path]
  BY <1>1, <1>2
<1>5. \A i, j \in 1 .. Len(symbols') :
         symbols'[i].ordinal # NoOrdinal /\ symbols'[i].path = symbols'[j].path
            /\ symbols'[i].ordinal = symbols'[j].ordinal => i = j
  BY <1>1, <1>3
<1>. QED BY <1>4, <1>5 DEF FragmentsCounted, Fragment

(* A fragment's ordinal is the count of those before it, and counts it.     *)
LEMMA FragmentCounted ==
  ASSUME Typed, CSharpTyped, FragmentsCounted, language' = language,
         NEW symbol \in SymbolSet, NEW partial \in BOOLEAN, CountFragment(symbol.path, partial),
         symbol.ordinal = IF partial THEN NextOrdinal(symbol.path) ELSE NoOrdinal,
         Longer(symbols', symbols, <<symbol>>, SymbolSet)
  PROVE  FragmentsCounted'
<1>1. CASE ~partial
  <2>1. /\ <<symbol>> \in Seq(SymbolSet) /\ fragments' = fragments
        /\ \A k \in 1 .. Len(<<symbol>>) : <<symbol>>[k].ordinal = NoOrdinal
    BY <1>1 DEF CountFragment
  <2>. QED BY <2>1, NoFragment
<1>2. CASE partial /\ language = "csharp"
  <2>. DEFINE path == symbol.path
              next == NextOrdinal(path)
              n == Len(symbols) + 1
  <2>1. next \in Nat /\ NoOrdinal = -1 /\ symbol.ordinal = next
    BY <1>2 DEF CSharpTyped, NextOrdinal, NoOrdinal
  <2>2. /\ DOMAIN fragments' = DOMAIN fragments \union {path} /\ fragments'[path] = next + 1
        /\ \A p \in DOMAIN fragments : p # path => fragments'[p] = fragments[p]
        /\ path \in DOMAIN fragments => next = fragments[path]
    BY <1>2 DEF CountFragment, NextOrdinal
  <2>3. Len(symbols) \in Nat /\ Len(<<symbol>>) = 1 /\ <<symbol>>[1] = symbol
    BY Collection
  <2>. HIDE DEF next, path
  <2>4. /\ Len(symbols') = n /\ symbols'[n] = symbol
        /\ \A i \in 1 .. Len(symbols) : symbols'[i] = symbols[i]
    BY <2>3 DEF Longer
  <2>5. ASSUME NEW i \in 1 .. Len(symbols), symbols[i].ordinal # NoOrdinal
        PROVE  /\ symbols[i].ordinal \in Nat
               /\ symbols[i].path \in DOMAIN fragments
               /\ symbols[i].ordinal < fragments[symbols[i].path]
    BY <1>2, <2>5 DEF FragmentsCounted, Fragment
  <2>6. ASSUME NEW i \in 1 .. Len(symbols), symbols[i].ordinal # NoOrdinal
        PROVE  /\ symbols[i].path \in DOMAIN fragments'
               /\ symbols[i].ordinal < fragments'[symbols[i].path]
               /\ symbols[i].path = path => symbols[i].ordinal < next
    <3>1. CASE symbols[i].path = path
      BY <2>1, <2>2, <2>5, <2>6, <3>1
    <3>2. CASE symbols[i].path # path
      BY <2>2, <2>5, <2>6, <3>2
    <3>. QED BY <3>1, <3>2
  <2>7. ASSUME NEW i \in 1 .. Len(symbols'), symbols'[i].ordinal # NoOrdinal
        PROVE  /\ symbols'[i].ordinal \in Nat /\ symbols'[i].path \in DOMAIN fragments'
               /\ symbols'[i].ordinal < fragments'[symbols'[i].path]
    <3>1. CASE i = n
      BY <2>1, <2>2, <2>4, <3>1 DEF path
    <3>2. CASE i # n
      <4>1. i \in 1 .. Len(symbols) /\ symbols'[i] = symbols[i]
        BY <2>3, <2>4, <3>2
      <4>. QED BY <2>5, <2>6, <2>7, <4>1
    <3>. QED BY <3>1, <3>2
  <2>8. ASSUME NEW i \in 1 .. Len(symbols'), NEW j \in 1 .. Len(symbols'),
               symbols'[i].ordinal # NoOrdinal, symbols'[i].path = symbols'[j].path,
               symbols'[i].ordinal = symbols'[j].ordinal
        PROVE  i = j
    <3>1. CASE i = n /\ j # n
      <4>1. j \in 1 .. Len(symbols) /\ symbols'[j] = symbols[j]
        BY <2>3, <2>4, <3>1
      <4>. QED BY <2>1, <2>4, <2>5, <2>6, <2>8, <3>1, <4>1 DEF path
    <3>2. CASE j = n /\ i # n
      <4>1. i \in 1 .. Len(symbols) /\ symbols'[i] = symbols[i]
        BY <2>3, <2>4, <3>2
      <4>. QED BY <2>1, <2>4, <2>5, <2>6, <2>8, <3>2, <4>1 DEF path
    <3>3. CASE i # n /\ j # n
      <4>1. /\ i \in 1 .. Len(symbols) /\ symbols'[i] = symbols[i]
            /\ j \in 1 .. Len(symbols) /\ symbols'[j] = symbols[j]
        BY <2>3, <2>4, <3>3
      <4>. QED BY <1>2, <2>8, <4>1 DEF FragmentsCounted, Fragment
    <3>. QED BY <3>1, <3>2, <3>3
  <2>. QED BY <2>7, <2>8 DEF FragmentsCounted, Fragment
<1>3. CASE language # "csharp"
  BY <1>3 DEF FragmentsCounted
<1>. QED BY <1>1, <1>2, <1>3

(* A C# handler that declares one symbol, with the edge that contains it    *)
(* before its other edges, keeps the walk sound.                            *)
LEMMA CSharpSymbol ==
  ASSUME CSharpStep, NEW symbol \in SymbolSet, symbol.path # <<>>,
         symbol.key = LocalKeyFor(symbol.path, symbol.ordinal, symbol.print),
         NEW more \in Seq(EdgeSet), \A k \in 1 .. Len(more) : more[k].source = symbol.key,
         Collect(<<symbol>>, <<Here.home>>, ContainedIn(Here, symbol.key) \o more, <<>>),
         NEW frame \in FrameSet, frame.home = Len(symbols) + 1, frame.container = symbol.key,
         Anchored(File, frame.scope) \/ frame.scope = symbol.key,
         open' = Append(open, frame) \/ open' = <<frame>>
  PROVE  Typed' /\ Walked' /\ language' = language /\ Longer(symbols', symbols, <<symbol>>, SymbolSet)
<1>. USE DEF CSharpStep
<1>. DEFINE n == Len(symbols) + 1
            c == ContainedIn(Here, symbol.key)
            r == c \o more
<1>1. /\ Here.home \in Nat /\ FrameFits(File, Here) /\ Here.home < n /\ n \in Nat /\ n # 0
      /\ symbol.key \in KeySet
  BY HereFits, Fields
<1>2. /\ c \in Seq(EdgeSet)
      /\ \A e \in 1 .. Len(c) : Anchored(File, c[e].source)
      /\ Here.home # 0 => /\ Here.home \in 1 .. Len(symbols)
                          /\ c = <<ContainsEdge(symbols[Here.home].key, symbol.key)>>
  BY <1>1, ContainedHere
<1>. HIDE DEF c
<1>3. /\ r \in Seq(EdgeSet) /\ Len(r) = Len(c) + Len(more) /\ Len(c) \in Nat /\ Len(more) \in Nat
      /\ \A e \in 1 .. Len(c) : r[e] = c[e]
      /\ \A e \in 1 .. Len(r) : e \notin 1 .. Len(c) => e - Len(c) \in 1 .. Len(more) /\ r[e] = more[e - Len(c)]
  <2>1. \A e \in 1 .. Len(r) : e \notin 1 .. Len(c) => e - Len(c) \in 1 .. Len(more) /\ r[e] = more[e - Len(c)]
    BY <1>2
  <2>2. r \in Seq(EdgeSet) /\ Len(r) = Len(c) + Len(more) /\ Len(c) \in Nat /\ Len(more) \in Nat
        /\ \A e \in 1 .. Len(c) : r[e] = c[e]
    BY <1>2
  <2>. QED BY <2>1, <2>2
<1>4. Collect(<<symbol>>, <<Here.home>>, r, <<>>) /\ <<>> \in Seq(DeferredSet)
  BY DEF c
<1>. HIDE DEF n, r, Collect
<1>5. /\ File'.symbols[n] = symbol /\ File'.homes[n] = Here.home
      /\ Len(File'.homes) = n /\ File'.language = "csharp" /\ Grown(File', File)
      /\ Anchored(File', symbol.key) /\ Longer(rels', rels, r, EdgeSet) /\ File'.rels = rels'
  BY <1>1, <1>3, <1>4, OneCollected DEF n
<1>6. \A k \in 1 .. Len(r) : Sourced(File', r[k])
  <2>1. \A key : Anchored(File, key) => Anchored(File', key)
    BY <1>5, StaysAnchored
  <2>2. ASSUME NEW k \in 1 .. Len(r) PROVE Anchored(File', r[k].source)
    <3>1. CASE k \in 1 .. Len(c)
      BY <1>2, <1>3, <2>1, <3>1
    <3>2. CASE k \notin 1 .. Len(c)
      BY <1>3, <1>5, <3>2
    <3>. QED BY <3>1, <3>2
  <2>. QED BY <2>2 DEF Sourced
<1>7. Contained(File', n)
  <2>. SUFFICES ASSUME Here.home # 0
                PROVE  \E e \in 1 .. Len(rels') :
                          rels'[e] = ContainsEdge(File'.symbols[Here.home].key, symbol.key)
    BY <1>5 DEF Contained
  <2>1. /\ Here.home \in 1 .. Len(symbols) /\ Len(c) = 1
        /\ c[1] = ContainsEdge(symbols[Here.home].key, symbol.key)
    BY <1>2
  <2>2. File'.symbols[Here.home].key = symbols[Here.home].key
    BY <1>5, <2>1 DEF Grown, File
  <2>3. 1 \in 1 .. Len(r) /\ r[1] = c[1]
    BY <1>3, <2>1
  <2>4. Len(rels) + 1 \in 1 .. Len(rels') /\ rels'[Len(rels) + 1] = r[1]
    BY <1>3, <1>5, <2>3, Collection DEF Longer
  <2>. QED BY <2>1, <2>2, <2>3, <2>4
<1>8. SymbolFits(File', Len(symbols) + 1)
  BY <1>1, <1>5, <1>7, SymbolOfCSharp DEF n
<1>9. FrameFits(File', frame)
  <2>1. Anchored(File', frame.scope)
    BY <1>5, StaysAnchored
  <2>2. frame.home = n /\ frame.home <= Len(File'.homes)
    BY <1>1, <1>5 DEF n
  <2>. QED BY <1>1, <1>5, <2>1, <2>2 DEF FrameFits
<1>10. OpenFits
  <2>1. CASE open' = Append(open, frame)
    BY <1>9, <2>1, OpenGrows
  <2>2. CASE open' = <<frame>>
    BY <1>9, <2>2 DEF OpenFits
  <2>. QED BY <2>1, <2>2
<1>11. \A k \in 1 .. Len(<<>>) : Anchored(File', <<>>[k].source)
  OBVIOUS
<1>12. Typed' /\ Walked'
  BY <1>1, <1>3, <1>4, <1>6, <1>8, <1>10, <1>11, SymbolStep
<1>13. Longer(symbols', symbols, <<symbol>>, SymbolSet) /\ language' = language
  <2>1. <<symbol>> \in Seq(SymbolSet) /\ <<Here.home>> \in Seq(Nat) /\ Len(<<Here.home>>) = Len(<<symbol>>)
    BY <1>1
  <2>. QED BY <1>3, <1>4, <2>1, Collected
<1>. QED BY <1>12, <1>13

(* A namespace's symbol is contained where it is written, whichever of its  *)
(* two forms it has.                                                        *)
LEMMA NamespaceSymbol ==
  ASSUME CSharpStep, NEW name \in Names, PushNamespace(name),
         NEW frame \in FrameSet, frame.home = Len(symbols) + 1,
         frame.container = PlainKey(FullName(name)), Anchored(File, frame.scope),
         open' = Append(open, frame) \/ open' = <<frame>>
  PROVE  CSharpGoesOn
<1>. USE DEF CSharpStep
<1>. DEFINE path == FullName(name)
            symbol == Declared(path, path, "namespace", NoPrint, NoOrdinal, PlainKey(path))
<1>1. path \in Paths /\ path # <<>> /\ name \in Words
  BY ListsArePaths, DottedIsPath
<1>2. /\ symbol \in SymbolSet /\ symbol.path = path /\ symbol.ordinal = NoOrdinal
      /\ symbol.key = PlainKey(path) /\ symbol.key = LocalKeyFor(symbol.path, symbol.ordinal, symbol.print)
  <2>1. PlainKey(path) \in KeySet /\ NoOrdinal \in Int /\ "namespace" \in SymbolKinds /\ NoPrint \in AllPrints
    BY <1>1, KeysAreKeys DEF NoOrdinal, SymbolKinds, AllPrints
  <2>2. symbol \in SymbolSet
    BY <1>1, <2>1, MakesSymbol
  <2>3. PlainKey(path) = LocalKeyFor(path, NoOrdinal, NoPrint)
    BY KeysTell
  <2>. HIDE DEF path
  <2>. QED BY <2>2, <2>3 DEF Declared
<1>3. /\ Collect(<<symbol>>, <<Here.home>>, ContainedIn(Here, symbol.key), <<>>)
      /\ namespaces' = Append(namespaces, path) /\ types' = types /\ fragments' = fragments
  BY <1>2 DEF PushNamespace
<1>. HIDE DEF path, symbol, Collect
<1>4. <<>> \in Seq(EdgeSet) /\ ContainedIn(Here, symbol.key) \o <<>> = ContainedIn(Here, symbol.key)
      /\ \A k \in 1 .. Len(<<>>) : <<>>[k].source = symbol.key
  <2>1. ContainedIn(Here, symbol.key) \in Seq(EdgeSet)
    BY <1>2, Fields, ContainedHere
  <2>. QED BY <2>1
<1>5. Typed' /\ Walked' /\ language' = language /\ Longer(symbols', symbols, <<symbol>>, SymbolSet)
  BY <1>1, <1>2, <1>3, <1>4, CSharpSymbol DEF path
<1>6. FragmentsCounted'
  <2>1. <<symbol>> \in Seq(SymbolSet) /\ \A k \in 1 .. Len(<<symbol>>) : <<symbol>>[k].ordinal = NoOrdinal
    BY <1>2
  <2>. QED BY <1>3, <1>5, <2>1, NoFragment
<1>7. CSharpTyped'
  BY <1>1, <1>3 DEF CSharpTyped
<1>. QED BY <1>5, <1>6, <1>7 DEF CSharpGoesOn

(* A file-scoped namespace keeps the walk sound: it stays the file's        *)
(* container to the end.                                                    *)
LEMMA FileScopedStep ==
  ASSUME CSharpStep, NEW name \in Names, FileScopedNamespace(name)
  PROVE  CSharpGoesOn
<1>. USE DEF CSharpStep
<1>. DEFINE key == PlainKey(FullName(name))
            frame == [Here EXCEPT !.container = key, !.home = Len(symbols) + 1]
<1>1. /\ Here \in FrameSet /\ Here.what = "file" /\ Len(symbols) + 1 \in Nat
      /\ Anchored(File, Here.scope)
  BY HereFits DEF FileScopedNamespace, FrameFits
<1>2. key \in KeySet
  BY ListsArePaths, DottedIsPath, KeysAreKeys
<1>3. open' = <<frame>> /\ PushNamespace(name)
  BY DEF FileScopedNamespace
<1>. HIDE DEF key
<1>4. /\ frame \in FrameSet /\ frame.container = key /\ frame.home = Len(symbols) + 1
      /\ frame.scope = Here.scope
  BY <1>1, <1>2 DEF FrameSet
<1>. HIDE DEF frame
<1>. QED BY <1>1, <1>3, <1>4, NamespaceSymbol DEF key

(* A namespace with a block keeps the walk sound.                           *)
LEMMA BlockStep ==
  ASSUME CSharpStep, NEW name \in Names, BlockNamespace(name)
  PROVE  CSharpGoesOn
<1>. USE DEF CSharpStep
<1>. DEFINE key == PlainKey(FullName(name))
            frame == Frame("namespace", key, <<>>, FileKey, Len(symbols) + 1)
<1>1. Len(symbols) + 1 \in Nat /\ <<>> \in Paths /\ FileKey \in KeySet /\ key \in KeySet
  <2>1. name \in Words /\ <<>> \in Paths
    BY ListsArePaths
  <2>2. FullName(name) \in Paths
    BY <2>1, DottedIsPath
  <2>3. Len(symbols) \in Nat
    BY HereFits
  <2>. QED BY <2>1, <2>2, <2>3, KeysAreKeys
<1>2. open' = Append(open, frame) /\ PushNamespace(name)
  BY DEF BlockNamespace, Enter
<1>. HIDE DEF key
<1>3. /\ frame \in FrameSet /\ frame.container = key /\ frame.home = Len(symbols) + 1
      /\ Anchored(File, frame.scope)
  BY <1>1, FromFile DEF Frame, FrameSet, FrameKinds
<1>. HIDE DEF frame
<1>. QED BY <1>2, <1>3, NamespaceSymbol DEF key

(* A type or a member, counted when it is a fragment and then opened, keeps *)
(* the walk sound.                                                          *)
LEMMA DeclarationStep ==
  ASSUME CSharpStep, NEW kind \in SymbolKinds, NEW name \in Names, NEW partial \in BOOLEAN,
         NEW print \in AllPrints, NEW used \in Lists \union {<<>>}, NEW path, NEW ordinal, NEW key,
         path = CsQualified(name), ordinal = (IF partial THEN NextOrdinal(path) ELSE NoOrdinal),
         key = LocalKeyFor(path, ordinal, print),
         CountFragment(path, partial),
         Collect(<<Declared(<<name>>, path, kind, print, ordinal, key)>>, <<Here.home>>,
                 ContainedIn(Here, key) \o TypeUses(key, "uses_type", used), <<>>),
         NEW what \in {"type", "member"}, NEW scope, scope = FileKey \/ scope = key,
         open' = Append(open, Frame(what, key, <<>>, scope, Len(symbols) + 1)),
         namespaces' = namespaces, types' = types \/ types' = Append(types, name)
  PROVE  CSharpGoesOn
<1>. USE DEF CSharpStep
<1>. DEFINE symbol == Declared(<<name>>, path, kind, print, ordinal, key)
            frame == Frame(what, key, <<>>, scope, Len(symbols) + 1)
            more == TypeUses(key, "uses_type", used)
<1>1. /\ path \in Paths /\ path # <<>> /\ name \in Words /\ <<name>> \in Paths /\ <<>> \in Paths
      /\ Len(symbols) + 1 \in Nat /\ FileKey \in KeySet
  BY ListsArePaths, DottedIsPath, HereFits, KeysAreKeys
<1>2. ordinal \in Int /\ (DOMAIN fragments \subseteq Paths => NextOrdinal(path) \in Nat)
  BY DEF CSharpTyped, NextOrdinal, NoOrdinal
<1>3. key \in KeySet
  BY <1>1, <1>2, KeysAreKeys
<1>4. symbol \in SymbolSet
  BY <1>1, <1>2, <1>3, MakesSymbol
<1>5. symbol.path = path /\ symbol.ordinal = ordinal /\ symbol.print = print /\ symbol.key = key
  BY DEF Declared
<1>6. more \in Seq(EdgeSet) /\ \A k \in 1 .. Len(more) : more[k].source = key
  BY <1>3, UsesFit
<1>7. frame \in FrameSet
  BY <1>1, <1>3 DEF Frame, FrameSet, FrameKinds
<1>8. frame.home = Len(symbols) + 1 /\ frame.container = key /\ frame.scope = scope
  BY DEF Frame
<1>. HIDE DEF symbol, frame, more, Collect
<1>9. /\ Collect(<<symbol>>, <<Here.home>>, ContainedIn(Here, symbol.key) \o more, <<>>)
      /\ open' = Append(open, frame)
  BY <1>5 DEF symbol, more, frame
<1>10. Anchored(File, FileKey)
  BY FromFile
<1>11. Typed' /\ Walked' /\ language' = language /\ Longer(symbols', symbols, <<symbol>>, SymbolSet)
  BY <1>1, <1>4, <1>5, <1>6, <1>7, <1>8, <1>9, <1>10, CSharpSymbol
<1>12. FragmentsCounted'
  BY <1>4, <1>5, <1>11, FragmentCounted
<1>13. CSharpTyped'
  <2>1. /\ namespaces' \in Seq(Paths) /\ types' \in Paths
    <3>1. types \in Seq(Words) /\ namespaces \in Seq(Paths)
      BY DEF CSharpTyped, Paths
    <3>. HIDE DEF Words
    <3>2. Append(types, name) \in Seq(Words)
      BY <1>1, <3>1
    <3>. QED BY <3>1, <3>2 DEF Paths
  <2>2. /\ DOMAIN fragments' \subseteq Paths /\ \A p \in DOMAIN fragments' : fragments'[p] \in Nat
    <3>1. CASE ~partial
      BY <3>1 DEF CountFragment, CSharpTyped
    <3>2. CASE partial
      <4>1. NextOrdinal(path) \in Nat
        BY <1>2 DEF CSharpTyped
      <4>2. /\ DOMAIN fragments' = DOMAIN fragments \union {path}
            /\ fragments'[path] = NextOrdinal(path) + 1
            /\ \A p \in DOMAIN fragments : p # path => fragments'[p] = fragments[p]
        BY <3>2 DEF CountFragment
      <4>. HIDE DEF NextOrdinal
      <4>. QED BY <1>1, <4>1, <4>2 DEF CSharpTyped
    <3>. QED BY <3>1, <3>2
  <2>. QED BY <2>1, <2>2 DEF CSharpTyped
<1>. QED BY <1>11, <1>12, <1>13 DEF CSharpGoesOn

(* A type declaration keeps the walk sound, whether or not it is a fragment *)
(* of a partial type.                                                       *)
LEMMA TypeStep ==
  ASSUME CSharpStep, NEW kind \in TypeKinds, NEW name \in Names, NEW partial \in BOOLEAN,
         NEW print \in Prints, NEW bases \in Lists,
         TypeDeclaration(kind, name, partial, print, bases)
  PROVE  CSharpGoesOn
<1>1. kind \in SymbolKinds /\ print \in AllPrints
  BY CSharpKinds DEF SymbolKinds, AllPrints
<1>. DEFINE path == CsQualified(name)
            ordinal == IF partial THEN NextOrdinal(path) ELSE NoOrdinal
            key == LocalKeyFor(path, ordinal, print)
<1>2. /\ CountFragment(path, partial)
      /\ Collect(<<Declared(<<name>>, path, kind, print, ordinal, key)>>, <<Here.home>>,
                 ContainedIn(Here, key) \o TypeUses(key, "uses_type", bases), <<>>)
      /\ open' = Append(open, Frame("type", key, <<>>, FileKey, Len(symbols) + 1))
      /\ namespaces' = namespaces /\ types' = Append(types, name)
  BY DEF TypeDeclaration, Enter
<1>. HIDE DEF path, key, ordinal
<1>3. /\ path = CsQualified(name) /\ ordinal = (IF partial THEN NextOrdinal(path) ELSE NoOrdinal)
      /\ key = LocalKeyFor(path, ordinal, print)
  BY DEF path, key, ordinal
<1>4. bases \in Lists \union {<<>>} /\ "type" \in {"type", "member"}
  OBVIOUS
<1>. QED BY <1>1, <1>2, <1>3, <1>4, DeclarationStep

(* A member keeps the walk sound, whether or not it is a fragment of a      *)
(* partial method.                                                          *)
LEMMA MemberStep ==
  ASSUME CSharpStep, NEW kind \in MemberKinds, NEW name \in Names, NEW partial \in BOOLEAN,
         NEW print \in Prints, NEW uses \in Lists \union {<<>>},
         Member(kind, name, partial, print, uses)
  PROVE  CSharpGoesOn
<1>1. kind \in SymbolKinds /\ print \in AllPrints
  BY CSharpKinds DEF SymbolKinds, AllPrints
<1>. DEFINE path == CsQualified(name)
            ordinal == IF partial THEN NextOrdinal(path) ELSE NoOrdinal
            key == LocalKeyFor(path, ordinal, print)
<1>2. /\ CountFragment(path, partial)
      /\ Collect(<<Declared(<<name>>, path, kind, print, ordinal, key)>>, <<Here.home>>,
                 ContainedIn(Here, key) \o TypeUses(key, "uses_type", uses), <<>>)
      /\ open' = Append(open, Frame("member", key, <<>>, key, Len(symbols) + 1))
      /\ namespaces' = namespaces /\ types' = types
  BY DEF Member, Enter
<1>. HIDE DEF path, key, ordinal
<1>3. /\ path = CsQualified(name) /\ ordinal = (IF partial THEN NextOrdinal(path) ELSE NoOrdinal)
      /\ key = LocalKeyFor(path, ordinal, print)
  BY DEF path, key, ordinal
<1>4. "member" \in {"type", "member"}
  OBVIOUS
<1>. QED BY <1>1, <1>2, <1>3, <1>4, DeclarationStep

\* A plain declaration: keyed by its path alone.
Plain(symbol) ==
    /\ symbol.path # <<>> /\ symbol.ordinal = NoOrdinal /\ symbol.print = NoPrint
    /\ symbol.key = PlainKey(symbol.path)

(* Several symbols keyed by path alone, each contained where it is written, *)
(* may be collected at once.                                                *)
LEMMA PlainSymbols ==
  ASSUME CSharpStep, NEW s \in Seq(SymbolSet), NEW h \in Seq(Nat), Len(h) = Len(s),
         NEW r \in Seq(EdgeSet), Collect(s, h, r, <<>>), open' = open, UNCHANGED csharpVars,
         \A k \in 1 .. Len(s) : Plain(s[k]),
         \A k \in 1 .. Len(s) : h[k] < Len(symbols) + k,
         \A k \in 1 .. Len(s) : h[k] # 0 =>
            \E e \in 1 .. Len(r) : r[e] = ContainsEdge(symbols'[h[k]].key, s[k].key),
         \A e \in 1 .. Len(r) : \/ Anchored(File, r[e].source)
                                \/ \E k \in 1 .. Len(s) : r[e].source = s[k].key
  PROVE  CSharpGoesOn
<1>. USE DEF CSharpStep
<1>1. <<>> \in Seq(DeferredSet) /\ \A k \in 1 .. Len(<<>>) : Anchored(File', <<>>[k].source)
  OBVIOUS
<1>2. /\ Longer(symbols', symbols, s, SymbolSet) /\ Longer(homes', homes, h, Nat)
      /\ Longer(rels', rels, r, EdgeSet) /\ language' = language /\ Grown(File', File)
  BY <1>1, Collected
<1>3. Len(homes) = Len(symbols) /\ Len(symbols) \in Nat /\ Len(rels) \in Nat
      /\ Len(s) \in Nat /\ Len(r) \in Nat
  BY Collection DEF Walked
<1>4. /\ File'.symbols = symbols' /\ File'.homes = homes' /\ File'.language = "csharp"
      /\ File'.rels = rels'
  BY <1>2 DEF File
<1>. HIDE DEF Collect
<1>5. ASSUME NEW k \in 1 .. Len(s) PROVE SymbolFits(File', Len(symbols) + k)
  <2>. DEFINE n == Len(symbols) + k
  <2>1. symbols'[n] = s[k] /\ homes'[n] = h[k]
    BY <1>2, <1>3 DEF Longer
  <2>2. /\ s[k].path # <<>> /\ s[k].key = LocalKeyFor(s[k].path, s[k].ordinal, s[k].print)
    BY KeysTell DEF Plain
  <2>3. Contained(File', n)
    <3>. SUFFICES ASSUME h[k] # 0
                  PROVE  \E e \in 1 .. Len(rels') :
                            rels'[e] = ContainsEdge(symbols'[h[k]].key, s[k].key)
      BY <1>4, <2>1 DEF Contained
    <3>1. PICK e \in 1 .. Len(r) : r[e] = ContainsEdge(symbols'[h[k]].key, s[k].key)
      OBVIOUS
    <3>2. Len(rels) + e \in 1 .. Len(rels') /\ rels'[Len(rels) + e] = r[e]
      <4>1. Longer(rels', rels, r, EdgeSet) /\ Len(rels) \in Nat /\ Len(r) \in Nat
        BY <1>2, <1>3
      <4>. QED BY <4>1, LaidAfter
    <3>3. rels'[Len(rels) + e] = ContainsEdge(symbols'[h[k]].key, s[k].key)
      BY <3>1, <3>2
    <3>. QED BY <3>2, <3>3
  <2>. HIDE DEF n
  <2>4. File'.homes[n] < n
    BY <1>4, <2>1 DEF n
  <2>5. SymbolFits(File', n)
    BY <1>4, <2>1, <2>2, <2>3, <2>4, SymbolOfCSharp
  <2>. QED BY <2>5 DEF n
<1>6. ASSUME NEW e \in 1 .. Len(r) PROVE Sourced(File', r[e])
  <2>1. CASE Anchored(File, r[e].source)
    BY <1>2, <2>1, StaysAnchored DEF Sourced
  <2>2. CASE \E k \in 1 .. Len(s) : r[e].source = s[k].key
    <3>1. PICK k \in 1 .. Len(s) : r[e].source = s[k].key
      BY <2>2
    <3>2. Len(symbols) + k \in 1 .. Len(symbols') /\ symbols'[Len(symbols) + k] = s[k]
      <4>1. Longer(symbols', symbols, s, SymbolSet) /\ Len(symbols) \in Nat /\ Len(s) \in Nat
        BY <1>2, <1>3
      <4>. QED BY <4>1, LaidAfter
    <3>3. Anchored(File', s[k].key)
      BY <1>4, <3>2 DEF Anchored
    <3>. QED BY <3>1, <3>3 DEF Sourced
  <2>. QED BY <2>1, <2>2
<1>7. Typed' /\ Walked'
  BY <1>1, <1>5, <1>6, OpenStays, Handled
<1>8. fragments' = fragments /\ namespaces' = namespaces /\ types' = types
  BY DEF csharpVars
<1>9. FragmentsCounted'
  BY <1>2, <1>8, NoFragment DEF Plain
<1>10. CSharpTyped'
  BY <1>8 DEF CSharpTyped
<1>. QED BY <1>7, <1>9, <1>10 DEF CSharpGoesOn

(* A symbol keyed by path alone is made from a name.                        *)
LEMMA PlainDeclared ==
  ASSUME NEW name \in Paths, NEW path \in Paths, path # <<>>, NEW kind \in SymbolKinds
  PROVE  /\ Declared(name, path, kind, NoPrint, NoOrdinal, PlainKey(path)) \in SymbolSet
         /\ Plain(Declared(name, path, kind, NoPrint, NoOrdinal, PlainKey(path)))
         /\ Declared(name, path, kind, NoPrint, NoOrdinal, PlainKey(path)).key = PlainKey(path)
         /\ PlainKey(path) \in KeySet
<1>1. PlainKey(path) \in KeySet /\ NoOrdinal \in Int /\ NoPrint \in AllPrints
  BY KeysAreKeys DEF NoOrdinal, AllPrints
<1>2. Declared(name, path, kind, NoPrint, NoOrdinal, PlainKey(path)) \in SymbolSet
  BY <1>1, MakesSymbol
<1>. QED BY <1>1, <1>2 DEF Declared, Plain

(* An enum keeps the walk sound: its members are contained in it.           *)
LEMMA EnumStep ==
  ASSUME CSharpStep, NEW name \in Names, NEW members \in Lists, EnumDeclaration(name, members)
  PROVE  CSharpGoesOn
<1>. USE DEF CSharpStep
<1>. DEFINE path == CsQualified(name)
            key == PlainKey(path)
            enum == Declared(<<name>>, path, "enum", NoPrint, NoOrdinal, key)
            under(m) == path \o <<members[m]>>
            field(m) == Declared(<<members[m]>>, under(m), "field", NoPrint, NoOrdinal, PlainKey(under(m)))
            fields == [m \in 1 .. Len(members) |-> field(m)]
            inside == [m \in 1 .. Len(members) |-> Len(symbols) + 1]
            edges == [m \in 1 .. Len(members) |-> ContainsEdge(key, PlainKey(under(m)))]
            s == <<enum>> \o fields
            h == <<Here.home>> \o inside
            c == ContainedIn(Here, key)
            r == c \o edges
<1>1. /\ name \in Words /\ <<name>> \in Paths /\ members \in Paths
      /\ \A m \in 1 .. Len(members) : members[m] \in Words /\ <<members[m]>> \in Paths
      /\ Len(members) \in Nat
  BY ListsArePaths DEF Paths
<1>2. path \in Paths /\ path # <<>>
  BY <1>1, DottedIsPath
<1>3. ASSUME NEW m \in 1 .. Len(members) PROVE under(m) \in Paths /\ under(m) # <<>>
  <2>. HIDE DEF path, Words
  <2>1. path \in Seq(Words) /\ members[m] \in Words
    BY <1>1, <1>2 DEF Paths
  <2>2. path \o <<members[m]>> \in Seq(Words) /\ path \o <<members[m]>> # <<>>
    BY <2>1
  <2>. QED BY <2>2 DEF Paths
<1>4. "enum" \in SymbolKinds /\ "field" \in SymbolKinds
  BY DEF SymbolKinds
<1>5. /\ Collect(s, h, r, <<>>) /\ open' = open /\ UNCHANGED csharpVars
  BY DEF EnumDeclaration, Stay
<1>. HIDE DEF path, Collect
<1>6. enum \in SymbolSet /\ Plain(enum) /\ enum.key = key /\ key \in KeySet
  BY <1>1, <1>2, <1>4, PlainDeclared
<1>. HIDE DEF enum, under
<1>7. ASSUME NEW m \in 1 .. Len(members)
      PROVE  /\ field(m) \in SymbolSet /\ Plain(field(m))
             /\ field(m).key = PlainKey(under(m)) /\ PlainKey(under(m)) \in KeySet
  BY <1>1, <1>3, <1>4, PlainDeclared
<1>. HIDE DEF field, key
<1>8. Len(symbols) \in Nat /\ Here.home \in Nat /\ Here.home <= Len(symbols)
  BY HereFits
<1>9. /\ fields \in Seq(SymbolSet) /\ Len(fields) = Len(members)
      /\ \A m \in 1 .. Len(members) : fields[m] = field(m)
  BY <1>1, <1>7
<1>10. /\ inside \in Seq(Nat) /\ Len(inside) = Len(members)
       /\ \A m \in 1 .. Len(members) : inside[m] = Len(symbols) + 1
  BY <1>1, <1>8
<1>11. ASSUME NEW m \in 1 .. Len(members)
       PROVE  /\ ContainsEdge(key, PlainKey(under(m))) \in EdgeSet
              /\ ContainsEdge(key, PlainKey(under(m))).source = key
  <2>1. ContainsEdge(key, PlainKey(under(m))) \in EdgeSet
    BY <1>6, <1>7, MakesEdge DEF EdgeKinds
  <2>. QED BY <2>1 DEF ContainsEdge, Edge
<1>12. /\ edges \in Seq(EdgeSet) /\ Len(edges) = Len(members)
       /\ \A m \in 1 .. Len(members) :
             edges[m] = ContainsEdge(key, PlainKey(under(m))) /\ edges[m].source = key
  <2>. HIDE DEF ContainsEdge
  <2>. QED BY <1>1, <1>11
<1>. HIDE DEF fields, inside, edges
<1>13. /\ s \in Seq(SymbolSet) /\ Len(s) = Len(members) + 1 /\ s[1] = enum
       /\ \A k \in 1 .. Len(s) : k = 1 \/ (k - 1 \in 1 .. Len(members) /\ s[k] = field(k - 1))
  <2>1. /\ s \in Seq(SymbolSet) /\ Len(s) = Len(members) + 1 /\ s[1] = enum
    BY <1>1, <1>6, <1>9
  <2>2. ASSUME NEW k \in 1 .. Len(s), k # 1
        PROVE  k - 1 \in 1 .. Len(members) /\ s[k] = fields[k - 1]
    <3>1. k - 1 \in 1 .. Len(members)
      BY <1>1, <2>1, <2>2
    <3>2. fields \in Seq(SymbolSet) /\ <<enum>> \in Seq(SymbolSet) /\ Len(<<enum>>) = 1
          /\ k \in 1 .. 1 + Len(fields)
      BY <1>1, <1>6, <1>9, <2>1
    <3>. QED BY <2>2, <3>1, <3>2
  <2>. QED BY <1>9, <2>1, <2>2
<1>14. /\ h \in Seq(Nat) /\ Len(h) = Len(members) + 1 /\ h[1] = Here.home
       /\ \A k \in 1 .. Len(h) : k = 1 \/ h[k] = Len(symbols) + 1
  <2>1. h \in Seq(Nat) /\ Len(h) = Len(members) + 1 /\ h[1] = Here.home
    BY <1>1, <1>8, <1>10
  <2>2. ASSUME NEW k \in 1 .. Len(h), k # 1
        PROVE  h[k] = inside[k - 1] /\ k - 1 \in 1 .. Len(members)
    <3>1. k - 1 \in 1 .. Len(members)
      BY <1>1, <2>1, <2>2
    <3>2. inside \in Seq(Nat) /\ <<Here.home>> \in Seq(Nat) /\ Len(<<Here.home>>) = 1
          /\ k \in 1 .. 1 + Len(inside)
      BY <1>1, <1>8, <1>10, <2>1
    <3>. QED BY <2>2, <3>1, <3>2
  <2>. QED BY <1>10, <2>1, <2>2
<1>15. /\ c \in Seq(EdgeSet) /\ Len(c) \in Nat
       /\ \A e \in 1 .. Len(c) : Anchored(File, c[e].source)
       /\ Here.home # 0 => /\ Here.home \in 1 .. Len(symbols)
                           /\ c = <<ContainsEdge(symbols[Here.home].key, key)>>
  BY <1>6, ContainedHere
<1>. HIDE DEF c, s, h
<1>16. /\ r \in Seq(EdgeSet) /\ Len(r) = Len(c) + Len(members)
       /\ \A e \in 1 .. Len(c) : r[e] = c[e]
       /\ \A m \in 1 .. Len(members) : r[Len(c) + m] = edges[m]
  <2>1. Longer(r, c, edges, EdgeSet)
    BY <1>12, <1>15, Lengthened
  <2>. HIDE DEF r
  <2>. QED BY <1>12, <2>1 DEF Longer
<1>. HIDE DEF r
<1>17. <<>> \in Seq(DeferredSet)
  OBVIOUS
<1>18. Longer(symbols', symbols, s, SymbolSet)
  BY <1>5, <1>13, <1>14, <1>16, <1>17, Collected
<1>19. symbols'[Len(symbols) + 1].key = key
  BY <1>1, <1>6, <1>13, <1>18 DEF Longer
<1>20. \A k \in 1 .. Len(s) : Plain(s[k])
  BY <1>6, <1>7, <1>13
<1>21. \A k \in 1 .. Len(s) : h[k] < Len(symbols) + k
  BY <1>1, <1>8, <1>13, <1>14
<1>22. ASSUME NEW k \in 1 .. Len(s), h[k] # 0
       PROVE  \E e \in 1 .. Len(r) : r[e] = ContainsEdge(symbols'[h[k]].key, s[k].key)
  <2>1. CASE k = 1
    <3>1. /\ Here.home \in 1 .. Len(symbols) /\ h[k] = Here.home
          /\ c = <<ContainsEdge(symbols[Here.home].key, key)>>
      BY <1>14, <1>15, <1>22, <2>1
    <3>2. symbols'[Here.home] = symbols[Here.home] /\ s[k].key = key
      BY <1>6, <1>13, <1>18, <2>1, <3>1 DEF Longer
    <3>3. 1 \in 1 .. Len(r) /\ Len(c) = 1 /\ c[1] = ContainsEdge(symbols[Here.home].key, key)
      BY <1>1, <1>16, <3>1
    <3>4. r[1] = c[1]
      BY <1>16, <3>3
    <3>. QED BY <3>1, <3>2, <3>3, <3>4
  <2>2. CASE k # 1
    <3>1. /\ k - 1 \in 1 .. Len(members) /\ s[k] = field(k - 1) /\ h[k] = Len(symbols) + 1
      BY <1>13, <1>14, <2>2
    <3>2. r[Len(c) + (k - 1)] = edges[k - 1] /\ Len(c) + (k - 1) \in 1 .. Len(r)
      BY <1>1, <1>15, <1>16, <3>1
    <3>3. edges[k - 1] = ContainsEdge(key, s[k].key)
      BY <1>7, <1>12, <3>1
    <3>. QED BY <1>19, <3>1, <3>2, <3>3
  <2>. QED BY <2>1, <2>2
<1>23. ASSUME NEW e \in 1 .. Len(r)
       PROVE  Anchored(File, r[e].source) \/ \E k \in 1 .. Len(s) : r[e].source = s[k].key
  <2>1. CASE e \in 1 .. Len(c)
    BY <1>15, <1>16, <2>1
  <2>2. CASE e \notin 1 .. Len(c)
    <3>1. e - Len(c) \in 1 .. Len(members) /\ e = Len(c) + (e - Len(c))
      BY <1>1, <1>15, <1>16, <2>2
    <3>2. r[e].source = key
      BY <1>12, <1>16, <3>1
    <3>3. 1 \in 1 .. Len(s) /\ s[1].key = key
      BY <1>1, <1>6, <1>13
    <3>. QED BY <3>2, <3>3
  <2>. QED BY <2>1, <2>2
<1>24. Len(h) = Len(s)
  BY <1>13, <1>14
<1>. QED BY <1>5, <1>13, <1>14, <1>16, <1>20, <1>21, <1>22, <1>23, <1>24, PlainSymbols

(* A field declaration keeps the walk sound: each field is contained in the *)
(* type, and each uses what the declaration uses.                           *)
LEMMA FieldsStep ==
  ASSUME CSharpStep, NEW declarators \in Lists, NEW uses \in Lists, FieldDeclaration(declarators, uses)
  PROVE  CSharpGoesOn
<1>. USE DEF CSharpStep
<1>. DEFINE N == Len(declarators)
            path(d) == CsQualified(declarators[d])
            key(d) == PlainKey(path(d))
            field(d) == Declared(<<declarators[d]>>, path(d), "field", NoPrint, NoOrdinal, key(d))
            s == [d \in 1 .. N |-> field(d)]
            h == [d \in 1 .. N |-> Here.home]
            c(d) == ContainedIn(Here, key(d))
            u(d) == TypeUses(key(d), "uses_type", uses)
            parts == [d \in 1 .. N |-> c(d) \o u(d)]
            r == FlattenSeq(parts)
<1>1. /\ N \in Nat /\ uses \in Lists \union {<<>>}
      /\ \A d \in 1 .. N : declarators[d] \in Words /\ <<declarators[d]>> \in Paths
  BY ListsArePaths DEF Paths
<1>2. \A d \in 1 .. N : path(d) \in Paths /\ path(d) # <<>>
  BY <1>1, DottedIsPath
<1>3. "field" \in SymbolKinds
  BY DEF SymbolKinds
<1>4. Collect(s, h, r, <<>>) /\ open' = open /\ UNCHANGED csharpVars
  BY DEF FieldDeclaration, Stay
<1>. HIDE DEF path, Collect
<1>5. ASSUME NEW d \in 1 .. N
      PROVE  field(d) \in SymbolSet /\ Plain(field(d)) /\ field(d).key = key(d) /\ key(d) \in KeySet
  BY <1>1, <1>2, <1>3, PlainDeclared
<1>. HIDE DEF field, key, N
<1>6. Len(symbols) \in Nat /\ Here.home \in Nat /\ Here.home <= Len(symbols)
  BY HereFits
<1>7. /\ s \in Seq(SymbolSet) /\ Len(s) = N /\ \A d \in 1 .. N : s[d] = field(d)
  BY <1>1, <1>5
<1>8. /\ h \in Seq(Nat) /\ Len(h) = N /\ \A d \in 1 .. N : h[d] = Here.home
  BY <1>1, <1>6
<1>. HIDE DEF s, h
<1>9. ASSUME NEW d \in 1 .. N
      PROVE  /\ c(d) \in Seq(EdgeSet) /\ \A e \in 1 .. Len(c(d)) : Anchored(File, c(d)[e].source)
             /\ Here.home # 0 => /\ Here.home \in 1 .. Len(symbols)
                                 /\ c(d) = <<ContainsEdge(symbols[Here.home].key, key(d))>>
  BY <1>5, ContainedHere
<1>10. ASSUME NEW d \in 1 .. N
       PROVE  u(d) \in Seq(EdgeSet) /\ \A e \in 1 .. Len(u(d)) : u(d)[e].source = key(d)
  BY <1>1, <1>5, UsesFit
<1>. HIDE DEF c, u
<1>11. ASSUME NEW d \in 1 .. N
       PROVE  /\ parts[d] \in Seq(EdgeSet) /\ Len(parts[d]) = Len(c(d)) + Len(u(d))
              /\ \A e \in 1 .. Len(c(d)) : parts[d][e] = c(d)[e]
              /\ \A e \in 1 .. Len(parts[d]) :
                    Anchored(File, parts[d][e].source) \/ parts[d][e].source = key(d)
  <2>1. parts[d] = c(d) \o u(d) /\ c(d) \in Seq(EdgeSet) /\ u(d) \in Seq(EdgeSet)
    BY <1>9, <1>10
  <2>2. Longer(parts[d], c(d), u(d), EdgeSet)
    BY <2>1, Lengthened
  <2>3. ASSUME NEW e \in 1 .. Len(parts[d])
        PROVE  Anchored(File, parts[d][e].source) \/ parts[d][e].source = key(d)
    <3>1. CASE e \in 1 .. Len(c(d))
      BY <1>9, <2>2, <3>1 DEF Longer
    <3>2. CASE e \notin 1 .. Len(c(d))
      <4>1. PICK k \in 1 .. Len(u(d)) : e = Len(c(d)) + k
        BY <2>2, <3>2 DEF Longer
      <4>2. parts[d][e] = u(d)[k]
        BY <2>2, <4>1 DEF Longer
      <4>. QED BY <1>10, <4>2
    <3>. QED BY <3>1, <3>2
  <2>. QED BY <2>2, <2>3 DEF Longer
<1>12. parts \in Seq(Seq(EdgeSet)) /\ Len(parts) = N
  BY <1>1, <1>11
<1>. HIDE DEF parts
<1>13. /\ r \in Seq(EdgeSet)
       /\ \A d \in 1 .. N : \A i \in 1 .. Len(parts[d]) :
             \E e \in 1 .. Len(r) : r[e] = parts[d][i]
       /\ \A e \in 1 .. Len(r) :
             \E d \in 1 .. N : \E i \in 1 .. Len(parts[d]) : r[e] = parts[d][i]
  BY <1>12, Flattened, ZenonT(30)
<1>. HIDE DEF r
<1>14. <<>> \in Seq(DeferredSet) /\ Len(h) = Len(s)
  BY <1>7, <1>8
<1>15. Longer(symbols', symbols, s, SymbolSet)
  BY <1>4, <1>7, <1>8, <1>13, <1>14, Collected
<1>16. \A k \in 1 .. Len(s) : Plain(s[k])
  BY <1>5, <1>7
<1>17. \A k \in 1 .. Len(s) : h[k] < Len(symbols) + k
  BY <1>1, <1>6, <1>7, <1>8
<1>18. ASSUME NEW k \in 1 .. Len(s), h[k] # 0
       PROVE  \E e \in 1 .. Len(r) : r[e] = ContainsEdge(symbols'[h[k]].key, s[k].key)
  <2>1. /\ k \in 1 .. N /\ h[k] = Here.home /\ s[k].key = key(k)
    BY <1>5, <1>7, <1>8
  <2>2. /\ Here.home \in 1 .. Len(symbols)
        /\ c(k) = <<ContainsEdge(symbols[Here.home].key, key(k))>>
    BY <1>9, <1>18, <2>1
  <2>3. 1 \in 1 .. Len(c(k)) /\ c(k)[1] = ContainsEdge(symbols[Here.home].key, key(k))
    BY <2>2
  <2>4. 1 \in 1 .. Len(parts[k]) /\ parts[k][1] = c(k)[1]
    <3>1. Len(c(k)) = 1 /\ Len(u(k)) \in Nat
      BY <1>10, <2>1, <2>2
    <3>. QED BY <1>11, <2>1, <2>3, <3>1
  <2>5. PICK e \in 1 .. Len(r) : r[e] = parts[k][1]
    BY <1>13, <2>1, <2>4
  <2>6. symbols'[Here.home] = symbols[Here.home]
    BY <1>15, <2>2 DEF Longer
  <2>. QED BY <2>1, <2>3, <2>4, <2>5, <2>6
<1>19. ASSUME NEW e \in 1 .. Len(r)
       PROVE  Anchored(File, r[e].source) \/ \E k \in 1 .. Len(s) : r[e].source = s[k].key
  <2>1. PICK d \in 1 .. N : \E i \in 1 .. Len(parts[d]) : r[e] = parts[d][i]
    BY <1>13
  <2>2. Anchored(File, r[e].source) \/ r[e].source = key(d)
    BY <1>11, <2>1
  <2>3. d \in 1 .. Len(s) /\ s[d].key = key(d)
    BY <1>5, <1>7
  <2>. QED BY <2>2, <2>3
<1>. QED BY <1>4, <1>7, <1>8, <1>13, <1>14, <1>16, <1>17, <1>18, <1>19, PlainSymbols

(* A step that declares nothing leaves the C# state typed and the fragments *)
(* counted.                                                                 *)
LEMMA NothingDeclared ==
  ASSUME Typed, CSharpTyped, FragmentsCounted, language' = language, fragments' = fragments,
         namespaces' \in Seq(Paths), types' \in Paths, symbols' = symbols
  PROVE  CSharpTyped' /\ FragmentsCounted'
<1>1. CSharpTyped'
  BY DEF CSharpTyped
<1>2. FragmentsCounted'
  BY DEF FragmentsCounted, Fragment
<1>. QED BY <1>1, <1>2

(* So does a handler that collects edges and deferred targets alone.        *)
LEMMA NothingCollected ==
  ASSUME CSharpStep, UNCHANGED csharpVars, NEW r, NEW p, Collect(<<>>, <<>>, r, p)
  PROVE  CSharpTyped' /\ FragmentsCounted'
<1>1. language' = language /\ symbols' = symbols
  <2>1. symbols \in Seq(SymbolSet) /\ symbols' = symbols \o <<>> /\ language' = language
    BY DEF CSharpStep, Typed, Collect
  <2>2. symbols \o <<>> = symbols
    BY <2>1
  <2>. QED BY <2>1, <2>2
<1>2. fragments' = fragments /\ namespaces' \in Seq(Paths) /\ types' \in Paths
  BY DEF CSharpStep, CSharpTyped, csharpVars
<1>. QED BY <1>1, <1>2, NothingDeclared DEF CSharpStep

(* A using directive keeps the walk sound.                                  *)
LEMMA UsingStep ==
  ASSUME CSharpStep, NEW name \in Names, UsingDirective(name)
  PROVE  CSharpGoesOn
<1>. DEFINE edge == UnresolvedEdge(FileKey, "imports", <<name>>)
<1>1. /\ Collect(<<>>, <<>>, <<edge>>, <<>>) /\ open' = open /\ UNCHANGED csharpVars
  BY DEF UsingDirective, Stay
<1>2. edge \in EdgeSet /\ Anchored(File, edge.source)
  <2>1. name \in Words /\ "imports" \in EdgeKinds
    BY ListsArePaths DEF EdgeKinds
  <2>. QED BY <2>1, FromFile
<1>. HIDE DEF edge
<1>3. Typed' /\ Walked'
  BY <1>1, <1>2, EdgeStep DEF CSharpStep
<1>4. CSharpTyped' /\ FragmentsCounted'
  BY <1>1, NothingCollected
<1>. QED BY <1>3, <1>4 DEF CSharpGoesOn

(* A call, a construction or a read keeps the walk sound: it hangs from the *)
(* scope.                                                                   *)
LEMMA ExpressionStep ==
  ASSUME CSharpStep, NEW kind \in {"calls", "constructs", "reads"}, NEW name \in Names,
         Expression(kind, name)
  PROVE  CSharpGoesOn
<1>1. kind \in EdgeKinds
  BY DEF EdgeKinds
<1>2. /\ Collect(<<>>, <<>>, <<>>, <<Deferred(Here.scope, kind, name)>>) /\ open' = open
      /\ UNCHANGED csharpVars
  BY DEF Expression, Stay
<1>3. Here.scope \in KeySet /\ Anchored(File, Here.scope)
  BY HereFits DEF CSharpStep, FrameFits
<1>4. Typed' /\ Walked'
  BY <1>1, <1>2, <1>3, ReferenceFrom DEF CSharpStep
<1>5. CSharpTyped' /\ FragmentsCounted'
  BY <1>2, NothingCollected
<1>. QED BY <1>4, <1>5 DEF CSharpGoesOn

(* A target-typed new keeps the walk sound: its edge names no type, and     *)
(* hangs from the scope.                                                    *)
LEMMA NewStep ==
  ASSUME CSharpStep, TargetTypedNew
  PROVE  CSharpGoesOn
<1>. DEFINE edge == UnresolvedEdge(Here.scope, "constructs", <<>>)
<1>1. /\ Collect(<<>>, <<>>, <<edge>>, <<>>) /\ open' = open /\ UNCHANGED csharpVars
  BY DEF TargetTypedNew, Stay
<1>2. Here.scope \in KeySet /\ Anchored(File, Here.scope)
  BY HereFits DEF CSharpStep, FrameFits
<1>3. edge \in EdgeSet /\ edge.source = Here.scope
  <2>1. edge \in EdgeSet
    BY <1>2, MakesEdge DEF EdgeKinds
  <2>. QED BY <2>1 DEF UnresolvedEdge, Edge
<1>. HIDE DEF edge
<1>4. Typed' /\ Walked'
  BY <1>1, <1>2, <1>3, EdgeStep DEF CSharpStep
<1>5. CSharpTyped' /\ FragmentsCounted'
  BY <1>1, NothingCollected
<1>. QED BY <1>4, <1>5 DEF CSharpGoesOn

(* A sequence without its last element is one.                              *)
LEMMA Fronted ==
  ASSUME NEW X, NEW s \in Seq(X)
  PROVE  Front(s) \in Seq(X)
<1>1. CASE s = <<>>
  <2>1. Front(s) = [i \in 1 .. 0 |-> s[i]]
    BY <1>1 DEF Front
  <2>. QED BY <2>1
<1>2. CASE s # <<>>
  <2>1. Len(s) - 1 \in Nat
    BY <1>2
  <2>. QED BY <2>1 DEF Front
<1>. QED BY <1>1, <1>2

(* The end of a namespace, a type or a member keeps the walk sound.         *)
LEMMA EndStep ==
  ASSUME CSharpStep, CloseDeclaration
  PROVE  CSharpGoesOn
<1>1. /\ Len(open) > 1 /\ open' = Front(open)
      /\ UNCHANGED <<language, symbols, rels, pending, finished, homes, facts>>
  BY DEF CloseDeclaration, CSharpStep
<1>2. Typed' /\ Walked'
  BY <1>1, CloseStep DEF CSharpStep
<1>3. namespaces' \in Seq(Paths) /\ types' \in Paths /\ fragments' = fragments
  <2>1. namespaces \in Seq(Paths) /\ types \in Seq(Words)
    BY DEF CSharpStep, CSharpTyped, Paths
  <2>2. Front(namespaces) \in Seq(Paths) /\ Front(types) \in Seq(Words)
    BY <2>1, Fronted
  <2>. QED BY <2>1, <2>2 DEF CloseDeclaration, Paths
<1>4. CSharpTyped' /\ FragmentsCounted'
  BY <1>1, <1>3, NothingDeclared DEF CSharpStep
<1>. QED BY <1>2, <1>4 DEF CSharpGoesOn

(* Every step of the C# walk keeps what is collected typed and fitting the  *)
(* file, and the fragments counted.                                         *)
LEMMA CSharpWalks ==
  ASSUME Typed, CSharpTyped, Walked, FragmentsCounted, ~finished, CSharpNext,
         UNCHANGED frameworkVars
  PROVE  CSharpGoesOn
<1>1. CSharpStep
  BY DEF CSharpNext, CSharpStep, frameworkVars
<1>2. ASSUME NEW name \in Names, FileScopedNamespace(name) PROVE CSharpGoesOn
  BY <1>1, <1>2, FileScopedStep
<1>3. ASSUME NEW name \in Names, BlockNamespace(name) PROVE CSharpGoesOn
  BY <1>1, <1>3, BlockStep
<1>4. ASSUME NEW name \in Names, UsingDirective(name) PROVE CSharpGoesOn
  BY <1>1, <1>4, UsingStep
<1>5. ASSUME NEW name \in Names, NEW kind \in TypeKinds, NEW partial \in BOOLEAN,
             NEW print \in Prints, NEW bases \in Lists,
             TypeDeclaration(kind, name, partial, print, bases)
      PROVE  CSharpGoesOn
  BY <1>1, <1>5, TypeStep
<1>6. ASSUME NEW name \in Names, NEW members \in Lists, EnumDeclaration(name, members)
      PROVE  CSharpGoesOn
  BY <1>1, <1>6, EnumStep
<1>7. ASSUME NEW name \in Names, NEW kind \in MemberKinds, NEW partial \in BOOLEAN,
             NEW print \in Prints, NEW uses \in Lists \union {<<>>},
             Member(kind, name, partial, print, uses)
      PROVE  CSharpGoesOn
  BY <1>1, <1>7, MemberStep
<1>8. ASSUME NEW declarators \in {l \in Lists : l # <<>>}, NEW uses \in Lists,
             FieldDeclaration(declarators, uses)
      PROVE  CSharpGoesOn
  BY <1>1, <1>8, FieldsStep
<1>9. ASSUME NEW name \in Names, NEW kind \in {"calls", "constructs", "reads"},
             Expression(kind, name)
      PROVE  CSharpGoesOn
  BY <1>1, <1>9, ExpressionStep
<1>10. ASSUME TargetTypedNew PROVE CSharpGoesOn
  BY <1>1, <1>10, NewStep
<1>11. ASSUME CloseDeclaration PROVE CSharpGoesOn
  BY <1>1, <1>11, EndStep
<1>. QED BY <1>2, <1>3, <1>4, <1>5, <1>6, <1>7, <1>8, <1>9, <1>10, <1>11 DEF CSharpNext

-----------------------------------------------------------------------------
(* The facts noted for the frameworks, and the walk as a whole.             *)

(* A fact that fits the file may be noted of it.                            *)
LEMMA NotedFits ==
  ASSUME Typed, Walked, NEW what \in FactKinds, NEW home \in Nat, NEW names \in Paths,
         Note(what, home, names),
         FactFits(File, [what |-> what, home |-> home, names |-> names])
  PROVE  Typed' /\ Walked'
<1>. DEFINE fact == [what |-> what, home |-> home, names |-> names]
<1>1. fact \in FactSet
  BY DEF FactSet
<1>2. /\ facts' = Append(facts, fact) /\ facts \in Seq(FactSet)
      /\ UNCHANGED <<language, open, symbols, rels, pending, finished, homes>>
  BY DEF Note, shared, Typed
<1>. HIDE DEF fact
<1>3. /\ facts' \in Seq(FactSet)
      /\ \A f \in 1 .. Len(facts') : facts'[f] = fact \/ (f \in 1 .. Len(facts) /\ facts'[f] = facts[f])
  BY <1>1, <1>2
<1>4. File' = File
  BY <1>2 DEF File
<1>5. Typed'
  BY <1>2, <1>3 DEF Typed
<1>6. \A f \in 1 .. Len(facts') : FactFits(File', facts'[f])
  BY <1>3, <1>4 DEF Walked, fact
<1>7. Walked'
  BY <1>2, <1>4, <1>6 DEF Walked
<1>. QED BY <1>5, <1>7

(* The innermost open declaration is of a symbol that is there.             *)
LEMMA Opened ==
  ASSUME Typed, Walked, NEW kind, JustOpened(kind)
  PROVE  /\ Here.home \in Nat /\ Here.home # 0 /\ Here.home <= Len(File.homes)
         /\ Here.home \in 1 .. Len(symbols)
         /\ File.symbols[Here.home].kind = kind
<1>1. Here.home \in Nat /\ Here.home <= Len(symbols) /\ Len(symbols) \in Nat
  BY HereFits
<1>2. File.homes = homes /\ Len(homes) = Len(symbols) /\ File.symbols = symbols
  BY DEF Walked, File
<1>. QED BY <1>1, <1>2 DEF JustOpened

(* Every fact noted of a C# file fits it.                                   *)
LEMMA CSharpFacts ==
  ASSUME Typed, Walked, ~finished, CSharpFact(Lists)
  PROVE  Typed' /\ Walked'
<1>1. /\ language = "csharp" /\ File.language = "csharp" /\ File.homes = homes
      /\ File.symbols = symbols /\ Len(homes) = Len(symbols)
  BY DEF CSharpFact, File, Walked
<1>2. <<>> \in Paths
  BY ListsArePaths
<1>3. ASSUME ApiController PROVE Typed' /\ Walked'
  <2>1. JustOpened("class") /\ Note("api", Here.home, <<>>)
    BY <1>3 DEF ApiController
  <2>2. Here.home \in Nat /\ Here.home # 0 /\ Here.home <= Len(File.homes)
    BY <2>1, Opened
  <2>3. FactFits(File, [what |-> "api", home |-> Here.home, names |-> <<>>])
    BY <1>1, <2>2 DEF FactFits, MethodFacts, CallFacts
  <2>4. "api" \in FactKinds
    BY DEF FactKinds
  <2>. QED BY <1>2, <2>1, <2>2, <2>3, <2>4, NotedFits
<1>4. ASSUME NEW what \in {"http", "function", "trigger", "route"}, MethodAttribute(what)
      PROVE  Typed' /\ Walked'
  <2>1. JustOpened("method") /\ InClass(Here.home) /\ Note(what, Here.home, <<>>)
    BY <1>4 DEF MethodAttribute
  <2>2. Here.home \in Nat /\ Here.home # 0 /\ Here.home <= Len(File.homes)
    BY <2>1, Opened
  <2>3. FactFits(File, [what |-> what, home |-> Here.home, names |-> <<>>])
    BY <1>1, <2>1, <2>2 DEF FactFits, MethodFacts, CallFacts, InClass
  <2>4. what \in FactKinds
    BY DEF FactKinds, MethodFacts
  <2>. QED BY <1>2, <2>1, <2>2, <2>3, <2>4, NotedFits
<1>5. ASSUME NEW entity \in Lists, Len(entity) = 1, DbSetMember(entity)
      PROVE  Typed' /\ Walked'
  <2>1. Len(symbols) > 0 /\ InClass(Len(symbols)) /\ Note("dbset", Len(symbols), entity)
    BY <1>5 DEF DbSetMember
  <2>2. Len(symbols) \in Nat /\ Len(symbols) # 0 /\ Len(symbols) <= Len(File.homes)
    BY <1>1, <2>1, Collection
  <2>3. FactFits(File, [what |-> "dbset", home |-> Len(symbols), names |-> entity])
    BY <1>1, <1>5, <2>1, <2>2 DEF FactFits, MethodFacts, CallFacts, InClass
  <2>4. "dbset" \in FactKinds /\ entity \in Paths
    BY ListsArePaths DEF FactKinds
  <2>. QED BY <2>1, <2>2, <2>3, <2>4, NotedFits
<1>6. ASSUME NEW what \in Calls, NEW names \in Lists \union {<<>>}, Invocation(what, names)
      PROVE  Typed' /\ Walked'
  <2>1. Note(what, EnclosingMethod, names) /\ what \in CallFacts
    BY <1>6, CallKinds DEF Invocation, CallFacts
  <2>2. EnclosingMethod \in Nat /\ EnclosingMethod <= Len(File.homes)
    <3>1. Here.home \in Nat /\ Here.home <= Len(symbols) /\ Len(symbols) \in Nat
      BY HereFits
    <3>. QED BY <1>1, <3>1 DEF EnclosingMethod
  <2>. DEFINE home == EnclosingMethod
  <2>. HIDE DEF home
  <2>3. FactFits(File, [what |-> what, home |-> home, names |-> names])
    BY <1>1, <2>1, <2>2 DEF FactFits, MethodFacts, CallFacts, home
  <2>4. what \in FactKinds /\ names \in Paths
    BY <1>2, <2>1, ListsArePaths DEF FactKinds
  <2>. QED BY <2>1, <2>2, <2>3, <2>4, NotedFits DEF home
<1>. QED BY <1>3, <1>4, <1>5, <1>6 DEF CSharpFact

(* Every fact noted of a TypeScript file fits it.                           *)
LEMMA TypeScriptFacts ==
  ASSUME Typed, Walked, ~finished, TypeScriptFact(Lists)
  PROVE  Typed' /\ Walked'
<1>1. /\ language = "typescript" /\ File.language = "typescript" /\ File.homes = homes
      /\ File.symbols = symbols /\ Len(homes) = Len(symbols)
  BY DEF TypeScriptFact, File, Walked
<1>2. ASSUME NEW decorator \in ClassFacts, NEW names \in Lists, DecoratedClass(decorator, names)
      PROVE  Typed' /\ Walked'
  <2>1. JustOpened("class") /\ Note(decorator, Here.home, names)
    BY <1>2 DEF DecoratedClass
  <2>2. /\ Here.home \in Nat /\ Here.home # 0 /\ Here.home <= Len(File.homes)
        /\ File.symbols[Here.home].kind = "class"
    BY <2>1, Opened
  <2>3. FactFits(File, [what |-> decorator, home |-> Here.home, names |-> names])
    BY <1>1, <2>2 DEF FactFits, ClassFacts
  <2>4. decorator \in FactKinds /\ names \in Paths
    BY ListsArePaths DEF FactKinds
  <2>. QED BY <2>1, <2>2, <2>3, <2>4, NotedFits
<1>3. ASSUME NEW name \in Names, NEW handlers \in Lists, RoutesVariable(name, handlers)
      PROVE  Typed' /\ Walked'
  <2>1. Note("routes", 0, <<name>> \o handlers)
    BY <1>3 DEF RoutesVariable
  <2>2. <<name>> \o handlers \in Paths /\ Len(<<name>> \o handlers) >= 1
    <3>1. <<name>> \in Seq(Words) /\ handlers \in Seq(Words)
      BY ListsArePaths DEF Paths
    <3>. HIDE DEF Words
    <3>. QED BY <3>1 DEF Paths
  <2>. DEFINE names == <<name>> \o handlers
  <2>. HIDE DEF names
  <2>3. Len(File.homes) \in Nat
    BY <1>1, Collection
  <2>4. FactFits(File, [what |-> "routes", home |-> 0, names |-> names])
    BY <1>1, <2>2, <2>3 DEF FactFits, ClassFacts, names
  <2>5. "routes" \in FactKinds
    BY DEF FactKinds
  <2>. QED BY <2>1, <2>2, <2>4, <2>5, NotedFits DEF names
<1>. QED BY <1>2, <1>3 DEF TypeScriptFact, ClassFacts

\* What a step of the walk declares comes after what was declared.
DeclaresMore ==
    /\ language' = language /\ finished' = finished
    /\ \E s \in Seq(SymbolSet) : symbols' = symbols \o s

(* A handler that collects symbols declares them after those there were.    *)
LEMMA MoreDeclared ==
  ASSUME Typed, symbols' \in Seq(SymbolSet), NEW Y, NEW s \in Seq(Y), NEW h, NEW r, NEW p, Collect(s, h, r, p)
  PROVE  DeclaresMore
<1>1. language' = language /\ finished' = finished /\ symbols' = symbols \o s
  BY DEF Collect
<1>2. symbols \in Seq(SymbolSet)
  BY DEF Typed
<1>. DEFINE X == SymbolSet
<1>. HIDE DEF X
<1>3. ASSUME NEW t \in Seq(X), t \o s \in Seq(X) PROVE s \in Seq(X)
  <2>1. \A i \in 1 .. Len(s) : s[i] = (t \o s)[Len(t) + i] /\ Len(t) + i \in 1 .. Len(t \o s)
    OBVIOUS
  <2>2. \A i \in 1 .. Len(s) : s[i] \in X
    BY <1>3, <2>1
  <2>. QED BY <2>2
<1>4. s \in Seq(X)
  BY <1>1, <1>2, <1>3 DEF X
<1>. QED BY <1>1, <1>4 DEF DeclaresMore, X

(* A handler that collects no symbol leaves those there were.               *)
LEMMA NoneDeclared ==
  ASSUME Typed, symbols' \in Seq(SymbolSet), NEW h, NEW r, NEW p, Collect(<<>>, h, r, p)
  PROVE  DeclaresMore
<1>1. <<>> \in Seq(SymbolSet)
  OBVIOUS
<1>. QED BY <1>1, MoreDeclared

(* A handler that collects one symbol declares it after those there were.   *)
LEMMA OneDeclared ==
  ASSUME Typed, symbols' \in Seq(SymbolSet), NEW x, NEW h, NEW r, NEW p, Collect(<<x>>, h, r, p)
  PROVE  DeclaresMore
<1>1. <<x>> \in Seq({x})
  OBVIOUS
<1>. QED BY <1>1, MoreDeclared

(* A step that leaves the symbols alone declares nothing.                   *)
LEMMA SameDeclared ==
  ASSUME Typed, language' = language, finished' = finished, symbols' = symbols
  PROVE  DeclaresMore
<1>1. symbols \in Seq(SymbolSet) /\ <<>> \in Seq(SymbolSet)
  BY DEF Typed
<1>2. symbols \o <<>> = symbols
  BY <1>1
<1>. QED BY <1>1, <1>2 DEF DeclaresMore

(* A handler of the TypeScript walk declares one symbol or none.            *)
LEMMA TypeScriptDeclares ==
  ASSUME Typed, symbols' \in Seq(SymbolSet), TypeScriptNext
  PROVE  DeclaresMore
<1>1. ASSUME NEW name \in Names, NEW extends \in Lists, NEW implements \in Lists,
             NEW decorators \in Lists, ClassDeclaration(name, extends, implements, decorators)
      PROVE  DeclaresMore
  <2>1. PICK x, h, r, p : Collect(<<x>>, h, r, p)
    BY <1>1 DEF ClassDeclaration
  <2>. QED BY <2>1, OneDeclared
<1>2. ASSUME NEW name \in Names, InterfaceDeclaration(name) PROVE DeclaresMore
  <2>1. PICK x, h, r, p : Collect(<<x>>, h, r, p)
    BY <1>2 DEF InterfaceDeclaration
  <2>. QED BY <2>1, OneDeclared
<1>3. ASSUME NEW kind \in {"method", "constructor"}, NEW name \in Names, NEW print \in Prints,
             NEW decorators \in Lists, MethodDefinition(kind, name, print, decorators)
      PROVE  DeclaresMore
  <2>1. PICK x, h, r, p : Collect(<<x>>, h, r, p)
    BY <1>3 DEF MethodDefinition
  <2>. QED BY <2>1, OneDeclared
<1>4. ASSUME NEW name \in Names, NEW print \in Prints, FunctionDeclaration(name, print)
      PROVE  DeclaresMore
  <2>1. PICK x, h, r, p : Collect(<<x>>, h, r, p)
    BY <1>4 DEF FunctionDeclaration
  <2>. QED BY <2>1, OneDeclared
<1>5. ASSUME NEW name \in Names, NEW decorators \in Lists, FieldDefinition(name, decorators)
      PROVE  DeclaresMore
  <2>1. PICK h, r, p : Collect(<<>>, h, r, p)
    BY <1>5 DEF FieldDefinition
  <2>. QED BY <2>1, NoneDeclared
<1>6. ASSUME NEW kind \in {"imports", "exports"}, NEW name \in Names, ModuleStatement(kind, name)
      PROVE  DeclaresMore
  <2>1. PICK h, r, p : Collect(<<>>, h, r, p)
    BY <1>6 DEF ModuleStatement
  <2>. QED BY <2>1, NoneDeclared
<1>7. ASSUME NEW name \in Names, LocalExport(name) PROVE DeclaresMore
  <2>1. PICK h, r, p : Collect(<<>>, h, r, p)
    BY <1>7 DEF LocalExport
  <2>. QED BY <2>1, NoneDeclared
<1>8. ASSUME NEW kind \in {"calls", "constructs"}, NEW name \in Names, CallOrNew(kind, name)
      PROVE  DeclaresMore
  <2>1. PICK h, r, p : Collect(<<>>, h, r, p)
    BY <1>8 DEF CallOrNew
  <2>. QED BY <2>1, NoneDeclared
<1>9. ASSUME NEW name \in Names, TypeAnnotation(name) PROVE DeclaresMore
  <2>1. PICK h, r, p : Collect(<<>>, h, r, p)
    BY <1>9 DEF TypeAnnotation
  <2>. QED BY <2>1, NoneDeclared
<1>10. ASSUME CloseNode PROVE DeclaresMore
  BY <1>10, SameDeclared DEF CloseNode
<1>. QED BY <1>1, <1>2, <1>3, <1>4, <1>5, <1>6, <1>7, <1>8, <1>9, <1>10 DEF TypeScriptNext

(* A handler of the C# walk declares one symbol or none, an enum its        *)
(* members too, and a field declaration several fields.                     *)
LEMMA CSharpDeclares ==
  ASSUME Typed, symbols' \in Seq(SymbolSet), CSharpNext
  PROVE  DeclaresMore
<1>1. ASSUME NEW name \in Names, FileScopedNamespace(name) \/ BlockNamespace(name)
      PROVE  DeclaresMore
  <2>1. PICK x, h, r, p : Collect(<<x>>, h, r, p)
    BY <1>1 DEF FileScopedNamespace, BlockNamespace, PushNamespace
  <2>. QED BY <2>1, OneDeclared
<1>2. ASSUME NEW name \in Names, UsingDirective(name) PROVE DeclaresMore
  <2>1. PICK h, r, p : Collect(<<>>, h, r, p)
    BY <1>2 DEF UsingDirective
  <2>. QED BY <2>1, NoneDeclared
<1>3. ASSUME NEW name \in Names, NEW kind \in TypeKinds, NEW partial \in BOOLEAN,
             NEW print \in Prints, NEW bases \in Lists,
             TypeDeclaration(kind, name, partial, print, bases)
      PROVE  DeclaresMore
  <2>1. PICK x, h, r, p : Collect(<<x>>, h, r, p)
    BY <1>3 DEF TypeDeclaration
  <2>. QED BY <2>1, OneDeclared
<1>4. ASSUME NEW name \in Names, NEW members \in Lists, EnumDeclaration(name, members)
      PROVE  DeclaresMore
  <2>. DEFINE path == CsQualified(name)
              enum == Declared(<<name>>, path, "enum", NoPrint, NoOrdinal, PlainKey(path))
              field(m) == Declared(<<members[m]>>, path \o <<members[m]>>, "field", NoPrint,
                                   NoOrdinal, PlainKey(path \o <<members[m]>>))
              fields == [m \in 1 .. Len(members) |-> field(m)]
              s == <<enum>> \o fields
              Y == {enum} \union {field(m) : m \in 1 .. Len(members)}
  <2>1. PICK h, r, p : Collect(s, h, r, p)
    BY <1>4 DEF EnumDeclaration
  <2>2. Len(members) \in Nat
    BY ListsArePaths DEF Paths
  <2>. HIDE DEF enum, field
  <2>3. s \in Seq(Y)
    <3>1. fields \in Seq(Y) /\ <<enum>> \in Seq(Y)
      BY <2>2
    <3>. HIDE DEF Y, fields
    <3>. QED BY <3>1
  <2>. HIDE DEF s, Y
  <2>. QED BY <2>1, <2>3, MoreDeclared
<1>5. ASSUME NEW name \in Names, NEW kind \in MemberKinds, NEW partial \in BOOLEAN,
             NEW print \in Prints, NEW uses \in Lists \union {<<>>},
             Member(kind, name, partial, print, uses)
      PROVE  DeclaresMore
  <2>1. PICK x, h, r, p : Collect(<<x>>, h, r, p)
    BY <1>5 DEF Member
  <2>. QED BY <2>1, OneDeclared
<1>6. ASSUME NEW declarators \in {l \in Lists : l # <<>>}, NEW uses \in Lists,
             FieldDeclaration(declarators, uses)
      PROVE  DeclaresMore
  <2>. DEFINE path(d) == CsQualified(declarators[d])
              field(d) == Declared(<<declarators[d]>>, path(d), "field", NoPrint, NoOrdinal,
                                   PlainKey(path(d)))
              s == [d \in 1 .. Len(declarators) |-> field(d)]
              Y == {field(d) : d \in 1 .. Len(declarators)}
  <2>1. PICK h, r, p : Collect(s, h, r, p)
    BY <1>6 DEF FieldDeclaration
  <2>2. Len(declarators) \in Nat
    BY ListsArePaths DEF Paths
  <2>. HIDE DEF field
  <2>3. s \in Seq(Y)
    BY <2>2
  <2>. HIDE DEF s, Y
  <2>. QED BY <2>1, <2>3, MoreDeclared
<1>7. ASSUME NEW kind \in {"calls", "constructs", "reads"}, NEW name \in Names,
             Expression(kind, name)
      PROVE  DeclaresMore
  <2>1. PICK h, r, p : Collect(<<>>, h, r, p)
    BY <1>7 DEF Expression
  <2>. QED BY <2>1, NoneDeclared
<1>8. ASSUME TargetTypedNew PROVE DeclaresMore
  <2>1. PICK h, r, p : Collect(<<>>, h, r, p)
    BY <1>8 DEF TargetTypedNew
  <2>. QED BY <2>1, NoneDeclared
<1>9. ASSUME CloseDeclaration PROVE DeclaresMore
  BY <1>9, SameDeclared DEF CloseDeclaration
<1>. QED BY <1>1, <1>2, <1>3, <1>4, <1>5, <1>6, <1>7, <1>8, <1>9 DEF CSharpNext

(* A step of the walk, of either language, keeps what is collected typed    *)
(* and fitting the file.                                                    *)
LEMMA WalkSteps ==
  ASSUME ExtractorInv, ~finished, Walk
  PROVE  Typed' /\ CSharpTyped' /\ Walked' /\ FragmentsCounted' /\ DeclaresMore
<1>1. Typed /\ CSharpTyped /\ Walked /\ FragmentsCounted
  BY DEF ExtractorInv
<1>2. CASE CSharpNext /\ UNCHANGED frameworkVars
  <2>1. Typed' /\ CSharpTyped' /\ Walked' /\ FragmentsCounted'
    BY <1>1, <1>2, CSharpWalks DEF CSharpGoesOn
  <2>2. symbols' \in Seq(SymbolSet)
    BY <2>1 DEF Typed
  <2>. QED BY <1>1, <1>2, <2>1, <2>2, CSharpDeclares
<1>3. CASE TypeScriptNext /\ UNCHANGED <<csharpVars, frameworkVars>>
  <2>1. Typed' /\ Walked'
    BY <1>1, <1>3, TypeScriptWalks
  <2>2. symbols' \in Seq(SymbolSet)
    BY <2>1 DEF Typed
  <2>3. DeclaresMore
    BY <1>1, <1>3, <2>2, TypeScriptDeclares
  <2>4. language' = "typescript"
    BY <1>3, <2>3 DEF TypeScriptNext, DeclaresMore
  <2>5. CSharpTyped'
    BY <1>1, <1>3 DEF CSharpTyped, csharpVars
  <2>6. FragmentsCounted'
    BY <2>4 DEF FragmentsCounted
  <2>. QED BY <2>1, <2>3, <2>5, <2>6
<1>4. CASE (CSharpFact(Lists) \/ TypeScriptFact(Lists)) /\ UNCHANGED csharpVars
  <2>1. Typed' /\ Walked'
    BY <1>1, <1>4, CSharpFacts, TypeScriptFacts
  <2>2. UNCHANGED shared
    BY <1>4 DEF CSharpFact, TypeScriptFact, ApiController, MethodAttribute, DbSetMember, Invocation,
                DecoratedClass, RoutesVariable, Note
  <2>3. DeclaresMore
    BY <1>1, <2>2, SameDeclared DEF shared
  <2>4. CSharpTyped'
    BY <1>1, <1>4 DEF CSharpTyped, csharpVars
  <2>5. FragmentsCounted'
    BY <1>1, <1>4, <2>2 DEF FragmentsCounted, Fragment, csharpVars, shared
  <2>. QED BY <2>1, <2>3, <2>4, <2>5
<1>. QED BY <1>2, <1>3, <1>4 DEF Walk

(* A step of the walk keeps the invariant: the file is not finished, so     *)
(* that what is promised of the result is not yet asked.                    *)
LEMMA WalkKeeps ==
  ASSUME ExtractorInv, ~finished, Walk
  PROVE  ExtractorInv'
<1>1. Typed' /\ CSharpTyped' /\ Walked' /\ FragmentsCounted' /\ ~finished'
  BY WalkSteps DEF DeclaresMore
<1>. QED BY <1>1 DEF ExtractorInv, KeysUnique, EveryCandidateLinked, OnlyFieldsDangle, RolesAreEarned

(* A step of the walk moves no key: the keys that disambiguation gives to   *)
(* what was declared above are the first of those it gives after the step.  *)
LEMMA WalkKeepsKeys ==
  ASSUME ExtractorInv, ~finished, Walk
  PROVE  IsPrefix(Disambiguated(symbols), Disambiguated(symbols'))
<1>1. PICK s \in Seq(SymbolSet) : symbols' = symbols \o s
  BY WalkSteps DEF DeclaresMore
<1>2. symbols \in Seq(SymbolSet)
  BY DEF ExtractorInv, Typed
<1>. QED BY <1>1, <1>2, KeysStay

-----------------------------------------------------------------------------
(* Containment follows from the invariant.                                  *)

(* A key is told by its parts.                                              *)
LEMMA KeyParts ==
  ASSUME NEW p, NEW o, NEW f, NEW q, NEW u, NEW g, LocalKeyFor(p, o, f) = LocalKeyFor(q, u, g)
  PROVE  p = q /\ o = u /\ (o = NoOrdinal => f = g)
<1>1. \A path, ordinal, print :
         /\ LocalKeyFor(path, ordinal, print).path = path
         /\ LocalKeyFor(path, ordinal, print).ordinal = ordinal
         /\ ordinal = NoOrdinal => LocalKeyFor(path, ordinal, print).print = print
  BY DEF LocalKeyFor, Key
<1>. QED BY <1>1

(* The symbol of a key that is its alone.                                   *)
LEMMA AloneAt ==
  ASSUME Len(symbols) \in Nat, NEW i \in 1 .. Len(symbols), symbols[i].key # FileKey,
         \A j \in 1 .. Len(symbols) : symbols[j].key = symbols[i].key => j = i
  PROVE  SymbolAt(symbols[i].key) = i
<1>. DEFINE keyed == {j \in 1 .. Len(symbols) : symbols[j].key = symbols[i].key}
<1>1. keyed = {i} /\ keyed \in SUBSET (1 .. Len(symbols)) /\ keyed # {}
  OBVIOUS
<1>2. Max(keyed) = i
  BY <1>1, Greatest
<1>. HIDE DEF keyed
<1>3. SymbolAt(symbols[i].key) = Max(keyed)
  BY <1>1 DEF SymbolAt, keyed
<1>. QED BY <1>2, <1>3

(* The invariant implies that a declaration hangs from the one it is        *)
(* written in.                                                              *)
LEMMA ContainmentFollows ==
  ASSUME ExtractorInv
  PROVE  ContainmentIsLexical
<1>. SUFFICES ASSUME language = "csharp", ~finished, NEW i \in 1 .. Len(symbols),
                     homes[i] # 0, HomeIsDistinct(homes[i])
              PROVE  \E e \in 1 .. Len(rels) :
                        /\ rels[e].kind = "contains"
                        /\ rels[e].target = LocalTarget(symbols[i].key)
                        /\ SymbolAt(rels[e].source) = homes[i]
  BY DEF ContainmentIsLexical
<1>1. Typed /\ Walked /\ FragmentsCounted
  BY DEF ExtractorInv
<1>. DEFINE h == homes[i]
<1>2. h \in 1 .. Len(symbols) /\ Len(symbols) \in Nat
  <2>1. Len(homes) = Len(symbols) /\ Len(symbols) \in Nat /\ h \in Nat
    BY <1>1, Collection DEF Walked
  <2>2. h < i
    BY <1>1 DEF Walked, SymbolFits, File
  <2>. QED BY <2>1, <2>2
<1>3. \A j \in 1 .. Len(symbols) :
         /\ symbols[j].path # <<>>
         /\ symbols[j].key = LocalKeyFor(symbols[j].path, symbols[j].ordinal, symbols[j].print)
  BY <1>1 DEF Walked, SymbolFits, File
<1>4. PICK e \in 1 .. Len(rels) : rels[e] = ContainsEdge(symbols[h].key, symbols[i].key)
  BY <1>1 DEF Walked, SymbolFits, Contained, File
<1>5. /\ rels[e].kind = "contains" /\ rels[e].target = LocalTarget(symbols[i].key)
      /\ rels[e].source = symbols[h].key
  BY <1>4 DEF ContainsEdge, Edge
<1>6. ASSUME NEW j \in 1 .. Len(symbols), symbols[j].key = symbols[h].key PROVE j = h
  <2>1. /\ symbols[j].path = symbols[h].path /\ symbols[j].ordinal = symbols[h].ordinal
        /\ symbols[h].ordinal = NoOrdinal => symbols[j].print = symbols[h].print
    <3>1. LocalKeyFor(symbols[j].path, symbols[j].ordinal, symbols[j].print)
             = LocalKeyFor(symbols[h].path, symbols[h].ordinal, symbols[h].print)
      BY <1>2, <1>3, <1>6
    <3>. QED BY <3>1, KeyParts
  <2>2. CASE symbols[h].ordinal = NoOrdinal
    BY <2>1, <2>2 DEF HomeIsDistinct
  <2>3. CASE symbols[h].ordinal # NoOrdinal
    BY <1>1, <1>2, <2>1, <2>3 DEF FragmentsCounted, Fragment
  <2>. QED BY <2>2, <2>3
<1>7. symbols[h].key # FileKey
  <2>1. symbols[h].path # <<>>
        /\ symbols[h].key = LocalKeyFor(symbols[h].path, symbols[h].ordinal, symbols[h].print)
    BY <1>2, <1>3
  <2>. QED BY <2>1, KeysTell
<1>8. SymbolAt(symbols[h].key) = h
  BY <1>2, <1>6, <1>7, AloneAt
<1>. QED BY <1>5, <1>8

-----------------------------------------------------------------------------
(* Recognition: what it works on, and what its steps do to it.              *)

\* What recognition works on: the file's symbols first, a role set for each
\* symbol, and edges that hang from what is there.
RoleKinds == {"route", "controller", "component", "decorator", "service", "repository"}
FoundRecords ==
    [symbols : Seq(SymbolSet), rels : Seq(EdgeSet), main : BOOLEAN, roles : Seq(SUBSET RoleKinds)]

FileOf(found) ==
    [language |-> language, symbols |-> found.symbols, homes |-> homes, rels |-> found.rels]

FoundFits(found) ==
    /\ Len(symbols) <= Len(found.symbols)
    /\ \A i \in 1 .. Len(symbols) : found.symbols[i] = symbols[i]
    /\ Len(found.roles) = Len(found.symbols)
    /\ \A e \in 1 .. Len(found.rels) : Anchored(FileOf(found), found.rels[e].source)
    /\ found.main => Anchored(FileOf(found), MainKey)

FoundSet == {found \in FoundRecords : FoundFits(found)}

\* Recognition after one more thing: all that was found is there still.
FoundMore(new, old) ==
    /\ new \in FoundSet
    /\ Len(old.symbols) <= Len(new.symbols)
    /\ \A i \in 1 .. Len(old.symbols) : new.symbols[i] = old.symbols[i]

SameRoles(new, old) == \A i \in 1 .. Len(symbols) : new.roles[i] = old.roles[i]

(* A key that an edge could hang from is still there when more symbols are  *)
(* found.                                                                   *)
LEMMA StaysThere ==
  ASSUME Typed, Walked, NEW old \in FoundSet, NEW new \in FoundRecords,
         Len(old.symbols) <= Len(new.symbols),
         \A i \in 1 .. Len(old.symbols) : new.symbols[i] = old.symbols[i],
         NEW key, Anchored(FileOf(old), key)
  PROVE  Anchored(FileOf(new), key)
<1>1. /\ Len(symbols) \in Nat /\ Len(homes) = Len(symbols) /\ Len(symbols) <= Len(old.symbols)
      /\ Len(old.symbols) \in Nat /\ Len(new.symbols) \in Nat
  BY Collection DEF Walked, FoundSet, FoundFits, FoundRecords
<1>2. /\ FileOf(old).symbols = old.symbols /\ FileOf(new).symbols = new.symbols
      /\ FileOf(old).homes = homes /\ FileOf(new).homes = homes
      /\ FileOf(old).language = language /\ FileOf(new).language = language
  BY DEF FileOf
<1>3. \A i \in 1 .. Len(homes) : new.symbols[i] = old.symbols[i]
  BY <1>1
<1>4. ASSUME NEW i \in 1 .. Len(old.symbols), old.symbols[i].key = key
      PROVE  \E j \in 1 .. Len(new.symbols) : new.symbols[j].key = key
  <2>1. i \in 1 .. Len(new.symbols) /\ new.symbols[i] = old.symbols[i]
    BY <1>1
  <2>. QED BY <1>4, <2>1
<1>. QED BY <1>2, <1>3, <1>4 DEF Anchored

(* Recognition that adds edges from what is there loses nothing and gives   *)
(* nobody a role.                                                           *)
LEMMA EdgesAdded ==
  ASSUME Typed, Walked, NEW found \in FoundSet, NEW edges \in Seq(EdgeSet),
         \A e \in 1 .. Len(edges) : Anchored(FileOf(found), edges[e].source)
  PROVE  FoundMore(AddEdges(found, edges), found) /\ SameRoles(AddEdges(found, edges), found)
<1>. DEFINE new == AddEdges(found, edges)
<1>1. /\ found \in FoundRecords /\ FoundFits(found) /\ found.rels \in Seq(EdgeSet)
      /\ found.symbols \in Seq(SymbolSet) /\ found.roles \in Seq(SUBSET RoleKinds)
  BY DEF FoundSet, FoundRecords
<1>2. found.rels \o edges \in Seq(EdgeSet)
  BY <1>1
<1>3. /\ new.symbols = found.symbols /\ new.rels = found.rels \o edges /\ new.main = found.main
      /\ new.roles = found.roles
  BY <1>1 DEF AddEdges, FoundRecords
<1>4. new \in FoundRecords
  BY <1>1, <1>2 DEF AddEdges, FoundRecords
<1>. HIDE DEF new
<1>5. Len(found.symbols) <= Len(new.symbols)
  BY <1>1, <1>3
<1>6. \A key : Anchored(FileOf(found), key) => Anchored(FileOf(new), key)
  BY <1>3, <1>4, <1>5, StaysThere
<1>7. Longer(found.rels \o edges, found.rels, edges, EdgeSet)
  BY <1>1, Lengthened
<1>8. ASSUME NEW e \in 1 .. Len(new.rels) PROVE Anchored(FileOf(new), new.rels[e].source)
  <2>1. CASE e \in 1 .. Len(found.rels)
    BY <1>1, <1>3, <1>6, <1>7, <2>1 DEF FoundFits, Longer
  <2>2. CASE e \notin 1 .. Len(found.rels)
    <3>1. PICK k \in 1 .. Len(edges) : e = Len(found.rels) + k
      BY <1>3, <1>7, <2>2 DEF Longer
    <3>2. new.rels[e] = edges[k]
      BY <1>3, <1>7, <3>1 DEF Longer
    <3>. QED BY <1>6, <3>2
  <2>. QED BY <2>1, <2>2
<1>9. FoundFits(new)
  BY <1>1, <1>3, <1>6, <1>8 DEF FoundFits
<1>. QED BY <1>3, <1>4, <1>5, <1>9 DEF FoundMore, FoundSet, SameRoles, new

(* Recognition that tags one symbol gives the roles to that symbol alone.   *)
LEMMA RolesTagged ==
  ASSUME Typed, Walked, NEW found \in FoundSet, NEW j, NEW some \in SUBSET RoleKinds
  PROVE  /\ FoundMore(Tagged(found, j, some), found)
         /\ Tagged(found, j, some).symbols = found.symbols
         /\ \A i \in 1 .. Len(symbols) :
               Tagged(found, j, some).roles[i] =
                  IF i = j THEN found.roles[i] \union some ELSE found.roles[i]
<1>. DEFINE new == Tagged(found, j, some)
            with == [n \in 1 .. Len(found.roles) |->
                        IF n = j THEN found.roles[n] \union some ELSE found.roles[n]]
<1>1. /\ found \in FoundRecords /\ FoundFits(found) /\ found.rels \in Seq(EdgeSet)
      /\ found.symbols \in Seq(SymbolSet) /\ found.roles \in Seq(SUBSET RoleKinds)
      /\ Len(found.symbols) \in Nat /\ Len(symbols) \in Nat /\ Len(found.roles) \in Nat
  BY Collection DEF FoundSet, FoundRecords
<1>2. with \in Seq(SUBSET RoleKinds) /\ Len(with) = Len(found.roles)
  <2>1. \A n \in 1 .. Len(found.roles) : found.roles[n] \in SUBSET RoleKinds
    BY <1>1
  <2>2. \A n \in 1 .. Len(found.roles) : with[n] \in SUBSET RoleKinds
    BY <2>1
  <2>. QED BY <1>1, <2>2
<1>3. new = [found EXCEPT !.roles = with]
  BY DEF Tagged
<1>. HIDE DEF with, new
<1>4. /\ new.symbols = found.symbols /\ new.rels = found.rels /\ new.main = found.main
      /\ new.roles = with /\ new \in FoundRecords
  BY <1>1, <1>2, <1>3 DEF FoundRecords
<1>5. \A key : Anchored(FileOf(found), key) => Anchored(FileOf(new), key)
  BY <1>1, <1>4, StaysThere
<1>6. FoundFits(new)
  BY <1>1, <1>2, <1>4, <1>5 DEF FoundFits
<1>7. \A i \in 1 .. Len(symbols) :
         with[i] = IF i = j THEN found.roles[i] \union some ELSE found.roles[i]
  <2>1. \A i \in 1 .. Len(symbols) : i \in 1 .. Len(found.roles)
    BY <1>1 DEF FoundFits
  <2>. QED BY <2>1 DEF with
<1>8. FoundMore(new, found)
  BY <1>1, <1>4, <1>6 DEF FoundMore, FoundSet
<1>. QED BY <1>4, <1>7, <1>8 DEF new

(* Recognition that adds a symbol gives nobody a role, and edges may hang   *)
(* from the symbol.                                                         *)
LEMMA SymbolPushed ==
  ASSUME Typed, Walked, NEW found \in FoundSet, NEW symbol \in SymbolSet
  PROVE  /\ FoundMore(Pushed(found, symbol), found)
         /\ SameRoles(Pushed(found, symbol), found)
         /\ Pushed(found, symbol).rels = found.rels
         /\ Anchored(FileOf(Pushed(found, symbol)), symbol.key)
<1>. DEFINE new == Pushed(found, symbol)
            n == Len(found.symbols)
<1>1. /\ found \in FoundRecords /\ FoundFits(found) /\ found.rels \in Seq(EdgeSet)
      /\ found.symbols \in Seq(SymbolSet) /\ found.roles \in Seq(SUBSET RoleKinds)
      /\ n \in Nat /\ Len(symbols) \in Nat /\ Len(found.roles) = n /\ Len(symbols) <= n
  BY Collection DEF FoundSet, FoundRecords, FoundFits
<1>2. /\ new.symbols = Append(found.symbols, symbol) /\ new.rels = found.rels
      /\ new.main = found.main /\ new.roles = Append(found.roles, {})
  BY <1>1 DEF Pushed, FoundRecords
<1>3. new \in FoundRecords
  <2>1. {} \in SUBSET RoleKinds
    OBVIOUS
  <2>2. Append(found.symbols, symbol) \in Seq(SymbolSet) /\ Append(found.roles, {}) \in Seq(SUBSET RoleKinds)
    <3>. HIDE DEF RoleKinds
    <3>. QED BY <1>1, <2>1
  <2>. QED BY <1>1, <2>2 DEF Pushed, FoundRecords
<1>. HIDE DEF new
<1>4. /\ Len(new.symbols) = n + 1 /\ Len(new.roles) = n + 1 /\ new.symbols[n + 1] = symbol
      /\ \A i \in 1 .. n : new.symbols[i] = found.symbols[i] /\ new.roles[i] = found.roles[i]
  BY <1>1, <1>2
<1>5. n <= Len(new.symbols) /\ n + 1 \in 1 .. Len(new.symbols)
      /\ \A i \in 1 .. Len(symbols) : i \in 1 .. n
  BY <1>1, <1>4
<1>6. \A key : Anchored(FileOf(found), key) => Anchored(FileOf(new), key)
  BY <1>3, <1>4, <1>5, StaysThere DEF n
<1>7. FoundFits(new)
  BY <1>1, <1>2, <1>4, <1>5, <1>6 DEF FoundFits
<1>8. Anchored(FileOf(new), symbol.key)
  BY <1>4, <1>5 DEF Anchored, FileOf
<1>9. FoundMore(new, found) /\ SameRoles(new, found)
  BY <1>3, <1>4, <1>5, <1>7 DEF FoundMore, FoundSet, SameRoles, n
<1>. QED BY <1>2, <1>8, <1>9 DEF new

(* One step of recognition after another.                                   *)
LEMMA FoundMoreYet ==
  ASSUME Typed, NEW a \in FoundSet, NEW b, NEW c, FoundMore(b, a), FoundMore(c, b)
  PROVE  /\ FoundMore(c, a) /\ b \in FoundSet
         /\ SameRoles(b, a) /\ SameRoles(c, b) => SameRoles(c, a)
<1>1. Len(a.symbols) \in Nat /\ Len(b.symbols) \in Nat /\ Len(c.symbols) \in Nat
  BY DEF FoundSet, FoundRecords, FoundMore
<1>. QED BY <1>1 DEF FoundMore, SameRoles

(* A top-level call has the synthetic Main to hang from.                    *)
LEMMA MainEnsured ==
  ASSUME Typed, Walked, NEW found \in FoundSet
  PROVE  /\ FoundMore(EnsureMain(found), found) /\ SameRoles(EnsureMain(found), found)
         /\ Anchored(FileOf(EnsureMain(found)), MainKey)
<1>1. CASE found.main
  BY <1>1 DEF EnsureMain, FoundMore, SameRoles, FoundSet, FoundFits, FoundRecords
<1>2. CASE ~found.main
  <2>. DEFINE symbol == Declared(<<Main>>, <<Program, Main>>, "method", NoPrint, NoOrdinal, MainKey)
              more == Pushed(found, symbol)
              new == EnsureMain(found)
  <2>1. symbol \in SymbolSet /\ symbol.key = MainKey
    <3>1. <<Main>> \in Paths /\ <<Program, Main>> \in Paths
      <4>1. Program \in Words /\ Main \in Words
        BY ListsArePaths
      <4>. HIDE DEF Words
      <4>. QED BY <4>1 DEF Paths
    <3>2. MainKey \in KeySet /\ NoOrdinal \in Int /\ "method" \in SymbolKinds /\ NoPrint \in AllPrints
      BY <3>1, KeysAreKeys DEF MainKey, NoOrdinal, SymbolKinds, AllPrints
    <3>3. symbol \in SymbolSet
      BY <3>1, <3>2, MakesSymbol
    <3>. QED BY <3>3 DEF Declared
  <2>. HIDE DEF symbol
  <2>2. /\ FoundMore(more, found) /\ SameRoles(more, found) /\ Anchored(FileOf(more), MainKey)
    BY <2>1, SymbolPushed
  <2>3. new = [more EXCEPT !.main = TRUE]
    BY <1>2 DEF EnsureMain, symbol
  <2>. HIDE DEF more, new
  <2>4. more \in FoundRecords /\ FoundFits(more)
    BY <2>2 DEF FoundMore, FoundSet
  <2>5. /\ new \in FoundRecords /\ new.symbols = more.symbols /\ new.roles = more.roles
        /\ new.rels = more.rels
    BY <2>3, <2>4 DEF FoundRecords
  <2>6. FileOf(new) = FileOf(more)
    BY <2>5 DEF FileOf
  <2>7. FoundFits(new)
    BY <2>2, <2>4, <2>5, <2>6 DEF FoundFits
  <2>8. FoundMore(new, found) /\ SameRoles(new, found) /\ Anchored(FileOf(new), MainKey)
    BY <2>2, <2>5, <2>6, <2>7 DEF FoundMore, FoundSet, SameRoles
  <2>. QED BY <2>8 DEF new
<1>. QED BY <1>1, <1>2 DEF FoundSet, FoundRecords

\* What a fact earns the symbol at i.
Routes == {"http", "function"}
Gain(fact, i) ==
    (IF fact.home = i /\ fact.what \in Routes THEN {"route"} ELSE {})
    \union (IF \/ fact.what = "api" /\ fact.home = i
               \/ /\ fact.what \in Routes /\ homes[fact.home] = i
                  /\ symbols[i].name[1] \in Controllers
            THEN {"controller"} ELSE {})
    \union (IF fact.home = i THEN RolesOf(fact.what, symbols[i].name) ELSE {})

\* A fact recognized: more is found, and each symbol told apart gains its roles.
Gained(new, old, fact) ==
    /\ FoundMore(new, old)
    /\ \A i \in 1 .. Len(symbols) : Recognizable(i) => new.roles[i] = old.roles[i] \union Gain(fact, i)

(* The least index of a set is the one that no smaller index of the set     *)
(* comes before.                                                            *)
LEMMA FirstOf ==
  ASSUME NEW n \in Nat, NEW S \in SUBSET (1 .. n), NEW i \in S, \A j \in 1 .. i : j \in S => j = i
  PROVE  Min(S) = i
<1>1. S \in SUBSET Nat /\ S # {}
  OBVIOUS
<1>2. Min(S) \in S /\ \A x \in S : Min(S) <= x
  BY <1>1, Least
<1>. DEFINE m == Min(S)
<1>. HIDE DEF m
<1>3. m \in S /\ m \in 1 .. n /\ i \in 1 .. n /\ m <= i
  BY <1>2 DEF m
<1>4. m \in 1 .. i
  BY <1>3
<1>5. m = i
  BY <1>3, <1>4
<1>. QED BY <1>5 DEF m

(* In C# a symbol with a key of its own takes a role of that key, and no    *)
(* other's.                                                                 *)
LEMMA RoleAdded ==
  ASSUME Typed, Walked, NEW found \in FoundSet, NEW h \in 1 .. Len(symbols), NEW role \in RoleKinds,
         language = "csharp"
  PROVE  /\ FoundMore(AddRole(found, h, role), found)
         /\ \A i \in 1 .. Len(symbols) : Recognizable(i) =>
               AddRole(found, h, role).roles[i] =
                  IF i = h THEN found.roles[i] \union {role} ELSE found.roles[i]
<1>. DEFINE S == {j \in 1 .. Len(found.symbols) : found.symbols[j].key = found.symbols[h].key}
            first == SelectInSeq(found.symbols, LAMBDA s : s.key = found.symbols[h].key)
<1>1. /\ found.symbols \in Seq(SymbolSet) /\ Len(found.symbols) \in Nat /\ Len(symbols) \in Nat
      /\ Len(symbols) <= Len(found.symbols) /\ Len(homes) = Len(symbols)
      /\ \A j \in 1 .. Len(symbols) : found.symbols[j] = symbols[j]
      /\ h \in 1 .. Len(found.symbols)
  <2>1. Len(symbols) \in Nat /\ Len(homes) = Len(symbols)
    BY Collection DEF Walked
  <2>2. found.symbols \in Seq(SymbolSet) /\ Len(found.symbols) \in Nat
    BY DEF FoundSet, FoundRecords
  <2>3. /\ Len(symbols) <= Len(found.symbols)
        /\ \A j \in 1 .. Len(symbols) : found.symbols[j] = symbols[j]
    BY DEF FoundSet, FoundFits
  <2>. QED BY <2>1, <2>2, <2>3
<1>2. h \in S /\ S \in SUBSET (1 .. Len(found.symbols)) /\ S \in SUBSET Nat
  BY <1>1
<1>3. first = Min(S)
  BY <1>2 DEF SelectInSeq
<1>4. AddRole(found, h, role) = Tagged(found, first, {role})
  BY DEF AddRole
<1>. HIDE DEF first
<1>5. ASSUME NEW i \in 1 .. Len(symbols), Recognizable(i) PROVE first = i <=> i = h
  <2>1. \A j \in 1 .. Len(symbols) : j # i => symbols[j].key # symbols[i].key
    BY <1>1, <1>5 DEF Recognizable
  <2>2. CASE i = h
    <3>1. \A j \in 1 .. i : j \in S => j = i
      BY <1>1, <2>1, <2>2
    <3>2. i \in S
      BY <1>2, <2>2
    <3>. HIDE DEF S
    <3>3. Min(S) = i
      BY <1>1, <1>2, <3>1, <3>2, FirstOf
    <3>. QED BY <1>3, <2>2, <3>3
  <2>3. CASE i # h
    <3>1. first \in S
      <4>. HIDE DEF S
      <4>. QED BY <1>2, <1>3, Least
    <3>2. found.symbols[i].key # found.symbols[h].key
      BY <1>1, <2>1, <2>3
    <3>. QED BY <2>3, <3>1, <3>2
  <2>. QED BY <2>2, <2>3
<1>. HIDE DEF S
<1>6. {role} \in SUBSET RoleKinds
  OBVIOUS
<1>7. /\ FoundMore(Tagged(found, first, {role}), found)
      /\ \A i \in 1 .. Len(symbols) :
            Tagged(found, first, {role}).roles[i] =
               IF i = first THEN found.roles[i] \union {role} ELSE found.roles[i]
  BY <1>6, RolesTagged, SMTT(30)
<1>. HIDE DEF Tagged, AddRole
<1>. QED BY <1>4, <1>5, <1>7

(* In TypeScript a class with a name of its own takes the roles of that     *)
(* name.                                                                    *)
LEMMA RolesApplied ==
  ASSUME Typed, Walked, NEW found \in FoundSet, NEW h \in 1 .. Len(symbols),
         symbols[h].kind = "class", NEW some \in SUBSET RoleKinds, language = "typescript"
  PROVE  /\ FoundMore(ApplyRoles(found, symbols[h].name, some), found)
         /\ ApplyRoles(found, symbols[h].name, some).symbols = found.symbols
         /\ \A i \in 1 .. Len(symbols) : Recognizable(i) =>
               ApplyRoles(found, symbols[h].name, some).roles[i] =
                  IF i = h THEN found.roles[i] \union some ELSE found.roles[i]
<1>. DEFINE name == symbols[h].name
            S == {j \in 1 .. Len(found.symbols) :
                     found.symbols[j].name = name /\ found.symbols[j].kind = "class"}
            first == SelectInSeq(found.symbols, LAMBDA s : s.name = name /\ s.kind = "class")
<1>1. /\ found.symbols \in Seq(SymbolSet) /\ Len(found.symbols) \in Nat /\ Len(symbols) \in Nat
      /\ Len(symbols) <= Len(found.symbols) /\ Len(homes) = Len(symbols)
      /\ \A j \in 1 .. Len(symbols) : found.symbols[j] = symbols[j]
      /\ h \in 1 .. Len(found.symbols)
  <2>1. Len(symbols) \in Nat /\ Len(homes) = Len(symbols)
    BY Collection DEF Walked
  <2>2. found.symbols \in Seq(SymbolSet) /\ Len(found.symbols) \in Nat
    BY DEF FoundSet, FoundRecords
  <2>3. /\ Len(symbols) <= Len(found.symbols)
        /\ \A j \in 1 .. Len(symbols) : found.symbols[j] = symbols[j]
    BY DEF FoundSet, FoundFits
  <2>. QED BY <2>1, <2>2, <2>3
<1>2. h \in S /\ S \in SUBSET (1 .. Len(found.symbols)) /\ S \in SUBSET Nat
  BY <1>1
<1>3. first = Min(S)
  BY <1>2 DEF SelectInSeq
<1>4. ApplyRoles(found, name, some) = Tagged(found, first, some)
  BY DEF ApplyRoles
<1>. HIDE DEF first
<1>5. ASSUME NEW i \in 1 .. Len(symbols), Recognizable(i) PROVE first = i <=> i = h
  <2>1. \A j \in 1 .. Len(symbols) : j # i => symbols[j].name # symbols[i].name
    BY <1>1, <1>5 DEF Recognizable
  <2>2. CASE i = h
    <3>1. \A j \in 1 .. i : j \in S => j = i
      BY <1>1, <2>1, <2>2
    <3>2. i \in S
      BY <1>2, <2>2
    <3>. HIDE DEF S
    <3>3. Min(S) = i
      BY <1>1, <1>2, <3>1, <3>2, FirstOf
    <3>. QED BY <1>3, <2>2, <3>3
  <2>3. CASE i # h
    <3>1. first \in S
      <4>. HIDE DEF S
      <4>. QED BY <1>2, <1>3, Least
    <3>2. found.symbols[i].name # name
      BY <1>1, <2>1, <2>3
    <3>. QED BY <2>3, <3>1, <3>2
  <2>. QED BY <2>2, <2>3
<1>. HIDE DEF S
<1>6. /\ FoundMore(Tagged(found, first, some), found)
      /\ Tagged(found, first, some).symbols = found.symbols
      /\ \A i \in 1 .. Len(symbols) :
            Tagged(found, first, some).roles[i] =
               IF i = first THEN found.roles[i] \union some ELSE found.roles[i]
  BY RolesTagged, SMTT(30)
<1>. HIDE DEF Tagged, ApplyRoles
<1>. QED BY <1>4, <1>5, <1>6

-----------------------------------------------------------------------------
(* Recognition: what each kind of fact does.                                *)

\* The edges of recognition.
FromOne(edges, source) ==
    edges \in Seq(EdgeSet) /\ \A e \in 1 .. Len(edges) : edges[e].source = source

(* A guess at a name, and an edge to the outside, are edges from their      *)
(* source.                                                                  *)
LEMMA GuessedEdges ==
  ASSUME NEW source \in KeySet, NEW kind \in EdgeKinds
  PROVE  /\ \A name \in Words : \A confidence \in {"high", "low"} :
               /\ Guess(source, kind, name, confidence) \in EdgeSet
               /\ Guess(source, kind, name, confidence).source = source
         /\ Outside(source, kind) \in EdgeSet /\ Outside(source, kind).source = source
<1>1. FileKey \in KeySet /\ <<>> \in Paths /\ \A name \in Words : <<name>> \in Paths
  <2>1. \A name \in Words : <<name>> \in Paths
    <3>. HIDE DEF Words
    <3>. QED BY DEF Paths
  <2>. QED BY <2>1, KeysAreKeys, ListsArePaths
<1>2. /\ \A name \in Words : NamedTarget(<<name>>) \in TargetSet
      /\ [to |-> "external", key |-> FileKey, text |-> <<>>] \in TargetSet
  BY <1>1 DEF NamedTarget, TargetSet, TargetKinds
<1>3. \A target \in TargetSet : \A confidence \in {"high", "low"} :
         Edge(source, kind, target, confidence) \in EdgeSet
         /\ Edge(source, kind, target, confidence).source = source
  BY DEF Edge, EdgeSet, Confidences
<1>. QED BY <1>2, <1>3 DEF Guess, Outside

(* The edges of a Map, Add or Use call hang from the source of the call.    *)
LEMMA CallEdgesFit ==
  ASSUME NEW what \in CallFacts, NEW source \in KeySet, NEW names \in Paths
  PROVE  FromOne(CallEdges(what, source, names), source)
<1>1. /\ Len(names) \in Nat /\ \A n \in 1 .. Len(names) : names[n] \in Words
      /\ names = <<>> \/ Len(names) >= 1
  BY DEF Paths
<1>2. /\ "handles_route" \in EdgeKinds /\ "registered_as" \in EdgeKinds
  BY DEF EdgeKinds
<1>3. /\ Min({1, Len(names)}) \in {1, Len(names)} /\ Min({1, Len(names)}) <= 1
      /\ Min({1, Len(names)}) <= Len(names)
      /\ Min({2, Len(names)}) \in {2, Len(names)} /\ Min({2, Len(names)}) <= Len(names)
  <2>1. {1, Len(names)} \in SUBSET Nat /\ {2, Len(names)} \in SUBSET Nat
    BY <1>1
  <2>2. Min({1, Len(names)}) \in {1, Len(names)} /\ \A x \in {1, Len(names)} : Min({1, Len(names)}) <= x
    BY <2>1, Least
  <2>3. Min({2, Len(names)}) \in {2, Len(names)} /\ \A x \in {2, Len(names)} : Min({2, Len(names)}) <= x
    BY <2>1, Least
  <2>. QED BY <2>2, <2>3
<1>. DEFINE few == Min({1, Len(names)})
            second == Min({2, Len(names)})
<1>. HIDE DEF few, second
<1>4. /\ few \in Nat /\ \A n \in 1 .. few : names[n] \in Words
      /\ names # <<>> => names[1] \in Words /\ names[second] \in Words
  <2>1. few \in Nat /\ few <= Len(names)
    BY <1>1, <1>3 DEF few
  <2>2. names # <<>> => 1 \in 1 .. Len(names) /\ second \in 1 .. Len(names)
    BY <1>1, <1>3 DEF second
  <2>. QED BY <1>1, <2>1, <2>2
<1>5. ASSUME NEW kind \in {"handles_route", "registered_as"}
      PROVE  FromOne([n \in 1 .. few |-> Guess(source, kind, names[n], "high")], source)
  <2>1. \A n \in 1 .. few : /\ Guess(source, kind, names[n], "high") \in EdgeSet
                            /\ Guess(source, kind, names[n], "high").source = source
    BY <1>2, <1>4, GuessedEdges
  <2>. HIDE DEF Guess
  <2>. QED BY <1>4, <2>1 DEF FromOne
<1>6. CASE what = "map"
  <2>. DEFINE rest == [n \in 1 .. few |-> Guess(source, "handles_route", names[n], "high")]
              first == Outside(source, "handles_route")
  <2>1. FromOne(rest, source) /\ first \in EdgeSet /\ first.source = source
    BY <1>2, <1>5, GuessedEdges
  <2>2. CallEdges(what, source, names) = <<first>> \o rest
    BY <1>6 DEF CallEdges, MapEdges, few
  <2>. HIDE DEF rest, first
  <2>3. <<first>> \in Seq(EdgeSet) /\ rest \in Seq(EdgeSet) /\ <<first>>[1] = first /\ Len(<<first>>) = 1
    BY <2>1 DEF FromOne
  <2>4. Longer(<<first>> \o rest, <<first>>, rest, EdgeSet)
    BY <2>3, Lengthened
  <2>5. FromOne(<<first>> \o rest, source)
    <3>. DEFINE both == <<first>> \o rest
    <3>1. ASSUME NEW e \in 1 .. Len(both) PROVE both[e].source = source
      <4>1. CASE e \in 1 .. Len(<<first>>)
        BY <2>1, <2>3, <2>4, <4>1 DEF Longer
      <4>2. CASE e \notin 1 .. Len(<<first>>)
        <5>1. PICK k \in 1 .. Len(rest) : e = Len(<<first>>) + k
          BY <2>4, <4>2 DEF Longer
        <5>. QED BY <2>1, <2>4, <5>1 DEF Longer, FromOne
      <4>. QED BY <4>1, <4>2
    <3>. QED BY <2>4, <3>1 DEF Longer, FromOne
  <2>. QED BY <2>2, <2>5
<1>7. CASE what = "add"
  <2>. DEFINE confidence == IF Len(names) = 1 THEN "low" ELSE "high"
              a == Guess(source, "registered_as", names[second], confidence)
              b == Guess(source, "registered_as", names[1], confidence)
  <2>1. CallEdges(what, source, names) = IF names = <<>> THEN <<>> ELSE <<a, b>>
    BY <1>7 DEF CallEdges, AddedEdges, second
  <2>2. CASE names = <<>>
    BY <2>1, <2>2 DEF FromOne
  <2>3. CASE names # <<>>
    <3>1. confidence \in {"high", "low"}
      OBVIOUS
    <3>2. a \in EdgeSet /\ b \in EdgeSet /\ a.source = source /\ b.source = source
      BY <1>2, <1>4, <2>3, <3>1, GuessedEdges
    <3>. HIDE DEF a, b
    <3>. QED BY <2>1, <2>3, <3>2 DEF FromOne
  <2>. QED BY <2>2, <2>3
<1>8. CASE what = "feature"
  <2>1. CallEdges(what, source, names) = [n \in 1 .. few |-> Guess(source, "registered_as", names[n], "high")]
    BY <1>8 DEF CallEdges, few
  <2>. QED BY <1>5, <2>1
<1>. QED BY <1>6, <1>7, <1>8 DEF CallFacts

(* The edges of a class to what it registers or injects hang from the       *)
(* class.                                                                   *)
LEMMA FromClassFits ==
  ASSUME NEW name \in Paths, NEW kind \in {"registered_as", "injects"}, NEW used \in Paths
  PROVE  FromOne(FromClass(name, kind, used), PlainKey(name))
<1>1. Len(used) \in Nat /\ \A n \in 1 .. Len(used) : used[n] \in Words
  BY DEF Paths
<1>2. PlainKey(name) \in KeySet /\ kind \in EdgeKinds
  BY KeysAreKeys DEF EdgeKinds
<1>3. \A n \in 1 .. Len(used) : /\ Guess(PlainKey(name), kind, used[n], "high") \in EdgeSet
                                /\ Guess(PlainKey(name), kind, used[n], "high").source = PlainKey(name)
  BY <1>1, <1>2, GuessedEdges
<1>. HIDE DEF Guess
<1>. QED BY <1>1, <1>3 DEF FromOne, FromClass

(* Edges from one source that is there are added.                           *)
LEMMA EdgesFromOne ==
  ASSUME Typed, Walked, NEW found \in FoundSet, NEW source, Anchored(FileOf(found), source),
         NEW edges, FromOne(edges, source)
  PROVE  FoundMore(AddEdges(found, edges), found) /\ SameRoles(AddEdges(found, edges), found)
<1>1. edges \in Seq(EdgeSet) /\ \A e \in 1 .. Len(edges) : Anchored(FileOf(found), edges[e].source)
  BY DEF FromOne
<1>. QED BY <1>1, EdgesAdded

(* The key of a symbol of the file is there to hang from.                   *)
LEMMA OwnKeyThere ==
  ASSUME Typed, Walked, NEW found \in FoundSet, NEW h \in 1 .. Len(symbols)
  PROVE  /\ found.symbols[h] = symbols[h] /\ found.symbols[h].key \in KeySet
         /\ Anchored(FileOf(found), found.symbols[h].key)
<1>1. /\ Len(symbols) \in Nat /\ Len(symbols) <= Len(found.symbols) /\ Len(found.symbols) \in Nat
      /\ found.symbols[h] = symbols[h] /\ symbols[h] \in SymbolSet
  BY Collection DEF FoundSet, FoundFits, FoundRecords
<1>2. h \in 1 .. Len(found.symbols)
  BY <1>1
<1>3. symbols[h].key \in KeySet
  BY <1>1, Fields
<1>. QED BY <1>1, <1>2, <1>3 DEF Anchored, FileOf

(* What stays there when more is found.                                     *)
LEMMA ThereStill ==
  ASSUME Typed, Walked, NEW found \in FoundSet, NEW new, FoundMore(new, found),
         NEW key, Anchored(FileOf(found), key)
  PROVE  Anchored(FileOf(new), key)
<1>1. new \in FoundRecords /\ new \in FoundSet
  BY DEF FoundMore, FoundSet
<1>. QED BY <1>1, StaysThere DEF FoundMore

(* A fact that earns nobody a role may leave all roles alone.               *)
LEMMA NothingGained ==
  ASSUME NEW found, NEW new, FoundMore(new, found), SameRoles(new, found), NEW fact,
         \A i \in 1 .. Len(symbols) : Gain(fact, i) = {}
  PROVE  Gained(new, found, fact)
BY DEF Gained, SameRoles

(* [ApiController] makes its type a controller.                             *)
LEMMA ApiFound ==
  ASSUME Typed, Walked, NEW found \in FoundSet, language = "csharp", NEW fact,
         fact.home \in 1 .. Len(symbols), fact.what = "api"
  PROVE  Gained(Found(found, fact), found, fact)
<1>1. Found(found, fact) = AddRole(found, fact.home, "controller")
  BY DEF Found
<1>2. "controller" \in RoleKinds
  BY DEF RoleKinds
<1>3. /\ FoundMore(AddRole(found, fact.home, "controller"), found)
      /\ \A i \in 1 .. Len(symbols) : Recognizable(i) =>
               AddRole(found, fact.home, "controller").roles[i] =
                  IF i = fact.home THEN found.roles[i] \union {"controller"} ELSE found.roles[i]
  BY <1>2, RoleAdded
<1>4. \A i \in 1 .. Len(symbols) : Gain(fact, i) = IF i = fact.home THEN {"controller"} ELSE {}
  BY DEF Gain, Routes, RolesOf
<1>. HIDE DEF AddRole, Gain
<1>. QED BY <1>1, <1>3, <1>4 DEF Gained

(* [HttpGet] and [Function] make their method a route, and its class a      *)
(* controller when the name ends so; a trigger or a route of a method's own *)
(* makes no role.                                                           *)
LEMMA AttributeGains ==
  ASSUME Typed, Walked, NEW found \in FoundSet, language = "csharp", NEW fact,
         fact.home \in 1 .. Len(symbols), homes[fact.home] \in 1 .. Len(symbols),
         fact.what \in MethodFacts
  PROVE  Gained(Found(found, fact), found, fact)
<1>. DEFINE h == fact.home
            c == homes[h]
            source == found.symbols[h].key
            tagged == AddRole(found, h, "route")
            routed == NamedController(tagged, c)
<1>1. Found(found, fact) = AttributeFound(found, fact)
  BY DEF Found, MethodFacts
<1>2. source \in KeySet /\ Anchored(FileOf(found), source)
  BY OwnKeyThere
<1>3. "handles_route" \in EdgeKinds /\ "triggers" \in EdgeKinds
      /\ "controller" \in RoleKinds /\ "route" \in RoleKinds
  BY DEF EdgeKinds, RoleKinds
<1>4. /\ FromOne(<<Outside(source, "handles_route")>>, source)
      /\ FromOne(<<Outside(source, "triggers")>>, source)
  <2>. HIDE DEF source
  <2>1. \A kind \in {"handles_route", "triggers"} :
            Outside(source, kind) \in EdgeSet /\ Outside(source, kind).source = source
    BY <1>2, <1>3, GuessedEdges
  <2>. HIDE DEF Outside
  <2>. QED BY <2>1 DEF FromOne
<1>5. /\ FoundMore(tagged, found)
      /\ \A i \in 1 .. Len(symbols) : Recognizable(i) =>
            tagged.roles[i] = IF i = h THEN found.roles[i] \union {"route"} ELSE found.roles[i]
  BY <1>3, RoleAdded, ZenonT(30)
<1>. HIDE DEF tagged
<1>6. tagged \in FoundSet /\ tagged.symbols[c] = symbols[c]
  <2>1. tagged \in FoundSet
    BY <1>5 DEF FoundMore
  <2>. QED BY <2>1, OwnKeyThere
<1>. DEFINE named == symbols[c].name[1] \in Controllers
<1>7. routed = IF named THEN AddRole(tagged, c, "controller") ELSE tagged
  BY <1>6 DEF NamedController
<1>8. /\ FoundMore(AddRole(tagged, c, "controller"), tagged)
      /\ \A i \in 1 .. Len(symbols) : Recognizable(i) =>
            AddRole(tagged, c, "controller").roles[i] =
               IF i = c THEN tagged.roles[i] \union {"controller"} ELSE tagged.roles[i]
  <2>1. c \in 1 .. Len(symbols) /\ tagged \in FoundSet /\ "controller" \in RoleKinds
    BY <1>3, <1>6
  <2>. HIDE DEF c, AddRole, RoleKinds, FoundSet
  <2>. QED BY <2>1, RoleAdded, ZenonT(30)
<1>9. FoundMore(tagged, tagged)
  BY <1>6 DEF FoundMore, FoundSet, FoundRecords
<1>. HIDE DEF AddRole, routed
<1>10. /\ FoundMore(routed, tagged)
       /\ \A i \in 1 .. Len(symbols) : Recognizable(i) =>
            routed.roles[i] = IF i = c /\ named THEN tagged.roles[i] \union {"controller"} ELSE tagged.roles[i]
  BY <1>7, <1>8, <1>9
<1>11. FoundMore(routed, found) /\ routed \in FoundSet
  BY <1>5, <1>10, FoundMoreYet DEF FoundMore
<1>12. Anchored(FileOf(routed), source)
  BY <1>2, <1>11, ThereStill
<1>13. CASE fact.what \in Routes
  <2>1. ASSUME NEW new, FoundMore(new, found), SameRoles(new, routed) PROVE Gained(new, found, fact)
    <3>1. \A i \in 1 .. Len(symbols) : Gain(fact, i) =
             (IF i = h THEN {"route"} ELSE {}) \union (IF i = c /\ named THEN {"controller"} ELSE {})
      BY <1>13 DEF Gain, Routes, RolesOf
    <3>. HIDE DEF named, Gain
    <3>2. \A i \in 1 .. Len(symbols) : Recognizable(i) => routed.roles[i] = found.roles[i] \union Gain(fact, i)
      BY <1>5, <1>10, <3>1
    <3>. QED BY <2>1, <3>2 DEF Gained, SameRoles
  <2>2. CASE fact.what = "http"
    <3>. DEFINE new == AddEdges(routed, <<Outside(source, "handles_route")>>)
    <3>1. FoundMore(new, routed) /\ SameRoles(new, routed)
      BY <1>4, <1>11, <1>12, EdgesFromOne
    <3>2. AttributeFound(found, fact) = new
      BY <2>2 DEF AttributeFound, routed, tagged
    <3>. HIDE DEF new
    <3>3. FoundMore(new, found)
      BY <1>11, <3>1, FoundMoreYet
    <3>. QED BY <1>1, <2>1, <3>1, <3>2, <3>3
  <2>3. CASE fact.what = "function"
    <3>1. AttributeFound(found, fact) = routed
      BY <2>3 DEF AttributeFound, routed, tagged
    <3>2. SameRoles(routed, routed)
      BY DEF SameRoles
    <3>. QED BY <1>1, <1>11, <2>1, <3>1, <3>2
  <2>. QED BY <1>13, <2>2, <2>3 DEF Routes
<1>14. CASE fact.what = "trigger"
  <2>. DEFINE new == AddEdges(found, <<Outside(source, "triggers")>>)
  <2>1. FoundMore(new, found) /\ SameRoles(new, found)
    BY <1>2, <1>4, EdgesFromOne
  <2>2. AttributeFound(found, fact) = new
    BY <1>14 DEF AttributeFound
  <2>. HIDE DEF new
  <2>3. \A i \in 1 .. Len(symbols) : Gain(fact, i) = {}
    BY <1>14 DEF Gain, Routes, RolesOf
  <2>. QED BY <1>1, <2>1, <2>2, <2>3, NothingGained
<1>15. CASE fact.what = "route"
  <2>1. AttributeFound(found, fact) = found
    BY <1>15 DEF AttributeFound
  <2>2. FoundMore(found, found) /\ SameRoles(found, found)
    BY DEF FoundMore, FoundSet, FoundRecords, SameRoles
  <2>3. \A i \in 1 .. Len(symbols) : Gain(fact, i) = {}
    BY <1>15 DEF Gain, Routes, RolesOf
  <2>. QED BY <1>1, <2>1, <2>2, <2>3, NothingGained
<1>. QED BY <1>13, <1>14, <1>15 DEF Routes, MethodFacts

(* A DbSet member gives no role; its edges hang from its class and from     *)
(* itself.                                                                  *)
LEMMA DbSetGains ==
  ASSUME Typed, Walked, NEW found \in FoundSet, NEW fact,
         fact.home \in 1 .. Len(symbols), homes[fact.home] \in 1 .. Len(symbols),
         fact.what = "dbset", fact.names[1] \in Words
  PROVE  Gained(Found(found, fact), found, fact)
<1>. DEFINE at(s) == IF s = 1 THEN homes[fact.home] ELSE fact.home
            edge(s) == Guess(found.symbols[at(s)].key, "persists_to", fact.names[1], "high")
            edges == [s \in 1 .. 2 |-> edge(s)]
            new == AddEdges(found, edges)
<1>1. Found(found, fact) = new
  BY DEF Found, DbSetFound
<1>2. ASSUME NEW s \in 1 .. 2 PROVE edge(s) \in EdgeSet /\ Anchored(FileOf(found), edge(s).source)
  <2>1. at(s) \in 1 .. Len(symbols)
    OBVIOUS
  <2>. HIDE DEF at
  <2>2. found.symbols[at(s)].key \in KeySet /\ Anchored(FileOf(found), found.symbols[at(s)].key)
    BY <2>1, OwnKeyThere
  <2>3. "persists_to" \in EdgeKinds
    BY DEF EdgeKinds
  <2>4. edge(s) \in EdgeSet /\ edge(s).source = found.symbols[at(s)].key
    BY <2>2, <2>3, GuessedEdges
  <2>. QED BY <2>2, <2>4
<1>. HIDE DEF edge
<1>3. edges \in Seq(EdgeSet) /\ \A e \in 1 .. Len(edges) : Anchored(FileOf(found), edges[e].source)
  BY <1>2
<1>. HIDE DEF edges
<1>4. FoundMore(new, found) /\ SameRoles(new, found)
  BY <1>3, EdgesAdded
<1>5. \A i \in 1 .. Len(symbols) : Gain(fact, i) = {}
  BY DEF Gain, Routes, RolesOf
<1>. HIDE DEF new
<1>. QED BY <1>1, <1>4, <1>5, NothingGained

(* A Map, Add or Use call, in a method or at the top level, gives no role.  *)
LEMMA CallGains ==
  ASSUME Typed, Walked, NEW found \in FoundSet, NEW fact, fact.home \in Nat,
         fact.home <= Len(symbols), fact.what \in CallFacts, fact.names \in Paths
  PROVE  Gained(Found(found, fact), found, fact)
<1>1. Found(found, fact) = CallFound(found, fact)
  BY DEF Found, CallFacts
<1>2. \A i \in 1 .. Len(symbols) : Gain(fact, i) = {}
  BY DEF Gain, Routes, RolesOf, CallFacts
<1>3. CASE fact.home # 0
  <2>. DEFINE source == found.symbols[fact.home].key
              new == AddEdges(found, CallEdges(fact.what, source, fact.names))
  <2>1. fact.home \in 1 .. Len(symbols)
    BY <1>3, Collection
  <2>2. source \in KeySet /\ Anchored(FileOf(found), source)
    BY <2>1, OwnKeyThere
  <2>3. CallFound(found, fact) = new
    BY <1>3 DEF CallFound
  <2>. HIDE DEF source
  <2>4. FromOne(CallEdges(fact.what, source, fact.names), source)
    BY <2>2, CallEdgesFit
  <2>5. FoundMore(new, found) /\ SameRoles(new, found)
    BY <2>2, <2>4, EdgesFromOne
  <2>. HIDE DEF new
  <2>. QED BY <1>1, <1>2, <2>3, <2>5, NothingGained
<1>4. CASE fact.home = 0
  <2>. DEFINE more == EnsureMain(found)
              new == AddEdges(more, CallEdges(fact.what, MainKey, fact.names))
  <2>1. FoundMore(more, found) /\ SameRoles(more, found) /\ Anchored(FileOf(more), MainKey)
    BY MainEnsured
  <2>2. CallFound(found, fact) = new
    BY <1>4 DEF CallFound
  <2>3. MainKey \in KeySet
    <3>1. <<Program, Main>> \in Paths
      <4>1. Program \in Words /\ Main \in Words
        BY ListsArePaths
      <4>. HIDE DEF Words
      <4>. QED BY <4>1 DEF Paths
    <3>. QED BY <3>1, KeysAreKeys DEF MainKey
  <2>4. FromOne(CallEdges(fact.what, MainKey, fact.names), MainKey)
    BY <2>3, CallEdgesFit
  <2>. HIDE DEF more
  <2>5. more \in FoundSet
    BY <2>1 DEF FoundMore
  <2>6. FoundMore(new, more) /\ SameRoles(new, more)
    BY <2>1, <2>4, <2>5, EdgesFromOne
  <2>. HIDE DEF new
  <2>7. FoundMore(new, found) /\ SameRoles(new, found)
    BY <2>1, <2>6, FoundMoreYet
  <2>. QED BY <1>1, <1>2, <2>2, <2>7, NothingGained
<1>. QED BY <1>3, <1>4

(* A class with a decorator of Angular wears the role of the decorator.     *)
LEMMA ClassGains ==
  ASSUME Typed, Walked, NEW found \in FoundSet, language = "typescript", NEW fact,
         fact.home \in 1 .. Len(symbols), symbols[fact.home].kind = "class",
         fact.what \in ClassFacts, fact.names \in Paths
  PROVE  Gained(Found(found, fact), found, fact)
<1>. DEFINE h == fact.home
            name == symbols[h].name
            some == RolesOf(fact.what, name)
            tagged == ApplyRoles(found, name, some)
            source == PlainKey(name)
            registered == Registrations(name, fact)
            injected == Injections(name, fact)
            new == AddEdges(tagged, registered \o injected)
<1>1. Found(found, fact) = new
  <2>1. Found(found, fact) = ClassFound(found, fact)
    BY DEF Found, ClassFacts
  <2>2. found.symbols[h] = symbols[h]
    BY OwnKeyThere
  <2>. QED BY <2>1, <2>2 DEF ClassFound
<1>2. some \in SUBSET RoleKinds
  BY DEF RolesOf, RoleKinds
<1>. HIDE DEF some
<1>3. /\ FoundMore(tagged, found)
      /\ \A i \in 1 .. Len(symbols) : Recognizable(i) =>
            tagged.roles[i] = IF i = h THEN found.roles[i] \union some ELSE found.roles[i]
  BY <1>2, RolesApplied, ZenonT(30)
<1>. HIDE DEF tagged
<1>4. name \in Paths
  BY Collection, Fields
<1>5. Anchored(FileOf(found), source)
  <2>1. Len(homes) = Len(symbols) /\ FileOf(found).homes = homes /\ FileOf(found).language = language
        /\ FileOf(found).symbols = found.symbols /\ found.symbols[h] = symbols[h]
    BY OwnKeyThere DEF FileOf, Walked
  <2>2. CASE homes[h] # 0
    <3>1. source.path = name
      BY KeysTell
    <3>. QED BY <2>1, <2>2, <3>1 DEF Anchored
  <2>3. CASE homes[h] = 0
    <3>1. symbols[h].key = source
      BY <2>3 DEF Walked, SymbolFits, File
    <3>. QED BY <2>1, <3>1, OwnKeyThere
  <2>. QED BY <2>2, <2>3
<1>6. FromOne(registered, source) /\ FromOne(injected, source)
  <2>1. \A kind \in {"registered_as", "injects"} : FromOne(FromClass(name, kind, fact.names), source)
    BY <1>4, FromClassFits
  <2>2. FromOne(<<>>, source)
    BY DEF FromOne
  <2>. HIDE DEF FromOne, FromClass, name
  <2>. QED BY <2>1, <2>2 DEF Registrations, Injections
<1>. HIDE DEF registered, injected, source, name
<1>7. FromOne(registered \o injected, source)
  <2>. DEFINE both == registered \o injected
  <2>1. Longer(both, registered, injected, EdgeSet)
    BY <1>6, Lengthened DEF FromOne
  <2>. HIDE DEF both
  <2>2. ASSUME NEW e \in 1 .. Len(both) PROVE both[e].source = source
    <3>1. CASE e \in 1 .. Len(registered)
      BY <1>6, <2>1, <3>1 DEF Longer, FromOne
    <3>2. CASE e \notin 1 .. Len(registered)
      <4>1. PICK k \in 1 .. Len(injected) : e = Len(registered) + k
        BY <2>1, <3>2 DEF Longer
      <4>. QED BY <1>6, <2>1, <4>1 DEF Longer, FromOne
    <3>. QED BY <3>1, <3>2
  <2>. QED BY <2>1, <2>2 DEF Longer, FromOne, both
<1>8. tagged \in FoundSet /\ Anchored(FileOf(tagged), source)
  BY <1>3, <1>5, ThereStill DEF FoundMore
<1>9. FoundMore(new, tagged) /\ SameRoles(new, tagged)
  BY <1>7, <1>8, EdgesFromOne
<1>10. \A i \in 1 .. Len(symbols) : Gain(fact, i) = IF i = h THEN some ELSE {}
  <2>1. fact.what \notin Routes /\ fact.what # "api"
    BY DEF Routes, ClassFacts
  <2>. HIDE DEF Routes
  <2>. QED BY <2>1 DEF Gain, some, name
<1>. HIDE DEF new, Gain
<1>11. FoundMore(new, found)
  BY <1>3, <1>9, FoundMoreYet
<1>12. \A i \in 1 .. Len(symbols) : Recognizable(i) => new.roles[i] = found.roles[i] \union Gain(fact, i)
  BY <1>3, <1>9, <1>10 DEF SameRoles
<1>. QED BY <1>1, <1>11, <1>12 DEF Gained

(* A variable of routes gives no role.                                      *)
LEMMA RoutesGain ==
  ASSUME Typed, Walked, NEW found \in FoundSet, NEW fact, fact.home = 0, fact.what = "routes",
         fact.names \in Paths, Len(fact.names) >= 1
  PROVE  Gained(Found(found, fact), found, fact)
<1>. DEFINE name == <<fact.names[1]>>
            source == PlainKey(name)
            variable == Declared(name, name, "variable", NoPrint, NoOrdinal, source)
            S == {j \in 1 .. Len(found.symbols) : found.symbols[j].key = source}
            known == SelectInSeq(found.symbols, LAMBDA s : s.key = source) # 0
            more == IF known THEN found ELSE Pushed(found, variable)
            edge(k) == Guess(source, "handles_route", fact.names[k + 1], "high")
            edges == [k \in 1 .. (Len(fact.names) - 1) |-> edge(k)]
            new == AddEdges(more, edges)
<1>1. Found(found, fact) = new
  BY DEF Found, RoutesFound
<1>2. Len(fact.names) \in Nat /\ \A n \in 1 .. Len(fact.names) : fact.names[n] \in Words
  BY DEF Paths
<1>3. name \in Paths
  <2>1. fact.names[1] \in Words
    BY <1>2
  <2>. HIDE DEF Words
  <2>. QED BY <2>1 DEF Paths
<1>. HIDE DEF name
<1>4. variable \in SymbolSet /\ variable.key = source /\ source \in KeySet
  <2>1. source \in KeySet /\ NoOrdinal \in Int /\ "variable" \in SymbolKinds /\ NoPrint \in AllPrints
    BY <1>3, KeysAreKeys DEF NoOrdinal, SymbolKinds, AllPrints
  <2>2. variable \in SymbolSet
    BY <1>3, <2>1, MakesSymbol
  <2>. QED BY <2>1, <2>2 DEF Declared
<1>. HIDE DEF variable, source
<1>5. known => \E j \in 1 .. Len(found.symbols) : found.symbols[j].key = source
  <2>1. SelectInSeq(found.symbols, LAMBDA s : s.key = source) = IF S # {} THEN Min(S) ELSE 0
    BY DEF SelectInSeq
  <2>. QED BY <2>1
<1>. HIDE DEF known
<1>6. FoundMore(more, found) /\ SameRoles(more, found) /\ Anchored(FileOf(more), source)
  <2>1. CASE known
    <3>1. FoundMore(found, found) /\ SameRoles(found, found)
      BY DEF FoundMore, SameRoles, FoundSet, FoundRecords
    <3>2. Anchored(FileOf(found), source)
      BY <1>5, <2>1 DEF Anchored, FileOf
    <3>. QED BY <2>1, <3>1, <3>2
  <2>2. CASE ~known
    <3>1. /\ FoundMore(Pushed(found, variable), found) /\ SameRoles(Pushed(found, variable), found)
          /\ Anchored(FileOf(Pushed(found, variable)), source)
      BY <1>4, SymbolPushed
    <3>. HIDE DEF Pushed
    <3>. QED BY <2>2, <3>1
  <2>. QED BY <2>1, <2>2
<1>. HIDE DEF more
<1>7. FromOne(edges, source)
  <2>1. ASSUME NEW k \in 1 .. (Len(fact.names) - 1) PROVE edge(k) \in EdgeSet /\ edge(k).source = source
    <3>1. fact.names[k + 1] \in Words
      BY <1>2
    <3>2. "handles_route" \in EdgeKinds
      BY DEF EdgeKinds
    <3>. QED BY <1>4, <3>1, <3>2, GuessedEdges
  <2>. HIDE DEF edge
  <2>2. Len(fact.names) - 1 \in Nat
    BY <1>2
  <2>. QED BY <2>1, <2>2 DEF FromOne
<1>. HIDE DEF edges
<1>8. more \in FoundSet
  BY <1>6 DEF FoundMore
<1>9. FoundMore(new, more) /\ SameRoles(new, more)
  BY <1>6, <1>7, <1>8, EdgesFromOne
<1>10. \A i \in 1 .. Len(symbols) : Gain(fact, i) = {}
  BY DEF Gain, Routes, RolesOf
<1>. HIDE DEF new
<1>11. FoundMore(new, found) /\ SameRoles(new, found)
  BY <1>6, <1>9, FoundMoreYet
<1>. QED BY <1>1, <1>10, <1>11, NothingGained

(* Recognizing any fact of the file finds more, and gives each symbol that  *)
(* can be told apart what the fact earns it.                                *)
LEMMA EveryFactGains ==
  ASSUME Typed, Walked, NEW found \in FoundSet, NEW f \in 1 .. Len(facts)
  PROVE  Gained(Found(found, facts[f]), found, facts[f])
<1>. DEFINE fact == facts[f]
<1>1. /\ fact \in FactSet /\ FactFits(File, fact) /\ fact.home \in Nat /\ fact.names \in Paths
      /\ Len(symbols) \in Nat /\ language \in {"csharp", "typescript"}
  <2>1. fact \in FactSet /\ Len(symbols) \in Nat
    BY Collection
  <2>. QED BY <2>1, Fields DEF Walked, Typed
<1>2. /\ File.homes = homes /\ Len(homes) = Len(symbols) /\ File.symbols = symbols
      /\ File.language = language
  BY DEF File, Walked
<1>. HIDE DEF fact
<1>3. /\ fact.home <= Len(symbols)
      /\ fact.home # 0 => fact.home \in 1 .. Len(symbols)
  BY <1>1, <1>2 DEF FactFits
<1>4. ASSUME fact.home # 0, homes[fact.home] # 0 PROVE homes[fact.home] \in 1 .. Len(symbols)
  <2>1. homes[fact.home] \in Nat /\ homes[fact.home] < fact.home
    BY <1>2, <1>3, <1>4, Collection DEF Walked, SymbolFits
  <2>. QED BY <1>1, <1>3, <1>4, <2>1
<1>5. CASE language = "csharp"
  <2>1. /\ fact.what \in {"api", "dbset"} \union MethodFacts \union CallFacts
        /\ fact.what \notin CallFacts => fact.home # 0
        /\ fact.what \in {"dbset"} \union MethodFacts => homes[fact.home] # 0
        /\ fact.what = "dbset" => Len(fact.names) = 1
    BY <1>1, <1>2, <1>5 DEF FactFits
  <2>2. CASE fact.what = "api"
    BY <1>3, <1>5, <2>1, <2>2, ApiFound DEF CallFacts, fact
  <2>3. CASE fact.what \in MethodFacts
    <3>1. fact.home # 0 /\ homes[fact.home] # 0
      BY <2>1, <2>3 DEF CallFacts, MethodFacts
    <3>. QED BY <1>3, <1>4, <1>5, <2>3, <3>1, AttributeGains DEF fact
  <2>4. CASE fact.what = "dbset"
    <3>1. fact.home # 0 /\ homes[fact.home] # 0
      BY <2>1, <2>4 DEF CallFacts
    <3>2. fact.names[1] \in Words
      <4>1. Len(fact.names) = 1 /\ fact.names \in Seq(Words)
        BY <1>1, <2>1, <2>4 DEF Paths
      <4>. HIDE DEF Words
      <4>. QED BY <4>1
    <3>. QED BY <1>3, <1>4, <2>4, <3>1, <3>2, DbSetGains DEF fact
  <2>5. CASE fact.what \in CallFacts
    BY <1>1, <1>3, <2>5, CallGains DEF fact
  <2>. QED BY <2>1, <2>2, <2>3, <2>4, <2>5
<1>6. CASE language = "typescript"
  <2>1. /\ fact.what \in {"routes"} \union ClassFacts
        /\ fact.what = "routes" => fact.home = 0 /\ Len(fact.names) >= 1
        /\ fact.what # "routes" => fact.home # 0 /\ symbols[fact.home].kind = "class"
    BY <1>1, <1>2, <1>6 DEF FactFits
  <2>2. CASE fact.what = "routes"
    BY <1>1, <2>1, <2>2, RoutesGain DEF fact
  <2>3. CASE fact.what # "routes"
    BY <1>1, <1>3, <1>6, <2>1, <2>3, ClassGains DEF fact
  <2>. QED BY <2>2, <2>3
<1>. QED BY <1>1, <1>5, <1>6

-----------------------------------------------------------------------------
(* Recognition: fact by fact, every symbol gains what it has earned.        *)

\* What a symbol has gained from the first facts.
GainedBy(k, i) == UNION {Gain(facts[f], i) : f \in 1 .. k}
Tallied(k, found) ==
    \A i \in 1 .. Len(symbols) : Recognizable(i) => found.roles[i] = GainedBy(k, i)

(* Recognition goes through the facts one by one, so that in the end every  *)
(* symbol told apart has gained what all the facts earn it.                 *)
LEMMA RecognitionRuns ==
  ASSUME Typed, Walked
  PROVE  Recognized \in FoundSet /\ Tallied(Len(facts), Recognized)
<1>. DEFINE n == Len(facts)
            step == [k \in 1 .. n |-> [found \in FoundSet |-> Found(found, facts[k])]]
            g == Recognition
            Runs(f) == f = [k \in 0 .. n |->
                              IF k = 0 THEN Unrecognized ELSE Found(f[k - 1], facts[k])]
<1>1. n \in Nat
  BY Collection
<1>2. Unrecognized \in FoundSet
  <2>. DEFINE none == [i \in 1 .. Len(symbols) |-> {}]
  <2>1. /\ symbols \in Seq(SymbolSet) /\ Len(symbols) \in Nat /\ <<>> \in Seq(EdgeSet)
        /\ none \in Seq(SUBSET RoleKinds) /\ Len(none) = Len(symbols)
    BY DEF Typed
  <2>. HIDE DEF none
  <2>2. Unrecognized \in FoundRecords
    BY <2>1 DEF Unrecognized, FoundRecords, none
  <2>3. /\ Unrecognized.symbols = symbols /\ Unrecognized.roles = none /\ Unrecognized.rels = <<>>
        /\ Unrecognized.main = FALSE
    BY DEF Unrecognized, none
  <2>4. FoundFits(Unrecognized)
    BY <2>1, <2>3 DEF FoundFits
  <2>. QED BY <2>2, <2>4 DEF FoundSet
<1>3. ASSUME NEW k \in 1 .. n, NEW found \in FoundSet
      PROVE  Found(found, facts[k]) \in FoundSet /\ Gained(Found(found, facts[k]), found, facts[k])
  BY EveryFactGains DEF Gained, FoundMore
<1>4. StepsTo(n, step, FoundSet)
  <2>. HIDE DEF n, Found, FoundSet
  <2>. QED BY <1>3 DEF StepsTo
<1>5. PICK f : Solves(f, n, FoundSet, Unrecognized, step)
  <2>. HIDE DEF step, n
  <2>. QED BY <1>1, <1>2, <1>4, Solved
<1>6. Runs(f)
  <2>1. f = [k \in 0 .. n |-> IF k = 0 THEN Unrecognized ELSE step[k][f[k - 1]]]
        /\ f \in [0 .. n -> FoundSet]
    BY <1>5 DEF Solves
  <2>. HIDE DEF n, Found, FoundSet
  <2>2. ASSUME NEW k \in 0 .. n, k # 0 PROVE step[k][f[k - 1]] = Found(f[k - 1], facts[k])
    <3>1. k \in 1 .. n /\ k - 1 \in 0 .. n
      BY <1>1, <2>2
    <3>. QED BY <2>1, <3>1
  <2>. HIDE DEF step
  <2>. QED BY <2>1, <2>2
<1>7. g = CHOOSE h : Runs(h)
  BY DEF Recognition
<1>8. Runs(g)
  <2>. HIDE DEF Runs, g
  <2>. QED BY <1>6, <1>7
<1>. HIDE DEF g, n, Found, FoundSet
<1>9. g[0] = Unrecognized /\ \A k \in 1 .. n : g[k] = Found(g[k - 1], facts[k])
  BY <1>1, <1>8
<1>. HIDE DEF Runs
<1>10. \A k \in 0 .. n : g[k] \in FoundSet
  <2>1. \A k \in 1 .. n : g[k - 1] \in FoundSet => g[k] \in FoundSet
    BY <1>3, <1>9
  <2>2. g[0] \in FoundSet
    BY <1>2, <1>9
  <2>. QED BY <1>1, <2>1, <2>2, Stays
<1>11. \A k \in 0 .. n : Tallied(k, g[k])
  <2>. DEFINE T == {k \in Nat : k <= n => Tallied(k, g[k])}
  <2>1. 0 \in T
    <3>1. \A i \in 1 .. Len(symbols) : Unrecognized.roles[i] = {}
      BY DEF Unrecognized
    <3>2. \A i : GainedBy(0, i) = {}
      BY DEF GainedBy
    <3>. QED BY <1>9, <3>1, <3>2 DEF Tallied
  <2>2. ASSUME NEW k \in Nat, k \in T PROVE k + 1 \in T
    <3>. SUFFICES ASSUME k + 1 <= n PROVE Tallied(k + 1, g[k + 1])
      OBVIOUS
    <3>1. k + 1 \in 1 .. n /\ (k + 1) - 1 = k /\ k \in 0 .. n /\ k <= n
      BY <1>1
    <3>2. g[k + 1] = Found(g[k], facts[k + 1]) /\ g[k] \in FoundSet /\ Tallied(k, g[k])
      BY <1>9, <1>10, <2>2, <3>1
    <3>3. Gained(g[k + 1], g[k], facts[k + 1])
      BY <1>3, <3>1, <3>2
    <3>4. \A i : GainedBy(k + 1, i) = GainedBy(k, i) \union Gain(facts[k + 1], i)
      <4>1. 1 .. k + 1 = (1 .. k) \union {k + 1}
        OBVIOUS
      <4>. HIDE DEF Gain
      <4>. QED BY <4>1 DEF GainedBy
    <3>. HIDE DEF GainedBy, Gain, Recognizable
    <3>. QED BY <3>2, <3>3, <3>4 DEF Gained, Tallied
  <2>3. Nat \subseteq T
    <3>. HIDE DEF T
    <3>. QED BY <2>1, <2>2, AllNumbers
  <2>. QED BY <1>1, <2>3
<1>. QED BY <1>1, <1>10, <1>11 DEF Recognized, g, n

(* Before anything is declared the invariant holds.                         *)
LEMMA InitFits ==
  Init => ExtractorInv
<1>. SUFFICES ASSUME Init PROVE ExtractorInv
  OBVIOUS
<1>. DEFINE frame == Frame("file", FileKey, <<>>, FileKey, 0)
<1>1. /\ language \in {"csharp", "typescript"} /\ open = <<frame>> /\ symbols = <<>> /\ rels = <<>>
      /\ pending = <<>> /\ homes = <<>> /\ finished = FALSE /\ facts = <<>> /\ roles = <<>>
      /\ namespaces = <<>> /\ types = <<>> /\ fragments = <<>>
  BY DEF Init, CSharpInit
<1>2. frame \in FrameSet
  BY KeysAreKeys, ListsArePaths DEF Frame, FrameSet, FrameKinds
<1>3. Typed
  <2>1. <<>> \in Seq(SymbolSet) /\ <<>> \in Seq(Nat) /\ <<>> \in Seq(EdgeSet)
        /\ <<>> \in Seq(DeferredSet) /\ <<>> \in Seq(FactSet)
    OBVIOUS
  <2>. HIDE DEF frame
  <2>2. <<frame>> \in Seq(FrameSet) /\ Len(<<frame>>) >= 1
    BY <1>2
  <2>. QED BY <1>1, <2>1, <2>2 DEF Typed
<1>4. CSharpTyped
  <2>1. <<>> \in Seq(Paths) /\ <<>> \in Paths /\ DOMAIN <<>> = {}
    BY ListsArePaths
  <2>. QED BY <1>1, <2>1 DEF CSharpTyped
<1>5. Walked
  <2>1. FrameFits(File, frame)
    BY <1>1, FromFile DEF FrameFits, Frame, File
  <2>. HIDE DEF frame
  <2>2. \A f \in 1 .. Len(open) : open[f] = frame
    BY <1>1
  <2>3. /\ Len(homes) = Len(symbols) /\ 1 .. Len(symbols) = {} /\ 1 .. Len(rels) = {}
        /\ 1 .. Len(pending) = {} /\ 1 .. Len(facts) = {}
    BY <1>1
  <2>. QED BY <2>1, <2>2, <2>3 DEF Walked
<1>6. FragmentsCounted
  BY <1>1 DEF FragmentsCounted
<1>. QED BY <1>1, <1>3, <1>4, <1>5, <1>6
     DEF ExtractorInv, KeysUnique, EveryCandidateLinked, OnlyFieldsDangle, RolesAreEarned

-----------------------------------------------------------------------------
(* The end of the analysis: deferred targets.                               *)

(* A deferred target becomes edges from its source, one to each candidate,  *)
(* exact when there is one and of low confidence otherwise.                 *)
LEMMA EdgesOfReference ==
  ASSUME Typed, NEW reference \in DeferredSet
  PROVE  /\ FromOne(EdgesOf(reference), reference.source)
         /\ \A i \in Candidates(reference) :
               \E e \in 1 .. Len(EdgesOf(reference)) :
                  EdgesOf(reference)[e] =
                     EdgeTo(reference, i, IF Cardinality(Candidates(reference)) = 1 THEN "exact" ELSE "low")
<1>. DEFINE source == reference.source
            kind == reference.kind
            found == Candidates(reference)
            confidence == IF Cardinality(found) = 1 THEN "exact" ELSE "low"
            part(i) == IF i \in found THEN <<EdgeTo(reference, i, confidence)>> ELSE <<>>
            parts == [i \in 1 .. Len(symbols) |-> part(i)]
            none == UnresolvedEdge(source, kind, <<reference.name>>)
            all == FlattenSeq(parts)
<1>1. /\ source \in KeySet /\ kind \in EdgeKinds /\ reference.name \in Words
      /\ Len(symbols) \in Nat /\ found \subseteq 1 .. Len(symbols)
      /\ \A i \in 1 .. Len(symbols) : symbols[i].key \in KeySet
  BY Collection, Fields DEF Candidates
<1>2. EdgesOf(reference) = IF found = {} THEN <<none>> ELSE all
  BY DEF EdgesOf
<1>3. none \in EdgeSet /\ none.source = source
  <2>1. none \in EdgeSet
    BY <1>1, MakesEdge
  <2>. QED BY <2>1 DEF UnresolvedEdge, Edge
<1>. HIDE DEF none, found
<1>4. ASSUME NEW i \in found
      PROVE  EdgeTo(reference, i, confidence) \in EdgeSet /\ EdgeTo(reference, i, confidence).source = source
  <2>1. confidence \in Confidences /\ symbols[i].key \in KeySet
    BY <1>1 DEF Confidences
  <2>. HIDE DEF confidence
  <2>2. EdgeTo(reference, i, confidence) \in EdgeSet
    BY <1>1, <2>1, MakesEdge DEF EdgeTo
  <2>. QED BY <2>2 DEF EdgeTo, Edge
<1>. HIDE DEF confidence, EdgeTo
<1>5. ASSUME NEW i \in 1 .. Len(symbols)
      PROVE  part(i) \in Seq(EdgeSet) /\ \A k \in 1 .. Len(part(i)) : part(i)[k].source = source
  BY <1>4
<1>6. parts \in Seq(Seq(EdgeSet)) /\ Len(parts) = Len(symbols)
      /\ \A i \in 1 .. Len(symbols) : parts[i] = part(i)
  <2>. HIDE DEF part
  <2>. QED BY <1>1, <1>5
<1>. HIDE DEF parts
<1>7. /\ all \in Seq(EdgeSet)
      /\ \A s \in 1 .. Len(parts) : \A i \in 1 .. Len(parts[s]) :
            \E e \in 1 .. Len(all) : all[e] = parts[s][i]
      /\ \A e \in 1 .. Len(all) :
            \E s \in 1 .. Len(parts) : \E i \in 1 .. Len(parts[s]) : all[e] = parts[s][i]
  BY <1>6, Flattened, ZenonT(30)
<1>. HIDE DEF all
<1>8. FromOne(EdgesOf(reference), source)
  <2>1. FromOne(<<none>>, source)
    BY <1>3 DEF FromOne
  <2>2. ASSUME NEW e \in 1 .. Len(all) PROVE all[e].source = source
    <3>. HIDE DEF part
    <3>1. PICK s \in 1 .. Len(parts) : \E i \in 1 .. Len(parts[s]) : all[e] = parts[s][i]
      BY <1>7
    <3>2. PICK i \in 1 .. Len(parts[s]) : all[e] = parts[s][i]
      BY <3>1
    <3>3. s \in 1 .. Len(symbols) /\ parts[s] = part(s)
      BY <1>6
    <3>. QED BY <1>5, <3>2, <3>3
  <2>. QED BY <1>2, <1>7, <2>1, <2>2 DEF FromOne
<1>9. ASSUME NEW i \in found
      PROVE  \E e \in 1 .. Len(EdgesOf(reference)) :
                EdgesOf(reference)[e] = EdgeTo(reference, i, confidence)
  <2>1. i \in 1 .. Len(parts) /\ parts[i] = <<EdgeTo(reference, i, confidence)>>
    BY <1>1, <1>6
  <2>2. 1 \in 1 .. Len(parts[i]) /\ parts[i][1] = EdgeTo(reference, i, confidence)
    BY <2>1
  <2>3. \E e \in 1 .. Len(all) : all[e] = EdgeTo(reference, i, confidence)
    <3>1. PICK e \in 1 .. Len(all) : all[e] = parts[i][1]
      BY <1>7, <2>1, <2>2
    <3>. QED BY <2>2, <3>1
  <2>4. EdgesOf(reference) = all
    BY <1>2
  <2>. QED BY <2>3, <2>4
<1>. QED BY <1>8, <1>9 DEF confidence, found

(* The edges of all the deferred targets are those of each, laid end to     *)
(* end.                                                                     *)
LEMMA PendingResolved ==
  ASSUME Typed
  PROVE  /\ ResolvePending \in Seq(EdgeSet)
         /\ \A e \in 1 .. Len(ResolvePending) :
               \E p \in 1 .. Len(pending) : ResolvePending[e].source = pending[p].source
         /\ \A p \in 1 .. Len(pending) : \A k \in 1 .. Len(EdgesOf(pending[p])) :
               \E e \in 1 .. Len(ResolvePending) : ResolvePending[e] = EdgesOf(pending[p])[k]
<1>. DEFINE parts == [p \in 1 .. Len(pending) |-> EdgesOf(pending[p])]
<1>1. ASSUME NEW p \in 1 .. Len(pending) PROVE FromOne(EdgesOf(pending[p]), pending[p].source)
  BY Collection, EdgesOfReference
<1>2. Len(pending) \in Nat /\ ResolvePending = FlattenSeq(parts)
  BY Collection DEF ResolvePending
<1>. HIDE DEF EdgesOf, ResolvePending
<1>3. parts \in Seq(Seq(EdgeSet)) /\ Len(parts) = Len(pending)
      /\ \A p \in 1 .. Len(pending) : parts[p] = EdgesOf(pending[p])
  BY <1>1, <1>2 DEF FromOne
<1>. HIDE DEF parts
<1>4. /\ ResolvePending \in Seq(EdgeSet)
      /\ \A s \in 1 .. Len(parts) : \A i \in 1 .. Len(parts[s]) :
            \E e \in 1 .. Len(ResolvePending) : ResolvePending[e] = parts[s][i]
      /\ \A e \in 1 .. Len(ResolvePending) :
            \E s \in 1 .. Len(parts) : \E i \in 1 .. Len(parts[s]) : ResolvePending[e] = parts[s][i]
  <2>. DEFINE all == FlattenSeq(parts)
  <2>1. /\ all \in Seq(EdgeSet)
        /\ \A s \in 1 .. Len(parts) : \A i \in 1 .. Len(parts[s]) :
              \E e \in 1 .. Len(all) : all[e] = parts[s][i]
        /\ \A e \in 1 .. Len(all) :
              \E s \in 1 .. Len(parts) : \E i \in 1 .. Len(parts[s]) : all[e] = parts[s][i]
    BY <1>3, Flattened
  <2>. QED BY <1>2, <2>1
<1>5. ASSUME NEW e \in 1 .. Len(ResolvePending)
      PROVE  \E p \in 1 .. Len(pending) : ResolvePending[e].source = pending[p].source
  <2>1. PICK p \in 1 .. Len(parts) :
           \E i \in 1 .. Len(parts[p]) : ResolvePending[e] = parts[p][i]
    BY <1>4
  <2>2. PICK i \in 1 .. Len(parts[p]) : ResolvePending[e] = parts[p][i]
    BY <2>1
  <2>3. p \in 1 .. Len(pending) /\ parts[p] = EdgesOf(pending[p])
    BY <1>3
  <2>4. \A k \in 1 .. Len(EdgesOf(pending[p])) : EdgesOf(pending[p])[k].source = pending[p].source
    BY <1>1, <2>3 DEF FromOne
  <2>. QED BY <2>2, <2>3, <2>4
<1>. QED BY <1>3, <1>4, <1>5

-----------------------------------------------------------------------------
(* The end of the analysis: what is returned.                               *)

\* What the analysis returns, by what it was before.
FinishStep == Typed /\ CSharpTyped /\ Walked /\ Finish

(* What the analysis returns: the symbols recognition found, with their     *)
(* ordinals made unique, and before them those of the walk.                 *)
LEMMA Returned ==
  ASSUME FinishStep
  PROVE  /\ Recognized \in FoundSet /\ Recognized.symbols \in Seq(SymbolSet)
         /\ symbols' \in Seq(SymbolSet) /\ Len(symbols') = Len(Recognized.symbols)
         /\ Len(symbols) <= Len(symbols') /\ Len(symbols) \in Nat /\ Len(symbols') \in Nat
         /\ Len(homes) = Len(symbols) /\ homes' = homes /\ language' = language
         /\ \A i \in 1 .. Len(symbols') : Renumbered(symbols'[i], Recognized.symbols[i])
         /\ \A i \in 1 .. Len(symbols) : Renumbered(symbols'[i], symbols[i])
         /\ finished' = TRUE
         /\ KeysUnique'
<1>1. Recognized \in FoundSet
  BY RecognitionRuns DEF FinishStep
<1>2. /\ Recognized.symbols \in Seq(SymbolSet) /\ Len(symbols) <= Len(Recognized.symbols)
      /\ Len(symbols) \in Nat /\ Len(Recognized.symbols) \in Nat
      /\ \A i \in 1 .. Len(symbols) : Recognized.symbols[i] = symbols[i]
  BY <1>1, Collection DEF FoundSet, FoundRecords, FoundFits, FinishStep
<1>3. /\ symbols' = Disambiguated(Recognized.symbols) /\ homes' = homes /\ language' = language
      /\ finished' = TRUE /\ Len(homes) = Len(symbols)
  BY DEF FinishStep, Finish, Walked
<1>4. /\ symbols' \in Seq(SymbolSet) /\ Len(symbols') = Len(Recognized.symbols)
      /\ \A i \in 1 .. Len(symbols') : Renumbered(symbols'[i], Recognized.symbols[i])
      /\ \A i, j \in 1 .. Len(symbols') : StorageKey(symbols'[i]) = StorageKey(symbols'[j]) => i = j
  BY <1>2, <1>3, Disambiguation
<1>5. \A i \in 1 .. Len(symbols) : Renumbered(symbols'[i], symbols[i])
  BY <1>2, <1>4
<1>6. KeysUnique'
  BY <1>4 DEF KeysUnique, StorageKey, Identity
<1>. QED BY <1>1, <1>2, <1>3, <1>4, <1>5, <1>6

(* What was anchored before the keys were made unique is anchored after.    *)
LEMMA AnchoredAfter ==
  ASSUME FinishStep, NEW key,
         Anchored(File, key) \/ Anchored(FileOf(Recognized), key)
  PROVE  Anchored(File', key)
<1>1. /\ Len(symbols) <= Len(symbols') /\ Len(symbols) \in Nat /\ Len(symbols') \in Nat
      /\ Len(symbols') = Len(Recognized.symbols)
      /\ Len(homes) = Len(symbols) /\ homes' = homes /\ language' = language
      /\ \A i \in 1 .. Len(symbols') : Renumbered(symbols'[i], Recognized.symbols[i])
      /\ \A i \in 1 .. Len(symbols) : Renumbered(symbols'[i], symbols[i])
  BY Returned
<1>2. /\ File'.symbols = symbols' /\ File'.homes = homes' /\ File'.language = language'
      /\ File.symbols = symbols /\ File.homes = homes /\ File.language = language
      /\ FileOf(Recognized).symbols = Recognized.symbols
      /\ FileOf(Recognized).homes = homes /\ FileOf(Recognized).language = language
  BY DEF File, FileOf
<1>3. \A i \in 1 .. Len(symbols) : Recognized.symbols[i] = symbols[i] /\ i \in 1 .. Len(symbols')
  BY <1>1, Returned DEF FoundSet, FoundFits
<1>4. CASE Anchored(File, key)
  BY <1>1, <1>2, <1>3, <1>4 DEF Anchored, Renumbered
<1>5. CASE Anchored(FileOf(Recognized), key)
  BY <1>1, <1>2, <1>3, <1>5 DEF Anchored, Renumbered
<1>. QED BY <1>4, <1>5

(* Every edge of the result hangs from an anchored key or from a decorated  *)
(* field.                                                                   *)
LEMMA AllEdges ==
  ASSUME FinishStep
  PROVE  /\ rels' \in Seq(EdgeSet)
         /\ \A e \in 1 .. Len(rels') : Sourced(File', rels'[e])
         /\ \A k \in 1 .. Len(ResolvePending) :
               \E e \in 1 .. Len(rels') : rels'[e] = ResolvePending[k]
<1>. DEFINE some == rels \o ResolvePending
            more == Recognized.rels
<1>1. rels' = some \o more
  BY DEF FinishStep, Finish
<1>2. rels \in Seq(EdgeSet) /\ ResolvePending \in Seq(EdgeSet) /\ more \in Seq(EdgeSet)
  <2>1. Recognized \in FoundSet
    BY Returned
  <2>. QED BY <2>1, PendingResolved DEF FinishStep, Typed, FoundSet, FoundRecords
<1>3. Longer(some, rels, ResolvePending, EdgeSet)
  BY <1>2, Lengthened
<1>. HIDE DEF some, more
<1>4. Longer(rels', some, more, EdgeSet)
  <2>1. some \in Seq(EdgeSet)
    BY <1>3 DEF Longer
  <2>2. Longer(some \o more, some, more, EdgeSet)
    BY <1>2, <2>1, Lengthened
  <2>. QED BY <1>1, <2>2
<1>5. File'.language = language /\ File.language = language
  BY Returned DEF File
<1>6. ASSUME NEW e \in 1 .. Len(rels) PROVE Sourced(File', rels[e])
  <2>1. Sourced(File, rels[e])
    BY DEF FinishStep, Walked
  <2>. QED BY <1>5, <2>1, AnchoredAfter DEF Sourced
<1>7. ASSUME NEW e \in 1 .. Len(ResolvePending) PROVE Sourced(File', ResolvePending[e])
  <2>1. PICK p \in 1 .. Len(pending) : ResolvePending[e].source = pending[p].source
    BY PendingResolved DEF FinishStep
  <2>2. Anchored(File, pending[p].source)
    BY DEF FinishStep, Walked
  <2>. QED BY <2>1, <2>2, AnchoredAfter DEF Sourced
<1>8. ASSUME NEW e \in 1 .. Len(more) PROVE Sourced(File', more[e])
  <2>1. Anchored(FileOf(Recognized), more[e].source)
    BY Returned DEF FoundSet, FoundFits, more
  <2>. QED BY <2>1, AnchoredAfter DEF Sourced
<1>9. ASSUME NEW e \in 1 .. Len(some) PROVE Sourced(File', some[e])
  <2>1. CASE e \in 1 .. Len(rels)
    BY <1>3, <1>6, <2>1 DEF Longer
  <2>2. CASE e \notin 1 .. Len(rels)
    <3>1. PICK k \in 1 .. Len(ResolvePending) : e = Len(rels) + k
      BY <1>3, <2>2 DEF Longer
    <3>. QED BY <1>3, <1>7, <3>1 DEF Longer
  <2>. QED BY <2>1, <2>2
<1>10. ASSUME NEW e \in 1 .. Len(rels') PROVE Sourced(File', rels'[e])
  <2>1. CASE e \in 1 .. Len(some)
    BY <1>4, <1>9, <2>1 DEF Longer
  <2>2. CASE e \notin 1 .. Len(some)
    <3>1. PICK k \in 1 .. Len(more) : e = Len(some) + k
      BY <1>4, <2>2 DEF Longer
    <3>. QED BY <1>4, <1>8, <3>1 DEF Longer
  <2>. QED BY <2>1, <2>2
<1>11. ASSUME NEW k \in 1 .. Len(ResolvePending)
       PROVE  \E e \in 1 .. Len(rels') : rels'[e] = ResolvePending[k]
  <2>1. Len(rels) \in Nat /\ Len(ResolvePending) \in Nat /\ Len(more) \in Nat
    BY <1>2
  <2>2. /\ some[Len(rels) + k] = ResolvePending[k]
        /\ Len(some) = Len(rels) + Len(ResolvePending)
        /\ Len(rels') = Len(some) + Len(more)
    BY <1>3, <1>4 DEF Longer
  <2>3. Len(rels) + k \in 1 .. Len(some) /\ Len(rels) + k \in 1 .. Len(rels')
    BY <2>1, <2>2
  <2>4. rels'[Len(rels) + k] = some[Len(rels) + k]
    BY <1>4, <2>3 DEF Longer
  <2>. QED BY <2>2, <2>3, <2>4
<1>. QED BY <1>4, <1>10, <1>11 DEF Longer

(* Every symbol that fits a deferred target is linked to it.                *)
LEMMA CandidatesLinked ==
  ASSUME FinishStep
  PROVE  EveryCandidateLinked'
<1>1. /\ homes' = homes /\ Len(homes) = Len(symbols) /\ language' = language /\ pending' = pending
      /\ \A i \in 1 .. Len(symbols) : /\ symbols'[i].name = symbols[i].name
                                      /\ symbols'[i].kind = symbols[i].kind
                                      /\ symbols'[i].key = symbols[i].key
  BY Returned DEF FinishStep, Finish, Renumbered
<1>. SUFFICES ASSUME NEW p \in 1 .. Len(pending), NEW i \in 1 .. Len(homes), Fits(pending[p], i)'
              PROVE  \E e \in 1 .. Len(rels') :
                        /\ rels'[e].source = pending[p].source
                        /\ rels'[e].kind = pending[p].kind
                        /\ rels'[e].target = LocalTarget(symbols'[i].key)
                        /\ rels'[e].confidence = "exact" <=>
                              \A j \in 1 .. Len(homes) : Fits(pending[p], j)' => j = i
  <2>. SUFFICES ASSUME NEW p \in 1 .. Len(pending'), NEW i \in 1 .. Len(homes'),
                       Fits(pending[p], i)', SymbolAt(symbols[i].key)' = i
                PROVE  \E e \in 1 .. Len(rels') :
                          /\ rels'[e].source = pending'[p].source
                          /\ rels'[e].kind = pending'[p].kind
                          /\ rels'[e].target = LocalTarget(symbols[i].key)'
                          /\ rels'[e].confidence = "exact" <=>
                                \A j \in 1 .. Len(homes') : Fits(pending[p], j)' => j = i
    BY DEF EveryCandidateLinked
  <2>1. pending' = pending /\ homes' = homes
    BY <1>1
  <2>. QED BY <2>1
<1>. DEFINE reference == pending[p]
            found == Candidates(reference)
            confidence == IF Cardinality(found) = 1 THEN "exact" ELSE "low"
            edge == EdgeTo(reference, i, confidence)
<1>2. \A j \in 1 .. Len(homes) : Fits(reference, j)' <=> j \in found
  BY <1>1 DEF Fits, Candidates, KindMatches, CSharpMatches, TypeScriptMatches
<1>3. reference \in DeferredSet /\ Typed /\ Len(symbols) \in Nat
  BY Collection DEF FinishStep
<1>4. i \in found /\ found \subseteq 1 .. Len(symbols)
  BY <1>2 DEF Candidates
<1>5. PICK k \in 1 .. Len(EdgesOf(reference)) : EdgesOf(reference)[k] = edge
  <2>. HIDE DEF EdgesOf, EdgeTo, Candidates
  <2>. QED BY <1>3, <1>4, EdgesOfReference
<1>6. PICK q \in 1 .. Len(ResolvePending) : ResolvePending[q] = edge
  <2>. HIDE DEF edge
  <2>. QED BY <1>3, <1>5, PendingResolved
<1>7. PICK e \in 1 .. Len(rels') : rels'[e] = edge
  <2>. HIDE DEF edge
  <2>. QED BY <1>6, AllEdges
<1>8. confidence = "exact" <=> \A j \in 1 .. Len(homes) : Fits(reference, j)' => j = i
  <2>1. IsFiniteSet(found)
    <3>1. IsFiniteSet(1 .. Len(symbols))
      BY <1>3, FS_Interval
    <3>. QED BY <1>4, <3>1, FS_Subset
  <2>. HIDE DEF found
  <2>2. Cardinality(found) = 1 <=> found = {i}
    <3>1. Cardinality(found) = 1 => \E x : found = {x}
      BY <2>1, FS_Singleton
    <3>2. Cardinality({i}) = 1
      BY FS_Singleton
    <3>. QED BY <1>4, <3>1, <3>2
  <2>3. found = {i} <=> \A j \in found : j = i
    BY <1>4
  <2>4. (\A j \in found : j = i) <=> \A j \in 1 .. Len(homes) : j \in found => j = i
    BY <1>1, <1>4
  <2>5. confidence = "exact" <=> Cardinality(found) = 1
    OBVIOUS
  <2>. HIDE DEF confidence
  <2>. QED BY <1>2, <2>2, <2>3, <2>4, <2>5
<1>9. /\ edge.source = reference.source /\ edge.kind = reference.kind
      /\ edge.target = LocalTarget(symbols[i].key) /\ edge.confidence = confidence
  BY DEF EdgeTo, Edge
<1>10. symbols'[i].key = symbols[i].key
  BY <1>1
<1>. HIDE DEF edge, confidence
<1>. QED BY <1>7, <1>8, <1>9, <1>10

-----------------------------------------------------------------------------
(* The end of the analysis: what dangles and what is worn.                  *)

(* An anchored key names a symbol, or a class written inside another        *)
(* declaration.                                                             *)
LEMMA AnchoredIsThere ==
  ASSUME Len(symbols) \in Nat, Len(homes) \in Nat, Len(homes) <= Len(symbols),
         NEW key, Anchored(File, key), SymbolAt(key) = NoSymbol
  PROVE  language = "typescript" /\ InnerClass(key)
<1>. DEFINE keyed == {i \in 1 .. Len(symbols) : symbols[i].key = key}
<1>1. key # FileKey
  BY DEF SymbolAt, NoSymbol
<1>2. keyed = {}
  <2>. SUFFICES ASSUME keyed # {} PROVE FALSE
    OBVIOUS
  <2>1. keyed \in SUBSET (1 .. Len(symbols))
    OBVIOUS
  <2>2. SymbolAt(key) = Max(keyed)
    BY <1>1 DEF SymbolAt
  <2>. HIDE DEF keyed
  <2>3. Max(keyed) \in 1 .. Len(symbols)
    BY <2>1, Greatest
  <2>. QED BY <2>2, <2>3 DEF NoSymbol
<1>3. /\ File.symbols = symbols /\ File.homes = homes /\ File.language = language
  BY DEF File
<1>4. /\ language = "typescript"
      /\ \E i \in 1 .. Len(homes) :
            symbols[i].kind = "class" /\ homes[i] # 0 /\ symbols[i].name = key.path
  BY <1>1, <1>2, <1>3 DEF Anchored
<1>. QED BY <1>4 DEF InnerClass

\* The shape of the analysis's result that OnlyFieldsDangle follows from.
AllSourced ==
    /\ Len(symbols) \in Nat /\ Len(homes) \in Nat /\ Len(homes) <= Len(symbols)
    /\ \A e \in 1 .. Len(rels) : Sourced(File, rels[e])

(* If every edge of the result hangs so, then only fields and inner classes *)
(* dangle.                                                                  *)
LEMMA SourcedDangle ==
  AllSourced => OnlyFieldsDangle
<1>. SUFFICES ASSUME AllSourced, NEW e \in 1 .. Len(rels), SymbolAt(rels[e].source) = NoSymbol
              PROVE  /\ language = "typescript"
                     /\ \/ rels[e].kind = "decorates" /\ Field(rels[e].source)
                        \/ InnerClass(rels[e].source)
  BY DEF OnlyFieldsDangle
<1>1. File.language = language /\ Sourced(File, rels[e])
  BY DEF File, AllSourced
<1>2. CASE Anchored(File, rels[e].source)
  BY <1>2, AnchoredIsThere DEF AllSourced
<1>3. CASE ~Anchored(File, rels[e].source)
  BY <1>1, <1>3 DEF Sourced, Field
<1>. QED BY <1>2, <1>3

(* The catalogue's rule with its two departures comes to this: a class       *)
(* named controller is one by a member with [Http...] or [Function].        *)
LEMMA ControllersEarned ==
  ASSUME NEW i
  PROVE  ((Catalogued(i) /\ ~RouteOverlooked(i)) \/ FunctionCounted(i))
            <=> Carries(i, {"api"}) \/ (NamedForControllers(i) /\ MemberCarries(i, Routes))
<1>1. MemberCarries(i, Routes) <=> MemberCarries(i, {"http"}) \/ MemberCarries(i, {"function"})
  BY DEF MemberCarries, Carries, Routes
<1>2. MemberCarries(i, {"http"}) => MemberCarries(i, {"route", "http"})
  BY DEF MemberCarries, Carries
<1>. HIDE DEF MemberCarries, Carries, NamedForControllers
<1>. QED BY <1>1, <1>2 DEF Catalogued, RouteOverlooked, FunctionCounted

(* What is gained from the facts is what is earned.                         *)
LEMMA GainedIsEarned ==
  ASSUME Typed, Walked, NEW i \in 1 .. Len(homes)
  PROVE  GainedBy(Len(facts), i) = Earned(i)
<1>. DEFINE F == 1 .. Len(facts)
            named == symbols[i].name[1] \in Controllers
            of(f) == RolesOf(facts[f].what, symbols[i].name)
            own == UNION {of(f) : f \in {g \in F : facts[g].home = i}}
            led == MemberCarries(i, Routes)
<1>1. Earned(i) = (IF Carries(i, Routes) THEN {"route"} ELSE {})
         \union (IF Carries(i, {"api"}) \/ (symbols[i].kind = "class" /\ named /\ led)
                 THEN {"controller"} ELSE {})
         \union own
  <2>1. NamedForControllers(i) <=> symbols[i].kind = "class" /\ named
    BY DEF NamedForControllers
  <2>2. Carries(i, Routes) <=> Carries(i, {"http", "function"})
    BY DEF Routes
  <2>. HIDE DEF Routes, named, Catalogued, RouteOverlooked, FunctionCounted, NamedForControllers
  <2>. QED BY <2>1, <2>2, ControllersEarned DEF Earned
<1>2. ASSUME NEW f \in F, facts[f].what \in Routes, homes[facts[f].home] = i
      PROVE  symbols[i].kind = "class" /\ led
  <2>1. /\ FactFits(File, facts[f]) /\ File.homes = homes /\ File.symbols = symbols
        /\ File.language = language /\ language \in {"csharp", "typescript"}
        /\ facts[f].home \in Nat /\ Len(homes) \in Nat
    BY Collection, Fields DEF Walked, File, Typed
  <2>2. facts[f].what \in MethodFacts /\ facts[f].what \notin CallFacts
        /\ facts[f].what \notin {"routes"} \union ClassFacts
    BY <1>2 DEF Routes, MethodFacts, CallFacts, ClassFacts
  <2>3. facts[f].home # 0 /\ symbols[i].kind = "class"
    BY <1>2, <2>1, <2>2 DEF FactFits
  <2>4. facts[f].home \in 1 .. Len(homes)
    BY <2>1, <2>3 DEF FactFits
  <2>. QED BY <1>2, <2>3, <2>4 DEF MemberCarries, Carries
<1>3. led => \E f \in F : facts[f].what \in Routes /\ homes[facts[f].home] = i
  BY DEF MemberCarries, Carries
<1>4. ASSUME NEW x PROVE x \in GainedBy(Len(facts), i) <=> \E f \in F : x \in Gain(facts[f], i)
  BY DEF GainedBy
<1>5. ASSUME NEW x, NEW f \in F
      PROVE  x \in Gain(facts[f], i) <=>
                \/ x = "route" /\ facts[f].home = i /\ facts[f].what \in Routes
                \/ x = "controller" /\ facts[f].what = "api" /\ facts[f].home = i
                \/ x = "controller" /\ facts[f].what \in Routes /\ homes[facts[f].home] = i /\ named
                \/ facts[f].home = i /\ x \in of(f)
  BY DEF Gain
<1>6. ASSUME NEW x PROVE x \in own <=> \E f \in F : facts[f].home = i /\ x \in of(f)
  <2>. HIDE DEF of
  <2>. QED OBVIOUS
<1>10. /\ Carries(i, Routes) <=> \E f \in F : facts[f].home = i /\ facts[f].what \in Routes
       /\ Carries(i, {"api"}) <=> \E f \in F : facts[f].home = i /\ facts[f].what = "api"
  BY DEF Carries
<1>. HIDE DEF own, of, led, Gain, GainedBy, Earned, Carries
<1>7. ASSUME NEW x
      PROVE  x \in Earned(i) <=>
                \/ x = "route" /\ Carries(i, Routes)
                \/ x = "controller" /\ Carries(i, {"api"})
                \/ x = "controller" /\ symbols[i].kind = "class" /\ named /\ led
                \/ x \in own
  BY <1>1
<1>. HIDE DEF named
<1>8. (named /\ \E f \in F : facts[f].what \in Routes /\ homes[facts[f].home] = i)
         <=> (symbols[i].kind = "class" /\ named /\ led)
  BY <1>2, <1>3
<1>9. ASSUME NEW x PROVE x \in GainedBy(Len(facts), i) <=> x \in Earned(i)
  <2>1. x \in GainedBy(Len(facts), i) <=>
           \/ x = "route" /\ Carries(i, Routes)
           \/ x = "controller" /\ Carries(i, {"api"})
           \/ x = "controller" /\ named /\ \E f \in F : facts[f].what \in Routes /\ homes[facts[f].home] = i
           \/ \E f \in F : facts[f].home = i /\ x \in of(f)
    <3>1. x \in GainedBy(Len(facts), i) <=>
             \/ x = "route" /\ \E f \in F : facts[f].home = i /\ facts[f].what \in Routes
             \/ x = "controller" /\ \E f \in F : facts[f].home = i /\ facts[f].what = "api"
             \/ x = "controller" /\ named /\ \E f \in F : facts[f].what \in Routes /\ homes[facts[f].home] = i
             \/ \E f \in F : facts[f].home = i /\ x \in of(f)
      BY <1>4, <1>5
    <3>. QED BY <1>10, <3>1
  <2>. QED BY <1>6, <1>7, <1>8, <2>1
<1>. QED BY <1>9

(* Every symbol told apart wears the roles it has earned.                   *)
LEMMA RolesWorn ==
  ASSUME FinishStep
  PROVE  RolesAreEarned'
<1>1. /\ homes' = homes /\ Len(homes) = Len(symbols) /\ language' = language
      /\ facts' = facts /\ roles' = Recognized.roles
      /\ \A i \in 1 .. Len(symbols) : /\ symbols'[i].name = symbols[i].name
                                      /\ symbols'[i].kind = symbols[i].kind
                                      /\ symbols'[i].key = symbols[i].key
  BY Returned DEF FinishStep, Finish, Renumbered
<1>2. Tallied(Len(facts), Recognized)
  BY RecognitionRuns DEF FinishStep
<1>. SUFFICES ASSUME NEW i \in 1 .. Len(homes), Recognizable(i)' PROVE roles'[i] = Earned(i)'
  BY <1>1 DEF RolesAreEarned
<1>3. Recognizable(i)
  BY <1>1 DEF Recognizable
<1>4. roles'[i] = GainedBy(Len(facts), i)
  <2>. HIDE DEF GainedBy, Recognizable
  <2>. QED BY <1>1, <1>2, <1>3 DEF Tallied
<1>5. GainedBy(Len(facts), i) = Earned(i)
  BY GainedIsEarned DEF FinishStep
<1>6. Earned(i)' = Earned(i)
  <2>1. (\A h, attributes : Carries(h, attributes)' <=> Carries(h, attributes))
        /\ symbols'[i].kind = symbols[i].kind /\ symbols'[i].name = symbols[i].name
    BY <1>1 DEF Carries
  <2>2. (\A attributes : MemberCarries(i, attributes)' <=> MemberCarries(i, attributes))
        /\ (NamedForControllers(i)' <=> NamedForControllers(i))
    BY <1>1, <2>1 DEF MemberCarries, NamedForControllers
  <2>. HIDE DEF Carries, MemberCarries, NamedForControllers
  <2>. QED BY <1>1, <2>1, <2>2 DEF Earned, Catalogued, RouteOverlooked, FunctionCounted
<1>. QED BY <1>4, <1>5, <1>6

-----------------------------------------------------------------------------
(* Every step keeps the invariant.                                          *)

(* The end of the analysis keeps the invariant, and makes good what is      *)
(* promised of the result.                                                  *)
LEMMA FinishKeeps ==
  ASSUME ExtractorInv, Finish
  PROVE  ExtractorInv'
<1>1. FinishStep
  BY DEF ExtractorInv, Finish, FinishStep
<1>2. /\ symbols' \in Seq(SymbolSet) /\ Len(symbols) <= Len(symbols') /\ Len(symbols) \in Nat
      /\ Len(symbols') \in Nat /\ Len(homes) = Len(symbols) /\ homes' = homes
      /\ finished' = TRUE /\ KeysUnique'
  BY <1>1, Returned
<1>3. /\ rels' \in Seq(EdgeSet) /\ \A e \in 1 .. Len(rels') : Sourced(File', rels'[e])
  BY <1>1, AllEdges
<1>4. UNCHANGED <<language, open, pending, homes, facts, csharpVars>>
  BY DEF Finish
<1>5. Typed'
  BY <1>1, <1>2, <1>3, <1>4 DEF Typed, FinishStep
<1>6. CSharpTyped'
  BY <1>1, <1>4 DEF CSharpTyped, csharpVars, FinishStep
<1>7. AllSourced'
  BY <1>2, <1>3 DEF AllSourced
<1>8. OnlyFieldsDangle'
  BY <1>7, SourcedDangle, PTL
<1>9. EveryCandidateLinked' /\ RolesAreEarned'
  BY <1>1, CandidatesLinked, RolesWorn
<1>. QED BY <1>2, <1>5, <1>6, <1>8, <1>9 DEF ExtractorInv

(* A step that changes nothing keeps the invariant.                         *)
LEMMA StutterKeeps ==
  ASSUME ExtractorInv, UNCHANGED vars
  PROVE  ExtractorInv'
<1>1. /\ language' = language /\ open' = open /\ symbols' = symbols /\ rels' = rels
      /\ pending' = pending /\ finished' = finished /\ homes' = homes
      /\ namespaces' = namespaces /\ types' = types /\ fragments' = fragments
      /\ facts' = facts /\ roles' = roles
  BY DEF vars, shared, csharpVars, frameworkVars
<1>2. File' = File
  BY <1>1 DEF File
<1>3. Typed' /\ CSharpTyped' /\ (~finished' => Walked' /\ FragmentsCounted')
  BY <1>1, <1>2 DEF ExtractorInv, Typed, CSharpTyped, Walked, FragmentsCounted, Fragment
<1>4. KeysUnique'
  BY <1>1 DEF ExtractorInv, KeysUnique
<1>5. EveryCandidateLinked'
  <2>1. \A p \in 1 .. Len(pending), j \in 1 .. Len(homes) :
           Fits(pending[p], j)' <=> Fits(pending[p], j)
    BY <1>1 DEF Fits, KindMatches, CSharpMatches, TypeScriptMatches
  <2>2. \A i \in 1 .. Len(homes) : SymbolAt(symbols[i].key)' = SymbolAt(symbols[i].key)
    BY <1>1 DEF SymbolAt
  <2>3. \A i : LocalTarget(symbols[i].key)' = LocalTarget(symbols[i].key)
    BY <1>1 DEF LocalTarget
  <2>. SUFFICES ASSUME finished, NEW p \in 1 .. Len(pending), NEW i \in 1 .. Len(homes),
                       Fits(pending[p], i), SymbolAt(symbols[i].key) = i
                PROVE  \E e \in 1 .. Len(rels) :
                          /\ rels[e].source = pending[p].source
                          /\ rels[e].kind = pending[p].kind
                          /\ rels[e].target = LocalTarget(symbols[i].key)
                          /\ rels[e].confidence = "exact" <=>
                                \A j \in 1 .. Len(homes) : Fits(pending[p], j) => j = i
    <3>. HIDE DEF Fits, SymbolAt, LocalTarget
    <3>. QED BY <1>1, <2>1, <2>2, <2>3 DEF EveryCandidateLinked
  <2>. QED BY DEF ExtractorInv, EveryCandidateLinked
<1>6. OnlyFieldsDangle'
  <2>1. \A e : SymbolAt(rels[e].source)' = SymbolAt(rels[e].source)
    BY <1>1 DEF SymbolAt
  <2>2. \A e : InnerClass(rels[e].source)' <=> InnerClass(rels[e].source)
    BY <1>1 DEF InnerClass
  <2>3. OnlyFieldsDangle
    BY DEF ExtractorInv
  <2>. HIDE DEF SymbolAt, InnerClass, Field
  <2>. QED BY <1>1, <2>1, <2>2, <2>3 DEF OnlyFieldsDangle, Field
<1>7. RolesAreEarned'
  BY <1>1
     DEF ExtractorInv, RolesAreEarned, Recognizable, Earned, Catalogued, RouteOverlooked,
         FunctionCounted, NamedForControllers, MemberCarries, Carries
<1>. QED BY <1>3, <1>4, <1>5, <1>6, <1>7 DEF ExtractorInv

(* Every step keeps the invariant.                                          *)
LEMMA StepKeeps ==
  ASSUME ExtractorInv, [Next]_vars
  PROVE  ExtractorInv'
BY WalkKeeps, FinishKeeps, StutterKeeps DEF Next

-----------------------------------------------------------------------------
(* The theorems.                                                            *)

(* The invariant holds of every analysis, for every set of names, lists and *)
(* calls and every bound.                                                   *)
THEOREM ExtractorInvHolds == Spec => []ExtractorInv
<1>1. ExtractorInv /\ [Next]_vars => ExtractorInv'
  BY StepKeeps
<1>. QED BY <1>1, InitFits, PTL DEF Spec

(* extract::analyze never returns two symbols with one storage key:         *)
(* UNIQUE(project_id, symbol_key) cannot fail for one file.                 *)
THEOREM KeysUniqueHolds == Spec => []KeysUnique
<1>1. ExtractorInv => KeysUnique
  BY DEF ExtractorInv
<1>. QED BY <1>1, ExtractorInvHolds, PTL

(* A target put off until the file is known is linked to every symbol that  *)
(* fits, and exactly so only when it is the one.                            *)
THEOREM EveryCandidateLinkedHolds == Spec => []EveryCandidateLinked
<1>1. ExtractorInv => EveryCandidateLinked
  BY DEF ExtractorInv
<1>. QED BY <1>1, ExtractorInvHolds, PTL

(* The only edges without a stored symbol to hang from are those of         *)
(* decorated fields and of inner classes.                                   *)
THEOREM OnlyFieldsDangleHolds == Spec => []OnlyFieldsDangle
<1>1. ExtractorInv => OnlyFieldsDangle
  BY DEF ExtractorInv
<1>. QED BY <1>1, ExtractorInvHolds, PTL

(* A symbol that can be told apart wears the framework roles it has earned, *)
(* and no other.                                                            *)
THEOREM RolesAreEarnedHolds == Spec => []RolesAreEarned
<1>1. ExtractorInv => RolesAreEarned
  BY DEF ExtractorInv
<1>. QED BY <1>1, ExtractorInvHolds, PTL

(* A C# declaration hangs from the very declaration it is written in,       *)
(* fragment by fragment, wherever the home has an identity of its own.      *)
THEOREM ContainmentIsLexicalHolds == Spec => []ContainmentIsLexical
<1>1. ExtractorInv => ContainmentIsLexical
  BY ContainmentFollows
<1>. QED BY <1>1, ExtractorInvHolds, PTL

(* Declaring more at the end of a file moves no storage key of what is      *)
(* declared above.                                                          *)
THEOREM KeysStableHolds == Spec => KeysStable
<1>1. ExtractorInv /\ [Next]_vars
         => [~finished' => IsPrefix(Disambiguated(symbols), Disambiguated(symbols'))]_symbols
  <2>. SUFFICES ASSUME ExtractorInv, [Next]_vars, symbols' # symbols, ~finished'
                PROVE  IsPrefix(Disambiguated(symbols), Disambiguated(symbols'))
    OBVIOUS
  <2>1. CASE ~finished /\ Walk
    BY <2>1, WalkKeepsKeys
  <2>2. CASE Finish
    BY <2>2 DEF Finish
  <2>3. CASE UNCHANGED vars
    BY <2>3 DEF vars, shared
  <2>. QED BY <2>1, <2>2, <2>3 DEF Next
<1>. QED BY <1>1, ExtractorInvHolds, PTL DEF Spec, KeysStable
=============================================================================
