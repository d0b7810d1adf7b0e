--------------------------- MODULE Sublists_proofs ---------------------------
(***************************************************************************)
(* Facts about functions defined by recursion on a number, and about Where *)
(* for every sequence.  Induction is by the least counterexample, for the  *)
(* theorems about induction can not be instantiated.                       *)
(***************************************************************************)
EXTENDS Sublists, Integers, SequencesExt, SequenceTheorems, FunctionTheorems,
        WellFoundedInduction, TLAPS

(* Every set of naturals with an element has a least one.                   *)
LEMMA LeastNat ==
  ASSUME NEW T \in SUBSET Nat, T # {}
  PROVE  \E m \in T : \A k \in T : m <= k
<1> DEFINE R == {ss \in Nat \X Nat : ss[1] < ss[2]}
<1>1. IsWellFoundedOn(R, Nat)
  BY NatLessThanWellFounded, Zenon DEF OpToRel
<1> HIDE DEF R
<1>2. PICK m \in T : \A k \in T : ~ (<<k, m>> \in R)
  BY <1>1, WFMin
<1>3. \A k \in T : ~ (k < m)
  BY <1>2 DEF R
<1> QED
  BY <1>3

LEMMA MinOf ==
  ASSUME NEW T \in SUBSET Nat, T # {}
  PROVE  Min(T) \in T /\ \A k \in T : Min(T) <= k
BY LeastNat DEF Min

(* A set that contains 0, and with m - 1 also m up to n, contains 0 .. n.   *)
LEMMA UpTo ==
  ASSUME NEW n \in Nat, NEW T, 0 \in T, \A m \in 1 .. n : m - 1 \in T => m \in T
  PROVE  0 .. n \subseteq T
<1> DEFINE Bad == {m \in 0 .. n : m \notin T}
<1>1. CASE Bad = {}
  BY <1>1
<1>2. CASE Bad # {}
  <2>0. Bad \subseteq Nat
    OBVIOUS
  <2> HIDE DEF Bad
  <2>1. PICK m \in Bad : \A k \in Bad : m <= k
    BY <1>2, <2>0, LeastNat
  <2> USE DEF Bad
  <2>2. m \in 1 .. n /\ m - 1 \in 0 .. n /\ m - 1 \notin Bad
    BY <2>1
  <2> QED
    BY <2>1, <2>2
<1> QED
  BY <1>1, <1>2

(* What a step defines from the element before it exists.                   *)
LEMMA Iteration ==
  ASSUME NEW T, NEW base \in T, NEW n \in Nat, NEW step \in [1 .. n -> [T -> T]]
  PROVE  \E f \in [0 .. n -> T] :
           f[0] = base /\ \A i \in 1 .. n : f[i] = step[i][f[i - 1]]
<1> DEFINE Good == {m \in 0 .. n : \E f \in [0 .. m -> T] :
                      f[0] = base /\ \A i \in 1 .. m : f[i] = step[i][f[i - 1]]}
<1>1. 0 \in Good
  <2> DEFINE f == [i \in 0 .. 0 |-> base]
  <2>1. f \in [0 .. 0 -> T] /\ f[0] = base /\ \A i \in 1 .. 0 : f[i] = step[i][f[i - 1]]
    OBVIOUS
  <2> HIDE DEF f
  <2>2. 0 \in 0 .. n
    OBVIOUS
  <2> QED
    BY <2>1, <2>2
<1>2. ASSUME NEW m \in 1 .. n, m - 1 \in Good PROVE m \in Good
  <2>1. PICK f \in [0 .. m - 1 -> T] :
          f[0] = base /\ \A i \in 1 .. m - 1 : f[i] = step[i][f[i - 1]]
    BY <1>2
  <2> DEFINE g == [i \in 0 .. m |-> IF i = m THEN step[m][f[m - 1]] ELSE f[i]]
  <2>2. step[m][f[m - 1]] \in T
    <3>1. f[m - 1] \in T
      BY <2>1
    <3> QED
      BY <3>1
  <2>3. g \in [0 .. m -> T]
    BY <2>1, <2>2
  <2>4. g[0] = base
    BY <2>1
  <2>5. ASSUME NEW i \in 1 .. m PROVE g[i] = step[i][g[i - 1]]
    BY <2>1
  <2> HIDE DEF g
  <2>6. m \in 0 .. n
    OBVIOUS
  <2> QED
    BY <2>3, <2>4, <2>5, <2>6
<1> HIDE DEF Good
<1>3. 0 .. n \subseteq Good
  BY <1>1, <1>2, UpTo
<1>4. n \in Good
  BY <1>3
<1> QED
  BY <1>4 DEF Good

(* The same of all types, bases and steps at once.                          *)
LEMMA Iterations ==
  \A T : \A base \in T : \A n \in Nat : \A step \in [1 .. n -> [T -> T]] :
    \E g \in [0 .. n -> T] : g[0] = base /\ \A i \in 1 .. n : g[i] = step[i][g[i - 1]]
BY Iteration

(* The recursion that defines Where, element by element: kept[n] is what    *)
(* has been gathered of the first n.                                        *)
Gathers(kept, s, Keep) ==
  /\ kept[0] = <<>>
  /\ \A n \in 1 .. Len(s) :
       kept[n] = IF s[n] \in Keep THEN Append(kept[n - 1], s[n]) ELSE kept[n - 1]
  /\ Where(s, Keep) = kept[Len(s)]

LEMMA WhereDef ==
  ASSUME NEW S, NEW s, s \in Seq(S), NEW Keep
  PROVE  \E kept \in [0 .. Len(s) -> Seq(S)] : Gathers(kept, s, Keep)
<1> DEFINE step == [n \in 1 .. Len(s) |->
                      [t \in Seq(S) |-> IF s[n] \in Keep THEN Append(t, s[n]) ELSE t]]
           Is(f) == f = [n \in 0 .. Len(s) |->
                           IF n = 0 THEN <<>>
                           ELSE IF s[n] \in Keep THEN Append(f[n - 1], s[n]) ELSE f[n - 1]]
<1>1. step \in [1 .. Len(s) -> [Seq(S) -> Seq(S)]]
  OBVIOUS
<1>2. Len(s) \in Nat /\ <<>> \in Seq(S)
  OBVIOUS
<1>2b. DOMAIN s = 1 .. Len(s) /\ \A n \in 1 .. Len(s) : s[n] \in S
  OBVIOUS
<1> HIDE DEF step
<1>3. PICK g \in [0 .. Len(s) -> Seq(S)] :
        g[0] = <<>> /\ \A i \in 1 .. Len(s) : g[i] = step[i][g[i - 1]]
  <2> DEFINE T == Seq(S)
             N == Len(s)
             base == <<>>
  <2>1. base \in T /\ N \in Nat /\ step \in [1 .. N -> [T -> T]]
    BY <1>1, <1>2
  <2> HIDE DEF T, N, base
  <2>2. \E g \in [0 .. N -> T] : g[0] = base /\ \A i \in 1 .. N : g[i] = step[i][g[i - 1]]
    BY ONLY <2>1, Iterations
  <2> QED
    BY ONLY <2>2, Zenon DEF T, N, base
<1>4. \A i \in 1 .. Len(s) : g[i - 1] \in Seq(S)
  BY <1>3
<1>5. Is(g)
  <2>1. ASSUME NEW n \in 1 .. Len(s)
        PROVE  g[n] = IF s[n] \in Keep THEN Append(g[n - 1], s[n]) ELSE g[n - 1]
    <3>1. step[n][g[n - 1]] = IF s[n] \in Keep THEN Append(g[n - 1], s[n]) ELSE g[n - 1]
      BY <1>4 DEF step
    <3> QED
      BY <1>3, <3>1
  <2>2. \A n \in 0 .. Len(s) : n = 0 \/ n \in 1 .. Len(s)
    <3> DEFINE L == Len(s)
    <3>1. L \in Nat
      BY <1>2
    <3> HIDE DEF L
    <3>2. \A n \in 0 .. L : n = 0 \/ n \in 1 .. L
      BY ONLY <3>1, SMTT(40)
    <3> QED
      BY <3>2 DEF L
  <2> QED
    BY <1>3, <2>1, <2>2, Zenon
<1> DEFINE kept == CHOOSE f : Is(f)
<1>6. Is(kept)
  BY <1>5, ZenonT(60)
<1>7. Where(s, Keep) = kept[Len(s)]
  BY DEF Where
<1> HIDE DEF kept
<1>8. kept[0] = <<>>
  BY <1>6, <1>2
<1>9. ASSUME NEW n \in 1 .. Len(s)
      PROVE  kept[n] = IF s[n] \in Keep THEN Append(kept[n - 1], s[n]) ELSE kept[n - 1]
  <2>1. n \in 0 .. Len(s) /\ n # 0
    BY <1>2
  <2> QED
    BY <1>6, <2>1
<1>10. \A n \in 0 .. Len(s) : kept[n] \in Seq(S)
  <2> DEFINE T == {n \in 0 .. Len(s) : kept[n] \in Seq(S)}
  <2>1. 0 \in T
    <3>1. 0 \in 0 .. Len(s)
      BY <1>2
    <3> QED
      BY <1>2, <1>8, <3>1
  <2>2. ASSUME NEW n \in 1 .. Len(s), n - 1 \in T PROVE n \in T
    <3>1. n \in 0 .. Len(s) /\ kept[n - 1] \in Seq(S)
      BY <1>2, <2>2
    <3>2. Append(kept[n - 1], s[n]) \in Seq(S)
      BY <1>2b, <3>1
    <3> QED
      BY <1>9, <3>1, <3>2
  <2> HIDE DEF T
  <2>3. 0 .. Len(s) \subseteq T
    BY <1>2, <2>1, <2>2, UpTo
  <2> QED
    BY <2>3 DEF T
<1>11. kept = [n \in 0 .. Len(s) |-> kept[n]]
  BY <1>6
<1>12. kept \in [0 .. Len(s) -> Seq(S)]
  BY <1>10, <1>11
<1>13. Gathers(kept, s, Keep)
  BY <1>7, <1>8, <1>9 DEF Gathers
<1> QED
  BY <1>12, <1>13

(* Which elements Where gathers: those in the set, each once, in their      *)
(* order; at[j] is the place that its element j has in s.                   *)
Places(at, s, Keep) ==
  /\ at \in [1 .. Len(Where(s, Keep)) -> 1 .. Len(s)]
  /\ \A j \in 1 .. Len(Where(s, Keep)) :
       Where(s, Keep)[j] = s[at[j]] /\ s[at[j]] \in Keep
  /\ \A j, k \in 1 .. Len(Where(s, Keep)) : j < k => at[j] < at[k]
  /\ \A i \in 1 .. Len(s) :
       s[i] \in Keep => \E j \in 1 .. Len(Where(s, Keep)) : at[j] = i

LEMMA WherePlaces ==
  ASSUME NEW S, NEW s \in Seq(S), NEW Keep
  PROVE  Where(s, Keep) \in Seq(S) /\ \E at : Places(at, s, Keep)
<1>1. PICK kept \in [0 .. Len(s) -> Seq(S)] : Gathers(kept, s, Keep)
  BY WhereDef
<1> DEFINE Good(n, at) ==
             /\ at \in [1 .. Len(kept[n]) -> 1 .. n]
             /\ \A j \in 1 .. Len(kept[n]) : kept[n][j] = s[at[j]] /\ s[at[j]] \in Keep
             /\ \A j, k \in 1 .. Len(kept[n]) : j < k => at[j] < at[k]
             /\ \A i \in 1 .. n : s[i] \in Keep => \E j \in 1 .. Len(kept[n]) : at[j] = i
           T == {n \in 0 .. Len(s) : \E at : Good(n, at)}
<1>2. Len(s) \in Nat /\ \A n \in 1 .. Len(s) : s[n] \in S
  OBVIOUS
<1>3. 0 \in T
  <2> DEFINE at == [j \in 1 .. 0 |-> j]
  <2>1. Len(kept[0]) = 0
    BY <1>1 DEF Gathers
  <2>2. Good(0, at)
    BY <2>1
  <2> QED
    BY <1>2, <2>2, SMTT(40)
<1>4. ASSUME NEW n \in 1 .. Len(s), n - 1 \in T PROVE n \in T
  <2>1. PICK at : Good(n - 1, at)
    BY <1>4
  <2>2. kept[n - 1] \in Seq(S) /\ Len(kept[n - 1]) \in Nat /\ n \in 0 .. Len(s)
    <3>1. n - 1 \in 0 .. Len(s) /\ n \in 0 .. Len(s)
      BY <1>2
    <3> QED
      BY <3>1
  <2>3. CASE s[n] \notin Keep
    <3>1. kept[n] = kept[n - 1]
      BY <1>1, <2>3 DEF Gathers
    <3>2. Good(n, at)
      BY <2>1, <2>2, <2>3, <3>1
    <3> QED
      BY <2>2, <3>2
  <2>4. CASE s[n] \in Keep
    <3> DEFINE L == Len(kept[n - 1])
               bt == [j \in 1 .. L + 1 |-> IF j = L + 1 THEN n ELSE at[j]]
    <3>1. kept[n] = Append(kept[n - 1], s[n])
      BY <1>1, <2>4 DEF Gathers
    <3>2. /\ Len(kept[n]) = L + 1
          /\ \A j \in 1 .. L : kept[n][j] = kept[n - 1][j]
          /\ kept[n][L + 1] = s[n]
      BY <1>2, <2>2, <3>1, AppendProperties
    <3>2a. /\ L \in Nat
           /\ at \in [1 .. L -> 1 .. n - 1]
           /\ \A j \in 1 .. L : kept[n - 1][j] = s[at[j]] /\ s[at[j]] \in Keep
           /\ \A j, k \in 1 .. L : j < k => at[j] < at[k]
           /\ \A i \in 1 .. n - 1 : s[i] \in Keep => \E j \in 1 .. L : at[j] = i
      BY <2>1, <2>2
    <3> HIDE DEF L
    <3>2b. /\ L + 1 \in 1 .. L + 1 /\ bt[L + 1] = n
           /\ \A j \in 1 .. L : j \in 1 .. L + 1 /\ bt[j] = at[j] /\ at[j] \in 1 .. n - 1
           /\ \A j \in 1 .. L + 1 : j = L + 1 \/ j \in 1 .. L
      BY <3>2a
    <3>3. bt \in [1 .. L + 1 -> 1 .. n]
      BY <3>2a
    <3> HIDE DEF bt
    <3>4. \A j \in 1 .. L + 1 : kept[n][j] = s[bt[j]] /\ s[bt[j]] \in Keep
      BY <2>4, <3>2, <3>2a, <3>2b, ZenonT(60)
    <3>5. \A j, k \in 1 .. L + 1 : j < k => bt[j] < bt[k]
      <4> SUFFICES ASSUME NEW j \in 1 .. L + 1, NEW k \in 1 .. L + 1, j < k
                   PROVE  bt[j] < bt[k]
        OBVIOUS
      <4>1. j \in 1 .. L
        BY <3>2a
      <4>2. CASE k = L + 1
        BY <3>2b, <4>1, <4>2
      <4>3. CASE k \in 1 .. L
        BY <3>2a, <3>2b, <4>1, <4>3
      <4> QED
        BY <3>2b, <4>2, <4>3
    <3>6. \A i \in 1 .. n : s[i] \in Keep => \E j \in 1 .. L + 1 : bt[j] = i
      <4> SUFFICES ASSUME NEW i \in 1 .. n, s[i] \in Keep
                   PROVE  \E j \in 1 .. L + 1 : bt[j] = i
        OBVIOUS
      <4>1. CASE i = n
        BY <3>2b, <4>1
      <4>2. CASE i \in 1 .. n - 1
        BY <3>2a, <3>2b, <4>2
      <4> QED
        BY <4>1, <4>2
    <3>7. Good(n, bt)
      BY <3>2, <3>3, <3>4, <3>5, <3>6
    <3> QED
      BY <2>2, <3>7
  <2> QED
    BY <2>3, <2>4
<1> HIDE DEF T
<1>5. Len(s) \in T
  <2>1. 0 .. Len(s) \subseteq T
    BY <1>2, <1>3, <1>4, UpTo
  <2> QED
    BY <1>2, <2>1
<1>6. PICK at : Good(Len(s), at)
  BY <1>5 DEF T
<1>7. Where(s, Keep) = kept[Len(s)]
  BY <1>1 DEF Gathers
<1>8. Where(s, Keep) \in Seq(S)
  BY <1>1, <1>2, <1>7
<1>9. Places(at, s, Keep)
  BY <1>6, <1>7 DEF Places
<1> QED
  BY <1>8, <1>9

(* Where gathers the elements in the set, keeps what was told apart apart,  *)
(* and is no longer than the sequence.                                      *)
LEMMA WhereElements ==
  ASSUME NEW S, NEW s \in Seq(S), NEW Keep
  PROVE  /\ Where(s, Keep) \in Seq(S)
         /\ Len(Where(s, Keep)) <= Len(s)
         /\ Range(Where(s, Keep)) = Range(s) \cap Keep
         /\ IsInjective(s) => IsInjective(Where(s, Keep))
<1> DEFINE w == Where(s, Keep)
<1>1. w \in Seq(S)
  BY WherePlaces
<1>2. PICK at \in [1 .. Len(w) -> 1 .. Len(s)] :
        /\ \A j \in 1 .. Len(w) : w[j] = s[at[j]] /\ s[at[j]] \in Keep
        /\ \A j, k \in 1 .. Len(w) : j < k => at[j] < at[k]
        /\ \A i \in 1 .. Len(s) : s[i] \in Keep => \E j \in 1 .. Len(w) : at[j] = i
  BY WherePlaces DEF Places
<1> HIDE DEF w
<1>3. DOMAIN at = 1 .. Len(w) /\ DOMAIN w = 1 .. Len(w) /\ DOMAIN s = 1 .. Len(s)
      /\ Len(w) \in Nat /\ Len(s) \in Nat
  BY <1>1, <1>2
<1>4. Range(w) = Range(s) \cap Keep
  BY <1>2, <1>3, SMTT(40) DEF Range
<1>5. IsInjective(s) => IsInjective(w)
  <2> SUFFICES ASSUME IsInjective(s), NEW j \in 1 .. Len(w), NEW k \in 1 .. Len(w), w[j] = w[k]
               PROVE  j = k
    BY <1>3 DEF IsInjective
  <2>1. at[j] = at[k]
    BY <1>2, <1>3, ZenonT(60) DEF IsInjective
  <2> QED
    BY <1>2, <1>3, <2>1
<1>6. Len(w) <= Len(s)
  <2>1. at \in Injection(1 .. Len(w), 1 .. Len(s))
    <3>1. \A j, k \in 1 .. Len(w) : at[j] = at[k] => j = k
      BY <1>2, <1>3
    <3> QED
      BY <1>2, <3>1, Fun_IsInj
  <2> QED
    BY <1>3, <2>1, Fun_NatInjLeq, Fun_ExistsInj
<1> QED
  BY <1>1, <1>4, <1>5, <1>6 DEF w

(* The elements of a sequence, and of what is made of it.                   *)
LEMMA MembersOfSeq ==
  ASSUME NEW S, NEW s \in Seq(S)
  PROVE  ToSet(s) \subseteq S /\ ToSet(s) = {s[i] : i \in 1 .. Len(s)}
BY DEF ToSet

LEMMA ReverseMembers ==
  ASSUME NEW S, NEW s \in Seq(S)
  PROVE  Reverse(s) \in Seq(S) /\ ToSet(Reverse(s)) = ToSet(s)
<1> DEFINE L == Len(s)
           r == Reverse(s)
<1>1. L \in Nat /\ \A i \in 1 .. L : s[i] \in S
  OBVIOUS
<1>2. r = [i \in 1 .. L |-> s[(L - i) + 1]]
  BY DEF Reverse
<1>2a. ToSet(s) = {s[i] : i \in 1 .. L}
  BY MembersOfSeq
<1> HIDE DEF L, r
<1>3. \A i \in 1 .. L : (L - i) + 1 \in 1 .. L
  BY <1>1
<1>4. r \in Seq(S) /\ Len(r) = L
  BY <1>1, <1>2, <1>3
<1>5. ToSet(r) = {r[i] : i \in 1 .. L}
  BY <1>4, MembersOfSeq
<1>6. \A i \in 1 .. L : r[i] = s[(L - i) + 1] /\ s[i] = r[(L - i) + 1]
  BY <1>1, <1>2, <1>3
<1> QED
  BY <1>2a, <1>3, <1>4, <1>5, <1>6, SMTT(40) DEF r

LEMMA WhereMembers ==
  ASSUME NEW S, NEW s \in Seq(S), NEW Keep
  PROVE  Where(s, Keep) \in Seq(S) /\ ToSet(Where(s, Keep)) = ToSet(s) \cap Keep
<1>1. ToSet(s) = Range(s) /\ ToSet(Where(s, Keep)) = Range(Where(s, Keep))
  BY DEF ToSet, Range
<1> QED
  BY <1>1, WhereElements

LEMMA RemainingMembers ==
  ASSUME NEW S, NEW s \in Seq(S), NEW gone
  PROVE  Remaining(s, gone) \in Seq(S) /\ ToSet(Remaining(s, gone)) = ToSet(s) \ gone
<1>1. ToSet(s) \cap (ToSet(s) \ gone) = ToSet(s) \ gone
  OBVIOUS
<1>2. Remaining(s, gone) = Where(s, ToSet(s) \ gone)
  BY DEF Remaining, ToSet
<1> QED
  BY <1>1, <1>2, WhereMembers

LEMMA ConcatMembers ==
  ASSUME NEW S, NEW s \in Seq(S), NEW t \in Seq(S)
  PROVE  s \o t \in Seq(S) /\ ToSet(s \o t) = ToSet(s) \cup ToSet(t)
<1> DEFINE L == Len(s)
           M == Len(t)
           c == s \o t
<1>1. /\ L \in Nat /\ M \in Nat /\ c \in Seq(S) /\ Len(c) = L + M
      /\ \A i \in 1 .. L : c[i] = s[i]
      /\ \A i \in 1 .. M : c[L + i] = t[i]
  BY ConcatProperties
<1>2. ToSet(s) = {s[i] : i \in 1 .. L} /\ ToSet(t) = {t[i] : i \in 1 .. M}
  BY MembersOfSeq
<1> HIDE DEF L, M, c
<1>2a. ToSet(c) = {c[i] : i \in 1 .. L + M}
  BY <1>1, MembersOfSeq
<1>3. \A i \in 1 .. L + M : i \in 1 .. L \/ (i - L \in 1 .. M /\ L + (i - L) = i)
  BY <1>1
<1>4. (\A i \in 1 .. L : i \in 1 .. L + M) /\ (\A i \in 1 .. M : L + i \in 1 .. L + M)
  BY <1>1
<1>5. ToSet(c) \subseteq ToSet(s) \cup ToSet(t)
  <2> SUFFICES ASSUME NEW i \in 1 .. L + M PROVE c[i] \in ToSet(s) \cup ToSet(t)
    BY <1>2, <1>2a
  <2>1. CASE i \in 1 .. L
    BY <1>1, <1>2, <2>1
  <2>2. CASE i - L \in 1 .. M /\ L + (i - L) = i
    <3>1. c[i] = t[i - L]
      BY <1>1, <2>2
    <3> QED
      BY <1>2, <2>2, <3>1
  <2> QED
    BY <1>3, <2>1, <2>2
<1>6. ToSet(s) \cup ToSet(t) \subseteq ToSet(c)
  BY <1>1, <1>2, <1>2a, <1>4
<1> QED
  BY <1>1, <1>5, <1>6 DEF c

LEMMA SingleMembers ==
  ASSUME NEW S, NEW e \in S
  PROVE  <<e>> \in Seq(S) /\ ToSet(<<e>>) = {e}
<1>1. <<e>> = [i \in 1 .. 1 |-> e] /\ <<e>> \in Seq(S)
  OBVIOUS
<1>2. DOMAIN <<e>> = 1 .. 1 /\ \A i \in 1 .. 1 : <<e>>[i] = e
  BY <1>1
<1> QED
  BY <1>1, <1>2 DEF ToSet

LEMMA AppendMembers ==
  ASSUME NEW S, NEW s \in Seq(S), NEW e \in S
  PROVE  Append(s, e) \in Seq(S) /\ ToSet(Append(s, e)) = ToSet(s) \cup {e}
<1> DEFINE one == <<e>>
<1>1. one \in Seq(S) /\ ToSet(one) = {e}
  BY SingleMembers
<1>2. Append(s, e) = s \o one
  BY AppendIsConcat
<1> HIDE DEF one
<1>3. s \o one \in Seq(S) /\ ToSet(s \o one) = ToSet(s) \cup ToSet(one)
  BY <1>1, ConcatMembers
<1> QED
  BY <1>1, <1>2, <1>3

LEMMA InsertionMembers ==
  ASSUME NEW S, NEW s \in Seq(S), NEW e \in S, NEW k \in 1 .. Len(s) + 1
  PROVE  InsertAt(s, k, e) \in Seq(S) /\ ToSet(InsertAt(s, k, e)) = ToSet(s) \cup {e}
<1> DEFINE front == SubSeq(s, 1, k - 1)
           back == SubSeq(s, k, Len(s))
           one == <<e>>
           more == front \o one
<1>1. InsertAt(s, k, e) = more \o back
  BY DEF InsertAt
<1>2. Len(s) \in Nat /\ \A i \in 1 .. Len(s) : s[i] \in S
  OBVIOUS
<1>3. front \in Seq(S)
  <2>1. \A i \in 1 .. k - 1 : s[i] \in S
    BY <1>2
  <2>2. 1 \in Int /\ k - 1 \in Int
    BY <1>2
  <2> QED
    BY <2>1, <2>2, SubSeqProperties
<1>4. back \in Seq(S)
  <2>1. \A i \in k .. Len(s) : s[i] \in S
    BY <1>2
  <2>2. k \in Int /\ Len(s) \in Int
    BY <1>2
  <2> QED
    BY <2>1, <2>2, SubSeqProperties
<1>5. front \o back = s
  <2>1. front \o back = SubSeq(s, 1, Len(s))
    <3>1. 1 \in 1 .. Len(s) + 1 /\ k - 1 \in 1 - 1 .. Len(s) /\ Len(s) \in k - 1 .. Len(s)
          /\ (k - 1) + 1 = k
      BY <1>2
    <3>2. SubSeq(s, 1, k - 1) \o SubSeq(s, (k - 1) + 1, Len(s)) = SubSeq(s, 1, Len(s))
      BY <3>1, ConcatAdjacentSubSeq
    <3> QED
      BY <3>1, <3>2
  <2> QED
    BY <2>1, SubSeqFull
<1>6. one \in Seq(S) /\ ToSet(one) = {e}
  BY SingleMembers
<1> HIDE DEF front, back, one
<1>7. ToSet(s) = ToSet(front) \cup ToSet(back)
  BY <1>3, <1>4, <1>5, ConcatMembers, ZenonT(60)
<1>8. more \in Seq(S) /\ ToSet(more) = ToSet(front) \cup {e}
  <2>1. more \in Seq(S) /\ ToSet(more) = ToSet(front) \cup ToSet(one)
    BY <1>3, <1>6, ConcatMembers
  <2> QED
    BY <1>6, <2>1
<1> HIDE DEF more
<1>9. more \o back \in Seq(S) /\ ToSet(more \o back) = ToSet(more) \cup ToSet(back)
  BY <1>4, <1>8, ConcatMembers
<1> QED
  BY <1>1, <1>7, <1>8, <1>9

LEMMA HeadTailMembers ==
  ASSUME NEW S, NEW s \in Seq(S), s # <<>>
  PROVE  /\ Head(s) \in S /\ Tail(s) \in Seq(S)
         /\ ToSet(s) = {Head(s)} \cup ToSet(Tail(s))
<1> DEFINE one == <<Head(s)>>
           rest == Tail(s)
<1>1. Head(s) \in S /\ rest \in Seq(S)
  BY HeadTailProperties
<1>2. s = one \o rest
  OBVIOUS
<1>3. one \in Seq(S) /\ ToSet(one) = {Head(s)}
  BY <1>1, SingleMembers
<1> HIDE DEF one, rest
<1>4. ToSet(s) = ToSet(one) \cup ToSet(rest)
  BY <1>1, <1>2, <1>3, ConcatMembers
<1> QED
  BY <1>1, <1>3, <1>4 DEF rest

(* When the set has the first m elements of s and none of the others, Where *)
(* gathers these m.                                                         *)
LEMMA WhereFront ==
  ASSUME NEW S, NEW s \in Seq(S), NEW Keep, NEW m \in 0 .. Len(s),
         \A i \in 1 .. m : s[i] \in Keep, \A i \in m + 1 .. Len(s) : s[i] \notin Keep
  PROVE  Where(s, Keep) = SubSeq(s, 1, m)
<1>1. PICK kept \in [0 .. Len(s) -> Seq(S)] : Gathers(kept, s, Keep)
  BY WhereDef
<1> DEFINE L == Len(s)
           least(n) == IF n <= m THEN n ELSE m
           T == {n \in 0 .. L : kept[n] = SubSeq(s, 1, least(n))}
<1>2. L \in Nat /\ \A n \in 1 .. L : s[n] \in S
  OBVIOUS
<1>3. /\ kept[0] = <<>> /\ Where(s, Keep) = kept[L]
      /\ \A n \in 1 .. L :
           kept[n] = IF s[n] \in Keep THEN Append(kept[n - 1], s[n]) ELSE kept[n - 1]
  BY <1>1 DEF Gathers
<1>4. 0 \in T
  <2>1. SubSeq(s, 1, 0) = <<>>
    BY SubSeqEmpty
  <2> QED
    BY <1>2, <1>3, <2>1
<1>5. ASSUME NEW n \in 1 .. L, n - 1 \in T PROVE n \in T
  <2>1. n \in 0 .. L /\ kept[n - 1] = SubSeq(s, 1, least(n - 1))
    BY <1>2, <1>5
  <2>2. CASE n <= m
    <3>1. kept[n] = Append(SubSeq(s, 1, n - 1), s[n])
      <4>1. least(n - 1) = n - 1 /\ n \in 1 .. m /\ s[n] \in Keep
        BY <1>2, <2>2
      <4>2. kept[n - 1] = SubSeq(s, 1, n - 1)
        BY <2>1, <4>1
      <4>3. kept[n] = Append(kept[n - 1], s[n])
        BY <1>3, <4>1
      <4> QED
        BY <4>2, <4>3
    <3>2. SubSeq(s, 1, n) = SubSeq(s, 1, n - 1) \o <<s[n]>>
      <4>1. 1 \in 1 .. Len(s) /\ n \in 1 .. Len(s)
        BY <1>2
      <4> QED
        BY <4>1, SubSeqRecursiveSecond
    <3>3. SubSeq(s, 1, n - 1) \in Seq(S) /\ s[n] \in S
      <4>1. 1 \in Int /\ n - 1 \in Int /\ \A i \in 1 .. n - 1 : s[i] \in S
        BY <1>2
      <4> QED
        BY <1>2, <4>1, SubSeqProperties
    <3>4. Append(SubSeq(s, 1, n - 1), s[n]) = SubSeq(s, 1, n - 1) \o <<s[n]>>
      BY <3>3, AppendIsConcat
    <3> QED
      BY <2>1, <2>2, <3>1, <3>2, <3>4
  <2>3. CASE ~(n <= m)
    <3>1. n \in m + 1 .. L
      BY <1>2, <2>3
    <3>2. kept[n] = kept[n - 1]
      BY <1>3, <3>1
    <3>3. least(n) = m /\ least(n - 1) = m
      BY <1>2, <2>3
    <3> QED
      BY <2>1, <3>2, <3>3
  <2> QED
    BY <2>2, <2>3
<1> HIDE DEF T, L
<1>6. 0 .. L \subseteq T
  BY <1>2, <1>4, <1>5, UpTo
<1>7. kept[L] = SubSeq(s, 1, m)
  <2>1. L \in T
    BY <1>2, <1>6
  <2>2. least(L) = m
    BY <1>2 DEF L
  <2> QED
    BY <2>1, <2>2 DEF T
<1> QED
  BY <1>3, <1>7

(* A sequence is the front of what it becomes.                              *)
LEMMA FrontOfAppend ==
  ASSUME NEW S, NEW s \in Seq(S), NEW e \in S
  PROVE  SubSeq(Append(s, e), 1, Len(s)) = s
<1> DEFINE t == Append(s, e)
           L == Len(s)
<1>1. L \in Nat /\ t \in Seq(S) /\ \A i \in 1 .. L : t[i] = s[i] /\ t[i] \in S
  BY AppendProperties
<1> HIDE DEF t
<1>2. SubSeq(t, 1, L) \in Seq(S) /\ Len(SubSeq(t, 1, L)) = L
      /\ \A i \in 1 .. L : SubSeq(t, 1, L)[i] = t[i]
  <2>1. 1 \in Int /\ L \in Int
    BY <1>1
  <2> HIDE DEF L
  <2>2. /\ SubSeq(t, 1, L) \in Seq(S)
        /\ Len(SubSeq(t, 1, L)) = IF 1 <= L THEN L - 1 + 1 ELSE 0
        /\ \A i \in 1 .. L - 1 + 1 : SubSeq(t, 1, L)[i] = t[1 + i - 1]
    BY <1>1, <2>1, SubSeqProperties
  <2> QED
    BY <1>1, <2>2
<1>3. SubSeq(t, 1, L) = s
  BY <1>1, <1>2, SeqEqual
<1> QED
  BY <1>3 DEF t

(* An element put in the place of the last one.                             *)
LEMMA LastReplaced ==
  ASSUME NEW S, NEW s \in Seq(S), NEW t \in Seq(S), NEW k \in 1 .. Len(t), NEW f \in S,
         Len(t) = k, Len(s) = k - 1, \A i \in 1 .. k - 1 : t[i] = s[i]
  PROVE  [t EXCEPT ![k] = f] = Append(s, f)
<1> DEFINE u == Append(s, f)
           w == [t EXCEPT ![k] = f]
<1>1. /\ Len(s) \in Nat /\ u \in Seq(S) /\ Len(u) = Len(s) + 1
      /\ \A i \in 1 .. Len(s) : u[i] = s[i]
      /\ u[Len(s) + 1] = f
  BY AppendProperties
<1> HIDE DEF u
<1>2. /\ w \in Seq(S) /\ Len(w) = Len(t)
      /\ \A i \in 1 .. Len(t) : w[i] = IF i = k THEN f ELSE t[i]
  BY ExceptSeq
<1> HIDE DEF w
<1>3. \A i \in 1 .. Len(w) : w[i] = u[i]
  BY <1>1, <1>2
<1>4. w = u
  BY <1>1, <1>2, <1>3, SeqEqual
<1> QED
  BY <1>4 DEF u, w

(* What was appended and is new goes without a trace.                       *)
LEMMA RemainingFront ==
  ASSUME NEW S, NEW s \in Seq(S), NEW e \in S, e \notin ToSet(s)
  PROVE  Remaining(Append(s, e), {e}) = s
<1> DEFINE t == Append(s, e)
           L == Len(s)
           Keep == {t[i] : i \in DOMAIN t} \ {e}
<1>1. /\ L \in Nat /\ t \in Seq(S) /\ Len(t) = L + 1 /\ DOMAIN t = 1 .. L + 1
      /\ \A i \in 1 .. L : t[i] = s[i] /\ s[i] # e
      /\ t[L + 1] = e
  BY AppendProperties DEF ToSet
<1>2. Remaining(t, {e}) = Where(t, Keep)
  BY DEF Remaining
<1>3. SubSeq(t, 1, L) = s
  BY FrontOfAppend
<1>4. /\ L \in 0 .. Len(t) /\ \A i \in 1 .. L : t[i] \in Keep
      /\ \A i \in L + 1 .. Len(t) : t[i] \notin Keep
  BY <1>1
<1> HIDE DEF t, L, Keep
<1>5. Where(t, Keep) = SubSeq(t, 1, L)
  BY <1>1, <1>4, WhereFront
<1> QED
  BY <1>2, <1>3, <1>5 DEF t

LEMMA WhereAll ==
  ASSUME NEW S, NEW s \in Seq(S), NEW Keep, \A i \in 1 .. Len(s) : s[i] \in Keep
  PROVE  Where(s, Keep) = s
<1> DEFINE L == Len(s)
<1>1. L \in Nat /\ L \in 0 .. Len(s) /\ \A i \in L + 1 .. Len(s) : s[i] \notin Keep
  OBVIOUS
<1> HIDE DEF L
<1>2. \A i \in 1 .. L : s[i] \in Keep
  BY DEF L
<1>3. Where(s, Keep) = SubSeq(s, 1, L)
  BY <1>1, <1>2, WhereFront
<1>4. SubSeq(s, 1, Len(s)) = s
  BY SubSeqFull
<1> QED
  BY <1>3, <1>4 DEF L

(* Where element by element.                                                *)
LEMMA WhereAppend ==
  ASSUME NEW S, NEW s \in Seq(S), NEW e \in S, NEW Keep
  PROVE  Where(Append(s, e), Keep) =
           IF e \in Keep THEN Append(Where(s, Keep), e) ELSE Where(s, Keep)
<1> DEFINE t == Append(s, e)
           L == Len(s)
<1>1. /\ L \in Nat /\ t \in Seq(S) /\ Len(t) = L + 1 /\ t[L + 1] = e
      /\ \A i \in 1 .. L : t[i] = s[i]
  BY AppendProperties
<1>2. PICK f \in [0 .. L -> Seq(S)] : Gathers(f, s, Keep)
  BY WhereDef
<1> HIDE DEF t
<1>3. PICK g \in [0 .. Len(t) -> Seq(S)] : Gathers(g, t, Keep)
  BY <1>1, WhereDef
<1> DEFINE T == {n \in 0 .. L : f[n] = g[n]}
<1>4. 0 \in T
  BY <1>1, <1>2, <1>3 DEF Gathers
<1>5. \A m \in 1 .. L : m - 1 \in T => m \in T
  BY <1>1, <1>2, <1>3, SMTT(40) DEF Gathers
<1>6. f[L] = g[L]
  <2> HIDE DEF T, L
  <2>1. 0 .. L \subseteq T
    BY <1>1, <1>4, <1>5, UpTo
  <2>2. L \in T
    BY <1>1, <2>1
  <2> QED
    BY <2>2 DEF T
<1>7. g[L + 1] = IF e \in Keep THEN Append(g[L], e) ELSE g[L]
  <2>1. L + 1 \in 1 .. Len(t) /\ (L + 1) - 1 = L
    BY <1>1
  <2>2. g[L + 1] = IF t[L + 1] \in Keep THEN Append(g[(L + 1) - 1], t[L + 1]) ELSE g[(L + 1) - 1]
    BY <1>3, <2>1 DEF Gathers
  <2> QED
    BY <1>1, <2>1, <2>2
<1>8. Where(s, Keep) = f[L] /\ Where(t, Keep) = g[L + 1]
  BY <1>1, <1>2, <1>3 DEF Gathers
<1> QED
  BY <1>6, <1>7, <1>8 DEF t

(* A sublist of a sublist.                                                  *)
LEMMA WhereWhere ==
  ASSUME NEW S, NEW s \in Seq(S), NEW A, NEW B
  PROVE  Where(Where(s, A), B) = Where(s, A \cap B)
<1> DEFINE L == Len(s)
<1>1. PICK f \in [0 .. L -> Seq(S)] : Gathers(f, s, A)
  BY WhereDef
<1>2. PICK g \in [0 .. L -> Seq(S)] : Gathers(g, s, A \cap B)
  BY WhereDef
<1> DEFINE T == {n \in 0 .. L : Where(f[n], B) = g[n]}
<1>3. L \in Nat /\ \A i \in 1 .. L : s[i] \in S
  OBVIOUS
<1>4. 0 \in T
  <2> DEFINE none == <<>>
  <2>1. none \in Seq(S) /\ \A i \in 1 .. Len(none) : none[i] \in B
    OBVIOUS
  <2> HIDE DEF none
  <2>2. Where(none, B) = none
    BY <2>1, WhereAll
  <2>3. f[0] = none /\ g[0] = none /\ 0 \in 0 .. L
    BY <1>1, <1>2, <1>3 DEF Gathers, none
  <2> QED
    BY <2>2, <2>3
<1>5. ASSUME NEW m \in 1 .. L, m - 1 \in T
      PROVE  m \in T
  <2>1. /\ f[m] = IF s[m] \in A THEN Append(f[m - 1], s[m]) ELSE f[m - 1]
        /\ g[m] = IF s[m] \in A \cap B THEN Append(g[m - 1], s[m]) ELSE g[m - 1]
    BY <1>1, <1>2 DEF Gathers
  <2>2. m \in 0 .. L /\ m - 1 \in 0 .. L /\ f[m - 1] \in Seq(S) /\ s[m] \in S
    <3>1. m \in 0 .. L /\ m - 1 \in 0 .. L /\ s[m] \in S
      BY <1>3
    <3> HIDE DEF L
    <3> QED
      BY <1>1, <3>1
  <2>3. Where(f[m - 1], B) = g[m - 1]
    BY <1>5
  <2>4. Where(Append(f[m - 1], s[m]), B) =
          IF s[m] \in B THEN Append(Where(f[m - 1], B), s[m]) ELSE Where(f[m - 1], B)
    <3> DEFINE u == f[m - 1]
    <3>1. u \in Seq(S) /\ s[m] \in S
      BY <2>2
    <3> HIDE DEF u
    <3>2. Where(Append(u, s[m]), B) = IF s[m] \in B THEN Append(Where(u, B), s[m]) ELSE Where(u, B)
      BY <3>1, WhereAppend, ZenonT(60)
    <3> QED
      BY <3>2 DEF u
  <2>5. Where(f[m], B) = g[m]
    BY <2>1, <2>3, <2>4
  <2> QED
    BY <2>2, <2>5
<1>6. Where(f[L], B) = g[L]
  <2> HIDE DEF T, L
  <2>1. 0 .. L \subseteq T
    BY <1>3, <1>4, <1>5, UpTo
  <2>2. L \in T
    BY <1>3, <2>1
  <2> QED
    BY <2>2 DEF T
<1> QED
  BY <1>1, <1>2, <1>6 DEF Gathers

(* What FlattenSeq puts one behind the other, sequence by sequence.         *)
LEMMA FlattenDef ==
  ASSUME NEW S, NEW seqs, seqs \in Seq(Seq(S)), Len(seqs) # 0
  PROVE  \E flat :
           /\ \A i \in 1 .. Len(seqs) :
                flat[i] = IF i = 1 THEN seqs[i] ELSE flat[i - 1] \o seqs[i]
           /\ FlattenSeq(seqs) = flat[Len(seqs)]
<1> DEFINE L == Len(seqs)
           M == L - 1
           T == Seq(S)
           base == seqs[1]
           step == [i \in 1 .. M |-> [t \in T |-> t \o seqs[i + 1]]]
           Is(f) == f = [i \in 1 .. L |-> IF i = 1 THEN seqs[i] ELSE f[i - 1] \o seqs[i]]
<1>1. L \in Nat /\ L >= 1 /\ M \in Nat /\ \A i \in 1 .. L : seqs[i] \in T
  OBVIOUS
<1>2. base \in T /\ \A i \in 1 .. M : i + 1 \in 1 .. L
  BY <1>1
<1>3. step \in [1 .. M -> [T -> T]]
  <2>1. ASSUME NEW i \in 1 .. M, NEW t \in T
        PROVE  t \o seqs[i + 1] \in T
    BY <1>1, <1>2, ConcatProperties
  <2> QED
    BY <2>1
<1>4. PICK g \in [0 .. M -> T] : g[0] = base /\ \A i \in 1 .. M : g[i] = step[i][g[i - 1]]
  <2>1. base \in T /\ M \in Nat /\ step \in [1 .. M -> [T -> T]]
    BY <1>1, <1>2, <1>3
  <2> HIDE DEF L, M, T, base, step
  <2>2. \E g \in [0 .. M -> T] : g[0] = base /\ \A i \in 1 .. M : g[i] = step[i][g[i - 1]]
    BY ONLY <2>1, Iterations
  <2> QED
    BY <2>2
<1> DEFINE h == [i \in 1 .. L |-> g[i - 1]]
<1>5. Is(h)
  <2>1. ASSUME NEW i \in 1 .. L
        PROVE  h[i] = IF i = 1 THEN seqs[i] ELSE h[i - 1] \o seqs[i]
    <3>1. CASE i = 1
      BY <1>4, <3>1
    <3>2. CASE i # 1
      <4>1. i - 1 \in 1 .. M /\ i - 1 \in 1 .. L /\ (i - 1) - 1 \in 0 .. M /\ (i - 1) + 1 = i
        BY <1>1, <3>2
      <4>2. g[i - 1] = step[i - 1][g[(i - 1) - 1]] /\ g[(i - 1) - 1] \in T
        BY <1>4, <4>1
      <4>3. g[i - 1] = g[(i - 1) - 1] \o seqs[i]
        BY <4>1, <4>2, ZenonT(60)
      <4>4. h[i] = g[i - 1] /\ h[i - 1] = g[(i - 1) - 1]
        BY <4>1
      <4> QED
        BY <3>2, <4>3, <4>4
    <3> QED
      BY <3>1, <3>2
  <2>2. h = [i \in 1 .. L |-> h[i]]
    OBVIOUS
  <2> HIDE DEF h
  <2> QED
    BY <2>1, <2>2, Zenon
<1> DEFINE flat == CHOOSE f : Is(f)
<1>6. Is(flat)
  BY <1>5, ZenonT(60)
<1>7. FlattenSeq(seqs) = flat[L]
  BY <1>1 DEF FlattenSeq
<1> HIDE DEF flat, h, step
<1>8. \A i \in 1 .. L : flat[i] = IF i = 1 THEN seqs[i] ELSE flat[i - 1] \o seqs[i]
  BY <1>6
<1> QED
  BY <1>7, <1>8

(* Sequences one behind the other.                                          *)
LEMMA FlattenMembers ==
  ASSUME NEW S, NEW seqs, seqs \in Seq(Seq(S)), Len(seqs) # 0
  PROVE  /\ FlattenSeq(seqs) \in Seq(S)
         /\ ToSet(FlattenSeq(seqs)) = UNION {ToSet(seqs[i]) : i \in 1 .. Len(seqs)}
<1> DEFINE L == Len(seqs)
           T == Seq(S)
<1>1. L \in Nat /\ L >= 1 /\ \A i \in 1 .. L : seqs[i] \in T
  OBVIOUS
<1>6. PICK flat :
        /\ \A i \in 1 .. Len(seqs) :
             flat[i] = IF i = 1 THEN seqs[i] ELSE flat[i - 1] \o seqs[i]
        /\ FlattenSeq(seqs) = flat[Len(seqs)]
  BY FlattenDef
<1>7. FlattenSeq(seqs) = flat[L]
  BY <1>6
<1>8. \A i \in 1 .. L : flat[i] = IF i = 1 THEN seqs[i] ELSE flat[i - 1] \o seqs[i]
  BY <1>6
<1> DEFINE U(n) == UNION {ToSet(seqs[i]) : i \in 1 .. n}
           Right(n) == flat[n] \in T /\ ToSet(flat[n]) = U(n)
           Good == {n \in 0 .. L : n = 0 \/ Right(n)}
<1>9. Right(1)
  <2>1. flat[1] = seqs[1] /\ seqs[1] \in T
    BY <1>1, <1>8, SMTT(40)
  <2>2. 1 .. 1 = {1}
    OBVIOUS
  <2>3. U(1) = ToSet(seqs[1])
    BY <2>2
  <2> QED
    BY <2>1, <2>3
<1>10. ASSUME NEW m \in 2 .. L, Right(m - 1)
       PROVE  Right(m)
  <2>1. seqs[m] \in T /\ flat[m] = flat[m - 1] \o seqs[m] /\ flat[m - 1] \in T
    <3>1. m \in 1 .. L /\ m # 1
      BY <1>1
    <3>2. flat[m - 1] \in T
      BY <1>10
    <3> HIDE DEF L, Right
    <3> QED
      BY <1>1, <1>8, <3>1, <3>2
  <2>2. flat[m] \in T /\ ToSet(flat[m]) = ToSet(flat[m - 1]) \cup ToSet(seqs[m])
    BY <2>1, ConcatMembers
  <2>3. U(m) = U(m - 1) \cup ToSet(seqs[m])
    <3>1. 1 .. m = (1 .. m - 1) \cup {m}
      BY <1>1
    <3> QED
      BY <3>1
  <2> HIDE DEF U
  <2> QED
    BY <1>10, <2>2, <2>3
<1> HIDE DEF Right
<1>11. L \in Good
  <2>1. 0 \in Good
    BY <1>1
  <2>2. ASSUME NEW m \in 1 .. L, m - 1 \in Good
        PROVE  m \in Good
    <3>1. CASE m = 1
      BY <1>1, <1>9, <3>1
    <3>2. CASE m # 1
      <4>1. m \in 2 .. L /\ m \in 0 .. L /\ m - 1 # 0
        BY <1>1, <3>2
      <4>2. Right(m - 1)
        BY <2>2, <4>1
      <4>3. Right(m)
        BY <1>10, <4>1, <4>2
      <4> QED
        BY <4>1, <4>3
    <3> QED
      BY <3>1, <3>2
  <2> HIDE DEF Good, L
  <2>3. 0 .. L \subseteq Good
    BY <1>1, <2>1, <2>2, UpTo
  <2> QED
    BY <1>1, <2>3
<1>12. flat[L] \in T /\ ToSet(flat[L]) = U(L)
  BY <1>1, <1>11 DEF Right
<1> QED
  BY <1>7, <1>12

(* Sums, number by number.                                                  *)
LEMMA TotalDef ==
  ASSUME NEW s, s \in Seq(Nat)
  PROVE  \E sum \in [0 .. Len(s) -> Nat] :
           /\ sum[0] = 0
           /\ \A i \in 1 .. Len(s) : sum[i] = sum[i - 1] + s[i]
           /\ Total(s) = sum[Len(s)]
<1> DEFINE L == Len(s)
           step == [i \in 1 .. L |-> [t \in Nat |-> t + s[i]]]
           Is(f) == f = [n \in 0 .. L |-> IF n = 0 THEN 0 ELSE f[n - 1] + s[n]]
<1>1. L \in Nat /\ \A i \in 1 .. L : s[i] \in Nat
  OBVIOUS
<1>2. step \in [1 .. L -> [Nat -> Nat]]
  BY <1>1
<1>3. PICK g \in [0 .. L -> Nat] : g[0] = 0 /\ \A i \in 1 .. L : g[i] = step[i][g[i - 1]]
  <2> DEFINE T == Nat
             base == 0
  <2>1. base \in T /\ L \in Nat /\ step \in [1 .. L -> [T -> T]]
    BY <1>1, <1>2
  <2> HIDE DEF L, T, base, step
  <2>2. \E g \in [0 .. L -> T] : g[0] = base /\ \A i \in 1 .. L : g[i] = step[i][g[i - 1]]
    BY ONLY <2>1, Iterations, SMTT(40)
  <2> QED
    BY <2>2 DEF T, base
<1>4. \A i \in 1 .. L : g[i] = g[i - 1] + s[i]
  <2>1. ASSUME NEW i \in 1 .. L PROVE g[i] = g[i - 1] + s[i]
    <3>1. i - 1 \in 0 .. L
      BY <1>1
    <3>2. g[i - 1] \in Nat
      BY <1>3, <3>1
    <3> QED
      BY <1>3, <3>2
  <2> QED
    BY <2>1
<1>5. Is(g)
  <2>1. \A n \in 0 .. L : g[n] = IF n = 0 THEN 0 ELSE g[n - 1] + s[n]
    BY <1>1, <1>3, <1>4
  <2>2. g = [n \in 0 .. L |-> g[n]]
    BY <1>3
  <2> QED
    BY <2>1, <2>2, Zenon
<1> DEFINE sum == CHOOSE f : Is(f)
<1>6. Is(sum)
  BY <1>5
<1>7. Total(s) = sum[L]
  BY DEF Total
<1> HIDE DEF sum
<1>8. sum[0] = 0 /\ \A i \in 1 .. L : sum[i] = sum[i - 1] + s[i]
  BY <1>1, <1>6, SMTT(40)
<1> DEFINE Good == {n \in 0 .. L : sum[n] \in Nat}
<1>9. 0 .. L \subseteq Good
  <2>1. 0 \in Good
    BY <1>1, <1>8
  <2>2. ASSUME NEW m \in 1 .. L, m - 1 \in Good PROVE m \in Good
    BY <1>1, <1>8, <2>2, SMTT(40)
  <2> HIDE DEF Good, L
  <2> QED
    BY <1>1, <2>1, <2>2, UpTo
<1>10. sum \in [0 .. L -> Nat]
  <2>1. sum = [n \in 0 .. L |-> sum[n]]
    BY <1>6
  <2> QED
    BY <1>9, <2>1
<1> QED
  BY <1>7, <1>8, <1>10

(* Sequences one behind the other are no longer than the sum of what each   *)
(* may have.                                                                *)
LEMMA FlattenFits ==
  ASSUME NEW S, NEW seqs, seqs \in Seq(Seq(S)), Len(seqs) # 0,
         NEW most, most \in Seq(Nat), Len(most) = Len(seqs),
         \A i \in 1 .. Len(seqs) : Len(seqs[i]) <= most[i]
  PROVE  Len(FlattenSeq(seqs)) <= Total(most)
<1> DEFINE L == Len(seqs)
<1>1. L \in Nat /\ L >= 1 /\ \A i \in 1 .. L : seqs[i] \in Seq(S) /\ most[i] \in Nat
  OBVIOUS
<1>2. PICK flat :
        /\ \A i \in 1 .. Len(seqs) :
             flat[i] = IF i = 1 THEN seqs[i] ELSE flat[i - 1] \o seqs[i]
        /\ FlattenSeq(seqs) = flat[Len(seqs)]
  BY FlattenDef
<1>3. PICK sum \in [0 .. Len(most) -> Nat] :
        /\ sum[0] = 0
        /\ \A i \in 1 .. Len(most) : sum[i] = sum[i - 1] + most[i]
        /\ Total(most) = sum[Len(most)]
  BY TotalDef
<1> DEFINE Fits(n) == flat[n] \in Seq(S) /\ Len(flat[n]) <= sum[n]
           Good == {n \in 0 .. L : n = 0 \/ Fits(n)}
<1>4. ASSUME NEW m \in 1 .. L, m - 1 \in Good PROVE m \in Good
  <2>1. sum[m] = sum[m - 1] + most[m] /\ sum[m - 1] \in Nat /\ most[m] \in Nat
    <3>1. m \in 1 .. Len(most) /\ m - 1 \in 0 .. Len(most) /\ m \in 1 .. L
      BY <1>1
    <3> HIDE DEF L
    <3> QED
      BY <1>1, <1>3, <3>1
  <2>2. Len(seqs[m]) <= most[m] /\ seqs[m] \in Seq(S)
    BY <1>1
  <2>3. ASSUME m = 1 PROVE Fits(m)
    <3>1. flat[m] = seqs[m]
      BY <1>2, <2>3
    <3> QED
      BY <1>3, <2>1, <2>2, <2>3, <3>1
  <2>4. ASSUME m # 1 PROVE Fits(m)
    <3>1. flat[m] = flat[m - 1] \o seqs[m] /\ Fits(m - 1)
      <4>1. m \in 1 .. Len(seqs) /\ m - 1 # 0
        BY <1>1, <2>4
      <4> HIDE DEF Fits
      <4> QED
        BY <1>2, <1>4, <2>4, <4>1
    <3>2. flat[m] \in Seq(S) /\ Len(flat[m]) = Len(flat[m - 1]) + Len(seqs[m])
      BY <2>2, <3>1, ConcatProperties
    <3>3. Len(flat[m - 1]) \in Nat /\ Len(seqs[m]) \in Nat /\ Len(flat[m - 1]) <= sum[m - 1]
      BY <2>2, <3>1
    <3>4. \A a, b, c, d \in Nat : a <= c /\ b <= d => a + b <= c + d
      OBVIOUS
    <3>5. Len(flat[m - 1]) + Len(seqs[m]) <= sum[m - 1] + most[m]
      BY <2>1, <2>2, <3>3, <3>4
    <3> QED
      BY <2>1, <3>2, <3>5
  <2>5. m \in 0 .. L /\ Fits(m)
    BY <1>1, <2>3, <2>4
  <2> HIDE DEF Fits
  <2> QED
    BY <2>5
<1>5. L \in Good
  <2>1. 0 \in Good
    BY <1>1
  <2> HIDE DEF Good, L
  <2>2. 0 .. L \subseteq Good
    BY <1>1, <1>4, <2>1, UpTo
  <2> QED
    BY <1>1, <2>2
<1> QED
  BY <1>1, <1>2, <1>3, <1>5

(* Three of each, as the lists of PPIs are.                                 *)
LEMMA FlattenThree ==
  ASSUME NEW S, NEW seqs, seqs \in Seq(Seq(S)), Len(seqs) = 3
  PROVE  FlattenSeq(seqs) = (seqs[1] \o seqs[2]) \o seqs[3]
<1>0. Len(seqs) # 0
  OBVIOUS
<1>1. PICK flat :
        /\ \A i \in 1 .. Len(seqs) :
             flat[i] = IF i = 1 THEN seqs[i] ELSE flat[i - 1] \o seqs[i]
        /\ FlattenSeq(seqs) = flat[Len(seqs)]
  BY <1>0, FlattenDef
<1>2. flat[1] = seqs[1] /\ flat[2] = flat[1] \o seqs[2] /\ flat[3] = flat[2] \o seqs[3]
  BY <1>1
<1> QED
  BY <1>1, <1>2

LEMMA TotalUpToThree ==
  ASSUME NEW s, s \in Seq(Nat)
  PROVE  /\ Total(s) \in Nat
         /\ Len(s) = 0 => Total(s) = 0
         /\ Len(s) = 1 => Total(s) = s[1]
         /\ Len(s) = 2 => Total(s) = s[1] + s[2]
         /\ Len(s) = 3 => Total(s) = s[1] + s[2] + s[3]
<1>1. PICK sum \in [0 .. Len(s) -> Nat] :
        /\ sum[0] = 0
        /\ \A i \in 1 .. Len(s) : sum[i] = sum[i - 1] + s[i]
        /\ Total(s) = sum[Len(s)]
  BY TotalDef
<1>2. Len(s) \in Nat /\ Total(s) \in Nat /\ \A i \in 1 .. Len(s) : s[i] \in Nat
  BY <1>1
<1>3. Len(s) >= 1 => sum[1] = s[1]
  BY <1>1, <1>2
<1>4. Len(s) >= 2 => sum[2] = s[1] + s[2]
  BY <1>1, <1>2, <1>3
<1>5. Len(s) >= 3 => sum[3] = s[1] + s[2] + s[3]
  BY <1>1, <1>2, <1>4
<1>6. Total(s) = sum[Len(s)] /\ sum[0] = 0
  BY <1>1
<1> DEFINE n == Len(s)
           t == Total(s)
<1>7. /\ n \in Nat /\ t \in Nat /\ t = sum[n] /\ sum[0] = 0
      /\ n >= 1 => sum[1] = s[1]
      /\ n >= 2 => sum[2] = s[1] + s[2]
      /\ n >= 3 => sum[3] = s[1] + s[2] + s[3]
  BY <1>2, <1>3, <1>4, <1>5, <1>6
<1> HIDE DEF n, t
<1>8. /\ t \in Nat
      /\ n = 0 => t = 0
      /\ n = 1 => t = s[1]
      /\ n = 2 => t = s[1] + s[2]
      /\ n = 3 => t = s[1] + s[2] + s[3]
  BY <1>7
<1> QED
  BY <1>8 DEF n, t

(* Sequences of which one follows the other.                                *)
LEMMA AppendToConcat ==
  ASSUME NEW S, NEW s \in Seq(S), NEW t \in Seq(S), NEW e \in S
  PROVE  s \o Append(t, e) = Append(s \o t, e)
<1>1. <<e>> \in Seq(S)
  OBVIOUS
<1>2. s \o t \in Seq(S) /\ Append(s \o t, e) = (s \o t) \o <<e>> /\ Append(t, e) = t \o <<e>>
  BY ConcatProperties, AppendIsConcat
<1>3. (s \o t) \o <<e>> = s \o (t \o <<e>>)
  BY <1>1, ConcatAssociative
<1> QED
  BY <1>2, <1>3

(* Filtering goes through concatenation.                                    *)
LEMMA WhereConcat ==
  ASSUME NEW S, NEW s \in Seq(S), NEW t \in Seq(S), NEW Keep
  PROVE  Where(s \o t, Keep) = Where(s, Keep) \o Where(t, Keep)
<1> DEFINE L == Len(t)
           Initial(m) == SubSeq(t, 1, m)
           Good == {m \in 0 .. L :
                      Where(s \o Initial(m), Keep) = Where(s, Keep) \o Where(Initial(m), Keep)}
<1>1. L \in Nat /\ \A m \in 0 .. L : Initial(m) \in Seq(S)
  <2>1. L \in Nat
    OBVIOUS
  <2>2. ASSUME NEW m \in 0 .. L
        PROVE  SubSeq(t, 1, m) \in Seq(S)
    <3>1. 1 \in Int /\ m \in Int /\ \A i \in 1 .. m : t[i] \in S
      BY <2>1
    <3> QED
      BY <3>1, SubSeqProperties
  <2> QED
    BY <2>1, <2>2
<1>2. 0 \in Good
  <2>1. Initial(0) = <<>>
    BY SubSeqEmpty
  <2>2. <<>> \in Seq(S) /\ Len(<<>>) = 0
    OBVIOUS
  <2>3. Where(<<>>, Keep) \in Seq(S) /\ Len(Where(<<>>, Keep)) <= 0
    BY <2>2, WhereElements
  <2>4. Where(<<>>, Keep) = <<>>
    BY <2>3
  <2>5. s \o <<>> = s /\ Where(s, Keep) \o <<>> = Where(s, Keep)
    BY ConcatEmptySeq, WhereElements
  <2>6. Where(s \o Initial(0), Keep) = Where(s, Keep) \o Where(Initial(0), Keep)
    BY ONLY <2>1, <2>4, <2>5, Zenon
  <2> QED
    BY <1>1, <2>6
<1>3. ASSUME NEW m \in 1 .. L, m - 1 \in Good
      PROVE  m \in Good
  <2>1. m \in 0 .. L /\ m - 1 \in 0 .. L /\ t[m] \in S
    BY <1>1
  <2>2. Initial(m) = Append(Initial(m - 1), t[m])
    <3>1. 1 \in 1 .. Len(t) /\ m \in 1 .. Len(t)
      BY <1>1
    <3>2. SubSeq(t, 1, m) = SubSeq(t, 1, m - 1) \o <<t[m]>>
      BY <3>1, SubSeqRecursiveSecond
    <3> QED
      BY <1>1, <2>1, <3>2, AppendIsConcat
  <2> DEFINE u == Initial(m - 1)
             e == t[m]
  <2>3. u \in Seq(S) /\ e \in S /\ Initial(m) = Append(u, e)
    BY <1>1, <2>1, <2>2
  <2>4. Where(s \o u, Keep) = Where(s, Keep) \o Where(u, Keep)
    BY <1>3
  <2> HIDE DEF u, e, Initial
  <2>5. s \o Append(u, e) = Append(s \o u, e) /\ s \o u \in Seq(S)
    BY <2>3, AppendToConcat, ConcatProperties
  <2> DEFINE su == s \o u
  <2>6. su \in Seq(S)
    BY <2>5
  <2> HIDE DEF su
  <2>7. Where(Append(su, e), Keep) =
          IF e \in Keep THEN Append(Where(su, Keep), e) ELSE Where(su, Keep)
    BY ONLY <2>3, <2>6, WhereAppend
  <2>8. Where(Append(u, e), Keep) =
          IF e \in Keep THEN Append(Where(u, Keep), e) ELSE Where(u, Keep)
    BY ONLY <2>3, WhereAppend
  <2>9. /\ Where(Append(s \o u, e), Keep) =
             IF e \in Keep THEN Append(Where(s \o u, Keep), e) ELSE Where(s \o u, Keep)
        /\ Where(Append(u, e), Keep) =
             IF e \in Keep THEN Append(Where(u, Keep), e) ELSE Where(u, Keep)
    BY <2>7, <2>8 DEF su
  <2>10. Where(s, Keep) \in Seq(S) /\ Where(u, Keep) \in Seq(S)
    BY <2>3, WhereElements
  <2>11. Where(s, Keep) \o Append(Where(u, Keep), e) = Append(Where(s, Keep) \o Where(u, Keep), e)
    BY <2>3, <2>10, AppendToConcat, SMTT(40)
  <2>12. Where(s \o Initial(m), Keep) = Where(s, Keep) \o Where(Initial(m), Keep)
    BY <2>3, <2>4, <2>5, <2>9, <2>11
  <2> QED
    BY <2>1, <2>12
<1>4. L \in Good
  <2> HIDE DEF Good, L
  <2>1. 0 .. L \subseteq Good
    BY <1>1, <1>2, <1>3, UpTo
  <2> QED
    BY <1>1, <2>1
<1>5. Initial(L) = t
  BY SubSeqFull
<1> QED
  BY <1>4, <1>5

(* Of one element all or nothing is kept.                                   *)
LEMMA WhereOne ==
  ASSUME NEW S, NEW e \in S, NEW Keep
  PROVE  /\ Where(<<e>>, Keep) = IF e \in Keep THEN <<e>> ELSE <<>>
         /\ Where(<<>>, Keep) = <<>>
<1>1. <<>> \in Seq(S) /\ Len(<<>>) = 0 /\ <<e>> = Append(<<>>, e)
  OBVIOUS
<1>2. Where(<<>>, Keep) \in Seq(S) /\ Len(Where(<<>>, Keep)) <= 0
  BY <1>1, WhereElements
<1>3. Where(<<>>, Keep) = <<>>
  BY <1>2
<1>4. Where(Append(<<>>, e), Keep) = IF e \in Keep THEN Append(<<>>, e) ELSE <<>>
  BY <1>1, <1>3, WhereAppend, ZenonT(60)
<1> QED
  BY <1>1, <1>3, <1>4

(* Nothing is kept of what lies outside the set.                            *)
LEMMA WhereNone ==
  ASSUME NEW S, NEW s \in Seq(S), NEW Keep, \A i \in 1 .. Len(s) : s[i] \notin Keep
  PROVE  Where(s, Keep) = <<>>
<1>1. 0 \in 0 .. Len(s) /\ \A i \in 0 + 1 .. Len(s) : s[i] \notin Keep
  OBVIOUS
<1>2. Where(s, Keep) = SubSeq(s, 1, 0)
  BY <1>1, WhereFront
<1> QED
  BY <1>2, SubSeqEmpty

(* Nothing is kept of nothing.                                              *)
LEMMA WhereEmpty ==
  ASSUME NEW Keep
  PROVE  Where(<<>>, Keep) = <<>>
<1>1. <<>> \in Seq({}) /\ \A i \in 1 .. Len(<<>>) : <<>>[i] \notin Keep
  OBVIOUS
<1> QED
  BY <1>1, WhereNone

(* The first n of a sequence, and one more.                                 *)
LEMMA InitialStep ==
  ASSUME NEW S, NEW s \in Seq(S)
  PROVE  /\ SubSeq(s, 1, 0) = <<>> /\ SubSeq(s, 1, Len(s)) = s
         /\ \A n \in 0 .. Len(s) : SubSeq(s, 1, n) \in Seq(S) /\ Len(SubSeq(s, 1, n)) = n
         /\ \A n \in 1 .. Len(s) :
              s[n] \in S /\ SubSeq(s, 1, n) = Append(SubSeq(s, 1, n - 1), s[n])
<1>1. Len(s) \in Nat
  OBVIOUS
<1>2. SubSeq(s, 1, 0) = <<>> /\ SubSeq(s, 1, Len(s)) = s
  BY SubSeqEmpty, SubSeqFull
<1>3. ASSUME NEW n \in 0 .. Len(s)
      PROVE  SubSeq(s, 1, n) \in Seq(S) /\ Len(SubSeq(s, 1, n)) = n
  <2>1. 1 \in Int /\ n \in Int /\ \A i \in 1 .. n : s[i] \in S
    BY <1>1
  <2>2. SubSeq(s, 1, n) \in Seq(S) /\ Len(SubSeq(s, 1, n)) = IF 1 <= n THEN (n - 1) + 1 ELSE 0
    BY <2>1, SubSeqProperties
  <2> QED
    BY <2>2, <1>1
<1>4. ASSUME NEW n \in 1 .. Len(s)
      PROVE  s[n] \in S /\ SubSeq(s, 1, n) = Append(SubSeq(s, 1, n - 1), s[n])
  <2>1. 1 \in 1 .. Len(s) /\ n \in 1 .. Len(s) /\ n - 1 \in 0 .. Len(s) /\ s[n] \in S
    BY <1>1
  <2>2. SubSeq(s, 1, n) = SubSeq(s, 1, n - 1) \o <<s[n]>>
    BY <2>1, SubSeqRecursiveSecond
  <2>3. SubSeq(s, 1, n - 1) \in Seq(S)
    BY <2>1, <1>3
  <2> QED
    BY <2>1, <2>2, <2>3, AppendIsConcat
<1> QED
  BY <1>2, <1>3, <1>4
=============================================================================
