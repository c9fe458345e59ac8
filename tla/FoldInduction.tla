---------------------------- MODULE FoldInduction ----------------------------
(***************************************************************************)
(* Induction over data, for the proofs about loops over bytes, tokens,     *)
(* fields and members, which the models write as FoldLeft.                 *)
(*                                                                         *)
(* The induction theorems of the library take a predicate as a parameter.  *)
(* SetInduction is about a set of numbers instead, and follows from the    *)
(* well-foundedness of < on Nat.  FoldLeft is a recursive function on the  *)
(* sets of positions of a sequence, always the largest first; FoldExists   *)
(* shows that there is such a function whenever each step of the loop      *)
(* stays within a set of values, and FoldTrace that its value is the last  *)
(* of the values the loop goes through.                                    *)
(***************************************************************************)
EXTENDS Integers, SequencesExt, WellFoundedInduction, TLAPS

\* A set that holds 0 and the successor of each natural number in it holds
\* them all.
LEMMA SetInduction ==
    ASSUME NEW S, 0 \in S, \A n \in Nat : n \in S => n + 1 \in S
    PROVE  Nat \subseteq S
<1> DEFINE T == Nat \ S
           R == {p \in Nat \X Nat : p[1] < p[2]}
<1>1. IsWellFoundedOn(R, Nat)
  BY NatLessThanWellFounded DEF OpToRel
<1>2. SUFFICES ASSUME T # {} PROVE FALSE
  OBVIOUS
<1>3. T \subseteq Nat
  OBVIOUS
<1> HIDE DEF R
<1>4. PICK x \in T : \A y \in T : ~ (<<y, x>> \in R)
  <2> HIDE DEF T
  <2> QED BY <1>1, <1>2, <1>3, WFMin
<1>5. x \in Nat /\ x # 0
  OBVIOUS
<1>6. x - 1 \in Nat /\ x - 1 < x /\ (x - 1) + 1 = x
  BY <1>5
<1>7. x - 1 \in T
  BY <1>5, <1>6
<1>8. <<x - 1, x>> \in R
  BY <1>5, <1>6 DEF R
<1> QED
  BY <1>4, <1>7, <1>8

-----------------------------------------------------------------------------
LEMMA MaxOf ==
    ASSUME NEW n \in Nat, NEW s \in SUBSET (1..(n + 1)), n + 1 \in s
    PROVE  Max(s) = n + 1
<1>1. \A y \in s : n + 1 >= y
  OBVIOUS
<1>2. \A x \in s : (\A y \in s : x >= y) => x = n + 1
  OBVIOUS
<1> QED
  BY <1>1, <1>2, Zenon DEF Max

LEMMA MaxIn ==
    ASSUME NEW n \in Nat, NEW s \in SUBSET (1..n), s # {}
    PROVE  Max(s) \in s
<1> DEFINE H == {m \in Nat : \A t \in SUBSET (1..m) : t # {} => Max(t) \in t}
<1>1. 0 \in H
  <2>1. 1..0 = {}
    OBVIOUS
  <2> QED
    BY <2>1
<1>2. ASSUME NEW m \in Nat, m \in H PROVE m + 1 \in H
  <2> SUFFICES ASSUME NEW t \in SUBSET (1..(m + 1)), t # {} PROVE Max(t) \in t
    OBVIOUS
  <2>1. CASE m + 1 \in t
    BY <2>1, MaxOf
  <2>2. CASE m + 1 \notin t
    <3>1. t \in SUBSET (1..m)
      BY <2>2
    <3> QED
      BY <1>2, <3>1
  <2> QED
    BY <2>1, <2>2
<1> HIDE DEF H
<1>3. Nat \subseteq H
  BY <1>1, <1>2, SetInduction
<1> QED
  BY <1>3 DEF H

\* The initial segments of 1..n, the sets on which a fold goes through a sequence.
LEMMA FoldSegment ==
    ASSUME NEW n \in Nat, NEW k \in 1..n
    PROVE  /\ 1..k \in SUBSET (1..n) /\ 1..(k - 1) \in SUBSET (1..n)
           /\ 1..k # {} /\ Max(1..k) = k /\ (1..k) \ {k} = 1..(k - 1)
<1>1. k - 1 \in Nat /\ k = (k - 1) + 1 /\ k \in 1..k
  OBVIOUS
<1>2. 1..k \in SUBSET (1..((k - 1) + 1))
  BY <1>1
<1>3. Max(1..k) = k
  BY <1>1, <1>2, MaxOf
<1>4. (1..k) \ {k} = 1..(k - 1)
  OBVIOUS
<1>5. 1..k \in SUBSET (1..n) /\ 1..(k - 1) \in SUBSET (1..n)
  OBVIOUS
<1> QED
  BY <1>1, <1>3, <1>4, <1>5

-----------------------------------------------------------------------------
\* h is the recursive function of a loop over n positions that starts with base
\* and applies step[k] at position k.
FoldsOver(h, n, base, step) ==
    h = [s \in SUBSET (1..n) |->
            IF s = {} THEN base ELSE step[Max(s)][h[s \ {Max(s)}]]]

\* A loop whose every step stays within V has such a function.
LEMMA FoldExists ==
    ASSUME NEW V, NEW base \in V, NEW N \in Nat, NEW step \in [1..N -> [V -> V]]
    PROVE  \E h \in [SUBSET (1..N) -> V] : FoldsOver(h, N, base, step)
<1> DEFINE Folds(n) == \E h \in [SUBSET (1..n) -> V] : FoldsOver(h, n, base, step)
           H == {n \in Nat : n <= N => Folds(n)}
<1>1. 0 \in H
  <2> DEFINE h == [s \in SUBSET (1..0) |-> base]
  <2>1. h \in [SUBSET (1..0) -> V]
    OBVIOUS
  <2>2. \A s \in SUBSET (1..0) : s = {}
    OBVIOUS
  <2>3. FoldsOver(h, 0, base, step)
    BY <2>2 DEF FoldsOver
  <2> QED
    BY <2>1, <2>3
<1>2. ASSUME NEW n \in Nat, n \in H PROVE n + 1 \in H
  <2> HIDE DEF Folds
  <2> SUFFICES ASSUME n + 1 <= N PROVE Folds(n + 1)
    OBVIOUS
  <2>0. Folds(n)
    BY <1>2
  <2>1. PICK g \in [SUBSET (1..n) -> V] : FoldsOver(g, n, base, step)
    BY <2>0 DEF Folds
  <2>2. step[n + 1] \in [V -> V]
    OBVIOUS
  <2> DEFINE h == [s \in SUBSET (1..(n + 1)) |->
                     IF n + 1 \in s THEN step[n + 1][g[s \ {n + 1}]] ELSE g[s]]
  <2>3. \A s \in SUBSET (1..(n + 1)) : s \ {n + 1} \in SUBSET (1..n)
                                         /\ (n + 1 \notin s => s \in SUBSET (1..n))
    OBVIOUS
  <2>4. h \in [SUBSET (1..(n + 1)) -> V]
    BY <2>2, <2>3
  <2>5. ASSUME NEW s \in SUBSET (1..(n + 1))
        PROVE  h[s] = IF s = {} THEN base ELSE step[Max(s)][h[s \ {Max(s)}]]
    <3>1. CASE n + 1 \in s
      <4>1. Max(s) = n + 1
        BY <3>1, MaxOf
      <4>2. s \ {n + 1} \in SUBSET (1..(n + 1)) /\ n + 1 \notin s \ {n + 1}
        OBVIOUS
      <4>3. h[s \ {n + 1}] = g[s \ {n + 1}]
        BY <4>2
      <4> QED
        BY <3>1, <4>1, <4>3
    <3>2. CASE n + 1 \notin s /\ s # {}
      <4>1. s \in SUBSET (1..n)
        BY <3>2
      <4>2. Max(s) \in s
        BY <3>2, <4>1, MaxIn
      <4>3. h[s] = g[s] /\ h[s \ {Max(s)}] = g[s \ {Max(s)}]
        BY <3>2
      <4>4. g[s] = step[Max(s)][g[s \ {Max(s)}]]
        BY <2>1, <3>2, <4>1 DEF FoldsOver
      <4> QED
        BY <3>2, <4>3, <4>4
    <3>3. CASE s = {}
      BY <2>1, <3>3 DEF FoldsOver
    <3> QED
      BY <3>1, <3>2, <3>3
  <2>6. FoldsOver(h, n + 1, base, step)
    <3> HIDE DEF h
    <3> QED
      BY <2>4, <2>5 DEF FoldsOver
  <2> QED
    BY <2>4, <2>6 DEF Folds
<1> HIDE DEF H
<1>3. Nat \subseteq H
  BY <1>1, <1>2, SetInduction
<1>4. Folds(N)
  <2> HIDE DEF Folds
  <2> QED
    BY <1>3 DEF H
<1> QED
  BY <1>4

\* The values a loop goes through: g[k] is the value after the first k steps.
Trace(g, n, V, base, step) ==
    /\ g \in [0..n -> V] /\ g[0] = base
    /\ \A k \in 1..n : g[k] = step[k][g[k - 1]]

\* A function that satisfies the equation of the fold where its values are in V.
FoldsWithin(c, n, V, base, step) ==
    /\ c[{}] = base
    /\ \A s \in SUBSET (1..n) : s # {} /\ c[s \ {Max(s)}] \in V
           => c[s] = step[Max(s)][c[s \ {Max(s)}]]

\* The values of such a function on the initial segments.
LoopValues(c, n) == [k \in 0..n |-> c[1..k]]

\* They are the values that the loop goes through.
LEMMA FoldTrace ==
    ASSUME NEW V, NEW base \in V, NEW n \in Nat, NEW step \in [1..n -> [V -> V]],
           NEW c, FoldsWithin(c, n, V, base, step)
    PROVE  Trace(LoopValues(c, n), n, V, base, step)
<1> DEFINE g == LoopValues(c, n)
           S == {k \in Nat : k <= n => c[1..k] \in V}
<1>1. c[1..0] = base
  <2>1. 1..0 = {}
    OBVIOUS
  <2> QED
    BY <2>1 DEF FoldsWithin
<1>2. ASSUME NEW k \in 1..n, c[1..(k - 1)] \in V
      PROVE  c[1..k] = step[k][c[1..(k - 1)]]
  <2>1. /\ 1..k \in SUBSET (1..n) /\ 1..k # {} /\ Max(1..k) = k
        /\ (1..k) \ {Max(1..k)} = 1..(k - 1)
    BY FoldSegment
  <2> QED
    BY <1>2, <2>1 DEF FoldsWithin
<1>3. Nat \subseteq S
  <2>1. 0 \in S
    BY <1>1
  <2>2. ASSUME NEW k \in Nat, k \in S PROVE k + 1 \in S
    <3> SUFFICES ASSUME k + 1 <= n PROVE c[1..(k + 1)] \in V
      OBVIOUS
    <3>1. k <= n /\ k + 1 \in 1..n /\ (k + 1) - 1 = k
      OBVIOUS
    <3>2. c[1..k] \in V
      BY <2>2, <3>1
    <3>3. c[1..(k + 1)] = step[k + 1][c[1..k]]
      BY <1>2, <3>1, <3>2
    <3>4. step[k + 1] \in [V -> V]
      BY <3>1
    <3> QED
      BY <3>2, <3>3, <3>4
  <2> HIDE DEF S
  <2> QED
    BY <2>1, <2>2, SetInduction
<1>4. \A k \in 0..n : c[1..k] \in V
  BY <1>3
<1>5. g \in [0..n -> V]
  BY <1>4 DEF LoopValues
<1>6. ASSUME NEW k \in 1..n PROVE g[k] = step[k][g[k - 1]]
  <2>1. k \in 0..n /\ k - 1 \in 0..n
    OBVIOUS
  <2> QED
    BY <1>2, <1>4, <2>1 DEF LoopValues
<1>7. g[0] = base
  BY <1>1 DEF LoopValues
<1>8. Trace(g, n, V, base, step)
  <2> HIDE DEF g
  <2> QED
    BY <1>5, <1>6, <1>7 DEF Trace
<1> QED
  BY <1>8

\* Two loops that start alike and take the same first n steps agree after them.
LEMMA TraceUnique ==
    ASSUME NEW V, NEW base, NEW f, NEW g, NEW s, NEW t, NEW i \in Nat, NEW j \in Nat,
           NEW n \in Nat, n <= i, n <= j,
           Trace(f, i, V, base, s), Trace(g, j, V, base, t), \A k \in 1..n : s[k] = t[k]
    PROVE  f[n] = g[n] /\ f[n] \in V
<1> DEFINE S == {k \in Nat : k <= n => f[k] = g[k]}
<1>1. 0 \in S
  BY DEF Trace
<1>2. ASSUME NEW k \in Nat, k \in S PROVE k + 1 \in S
  <2> SUFFICES ASSUME k + 1 <= n PROVE f[k + 1] = g[k + 1]
    OBVIOUS
  <2>1. /\ k + 1 \in 1..n /\ k + 1 \in 1..i /\ k + 1 \in 1..j
        /\ (k + 1) - 1 = k /\ f[k] = g[k]
    BY <1>2
  <2> QED
    BY <2>1 DEF Trace
<1> HIDE DEF S
<1>3. Nat \subseteq S
  BY <1>1, <1>2, SetInduction
<1>4. f[n] = g[n]
  BY <1>3 DEF S
<1>5. n \in 0..i
  OBVIOUS
<1> QED
  BY <1>4, <1>5 DEF Trace

=============================================================================
