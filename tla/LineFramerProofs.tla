-------------------------- MODULE LineFramerProofs --------------------------
(***************************************************************************)
(* Framing for every stream, every division of it into chunks, every       *)
(* payload limit and every pace of the service loop: the lines handed out  *)
(* are the stream split at its newlines without the lines that are too     *)
(* long, and each of those is counted once.                                *)
(*                                                                         *)
(* The reference speaks of whole streams; the proof needs what one more    *)
(* byte does to it.  A letter extends the unfinished line, a newline adds  *)
(* that line to the complete ones.                                         *)
(***************************************************************************)
EXTENDS LineFramer, FoldInduction, SequenceTheorems, FiniteSetTheorems

-----------------------------------------------------------------------------
(* The newlines of a stream and their ranks. *)

Ends(w) == {i \in 1..Len(w) : w[i] = Newline}

\* The newlines up to position i.
UpTo(w, i) == {j \in Ends(w) : j <= i}

Rank(w, i) == Cardinality(UpTo(w, i))

LEMMA EndsFinite ==
    ASSUME NEW w \in Seq(Byte)
    PROVE  /\ IsFiniteSet(Ends(w)) /\ Cardinality(Ends(w)) \in Nat
           /\ \A i \in Nat : IsFiniteSet(UpTo(w, i)) /\ Rank(w, i) \in Nat
<1>1. Len(w) \in Nat
  OBVIOUS
<1>2. IsFiniteSet(1..Len(w))
  BY <1>1, FS_Interval
<1>3. Ends(w) \in SUBSET (1..Len(w))
  BY DEF Ends
<1>4. IsFiniteSet(Ends(w))
  BY <1>2, <1>3, FS_Subset
<1>5. ASSUME NEW i \in Nat PROVE IsFiniteSet(UpTo(w, i))
  <2>1. UpTo(w, i) \in SUBSET Ends(w)
    BY DEF UpTo
  <2> QED
    BY <1>4, <2>1, FS_Subset
<1> QED
  BY <1>4, <1>5, FS_CardinalityType DEF Rank

\* No two newlines have the same rank.
LEMMA RankUnique ==
    ASSUME NEW w \in Seq(Byte), NEW i \in Ends(w), NEW j \in Ends(w), Rank(w, i) = Rank(w, j)
    PROVE  i = j
<1>1. ASSUME NEW a \in Ends(w), NEW b \in Ends(w), a < b PROVE Rank(w, a) # Rank(w, b)
  <2>1. a \in Nat /\ b \in Nat
    BY DEF Ends
  <2>2. UpTo(w, a) \in SUBSET UpTo(w, b) /\ b \in UpTo(w, b) /\ b \notin UpTo(w, a)
    BY <1>1, <2>1 DEF UpTo, Ends
  <2>3. IsFiniteSet(UpTo(w, b))
    BY <2>1, EndsFinite
  <2> QED
    BY <2>2, <2>3, FS_Subset DEF Rank
<1>2. i \in Nat /\ j \in Nat
  BY DEF Ends
<1> QED
  BY <1>1, <1>2

\* What one more byte does to the newlines.
LEMMA EndsAppend ==
    ASSUME NEW w \in Seq(Byte), NEW b \in Byte
    PROVE  /\ Append(w, b) \in Seq(Byte) /\ Len(Append(w, b)) = Len(w) + 1 /\ Len(w) \in Nat
           /\ b # Newline => Ends(Append(w, b)) = Ends(w)
           /\ b = Newline =>
                /\ Ends(Append(w, b)) = Ends(w) \cup {Len(w) + 1}
                /\ Cardinality(Ends(Append(w, b))) = Cardinality(Ends(w)) + 1
                /\ Rank(Append(w, b), Len(w) + 1) = Cardinality(Ends(w)) + 1
           /\ \A i \in Ends(w) : i \in Ends(Append(w, b)) /\ Rank(Append(w, b), i) = Rank(w, i)
<1> DEFINE v == Append(w, b)
           n == Len(w)
<1>1. /\ v \in Seq(Byte) /\ Len(v) = n + 1 /\ n \in Nat /\ v[n + 1] = b
      /\ \A i \in 1..n : v[i] = w[i]
  OBVIOUS
<1> HIDE DEF v, n
<1>2. Len(w) = n
  BY DEF n
<1>3. b # Newline => Ends(v) = Ends(w)
  BY <1>1, <1>2 DEF Ends
<1>4. b = Newline => Ends(v) = Ends(w) \cup {n + 1}
  BY <1>1, <1>2 DEF Ends
<1>5. n + 1 \notin Ends(w)
  BY <1>1, <1>2 DEF Ends
<1>6. b = Newline => Cardinality(Ends(v)) = Cardinality(Ends(w)) + 1
  BY <1>4, <1>5, EndsFinite, FS_AddElement
<1>7. UpTo(v, n + 1) = Ends(v)
  BY <1>1 DEF UpTo, Ends
<1>8. ASSUME NEW i \in Ends(w) PROVE i \in Ends(v) /\ Rank(v, i) = Rank(w, i)
  <2>1. i \in 1..n
    BY <1>2 DEF Ends
  <2>2. UpTo(v, i) = UpTo(w, i)
    BY <1>1, <1>2, <2>1 DEF UpTo, Ends
  <2> QED
    BY <1>3, <1>4, <2>2 DEF Rank
<1> QED
  BY <1>1, <1>3, <1>4, <1>6, <1>7, <1>8 DEF v, n, Rank

\* Every rank up to the number of newlines is taken.
LEMMA RankTaken ==
    ASSUME NEW w \in Seq(Byte), NEW k \in 1..Cardinality(Ends(w))
    PROVE  \E i \in Ends(w) : Rank(w, i) = k
<1> DEFINE Ranked(x) == \A r \in 1..Cardinality(Ends(x)) : \E i \in Ends(x) : Rank(x, i) = r
           S == {n \in Nat : \A x \in Seq(Byte) : Len(x) = n => Ranked(x)}
<1>1. 0 \in S
  <2>1. ASSUME NEW x \in Seq(Byte), Len(x) = 0 PROVE Ranked(x)
    <3>1. Ends(x) = {}
      BY <2>1 DEF Ends
    <3>2. Cardinality(Ends(x)) = 0
      BY <3>1, FS_EmptySet
    <3> QED
      BY <3>2
  <2> QED
    BY <2>1
<1>2. ASSUME NEW n \in Nat, n \in S PROVE n + 1 \in S
  <2> SUFFICES ASSUME NEW x \in Seq(Byte), Len(x) = n + 1 PROVE Ranked(x)
    OBVIOUS
  <2>1. PICK y \in Seq(Byte), b \in Byte : x = Append(y, b) /\ Len(y) = n
    <3>1. x = Append(SubSeq(x, 1, n), x[n + 1])
      OBVIOUS
    <3>2. SubSeq(x, 1, n) \in Seq(Byte) /\ x[n + 1] \in Byte /\ Len(SubSeq(x, 1, n)) = n
      OBVIOUS
    <3> QED
      BY <3>1, <3>2
  <2>2. Ranked(y)
    BY <1>2, <2>1
  <2>3. Cardinality(Ends(y)) \in Nat
    BY EndsFinite
  <2>4. ASSUME NEW r \in 1..Cardinality(Ends(x)) PROVE \E i \in Ends(x) : Rank(x, i) = r
    <3>1. CASE r \in 1..Cardinality(Ends(y))
      <4>1. PICK i \in Ends(y) : Rank(y, i) = r
        BY <2>2, <3>1
      <4>2. i \in Ends(x) /\ Rank(x, i) = Rank(y, i)
        BY <2>1, <4>1, EndsAppend
      <4> QED
        BY <4>1, <4>2
    <3>2. CASE r \notin 1..Cardinality(Ends(y))
      <4>1. b = Newline
        BY <2>1, <3>2, EndsAppend
      <4>2. /\ Cardinality(Ends(x)) = Cardinality(Ends(y)) + 1
            /\ Ends(x) = Ends(y) \cup {Len(y) + 1}
            /\ Rank(x, Len(y) + 1) = Cardinality(Ends(y)) + 1
        BY <2>1, <4>1, EndsAppend
      <4>3. r = Cardinality(Ends(y)) + 1
        BY <2>3, <3>2, <4>2
      <4> QED
        BY <4>2, <4>3
    <3> QED
      BY <3>1, <3>2
  <2> QED
    BY <2>4
<1> HIDE DEF S
<1>3. Nat \subseteq S
  BY <1>1, <1>2, SetInduction
<1>4. Len(w) \in S
  BY <1>3
<1> QED
  BY <1>4 DEF S

Nth(w, k) == CHOOSE i \in Ends(w) : Rank(w, i) = k

LEMMA NthEnd ==
    ASSUME NEW w \in Seq(Byte), NEW k \in 1..Cardinality(Ends(w))
    PROVE  /\ Nth(w, k) \in Ends(w) /\ Rank(w, Nth(w, k)) = k
           /\ \A i \in Ends(w) : Rank(w, i) = k => i = Nth(w, k)
<1>1. Nth(w, k) \in Ends(w) /\ Rank(w, Nth(w, k)) = k
  BY RankTaken DEF Nth
<1> QED
  BY <1>1, RankUnique

-----------------------------------------------------------------------------
(* The lines of a stream. *)

\* Where the line that ends at position i begins.
StartOf(w, i) ==
    LET before == {j \in 1..(i - 1) : w[j] = Newline}
    IN  IF before = {} THEN 1 ELSE Max(before) + 1

\* What follows the last newline.
Unfinished(w) == LineEndingAt(w, Len(w) + 1)

LEMMA LineFrom ==
    ASSUME NEW w \in Seq(Byte), NEW i \in 1..(Len(w) + 1)
    PROVE  /\ LineEndingAt(w, i) = SubSeq(w, StartOf(w, i), i - 1)
           /\ StartOf(w, i) \in 1..i
           /\ LineEndingAt(w, i) \in Seq(Byte)
<1> DEFINE before == {j \in 1..(i - 1) : w[j] = Newline}
<1>1. LineEndingAt(w, i) = SubSeq(w, StartOf(w, i), i - 1)
  BY Zenon DEF LineEndingAt, StartOf
<1>2. i - 1 \in Nat /\ before \in SUBSET (1..(i - 1)) /\ i \in Nat \ {0}
  OBVIOUS
<1>3. StartOf(w, i) = IF before = {} THEN 1 ELSE Max(before) + 1
  BY DEF StartOf
<1> HIDE DEF before
<1>4. before # {} => Max(before) \in 1..(i - 1)
  BY <1>2, MaxIn
<1>5. StartOf(w, i) \in 1..i
  BY <1>2, <1>3, <1>4
<1>6. SubSeq(w, StartOf(w, i), i - 1) \in Seq(Byte)
  <2>1. \A k \in StartOf(w, i)..(i - 1) : k \in 1..Len(w)
    BY <1>2, <1>5
  <2> QED
    BY <1>2, <1>5, <2>1, SubSeqProperties
<1> QED
  BY <1>1, <1>5, <1>6

\* A line that is there stays as it is.
LEMMA LineKept ==
    ASSUME NEW w \in Seq(Byte), NEW b \in Byte, NEW i \in 1..(Len(w) + 1)
    PROVE  LineEndingAt(Append(w, b), i) = LineEndingAt(w, i)
<1> DEFINE v == Append(w, b)
           n == Len(w)
<1>1. /\ v \in Seq(Byte) /\ Len(v) = n + 1 /\ n \in Nat
      /\ \A j \in 1..n : v[j] = w[j]
  OBVIOUS
<1>2. i \in 1..(Len(v) + 1) /\ i \in 1..(n + 1)
  BY <1>1
<1> HIDE DEF v
<1>3. {j \in 1..(i - 1) : v[j] = Newline} = {j \in 1..(i - 1) : w[j] = Newline}
  BY <1>1, <1>2
<1>4. StartOf(v, i) = StartOf(w, i)
  BY <1>3 DEF StartOf
<1>5. StartOf(w, i) \in 1..i /\ LineEndingAt(w, i) = SubSeq(w, StartOf(w, i), i - 1)
  BY LineFrom
<1>6. LineEndingAt(v, i) = SubSeq(v, StartOf(w, i), i - 1)
  BY <1>1, <1>2, <1>4, LineFrom
<1>7. SubSeq(v, StartOf(w, i), i - 1) = SubSeq(w, StartOf(w, i), i - 1)
  <2>1. PICK f \in 1..i : f = StartOf(w, i)
    BY <1>5
  <2>2. f \in Int /\ i - 1 \in Int /\ f >= 1 /\ i - 1 <= n
    BY <1>1, <1>2
  <2>3. \A j \in f..(i - 1) : v[j] = w[j] /\ v[j] \in Byte /\ w[j] \in Byte
    BY <1>1, <2>2
  <2>4. /\ SubSeq(v, f, i - 1) \in Seq(Byte) /\ SubSeq(w, f, i - 1) \in Seq(Byte)
        /\ Len(SubSeq(v, f, i - 1)) = IF f <= i - 1 THEN (i - 1) - f + 1 ELSE 0
        /\ Len(SubSeq(w, f, i - 1)) = IF f <= i - 1 THEN (i - 1) - f + 1 ELSE 0
        /\ \A k \in 1..((i - 1) - f + 1) : SubSeq(v, f, i - 1)[k] = v[f + k - 1]
        /\ \A k \in 1..((i - 1) - f + 1) : SubSeq(w, f, i - 1)[k] = w[f + k - 1]
    BY <2>2, <2>3, SubSeqProperties
  <2>5. \A k \in 1..((i - 1) - f + 1) : f + k - 1 \in f..(i - 1)
    BY <2>2
  <2>6. SubSeq(v, f, i - 1) = SubSeq(w, f, i - 1)
    <3>1. ASSUME NEW k \in 1..Len(SubSeq(v, f, i - 1))
          PROVE  SubSeq(v, f, i - 1)[k] = SubSeq(w, f, i - 1)[k]
      <4>1. k \in 1..((i - 1) - f + 1)
        BY <2>2, <2>4
      <4> QED
        BY <2>3, <2>4, <2>5, <4>1
    <3> QED
      BY <2>4, <3>1, SeqEqual
  <2> QED
    BY <2>1, <2>6
<1> QED
  BY <1>5, <1>6, <1>7 DEF v

\* A letter extends the unfinished line; after a newline there is none.
LEMMA UnfinishedAppend ==
    ASSUME NEW w \in Seq(Byte), NEW b \in Byte
    PROVE  /\ Unfinished(w) \in Seq(Byte)
           /\ Unfinished(Append(w, b)) =
                 IF b = Newline THEN <<>> ELSE Append(Unfinished(w), b)
<1> DEFINE v == Append(w, b)
           n == Len(w)
<1>1. /\ v \in Seq(Byte) /\ Len(v) = n + 1 /\ n \in Nat /\ v[n + 1] = b
      /\ \A j \in 1..n : v[j] = w[j]
  OBVIOUS
<1>2. Unfinished(w) = SubSeq(w, StartOf(w, n + 1), n) /\ StartOf(w, n + 1) \in 1..(n + 1)
      /\ Unfinished(w) \in Seq(Byte)
  <2>1. n + 1 \in 1..(Len(w) + 1) /\ (n + 1) - 1 = n
    BY <1>1
  <2> QED
    BY <2>1, LineFrom DEF Unfinished
<1> HIDE DEF v
<1>3. Unfinished(v) = SubSeq(v, StartOf(v, n + 2), n + 1)
  <2>1. n + 2 \in 1..(Len(v) + 1) /\ (n + 2) - 1 = n + 1 /\ Len(v) + 1 = n + 2
    BY <1>1
  <2> QED
    BY <1>1, <2>1, LineFrom DEF Unfinished
<1>4. StartOf(v, n + 2) = IF Ends(v) = {} THEN 1 ELSE Max(Ends(v)) + 1
  <2>1. {j \in 1..((n + 2) - 1) : v[j] = Newline} = Ends(v)
    BY <1>1 DEF Ends
  <2> QED
    BY <2>1 DEF StartOf
<1>5. CASE b = Newline
  <2>1. n + 1 \in Ends(v) /\ Ends(v) \in SUBSET (1..(n + 1))
    BY <1>1, <1>5 DEF Ends
  <2>2. StartOf(v, n + 2) = n + 2
    <3>1. Max(Ends(v)) = n + 1
      BY <1>1, <2>1, MaxOf
    <3> QED
      BY <1>1, <1>4, <2>1, <3>1
  <2>3. SubSeq(v, n + 2, n + 1) = <<>>
    BY <1>1
  <2> QED
    BY <1>2, <1>3, <1>5, <2>2, <2>3 DEF v
<1>6. CASE b # Newline
  <2>1. StartOf(v, n + 2) = StartOf(w, n + 1)
    <3>1. {j \in 1..((n + 1) - 1) : w[j] = Newline} = Ends(v)
      BY <1>1, <1>6 DEF Ends
    <3> QED
      BY <1>4, <3>1 DEF StartOf
  <2>2. PICK f \in 1..(n + 1) : f = StartOf(w, n + 1)
    BY <1>2
  <2>3. SubSeq(v, f, n + 1) = Append(SubSeq(w, f, n), b)
    BY <1>1, <2>2 DEF v
  <2> QED
    BY <1>2, <1>3, <1>6, <2>1, <2>2, <2>3 DEF v
<1> QED
  BY <1>5, <1>6

LEMMA LinesDefined ==
    ASSUME NEW w \in Seq(Byte)
    PROVE  /\ CompleteLines(w) =
                 [k \in 1..Cardinality(Ends(w)) |-> LineEndingAt(w, Nth(w, k))]
           /\ CompleteLines(w) \in Seq(Seq(Byte))
           /\ Len(CompleteLines(w)) = Cardinality(Ends(w))
<1>1. CompleteLines(w) = [k \in 1..Cardinality(Ends(w)) |-> LineEndingAt(w, Nth(w, k))]
  BY Zenon DEF CompleteLines, Nth, Rank, UpTo, Ends
<1> DEFINE V == Seq(Byte)
           c == Cardinality(Ends(w))
           q == [k \in 1..c |-> LineEndingAt(w, Nth(w, k))]
<1>2. ASSUME NEW k \in 1..c PROVE LineEndingAt(w, Nth(w, k)) \in V
  <2>1. Nth(w, k) \in Ends(w)
    BY NthEnd
  <2>2. Nth(w, k) \in 1..(Len(w) + 1)
    BY <2>1 DEF Ends
  <2> QED
    BY <2>2, LineFrom
<1>3. c \in Nat
  BY EndsFinite
<1> HIDE DEF V, c
<1>4. q \in Seq(V) /\ Len(q) = c
  BY <1>2, <1>3
<1> QED
  BY <1>1, <1>4 DEF V, c

\* A newline completes the unfinished line; a letter completes nothing.
LEMMA LinesAppend ==
    ASSUME NEW w \in Seq(Byte), NEW b \in Byte
    PROVE  CompleteLines(Append(w, b)) =
              IF b = Newline THEN Append(CompleteLines(w), Unfinished(w)) ELSE CompleteLines(w)
<1> DEFINE v == Append(w, b)
           n == Len(w)
           c == Cardinality(Ends(w))
           d == Cardinality(Ends(v))
<1>1. /\ v \in Seq(Byte) /\ n \in Nat /\ c \in Nat
      /\ d = IF b = Newline THEN c + 1 ELSE c
      /\ b = Newline => n + 1 \in Ends(v) /\ Rank(v, n + 1) = c + 1
  BY EndsAppend, EndsFinite
<1>2. ASSUME NEW k \in 1..c
      PROVE  Nth(v, k) = Nth(w, k) /\ LineEndingAt(v, Nth(v, k)) = LineEndingAt(w, Nth(w, k))
  <2>1. Nth(w, k) \in Ends(w) /\ Rank(w, Nth(w, k)) = k
    BY NthEnd
  <2>2. Nth(w, k) \in Ends(v) /\ Rank(v, Nth(w, k)) = k
    BY <2>1, EndsAppend
  <2>3. k \in 1..d
    BY <1>1
  <2>4. Nth(v, k) = Nth(w, k)
    <3> HIDE DEF v
    <3> QED
      BY <1>1, <2>2, <2>3, NthEnd
  <2>5. Nth(w, k) \in 1..(Len(w) + 1)
    BY <2>1 DEF Ends
  <2> QED
    BY <2>4, <2>5, LineKept
<1>3. b = Newline => LineEndingAt(v, Nth(v, c + 1)) = Unfinished(w)
  <2> SUFFICES ASSUME b = Newline PROVE LineEndingAt(v, Nth(v, c + 1)) = Unfinished(w)
    OBVIOUS
  <2>1. c + 1 \in 1..d
    BY <1>1
  <2>2. Nth(v, c + 1) = n + 1
    <3> HIDE DEF v
    <3> QED
      BY <1>1, <2>1, NthEnd
  <2>3. n + 1 \in 1..(Len(w) + 1)
    BY <1>1
  <2> QED
    BY <2>2, <2>3, LineKept DEF Unfinished
<1>4. /\ CompleteLines(w) = [k \in 1..c |-> LineEndingAt(w, Nth(w, k))]
      /\ CompleteLines(w) \in Seq(Seq(Byte)) /\ Len(CompleteLines(w)) = c
  BY LinesDefined
<1>5. CompleteLines(v) = [k \in 1..d |-> LineEndingAt(v, Nth(v, k))]
  <2> HIDE DEF v
  <2> QED
    BY <1>1, LinesDefined
<1> HIDE DEF v, c, d
<1>6. CASE b # Newline
  BY <1>1, <1>2, <1>4, <1>5, <1>6 DEF v
<1>7. CASE b = Newline
  <2> DEFINE V == Seq(Byte)
             q == CompleteLines(w)
             u == Unfinished(w)
  <2>1. q \in Seq(V) /\ Len(q) = c /\ \A k \in 1..c : q[k] = LineEndingAt(w, Nth(w, k))
    BY <1>4
  <2>2. u \in V
    BY UnfinishedAppend
  <2> HIDE DEF V, q, u
  <2>3. /\ Append(q, u) \in Seq(V) /\ Len(Append(q, u)) = c + 1
        /\ \A k \in 1..c : Append(q, u)[k] = q[k]
        /\ Append(q, u)[c + 1] = u
    BY <2>1, <2>2, AppendProperties
  <2>4. /\ CompleteLines(v) \in Seq(V) /\ Len(CompleteLines(v)) = c + 1
        /\ \A k \in 1..(c + 1) : CompleteLines(v)[k] = LineEndingAt(v, Nth(v, k))
    BY <1>1, <1>5, <1>7, LinesDefined DEF V, d
  <2>5. ASSUME NEW k \in 1..(c + 1) PROVE CompleteLines(v)[k] = Append(q, u)[k]
    <3>1. CASE k = c + 1
      BY <1>3, <1>7, <2>3, <2>4, <3>1 DEF u
    <3>2. CASE k # c + 1
      <4>1. k \in 1..c
        BY <1>1, <3>2
      <4> QED
        BY <1>2, <2>1, <2>3, <2>4, <4>1
    <3> QED
      BY <3>1, <3>2
  <2>6. CompleteLines(v) = Append(q, u)
    BY <2>3, <2>4, <2>5, SeqEqual
  <2> QED
    BY <1>7, <2>6 DEF v, q, u
<1> QED
  BY <1>6, <1>7

LEMMA LinesEmpty == CompleteLines(<<>>) = <<>> /\ Unfinished(<<>>) = <<>>
<1>1. <<>> \in Seq(Byte) /\ Len(<<>>) = 0
  OBVIOUS
<1>2. Ends(<<>>) = {}
  BY DEF Ends
<1>3. Len(CompleteLines(<<>>)) = 0 /\ CompleteLines(<<>>) \in Seq(Seq(Byte))
  BY <1>1, <1>2, LinesDefined, FS_EmptySet
<1>4. CompleteLines(<<>>) = <<>>
  <2> DEFINE V == Seq(Byte)
  <2>1. CompleteLines(<<>>) \in Seq(V)
    BY <1>3
  <2> HIDE DEF V
  <2> QED
    BY <1>3, <2>1
<1>5. Unfinished(<<>>) = <<>>
  <2>1. 1 \in 1..(Len(<<>>) + 1) /\ Len(<<>>) + 1 = 1 /\ 1 - 1 = 0
    BY <1>1
  <2>2. Unfinished(<<>>) = SubSeq(<<>>, StartOf(<<>>, 1), 0) /\ StartOf(<<>>, 1) \in 1..1
    BY <1>1, <2>1, LineFrom DEF Unfinished
  <2> QED
    BY <2>2
<1> QED
  BY <1>4, <1>5

-----------------------------------------------------------------------------
(* The acceptable lines, and the number of the others. *)

Kept(q) ==
    FoldLeft(LAMBDA kept, l : IF Len(l) <= MaxPayload THEN Append(kept, l) ELSE kept, <<>>, q)

KeepOne(v, l) == IF Len(l) <= MaxPayload THEN Append(v, l) ELSE v

KeepSteps(T, q) == [k \in 1..Len(q) |-> [v \in Seq(T) |-> KeepOne(v, q[k])]]

LEMMA KeptTrace ==
    ASSUME NEW T, NEW q \in Seq(T)
    PROVE  \E g : /\ Trace(g, Len(q), Seq(T), <<>>, KeepSteps(T, q))
                  /\ Kept(q) = g[Len(q)]
<1> DEFINE n == Len(q)
           P(h) == h = [s \in SUBSET (DOMAIN q) |->
                          IF s = {} THEN <<>> ELSE KeepOne(h[s \ {Max(s)}], q[Max(s)])]
           c == CHOOSE h : P(h)
           step == KeepSteps(T, q)
           V == Seq(T)
<1>1. n \in Nat /\ DOMAIN q = 1..n /\ (\A k \in 1..n : q[k] \in T) /\ <<>> \in V
  OBVIOUS
<1>2. Kept(q) = c[DOMAIN q]
  BY Zenon DEF Kept, FoldLeft, MapThenFoldSet, KeepOne
<1>3. step \in [1..n -> [V -> V]] /\ \A k \in 1..n, v \in V : step[k][v] = KeepOne(v, q[k])
  <2>1. ASSUME NEW k \in 1..n, NEW v \in V PROVE KeepOne(v, q[k]) \in V
    BY <1>1 DEF KeepOne
  <2> QED
    BY <1>1, <2>1 DEF KeepSteps
<1> HIDE DEF n, step, V
<1>4. \A s \in SUBSET (1..n) : s # {} => Max(s) \in 1..n
  BY <1>1, MaxIn
<1>5. \E h : P(h)
  <2>1. PICK h \in [SUBSET (1..n) -> V] : FoldsOver(h, n, <<>>, step)
    BY <1>1, <1>3, FoldExists
  <2>2. \A s \in SUBSET (1..n) : h[s \ {Max(s)}] \in V
    OBVIOUS
  <2>3. P(h)
    BY <1>1, <1>3, <1>4, <2>1, <2>2 DEF FoldsOver
  <2> QED
    BY <2>3
<1>6. P(c)
  <2> HIDE DEF P
  <2> QED
    BY <1>5
<1> HIDE DEF c
<1>7. FoldsWithin(c, n, V, <<>>, step)
  BY <1>1, <1>3, <1>4, <1>6 DEF FoldsWithin
<1>8. n \in Nat /\ <<>> \in V /\ step \in [1..n -> [V -> V]]
  BY <1>1, <1>3
<1>9. Trace(LoopValues(c, n), n, V, <<>>, step)
  <2> HIDE DEF P
  <2> QED
    BY <1>7, <1>8, FoldTrace
<1>10. LoopValues(c, n)[n] = c[1..n]
  <2>1. n \in 0..n
    BY <1>8
  <2> QED
    BY <2>1 DEF LoopValues
<1> QED
  BY <1>1, <1>2, <1>9, <1>10 DEF n, step, V

LEMMA KeptAppend ==
    ASSUME NEW T, NEW q \in Seq(T), NEW l \in T
    PROVE  /\ Kept(q) \in Seq(T)
           /\ Kept(Append(q, l)) = KeepOne(Kept(q), l)
<1> DEFINE p == Append(q, l)
           n == Len(q)
           V == Seq(T)
<1>1. /\ p \in Seq(T) /\ n \in Nat /\ Len(p) = n + 1 /\ p[n + 1] = l
      /\ \A k \in 1..n : q[k] = p[k]
  OBVIOUS
<1> HIDE DEF p
<1>2. PICK f : Trace(f, Len(q), V, <<>>, KeepSteps(T, q)) /\ Kept(q) = f[Len(q)]
  BY KeptTrace
<1>3. PICK g : Trace(g, Len(p), V, <<>>, KeepSteps(T, p)) /\ Kept(p) = g[Len(p)]
  BY <1>1, KeptTrace
<1>4. ASSUME NEW k \in 1..n PROVE KeepSteps(T, q)[k] = KeepSteps(T, p)[k]
  <2>1. k \in 1..Len(q) /\ k \in 1..Len(p) /\ q[k] = p[k]
    BY <1>1
  <2> QED
    BY <2>1 DEF KeepSteps
<1>5. n <= Len(q) /\ n <= Len(p) /\ Len(q) \in Nat /\ Len(p) \in Nat
  BY <1>1
<1>6. f[n] = g[n] /\ f[n] \in V
  <2>1. \A k \in 1..n : KeepSteps(T, q)[k] = KeepSteps(T, p)[k]
    BY <1>4
  <2>2. n \in Nat
    BY <1>1
  <2> HIDE DEF n, V
  <2> QED
    BY <1>2, <1>3, <1>5, <2>1, <2>2, TraceUnique
<1>7. n + 1 \in 1..Len(p) /\ (n + 1) - 1 = n
  BY <1>1
<1>8. g[n + 1] = KeepSteps(T, p)[n + 1][g[n]]
  BY <1>3, <1>7 DEF Trace
<1>9. KeepSteps(T, p)[n + 1][g[n]] = KeepOne(g[n], l)
  BY <1>1, <1>6, <1>7 DEF KeepSteps
<1> QED
  BY <1>1, <1>2, <1>3, <1>6, <1>8, <1>9 DEF p

LEMMA KeptEmpty == Kept(<<>>) = <<>>
<1>1. <<>> \in Seq({}) /\ Len(<<>>) = 0
  OBVIOUS
<1>2. PICK g : Trace(g, Len(<<>>), Seq({}), <<>>, KeepSteps({}, <<>>)) /\ Kept(<<>>) = g[Len(<<>>)]
  BY <1>1, KeptTrace
<1> QED
  BY <1>1, <1>2 DEF Trace

TooLong(q) == Cardinality({k \in DOMAIN q : Len(q[k]) > MaxPayload})

LEMMA TooLongAppend ==
    ASSUME NEW T, NEW q \in Seq(T), NEW l \in T
    PROVE  /\ TooLong(q) \in Nat
           /\ TooLong(Append(q, l)) = TooLong(q) + IF Len(l) > MaxPayload THEN 1 ELSE 0
<1> DEFINE p == Append(q, l)
           n == Len(q)
           A == {k \in 1..n : Len(q[k]) > MaxPayload}
           B == {k \in 1..(n + 1) : Len(p[k]) > MaxPayload}
<1>1. /\ n \in Nat /\ DOMAIN q = 1..n /\ DOMAIN p = 1..(n + 1) /\ p[n + 1] = l
      /\ \A k \in 1..n : q[k] = p[k]
  OBVIOUS
<1>2. TooLong(q) = Cardinality(A) /\ TooLong(p) = Cardinality(B)
  BY <1>1 DEF TooLong
<1> HIDE DEF p
<1>3. B = IF Len(l) > MaxPayload THEN A \cup {n + 1} ELSE A
  BY <1>1
<1>4. n + 1 \notin A
  BY <1>1
<1>5. IsFiniteSet(A)
  <2>1. A \in SUBSET (1..n) /\ IsFiniteSet(1..n)
    BY <1>1, FS_Interval
  <2> QED
    BY <2>1, FS_Subset
<1> HIDE DEF A, B, n
<1>6. Cardinality(A) \in Nat
  BY <1>5, FS_CardinalityType
<1>7. CASE Len(l) > MaxPayload
  <2>1. Cardinality(B) = Cardinality(A) + 1
    BY <1>3, <1>4, <1>5, <1>7, FS_AddElement
  <2> QED
    BY <1>2, <1>6, <1>7, <2>1 DEF p
<1>8. CASE ~(Len(l) > MaxPayload)
  BY <1>2, <1>3, <1>6, <1>8 DEF p
<1> QED
  BY <1>7, <1>8

LEMMA TooLongEmpty == TooLong(<<>>) = 0
<1>1. {k \in DOMAIN <<>> : Len(<<>>[k]) > MaxPayload} = {}
  OBVIOUS
<1> QED
  BY <1>1, FS_EmptySet DEF TooLong

\* What one more byte does to the reference.
LEMMA ReferenceStep ==
    ASSUME NEW w \in Seq(Byte), NEW b \in Byte
    PROVE  /\ Unfinished(w) \in Seq(Byte) /\ Append(w, b) \in Seq(Byte)
           /\ Unfinished(Append(w, b)) =
                 IF b = Newline THEN <<>> ELSE Append(Unfinished(w), b)
           /\ AcceptableLines(w) \in Seq(Seq(Byte))
           /\ AcceptableLines(Append(w, b)) =
                 IF b = Newline THEN KeepOne(AcceptableLines(w), Unfinished(w))
                 ELSE AcceptableLines(w)
           /\ TooLong(CompleteLines(w)) \in Nat
           /\ TooLong(CompleteLines(Append(w, b))) =
                 TooLong(CompleteLines(w))
                 + IF b = Newline /\ Len(Unfinished(w)) > MaxPayload THEN 1 ELSE 0
<1> DEFINE V == Seq(Byte)
           q == CompleteLines(w)
           u == Unfinished(w)
<1>1. u \in V /\ q \in Seq(V) /\ Append(w, b) \in V
  BY UnfinishedAppend, LinesDefined
<1>2. \A x : AcceptableLines(x) = Kept(CompleteLines(x))
  BY Zenon DEF AcceptableLines, Kept
<1>3. CompleteLines(Append(w, b)) = IF b = Newline THEN Append(q, u) ELSE q
  BY LinesAppend
<1>4. /\ Kept(q) \in Seq(V) /\ Kept(Append(q, u)) = KeepOne(Kept(q), u)
      /\ TooLong(q) \in Nat
      /\ TooLong(Append(q, u)) = TooLong(q) + IF Len(u) > MaxPayload THEN 1 ELSE 0
  <2> HIDE DEF V, q, u
  <2> QED
    BY <1>1, KeptAppend, TooLongAppend
<1>5. Unfinished(Append(w, b)) = IF b = Newline THEN <<>> ELSE Append(Unfinished(w), b)
  BY UnfinishedAppend
<1>6. CASE b = Newline
  BY <1>1, <1>2, <1>3, <1>4, <1>5, <1>6
<1>7. CASE b # Newline
  BY <1>1, <1>2, <1>3, <1>4, <1>5, <1>7
<1> QED
  BY <1>6, <1>7

-----------------------------------------------------------------------------
(* The framer. *)

Framer ==
    [active : Seq(Letters), active_ready : BOOLEAN, acquired : BOOLEAN,
     pending : Seq(Letters), pending_ready : BOOLEAN, discard : BOOLEAN,
     oversized : Nat, consumed : Nat]

HeldBy(f) == (IF f.active_ready /\ ~f.acquired THEN <<f.active>> ELSE <<>>)
             \o (IF f.pending_ready THEN <<f.pending>> ELSE <<>>)

\* The accumulator is the unfinished line, empty when that is already too long;
\* a complete line waits in it only behind another one.
Accumulates(f, w) ==
    /\ f.acquired => f.active_ready
    /\ f.pending_ready => f.active_ready /\ ~f.discard /\ Unfinished(w) = <<>>
    /\ ~f.pending_ready /\ ~f.discard => f.pending = Unfinished(w)
    /\ f.discard => f.pending = <<>> /\ Len(Unfinished(w)) > MaxPayload

\* What the framer holds, once acq was handed out, of the bytes w of a session.
Framed(f, acq, w) ==
    /\ f \in Framer /\ Len(f.active) <= MaxPayload /\ Len(f.pending) <= MaxPayload
    /\ acq \in Seq(Seq(Letters)) /\ w \in Seq(Byte)
    /\ Accumulates(f, w)
    /\ acq \o HeldBy(f) = AcceptableLines(w)
    /\ f.oversized = TooLong(CompleteLines(w)) + IF f.discard THEN 1 ELSE 0

\* A complete line goes behind the ones that are held.
LEMMA HeldExtended ==
    ASSUME NEW T, NEW acq \in Seq(T), NEW a \in Seq(T), NEW l \in T
    PROVE  acq \o (a \o <<l>>) = Append(acq \o (a \o <<>>), l)
  OBVIOUS

\* The fields of r are those of f, but for the ones named.
Same(r, f) ==
    /\ r.active = f.active /\ r.active_ready = f.active_ready /\ r.acquired = f.acquired

\* The ways in which a byte changes the framer.
LEMMA ByteCases ==
    ASSUME NEW f \in Framer, ~f.pending_ready, NEW b \in Byte, NEW r, r = AppendByte(f, b),
           f.acquired => f.active_ready
    PROVE  /\ r \in Framer /\ r.consumed = f.consumed + 1
           /\ \/ /\ f.discard /\ Same(r, f) /\ r.pending = f.pending /\ ~r.pending_ready
                 /\ (r.discard <=> b # Newline) /\ r.oversized = f.oversized
              \/ /\ ~f.discard /\ b = Newline /\ ~r.discard /\ r.oversized = f.oversized
                 /\ \/ /\ f.active_ready /\ Same(r, f) /\ r.pending = f.pending
                       /\ r.pending_ready
                    \/ /\ ~f.active_ready /\ r.active = f.pending /\ r.active_ready
                       /\ ~r.acquired /\ r.pending = <<>> /\ ~r.pending_ready
              \/ /\ ~f.discard /\ b # Newline /\ Len(f.pending) = MaxPayload
                 /\ Same(r, f) /\ r.pending = <<>> /\ ~r.pending_ready /\ r.discard
                 /\ r.oversized = f.oversized + 1
              \/ /\ ~f.discard /\ b # Newline /\ Len(f.pending) # MaxPayload
                 /\ Same(r, f) /\ r.pending = Append(f.pending, b) /\ ~r.pending_ready
                 /\ ~r.discard /\ r.oversized = f.oversized
<1> DEFINE g == [f EXCEPT !.consumed = @ + 1]
<1>1. /\ g \in Framer /\ g.consumed = f.consumed + 1 /\ Same(g, f) /\ g.pending = f.pending
      /\ g.pending_ready = f.pending_ready /\ g.discard = f.discard
      /\ g.oversized = f.oversized
  BY DEF Framer, Same
<1>2. AppendByte(f, b) =
         IF f.discard THEN [g EXCEPT !.discard = (b # Newline)]
         ELSE IF b = Newline THEN completeAccumulatedLine(g)
         ELSE IF Len(f.pending) = MaxPayload
         THEN [g EXCEPT !.oversized = @ + 1, !.pending = <<>>, !.discard = TRUE]
         ELSE [g EXCEPT !.pending = Append(@, b)]
  BY DEF AppendByte
<1>3. <<>> \in Seq(Letters)
  OBVIOUS
<1> HIDE DEF g
<1>4. CASE f.discard
  <2>1. r = [g EXCEPT !.discard = (b # Newline)]
    BY <1>2, <1>4
  <2>2. PICK d \in BOOLEAN : d <=> b # Newline
    OBVIOUS
  <2>3. (b # Newline) = d
    BY <2>2, Zenon
  <2>4. r = [g EXCEPT !.discard = d]
    BY <2>1, <2>3
  <2> QED
    BY <1>1, <1>4, <2>2, <2>4 DEF Framer, Same
<1>5. CASE ~f.discard /\ b = Newline
  <2> DEFINE h == [g EXCEPT !.pending_ready = TRUE]
  <2>1. r = promotePendingIfPossible(h)
    BY <1>2, <1>5 DEF completeAccumulatedLine
  <2>2. /\ h \in Framer /\ h.pending_ready = TRUE /\ h.consumed = f.consumed + 1 /\ Same(h, f)
        /\ h.pending = f.pending /\ h.discard = f.discard /\ h.oversized = f.oversized
    BY <1>1 DEF Framer, Same
  <2> HIDE DEF h
  <2>3. CASE f.active_ready
    <3>1. r = h
      BY <2>1, <2>2, <2>3 DEF promotePendingIfPossible, Same
    <3> QED
      BY <1>5, <2>2, <2>3, <3>1
  <2>4. CASE ~f.active_ready
    <3>1. r = [h EXCEPT !.active = h.pending, !.active_ready = TRUE,
                        !.pending = <<>>, !.pending_ready = FALSE]
      BY <2>1, <2>2, <2>4 DEF promotePendingIfPossible, Same
    <3> QED
      BY <1>3, <1>5, <2>2, <2>4, <3>1 DEF Framer, Same
  <2> QED
    BY <2>3, <2>4
<1>6. CASE ~f.discard /\ b # Newline /\ Len(f.pending) = MaxPayload
  <2>0. PICK n \in Nat : n = g.oversized + 1
    BY <1>1 DEF Framer
  <2>1. r = [g EXCEPT !.oversized = n, !.pending = <<>>, !.discard = TRUE]
    BY <1>2, <1>6, <2>0
  <2>2. /\ r \in Framer /\ r.consumed = g.consumed /\ Same(r, g) /\ r.pending = <<>>
        /\ r.pending_ready = g.pending_ready /\ r.discard = TRUE
        /\ r.oversized = n
    BY <1>1, <1>3, <2>1 DEF Framer, Same
  <2> QED
    BY <1>1, <1>6, <2>0, <2>2 DEF Same
<1>7. CASE ~f.discard /\ b # Newline /\ Len(f.pending) # MaxPayload
  <2>1. PICK p : p = Append(f.pending, b)
    OBVIOUS
  <2>2. p \in Seq(Letters)
    BY <1>7, <2>1 DEF Framer, Byte
  <2>3. r = [g EXCEPT !.pending = p]
    BY <1>1, <1>2, <1>7, <2>1
  <2>4. /\ r \in Framer /\ r.consumed = g.consumed /\ Same(r, g) /\ r.pending = p
        /\ r.pending_ready = g.pending_ready /\ r.discard = g.discard
        /\ r.oversized = g.oversized
    BY <1>1, <2>2, <2>3 DEF Framer, Same
  <2> QED
    BY <1>1, <1>7, <2>1, <2>4 DEF Same
<1> QED
  BY <1>4, <1>5, <1>6, <1>7

\* One byte more keeps the framer true to the bytes it consumed.
LEMMA ByteFramed ==
    ASSUME NEW f, NEW acq, NEW w, Framed(f, acq, w), ~f.pending_ready, NEW b \in Byte,
           NEW r, r = AppendByte(f, b)
    PROVE  Framed(r, acq, Append(w, b)) /\ r.consumed = f.consumed + 1
<1> DEFINE u == Unfinished(w)
           v == Append(w, b)
           x == Unfinished(v)
           A == AcceptableLines(w)
           C == AcceptableLines(v)
           m == TooLong(CompleteLines(w))
           n == TooLong(CompleteLines(v))
<1>1. /\ f \in Framer /\ w \in Seq(Byte) /\ acq \in Seq(Seq(Letters))
      /\ Len(f.active) <= MaxPayload /\ Len(f.pending) <= MaxPayload
      /\ f.acquired => f.active_ready
      /\ ~f.discard => f.pending = u
      /\ f.discard => f.pending = <<>> /\ Len(u) > MaxPayload
      /\ acq \o HeldBy(f) = A
      /\ f.oversized = m + IF f.discard THEN 1 ELSE 0
  BY DEF Framed, Accumulates
<1>2. /\ u \in Seq(Byte) /\ v \in Seq(Byte)
      /\ x = IF b = Newline THEN <<>> ELSE Append(u, b)
      /\ C = IF b = Newline THEN KeepOne(A, u) ELSE A
      /\ m \in Nat
      /\ n = m + IF b = Newline /\ Len(u) > MaxPayload THEN 1 ELSE 0
  BY <1>1, ReferenceStep
<1>3. /\ MaxPayload \in Nat /\ Len(<<>>) = 0 /\ Len(u) \in Nat
      /\ b # Newline => Len(x) = Len(u) + 1
  BY <1>2, SizeAssumption
<1>4. r \in Framer /\ r.consumed = f.consumed + 1
  BY <1>1, ByteCases
<1> HIDE DEF u, v, x, A, C, m, n
<1> SUFFICES /\ Len(r.active) <= MaxPayload /\ Len(r.pending) <= MaxPayload
             /\ Accumulates(r, v)
             /\ acq \o HeldBy(r) = C
             /\ r.oversized = n + IF r.discard THEN 1 ELSE 0
  BY <1>1, <1>2, <1>4 DEF Framed, C, n, v
<1>5. CASE f.discard
  <2>1. /\ Same(r, f) /\ r.pending = f.pending /\ ~r.pending_ready
        /\ (r.discard <=> b # Newline) /\ r.oversized = f.oversized
    BY <1>1, <1>5, ByteCases
  <2>2. Accumulates(r, v)
    BY <1>1, <1>2, <1>3, <1>5, <2>1 DEF Accumulates, Same, x
  <2>3. HeldBy(r) = HeldBy(f) /\ C = A
    <3>1. HeldBy(r) = HeldBy(f)
      BY <2>1 DEF HeldBy, Same
    <3>2. ~(Len(u) <= MaxPayload)
      BY <1>1, <1>3, <1>5
    <3>3. KeepOne(A, u) = A
      BY <3>2 DEF KeepOne
    <3> QED
      BY <1>2, <3>1, <3>3
  <2>4. r.oversized = n + IF r.discard THEN 1 ELSE 0
    BY <1>1, <1>2, <1>5, <2>1
  <2> QED
    BY <1>1, <2>1, <2>2, <2>3, <2>4 DEF Same
<1>6. CASE ~f.discard /\ b = Newline
  <2> DEFINE T == Seq(Letters)
             a == IF f.active_ready /\ ~f.acquired THEN <<f.active>> ELSE <<>>
  <2>1. /\ ~r.discard /\ r.oversized = f.oversized
        /\ \/ /\ f.active_ready /\ Same(r, f) /\ r.pending = f.pending /\ r.pending_ready
           \/ /\ ~f.active_ready /\ r.active = f.pending /\ r.active_ready /\ ~r.acquired
              /\ r.pending = <<>> /\ ~r.pending_ready
    BY <1>1, <1>6, ByteCases
  <2>2. Accumulates(r, v)
    BY <1>1, <1>2, <1>6, <2>1 DEF Accumulates, Same, x
  <2>3. C = Append(A, f.pending)
    BY <1>1, <1>2, <1>3, <1>6 DEF KeepOne
  <2>4. f.pending \in T /\ f.active \in T /\ acq \in Seq(T) /\ a \in Seq(T)
    BY <1>1 DEF Framer
  <2>5. A = acq \o (a \o <<>>)
    BY <1>1 DEF HeldBy
  <2>6. HeldBy(r) = a \o <<f.pending>>
    <3>1. CASE f.active_ready
      BY <2>1, <3>1 DEF HeldBy, Same
    <3>2. CASE ~f.active_ready
      <4>1. HeldBy(r) = <<f.pending>> \o <<>> /\ a = <<>>
        BY <2>1, <3>2 DEF HeldBy
      <4> QED
        BY <2>4, <4>1
    <3> QED
      BY <3>1, <3>2
  <2>7. acq \o HeldBy(r) = C
    <3> HIDE DEF T, a
    <3> QED
      BY <2>3, <2>4, <2>5, <2>6, HeldExtended
  <2>8. r.oversized = n + IF r.discard THEN 1 ELSE 0
    BY <1>1, <1>2, <1>3, <1>6, <2>1
  <2>9. Len(r.active) <= MaxPayload /\ Len(r.pending) <= MaxPayload
    BY <1>1, <1>3, <2>1 DEF Same
  <2> QED
    BY <2>2, <2>7, <2>8, <2>9
<1>7. CASE ~f.discard /\ b # Newline /\ Len(f.pending) = MaxPayload
  <2>1. /\ Same(r, f) /\ r.pending = <<>> /\ ~r.pending_ready /\ r.discard
        /\ r.oversized = f.oversized + 1
    BY <1>1, <1>7, ByteCases
  <2>2. Accumulates(r, v)
    BY <1>1, <1>2, <1>3, <1>7, <2>1 DEF Accumulates, Same, x
  <2>3. HeldBy(r) = HeldBy(f) /\ C = A
    BY <1>2, <1>7, <2>1 DEF HeldBy, Same
  <2>4. r.oversized = n + IF r.discard THEN 1 ELSE 0
    BY <1>1, <1>2, <1>7, <2>1
  <2> QED
    BY <1>1, <1>3, <2>1, <2>2, <2>3, <2>4 DEF Same
<1>8. CASE ~f.discard /\ b # Newline /\ Len(f.pending) # MaxPayload
  <2>1. /\ Same(r, f) /\ r.pending = Append(f.pending, b) /\ ~r.pending_ready
        /\ ~r.discard /\ r.oversized = f.oversized
    BY <1>1, <1>8, ByteCases
  <2>2. Accumulates(r, v)
    BY <1>1, <1>2, <1>8, <2>1 DEF Accumulates, Same, x
  <2>3. HeldBy(r) = HeldBy(f) /\ C = A
    BY <1>2, <1>8, <2>1 DEF HeldBy, Same
  <2>4. r.oversized = n + IF r.discard THEN 1 ELSE 0
    BY <1>1, <1>2, <1>8, <2>1
  <2>5. Len(r.pending) <= MaxPayload
    BY <1>1, <1>3, <1>8, <2>1
  <2> QED
    BY <1>1, <2>1, <2>2, <2>3, <2>4, <2>5 DEF Same
<1> QED
  BY <1>5, <1>6, <1>7, <1>8

-----------------------------------------------------------------------------
(* append()'s loop over a chunk. *)

\* A line is acquired only while it is there.
Frames == {f \in Framer : f.acquired => f.active_ready}

LEMMA ByteInFrames ==
    ASSUME NEW f \in Frames, NEW b \in Byte
    PROVE  AppendByte(f, b) \in Frames
<1>1. CASE f.pending_ready
  BY <1>1 DEF AppendByte
<1>2. CASE ~f.pending_ready
  <2>1. PICK r : r = AppendByte(f, b)
    OBVIOUS
  <2>2. r \in Framer /\ (Same(r, f) \/ ~r.acquired)
    BY <1>2, <2>1, ByteCases DEF Frames
  <2> QED
    BY <2>1, <2>2 DEF Frames, Same
<1> QED
  BY <1>1, <1>2

AppendSteps(data) == [k \in 1..Len(data) |-> [v \in Frames |-> AppendByte(v, data[k])]]

Loop(f, data) == FoldLeft(AppendByte, f, data)

LEMMA AppendTrace ==
    ASSUME NEW f \in Frames, NEW q \in Seq(Byte)
    PROVE  \E g : /\ Trace(g, Len(q), Frames, f, AppendSteps(q))
                  /\ Loop(f, q) = g[Len(q)]
<1> DEFINE n == Len(q)
           P(h) == h = [s \in SUBSET (DOMAIN q) |->
                          IF s = {} THEN f ELSE AppendByte(h[s \ {Max(s)}], q[Max(s)])]
           c == CHOOSE h : P(h)
           step == AppendSteps(q)
           V == Frames
<1>1. n \in Nat /\ DOMAIN q = 1..n /\ (\A k \in 1..n : q[k] \in Byte) /\ f \in V
  OBVIOUS
<1>2. Loop(f, q) = c[DOMAIN q]
  BY Zenon DEF Loop, FoldLeft, MapThenFoldSet
<1>3. step \in [1..n -> [V -> V]] /\ \A k \in 1..n, v \in V : step[k][v] = AppendByte(v, q[k])
  BY <1>1, ByteInFrames DEF AppendSteps
<1> HIDE DEF n, step, V
<1>4. \A s \in SUBSET (1..n) : s # {} => Max(s) \in 1..n
  BY <1>1, MaxIn
<1>5. \E h : P(h)
  <2>1. PICK h \in [SUBSET (1..n) -> V] : FoldsOver(h, n, f, step)
    BY <1>1, <1>3, FoldExists
  <2>2. \A s \in SUBSET (1..n) : h[s \ {Max(s)}] \in V
    OBVIOUS
  <2>3. P(h)
    BY <1>1, <1>3, <1>4, <2>1, <2>2 DEF FoldsOver
  <2> QED
    BY <2>3
<1>6. P(c)
  <2> HIDE DEF P
  <2> QED
    BY <1>5
<1> HIDE DEF c
<1>7. FoldsWithin(c, n, V, f, step)
  BY <1>1, <1>3, <1>4, <1>6 DEF FoldsWithin
<1>8. n \in Nat /\ f \in V /\ step \in [1..n -> [V -> V]]
  BY <1>1, <1>3
<1>9. Trace(LoopValues(c, n), n, V, f, step)
  <2> HIDE DEF P
  <2> QED
    BY <1>7, <1>8, FoldTrace
<1>10. LoopValues(c, n)[n] = c[1..n]
  <2>1. n \in 0..n
    BY <1>8
  <2> QED
    BY <2>1 DEF LoopValues
<1> QED
  BY <1>1, <1>2, <1>9, <1>10 DEF n, step, V

\* After a chunk the framer is true to the bytes it says it consumed, and it
\* consumed all of them unless a line is waiting.
LEMMA ChunkFramed ==
    ASSUME NEW str \in Seq(Byte), NEW s \in Nat, NEW t \in Nat, NEW n \in Nat,
           s <= t, t + n <= Len(str), NEW f, NEW acq, f.consumed = 0,
           Framed(f, acq, SubSeq(str, s + 1, t)),
           NEW r, r = Loop(f, SubSeq(str, t + 1, t + n))
    PROVE  /\ r.consumed \in 0..n
           /\ Framed(r, acq, SubSeq(str, s + 1, t + r.consumed))
<1> DEFINE q == SubSeq(str, t + 1, t + n)
<1>1. q \in Seq(Byte) /\ Len(q) = n /\ \A k \in 1..n : q[k] = str[t + k] /\ q[k] \in Byte
  OBVIOUS
<1>2. f \in Frames
  BY DEF Framed, Frames, Accumulates
<1> HIDE DEF q
<1>3. PICK g : Trace(g, n, Frames, f, AppendSteps(q)) /\ r = g[n]
  BY <1>1, <1>2, AppendTrace DEF q
<1> DEFINE True(k) ==
             /\ g[k].consumed \in 0..k /\ (g[k].consumed = k \/ g[k].pending_ready)
             /\ Framed(g[k], acq, SubSeq(str, s + 1, t + g[k].consumed))
           S == {k \in Nat : k <= n => True(k)}
<1>4. 0 \in S
  <2>1. g[0] = f
    BY <1>3 DEF Trace
  <2>2. t + 0 = t
    OBVIOUS
  <2> QED
    BY <2>1, <2>2
<1>5. ASSUME NEW k \in Nat, k \in S PROVE k + 1 \in S
  <2> SUFFICES ASSUME k + 1 <= n PROVE True(k + 1)
    OBVIOUS
  <2>1. k + 1 \in 1..n /\ (k + 1) - 1 = k /\ k \in 0..n /\ k <= n
    OBVIOUS
  <2>2. True(k)
    BY <1>5, <2>1
  <2>3. PICK e : e = g[k] /\ e \in Frames
    BY <1>3, <2>1 DEF Trace
  <2>4. PICK b \in Byte : b = str[t + (k + 1)] /\ b = q[k + 1]
    BY <1>1, <2>1
  <2>5. PICK h : h = g[k + 1] /\ h = AppendByte(e, b)
    <3>1. g[k + 1] = AppendSteps(q)[k + 1][g[k]]
      BY <1>3, <2>1 DEF Trace
    <3> QED
      BY <1>1, <2>1, <2>3, <2>4, <3>1 DEF AppendSteps
  <2>6. CASE e.pending_ready
    <3>1. h = e
      BY <2>5, <2>6 DEF AppendByte
    <3>2. g[k + 1] = g[k]
      BY <2>3, <2>5, <3>1
    <3> QED
      BY <2>2, <2>3, <2>6, <3>2
  <2>7. CASE ~e.pending_ready
    <3>1. e.consumed = k /\ Framed(e, acq, SubSeq(str, s + 1, t + k))
      BY <2>2, <2>3, <2>7
    <3>2. Framed(h, acq, Append(SubSeq(str, s + 1, t + k), b)) /\ h.consumed = k + 1
      BY <2>5, <2>7, <3>1, ByteFramed
    <3>3. Append(SubSeq(str, s + 1, t + k), b) = SubSeq(str, s + 1, t + (k + 1))
      <4>1. PICK m \in 1..Len(str), last \in 1..Len(str) :
               m = s + 1 /\ last = t + (k + 1) /\ last \in m..Len(str)
        <5>1. s + 1 \in 1..Len(str) /\ t + (k + 1) \in (s + 1)..Len(str)
          BY <2>1
        <5> QED
          BY <5>1
      <4>2. SubSeq(str, m, last) = SubSeq(str, m, last - 1) \o <<str[last]>>
        BY <4>1, SubSeqRecursiveSecond
      <4>3. last - 1 = t + k /\ str[last] = b
        <5>1. last = t + (k + 1) /\ str[t + (k + 1)] = b
          BY <2>4, <4>1
        <5>2. last - 1 = t + k
          BY <4>1
        <5> QED
          BY <5>1, <5>2
      <4>4. SubSeq(str, m, t + k) \in Seq(Byte)
        BY <3>1, <4>1 DEF Framed
      <4>5. Append(SubSeq(str, m, t + k), b) = SubSeq(str, m, t + k) \o <<b>>
        BY <4>4, AppendIsConcat
      <4> QED
        BY <4>1, <4>2, <4>3, <4>5
    <3>4. g[k + 1].consumed = k + 1 /\ k + 1 \in 0..(k + 1)
      BY <2>5, <3>2
    <3>5. Framed(g[k + 1], acq, SubSeq(str, s + 1, t + (k + 1)))
      BY <2>5, <3>2, <3>3
    <3> QED
      BY <3>4, <3>5
  <2> QED
    BY <2>6, <2>7
<1> HIDE DEF S
<1>6. Nat \subseteq S
  BY <1>4, <1>5, SetInduction
<1>7. True(n)
  BY <1>6 DEF S
<1> QED
  BY <1>3, <1>7

-----------------------------------------------------------------------------
(* The specification. *)

Positions ==
    /\ stream \in Seq(Byte) /\ Len(stream) <= StreamBytes
    /\ taken \in 0..Len(stream) /\ started \in 0..taken

\* The inductive invariant.
LInv ==
    /\ Positions
    /\ Framed(Buffers, acquired_lines, Received)

\* How many bytes were consumed in a loop that is over makes no difference.
LEMMA FramedAgain ==
    ASSUME NEW f, NEW acq, NEW w, Framed(f, acq, w), NEW h,
           h = [active |-> f.active, active_ready |-> f.active_ready, acquired |-> f.acquired,
                pending |-> f.pending, pending_ready |-> f.pending_ready, discard |-> f.discard,
                oversized |-> f.oversized, consumed |-> 0]
    PROVE  Framed(h, acq, w)
<1>1. /\ h.active = f.active /\ h.active_ready = f.active_ready /\ h.acquired = f.acquired
      /\ h.pending = f.pending /\ h.pending_ready = f.pending_ready
      /\ h.discard = f.discard /\ h.oversized = f.oversized
  OBVIOUS
<1>2. h \in Framer
  BY DEF Framed, Framer
<1>3. HeldBy(h) = HeldBy(f)
  BY <1>1, Zenon DEF HeldBy
<1>4. Accumulates(h, w)
  BY <1>1 DEF Accumulates, Framed
<1> QED
  BY <1>1, <1>2, <1>3, <1>4 DEF Framed

\* A framer without lines is true to no bytes.
LEMMA EmptyFramed ==
    ASSUME NEW h,
           h = [active |-> <<>>, active_ready |-> FALSE, acquired |-> FALSE,
                pending |-> <<>>, pending_ready |-> FALSE, discard |-> FALSE,
                oversized |-> 0, consumed |-> 0]
    PROVE  Framed(h, <<>>, <<>>)
<1>1. /\ h \in Framer /\ h.active = <<>> /\ h.pending = <<>> /\ ~h.acquired /\ ~h.active_ready
      /\ ~h.pending_ready /\ ~h.discard /\ h.oversized = 0
  BY DEF Framer
<1>2. Len(<<>>) <= MaxPayload /\ <<>> \in Seq(Seq(Letters)) /\ <<>> \in Seq(Byte)
  BY SizeAssumption
<1>3. Accumulates(h, <<>>)
  BY <1>1, LinesEmpty DEF Accumulates
<1>4. HeldBy(h) = <<>> \o <<>> /\ <<>> \o (<<>> \o <<>>) = <<>>
  BY <1>1 DEF HeldBy
<1>5. AcceptableLines(<<>>) = <<>>
  <2>1. AcceptableLines(<<>>) = Kept(CompleteLines(<<>>))
    BY Zenon DEF AcceptableLines, Kept
  <2> QED
    BY <2>1, LinesEmpty, KeptEmpty
<1>6. TooLong(CompleteLines(<<>>)) = 0
  BY LinesEmpty, TooLongEmpty
<1> QED
  BY <1>1, <1>2, <1>3, <1>4, <1>5, <1>6 DEF Framed

\* The variables after a method of the framer.
LEMMA BuffersAfter ==
    ASSUME NEW f, NEW acq, NEW w, Framed(f, acq, w), SetBuffers(f)
    PROVE  Framed(Buffers', acq, w)
<1>1. PICK h : h = [active |-> f.active, active_ready |-> f.active_ready,
                    acquired |-> f.acquired, pending |-> f.pending,
                    pending_ready |-> f.pending_ready, discard |-> f.discard,
                    oversized |-> f.oversized, consumed |-> 0]
  OBVIOUS
<1>2. Buffers' = h
  BY <1>1 DEF SetBuffers, Buffers
<1> QED
  BY <1>1, <1>2, FramedAgain

LEMMA InitLInv == Init => LInv
<1> SUFFICES ASSUME Init PROVE LInv
  OBVIOUS
<1>1. stream \in Seq(Byte) /\ Len(stream) <= StreamBytes /\ Len(stream) \in Nat
  <2>1. PICK m \in 0..StreamBytes : stream \in [1..m -> Byte]
    BY DEF Init, SeqOf
  <2>2. m \in Nat /\ m <= StreamBytes
    BY <2>1, SizeAssumption
  <2> QED
    BY <2>1, <2>2
<1>2. Positions
  BY <1>1 DEF Init, Positions
<1>3. PICK h : h = Buffers
  OBVIOUS
<1>4. h = [active |-> <<>>, active_ready |-> FALSE, acquired |-> FALSE,
           pending |-> <<>>, pending_ready |-> FALSE, discard |-> FALSE,
           oversized |-> 0, consumed |-> 0]
  BY <1>3 DEF Init, Buffers
<1>5. Received = <<>> /\ acquired_lines = <<>>
  <2>1. Received = SubSeq(stream, 1, 0)
    BY DEF Init, Received
  <2> QED
    BY <1>1, <2>1 DEF Init
<1>6. Framed(Buffers, acquired_lines, Received)
  BY <1>3, <1>4, <1>5, EmptyFramed
<1> QED
  BY <1>2, <1>6 DEF LInv

LEMMA FeedLInv == ASSUME LInv, Feed PROVE LInv'
<1>1. PICK n \in ChunkSizes :
         /\ SetBuffers(append(Chunk(n))) /\ taken' = taken + append(Chunk(n)).consumed
         /\ UNCHANGED <<stream, started, acquired_lines>>
  BY DEF Feed
<1>2. /\ stream \in Seq(Byte) /\ Len(stream) \in Nat /\ taken \in 0..Len(stream)
      /\ started \in 0..taken
  BY DEF LInv, Positions
<1>3. n \in Nat /\ taken + n <= Len(stream)
  BY SizeAssumption DEF ChunkSizes
<1>4. PICK str, s, t, f, acq :
         /\ str = stream /\ s = started /\ t = taken /\ f = Buffers /\ acq = acquired_lines
  OBVIOUS
<1>5. /\ str \in Seq(Byte) /\ s \in Nat /\ t \in Nat /\ s <= t /\ t + n <= Len(str)
      /\ Framed(f, acq, SubSeq(str, s + 1, t)) /\ f.consumed = 0
  BY <1>2, <1>3, <1>4 DEF LInv, Received, Buffers
<1>6. PICK r : r = Loop(f, SubSeq(str, t + 1, t + n))
  OBVIOUS
<1>7. append(Chunk(n)) = r
  BY <1>4, <1>6, Zenon DEF append, Chunk, Loop
<1>8. r.consumed \in 0..n /\ Framed(r, acq, SubSeq(str, s + 1, t + r.consumed))
  BY <1>3, <1>5, <1>6, ChunkFramed
<1>9. SetBuffers(r) /\ taken' = t + r.consumed
  BY <1>1, <1>4, <1>7
<1>10. Framed(Buffers', acq, SubSeq(str, s + 1, t + r.consumed))
  BY <1>8, <1>9, BuffersAfter
<1>11. Received' = SubSeq(str, s + 1, t + r.consumed) /\ acquired_lines' = acq
  BY <1>1, <1>4, <1>9 DEF Received
<1>12. Positions'
  BY <1>1, <1>2, <1>3, <1>4, <1>8, <1>9 DEF LInv, Positions
<1> QED
  BY <1>10, <1>11, <1>12 DEF LInv

LEMMA AcquireLInv == ASSUME LInv, acquireLine PROVE LInv'
<1>1. PICK f, acq, w : f = Buffers /\ acq = acquired_lines /\ w = Received
  OBVIOUS
<1>2. Framed(f, acq, w)
  BY <1>1 DEF LInv
<1>3. /\ f.active_ready /\ ~f.acquired /\ acquired_lines' = Append(acq, f.active)
      /\ f \in Framer /\ f.consumed = 0 /\ acq \in Seq(Seq(Letters))
  BY <1>1, <1>2 DEF acquireLine, hasLine, Buffers, Framed
<1>4. PICK h : h = [f EXCEPT !.acquired = TRUE]
  OBVIOUS
<1>5. Buffers' = h
  BY <1>1, <1>4 DEF acquireLine, Buffers
<1>6. /\ h \in Framer /\ h.active = f.active /\ h.active_ready = f.active_ready
      /\ h.acquired = TRUE /\ h.pending = f.pending /\ h.pending_ready = f.pending_ready
      /\ h.discard = f.discard /\ h.oversized = f.oversized
  BY <1>3, <1>4 DEF Framer
<1>7. Accumulates(h, w)
  BY <1>2, <1>3, <1>6 DEF Framed, Accumulates
<1>8. /\ Append(acq, f.active) \in Seq(Seq(Letters))
      /\ Append(acq, f.active) \o HeldBy(h) = acq \o HeldBy(f)
  <2> DEFINE T == Seq(Letters)
             p == IF f.pending_ready THEN <<f.pending>> ELSE <<>>
  <2>1. acq \in Seq(T) /\ f.active \in T /\ p \in Seq(T)
    BY <1>3 DEF Framer
  <2>2. HeldBy(f) = <<f.active>> \o p /\ HeldBy(h) = <<>> \o p
    BY <1>3, <1>6 DEF HeldBy
  <2> HIDE DEF T, p
  <2>3. Append(acq, f.active) \in Seq(T)
    BY <2>1
  <2>4. Append(acq, f.active) \o (<<>> \o p) = acq \o (<<f.active>> \o p)
    BY <2>1
  <2> QED
    BY <2>2, <2>3, <2>4 DEF T
<1>9. Framed(h, Append(acq, f.active), w)
  BY <1>2, <1>6, <1>7, <1>8 DEF Framed
<1>10. Positions' /\ Received' = w
  BY <1>1 DEF LInv, Positions, acquireLine, Received
<1> QED
  BY <1>3, <1>5, <1>9, <1>10 DEF LInv

LEMMA ReleaseLInv == ASSUME LInv, releaseLine PROVE LInv'
<1>1. PICK f, acq, w : f = Buffers /\ acq = acquired_lines /\ w = Received
  OBVIOUS
<1>2. Framed(f, acq, w) /\ f.acquired
  BY <1>1 DEF LInv, releaseLine, Buffers
<1>3. PICK g : g = [f EXCEPT !.acquired = FALSE, !.active_ready = FALSE, !.active = <<>>]
  OBVIOUS
<1>4. SetBuffers(promotePendingIfPossible(g))
  BY <1>1, <1>3 DEF releaseLine
<1>5. PICK r : r = promotePendingIfPossible(g)
  OBVIOUS
<1>6. f \in Framer /\ <<>> \in Seq(Letters)
  BY <1>2 DEF Framed
<1>7. /\ g \in Framer /\ g.acquired = FALSE /\ g.active_ready = FALSE /\ g.active = <<>>
      /\ g.pending = f.pending /\ g.pending_ready = f.pending_ready
      /\ g.discard = f.discard /\ g.oversized = f.oversized
  BY <1>3, <1>6 DEF Framer
<1>8. r \in Framer /\ r.acquired = FALSE /\ r.discard = f.discard /\ r.oversized = f.oversized
      /\ \/ /\ f.pending_ready /\ r.active = f.pending /\ r.active_ready = TRUE
            /\ r.pending = <<>> /\ r.pending_ready = FALSE
         \/ /\ ~f.pending_ready /\ r.active = <<>> /\ r.active_ready = FALSE
            /\ r.pending = f.pending /\ r.pending_ready = FALSE
  <2>1. CASE f.pending_ready
    <3>1. r = [g EXCEPT !.active = g.pending, !.active_ready = TRUE,
                        !.pending = <<>>, !.pending_ready = FALSE]
      BY <1>5, <1>7, <2>1 DEF promotePendingIfPossible
    <3> QED
      BY <1>6, <1>7, <2>1, <3>1 DEF Framer
  <2>2. CASE ~f.pending_ready
    <3>1. r = g
      BY <1>5, <1>7, <2>2 DEF promotePendingIfPossible
    <3> QED
      BY <1>7, <2>2, <3>1 DEF Framer
  <2> QED
    BY <2>1, <2>2
<1>9. Accumulates(r, w)
  BY <1>2, <1>8 DEF Framed, Accumulates
<1>10. HeldBy(r) = HeldBy(f)
  <2>1. CASE f.pending_ready
    <3>1. HeldBy(r) = <<f.pending>> \o <<>> /\ HeldBy(f) = <<>> \o <<f.pending>>
      BY <1>2, <1>8, <2>1 DEF HeldBy
    <3> QED
      BY <3>1
  <2>2. CASE ~f.pending_ready
    <3>1. HeldBy(r) = <<>> \o <<>> /\ HeldBy(f) = <<>> \o <<>>
      BY <1>2, <1>8, <2>2 DEF HeldBy
    <3> QED
      BY <3>1
  <2> QED
    BY <2>1, <2>2
<1>11. Len(r.active) <= MaxPayload /\ Len(r.pending) <= MaxPayload
  BY <1>2, <1>8, SizeAssumption DEF Framed
<1>12. Framed(r, acq, w)
  BY <1>2, <1>8, <1>9, <1>10, <1>11 DEF Framed
<1>13. Framed(Buffers', acq, w)
  BY <1>4, <1>5, <1>12, BuffersAfter
<1>14. Positions' /\ Received' = w /\ acquired_lines' = acq
  BY <1>1 DEF LInv, Positions, releaseLine, Received
<1> QED
  BY <1>13, <1>14 DEF LInv

LEMMA CloseLInv == ASSUME LInv, closeSession PROVE LInv'
<1>1. /\ stream \in Seq(Byte) /\ Len(stream) \in Nat /\ taken \in 0..Len(stream)
      /\ Len(stream) <= StreamBytes
  BY DEF LInv, Positions
<1>2. Positions'
  BY <1>1 DEF closeSession, Positions
<1>3. PICK h : h = [active |-> <<>>, active_ready |-> FALSE, acquired |-> FALSE,
                    pending |-> <<>>, pending_ready |-> FALSE, discard |-> FALSE,
                    oversized |-> 0, consumed |-> 0]
  OBVIOUS
<1>4. Buffers' = h
  BY <1>3 DEF closeSession, Buffers
<1>5. Received' = <<>> /\ acquired_lines' = <<>>
  <2>1. Received' = SubSeq(stream, taken + 1, taken)
    BY DEF closeSession, Received
  <2> QED
    BY <1>1, <2>1 DEF closeSession
<1> QED
  BY <1>2, <1>3, <1>4, <1>5, EmptyFramed DEF LInv

LEMMA StepLInv == LInv /\ [Feed \/ LoopStep]_vars => LInv'
<1> SUFFICES ASSUME LInv, [Feed \/ LoopStep]_vars PROVE LInv'
  OBVIOUS
<1>1. CASE UNCHANGED vars
  BY <1>1 DEF LInv, vars, bufferVars, Positions, Buffers, Received
<1> QED
  BY <1>1, FeedLInv, AcquireLInv, ReleaseLInv, CloseLInv DEF LoopStep

LEMMA FramerLInv == Spec => []LInv
  BY InitLInv, StepLInv, PTL DEF Spec

-----------------------------------------------------------------------------
\* Types: neither line buffer is ever overrun, whatever arrives.
THEOREM FramerTypeCorrect == Spec => []FramerTypeOK
<1>1. ASSUME LInv PROVE FramerTypeOK
  <2>1. PICK f : f = Buffers /\ f \in Framer /\ Len(f.active) <= MaxPayload
                 /\ Len(f.pending) <= MaxPayload
    BY <1>1 DEF LInv, Framed
  <2>2. /\ active_line \in Seq(Letters) /\ Len(active_line) <= MaxPayload
        /\ pending_line \in Seq(Letters) /\ Len(pending_line) <= MaxPayload
        /\ oversized_lines \in Nat
        /\ active_ready \in BOOLEAN /\ active_acquired \in BOOLEAN
        /\ pending_ready \in BOOLEAN /\ discard_until_newline \in BOOLEAN
    BY <2>1 DEF Buffers, Framer
  <2>3. acquired_lines \in Seq(Seq(Letters))
    BY <1>1 DEF LInv, Framed
  <2> QED
    BY <1>1, <2>2, <2>3 DEF LInv, Positions, FramerTypeOK
<1> QED
  BY <1>1, FramerLInv, PTL

\* The lines handed to the service loop are the received bytes split at their
\* newlines, for every stream, chunking, payload limit and pace of the loop.
THEOREM FramerSplits == Spec => []SplitsLikeReference
<1>1. ASSUME LInv PROVE SplitsLikeReference
  <2>1. HeldBy(Buffers) = Held
    BY DEF HeldBy, Buffers, Held, hasLine
  <2> QED
    BY <1>1, <2>1 DEF LInv, Framed, SplitsLikeReference
<1> QED
  BY <1>1, FramerLInv, PTL

\* Each line that is too long is counted once, as soon as it is too long.
THEOREM FramerCounts == Spec => []OversizedCounted
<1>1. ASSUME LInv PROVE OversizedCounted
  <2>1. PICK f, w : f = Buffers /\ w = Received /\ Framed(f, acquired_lines, w)
    BY <1>1 DEF LInv
  <2>2. w \in Seq(Byte) /\ Newline \in Byte /\ f.oversized = oversized_lines
    BY <2>1 DEF Framed, Byte, Buffers
  <2>3. TooLong(CompleteLines(Append(w, Newline))) =
           TooLong(CompleteLines(w)) + IF Len(Unfinished(w)) > MaxPayload THEN 1 ELSE 0
    BY <2>2, ReferenceStep
  <2>4. f.discard <=> Len(Unfinished(w)) > MaxPayload
    <3>1. Len(<<>>) <= MaxPayload /\ Len(f.pending) \in Nat /\ MaxPayload \in Nat
      BY <2>1, SizeAssumption DEF Framed, Framer
    <3> QED
      BY <2>1, <3>1 DEF Framed, Accumulates
  <2>5. oversized_lines = TooLong(CompleteLines(Append(w, Newline)))
    BY <2>1, <2>2, <2>3, <2>4 DEF Framed
  <2> QED
    BY <2>1, <2>5 DEF OversizedCounted, TooLong
<1> QED
  BY <1>1, FramerLInv, PTL

=============================================================================
