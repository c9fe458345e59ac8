----------------------- MODULE BoundedJsonWriterProofs -----------------------
(***************************************************************************)
(* What the writers put into a buffer of any size, whatever is written:    *)
(* the bytes they count are the bytes there, a refused member leaves no    *)
(* trace in the text, and the object that a handler or a provider fills    *)
(* can always be closed.                                                   *)
(***************************************************************************)
EXTENDS BoundedJsonWriter, FoldInduction, SequenceTheorems

-----------------------------------------------------------------------------
(* The bytes of a text. *)

ByteSteps(q) == [k \in 1..Len(q) |-> [v \in Nat |-> v + q[k].bytes]]

LEMMA BytesTrace ==
    ASSUME NEW T, \A t \in T : t.bytes \in Nat, NEW q \in Seq(T)
    PROVE  \E g : Trace(g, Len(q), Nat, 0, ByteSteps(q)) /\ Bytes(q) = g[Len(q)]
<1> DEFINE n == Len(q)
           P(h) == h = [s \in SUBSET (DOMAIN q) |->
                          IF s = {} THEN 0 ELSE h[s \ {Max(s)}] + q[Max(s)].bytes]
           c == CHOOSE h : P(h)
           step == ByteSteps(q)
<1>1. n \in Nat /\ DOMAIN q = 1..n /\ \A k \in 1..n : q[k].bytes \in Nat
  OBVIOUS
<1>2. Bytes(q) = c[DOMAIN q]
  BY Zenon DEF Bytes, FoldLeft, MapThenFoldSet
<1>3. step \in [1..n -> [Nat -> Nat]] /\ \A k \in 1..n, v \in Nat : step[k][v] = v + q[k].bytes
  BY <1>1 DEF ByteSteps
<1> HIDE DEF n, step
<1>4. \A s \in SUBSET (1..n) : s # {} => Max(s) \in 1..n
  BY <1>1, MaxIn
<1>5. \E h : P(h)
  <2>1. PICK h \in [SUBSET (1..n) -> Nat] : FoldsOver(h, n, 0, step)
    BY <1>1, <1>3, FoldExists
  <2>2. \A s \in SUBSET (1..n) : h[s \ {Max(s)}] \in Nat
    OBVIOUS
  <2>3. P(h)
    BY <1>1, <1>3, <1>4, <2>1, <2>2 DEF FoldsOver
  <2> QED
    BY <2>3
<1>6. P(c)
  <2> HIDE DEF P
  <2> QED
    BY <1>5
<1> HIDE DEF c
<1>7. FoldsWithin(c, n, Nat, 0, step)
  BY <1>1, <1>3, <1>4, <1>6 DEF FoldsWithin
<1>8. n \in Nat /\ 0 \in Nat /\ step \in [1..n -> [Nat -> Nat]]
  BY <1>1, <1>3
<1>9. Trace(LoopValues(c, n), n, Nat, 0, step)
  <2> HIDE DEF P
  <2> QED
    BY <1>7, <1>8, FoldTrace
<1>10. LoopValues(c, n)[n] = c[1..n]
  BY <1>1 DEF LoopValues
<1> QED
  BY <1>1, <1>2, <1>9, <1>10 DEF n, step

LEMMA BytesEmpty == Bytes(<<>>) = 0
<1>1. <<>> \in Seq({}) /\ Len(<<>>) = 0
  OBVIOUS
<1>2. PICK g : Trace(g, Len(<<>>), Nat, 0, ByteSteps(<<>>)) /\ Bytes(<<>>) = g[Len(<<>>)]
  BY <1>1, BytesTrace
<1> QED
  BY <1>1, <1>2 DEF Trace

\* Appending one token adds its bytes (appendBytes).
LEMMA BytesAppend ==
    ASSUME NEW T, \A t \in T : t.bytes \in Nat, NEW q \in Seq(T), NEW t \in T
    PROVE  /\ Bytes(q) \in Nat
           /\ Bytes(Append(q, t)) = Bytes(q) + t.bytes
<1> DEFINE p == Append(q, t)
           n == Len(q)
<1>1. /\ p \in Seq(T) /\ n \in Nat /\ Len(p) = n + 1 /\ p[n + 1] = t
      /\ \A k \in 1..n : q[k] = p[k]
  OBVIOUS
<1> HIDE DEF p
<1>2. PICK f : Trace(f, Len(q), Nat, 0, ByteSteps(q)) /\ Bytes(q) = f[Len(q)]
  BY BytesTrace
<1>3. PICK g : Trace(g, Len(p), Nat, 0, ByteSteps(p)) /\ Bytes(p) = g[Len(p)]
  BY <1>1, BytesTrace
<1>4. ASSUME NEW k \in 1..n PROVE ByteSteps(q)[k] = ByteSteps(p)[k]
  <2>1. k \in 1..Len(q) /\ k \in 1..Len(p) /\ q[k] = p[k]
    BY <1>1
  <2> QED
    BY <2>1 DEF ByteSteps
<1>5. n <= Len(q) /\ n <= Len(p) /\ Len(q) \in Nat /\ Len(p) \in Nat
  BY <1>1
<1>6. f[n] = g[n] /\ f[n] \in Nat
  <2>1. \A k \in 1..n : ByteSteps(q)[k] = ByteSteps(p)[k]
    BY <1>4
  <2> HIDE DEF n
  <2> QED
    BY <1>1, <1>2, <1>3, <1>5, <2>1, TraceUnique
<1>7. n + 1 \in 1..Len(p) /\ (n + 1) - 1 = n
  BY <1>1
<1>8. g[n + 1] = ByteSteps(p)[n + 1][g[n]]
  BY <1>3, <1>7 DEF Trace
<1>9. ByteSteps(p)[n + 1][g[n]] = g[n] + t.bytes
  BY <1>1, <1>6, <1>7 DEF ByteSteps
<1> QED
  BY <1>1, <1>2, <1>3, <1>6, <1>8, <1>9 DEF p

\* The bytes of a concatenation are the bytes of its parts.
LEMMA BytesConcat ==
    ASSUME NEW T, \A t \in T : t.bytes \in Nat, NEW q \in Seq(T), NEW r \in Seq(T)
    PROVE  Bytes(q \o r) = Bytes(q) + Bytes(r) /\ Bytes(q) \in Nat /\ Bytes(r) \in Nat
<1> DEFINE Adds(u) == Bytes(q \o u) = Bytes(q) + Bytes(u) /\ Bytes(u) \in Nat
           S == {k \in Nat : \A u \in Seq(T) : Len(u) = k => Adds(u)}
<1>1. Bytes(q) \in Nat
  <2>1. PICK f : Trace(f, Len(q), Nat, 0, ByteSteps(q)) /\ Bytes(q) = f[Len(q)]
    BY BytesTrace
  <2>2. Len(q) \in 0..Len(q)
    OBVIOUS
  <2> QED
    BY <2>1, <2>2 DEF Trace
<1>2. 0 \in S
  <2>1. ASSUME NEW u \in Seq(T), Len(u) = 0 PROVE Adds(u)
    <3>1. u = <<>>
      BY <2>1
    <3>2. q \o <<>> = q
      OBVIOUS
    <3>3. Bytes(q \o u) = Bytes(q) /\ Bytes(u) = 0
      BY <3>1, <3>2, BytesEmpty
    <3> QED
      BY <1>1, <3>3
  <2> QED
    BY <2>1
<1>3. ASSUME NEW k \in Nat, k \in S PROVE k + 1 \in S
  <2> SUFFICES ASSUME NEW w \in Seq(T), Len(w) = k + 1 PROVE Adds(w)
    OBVIOUS
  <2>1. PICK u \in Seq(T), t \in T : w = Append(u, t) /\ Len(u) = k
    <3>1. w = Append(SubSeq(w, 1, k), w[k + 1])
      OBVIOUS
    <3>2. SubSeq(w, 1, k) \in Seq(T) /\ w[k + 1] \in T /\ Len(SubSeq(w, 1, k)) = k
      OBVIOUS
    <3> QED
      BY <3>1, <3>2
  <2>2. q \o u \in Seq(T) /\ q \o w = Append(q \o u, t)
    BY <2>1
  <2>3. Bytes(q \o u) = Bytes(q) + Bytes(u) /\ Bytes(u) \in Nat
    BY <1>3, <2>1
  <2>4. Bytes(w) = Bytes(u) + t.bytes
    BY <2>1, BytesAppend
  <2>5. Bytes(q \o w) = Bytes(q \o u) + t.bytes
    BY <2>1, <2>2, BytesAppend
  <2>6. t.bytes \in Nat
    BY <2>1
  <2> QED
    BY <1>1, <2>3, <2>4, <2>5, <2>6
<1> HIDE DEF S
<1>4. Nat \subseteq S
  BY <1>2, <1>3, SetInduction
<1>5. Len(r) \in S
  BY <1>4
<1> QED
  BY <1>1, <1>5 DEF S

-----------------------------------------------------------------------------
(* The members of an object, separated by commas. *)

Joined(text, m) == IF text = <<>> THEN m ELSE text \o <<Comma>> \o m

JoinSteps(T, q) == [k \in 1..Len(q) |-> [v \in Seq(T) |-> Joined(v, q[k])]]

LEMMA JoinedType ==
    ASSUME NEW T, Comma \in T, NEW v \in Seq(T), NEW m \in Seq(T)
    PROVE  Joined(v, m) \in Seq(T)
<1>1. <<Comma>> \in Seq(T)
  OBVIOUS
<1>2. v \o <<Comma>> \in Seq(T)
  BY <1>1, ConcatProperties
<1>3. v \o <<Comma>> \o m \in Seq(T)
  BY <1>2, ConcatProperties
<1> QED
  BY <1>3 DEF Joined

LEMMA SeparatedTrace ==
    ASSUME NEW T, Comma \in T, NEW q \in Seq(Seq(T))
    PROVE  \E g : /\ Trace(g, Len(q), Seq(T), <<>>, JoinSteps(T, q))
                  /\ Separated(q) = g[Len(q)]
<1> DEFINE n == Len(q)
           P(h) == h = [s \in SUBSET (DOMAIN q) |->
                          IF s = {} THEN <<>> ELSE Joined(h[s \ {Max(s)}], q[Max(s)])]
           c == CHOOSE h : P(h)
           step == JoinSteps(T, q)
           V == Seq(T)
<1>1. n \in Nat /\ DOMAIN q = 1..n /\ (\A k \in 1..n : q[k] \in V) /\ <<>> \in V
  <2>1. <<>> \in V
    OBVIOUS
  <2>2. q \in Seq(V)
    OBVIOUS
  <2> HIDE DEF V
  <2> QED
    BY <2>1, <2>2
<1>2. Separated(q) = c[DOMAIN q]
  BY Zenon DEF Separated, FoldLeft, MapThenFoldSet, Joined
<1>3. step \in [1..n -> [V -> V]] /\ \A k \in 1..n, v \in V : step[k][v] = Joined(v, q[k])
  BY <1>1, JoinedType DEF JoinSteps
<1> HIDE DEF n, step, V
<1>4. \A s \in SUBSET (1..n) : s # {} => Max(s) \in 1..n
  BY <1>1, MaxIn
<1>5. \E h : P(h)
  <2>1. PICK h \in [SUBSET (1..n) -> V] : FoldsOver(h, n, <<>>, step)
    BY <1>1, <1>3, FoldExists
  <2>2. \A s \in SUBSET (1..n) : h[s \ {Max(s)}] \in V
    OBVIOUS
  <2>3. P(h)
    BY <1>1, <1>3, <1>4, <2>1, <2>2 DEF FoldsOver
  <2> QED
    BY <2>3
<1>6. P(c)
  <2> HIDE DEF P
  <2> QED
    BY <1>5
<1> HIDE DEF c
<1>7. FoldsWithin(c, n, V, <<>>, step)
  BY <1>1, <1>3, <1>4, <1>6 DEF FoldsWithin
<1>8. n \in Nat /\ <<>> \in V /\ step \in [1..n -> [V -> V]]
  BY <1>1, <1>3
<1>9. Trace(LoopValues(c, n), n, V, <<>>, step)
  <2> HIDE DEF P
  <2> QED
    BY <1>7, <1>8, FoldTrace
<1>10. LoopValues(c, n)[n] = c[1..n]
  <2>1. n \in 0..n
    BY <1>8
  <2> QED
    BY <2>1 DEF LoopValues
<1> QED
  BY <1>1, <1>2, <1>9, <1>10 DEF n, step, V

\* One more member goes behind a comma, unless nothing is there yet.
LEMMA SeparatedAppend ==
    ASSUME NEW T, Comma \in T, NEW q \in Seq(Seq(T)), NEW m \in Seq(T)
    PROVE  /\ Separated(q) \in Seq(T)
           /\ Separated(Append(q, m)) = Joined(Separated(q), m)
<1> DEFINE p == Append(q, m)
           n == Len(q)
           V == Seq(T)
<1>0. q \in Seq(V) /\ m \in V
  OBVIOUS
<1>1. /\ p \in Seq(V) /\ n \in Nat /\ Len(p) = n + 1 /\ p[n + 1] = m
      /\ \A k \in 1..n : q[k] = p[k]
  <2> HIDE DEF V
  <2> QED
    BY <1>0
<1> HIDE DEF p
<1>2. PICK f : Trace(f, Len(q), Seq(T), <<>>, JoinSteps(T, q)) /\ Separated(q) = f[Len(q)]
  BY SeparatedTrace
<1>3. PICK g : Trace(g, Len(p), Seq(T), <<>>, JoinSteps(T, p)) /\ Separated(p) = g[Len(p)]
  BY <1>1, SeparatedTrace
<1>4. ASSUME NEW k \in 1..n PROVE JoinSteps(T, q)[k] = JoinSteps(T, p)[k]
  <2>1. k \in 1..Len(q) /\ k \in 1..Len(p) /\ q[k] = p[k]
    BY <1>0, <1>1
  <2> QED
    BY <2>1 DEF JoinSteps
<1>5. n <= Len(q) /\ n <= Len(p) /\ Len(q) \in Nat /\ Len(p) \in Nat
  BY <1>1
<1>6. f[n] = g[n] /\ f[n] \in Seq(T)
  <2>1. \A k \in 1..n : JoinSteps(T, q)[k] = JoinSteps(T, p)[k]
    BY <1>4
  <2>2. /\ Trace(f, Len(q), V, <<>>, JoinSteps(T, q))
        /\ Trace(g, Len(p), V, <<>>, JoinSteps(T, p))
    BY <1>2, <1>3
  <2>3. n \in Nat
    BY <1>1
  <2> HIDE DEF n, V
  <2>4. f[n] = g[n] /\ f[n] \in V
    BY <1>5, <2>1, <2>2, <2>3, TraceUnique
  <2> QED
    BY <2>4 DEF V
<1>7. n + 1 \in 1..Len(p) /\ (n + 1) - 1 = n
  BY <1>1
<1>8. g[n + 1] = JoinSteps(T, p)[n + 1][g[n]]
  BY <1>3, <1>7 DEF Trace
<1>9. JoinSteps(T, p)[n + 1][g[n]] = Joined(g[n], m)
  BY <1>1, <1>6, <1>7 DEF JoinSteps
<1> QED
  BY <1>1, <1>2, <1>3, <1>6, <1>8, <1>9 DEF p

LEMMA SeparatedEmpty == Separated(<<>>) = <<>>
<1> DEFINE T == {Comma}
<1>1. <<>> \in Seq(Seq(T)) /\ Len(<<>>) = 0 /\ Comma \in T
  OBVIOUS
<1>2. PICK g : /\ Trace(g, Len(<<>>), Seq(T), <<>>, JoinSteps(T, <<>>))
               /\ Separated(<<>>) = g[Len(<<>>)]
  <2> HIDE DEF T
  <2> QED
    BY <1>1, SeparatedTrace
<1> QED
  BY <1>1, <1>2 DEF Trace

-----------------------------------------------------------------------------
(* The writers. *)

\* T is a set of tokens that holds the structural ones.
IsVocabulary(T) ==
    /\ \A t \in T : t.bytes \in Nat
    /\ {Opening, Closing, Comma, Colon, LineEnd} \subseteq T

Writer(T) ==
    [capacity : Nat, out : Seq(T), length : Nat, depth : 0..MaxDepth, tail_reserve : Nat,
     failed : BOOLEAN, closed : BOOLEAN, first : [1..MaxDepth -> BOOLEAN]]

\* The length is the number of bytes written, and what is kept back is free.
InBuffer(w) == w.length = Bytes(w.out) /\ w.length + w.tail_reserve <= w.capacity

LEMMA OneByteEach ==
    /\ Opening.bytes = 1 /\ Closing.bytes = 1 /\ Comma.bytes = 1
    /\ Colon.bytes = 1 /\ LineEnd.bytes = 1
  BY Zenon DEF Opening, Closing, Comma, Colon, LineEnd, Mark, Token

LEMMA BytesOne ==
    ASSUME NEW T, \A t \in T : t.bytes \in Nat, NEW t \in T
    PROVE  Bytes(<<t>>) = t.bytes
<1>1. <<>> \in Seq(T) /\ Append(<<>>, t) = <<t>>
  OBVIOUS
<1>2. Bytes(Append(<<>>, t)) = Bytes(<<>>) + t.bytes
  BY <1>1, BytesAppend
<1>3. t.bytes \in Nat
  OBVIOUS
<1> QED
  BY <1>1, <1>2, <1>3, BytesEmpty

LEMMA WriterExtended ==
    ASSUME NEW T, NEW w \in Writer(T), NEW y \in Seq(T), NEW n \in Nat
    PROVE  [w EXCEPT !.out = y, !.length = n] \in Writer(T)
  BY DEF Writer

\* v is w with a first object opened in it.
FirstOpened(v, w, T) ==
    /\ v \in Writer(T) /\ v.out = w.out /\ v.length = w.length /\ v.depth = 1
    /\ v.tail_reserve = w.tail_reserve /\ v.closed = w.closed /\ v.capacity = w.capacity
    /\ v.first[1] = TRUE

LEMMA WriterOpened ==
    ASSUME NEW T, NEW w, w \in Writer(T) /\ w.depth = 0
    PROVE  FirstOpened([w EXCEPT !.depth = @ + 1, !.first[w.depth + 1] = TRUE], w, T)
<1> DEFINE v == [w EXCEPT !.depth = @ + 1, !.first[w.depth + 1] = TRUE]
<1>1. 1 \in 1..MaxDepth /\ 1 \in 0..MaxDepth
  BY DepthAssumption
<1> DEFINE f == [w.first EXCEPT ![1] = TRUE]
<1>2. w.first \in [1..MaxDepth -> BOOLEAN]
  BY DEF Writer
<1>3. f \in [1..MaxDepth -> BOOLEAN] /\ f[1] = TRUE
  BY <1>1, <1>2
<1>4. v = [w EXCEPT !.depth = 1, !.first = f]
  OBVIOUS
<1> HIDE DEF f, v
<1>5. FirstOpened(v, w, T)
  BY <1>1, <1>3, <1>4 DEF Writer, FirstOpened
<1> QED
  BY <1>5 DEF v

LEMMA WriterClosed ==
    ASSUME NEW T, NEW w \in Writer(T), w.depth = 1, NEW v,
           v = [w EXCEPT !.depth = @ - 1, !.closed = TRUE]
    PROVE  /\ v \in Writer(T) /\ v.out = w.out /\ v.length = w.length
           /\ v.tail_reserve = w.tail_reserve /\ v.capacity = w.capacity /\ v.closed
<1>1. 0 \in 0..MaxDepth
  BY DepthAssumption
<1>2. v = [w EXCEPT !.depth = 0, !.closed = TRUE]
  OBVIOUS
<1> QED
  BY <1>1, <1>2 DEF Writer

\* All of the tokens are written or none, exactly when they fit (capture, restore).
Written(r, w, T, q) ==
    /\ r.w \in Writer(T) /\ InBuffer(r.w) /\ r.ok \in BOOLEAN
    /\ r.ok <=> w.length + Bytes(q) + w.tail_reserve <= w.capacity
    /\ r.ok => r.w = [w EXCEPT !.out = w.out \o q, !.length = w.length + Bytes(q)]
    /\ ~r.ok => r = Refuse(w)

LEMMA WriteFits ==
    ASSUME NEW T, IsVocabulary(T), NEW w \in Writer(T), InBuffer(w), NEW q \in Seq(T)
    PROVE  Written(Write(w, q), w, T, q)
<1>1. Bytes(w.out \o q) = Bytes(w.out) + Bytes(q) /\ Bytes(q) \in Nat
  BY BytesConcat DEF IsVocabulary, Writer
<1>2. w.out \o q \in Seq(T)
  BY DEF Writer
<1>3. /\ w.length \in Nat /\ w.tail_reserve \in Nat /\ w.capacity \in Nat
      /\ w.length = Bytes(w.out) /\ w.length + w.tail_reserve <= w.capacity
  BY DEF Writer, InBuffer
<1>4. Bytes(q) > remaining(w) <=> ~(w.length + Bytes(q) + w.tail_reserve <= w.capacity)
  BY <1>1, <1>3 DEF remaining
<1>5. CASE Bytes(q) > remaining(w)
  <2>1. Write(w, q) = Refuse(w)
    BY <1>5 DEF Write
  <2>2. Refuse(w).w \in Writer(T) /\ InBuffer(Refuse(w).w) /\ Refuse(w).ok = FALSE
    BY <1>3 DEF Refuse, Writer, InBuffer
  <2> QED
    BY <1>4, <1>5, <2>1, <2>2 DEF Written
<1>6. CASE ~(Bytes(q) > remaining(w))
  <2> DEFINE v == [w EXCEPT !.out = w.out \o q, !.length = w.length + Bytes(q)]
  <2>1. Write(w, q) = [ok |-> TRUE, w |-> v]
    BY <1>6 DEF Write
  <2>2. v \in Writer(T)
    <3>1. w.length + Bytes(q) \in Nat
      BY <1>1, <1>3
    <3> QED
      BY <1>2, <3>1, WriterExtended
  <2>3. /\ v.out = w.out \o q /\ v.length = w.length + Bytes(q)
        /\ v.tail_reserve = w.tail_reserve /\ v.capacity = w.capacity
    BY DEF Writer
  <2>4. InBuffer(v)
    <3> HIDE DEF v
    <3> QED
      BY <1>1, <1>3, <1>4, <1>6, <2>3 DEF InBuffer
  <2> HIDE DEF v
  <2>5. Write(w, q).ok = TRUE /\ Write(w, q).w = v
    BY <2>1
  <2> QED
    BY <1>4, <1>6, <2>2, <2>4, <2>5 DEF v, Written
<1> QED
  BY <1>5, <1>6

-----------------------------------------------------------------------------
\* Concatenation behind a name of its own: the provers do better with its laws
\* than with what it is.
Cat(a, b) == a \o b

LEMMA Closed ==
    ASSUME NEW T
    PROVE  \A x, y \in Seq(T) : x \o y \in Seq(T)
  BY ConcatProperties

LEMMA CatType ==
    ASSUME NEW T
    PROVE  \A a, b \in Seq(T) : Cat(a, b) \in Seq(T)
  BY ConcatProperties DEF Cat

LEMMA CatAssociative ==
    ASSUME NEW T
    PROVE  \A a, b, c \in Seq(T) : Cat(Cat(a, b), c) = Cat(a, Cat(b, c))
<1> TAKE a, b, c \in Seq(T)
<1> QED
  BY ConcatAssociative, SMT DEF Cat

LEMMA CatEmpty ==
    ASSUME NEW T
    PROVE  \A a \in Seq(T) : Cat(a, <<>>) = a /\ Cat(<<>>, a) = a
  BY ConcatEmptySeq DEF Cat

LEMMA CatBytes ==
    ASSUME NEW T, \A t \in T : t.bytes \in Nat
    PROVE  \A a, b \in Seq(T) : /\ Bytes(Cat(a, b)) = Bytes(a) + Bytes(b)
                                /\ Bytes(a) \in Nat /\ Bytes(b) \in Nat
<1> TAKE a, b \in Seq(T)
<1> QED
  BY BytesConcat DEF Cat

LEMMA CatNotEmpty ==
    ASSUME NEW T
    PROVE  \A a, b \in Seq(T) : Cat(a, b) = <<>> <=> a = <<>> /\ b = <<>>
<1> TAKE a, b \in Seq(T)
<1> QED
  BY ConcatEqualIffEmpty DEF Cat

-----------------------------------------------------------------------------
(* An object, filled member by member. *)

\* w is inside an object that began with the text p, the opening brace included,
\* and to which the members ms have been added.
Inside(w, T, p, ms) ==
    /\ w \in Writer(T) /\ InBuffer(w) /\ w.depth >= 1 /\ ~w.closed
    /\ w.out = Cat(p, Separated(ms))
    /\ w.first[w.depth] <=> Separated(ms) = <<>>

\* The only object of an application's writer.
OpenObject(w, T, ms) == Inside(w, T, <<Opening>>, ms) /\ w.depth = 1

\* writeFieldPrefix and the value: what is written behind ms makes it the text
\* of ms and the new member.
LEMMA MemberText ==
    ASSUME NEW T, IsVocabulary(T), NEW p \in Seq(T), NEW ms \in Seq(Seq(T)), NEW w,
           Inside(w, T, p, ms), NEW name, Quoted(name) \in T, NEW value \in T
    PROVE  LET m == Pair(name, <<value>>)
               q == FieldPrefix(w, name) \o <<value>>
           IN  /\ m \in Seq(T) /\ q \in Seq(T)
               /\ Cat(w.out, q) = Cat(p, Separated(Append(ms, m)))
               /\ Separated(Append(ms, m)) # <<>> /\ Separated(Append(ms, m)) \in Seq(T)
<1> DEFINE key == <<Quoted(name), Colon>>
           m == Pair(name, <<value>>)
           q == FieldPrefix(w, name) \o <<value>>
           S == Separated(ms)
<1>1. /\ key \in Seq(T) /\ <<value>> \in Seq(T)
      /\ <<Comma>> \in Seq(T) /\ <<>> \in Seq(T) /\ Len(key) = 2 /\ Len(<<value>>) = 1
  BY DEF IsVocabulary
<1>2. m = key \o <<value>> /\ m \in Seq(T) /\ m # <<>>
  <2>1. key \o <<value>> \in Seq(T) /\ Len(key \o <<value>>) = 3
    BY <1>1, ConcatProperties
  <2>2. key \o <<value>> # <<>>
    BY <2>1
  <2> QED
    BY <2>1, <2>2 DEF Pair
<1>3. S \in Seq(T) /\ Separated(Append(ms, m)) = Joined(S, m)
  <2> HIDE DEF m
  <2> QED
    BY <1>2, SeparatedAppend DEF IsVocabulary
<1>4. w.out = Cat(p, S) /\ (w.first[w.depth] <=> S = <<>>)
  BY DEF Inside
<1>5. Joined(S, m) \in Seq(T)
  BY <1>1, <1>2, <1>3, JoinedType DEF IsVocabulary
<1>6. CASE S = <<>>
  <2>1. FieldPrefix(w, name) = Cat(<<>>, key)
    BY <1>4, <1>6, Zenon DEF FieldPrefix, Cat
  <2>2. Joined(S, m) = m
    BY <1>6 DEF Joined
  <2> HIDE DEF key, S, m
  <2>3. Cat(<<>>, key) = key /\ Cat(p, <<>>) = p
    BY <1>1, CatEmpty
  <2>4. q = m
    BY <1>2, <2>1, <2>3
  <2>5. Cat(w.out, q) = Cat(p, m)
    BY <1>4, <1>6, <2>3, <2>4
  <2> HIDE DEF q
  <2> QED
    BY <1>2, <1>3, <1>5, <2>2, <2>4, <2>5, Zenon DEF q, m, S
<1>7. CASE S # <<>>
  <2> DEFINE c == <<Comma>>
             v == <<value>>
  <2>1. q = Cat(Cat(c, key), v)
    BY <1>4, <1>7, Zenon DEF FieldPrefix, Cat
  <2>2. Joined(S, m) = Cat(Cat(S, c), m) /\ m = Cat(key, v)
    BY <1>2, <1>7, Zenon DEF Joined, Cat
  <2>3. c \in Seq(T) /\ v \in Seq(T) /\ key \in Seq(T) /\ S \in Seq(T)
    BY <1>1, <1>3
  <2> HIDE DEF c, v, q, m, key, S
  <2>4. Cat(Cat(p, S), Cat(Cat(c, key), v)) = Cat(p, Cat(Cat(S, c), Cat(key, v)))
    BY <2>3, CatType, CatAssociative
  <2>5. q \in Seq(T)
    BY <2>1, <2>3, CatType
  <2>6. Joined(S, m) # <<>>
    BY <1>2, <2>2, <2>3, CatType, CatNotEmpty
  <2>7. Cat(w.out, q) = Cat(p, Joined(S, m))
    BY <1>4, <2>1, <2>2, <2>4
  <2> QED
    BY <1>2, <1>3, <1>5, <2>5, <2>6, <2>7, Zenon DEF q, m, S
<1> QED
  BY <1>6, <1>7

\* What a call inside an object leaves alone.
Kept(v, w) ==
    /\ v.capacity = w.capacity /\ v.tail_reserve = w.tail_reserve /\ v.depth = w.depth
    /\ \A d \in 1..MaxDepth : d < w.depth => (v.first[d] <=> w.first[d])

\* There is room for the text, what is kept back aside.
Fits(text, w) == Bytes(text) + w.tail_reserve <= w.capacity

\* A member m was added to the object exactly when there was room for it.
Added(r, w, T, p, ms, m) ==
    /\ r.ok \in BOOLEAN /\ m \in Seq(T)
    /\ r.ok <=> Fits(Cat(p, Separated(Append(ms, m))), w)
    /\ r.ok => Inside(r.w, T, p, Append(ms, m)) /\ Kept(r.w, w) /\ r.w.failed = w.failed
    /\ ~r.ok => r = Refuse(w)

\* A refusal changes nothing but failed_.
LEMMA RefuseKeeps ==
    ASSUME NEW T, NEW w, NEW p, NEW ms, Inside(w, T, p, ms)
    PROVE  /\ Refuse(w).ok = FALSE /\ Inside(Refuse(w).w, T, p, ms)
           /\ Kept(Refuse(w).w, w) /\ Refuse(w).w.failed = TRUE
<1> DEFINE v == [w EXCEPT !.failed = TRUE]
<1>1. Refuse(w) = [ok |-> FALSE, w |-> v]
  BY DEF Refuse
<1>2. w \in Writer(T)
  BY DEF Inside
<1>3. /\ v \in Writer(T) /\ v.capacity = w.capacity /\ v.out = w.out /\ v.length = w.length
      /\ v.depth = w.depth /\ v.tail_reserve = w.tail_reserve /\ v.closed = w.closed
      /\ v.first = w.first /\ v.failed = TRUE
  BY <1>2 DEF Writer
<1> HIDE DEF v
<1>4. Inside(v, T, p, ms) /\ Kept(v, w)
  BY <1>3 DEF Inside, InBuffer, Kept
<1> QED
  BY <1>1, <1>3, <1>4

\* One of the comma flags is set or cleared.
SetFlag(g, k, b) == [g EXCEPT ![k] = b]

LEMMA FlagSet ==
    ASSUME NEW g \in [1..MaxDepth -> BOOLEAN], NEW k \in 1..MaxDepth
    PROVE  /\ SetFlag(g, k, FALSE) \in [1..MaxDepth -> BOOLEAN] /\ ~SetFlag(g, k, FALSE)[k]
           /\ SetFlag(g, k, TRUE) \in [1..MaxDepth -> BOOLEAN] /\ SetFlag(g, k, TRUE)[k]
           /\ \A d \in 1..MaxDepth : d < k => /\ SetFlag(g, k, FALSE)[d] <=> g[d]
                                              /\ SetFlag(g, k, TRUE)[d] <=> g[d]
<1>1. MaxDepth \in Nat /\ k \in Nat
  BY DepthAssumption
<1>2. \A d \in 1..MaxDepth : d < k => d # k
  BY <1>1
<1>3. k \in DOMAIN g
  OBVIOUS
<1> QED
  BY <1>2, <1>3, Zenon DEF SetFlag

\* A member is added whole, or not at all, and the comma before the next one
\* depends on which (AddMember).
LEMMA MemberAdded ==
    ASSUME NEW T, IsVocabulary(T), NEW p \in Seq(T), NEW ms \in Seq(Seq(T)), NEW w,
           Inside(w, T, p, ms), NEW name, Quoted(name) \in T, NEW value \in T
    PROVE  Added(AddMember(w, name, value), w, T, p, ms, Pair(name, <<value>>))
<1> DEFINE m == Pair(name, <<value>>)
           q == FieldPrefix(w, name) \o <<value>>
           u == [w EXCEPT !.first[w.depth] = FALSE]
           r == Write(u, q)
           text == Cat(p, Separated(Append(ms, m)))
<1>1. /\ m \in Seq(T) /\ q \in Seq(T) /\ Cat(w.out, q) = text /\ Separated(Append(ms, m)) # <<>>
  BY MemberText
<1>2. w \in Writer(T) /\ InBuffer(w) /\ w.depth \in 1..MaxDepth /\ ~w.closed
  BY DEF Inside, Writer
<1>3. /\ u \in Writer(T) /\ u.capacity = w.capacity /\ u.out = w.out /\ u.length = w.length
      /\ u.depth = w.depth /\ u.tail_reserve = w.tail_reserve /\ u.closed = w.closed
      /\ u.failed = w.failed /\ ~u.first[w.depth]
      /\ \A d \in 1..MaxDepth : d < w.depth => (u.first[d] <=> w.first[d])
  <2>1. w.first \in [1..MaxDepth -> BOOLEAN] /\ FALSE \in BOOLEAN
    BY <1>2, DepthAssumption DEF Writer
  <2>2. PICK f : f = SetFlag(w.first, w.depth, FALSE)
    OBVIOUS
  <2>3. /\ f \in [1..MaxDepth -> BOOLEAN] /\ ~f[w.depth]
        /\ \A d \in 1..MaxDepth : d < w.depth => (f[d] <=> w.first[d])
    BY <1>2, <2>1, <2>2, FlagSet
  <2>4. u = [w EXCEPT !.first = f]
    BY <2>2 DEF SetFlag
  <2> HIDE DEF u
  <2> QED
    BY <1>2, <2>3, <2>4 DEF Writer
<1>4. AddMember(w, name, value) = IF r.ok THEN r ELSE Refuse(w)
  BY DEF AddMember, Member
<1> HIDE DEF u, m, q, text
<1>5. InBuffer(u)
  BY <1>2, <1>3 DEF InBuffer
<1>6. Written(r, u, T, q)
  <2>1. u \in Writer(T) /\ q \in Seq(T)
    BY <1>1, <1>3
  <2> QED
    BY <1>5, <2>1, WriteFits
<1>7. r.ok <=> Fits(text, w)
  <2>1. /\ Bytes(Cat(w.out, q)) = Bytes(w.out) + Bytes(q)
        /\ Bytes(q) \in Nat /\ Bytes(w.out) \in Nat
    BY <1>1, <1>2, CatBytes DEF IsVocabulary, Writer
  <2>2. w.length = Bytes(w.out) /\ w.tail_reserve \in Nat /\ w.capacity \in Nat
    BY <1>2 DEF InBuffer, Writer
  <2>3. r.ok <=> w.length + Bytes(q) + w.tail_reserve <= w.capacity
    BY <1>3, <1>6 DEF Written
  <2> QED
    BY <1>1, <2>1, <2>2, <2>3 DEF Fits
<1>8. /\ r.w \in Writer(T) /\ InBuffer(r.w) /\ r.ok \in BOOLEAN
      /\ r.ok => r.w = [u EXCEPT !.out = u.out \o q, !.length = u.length + Bytes(q)]
  BY <1>6 DEF Written
<1> HIDE DEF r
<1>9. CASE r.ok
  <2>1. /\ r.w.out = Cat(u.out, q) /\ r.w.depth = u.depth /\ r.w.closed = u.closed
        /\ r.w.capacity = u.capacity /\ r.w.tail_reserve = u.tail_reserve
        /\ r.w.first = u.first /\ r.w.failed = u.failed
    BY <1>3, <1>8, <1>9 DEF Writer, Cat
  <2>2. Inside(r.w, T, p, Append(ms, m))
    BY <1>1, <1>2, <1>3, <1>8, <2>1 DEF Inside, text
  <2>3. Kept(r.w, w)
    BY <1>2, <1>3, <2>1 DEF Kept
  <2> QED
    BY <1>1, <1>3, <1>4, <1>7, <1>8, <1>9, <2>1, <2>2, <2>3 DEF Added, m, text
<1>10. CASE ~r.ok
  BY <1>1, <1>4, <1>7, <1>10, RefuseKeeps DEF Added, m, text
<1> QED
  BY <1>8, <1>9, <1>10

\* What an attempt of the application to add member m to the object of ms leads
\* to.
Attempted(r, w, T, ms, m) ==
    /\ r.ok \in BOOLEAN
    /\ r.w.capacity = w.capacity /\ r.w.tail_reserve = w.tail_reserve
    /\ r.ok => m \in Seq(T) /\ OpenObject(r.w, T, Append(ms, m))
    /\ ~r.ok => OpenObject(r.w, T, ms)

LEMMA AddMemberAttempts ==
    ASSUME NEW T, IsVocabulary(T), NEW ms \in Seq(Seq(T)), NEW w, OpenObject(w, T, ms),
           NEW name, Quoted(name) \in T, NEW value \in T
    PROVE  Attempted(AddMember(w, name, value), w, T, ms, Pair(name, <<value>>))
<1> DEFINE m == Pair(name, <<value>>)
           r == AddMember(w, name, value)
<1>1. <<Opening>> \in Seq(T)
  BY DEF IsVocabulary
<1>2. Inside(w, T, <<Opening>>, ms) /\ w.depth = 1
  BY DEF OpenObject
<1>3. Added(r, w, T, <<Opening>>, ms, m)
  BY <1>1, <1>2, MemberAdded
<1> HIDE DEF r, m
<1>4. /\ Refuse(w).ok = FALSE /\ Inside(Refuse(w).w, T, <<Opening>>, ms)
      /\ Kept(Refuse(w).w, w)
  BY <1>2, RefuseKeeps
<1>5. Attempted(r, w, T, ms, m)
  BY <1>2, <1>3, <1>4, Zenon DEF Added, Attempted, OpenObject, Kept
<1> QED
  BY <1>5 DEF r, m

\* The application's add, by any of the methods, of a member it may write.
LEMMA AppAddAttempts ==
    ASSUME NEW T, IsVocabulary(T), NEW ms \in Seq(Seq(T)), NEW w, OpenObject(w, T, ms),
           NEW name, name # Null => Quoted(name) \in T,
           NEW kind \in {"literal", "double", "string", "chars"}, NEW value,
           kind \notin {"string", "chars"} => value \in T,
           kind \in {"string", "chars"} /\ value # Null => Quoted(value) \in T
    PROVE  Attempted(AppAdd(w, name, kind, value), w, T, ms,
                     Pair(name, <<ValueToken(kind, value)>>))
<1> DEFINE x == ValueToken(kind, value)
           m == Pair(name, <<x>>)
           Same == [ok |-> FALSE, w |-> w]
<1>1. Attempted(Same, w, T, ms, m)
  BY DEF Attempted
<1>2. Attempted(Refuse(w), w, T, ms, m)
  <2>1. /\ Refuse(w).ok = FALSE /\ Inside(Refuse(w).w, T, <<Opening>>, ms)
        /\ Kept(Refuse(w).w, w)
    BY RefuseKeeps DEF OpenObject
  <2> QED
    BY <2>1, Zenon DEF Attempted, OpenObject, Kept
<1>3. inObject(w)
  BY DEF inObject, OpenObject, Inside
<1>4. CASE ~allowed(w, name)
  BY <1>1, <1>4 DEF AppAdd
<1>5. CASE allowed(w, name)
  <2>1. name # Null /\ Quoted(name) \in T
    BY <1>5 DEF allowed
  <2>2. ASSUME NEW v \in T
        PROVE  /\ addLiteral(w, name, v) = AddMember(w, name, v)
               /\ Attempted(addLiteral(w, name, v), w, T, ms, Pair(name, <<v>>))
    BY <1>3, <2>1, AddMemberAttempts DEF addLiteral
  <2>3. CASE kind = "literal"
    <3>1. AppAdd(w, name, kind, value) = addLiteral(w, name, value) /\ x = value /\ value \in T
      BY <1>5, <2>3 DEF AppAdd, ValueToken
    <3> QED
      BY <2>2, <3>1
  <2>4. CASE kind = "double"
    <3>1. AppAdd(w, name, kind, value) = addDouble(w, name, value) /\ x = value /\ value \in T
      BY <1>5, <2>4 DEF AppAdd, ValueToken
    <3> QED
      BY <1>2, <2>2, <3>1 DEF addDouble
  <2>5. CASE kind = "string"
    <3>1. AppAdd(w, name, kind, value) = addString(w, name, value) /\ x = Quoted(value)
      BY <1>5, <2>5 DEF AppAdd, ValueToken
    <3> QED
      BY <1>1, <2>2, <2>5, <3>1 DEF addString, addStringOfLength
  <2>6. CASE kind = "chars"
    <3>1. /\ AppAdd(w, name, kind, value) = addStringOfLength(w, name, value)
          /\ x = Quoted(value)
      BY <1>5, <2>6 DEF AppAdd, ValueToken
    <3> QED
      BY <1>2, <2>2, <2>6, <3>1 DEF addStringOfLength
  <2> QED
    BY <2>3, <2>4, <2>5, <2>6
<1> QED
  BY <1>4, <1>5

\* An empty buffer.
LEMMA NewWriterEmpty ==
    ASSUME NEW T, NEW capacity \in Nat
    PROVE  LET n == NewWriter(capacity)
           IN  /\ n \in Writer(T) /\ n.capacity = capacity /\ n.out = <<>> /\ n.length = 0
               /\ n.depth = 0 /\ n.tail_reserve = 0 /\ ~n.closed /\ InBuffer(n)
<1> DEFINE n == NewWriter(capacity)
<1>1. <<>> \in Seq(T)
  OBVIOUS
<1>2. /\ n \in Writer(T) /\ n.capacity = capacity /\ n.out = <<>> /\ n.length = 0
      /\ n.depth = 0 /\ n.tail_reserve = 0 /\ ~n.closed
  BY <1>1, DepthAssumption DEF NewWriter, Writer
<1> HIDE DEF n
<1>3. InBuffer(n)
  BY <1>2, BytesEmpty DEF InBuffer
<1> QED
  BY <1>2, <1>3 DEF n

\* The first brace of a text opens an empty object (beginObject).
LEMMA FirstBrace ==
    ASSUME NEW T, IsVocabulary(T), NEW n \in Writer(T), InBuffer(n), n.depth = 0, ~n.closed,
           n.out = <<>>
    PROVE  LET b == beginObject(n)
           IN  /\ b.ok \in BOOLEAN /\ (b.ok <=> 1 + n.tail_reserve <= n.capacity)
               /\ b.ok => /\ OpenObject(b.w, T, <<>>) /\ b.w.capacity = n.capacity
                          /\ b.w.tail_reserve = n.tail_reserve /\ b.w.length = 1
<1> DEFINE q == <<Opening>>
           r == Write(n, q)
           b == Opened(r)
<1>1. q \in Seq(T) /\ <<>> \in Seq(T) /\ <<>> \o q = q /\ q # <<>>
  BY DEF IsVocabulary
<1>2. Bytes(q) = 1
  BY OneByteEach, BytesOne DEF IsVocabulary
<1>3. n.length = 0 /\ n.tail_reserve \in Nat /\ n.capacity \in Nat
  BY BytesEmpty DEF InBuffer, Writer
<1>4. beginObject(n) = b
  BY DepthAssumption DEF beginObject
<1> HIDE DEF q
<1>5. Written(r, n, T, q)
  BY <1>1, WriteFits
<1>6. r = [ok |-> r.ok, w |-> r.w]
  BY DEF Write, Refuse
<1> HIDE DEF r
<1>7. r.ok \in BOOLEAN /\ (r.ok <=> 1 + n.tail_reserve <= n.capacity)
  BY <1>2, <1>3, <1>5 DEF Written
<1>8. CASE ~r.ok
  <2>1. b = r
    BY <1>8 DEF Opened
  <2> QED
    BY <1>4, <1>7, <1>8, <2>1
<1>9. CASE r.ok
  <2>1. /\ r.w \in Writer(T) /\ InBuffer(r.w)
        /\ r.w = [n EXCEPT !.out = n.out \o q, !.length = n.length + Bytes(q)]
    BY <1>5, <1>9 DEF Written
  <2>2. /\ r.w.out = q /\ r.w.length = 1 /\ r.w.depth = 0 /\ r.w.tail_reserve = n.tail_reserve
        /\ ~r.w.closed /\ r.w.capacity = n.capacity
    BY <1>1, <1>2, <1>3, <2>1 DEF Writer
  <2> DEFINE v == [r.w EXCEPT !.depth = @ + 1, !.first[r.w.depth + 1] = TRUE]
  <2>3. b = [r EXCEPT !.w.depth = @ + 1, !.w.first[r.w.depth + 1] = TRUE]
    BY <1>9 DEF Opened
  <2>4. b.ok = r.ok /\ b.w = v
    BY <1>6, <2>3
  <2> HIDE DEF b
  <2>5. FirstOpened(v, r.w, T)
    BY <2>1, <2>2, WriterOpened, Zenon
  <2> HIDE DEF v
  <2>6. /\ v \in Writer(T) /\ v.out = q /\ v.length = 1 /\ v.depth = 1
        /\ v.tail_reserve = n.tail_reserve /\ ~v.closed /\ v.capacity = n.capacity
        /\ v.first[1] = TRUE
    BY <2>2, <2>5 DEF FirstOpened
  <2>7. Separated(<<>>) = <<>> /\ Cat(<<Opening>>, <<>>) = q
    BY <1>1, SeparatedEmpty DEF q, Cat
  <2>8. v.length + v.tail_reserve <= v.capacity
    BY <1>7, <1>9, <2>6
  <2>9. OpenObject(v, T, <<>>)
    BY <1>2, <2>6, <2>7, <2>8 DEF OpenObject, Inside, InBuffer
  <2> QED
    BY <1>4, <1>7, <2>4, <2>6, <2>9
<1> QED
  BY <1>8, <1>9

\* The constructor opens an empty object and keeps a byte for its end.
LEMMA ObjectWriterOpens ==
    ASSUME NEW T, IsVocabulary(T), NEW capacity \in Nat, capacity >= 2
    PROVE  /\ OpenObject(ObjectWriter(capacity), T, <<>>)
           /\ ObjectWriter(capacity).capacity = capacity
           /\ ObjectWriter(capacity).tail_reserve = 1
<1> DEFINE n == NewWriter(capacity)
           v == beginObject(n).w
           o == ObjectWriter(capacity)
<1>1. /\ n \in Writer(T) /\ n.capacity = capacity /\ n.out = <<>>
      /\ n.depth = 0 /\ n.tail_reserve = 0 /\ ~n.closed /\ InBuffer(n)
  BY NewWriterEmpty
<1>2. o = reserveTailBytes(v, 1).w
  BY DEF ObjectWriter
<1> HIDE DEF n, o
<1>3. /\ OpenObject(v, T, <<>>) /\ v.capacity = capacity
      /\ v.tail_reserve = 0 /\ v.length = 1
  BY <1>1, FirstBrace
<1> HIDE DEF v
<1>4. o = [v EXCEPT !.tail_reserve = 1]
  BY <1>2, <1>3 DEF reserveTailBytes
<1>5. /\ v \in Writer(T) /\ v.length = Bytes(v.out) /\ v.depth = 1 /\ ~v.closed
      /\ v.out = Cat(<<Opening>>, Separated(<<>>))
      /\ (v.first[1] <=> Separated(<<>>) = <<>>)
  BY <1>3 DEF OpenObject, Inside, InBuffer
<1>6. /\ o \in Writer(T) /\ o.out = v.out /\ o.length = v.length /\ o.depth = 1
      /\ o.tail_reserve = 1 /\ ~o.closed /\ o.capacity = capacity /\ o.first = v.first
  BY <1>3, <1>4, <1>5 DEF Writer
<1>7. OpenObject(o, T, <<>>)
  BY <1>3, <1>5, <1>6 DEF OpenObject, Inside, InBuffer
<1> QED
  BY <1>6, <1>7 DEF o

\* Keeping back a byte of an empty buffer, and opening the object of a line:
\* there must be room for both.
LEMMA LineOpens ==
    ASSUME NEW T, IsVocabulary(T), NEW capacity \in Nat
    PROVE  LET b == beginObject(reserveTailBytes(NewWriter(capacity), 1).w)
           IN  /\ b.ok \in BOOLEAN /\ (b.ok <=> 2 <= capacity)
               /\ b.ok => /\ OpenObject(b.w, T, <<>>) /\ b.w.capacity = capacity
                          /\ b.w.tail_reserve = 1
<1> DEFINE n == NewWriter(capacity)
           s == reserveTailBytes(n, 1)
<1>1. /\ n \in Writer(T) /\ n.capacity = capacity /\ n.out = <<>> /\ n.length = 0
      /\ n.depth = 0 /\ n.tail_reserve = 0 /\ ~n.closed /\ InBuffer(n)
  BY NewWriterEmpty
<1> HIDE DEF n
<1>2. CASE capacity = 0
  <2>1. s = Refuse(n)
    BY <1>1, <1>2 DEF reserveTailBytes
  <2> HIDE DEF s
  <2>2. s.w = [n EXCEPT !.failed = TRUE]
    BY <2>1 DEF Refuse
  <2>3. /\ s.w \in Writer(T) /\ s.w.out = <<>> /\ s.w.length = 0 /\ s.w.depth = 0
        /\ s.w.tail_reserve = 0 /\ ~s.w.closed /\ s.w.capacity = capacity
    BY <1>1, <2>2 DEF Writer
  <2>4. InBuffer(s.w)
    BY <1>2, <2>3, BytesEmpty DEF InBuffer
  <2>5. beginObject(s.w).ok \in BOOLEAN /\ ~beginObject(s.w).ok
    BY <1>2, <2>3, <2>4, FirstBrace
  <2> QED
    BY <1>2, <2>5 DEF s, n
<1>3. CASE capacity # 0
  <2>1. s.w = [n EXCEPT !.tail_reserve = 1]
    BY <1>1, <1>3 DEF reserveTailBytes
  <2>2. /\ s.w \in Writer(T) /\ s.w.out = <<>> /\ s.w.length = 0 /\ s.w.depth = 0
        /\ s.w.tail_reserve = 1 /\ ~s.w.closed /\ s.w.capacity = capacity
    BY <1>1, <2>1 DEF Writer
  <2> HIDE DEF s
  <2>3. InBuffer(s.w)
    BY <1>3, <2>2, BytesEmpty DEF InBuffer
  <2>4. LET b == beginObject(s.w)
        IN  /\ b.ok \in BOOLEAN /\ (b.ok <=> 2 <= capacity)
            /\ b.ok => /\ OpenObject(b.w, T, <<>>) /\ b.w.capacity = capacity
                       /\ b.w.tail_reserve = 1
    BY <2>2, <2>3, FirstBrace
  <2> QED
    BY <2>4 DEF s, n
<1> QED
  BY <1>2, <1>3

\* The text of a finished object.
FinishedObject(w, T, ms) ==
    /\ w \in Writer(T) /\ InBuffer(w) /\ w.closed
    /\ w.out = Object(ms)

\* An object for whose end a byte was kept can be closed, and closing it again
\* changes nothing.
LEMMA CloseFinishes ==
    ASSUME NEW T, IsVocabulary(T), NEW ms \in Seq(Seq(T)), NEW w,
           OpenObject(w, T, ms), w.tail_reserve = 1
    PROVE  /\ close(w).ok = TRUE
           /\ FinishedObject(close(w).w, T, ms)
           /\ close(w).w.capacity = w.capacity
<1> DEFINE u == [w EXCEPT !.tail_reserve = 0]
           q == <<Closing>>
           r == Write(u, q)
           c == [r EXCEPT !.w.depth = @ - 1, !.w.closed = (u.depth = 1)]
<1>1. q \in Seq(T) /\ Bytes(q) = 1
  BY OneByteEach, BytesOne DEF IsVocabulary
<1>2. /\ w \in Writer(T) /\ InBuffer(w) /\ w.depth = 1 /\ ~w.closed
      /\ w.out = <<Opening>> \o Separated(ms)
  BY Zenon DEF OpenObject, Inside, Cat
<1>3. /\ u \in Writer(T) /\ u.capacity = w.capacity /\ u.out = w.out /\ u.length = w.length
      /\ u.depth = 1 /\ u.tail_reserve = 0 /\ u.closed = w.closed
  BY <1>2 DEF Writer
<1>4. w.length \in Nat /\ w.capacity \in Nat /\ w.length + 1 <= w.capacity
  BY <1>2 DEF Writer, InBuffer
<1>5. close(w) = endObject(u)
  BY <1>2 DEF close, releaseTailReserve
<1>6. endObject(u) = IF r.ok THEN c ELSE r
  BY <1>3 DEF endObject
<1> HIDE DEF u, q
<1>7. InBuffer(u)
  <2>1. u.length = Bytes(u.out)
    BY <1>2, <1>3 DEF InBuffer
  <2>2. u.length + u.tail_reserve <= u.capacity
    BY <1>3, <1>4
  <2> QED
    BY <2>1, <2>2 DEF InBuffer
<1>8. Written(r, u, T, q)
  BY <1>1, <1>3, <1>7, WriteFits
<1>9. r = [ok |-> r.ok, w |-> r.w]
  BY DEF Write, Refuse
<1> HIDE DEF r
<1>10. /\ r.ok = TRUE /\ r.w \in Writer(T) /\ InBuffer(r.w)
       /\ r.w = [u EXCEPT !.out = u.out \o q, !.length = u.length + Bytes(q)]
  BY <1>1, <1>3, <1>4, <1>8 DEF Written
<1>11. r.w.out = w.out \o q /\ r.w.depth = 1 /\ r.w.capacity = w.capacity
  BY <1>3, <1>10 DEF Writer
<1>12. c.ok = TRUE /\ c.w = [r.w EXCEPT !.depth = @ - 1, !.closed = TRUE]
  BY <1>3, <1>9, <1>10
<1> HIDE DEF c
<1>13. /\ c.w \in Writer(T) /\ c.w.out = r.w.out /\ c.w.length = r.w.length
       /\ c.w.tail_reserve = r.w.tail_reserve /\ c.w.capacity = r.w.capacity /\ c.w.closed
  BY <1>10, <1>11, <1>12, WriterClosed
<1>14. FinishedObject(c.w, T, ms)
  <2>1. c.w.out = Object(ms)
    BY <1>2, <1>11, <1>13, Zenon DEF Object, q
  <2> QED
    BY <1>10, <1>13, <2>1 DEF FinishedObject, InBuffer
<1> QED
  BY <1>5, <1>6, <1>10, <1>11, <1>12, <1>13, <1>14

LEMMA CloseAgain ==
    ASSUME NEW w, w.closed
    PROVE  close(w) = [ok |-> TRUE, w |-> w]
  BY DEF close

\* An object has two braces around its members.
LEMMA ObjectText ==
    ASSUME NEW T, IsVocabulary(T), NEW ms \in Seq(Seq(T))
    PROVE  /\ Object(ms) \in Seq(T)
           /\ Bytes(Object(ms)) = 2 + Bytes(Separated(ms)) /\ Bytes(Separated(ms)) \in Nat
           /\ Len(Object(ms)) = 2 + Len(Separated(ms)) /\ Len(Separated(ms)) \in Nat
           /\ Head(Object(ms)) = Opening
           /\ Object(ms)[Len(Object(ms))] = Closing
<1> DEFINE S == Separated(ms)
           a == <<Opening>>
           z == <<Closing>>
           b == a \o S
<1>1. /\ a \in Seq(T) /\ z \in Seq(T) /\ Len(a) = 1 /\ Len(z) = 1
      /\ a[1] = Opening /\ z[1] = Closing /\ <<>> \in Seq(T)
  BY DEF IsVocabulary
<1>2. S \in Seq(T)
  BY <1>1, SeparatedAppend DEF IsVocabulary
<1>3. Bytes(a) = 1 /\ Bytes(z) = 1
  BY OneByteEach, BytesOne DEF IsVocabulary
<1>4. Object(ms) = b \o z
  BY Zenon DEF Object
<1> HIDE DEF a, z, S
<1>5. /\ b \in Seq(T) /\ Len(b) = 1 + Len(S) /\ b[1] = Opening /\ Len(S) \in Nat
  <2>1. Len(S) \in Nat
    BY <1>2
  <2>2. /\ b \in Seq(T) /\ Len(b) = Len(a) + Len(S)
        /\ \A i \in 1..(Len(a) + Len(S)) : b[i] = IF i <= Len(a) THEN a[i] ELSE S[i - Len(a)]
    BY <1>1, <1>2, ConcatProperties
  <2> QED
    BY <1>1, <2>1, <2>2
<1>6. Bytes(b) = 1 + Bytes(S) /\ Bytes(S) \in Nat
  BY <1>1, <1>2, <1>3, BytesConcat DEF IsVocabulary
<1> HIDE DEF b
<1>7. /\ b \o z \in Seq(T) /\ Len(b \o z) = 2 + Len(S)
      /\ (b \o z)[1] = Opening /\ (b \o z)[2 + Len(S)] = Closing
  <2>1. /\ b \o z \in Seq(T) /\ Len(b \o z) = Len(b) + Len(z)
        /\ \A i \in 1..(Len(b) + Len(z)) :
              (b \o z)[i] = IF i <= Len(b) THEN b[i] ELSE z[i - Len(b)]
    BY <1>1, <1>5, ConcatProperties
  <2>2. /\ 1 \in 1..(Len(b) + Len(z)) /\ 1 <= Len(b)
        /\ 2 + Len(S) \in 1..(Len(b) + Len(z)) /\ ~(2 + Len(S) <= Len(b))
        /\ (2 + Len(S)) - Len(b) = 1 /\ Len(b) + Len(z) = 2 + Len(S)
    BY <1>1, <1>5
  <2> QED
    BY <1>1, <1>5, <2>1, <2>2
<1>8. Bytes(b \o z) = 2 + Bytes(S)
  <2>1. Bytes(b \o z) = Bytes(b) + Bytes(z)
    BY <1>1, <1>5, BytesConcat DEF IsVocabulary
  <2> QED
    BY <1>3, <1>6, <2>1
<1>9. Head(b \o z) = Opening
  BY <1>5, <1>7
<1> QED
  BY <1>4, <1>5, <1>6, <1>7, <1>8, <1>9 DEF S

-----------------------------------------------------------------------------
(* Objects within objects. *)

\* The text of an object up to and including the brace that opens another one
\* in it.
UpTo(p, ms, name) == Cat(p, Separated(Append(ms, Pair(name, <<Opening>>))))

\* The text of an object with members ns, a brace behind it, is that of a member.
Spliced(T, p, ms, name, ns) ==
    LET o == Pair(name, Object(ns))
        S == Separated(Append(ms, o))
    IN  /\ UpTo(p, ms, name) \in Seq(T) /\ Separated(ns) \in Seq(T) /\ o \in Seq(T)
        /\ Cat(Cat(UpTo(p, ms, name), Separated(ns)), <<Closing>>) = Cat(p, S)
        /\ S # <<>> /\ S \in Seq(T)

\* The member is whole once the inner object is closed.
LEMMA ObjectSpliced ==
    ASSUME NEW T, IsVocabulary(T), NEW p \in Seq(T), NEW ms \in Seq(Seq(T)),
           NEW name, Quoted(name) \in T, NEW ns \in Seq(Seq(T))
    PROVE  Spliced(T, p, ms, name, ns)
<1> DEFINE key == <<Quoted(name), Colon>>
           a == <<Opening>>
           z == <<Closing>>
           c == <<Comma>>
           S == Separated(ms)
           N == Separated(ns)
           m == Pair(name, a)
           o == Pair(name, Object(ns))
<1>1. /\ key \in Seq(T) /\ a \in Seq(T) /\ z \in Seq(T) /\ c \in Seq(T) /\ <<>> \in Seq(T)
      /\ key # <<>>
  BY DEF IsVocabulary
<1>2. m = Cat(key, a) /\ o = Cat(key, Cat(Cat(a, N), z))
  BY Zenon DEF Pair, Cat, Object
<1>3. UpTo(p, ms, name) = Cat(p, Separated(Append(ms, m)))
  BY Zenon DEF UpTo
<1>4. S \in Seq(T) /\ N \in Seq(T)
  BY <1>1, SeparatedAppend DEF IsVocabulary
<1> HIDE DEF key, a, z, c, S, N, m, o
<1>5. m \in Seq(T) /\ o \in Seq(T) /\ o # <<>> /\ m # <<>>
  BY <1>1, <1>2, <1>4, CatType, CatNotEmpty
<1>6. Separated(Append(ms, m)) = Joined(S, m) /\ Separated(Append(ms, o)) = Joined(S, o)
  BY <1>5, SeparatedAppend DEF IsVocabulary, S
<1>7. Joined(S, m) \in Seq(T) /\ Joined(S, o) \in Seq(T)
  BY <1>4, <1>5, JoinedType DEF IsVocabulary
<1>8. Cat(Cat(m, N), z) = o
  BY <1>1, <1>2, <1>4, CatType, CatAssociative
<1>9. Cat(Cat(Joined(S, m), N), z) = Joined(S, o) /\ Joined(S, o) # <<>>
  <2>1. CASE S = <<>>
    <3>1. Joined(S, m) = m /\ Joined(S, o) = o
      BY <2>1 DEF Joined
    <3> QED
      BY <1>5, <1>8, <3>1
  <2>2. CASE S # <<>>
    <3>1. Joined(S, m) = Cat(Cat(S, c), m) /\ Joined(S, o) = Cat(Cat(S, c), o)
      BY <2>2, Zenon DEF Joined, Cat, c
    <3>2. PICK s \in Seq(T) : s = Cat(S, c)
      BY <1>1, <1>4, CatType
    <3>3. Cat(Cat(Cat(s, m), N), z) = Cat(s, o)
      BY <1>1, <1>4, <1>5, <1>8, CatType, CatAssociative
    <3>4. Cat(s, o) # <<>>
      BY <1>5, CatNotEmpty
    <3> QED
      BY <3>1, <3>2, <3>3, <3>4
  <2> QED
    BY <2>1, <2>2
<1>10. Cat(Cat(UpTo(p, ms, name), N), z) = Cat(p, Joined(S, o))
  BY <1>1, <1>3, <1>4, <1>6, <1>7, <1>9, CatType, CatAssociative
<1>11. UpTo(p, ms, name) \in Seq(T)
  BY <1>3, <1>6, <1>7, CatType
<1> QED
  BY <1>4, <1>5, <1>6, <1>7, <1>9, <1>10, <1>11, Zenon DEF N, o, z, Spliced

\* v is w with an object opened in it.
Deeper(v, w, T) ==
    /\ v \in Writer(T) /\ v.out = w.out /\ v.length = w.length /\ v.depth = w.depth + 1
    /\ v.tail_reserve = w.tail_reserve /\ v.closed = w.closed /\ v.capacity = w.capacity
    /\ v.failed = w.failed /\ v.first[w.depth + 1]
    /\ \A d \in 1..MaxDepth : d < w.depth + 1 => (v.first[d] <=> w.first[d])

LEMMA WriterDeeper ==
    ASSUME NEW T, NEW w, w \in Writer(T), w.depth < MaxDepth,
           NEW v, v = [w EXCEPT !.depth = @ + 1, !.first[w.depth + 1] = TRUE]
    PROVE  Deeper(v, w, T)
<1>1. w.first \in [1..MaxDepth -> BOOLEAN] /\ w.depth \in 0..MaxDepth /\ MaxDepth \in Nat
  BY DepthAssumption DEF Writer
<1>2. w.depth + 1 \in 1..MaxDepth /\ w.depth + 1 \in 0..MaxDepth
  BY <1>1
<1>3. PICK k \in 1..MaxDepth : k = w.depth + 1 /\ k \in 0..MaxDepth
  BY <1>2
<1>4. PICK f : f = SetFlag(w.first, k, TRUE)
  OBVIOUS
<1>5. /\ f \in [1..MaxDepth -> BOOLEAN] /\ f[k]
      /\ \A d \in 1..MaxDepth : d < k => (f[d] <=> w.first[d])
  BY <1>1, <1>4, FlagSet
<1>6. v = [w EXCEPT !.depth = k, !.first = f]
  BY <1>3, <1>4 DEF SetFlag
<1>7. /\ v \in Writer(T) /\ v.depth = k /\ v.first = f /\ v.out = w.out /\ v.length = w.length
      /\ v.tail_reserve = w.tail_reserve /\ v.closed = w.closed /\ v.capacity = w.capacity
      /\ v.failed = w.failed
  BY <1>3, <1>5, <1>6 DEF Writer
<1> QED
  BY <1>3, <1>5, <1>7 DEF Deeper

\* v is in an object that was begun as a member of the one w is in.
Begun(v, w) ==
    /\ v.depth = w.depth + 1 /\ v.capacity = w.capacity /\ v.tail_reserve = w.tail_reserve
    /\ v.failed = w.failed /\ ~v.first[w.depth]
    /\ \A d \in 1..MaxDepth : d < w.depth => (v.first[d] <=> w.first[d])

\* A name and an opening brace: the writer is inside a new, empty object
\* (beginObjectField).
LEMMA FieldBegun ==
    ASSUME NEW T, IsVocabulary(T), NEW p \in Seq(T), NEW ms \in Seq(Seq(T)), NEW w,
           Inside(w, T, p, ms), w.depth < MaxDepth, NEW name, name # Null, Quoted(name) \in T
    PROVE  LET r == beginObjectField(w, name)
           IN  /\ r.ok \in BOOLEAN
               /\ r.ok <=> Fits(UpTo(p, ms, name), w)
               /\ r.ok => Inside(r.w, T, UpTo(p, ms, name), <<>>) /\ Begun(r.w, w)
<1> DEFINE m == Pair(name, <<Opening>>)
           b == beginObjectField(w, name)
           r == AddMember(w, name, Opening)
           P == UpTo(p, ms, name)
<1>1. Opening \in T /\ <<>> \in Seq(Seq(T)) /\ Separated(<<>>) = <<>>
  BY SeparatedEmpty DEF IsVocabulary
<1>2. Added(r, w, T, p, ms, m)
  BY <1>1, MemberAdded
<1>3. /\ w \in Writer(T) /\ w.depth \in 1..MaxDepth /\ ~w.closed /\ MaxDepth \in Nat
      /\ w.depth > 0 /\ ~(w.depth >= MaxDepth)
  BY DepthAssumption DEF Inside, Writer
<1>4. b = Opened(r)
  BY <1>3 DEF beginObjectField, inObject
<1>5. /\ m \in Seq(T) /\ P \in Seq(T) /\ P = Cat(p, Separated(Append(ms, m)))
      /\ Separated(Append(ms, m)) # <<>>
  <2>1. /\ m \in Seq(T) /\ Separated(Append(ms, m)) # <<>> /\ Separated(Append(ms, m)) \in Seq(T)
    BY <1>1, MemberText
  <2> HIDE DEF m
  <2>2. P = Cat(p, Separated(Append(ms, m)))
    BY Zenon DEF UpTo, m
  <2> QED
    BY <2>1, <2>2, CatType
<1>6. r = [ok |-> r.ok, w |-> r.w]
  BY DEF AddMember, Member, Write, Refuse
<1> HIDE DEF b, r, m, P
<1>7. CASE ~r.ok
  BY <1>2, <1>4, <1>5, <1>7 DEF Opened, Added, b, P
<1>8. CASE r.ok
  <2> DEFINE v == [r.w EXCEPT !.depth = @ + 1, !.first[r.w.depth + 1] = TRUE]
  <2>1. b = [r EXCEPT !.w.depth = @ + 1, !.w.first[r.w.depth + 1] = TRUE]
    BY <1>4, <1>8 DEF Opened
  <2>2. b.ok = r.ok /\ b.w = v
    BY <1>6, <2>1
  <2>3. Inside(r.w, T, p, Append(ms, m)) /\ Kept(r.w, w) /\ r.w.failed = w.failed
    BY <1>2, <1>8 DEF Added
  <2>4. /\ r.w \in Writer(T) /\ r.w.depth = w.depth /\ ~r.w.closed /\ r.w.out = P
        /\ ~r.w.first[w.depth] /\ r.w.length = Bytes(r.w.out)
        /\ r.w.length + r.w.tail_reserve <= r.w.capacity
    BY <1>5, <2>3 DEF Inside, Kept, InBuffer
  <2>5. Deeper(v, r.w, T)
    <3> DEFINE u == r.w
    <3>1. u \in Writer(T) /\ u.depth < MaxDepth
      BY <2>4
    <3> HIDE DEF u
    <3>2. Deeper([u EXCEPT !.depth = @ + 1, !.first[u.depth + 1] = TRUE], u, T)
      BY <3>1, WriterDeeper
    <3> QED
      BY <3>2 DEF u
  <2> HIDE DEF v
  <2>6. /\ v \in Writer(T) /\ v.out = P /\ v.depth = w.depth + 1 /\ ~v.closed /\ v.failed = w.failed
        /\ v.capacity = w.capacity /\ v.tail_reserve = w.tail_reserve
        /\ v.length = Bytes(v.out) /\ v.length + v.tail_reserve <= v.capacity
        /\ v.first[w.depth + 1]
    BY <2>3, <2>4, <2>5 DEF Deeper, Kept
  <2>7. \A d \in 1..MaxDepth : d < w.depth + 1 => (v.first[d] <=> r.w.first[d])
    BY <2>4, <2>5 DEF Deeper
  <2>8. /\ w.depth + 1 >= 1 /\ w.depth < w.depth + 1
        /\ \A d \in 1..MaxDepth : d < w.depth => d < w.depth + 1
    BY <1>3
  <2>9. Begun(v, w)
    BY <1>3, <2>3, <2>4, <2>6, <2>7, <2>8 DEF Begun, Kept
  <2>10. Inside(v, T, P, <<>>)
    <3>1. P = Cat(P, Separated(<<>>))
      BY <1>1, <1>5, CatEmpty
    <3> QED
      BY <1>1, <2>6, <2>8, <3>1 DEF Inside, InBuffer
  <2> QED
    BY <1>2, <1>5, <1>8, <2>2, <2>9, <2>10 DEF Added, b, P
<1> QED
  BY <1>2, <1>7, <1>8 DEF Added

\* r is what endObject leaves of v in an object of text q and members ns.
Ended(r, v, T, q, ns) ==
    /\ r.ok \in BOOLEAN
    /\ r.ok <=> Fits(Cat(Cat(q, Separated(ns)), <<Closing>>), v)
    /\ r.ok => /\ r.w \in Writer(T) /\ InBuffer(r.w)
               /\ r.w.out = Cat(Cat(q, Separated(ns)), <<Closing>>)
               /\ r.w.depth = v.depth - 1 /\ (r.w.closed <=> v.depth = 1) /\ r.w.first = v.first
               /\ r.w.capacity = v.capacity /\ r.w.tail_reserve = v.tail_reserve
               /\ r.w.failed = v.failed

\* A closing brace (endObject).
LEMMA ObjectEnded ==
    ASSUME NEW T, IsVocabulary(T), NEW q \in Seq(T), NEW ns \in Seq(Seq(T)), NEW v,
           Inside(v, T, q, ns)
    PROVE  Ended(endObject(v), v, T, q, ns)
<1> DEFINE z == <<Closing>>
           r == Write(v, z)
           e == endObject(v)
           text == Cat(Cat(q, Separated(ns)), z)
<1>1. z \in Seq(T)
  BY DEF IsVocabulary
<1>2. /\ v \in Writer(T) /\ InBuffer(v) /\ v.depth \in 1..MaxDepth /\ ~v.closed
      /\ v.out = Cat(q, Separated(ns)) /\ MaxDepth \in Nat /\ v.depth # 0
  BY DepthAssumption DEF Inside, Writer
<1>3. e = IF r.ok THEN [r EXCEPT !.w.depth = @ - 1, !.w.closed = (v.depth = 1)] ELSE r
  BY <1>2 DEF endObject
<1>4. r = [ok |-> r.ok, w |-> r.w]
  BY DEF Write, Refuse
<1> HIDE DEF z
<1>5. Written(r, v, T, z)
  BY <1>1, <1>2, WriteFits
<1> HIDE DEF r, e
<1>6. r.ok <=> Fits(text, v)
  <2>1. v.out \in Seq(T) /\ v.length = Bytes(v.out) /\ v.tail_reserve \in Nat /\ v.capacity \in Nat
    BY <1>2 DEF InBuffer, Writer
  <2>2. Bytes(text) = Bytes(v.out) + Bytes(z) /\ Bytes(z) \in Nat /\ Bytes(v.out) \in Nat
    BY <1>1, <1>2, <2>1, CatBytes DEF IsVocabulary
  <2> QED
    BY <1>5, <2>1, <2>2 DEF Written, Fits
<1>7. CASE r.ok
  <2>1. /\ r.w \in Writer(T) /\ InBuffer(r.w)
        /\ r.w = [v EXCEPT !.out = v.out \o z, !.length = v.length + Bytes(z)]
    BY <1>5, <1>7 DEF Written
  <2>2. /\ r.w.out = text /\ r.w.depth = v.depth /\ r.w.first = v.first
        /\ r.w.capacity = v.capacity /\ r.w.tail_reserve = v.tail_reserve /\ r.w.failed = v.failed
    BY <1>2, <2>1 DEF Writer, Cat
  <2> DEFINE last_one == v.depth = 1
  <2>3. last_one \in BOOLEAN
    OBVIOUS
  <2> HIDE DEF last_one
  <2>4. e.ok = r.ok /\ e.w = [r.w EXCEPT !.depth = @ - 1, !.closed = last_one]
    BY <1>3, <1>4, <1>7 DEF last_one
  <2>5. v.depth - 1 \in 0..MaxDepth
    BY <1>2
  <2>6. /\ e.w \in Writer(T) /\ e.w.out = text /\ e.w.length = r.w.length
        /\ e.w.depth = v.depth - 1 /\ (e.w.closed <=> last_one) /\ e.w.first = v.first
        /\ e.w.capacity = v.capacity /\ e.w.tail_reserve = v.tail_reserve
        /\ e.w.failed = v.failed
    BY <2>1, <2>2, <2>3, <2>4, <2>5 DEF Writer
  <2>7. InBuffer(e.w)
    BY <2>1, <2>2, <2>6 DEF InBuffer
  <2>8. Ended(e, v, T, q, ns)
    BY <1>6, <1>7, <2>4, <2>6, <2>7 DEF Ended, last_one, z
  <2> QED
    BY <2>8 DEF e
<1>8. CASE ~r.ok
  BY <1>3, <1>5, <1>6, <1>8 DEF Ended, Written, e, z
<1> QED
  BY <1>7, <1>8

\* The byte kept back is the newline's.
LEMMA NewlineAppended ==
    ASSUME NEW T, IsVocabulary(T), NEW w, w \in Writer(T), InBuffer(w), w.tail_reserve = 1
    PROVE  LET r == appendNewline(releaseTailReserve(w))
           IN  r.ok = TRUE /\ r.w.out = Cat(w.out, <<LineEnd>>)
<1> DEFINE u == releaseTailReserve(w)
           q == <<LineEnd>>
           r == Write(u, q)
<1>1. q \in Seq(T) /\ Bytes(q) = 1
  BY OneByteEach, BytesOne DEF IsVocabulary
<1>2. /\ u \in Writer(T) /\ u.capacity = w.capacity /\ u.out = w.out /\ u.length = w.length
      /\ u.tail_reserve = 0
  BY DEF Writer, releaseTailReserve
<1>3. appendNewline(u) = r
  BY DEF appendNewline
<1> HIDE DEF u, q
<1>4. w.length \in Nat /\ w.capacity \in Nat /\ w.length + 1 <= w.capacity
  BY DEF Writer, InBuffer
<1>5. InBuffer(u)
  <2>1. u.length = Bytes(u.out)
    BY <1>2 DEF InBuffer
  <2>2. u.length + u.tail_reserve <= u.capacity
    BY <1>2, <1>4
  <2> QED
    BY <2>1, <2>2 DEF InBuffer
<1>6. Written(r, u, T, q)
  BY <1>1, <1>2, <1>5, WriteFits
<1> HIDE DEF r
<1>7. r.ok = TRUE /\ r.w = [u EXCEPT !.out = u.out \o q, !.length = u.length + Bytes(q)]
  BY <1>1, <1>2, <1>4, <1>6 DEF Written
<1>8. r.w.out = Cat(w.out, q)
  BY <1>2, <1>7 DEF Writer, Cat
<1> QED
  BY <1>3, <1>7, <1>8 DEF u, q

=============================================================================
