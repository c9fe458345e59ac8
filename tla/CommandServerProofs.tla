------------------------ MODULE CommandServerProofs ------------------------
(***************************************************************************)
(* Proofs about CommandServer, for every configuration, set of lines and   *)
(* behaviour of the handlers.                                              *)
(*                                                                         *)
(* The argument has six parts.   The registry is sound (RegistryOK) and    *)
(* frozen once it is sealed.  A line leads to one of the records that      *)
(* LedTo lists, which gives the counting, the codes and the answers.  The  *)
(* scan of isValidUtf8 accepts exactly what UTF-8 defines.  A chain of     *)
(* writer calls adds the members it names exactly when they fit (Adds),    *)
(* so that the schema line is the document the registry stands for, and no *)
(* timestamp makes it longer than the one start() tried.  The result of a  *)
(* handler holds all it asked for, or its writer has failed (InStep).      *)
(***************************************************************************)
EXTENDS CommandServer, BoundedJsonWriterProofs

-----------------------------------------------------------------------------
(* FlattenSeq, as the loop that it is. *)

ConcatSteps(T, ss) == [k \in 1..Len(ss) |-> [v \in Seq(T) |-> v \o ss[k]]]

\* FlattenSeq is the last value of a loop that appends one list after the other.
LEMMA FlattenTrace ==
    ASSUME NEW T, NEW ss \in Seq(Seq(T))
    PROVE  \E g : /\ Trace(g, Len(ss), Seq(T), <<>>, ConcatSteps(T, ss))
                  /\ FlattenSeq(ss) = g[Len(ss)]
<1> DEFINE n == Len(ss)
           V == Seq(T)
           step == ConcatSteps(T, ss)
           P(f) == f = [i \in 1..Len(ss) |-> IF i = 1 THEN ss[i] ELSE f[i - 1] \o ss[i]]
           c == CHOOSE f : P(f)
<1>0. \A v \in V : <<>> \o v = v
  OBVIOUS
<1>1. <<>> \in V /\ n \in Nat /\ (\A k \in 1..n : ss[k] \in V)
  <2>1. <<>> \in V
    OBVIOUS
  <2> HIDE DEF V
  <2>2. ss \in Seq(V)
    BY DEF V
  <2> QED
    BY <2>1, <2>2
<1>2. step \in [1..n -> [V -> V]] /\ \A k \in 1..n, v \in V : step[k][v] = v \o ss[k]
  <2>1. \A k \in 1..n : \A v \in V : v \o ss[k] \in V
    BY <1>1, Closed
  <2> HIDE DEF V
  <2> QED
    BY <2>1 DEF ConcatSteps, V
<1> HIDE DEF V, step
<1>3. PICK h \in [SUBSET (1..n) -> V] : FoldsOver(h, n, <<>>, step)
  BY <1>1, <1>2, FoldExists
<1>4. h[1..0] = <<>>
  <2>1. 1..0 = {} /\ {} \in SUBSET (1..n)
    OBVIOUS
  <2>2. h[{}] = <<>>
    BY <1>3, <2>1, Zenon DEF FoldsOver
  <2> QED
    BY <2>1, <2>2
<1>5. ASSUME NEW k \in 1..n PROVE h[1..k] = h[1..(k - 1)] \o ss[k] /\ h[1..(k - 1)] \in V
  <2>1. /\ 1..k \in SUBSET (1..n) /\ 1..(k - 1) \in SUBSET (1..n) /\ 1..k # {}
        /\ Max(1..k) = k /\ (1..k) \ {k} = 1..(k - 1)
    BY <1>1, FoldSegment
  <2>2. h[1..k] = step[k][h[1..(k - 1)]]
    BY <1>3, <2>1 DEF FoldsOver
  <2> QED
    BY <1>2, <2>1, <2>2
<1>6. \E f : P(f)
  <2> DEFINE f == [i \in 1..n |-> h[1..i]]
  <2>1. ASSUME NEW i \in 1..n PROVE f[i] = IF i = 1 THEN ss[i] ELSE f[i - 1] \o ss[i]
    <3>1. CASE i = 1
      <4>0. i - 1 = 0 /\ ss[i] \in V
        <5>1. i - 1 = 0
          BY <3>1
        <5>2. ss[i] \in V
          BY <1>1, Zenon
        <5> QED
          BY <5>1, <5>2
      <4>1. h[1..i] = h[1..0] \o ss[i]
        BY <1>5, <4>0
      <4>2. h[1..i] = ss[i]
        BY <1>0, <1>4, <4>0, <4>1
      <4> QED
        BY <3>1, <4>2
    <3>2. CASE i # 1
      <4>1. i - 1 \in 1..n
        BY <1>1, <3>2
      <4> QED
        BY <1>5, <3>2, <4>1
    <3> QED
      BY <3>1, <3>2
  <2>2. P(f)
    BY <2>1, Zenon
  <2> QED
    BY <2>2, Zenon
<1>7. P(c)
  BY <1>6, Zenon
<1> HIDE DEF c
<1>8. CASE n = 0
  <2> DEFINE g == [k \in 0..n |-> <<>>]
  <2>1. FlattenSeq(ss) = <<>>
    BY <1>8 DEF FlattenSeq
  <2>2. Trace(g, n, V, <<>>, step)
    BY <1>1, <1>8 DEF Trace
  <2> QED
    BY <1>8, <2>1, <2>2 DEF V, step
<1>9. CASE n # 0
  <2> DEFINE g == [k \in 0..n |-> IF k = 0 THEN <<>> ELSE c[k]]
             S == {k \in Nat : k <= n => g[k] \in V}
  <2>1. FlattenSeq(ss) = c[n]
    BY <1>9, Zenon DEF FlattenSeq, c
  <2>2. g[0] = <<>> /\ \A k \in 1..n : g[k] = c[k]
    BY <1>1
  <2>0. g = [k \in 0..n |-> g[k]]
    OBVIOUS
  <2> HIDE DEF g
  <2>3. ASSUME NEW k \in 1..n, g[k - 1] \in V PROVE g[k] = step[k][g[k - 1]] /\ g[k] \in V
    <3>1. c[k] = IF k = 1 THEN ss[k] ELSE c[k - 1] \o ss[k]
      BY <1>7
    <3>2. CASE k = 1
      <4>1. g[k] = ss[1] /\ g[k - 1] = <<>> /\ ss[1] \in V
        BY <1>1, <2>2, <3>1, <3>2
      <4>2. step[1][<<>>] = <<>> \o ss[1]
        BY <1>1, <1>2, <3>2
      <4> QED
        BY <1>0, <3>2, <4>1, <4>2
    <3>3. CASE k # 1
      <4>1. k - 1 \in 1..n
        BY <1>1, <3>3
      <4>2. g[k] = g[k - 1] \o ss[k]
        BY <2>2, <3>1, <3>3, <4>1
      <4>3. step[k] \in [V -> V] /\ step[k][g[k - 1]] = g[k - 1] \o ss[k]
        BY <1>2, <2>3
      <4> QED
        BY <2>3, <4>2, <4>3
    <3> QED
      BY <3>2, <3>3
  <2>4. Nat \subseteq S
    <3>1. 0 \in S
      BY <1>1, <2>2
    <3>2. ASSUME NEW k \in Nat, k \in S PROVE k + 1 \in S
      <4> SUFFICES ASSUME k + 1 <= n PROVE g[k + 1] \in V
        OBVIOUS
      <4>1. k + 1 \in 1..n /\ (k + 1) - 1 = k /\ g[k] \in V
        BY <1>1, <3>2
      <4> QED
        BY <2>3, <4>1
    <3> HIDE DEF S
    <3> QED
      BY <3>1, <3>2, SetInduction
  <2>5. \A k \in 0..n : g[k] \in V
    BY <1>1, <2>4
  <2>6. Trace(g, n, V, <<>>, step)
    <3>1. g \in [0..n -> V]
      BY <2>0, <2>5
    <3>2. ASSUME NEW k \in 1..n PROVE g[k] = step[k][g[k - 1]]
      <4>1. k - 1 \in 0..n
        BY <1>1
      <4> QED
        BY <2>3, <2>5, <4>1
    <3> QED
      BY <2>2, <3>1, <3>2 DEF Trace
  <2>7. g[n] = c[n]
    BY <1>1, <1>9, <2>2
  <2> QED
    BY <2>1, <2>6, <2>7 DEF V, step
<1> QED
  BY <1>8, <1>9

-----------------------------------------------------------------------------
(* Lists of checks, of which the first that fails decides. *)

\* What a refusal can be called: the statuses of the API but for Ok, and the
\* error codes of validateArgs.
Code ==
    {"RegistrationSealed", "InvalidConfiguration", "InvalidName", "InvalidArgumentSchema",
     "CapacityExceeded", "DuplicateRegistration", "NoTelemetryProvider", "NoEstopHook",
     "NoControllerLossHook", "MISSING_FIELD", "INVALID_TYPE", "INVALID_ARGUMENT"}

\* A condition with the code it stands for, and lists of them.
Check == BOOLEAN \X Code
Checks == Seq(Check)

\* Some check that stands for code fails.
Fails(checks, code) == \E i \in DOMAIN checks : checks[i][1] /\ checks[i][2] = code

\* The least of some numbers is one of them.
LEMMA MinIn ==
    ASSUME NEW s \in SUBSET Nat, s # {}
    PROVE  Min(s) \in s
<1> DEFINE R == {p \in Nat \X Nat : p[1] < p[2]}
<1>1. IsWellFoundedOn(R, Nat)
  BY NatLessThanWellFounded DEF OpToRel
<1> HIDE DEF R
<1>2. PICK x \in s : \A y \in s : ~ (<<y, x>> \in R)
  BY <1>1, WFMin
<1>3. ASSUME NEW y \in s PROVE x =< y
  <2>1. x \in Nat /\ y \in Nat /\ <<y, x>> \notin R
    BY <1>2
  <2>2. y < x => <<y, x>> \in R
    BY <2>1 DEF R
  <2> QED
    BY <2>1, <2>2
<1> QED
  BY <1>3, Zenon DEF Min

\* The status is Ok exactly when nothing fails, and otherwise that of a check
\* that fails.
LEMMA FirstOfDecides ==
    ASSUME NEW checks \in Checks
    PROVE  /\ FirstOf(checks) # "Ok" => Fails(checks, FirstOf(checks))
           /\ FirstOf(checks) = "Ok" => \A code : ~Fails(checks, code)
<1> DEFINE failing == {i \in DOMAIN checks : checks[i][1]}
<1>1. failing \in SUBSET Nat
  BY DEF Checks
<1>2. CASE failing = {}
  <2>1. FirstOf(checks) = "Ok"
    BY <1>2, Zenon DEF FirstOf
  <2> QED
    BY <1>2, <2>1 DEF Fails
<1>3. CASE failing # {}
  <2>1. FirstOf(checks) = checks[Min(failing)][2]
    BY <1>3, Zenon DEF FirstOf
  <2>2. Min(failing) \in failing
    <3> HIDE DEF failing
    <3> QED BY <1>1, <1>3, MinIn
  <2> HIDE DEF failing
  <2>3. PICK m : m = Min(failing)
    OBVIOUS
  <2>4. m \in DOMAIN checks /\ checks[m][1] /\ checks[m][2] = FirstOf(checks)
    BY <2>1, <2>2, <2>3 DEF failing
  <2>5. Fails(checks, FirstOf(checks))
    BY <2>4, Zenon DEF Fails
  <2>6. checks[m] \in Check
    BY <2>4 DEF Checks
  <2>7. checks[m][2] # "Ok"
    BY <2>6 DEF Check, Code
  <2> QED
    BY <2>4, <2>5, <2>7
<1> QED
  BY <1>2, <1>3

\* A list of checks ends in one of its codes or in Ok.
LEMMA FirstOfCode ==
    ASSUME NEW checks \in Checks
    PROVE  FirstOf(checks) \in Code \cup {"Ok"}
<1> SUFFICES ASSUME FirstOf(checks) # "Ok" PROVE FirstOf(checks) \in Code
  OBVIOUS
<1>1. PICK i \in DOMAIN checks : checks[i][2] = FirstOf(checks)
  BY FirstOfDecides, Zenon DEF Fails
<1>2. checks[i] \in Check
  BY DEF Checks
<1> QED
  BY <1>1, <1>2 DEF Check

\* Checks made one list after the other fail where one of the lists does.
LEMMA ChecksConcat ==
    ASSUME NEW a \in Checks, NEW b \in Checks
    PROVE  a \o b \in Checks /\ \A code : Fails(a \o b, code) <=> Fails(a, code) \/ Fails(b, code)
<1> DEFINE C == Check
           n == Len(a)
           m == Len(b)
           s == a \o b
<1>1. a \in Seq(C) /\ b \in Seq(C)
  BY DEF Checks
<1> HIDE DEF C
<1>2. /\ s \in Seq(C) /\ Len(s) = n + m /\ n \in Nat /\ m \in Nat
      /\ DOMAIN a = 1..n /\ DOMAIN b = 1..m /\ DOMAIN s = 1..(n + m)
      /\ \A i \in 1..n : s[i] = a[i]
      /\ \A i \in 1..m : s[n + i] = b[i]
  BY <1>1
<1> HIDE DEF s, n, m
<1>3. ASSUME NEW code, Fails(a, code) PROVE Fails(s, code)
  BY <1>2, <1>3 DEF Fails
<1>4. ASSUME NEW code, Fails(b, code) PROVE Fails(s, code)
  <2>1. PICK i \in 1..m : b[i][1] /\ b[i][2] = code
    BY <1>2, <1>4 DEF Fails
  <2>2. n + i \in 1..(n + m) /\ s[n + i] = b[i]
    BY <1>2
  <2> QED
    BY <1>2, <2>1, <2>2 DEF Fails
<1>5. ASSUME NEW code, Fails(s, code) PROVE Fails(a, code) \/ Fails(b, code)
  <2>1. PICK i \in 1..(n + m) : s[i][1] /\ s[i][2] = code
    BY <1>2, <1>5 DEF Fails
  <2>2. CASE i <= n
    <3>1. i \in 1..n
      BY <1>2, <2>2
    <3> QED BY <1>2, <2>1, <3>1 DEF Fails
  <2>3. CASE i > n
    <3>1. i - n \in 1..m /\ n + (i - n) = i
      BY <1>2, <2>3
    <3>2. s[i] = b[i - n]
      BY <1>2, <3>1
    <3> QED BY <1>2, <2>1, <3>1, <3>2 DEF Fails
  <2> QED
    BY <1>2, <2>2, <2>3
<1>6. s \in Checks
  BY <1>2 DEF Checks, C
<1> QED
  BY <1>3, <1>4, <1>5, <1>6 DEF s

\* Nothing in the list fails.
Passes(checks) == \A code : ~Fails(checks, code)

\* A list made of the lists of several items fails where one of them does.
LEMMA ChecksFlatten ==
    ASSUME NEW ss \in Seq(Checks)
    PROVE  /\ FlattenSeq(ss) \in Checks
           /\ \A code : Fails(FlattenSeq(ss), code) <=> \E i \in 1..Len(ss) : Fails(ss[i], code)
<1> DEFINE T == Check
           n == Len(ss)
           Within(k, q) == /\ q \in Checks
                           /\ \A code : Fails(q, code) <=> \E i \in 1..k : Fails(ss[i], code)
<1>1. PICK g : /\ Trace(g, Len(ss), Seq(T), <<>>, ConcatSteps(T, ss))
               /\ FlattenSeq(ss) = g[Len(ss)]
  <2>1. ss \in Seq(Seq(T))
    BY DEF Checks
  <2> HIDE DEF T
  <2> QED
    BY <2>1, FlattenTrace
<1>2. n \in Nat /\ \A k \in 1..n : ss[k] \in Checks
  OBVIOUS
<1>3. ASSUME NEW k \in 1..n PROVE g[k] = g[k - 1] \o ss[k] /\ g[k - 1] \in Checks
  <2>1. k - 1 \in 0..n
    BY <1>2
  <2>2. g[k] = ConcatSteps(T, ss)[k][g[k - 1]] /\ g[k - 1] \in Seq(T)
    <3> HIDE DEF T
    <3> QED BY <1>1, <2>1 DEF Trace
  <2>3. ConcatSteps(T, ss)[k][g[k - 1]] = g[k - 1] \o ss[k]
    <3> HIDE DEF T
    <3> QED BY <2>2 DEF ConcatSteps
  <2> QED
    BY <2>2, <2>3 DEF Checks
<1> DEFINE S == {k \in Nat : k <= n => Within(k, g[k])}
<1>4. 0 \in S
  <2>1. g[0] = <<>>
    BY <1>1 DEF Trace
  <2>2. <<>> \in Checks
    BY DEF Checks
  <2>3. \A code : ~Fails(<<>>, code)
    BY DEF Fails
  <2>4. 1..0 = {}
    OBVIOUS
  <2> QED
    BY <2>1, <2>2, <2>3, <2>4
<1>5. ASSUME NEW k \in Nat, k \in S PROVE k + 1 \in S
  <2> SUFFICES ASSUME k + 1 <= n PROVE Within(k + 1, g[k + 1])
    OBVIOUS
  <2>1. k + 1 \in 1..n /\ (k + 1) - 1 = k /\ Within(k, g[k])
    BY <1>2, <1>5
  <2>2. g[k + 1] = g[k] \o ss[k + 1] /\ g[k] \in Checks /\ ss[k + 1] \in Checks
    BY <1>2, <1>3, <2>1
  <2>3. /\ g[k + 1] \in Checks
        /\ \A code : Fails(g[k + 1], code) <=> Fails(g[k], code) \/ Fails(ss[k + 1], code)
    BY <2>2, ChecksConcat
  <2>4. \A i : i \in 1..(k + 1) <=> i \in 1..k \/ i = k + 1
    OBVIOUS
  <2> QED
    BY <2>1, <2>3, <2>4
<1> HIDE DEF S
<1>6. Nat \subseteq S
  BY <1>4, <1>5, SetInduction
<1>7. Within(n, g[n])
  <2> HIDE DEF Within
  <2> QED BY <1>2, <1>6 DEF S
<1> QED
  BY <1>1, <1>7

\* A single check.
Hits(check, code) == check[1] /\ check[2] = code

\* A condition with its code is a check, and stands for that code alone.
LEMMA OneCheck ==
    ASSUME NEW p \in BOOLEAN, NEW d \in Code
    PROVE  <<p, d>> \in Check /\ \A code : Hits(<<p, d>>, code) <=> p /\ code = d
<1>1. <<p, d>>[1] = p /\ <<p, d>>[2] = d
  OBVIOUS
<1>2. <<p, d>> \in Check
  BY DEF Check
<1> QED
  BY <1>1, <1>2, Zenon DEF Hits

\* A list of one check fails as the check does.
LEMMA ListOfOne ==
    ASSUME NEW a \in Check
    PROVE  /\ <<a>> \in Checks
           /\ \A code : Fails(<<a>>, code) <=> Hits(a, code)
<1> DEFINE list == <<a>>
<1>1. /\ list \in Checks /\ DOMAIN list = {1}
      /\ list[1] = a
  BY DEF Checks
<1> HIDE DEF list
<1>2. \A code : Fails(list, code) <=> Hits(a, code)
  BY <1>1, Zenon DEF Fails, Hits
<1> QED
  BY <1>1, <1>2 DEF list

\* A list of two checks fails as one of them does.
LEMMA TwoChecks ==
    ASSUME NEW a \in Check, NEW b \in Check
    PROVE  /\ <<a, b>> \in Checks
           /\ \A code : Fails(<<a, b>>, code) <=> Hits(a, code) \/ Hits(b, code)
<1> DEFINE list == <<a, b>>
<1>1. /\ list \in Checks /\ DOMAIN list = {1, 2}
      /\ list[1] = a /\ list[2] = b
  BY DEF Checks
<1> HIDE DEF list
<1>2. \A code : Fails(list, code) <=> Hits(a, code) \/ Hits(b, code)
  BY <1>1, Zenon DEF Fails, Hits
<1> QED
  BY <1>1, <1>2 DEF list

\* The same of three.
LEMMA ThreeChecks ==
    ASSUME NEW a \in Check, NEW b \in Check, NEW c \in Check
    PROVE  /\ <<a, b, c>> \in Checks
           /\ \A code : Fails(<<a, b, c>>, code) <=> Hits(a, code) \/ Hits(b, code) \/ Hits(c, code)
<1> DEFINE list == <<a, b, c>>
<1>1. /\ list \in Checks /\ DOMAIN list = {1, 2, 3}
      /\ list[1] = a /\ list[2] = b /\ list[3] = c
  BY DEF Checks
<1> HIDE DEF list
<1>2. \A code : Fails(list, code) <=> Hits(a, code) \/ Hits(b, code) \/ Hits(c, code)
  BY <1>1, Zenon DEF Fails, Hits
<1> QED
  BY <1>1, <1>2 DEF list

\* The same of four.
LEMMA FourChecks ==
    ASSUME NEW a \in Check, NEW b \in Check, NEW c \in Check, NEW d \in Check
    PROVE  /\ <<a, b, c, d>> \in Checks
           /\ \A code : Fails(<<a, b, c, d>>, code) <=>
                \/ Hits(a, code) \/ Hits(b, code) \/ Hits(c, code) \/ Hits(d, code)
<1> DEFINE list == <<a, b, c, d>>
<1>1. /\ list \in Checks /\ DOMAIN list = {1, 2, 3, 4}
      /\ list[1] = a /\ list[2] = b /\ list[3] = c /\ list[4] = d
  BY DEF Checks
<1> HIDE DEF list
<1>2. \A code : Fails(list, code) <=>
         \/ Hits(a, code) \/ Hits(b, code) \/ Hits(c, code) \/ Hits(d, code)
  BY <1>1, Zenon DEF Fails, Hits
<1> QED
  BY <1>1, <1>2 DEF list

\* The same of five.
LEMMA FiveChecks ==
    ASSUME NEW a \in Check, NEW b \in Check, NEW c \in Check, NEW d \in Check, NEW e \in Check
    PROVE  /\ <<a, b, c, d, e>> \in Checks
           /\ \A code : Fails(<<a, b, c, d, e>>, code) <=>
                \/ Hits(a, code) \/ Hits(b, code) \/ Hits(c, code) \/ Hits(d, code) \/ Hits(e, code)
<1> DEFINE list == <<a, b, c, d, e>>
<1>1. /\ list \in Checks /\ DOMAIN list = {1, 2, 3, 4, 5}
      /\ list[1] = a /\ list[2] = b /\ list[3] = c /\ list[4] = d /\ list[5] = e
  BY DEF Checks
<1> HIDE DEF list
<1>2. \A code : Fails(list, code) <=>
         \/ Hits(a, code) \/ Hits(b, code) \/ Hits(c, code) \/ Hits(d, code) \/ Hits(e, code)
  BY <1>1, Zenon DEF Fails, Hits
<1> QED
  BY <1>1, <1>2 DEF list

-----------------------------------------------------------------------------
(* The registry. *)

\* A name that passes copyRequired is there.
LEMMA NameChecksPass ==
    ASSUME NEW name, NEW code \in Code
    PROVE  /\ NameChecks(name, code) \in Checks
           /\ Passes(NameChecks(name, code)) => name \notin {Null, EmptyText}
<1> DEFINE a == <<copyRequired(name) = "Missing", code>>
           b == <<copyRequired(name) = "TooLong", "CapacityExceeded">>
<1>1. NameChecks(name, code) = <<a, b>>
  BY DEF NameChecks
<1>2. "CapacityExceeded" \in Code
  BY DEF Code
<1>3. /\ a \in Check /\ \A c : Hits(a, c) <=> copyRequired(name) = "Missing" /\ c = code
      /\ b \in Check
  BY <1>2, OneCheck, Zenon
<1> HIDE DEF a, b
<1>4. <<a, b>> \in Checks /\ \A c : Fails(<<a, b>>, c) <=> Hits(a, c) \/ Hits(b, c)
  BY <1>3, TwoChecks
<1>5. name \in {Null, EmptyText} => copyRequired(name) = "Missing"
  BY DEF copyRequired
<1> QED
  BY <1>1, <1>3, <1>4, <1>5 DEF Passes

\* Two lists of checks pass when both do.
LEMMA ConcatPasses ==
    ASSUME NEW a \in Checks, NEW b \in Checks
    PROVE  a \o b \in Checks /\ (Passes(a \o b) <=> Passes(a) /\ Passes(b))
  BY ChecksConcat, Zenon DEF Passes

\* A single condition passes when it is false.
LEMMA ConditionPasses ==
    ASSUME NEW p \in BOOLEAN, NEW d \in Code
    PROVE  <<<<p, d>>>> \in Checks /\ (Passes(<<<<p, d>>>>) <=> ~p)
<1> DEFINE a == <<p, d>>
<1>1. a \in Check /\ \A c : Hits(a, c) <=> p /\ c = d
  BY OneCheck, Zenon
<1> HIDE DEF a
<1>2. <<a>> \in Checks /\ \A c : Fails(<<a>>, c) <=> Hits(a, c)
  BY <1>1, ListOfOne
<1>3. <<a>> \in Checks /\ (Passes(<<a>>) <=> ~p)
  BY <1>1, <1>2, Zenon DEF Passes
<1> QED
  BY <1>3 DEF a

\* An argument that is accepted has a known type and a name of its own.
LEMMA ArgumentAccepted ==
    ASSUME NEW args, NEW i \in Nat
    PROVE  /\ ArgumentChecks(args, i) \in Checks
           /\ Passes(ArgumentChecks(args, i)) =>
                 /\ args[i].type \in ValueType /\ args[i].name \notin {Null, EmptyText}
                 /\ \A j \in 1..(i - 1) : args[j].name # args[i].name
<1> DEFINE p == args[i].type \notin ValueType
           q == \E j \in 1..(i - 1) : args[j].name = args[i].name
           a == <<<<p, "InvalidArgumentSchema">>>>
           n == NameChecks(args[i].name, "InvalidArgumentSchema")
           b == <<<<q, "DuplicateRegistration">>>>
<1>0. "InvalidArgumentSchema" \in Code /\ "DuplicateRegistration" \in Code
  BY DEF Code
<1>1. a \in Checks /\ (Passes(a) <=> ~p)
  BY <1>0, ConditionPasses, Zenon
<1>2. b \in Checks /\ (Passes(b) <=> ~q)
  BY <1>0, ConditionPasses, Zenon
<1>3. n \in Checks /\ (Passes(n) => args[i].name \notin {Null, EmptyText})
  BY <1>0, NameChecksPass
<1>4. ArgumentChecks(args, i) = (a \o n) \o b
  BY Zenon DEF ArgumentChecks
<1> HIDE DEF a, n, b
<1>5. a \o n \in Checks /\ (Passes(a \o n) <=> Passes(a) /\ Passes(n))
  BY <1>1, <1>3, ConcatPasses
<1>6. /\ (a \o n) \o b \in Checks
      /\ Passes((a \o n) \o b) <=> Passes(a \o n) /\ Passes(b)
  BY <1>2, <1>5, ConcatPasses
<1> QED
  BY <1>1, <1>2, <1>3, <1>4, <1>5, <1>6, Zenon

\* The commands the application and the library can offer.
Offered == CommandSpecs \cup {CountersCommand}

StoredCommand(spec) ==
    [name |-> spec.name, args |-> spec.args, blocked_by_estop |-> spec.blocked_by_estop,
     handler |-> spec.handler]

\* Arguments or fields as they are announced: known types, each name once.
WellTyped(list) ==
    /\ UniqueNames(list)
    /\ \A i \in DOMAIN list : list[i].type \in ValueType

\* The arguments of every command that can be offered are a list.
LEMMA OfferedLists ==
    ASSUME NEW spec \in Offered
    PROVE  spec.args \in Seq(Range(spec.args))
<1>1. CASE spec \in CommandSpecs
  BY <1>1, ListAssumption DEF IsList
<1>2. CASE spec = CountersCommand
  <2>1. spec.args = <<>>
    BY <1>2 DEF CountersCommand
  <2> QED
    BY <2>1
<1> QED
  BY <1>1, <1>2 DEF Offered

\* A command is accepted only into an open registry with room for it, under a
\* new name, with well-typed arguments.
LEMMA CommandAccepted ==
    ASSUME NEW spec \in Offered, FirstOf(CommandChecks(spec)) = "Ok"
    PROVE  /\ ~sealed /\ ~(Len(commands) >= MaxCommands)
           /\ spec.name \notin {Null, EmptyText} /\ findCommand(spec.name) = {}
           /\ WellTyped(spec.args)
<1> DEFINE args == spec.args
           m == Len(args)
           a1 == <<sealed, "RegistrationSealed">>
           a2 == <<spec.handler = Null, "InvalidConfiguration">>
           a3 == <<Len(spec.args) > MaxArgs, "CapacityExceeded">>
           a4 == <<Len(spec.args) > 0 /\ spec.args_null, "InvalidArgumentSchema">>
           a5 == <<Len(commands) >= MaxCommands, "CapacityExceeded">>
           a == <<a1, a2, a3, a4, a5>>
           n == NameChecks(spec.name, "InvalidName")
           d == <<<<findCommand(spec.name) # {}, "DuplicateRegistration">>>>
           ss == [i \in 1..m |-> ArgumentChecks(args, i)]
           f == FlattenSeq(ss)
<1>1. args \in Seq(Range(args)) /\ m \in Nat /\ DOMAIN args = 1..m
  BY OfferedLists
<1>2. CommandChecks(spec) = ((a \o n) \o d) \o f
  BY Zenon DEF CommandChecks
<1>3. /\ "RegistrationSealed" \in Code /\ "InvalidConfiguration" \in Code
      /\ "CapacityExceeded" \in Code /\ "InvalidArgumentSchema" \in Code
      /\ "DuplicateRegistration" \in Code /\ "InvalidName" \in Code
  BY DEF Code
<1>4. /\ a1 \in Check /\ \A c : Hits(a1, c) <=> sealed /\ c = "RegistrationSealed"
      /\ a2 \in Check
  <2>1. sealed \in BOOLEAN /\ (spec.handler = Null) \in BOOLEAN
    BY DEF sealed
  <2> QED
    BY <1>3, <2>1, OneCheck, Zenon
<1>5. /\ a3 \in Check /\ a4 \in Check /\ a5 \in Check
      /\ \A c : Hits(a5, c) <=> Len(commands) >= MaxCommands /\ c = "CapacityExceeded"
  <2>1. /\ (Len(spec.args) > MaxArgs) \in BOOLEAN
        /\ (Len(commands) >= MaxCommands) \in BOOLEAN
        /\ (Len(spec.args) > 0 /\ spec.args_null) \in BOOLEAN
    OBVIOUS
  <2> QED
    BY <1>3, <2>1, OneCheck, Zenon
<1> HIDE DEF a1, a2, a3, a4, a5
<1>6. a \in Checks /\ \A c : Hits(a1, c) \/ Hits(a5, c) => Fails(a, c)
  BY <1>4, <1>5, FiveChecks
<1>7. n \in Checks /\ (Passes(n) => spec.name \notin {Null, EmptyText})
  BY <1>3, NameChecksPass
<1>8. d \in Checks /\ (Passes(d) <=> findCommand(spec.name) = {})
  BY <1>3, ConditionPasses, Zenon
<1>9. ss \in Seq(Checks) /\ Len(ss) = m /\ \A i \in 1..m : ss[i] = ArgumentChecks(args, i)
  <2>1. ASSUME NEW i \in 1..m PROVE ArgumentChecks(args, i) \in Checks
    <3>1. i \in Nat
      BY <1>1
    <3> QED
      BY <3>1, ArgumentAccepted
  <2> HIDE DEF args, m
  <2> QED
    BY <1>1, <2>1
<1>10. f \in Checks /\ (Passes(f) => \A i \in 1..m : Passes(ArgumentChecks(args, i)))
  <2> HIDE DEF ss, args, m
  <2> QED
    BY <1>9, ChecksFlatten DEF Passes
<1> HIDE DEF a, n, d, f, ss
<1>11. a \o n \in Checks /\ (Passes(a \o n) => Passes(a) /\ Passes(n))
  BY <1>6, <1>7, ConcatPasses
<1>12. (a \o n) \o d \in Checks /\ (Passes((a \o n) \o d) => Passes(a \o n) /\ Passes(d))
  BY <1>8, <1>11, ConcatPasses
<1>13. /\ CommandChecks(spec) \in Checks
       /\ Passes(CommandChecks(spec)) => Passes((a \o n) \o d) /\ Passes(f)
  BY <1>2, <1>10, <1>12, ConcatPasses
<1>14. Passes(CommandChecks(spec))
  BY <1>13, FirstOfDecides DEF Passes
<1>15. Passes(a) /\ Passes(n) /\ Passes(d) /\ Passes(f)
  BY <1>11, <1>12, <1>13, <1>14
<1>16. ~sealed /\ ~(Len(commands) >= MaxCommands)
  BY <1>4, <1>5, <1>6, <1>15, Zenon DEF Passes
<1>17. ASSUME NEW i \in 1..m
       PROVE  /\ args[i].type \in ValueType /\ args[i].name \notin {Null, EmptyText}
              /\ \A j \in 1..(i - 1) : args[j].name # args[i].name
  <2>1. Passes(ArgumentChecks(args, i)) /\ i \in Nat
    BY <1>1, <1>10, <1>15
  <2> QED
    BY <2>1, ArgumentAccepted
<1>18. ASSUME NEW i \in 1..m, NEW j \in 1..m, args[i].name = args[j].name PROVE i = j
  <2>1. CASE i < j
    <3>1. i \in 1..(j - 1)
      BY <1>1, <2>1
    <3> QED BY <1>17, <1>18, <3>1
  <2>2. CASE j < i
    <3>1. j \in 1..(i - 1)
      BY <1>1, <2>2
    <3> QED BY <1>17, <1>18, <3>1
  <2> QED
    BY <1>1, <2>1, <2>2
<1>19. WellTyped(args)
  BY <1>1, <1>17, <1>18, Zenon DEF WellTyped, UniqueNames
<1> QED
  BY <1>7, <1>8, <1>15, <1>16, <1>19

-----------------------------------------------------------------------------
\* The registry holds well-typed commands and fields within its capacities.
FieldsOK(fields, F) == fields \in Seq(F) /\ Len(fields) <= MaxFields /\ WellTyped(fields)

CommandsOK ==
    /\ commands \in Seq({StoredCommand(spec) : spec \in Offered})
    /\ Len(commands) <= MaxCommands
    /\ UniqueNames(commands)
    /\ \A i \in DOMAIN commands : WellTyped(commands[i].args)

\* The items of a list and the one appended to it.
LEMMA AppendItems ==
    ASSUME NEW T, NEW list \in Seq(T), NEW x \in T
    PROVE  LET q == Append(list, x)
               n == Len(list)
           IN  /\ q \in Seq(T) /\ n \in Nat /\ Len(q) = n + 1
               /\ DOMAIN list = 1..n /\ DOMAIN q = 1..(n + 1)
               /\ (\A i \in 1..n : q[i] = list[i]) /\ q[n + 1] = x
               /\ \A i \in 1..(n + 1) : i \in 1..n \/ i = n + 1
  OBVIOUS

\* Appending an item with a new name keeps names unique.
LEMMA UniqueAppend ==
    ASSUME NEW T, NEW list \in Seq(T), NEW x \in T, UniqueNames(list),
           x.name \notin {Null, EmptyText},
           \A i \in DOMAIN list : list[i].name # x.name
    PROVE  UniqueNames(Append(list, x))
<1> DEFINE q == Append(list, x)
           n == Len(list)
<1>1. /\ q \in Seq(T) /\ n \in Nat /\ Len(q) = n + 1
      /\ DOMAIN list = 1..n /\ DOMAIN q = 1..(n + 1)
      /\ (\A i \in 1..n : q[i] = list[i]) /\ q[n + 1] = x
      /\ \A i \in 1..(n + 1) : i \in 1..n \/ i = n + 1
  BY AppendItems, Zenon
<1>2. \A i \in 1..(n + 1) : i \in 1..n \/ i = n + 1
  BY <1>1
<1> HIDE DEF q, n
<1>3. ASSUME NEW i \in 1..(n + 1) PROVE q[i].name \notin {Null, EmptyText}
  BY <1>1, <1>2 DEF UniqueNames
<1>4. ASSUME NEW i \in 1..(n + 1), NEW j \in 1..(n + 1), q[i].name = q[j].name PROVE i = j
  BY <1>1, <1>2, <1>4 DEF UniqueNames
<1>5. UniqueNames(q)
  BY <1>1, <1>3, <1>4, Zenon DEF UniqueNames
<1> QED
  BY <1>5 DEF q

\* registerCommand keeps the commands sound, and leaves a sealed registry alone.
LEMMA RegisterCommandOK ==
    ASSUME NEW spec \in Offered, CommandsOK, registerCommand(spec)
    PROVE  CommandsOK' /\ (sealed => UNCHANGED commands)
<1> DEFINE T == {StoredCommand(s) : s \in Offered}
           x == StoredCommand(spec)
<1>1. CASE status' = "Ok"
  <2>1. FirstOf(CommandChecks(spec)) = "Ok" /\ commands' = Append(commands, x)
    BY <1>1 DEF registerCommand, StoredCommand
  <2>2. /\ ~sealed /\ ~(Len(commands) >= MaxCommands)
        /\ spec.name \notin {Null, EmptyText} /\ findCommand(spec.name) = {}
        /\ WellTyped(spec.args)
    BY <2>1, CommandAccepted
  <2>3. x \in T /\ x.name = spec.name /\ x.args = spec.args
    BY DEF StoredCommand
  <2> HIDE DEF T, x
  <2>4. commands \in Seq(T)
    BY DEF CommandsOK, T
  <2>5. /\ Append(commands, x) \in Seq(T) /\ Len(commands) \in Nat
        /\ Len(Append(commands, x)) = Len(commands) + 1
        /\ DOMAIN commands = 1..Len(commands)
        /\ DOMAIN Append(commands, x) = 1..(Len(commands) + 1)
        /\ \A i \in 1..Len(commands) : Append(commands, x)[i] = commands[i]
        /\ Append(commands, x)[Len(commands) + 1] = x
    BY <2>3, <2>4
  <2>6. Len(commands) + 1 <= MaxCommands
    <3>1. Len(commands) \in Nat /\ ~(Len(commands) >= MaxCommands) /\ MaxCommands \in Nat
      BY <2>2, <2>5, LimitAssumption
    <3> QED
      BY <3>1
  <2>7. \A i \in DOMAIN commands : commands[i].name # x.name
    BY <2>2, <2>3, <2>5 DEF findCommand
  <2>8. UniqueNames(Append(commands, x))
    BY <2>2, <2>3, <2>4, <2>7, UniqueAppend DEF CommandsOK
  <2>9. ASSUME NEW i \in 1..(Len(commands) + 1) PROVE WellTyped(Append(commands, x)[i].args)
    <3>1. i \in 1..Len(commands) \/ i = Len(commands) + 1
      BY <2>5
    <3> QED
      BY <2>2, <2>3, <2>5, <3>1 DEF CommandsOK
  <2>10. PICK c : c = Append(commands, x) /\ c = commands'
    BY <2>1
  <2> QED
    BY <2>1, <2>2, <2>5, <2>6, <2>8, <2>9, <2>10 DEF CommandsOK, T, UniqueNames, WellTyped
<1>2. CASE status' # "Ok"
  <2>1. commands' = commands
    BY <1>2 DEF registerCommand
  <2> QED
    BY <2>1 DEF CommandsOK, UniqueNames, WellTyped
<1> QED
  BY <1>1, <1>2

-----------------------------------------------------------------------------
(* Fields are registered one by one. *)

\* A field is accepted only into an open registry with room for it, under a new
\* name and with a known type.
LEMMA FieldAccepted ==
    ASSUME NEW fields, NEW field
    PROVE  /\ FieldChecks(fields, field) \in Checks
           /\ FirstOf(FieldChecks(fields, field)) = "Ok" =>
                 /\ ~sealed /\ ~(Len(fields) >= MaxFields) /\ field.type \in ValueType
                 /\ field.name \notin {Null, EmptyText}
                 /\ \A i \in DOMAIN fields : fields[i].name # field.name
<1> DEFINE p == \E i \in DOMAIN fields : fields[i].name = field.name
           a1 == <<sealed, "RegistrationSealed">>
           a2 == <<Len(fields) >= MaxFields, "CapacityExceeded">>
           a3 == <<field.type \notin ValueType, "InvalidArgumentSchema">>
           a == <<a1, a2, a3>>
           n == NameChecks(field.name, "InvalidName")
           d == <<<<p, "DuplicateRegistration">>>>
<1>1. FieldChecks(fields, field) = (a \o n) \o d
  BY Zenon DEF FieldChecks
<1>2. /\ "RegistrationSealed" \in Code /\ "CapacityExceeded" \in Code
      /\ "InvalidArgumentSchema" \in Code /\ "DuplicateRegistration" \in Code
      /\ "InvalidName" \in Code
  BY DEF Code
<1>3. /\ a1 \in Check /\ \A c : Hits(a1, c) <=> sealed /\ c = "RegistrationSealed"
      /\ a2 \in Check
      /\ \A c : Hits(a2, c) <=> Len(fields) >= MaxFields /\ c = "CapacityExceeded"
      /\ a3 \in Check
      /\ \A c : Hits(a3, c) <=> field.type \notin ValueType /\ c = "InvalidArgumentSchema"
  <2>1. /\ sealed \in BOOLEAN /\ (Len(fields) >= MaxFields) \in BOOLEAN
        /\ (field.type \notin ValueType) \in BOOLEAN
    BY DEF sealed
  <2> QED
    BY <1>2, <2>1, OneCheck, Zenon
<1> HIDE DEF a1, a2, a3
<1>4. a \in Checks /\ \A c : Hits(a1, c) \/ Hits(a2, c) \/ Hits(a3, c) => Fails(a, c)
  BY <1>3, ThreeChecks
<1>5. n \in Checks /\ (Passes(n) => field.name \notin {Null, EmptyText})
  BY <1>2, NameChecksPass
<1>6. d \in Checks /\ (Passes(d) <=> ~p)
  BY <1>2, ConditionPasses, Zenon
<1> HIDE DEF a, n, d
<1>7. a \o n \in Checks /\ (Passes(a \o n) => Passes(a) /\ Passes(n))
  BY <1>4, <1>5, ConcatPasses
<1>8. /\ FieldChecks(fields, field) \in Checks
      /\ Passes(FieldChecks(fields, field)) => Passes(a \o n) /\ Passes(d)
  BY <1>1, <1>6, <1>7, ConcatPasses
<1> SUFFICES ASSUME FirstOf(FieldChecks(fields, field)) = "Ok"
             PROVE  /\ ~sealed /\ ~(Len(fields) >= MaxFields) /\ field.type \in ValueType
                    /\ field.name \notin {Null, EmptyText}
                    /\ \A i \in DOMAIN fields : fields[i].name # field.name
  BY <1>8
<1>9. Passes(FieldChecks(fields, field))
  BY <1>8, FirstOfDecides DEF Passes
<1>10. Passes(a) /\ Passes(n) /\ Passes(d)
  BY <1>7, <1>8, <1>9
<1>11. ~sealed /\ ~(Len(fields) >= MaxFields) /\ field.type \in ValueType
  BY <1>3, <1>4, <1>10, Zenon DEF Passes
<1> QED
  BY <1>5, <1>6, <1>10, <1>11, Zenon

RegisterOne(r, field) ==
    LET code == FirstOf(FieldChecks(r.fields, field))
    IN  IF r.status # "Ok" THEN r
        ELSE IF code # "Ok" THEN [r EXCEPT !.status = code]
        ELSE [r EXCEPT !.fields = Append(@, field)]

\* The fields registered so far, and whether one of them was refused.
Registering(F) == [status : Code \cup {"Ok"}, fields : Seq(F)]

RegisterSteps(F, specs) ==
    [k \in 1..Len(specs) |-> [r \in Registering(F) |-> RegisterOne(r, specs[k])]]

\* One field more: the list stays well-typed, and a sealed one as it is.
LEMMA RegisterOneOK ==
    ASSUME NEW F, NEW r \in Registering(F), NEW field \in F
    PROVE  /\ RegisterOne(r, field) \in Registering(F)
           /\ FieldsOK(r.fields, F) => FieldsOK(RegisterOne(r, field).fields, F)
           /\ sealed => RegisterOne(r, field).fields = r.fields
<1> DEFINE code == FirstOf(FieldChecks(r.fields, field))
           q == Append(r.fields, field)
<1>1. r.fields \in Seq(F) /\ r.status \in Code \cup {"Ok"}
  BY DEF Registering
<1>2. CASE r.status # "Ok"
  BY <1>2 DEF RegisterOne
<1>3. CASE r.status = "Ok" /\ code # "Ok"
  <2>1. RegisterOne(r, field) = [r EXCEPT !.status = code]
    BY <1>3 DEF RegisterOne
  <2>2. code \in Code
    BY <1>3, FieldAccepted, FirstOfCode
  <2> QED
    BY <2>1, <2>2 DEF Registering
<1>4. CASE r.status = "Ok" /\ code = "Ok"
  <2>1. RegisterOne(r, field) = [r EXCEPT !.fields = Append(@, field)]
    BY <1>4 DEF RegisterOne
  <2>2. RegisterOne(r, field) = [r EXCEPT !.fields = q]
    BY <2>1
  <2>3. /\ ~sealed /\ ~(Len(r.fields) >= MaxFields) /\ field.type \in ValueType
        /\ field.name \notin {Null, EmptyText}
        /\ \A i \in DOMAIN r.fields : r.fields[i].name # field.name
    BY <1>4, FieldAccepted
  <2>4. /\ q \in Seq(F) /\ Len(r.fields) \in Nat /\ Len(q) = Len(r.fields) + 1
        /\ DOMAIN r.fields = 1..Len(r.fields) /\ DOMAIN q = 1..(Len(r.fields) + 1)
        /\ (\A i \in 1..Len(r.fields) : q[i] = r.fields[i]) /\ q[Len(r.fields) + 1] = field
        /\ \A i \in 1..(Len(r.fields) + 1) : i \in 1..Len(r.fields) \/ i = Len(r.fields) + 1
    BY <1>1, AppendItems, Zenon
  <2> HIDE DEF q
  <2>5. RegisterOne(r, field) \in Registering(F) /\ RegisterOne(r, field).fields = q
    BY <2>2, <2>4 DEF Registering
  <2>6. Len(q) <= MaxFields
    <3>1. Len(r.fields) \in Nat /\ ~(Len(r.fields) >= MaxFields) /\ MaxFields \in Nat
      BY <2>3, <2>4, LimitAssumption
    <3> QED
      BY <2>4, <3>1
  <2>7. ASSUME WellTyped(r.fields) PROVE WellTyped(q)
    <3>1. UniqueNames(q)
      <4>1. UniqueNames(r.fields)
        BY <2>7 DEF WellTyped
      <4> QED
        BY <1>1, <2>3, <4>1, UniqueAppend DEF q
    <3>2. \A i \in DOMAIN q : q[i].type \in ValueType
      BY <2>3, <2>4, <2>7 DEF WellTyped
    <3> QED
      BY <3>1, <3>2 DEF WellTyped
  <2> QED
    BY <2>3, <2>4, <2>5, <2>6, <2>7 DEF FieldsOK
<1> QED
  BY <1>2, <1>3, <1>4

\* RegisterFields is the last value of a loop over the fields.
LEMMA RegisterTrace ==
    ASSUME NEW F, NEW q \in Seq(F), NEW fields \in Seq(F)
    PROVE  \E g : /\ Trace(g, Len(q), Registering(F), [status |-> "Ok", fields |-> fields],
                           RegisterSteps(F, q))
                  /\ RegisterFields(fields, q) = g[Len(q)]
<1> DEFINE n == Len(q)
           base == [status |-> "Ok", fields |-> fields]
           P(h) == h = [s \in SUBSET (DOMAIN q) |->
                          IF s = {} THEN base ELSE RegisterOne(h[s \ {Max(s)}], q[Max(s)])]
           c == CHOOSE h : P(h)
           step == RegisterSteps(F, q)
           V == Registering(F)
<1>1. n \in Nat /\ DOMAIN q = 1..n /\ (\A k \in 1..n : q[k] \in F) /\ base \in V
  BY DEF Registering
<1>2. RegisterFields(fields, q) = c[DOMAIN q]
  BY Zenon DEF RegisterFields, FoldLeft, MapThenFoldSet, RegisterOne
<1>3. step \in [1..n -> [V -> V]] /\ \A k \in 1..n, v \in V : step[k][v] = RegisterOne(v, q[k])
  <2>1. ASSUME NEW k \in 1..n, NEW v \in V PROVE RegisterOne(v, q[k]) \in V
    BY <1>1, RegisterOneOK
  <2> HIDE DEF V
  <2> QED
    BY <1>1, <2>1 DEF RegisterSteps, V
<1> HIDE DEF n, step, V, base
<1>4. \A s \in SUBSET (1..n) : s # {} => Max(s) \in 1..n
  BY <1>1, MaxIn
<1>5. \E h : P(h)
  <2>1. PICK h \in [SUBSET (1..n) -> V] : FoldsOver(h, n, base, step)
    BY <1>1, <1>3, FoldExists
  <2>2. \A s \in SUBSET (1..n) : h[s \ {Max(s)}] \in V
    OBVIOUS
  <2>3. P(h)
    BY <1>1, <1>3, <1>4, <2>1, <2>2 DEF FoldsOver
  <2> QED
    BY <2>3
<1>6. P(c)
  <2> HIDE DEF P
  <2> QED
    BY <1>5
<1> HIDE DEF c
<1>7. FoldsWithin(c, n, V, base, step)
  BY <1>1, <1>3, <1>4, <1>6 DEF FoldsWithin
<1>8. n \in Nat /\ base \in V /\ step \in [1..n -> [V -> V]]
  BY <1>1, <1>3
<1>9. Trace(LoopValues(c, n), n, V, base, step)
  <2> HIDE DEF P
  <2> QED
    BY <1>7, <1>8, FoldTrace
<1>10. LoopValues(c, n)[n] = c[1..n]
  <2>1. n \in 0..n
    BY <1>8
  <2> QED
    BY <2>1 DEF LoopValues
<1> QED
  BY <1>1, <1>2, <1>9, <1>10 DEF n, step, V, base

\* Whatever list is registered, with whatever result, the fields stay well-typed,
\* and those of a sealed registry as they are.
LEMMA RegisterFieldsOK ==
    ASSUME NEW F, NEW q \in Seq(F), NEW fields, FieldsOK(fields, F)
    PROVE  /\ FieldsOK(RegisterFields(fields, q).fields, F)
           /\ sealed => RegisterFields(fields, q).fields = fields
<1> DEFINE n == Len(q)
           base == [status |-> "Ok", fields |-> fields]
           V == Registering(F)
<1>1. fields \in Seq(F)
  BY DEF FieldsOK
<1>2. PICK g : /\ Trace(g, n, V, base, RegisterSteps(F, q))
               /\ RegisterFields(fields, q) = g[n]
  BY <1>1, RegisterTrace
<1>3. n \in Nat /\ base.fields = fields /\ \A k \in 1..n : q[k] \in F
  OBVIOUS
<1> DEFINE Good(r) == FieldsOK(r.fields, F) /\ (sealed => r.fields = fields)
           S == {k \in Nat : k <= n => Good(g[k])}
<1> HIDE DEF V
<1>4. g[0] = base /\ \A k \in 0..n : g[k] \in V
  BY <1>2 DEF Trace
<1>5. ASSUME NEW k \in 1..n PROVE g[k] = RegisterOne(g[k - 1], q[k]) /\ g[k - 1] \in V
  <2>1. k - 1 \in 0..n
    BY <1>3
  <2>2. g[k] = RegisterSteps(F, q)[k][g[k - 1]] /\ g[k - 1] \in V
    BY <1>2, <1>4, <2>1 DEF Trace
  <2> QED
    BY <2>2 DEF RegisterSteps, V
<1>6. 0 \in S
  BY <1>3, <1>4
<1>7. ASSUME NEW k \in Nat, k \in S PROVE k + 1 \in S
  <2> SUFFICES ASSUME k + 1 <= n PROVE Good(g[k + 1])
    OBVIOUS
  <2>1. k + 1 \in 1..n /\ (k + 1) - 1 = k /\ Good(g[k])
    BY <1>3, <1>7
  <2>2. g[k + 1] = RegisterOne(g[k], q[k + 1]) /\ g[k] \in V /\ q[k + 1] \in F
    BY <1>3, <1>5, <2>1
  <2>3. /\ FieldsOK(g[k].fields, F) => FieldsOK(g[k + 1].fields, F)
        /\ sealed => g[k + 1].fields = g[k].fields
    BY <2>2, RegisterOneOK DEF V
  <2> QED
    BY <2>1, <2>3
<1> HIDE DEF S
<1>8. Nat \subseteq S
  BY <1>6, <1>7, SetInduction
<1>9. Good(g[n])
  <2> HIDE DEF Good
  <2> QED
    BY <1>3, <1>8 DEF S
<1> QED
  BY <1>2, <1>9

-----------------------------------------------------------------------------
(* The registry as the server's operations leave it. *)

\* The fields the application can offer.
Fields == UNION {Range(list) : list \in (TelemetryLists \cup StateLists) \ {Null}}

\* The registry holds what it may, and is sealed exactly when the server has
\* started.
RegistryOK ==
    /\ lifecycle \in {"Mutable", "Sealed"}
    /\ started \in BOOLEAN /\ (started <=> sealed)
    /\ CommandsOK
    /\ FieldsOK(telemetry_fields, Fields) /\ FieldsOK(state_fields, Fields)
    /\ identity_set \in BOOLEAN /\ network_config_set \in BOOLEAN

\* What a session was told of and the dispatcher works from.
Published == <<lifecycle, identity, commands, telemetry_fields, state_fields>>

\* An empty registry is sound.
LEMMA RegistryOKInit ==
    ASSUME Init
    PROVE  RegistryOK
<1>1. /\ lifecycle = "Mutable" /\ identity_set = FALSE
      /\ commands = <<>> /\ telemetry_fields = <<>> /\ state_fields = <<>>
      /\ network_config_set = FALSE /\ started = FALSE
  BY DEF Init, RegistryInit
<1>2. CommandsOK
  <2>1. 0 <= MaxCommands
    BY LimitAssumption
  <2> QED
    BY <1>1, <2>1 DEF CommandsOK, UniqueNames
<1>3. FieldsOK(<<>>, Fields)
  <2>1. 0 <= MaxFields
    BY LimitAssumption
  <2> QED
    BY <2>1 DEF FieldsOK, WellTyped, UniqueNames
<1> QED
  BY <1>1, <1>2, <1>3 DEF RegistryOK, sealed

\* The registry depends on these variables only.
LEMMA RegistryOKFrame ==
    ASSUME RegistryOK,
           UNCHANGED <<lifecycle, started, commands, telemetry_fields, state_fields>>,
           identity_set' \in BOOLEAN, network_config_set' \in BOOLEAN
    PROVE  RegistryOK'
<1>1. CommandsOK'
  BY DEF RegistryOK, CommandsOK, UniqueNames, WellTyped
<1>2. FieldsOK(telemetry_fields, Fields)' /\ FieldsOK(state_fields, Fields)'
  BY DEF RegistryOK, FieldsOK, UniqueNames, WellTyped
<1> QED
  BY <1>1, <1>2 DEF RegistryOK, sealed

\* A list of the application, or none: the fields stay well-typed, and those of
\* a sealed registry as they are.
LEMMA RegisterSchemaOK ==
    ASSUME NEW list \in TelemetryLists \cup StateLists, NEW fields, FieldsOK(fields, Fields)
    PROVE  /\ FieldsOK(RegisterSchema(fields, list).fields, Fields)
           /\ sealed => RegisterSchema(fields, list).fields = fields
<1>1. CASE list = Null
  BY <1>1 DEF RegisterSchema
<1>2. CASE list # Null
  <2>1. list \in Seq(Range(list))
    BY <1>2, ListAssumption DEF IsList
  <2>2. Range(list) \subseteq Fields
    BY <1>2 DEF Fields
  <2>3. list \in Seq(Fields)
    BY <2>1, <2>2
  <2>4. RegisterSchema(fields, list) = RegisterFields(fields, list)
    BY <1>2 DEF RegisterSchema
  <2> QED
    BY <2>3, <2>4, RegisterFieldsOK
<1> QED
  BY <1>1, <1>2

\* start() succeeds only for an open registry with an identity, whose schema
\* fits at the widest timestamp.
StartChecks ==
    <<<<~network_config_set, "InvalidConfiguration">>>>
    \o MetadataChecks
    \o <<<<~validateMaximumSchemaSize, "CapacityExceeded">>, <<sealed, "RegistrationSealed">>>>

\* start() accepts only what it has checked.
LEMMA StartAccepted ==
    ASSUME FirstOf(StartChecks) = "Ok"
    PROVE  validateMaximumSchemaSize /\ ~sealed /\ network_config_set
<1> DEFINE a == <<<<~network_config_set, "InvalidConfiguration">>>>
           b1 == <<~identity_set, "InvalidConfiguration">>
           b2 == <<telemetry_provider = Null, "NoTelemetryProvider">>
           b3 == <<estop_hook = Null, "NoEstopHook">>
           b4 == <<controller_loss_hook = Null, "NoControllerLossHook">>
           b == <<b1, b2, b3, b4>>
           c1 == <<~validateMaximumSchemaSize, "CapacityExceeded">>
           c2 == <<sealed, "RegistrationSealed">>
           c == <<c1, c2>>
<1>1. StartChecks = (a \o b) \o c
  BY Zenon DEF StartChecks, MetadataChecks
<1>2. /\ "InvalidConfiguration" \in Code /\ "NoTelemetryProvider" \in Code
      /\ "NoEstopHook" \in Code /\ "NoControllerLossHook" \in Code
      /\ "CapacityExceeded" \in Code /\ "RegistrationSealed" \in Code
  BY DEF Code
<1>3. /\ (~network_config_set) \in BOOLEAN /\ (~identity_set) \in BOOLEAN
      /\ (telemetry_provider = Null) \in BOOLEAN /\ (estop_hook = Null) \in BOOLEAN
      /\ (controller_loss_hook = Null) \in BOOLEAN
      /\ (~validateMaximumSchemaSize) \in BOOLEAN /\ sealed \in BOOLEAN
  BY DEF sealed
<1>4. a \in Checks /\ (Passes(a) <=> network_config_set)
  BY <1>2, <1>3, ConditionPasses, Zenon
<1>5. b1 \in Check /\ b2 \in Check /\ b3 \in Check /\ b4 \in Check
  BY <1>2, <1>3, OneCheck, Zenon
<1>6. /\ c1 \in Check
      /\ \A code : Hits(c1, code) <=> ~validateMaximumSchemaSize /\ code = "CapacityExceeded"
      /\ c2 \in Check /\ \A code : Hits(c2, code) <=> sealed /\ code = "RegistrationSealed"
  BY <1>2, <1>3, OneCheck, Zenon
<1> HIDE DEF b1, b2, b3, b4, c1, c2
<1>7. b \in Checks
  BY <1>5, FourChecks
<1>8. c \in Checks /\ \A code : Hits(c1, code) \/ Hits(c2, code) => Fails(c, code)
  BY <1>6, TwoChecks
<1> HIDE DEF a, b, c
<1>9. a \o b \in Checks /\ (Passes(a \o b) => Passes(a))
  BY <1>4, <1>7, ConcatPasses
<1>10. StartChecks \in Checks /\ (Passes(StartChecks) => Passes(a \o b) /\ Passes(c))
  BY <1>1, <1>8, <1>9, ConcatPasses
<1>11. Passes(StartChecks)
  BY <1>10, FirstOfDecides DEF Passes
<1>12. Passes(a) /\ Passes(c)
  BY <1>9, <1>10, <1>11
<1> QED
  BY <1>4, <1>6, <1>8, <1>12, Zenon DEF Passes

\* start() seals a sound registry, once, after the schema was found to fit.
LEMMA StartOK ==
    ASSUME RegistryOK, start
    PROVE  /\ RegistryOK' /\ UNCHANGED <<identity, commands, telemetry_fields, state_fields>>
           /\ sealed => UNCHANGED <<lifecycle, started>>
           /\ ~started /\ started' => validateMaximumSchemaSize
<1>1. /\ status' = FirstOf(StartChecks)
      /\ lifecycle' = IF status' = "Ok" THEN "Sealed" ELSE lifecycle
      /\ started' = (started \/ status' = "Ok")
      /\ UNCHANGED <<identity, identity_set, commands, telemetry_fields, state_fields>>
      /\ UNCHANGED network_config_set
  BY Zenon DEF start, StartChecks, identityVars
<1>2. CommandsOK' /\ FieldsOK(telemetry_fields, Fields)' /\ FieldsOK(state_fields, Fields)'
  BY <1>1 DEF RegistryOK, CommandsOK, FieldsOK, UniqueNames, WellTyped
<1>3. identity_set' \in BOOLEAN /\ network_config_set' \in BOOLEAN
  BY <1>1 DEF RegistryOK
<1>4. CASE status' = "Ok"
  <2>1. validateMaximumSchemaSize /\ ~sealed
    BY <1>1, <1>4, StartAccepted
  <2>2. lifecycle' = "Sealed" /\ started' = TRUE
    <3>1. (started \/ status' = "Ok") = TRUE
      BY <1>4
    <3> QED
      BY <1>1, <1>4, <3>1, Zenon
  <2> QED
    BY <1>1, <1>2, <1>3, <2>1, <2>2 DEF RegistryOK, sealed
<1>5. CASE status' # "Ok"
  <2>1. lifecycle' = lifecycle
    BY <1>1, <1>5
  <2>2. started' = started
    <3>1. (started \/ status' = "Ok") = started
      BY <1>5 DEF RegistryOK
    <3> QED
      BY <1>1, <3>1, Zenon
  <2> QED
    BY <1>1, <1>2, <1>3, <2>1, <2>2 DEF RegistryOK, sealed
<1> QED
  BY <1>4, <1>5

\* An application call keeps the registry in order, and leaves a sealed one alone.
LEMMA ConfigureOK ==
    ASSUME RegistryOK, Configure
    PROVE  /\ RegistryOK' /\ (sealed => UNCHANGED Published) /\ UNCHANGED <<announced, last>>
           /\ ~started /\ started' =>
                 /\ validateMaximumSchemaSize
                 /\ UNCHANGED <<identity, commands, telemetry_fields, state_fields>>
<1> DEFINE Goal == /\ RegistryOK' /\ (sealed => UNCHANGED Published)
                   /\ UNCHANGED <<announced, last>>
                   /\ ~started /\ started' =>
                         /\ validateMaximumSchemaSize
                         /\ UNCHANGED <<identity, commands, telemetry_fields, state_fields>>
<1>0. identity_set \in BOOLEAN /\ network_config_set \in BOOLEAN
  BY DEF RegistryOK
<1>1. ASSUME NEW config \in NetworkConfigs, setNetworkConfig(config) PROVE Goal
  <2>1. /\ network_config_set' = (network_config_set \/ status' = "Ok")
        /\ UNCHANGED <<registryVars, started, announced, last>>
    BY <1>1, Zenon DEF setNetworkConfig
  <2>2. (network_config_set \/ status' = "Ok") \in BOOLEAN
    OBVIOUS
  <2>3. network_config_set' \in BOOLEAN
    BY <2>1, <2>2, Zenon
  <2>4. /\ UNCHANGED <<lifecycle, identity_set, identity, commands>>
        /\ UNCHANGED <<telemetry_fields, state_fields, started, announced, last>>
    BY <2>1 DEF registryVars, identityVars
  <2>5. RegistryOK'
    BY <1>0, <2>3, <2>4, RegistryOKFrame
  <2> QED
    BY <2>4, <2>5 DEF Published
<1>2. ASSUME NEW id \in Identities, setIdentity(id),
             UNCHANGED <<lifecycle, commands, telemetry_fields, state_fields, hookVars, facadeVars>>
      PROVE  Goal
  <2>1. /\ UNCHANGED <<lifecycle, commands, telemetry_fields, state_fields>>
        /\ UNCHANGED <<network_config_set, started, announced, last>>
    BY <1>2 DEF facadeVars
  <2>2. sealed => UNCHANGED <<identity, identity_set>>
    BY <1>2, Zenon DEF setIdentity
  <2>3. identity_set' \in BOOLEAN
    <3> DEFINE refused == {i \in 1..3 : copyRequired(id[IdentityParts[i]]) # "Ok"}
    <3>1. ~sealed => identity_set' = (identity_set \/ refused = {})
      BY <1>2, Zenon DEF setIdentity
    <3>2. (identity_set \/ refused = {}) \in BOOLEAN
      OBVIOUS
    <3> QED
      BY <1>0, <2>2, <3>1, <3>2, Zenon
  <2>4. RegistryOK'
    BY <1>0, <2>1, <2>3, RegistryOKFrame
  <2> QED
    BY <2>1, <2>2, <2>4 DEF Published
<1>3. ASSUME NEW spec \in Offered, RegisterOneCommand(spec) PROVE Goal
  <2>1. /\ UNCHANGED <<lifecycle, identity_set, identity, telemetry_fields, state_fields>>
        /\ UNCHANGED <<network_config_set, started, announced, last>>
    BY <1>3 DEF RegisterOneCommand, facadeVars, identityVars
  <2>2. CommandsOK' /\ (sealed => UNCHANGED commands)
    BY <1>3, RegisterCommandOK DEF RegisterOneCommand, RegistryOK
  <2>3. FieldsOK(telemetry_fields, Fields)' /\ FieldsOK(state_fields, Fields)'
    BY <2>1 DEF RegistryOK, FieldsOK, UniqueNames, WellTyped
  <2> QED
    BY <2>1, <2>2, <2>3 DEF RegistryOK, sealed, Published
<1>4. ASSUME registerTelemetrySchema PROVE Goal
  <2>1. PICK list \in TelemetryLists :
           /\ telemetry_fields' = RegisterSchema(telemetry_fields, list).fields
           /\ UNCHANGED <<lifecycle, identityVars, commands, state_fields, hookVars, facadeVars>>
    BY <1>4 DEF registerTelemetrySchema
  <2>2. /\ UNCHANGED <<lifecycle, identity_set, identity, commands, state_fields>>
        /\ UNCHANGED <<network_config_set, started, announced, last>>
    BY <2>1 DEF facadeVars, identityVars
  <2>3. PICK f : f = telemetry_fields' /\ FieldsOK(f, Fields) /\ (sealed => f = telemetry_fields)
    BY <2>1, RegisterSchemaOK DEF RegistryOK
  <2>4. FieldsOK(telemetry_fields, Fields)'
    BY <2>3 DEF FieldsOK, WellTyped, UniqueNames
  <2>5. FieldsOK(state_fields, Fields)' /\ CommandsOK'
    BY <2>2 DEF RegistryOK, FieldsOK, UniqueNames, WellTyped, CommandsOK
  <2> QED
    BY <2>2, <2>3, <2>4, <2>5 DEF RegistryOK, sealed, Published
<1>5. ASSUME registerStateSchema PROVE Goal
  <2>1. PICK list \in StateLists :
           /\ state_fields' = RegisterSchema(state_fields, list).fields
           /\ UNCHANGED <<lifecycle, identityVars, commands, telemetry_fields, hookVars>>
           /\ UNCHANGED facadeVars
    BY <1>5 DEF registerStateSchema
  <2>2. /\ UNCHANGED <<lifecycle, identity_set, identity, commands, telemetry_fields>>
        /\ UNCHANGED <<network_config_set, started, announced, last>>
    BY <2>1 DEF facadeVars, identityVars
  <2>3. PICK f : f = state_fields' /\ FieldsOK(f, Fields) /\ (sealed => f = state_fields)
    BY <2>1, RegisterSchemaOK DEF RegistryOK
  <2>4. FieldsOK(state_fields, Fields)'
    BY <2>3 DEF FieldsOK, WellTyped, UniqueNames
  <2>5. FieldsOK(telemetry_fields, Fields)' /\ CommandsOK'
    BY <2>2 DEF RegistryOK, FieldsOK, UniqueNames, WellTyped, CommandsOK
  <2> QED
    BY <2>2, <2>3, <2>4, <2>5 DEF RegistryOK, sealed, Published
<1>6. ASSUME setTelemetryProvider \/ setEstopHook \/ setControllerLossHook PROVE Goal
  <2>1. /\ UNCHANGED <<lifecycle, identity_set, identity, commands, telemetry_fields>>
        /\ UNCHANGED <<state_fields, network_config_set, started, announced, last>>
    BY <1>6 DEF setTelemetryProvider, setEstopHook, setControllerLossHook, facadeVars,
                identityVars
  <2>2. RegistryOK'
    BY <1>0, <2>1, RegistryOKFrame
  <2> QED
    BY <2>1, <2>2 DEF Published
<1>7. ASSUME start PROVE Goal
  <2>1. /\ RegistryOK' /\ UNCHANGED <<identity, commands, telemetry_fields, state_fields>>
        /\ sealed => UNCHANGED <<lifecycle, started>>
        /\ ~started /\ started' => validateMaximumSchemaSize
    BY <1>7, StartOK
  <2>2. UNCHANGED <<announced, last>>
    BY <1>7 DEF start
  <2> QED
    BY <2>1, <2>2 DEF Published
<1>8. ASSUME SetIdentity PROVE Goal
  BY <1>2, <1>8 DEF SetIdentity
<1>9. ASSUME RegisterCommand \/ enableCountersDiagnosticCommand PROVE Goal
  BY <1>3, <1>9 DEF RegisterCommand, enableCountersDiagnosticCommand, Offered
<1>10. ASSUME SetNetworkConfig PROVE Goal
  BY <1>1, <1>10 DEF SetNetworkConfig
<1> HIDE DEF Goal
<1>11. Goal
  BY <1>4, <1>5, <1>6, <1>7, <1>8, <1>9, <1>10 DEF Configure
<1> QED
  BY <1>11 DEF Goal

-----------------------------------------------------------------------------
(* The dispatcher's check of a call against the command's signature. *)

ArgChecks(list, args, i) ==
    <<<<list[i].name \notin DOMAIN args, "MISSING_FIELD">>,
      <<list[i].name \in DOMAIN args /\ ~argsGet(args[list[i].name], list[i].type),
        "INVALID_TYPE">>>>

Declared(list) == {list[i].name : i \in 1..Len(list)}

\* What the two checks of a declared argument stand for.
LEMMA ArgCheckHits ==
    ASSUME NEW list, NEW args, NEW i
    PROVE  /\ ArgChecks(list, args, i) \in Checks
           /\ \A code : Fails(ArgChecks(list, args, i), code) <=>
                \/ list[i].name \notin DOMAIN args /\ code = "MISSING_FIELD"
                \/ /\ list[i].name \in DOMAIN args /\ ~argsGet(args[list[i].name], list[i].type)
                   /\ code = "INVALID_TYPE"
<1> DEFINE p == list[i].name \notin DOMAIN args
           q == list[i].name \in DOMAIN args /\ ~argsGet(args[list[i].name], list[i].type)
           a == <<p, "MISSING_FIELD">>
           b == <<q, "INVALID_TYPE">>
<1>1. "MISSING_FIELD" \in Code /\ "INVALID_TYPE" \in Code
  BY DEF Code
<1>2. p \in BOOLEAN /\ q \in BOOLEAN
  OBVIOUS
<1>3. /\ a \in Check /\ \A c : Hits(a, c) <=> p /\ c = "MISSING_FIELD"
      /\ b \in Check /\ \A c : Hits(b, c) <=> q /\ c = "INVALID_TYPE"
  BY <1>1, <1>2, OneCheck, Zenon
<1>4. ArgChecks(list, args, i) = <<a, b>>
  BY Zenon DEF ArgChecks
<1> HIDE DEF a, b
<1>5. <<a, b>> \in Checks /\ \A c : Fails(<<a, b>>, c) <=> Hits(a, c) \/ Hits(b, c)
  BY <1>3, TwoChecks
<1> QED
  BY <1>3, <1>4, <1>5, Zenon

\* What validateArgs reports: Ok for a call that gives every declared argument,
\* of its type, and no other; else a defect the call has.
ArgsVerdict(error, list, args) ==
    \/ /\ error = "Ok"
       /\ \A i \in 1..Len(list) : /\ list[i].name \in DOMAIN args
                                  /\ argsGet(args[list[i].name], list[i].type)
       /\ DOMAIN args \subseteq Declared(list)
    \/ error = "MISSING_FIELD" /\ \E i \in 1..Len(list) : list[i].name \notin DOMAIN args
    \/ /\ error = "INVALID_TYPE"
       /\ \E i \in 1..Len(list) : /\ list[i].name \in DOMAIN args
                                  /\ ~argsGet(args[list[i].name], list[i].type)
    \/ error = "INVALID_ARGUMENT" /\ \E n \in DOMAIN args : n \notin Declared(list)

\* validateArgs: its verdict names a defect, or there is none.
LEMMA ArgsChecked ==
    ASSUME NEW c, NEW args, c.args \in Seq(Range(c.args))
    PROVE  ArgsVerdict(validateArgs(c, args), c.args, args)
<1> DEFINE list == c.args
           m == Len(list)
           ss == [i \in 1..m |-> ArgChecks(list, args, i)]
           f == FlattenSeq(ss)
           x == DOMAIN args \ Declared(list) # {}
           d == <<<<x, "INVALID_ARGUMENT">>>>
           error == validateArgs(c, args)
           Missing(i) == list[i].name \notin DOMAIN args
           Wrong(i) == list[i].name \in DOMAIN args /\ ~argsGet(args[list[i].name], list[i].type)
<1>1. error = FirstOf(f \o d)
  BY Zenon DEF validateArgs, ArgChecks, Declared
<1>2. m \in Nat
  OBVIOUS
<1>3. ss \in Seq(Checks) /\ Len(ss) = m /\ \A i \in 1..m : ss[i] = ArgChecks(list, args, i)
  <2>1. ASSUME NEW i \in 1..m PROVE ArgChecks(list, args, i) \in Checks
    BY ArgCheckHits
  <2> HIDE DEF list, m
  <2> QED
    BY <1>2, <2>1
<1>4. /\ f \in Checks
      /\ \A code : Fails(f, code) <=> \E i \in 1..m : Fails(ArgChecks(list, args, i), code)
  <2> HIDE DEF ss, list, m
  <2> QED
    BY <1>3, ChecksFlatten
<1>5. "INVALID_ARGUMENT" \in Code /\ x \in BOOLEAN
  BY DEF Code
<1>6. d \in Checks /\ \A code : Fails(d, code) <=> x /\ code = "INVALID_ARGUMENT"
  <2> DEFINE e == <<x, "INVALID_ARGUMENT">>
  <2>1. e \in Check /\ \A code : Hits(e, code) <=> x /\ code = "INVALID_ARGUMENT"
    BY <1>5, OneCheck, Zenon
  <2> HIDE DEF e
  <2>2. <<e>> \in Checks /\ \A code : Fails(<<e>>, code) <=> Hits(e, code)
    BY <2>1, ListOfOne
  <2>3. <<e>> \in Checks /\ \A code : Fails(<<e>>, code) <=> x /\ code = "INVALID_ARGUMENT"
    BY <2>1, <2>2, Zenon
  <2> QED
    BY <2>3 DEF e
<1> HIDE DEF f, d, x
<1>7. /\ f \o d \in Checks
      /\ \A code : Fails(f \o d, code) <=> Fails(f, code) \/ Fails(d, code)
  BY <1>4, <1>6, ChecksConcat
<1>8. \A code : Fails(f \o d, code) <=>
         \/ code = "MISSING_FIELD" /\ \E i \in 1..m : Missing(i)
         \/ code = "INVALID_TYPE" /\ \E i \in 1..m : Wrong(i)
         \/ code = "INVALID_ARGUMENT" /\ x
  <2>1. \A i \in 1..m : \A code : Fails(ArgChecks(list, args, i), code) <=>
            \/ Missing(i) /\ code = "MISSING_FIELD"
            \/ Wrong(i) /\ code = "INVALID_TYPE"
    BY ArgCheckHits, Zenon
  <2> HIDE DEF Missing, Wrong, m, list
  <2> QED
    BY <1>4, <1>6, <1>7, <2>1
<1>9. CASE error = "Ok"
  <2>1. \A code : ~Fails(f \o d, code)
    BY <1>1, <1>7, <1>9, FirstOfDecides
  <2>2. (\A i \in 1..m : ~Missing(i) /\ ~Wrong(i)) /\ ~x
    <3> HIDE DEF Missing, Wrong, m, list
    <3> QED
      BY <1>8, <2>1, Zenon
  <2>3. DOMAIN args \subseteq Declared(list)
    BY <2>2 DEF x
  <2> QED
    BY <1>9, <2>2, <2>3 DEF ArgsVerdict
<1>10. CASE error # "Ok"
  <2>1. Fails(f \o d, error)
    BY <1>1, <1>7, <1>10, FirstOfDecides
  <2>2. \/ error = "MISSING_FIELD" /\ \E i \in 1..m : Missing(i)
        \/ error = "INVALID_TYPE" /\ \E i \in 1..m : Wrong(i)
        \/ error = "INVALID_ARGUMENT" /\ x
    <3> HIDE DEF Missing, Wrong, m, list, error
    <3> QED
      BY <1>8, <2>1, Zenon
  <2>3. x => \E n \in DOMAIN args : n \notin Declared(list)
    BY DEF x
  <2> HIDE DEF error
  <2>4. ArgsVerdict(error, list, args)
    BY <2>2, <2>3, Zenon DEF ArgsVerdict
  <2> QED
    BY <2>4 DEF error
<1> QED
  BY <1>9, <1>10

-----------------------------------------------------------------------------
(* Lines. *)

\* The fields of what a line led to.
LEMMA HandledFields ==
    ASSUME NEW line, NEW ran, NEW said, NEW wrote, NEW reply, NEW counted
    PROVE  LET h == Handled(line, ran, said, wrote, reply, counted)
           IN  /\ h.line = line /\ h.ran = ran /\ h.said = said /\ h.wrote = wrote
               /\ h.reply = reply /\ h.counted = counted
  BY DEF Handled

\* Nothing came of the line but a count.
IsDropped(h, line, counted) ==
    h.line = line /\ h.ran = "None" /\ h.reply = NoReply /\ h.counted = counted

\* The fields of the record of a line that was dropped.
LEMMA DroppedFields ==
    ASSUME NEW line, NEW counted
    PROVE  IsDropped(Dropped(line, counted), line, counted)
  BY HandledFields DEF Dropped, IsDropped

\* A command that was refused, or failed.
IsError(h, line, ran, said, code) ==
    /\ h.line = line /\ h.ran = ran /\ h.said = said /\ h.reply = Response(code, <<>>)
    /\ h.counted = {"commands_received", "commands_error"}
            \cup (IF code = "UNKNOWN_COMMAND" /\ ran = "None" THEN {"unknown_commands"} ELSE {})
            \cup (IF code = "INVALID_ARGUMENT" THEN {"invalid_arguments"} ELSE {})

\* The fields of the record of a command that was refused.
LEMMA ErrorFields ==
    ASSUME NEW line, NEW ran, NEW said, NEW wrote, NEW code
    PROVE  /\ IsError(enqueueError(line, ran, said, wrote, code), line, ran, said, code)
           /\ enqueueError(line, ran, said, wrote, code).wrote = wrote
  BY HandledFields DEF enqueueError, IsError

\* What the command's handler did, and the answer.
IsRun(h, line, c) ==
    \E run \in HandlerRuns(c) :
        /\ h.wrote = run.wrote
        /\ \/ run.said # "OK" /\ IsError(h, line, "handler", run.said, run.said)
           \/ /\ run.said = "OK" /\ ~ResultComplete(WrittenBy(run.wrote))
              /\ IsError(h, line, "handler", "OK", "INTERNAL_ERROR")
           \/ /\ run.said = "OK" /\ ResultComplete(WrittenBy(run.wrote))
              /\ h.line = line /\ h.ran = "handler" /\ h.said = "OK"
              /\ h.reply = Response("OK", WithBoardProcUs(close(WrittenBy(run.wrote)).w.out))
              /\ h.counted = {"commands_received", "commands_ok"}

\* The command of a line, as it was answered.
IsAnswered(h, line) ==
    \/ findCommand(line.command) = {} /\ IsError(h, line, "None", "None", "UNKNOWN_COMMAND")
    \/ \E i \in findCommand(line.command) :
          LET error == validateArgs(commands[i], line.args)
          IN  \/ error # "Ok" /\ IsError(h, line, "None", "None", error)
              \/ error = "Ok" /\ IsRun(h, line, commands[i])

\* dispatch answers every command, in one of the ways listed.
LEMMA DispatchAnswers ==
    ASSUME NEW line, dispatch(line)
    PROVE  \E h : h = last' /\ IsAnswered(h, line)
<1>1. CASE findCommand(line.command) = {}
  <2>1. last' = enqueueError(line, "None", "None", <<>>, "UNKNOWN_COMMAND")
    BY <1>1, Zenon DEF dispatch
  <2>2. \A h : h = enqueueError(line, "None", "None", <<>>, "UNKNOWN_COMMAND")
                => IsError(h, line, "None", "None", "UNKNOWN_COMMAND")
    BY ErrorFields, Zenon
  <2> QED
    BY <1>1, <2>1, <2>2, Zenon DEF IsAnswered
<1>2. CASE findCommand(line.command) # {}
  <2> DEFINE error(i) == validateArgs(commands[i], line.args)
  <2>1. PICK i \in findCommand(line.command) :
           IF error(i) # "Ok"
           THEN last' = enqueueError(line, "None", "None", <<>>, error(i))
           ELSE \E run \in HandlerRuns(commands[i]) :
                   last' =
                     IF run.said # "OK"
                     THEN enqueueError(line, "handler", run.said, run.wrote, run.said)
                     ELSE IF ~ResultComplete(WrittenBy(run.wrote))
                     THEN enqueueError(line, "handler", "OK", run.wrote, "INTERNAL_ERROR")
                     ELSE Handled(line, "handler", "OK", run.wrote,
                            Response("OK", WithBoardProcUs(close(WrittenBy(run.wrote)).w.out)),
                            {"commands_received", "commands_ok"})
    BY <1>2, Zenon DEF dispatch
  <2>2. PICK h : h = last'
    OBVIOUS
  <2>3. CASE error(i) # "Ok"
    <3>1. h = enqueueError(line, "None", "None", <<>>, error(i))
      BY <2>1, <2>2, <2>3
    <3>2. IsError(h, line, "None", "None", error(i))
      BY <3>1, ErrorFields, Zenon
    <3> QED
      BY <2>2, <2>3, <3>2, Zenon DEF IsAnswered
  <2>4. CASE error(i) = "Ok"
    <3>1. PICK run \in HandlerRuns(commands[i]) :
            h = IF run.said # "OK"
                THEN enqueueError(line, "handler", run.said, run.wrote, run.said)
                ELSE IF ~ResultComplete(WrittenBy(run.wrote))
                THEN enqueueError(line, "handler", "OK", run.wrote, "INTERNAL_ERROR")
                ELSE Handled(line, "handler", "OK", run.wrote,
                       Response("OK", WithBoardProcUs(close(WrittenBy(run.wrote)).w.out)),
                       {"commands_received", "commands_ok"})
      BY <2>1, <2>2, <2>4
    <3> DEFINE said == run.said
               complete == ResultComplete(WrittenBy(run.wrote))
               result == WithBoardProcUs(close(WrittenBy(run.wrote)).w.out)
    <3>2. CASE said # "OK"
      <4>1. h = enqueueError(line, "handler", said, run.wrote, said)
        BY <3>1, <3>2
      <4>2. IsError(h, line, "handler", said, said) /\ h.wrote = run.wrote
        BY <4>1, ErrorFields
      <4>3. IsRun(h, line, commands[i])
        BY <3>2, <4>2, Zenon DEF IsRun
      <4> QED
        BY <2>2, <2>4, <4>3, Zenon DEF IsAnswered
    <3>3. CASE said = "OK" /\ ~complete
      <4>1. h = enqueueError(line, "handler", "OK", run.wrote, "INTERNAL_ERROR")
        BY <3>1, <3>3
      <4>2. IsError(h, line, "handler", "OK", "INTERNAL_ERROR") /\ h.wrote = run.wrote
        BY <4>1, ErrorFields
      <4>3. IsRun(h, line, commands[i])
        BY <3>3, <4>2, Zenon DEF IsRun
      <4> QED
        BY <2>2, <2>4, <4>3, Zenon DEF IsAnswered
    <3>4. CASE said = "OK" /\ complete
      <4>1. h = Handled(line, "handler", "OK", run.wrote, Response("OK", result),
                        {"commands_received", "commands_ok"})
        BY <3>1, <3>4
      <4>2. /\ h.line = line /\ h.ran = "handler" /\ h.said = "OK" /\ h.wrote = run.wrote
            /\ h.reply = Response("OK", result)
            /\ h.counted = {"commands_received", "commands_ok"}
        BY <4>1, HandledFields
      <4>3. IsRun(h, line, commands[i])
        BY <3>4, <4>2, Zenon DEF IsRun
      <4> QED
        BY <2>2, <2>4, <4>3, Zenon DEF IsAnswered
    <3> QED
      BY <3>2, <3>3, <3>4
  <2> QED
    BY <2>3, <2>4
<1> QED
  BY <1>1, <1>2

\* A complete message, but for the encoding of its text.
Whole(line) ==
    /\ line.shape = "object"
    /\ {line.source, line.target} \cap {Absent, WrongType} = {}
    /\ \/ line.type = "estop"
       \/ line.type = "heartbeat" /\ line.seq = "ok"
       \/ /\ line.type = "command" /\ line.seq = "ok"
          /\ {line.controller_ts, line.command, line.args} \cap {Absent, WrongType} = {}

\* What the parser makes of a line.
ParsedAs(o, doc) ==
    \/ o.kind = "Valid" /\ isValidUtf8(doc.text) /\ Whole(doc)
    \/ /\ o.kind = "Malformed" /\ o.counted = {"invalid_json"}
       /\ ~isValidUtf8(doc.text) \/ ~Whole(doc)
    \/ /\ o.kind = "StructurallyInvalid" /\ o.counted = {}
       /\ ~Whole(doc) /\ doc.seq = "ok" /\ doc.type \in {"command", "heartbeat"}

\* parse: its outcomes are the ones listed.
LEMMA ParseCases ==
    ASSUME NEW doc
    PROVE  ParsedAs(parse(doc), doc)
<1>1. /\ Malformed.kind = "Malformed" /\ Malformed.counted = {"invalid_json"}
      /\ Valid.kind = "Valid"
  BY DEF Malformed, Valid, Outcome
<1>2. \A code, ts : /\ structuralError(code, ts).kind = "StructurallyInvalid"
                    /\ structuralError(code, ts).counted = {}
  BY DEF structuralError, Outcome
<1>3. CASE ~isValidUtf8(doc.text) \/ doc.shape # "object"
  <2>1. parse(doc) = Malformed
    BY <1>3 DEF parse
  <2> QED
    BY <1>1, <1>3, <2>1 DEF ParsedAs, Whole
<1>4. CASE isValidUtf8(doc.text) /\ doc.shape = "object"
  <2>1. CASE doc.type = "command"
    <3>1. parse(doc) = parseCommand(doc)
      BY <1>4, <2>1 DEF parse
    <3> DEFINE members == {doc.source, doc.target, doc.command, doc.args}
    <3>2. CASE doc.seq # "ok"
      <4>1. parse(doc) = Malformed
        BY <3>1, <3>2 DEF parseCommand
      <4> QED
        BY <1>1, <2>1, <3>2, <4>1 DEF ParsedAs, Whole
    <3>3. CASE /\ doc.seq = "ok"
               /\ \/ doc.controller_ts \in {Absent, WrongType}
                  \/ Absent \in members \/ WrongType \in members
      <4>1. \E code, ts : parse(doc) = structuralError(code, ts)
        BY <3>1, <3>3, Zenon DEF parseCommand
      <4>2. ~Whole(doc)
        BY <2>1, <3>3 DEF Whole
      <4> QED
        BY <1>2, <2>1, <3>3, <4>1, <4>2 DEF ParsedAs
    <3>4. CASE /\ doc.seq = "ok" /\ doc.controller_ts \notin {Absent, WrongType}
               /\ Absent \notin members /\ WrongType \notin members
      <4>1. parse(doc) = Valid
        BY <3>1, <3>4 DEF parseCommand
      <4>2. Whole(doc)
        BY <1>4, <2>1, <3>4 DEF Whole
      <4> QED
        BY <1>1, <1>4, <4>1, <4>2 DEF ParsedAs
    <3> QED
      BY <3>2, <3>3, <3>4
  <2>2. CASE doc.type = "estop"
    <3>1. parse(doc) = parseEstop(doc)
      BY <1>4, <2>2 DEF parse
    <3>2. Whole(doc) <=> getString(doc.source) /\ getString(doc.target)
      BY <1>4, <2>2 DEF Whole, getString
    <3> QED
      BY <1>1, <1>4, <3>1, <3>2 DEF ParsedAs, parseEstop
  <2>3. CASE doc.type = "heartbeat"
    <3>1. parse(doc) = parseHeartbeat(doc)
      BY <1>4, <2>3 DEF parse
    <3>2. Whole(doc) <=> /\ doc.seq = "ok" /\ Absent \notin {doc.source, doc.target}
                         /\ WrongType \notin {doc.source, doc.target}
      BY <1>4, <2>3 DEF Whole
    <3>3. CASE doc.seq # "ok"
      BY <1>1, <3>1, <3>2, <3>3 DEF ParsedAs, parseHeartbeat
    <3>4. CASE Whole(doc)
      BY <1>1, <1>4, <3>1, <3>2, <3>4 DEF ParsedAs, parseHeartbeat
    <3>5. CASE doc.seq = "ok" /\ ~Whole(doc)
      <4>1. \E code, ts : parse(doc) = structuralError(code, ts)
        BY <3>1, <3>2, <3>5, Zenon DEF parseHeartbeat
      <4> QED
        BY <1>2, <2>3, <3>5, <4>1 DEF ParsedAs
    <3> QED
      BY <3>3, <3>4, <3>5
  <2>4. CASE doc.type \notin {"command", "estop", "heartbeat"}
    <3>1. parse(doc) = Malformed
      BY <1>4, <2>4 DEF parse
    <3>2. ~Whole(doc)
      BY <2>4 DEF Whole
    <3> QED
      BY <1>1, <3>1, <3>2 DEF ParsedAs
  <2> QED
    BY <2>1, <2>2, <2>3, <2>4
<1> QED
  BY <1>3, <1>4

\* The message is for this board, and gets past the gate.
Admitted(line) ==
    /\ isValidUtf8(line.text) /\ Whole(line) /\ validControllerTarget(line)
    /\ line.type = "command" => GateValid(line)

\* What a line led to.
LedTo(h, line) ==
    \/ ~Admitted(line) /\ IsDropped(h, line, {"invalid_json"})
    \/ ~Admitted(line) /\ IsDropped(h, line, {"invalid_targets"})
    \/ /\ ~Admitted(line) /\ IsDropped(h, line, {})
       /\ line.seq = "ok" /\ ~Whole(line) /\ line.type \in {"command", "heartbeat"}
    \/ Admitted(line) /\ line.type = "command" /\ IsAnswered(h, line)
    \/ /\ Admitted(line) /\ line.type = "estop" /\ h.line = line /\ h.ran = "hook"
       /\ h.reply.kind \in {"EstopAck", "None"} /\ h.reply.code = "None"
       /\ \/ h.counted = {"estop_received"}
          \/ h.counted = {"estop_received", "estop_apply_failed"}
    \/ /\ Admitted(line) /\ line.type = "heartbeat" /\ h.line = line /\ h.ran = "None"
       /\ h.reply.kind = "HeartbeatAck" /\ h.reply.code = "None"
       /\ h.counted = {"heartbeat_received"}

\* handleEstop runs the hook, and acknowledges what it made safe.
LEMMA EstopLedTo ==
    ASSUME NEW line, handleEstop(line)
    PROVE  \E h : /\ h = last' /\ h.line = line /\ h.ran = "hook"
                  /\ h.reply.kind \in {"EstopAck", "None"} /\ h.reply.code = "None"
                  /\ \/ h.counted = {"estop_received"}
                     \/ h.counted = {"estop_received", "estop_apply_failed"}
<1>1. PICK safe \in BOOLEAN :
        last' = Handled(line, "hook", IF safe THEN "OK" ELSE "FAILED", <<>>,
                        IF safe THEN [kind |-> "EstopAck", code |-> "None", result |-> <<>>]
                        ELSE NoReply,
                        {"estop_received"} \cup IF safe THEN {} ELSE {"estop_apply_failed"})
  BY DEF handleEstop
<1> DEFINE ack == IF safe THEN [kind |-> "EstopAck", code |-> "None", result |-> <<>>]
                  ELSE NoReply
           counted == {"estop_received"} \cup IF safe THEN {} ELSE {"estop_apply_failed"}
<1>2. ack.kind \in {"EstopAck", "None"} /\ ack.code = "None"
  BY DEF NoReply
<1>3. counted = {"estop_received"} \/ counted = {"estop_received", "estop_apply_failed"}
  OBVIOUS
<1> HIDE DEF ack, counted
<1>4. PICK h : h = last'
  OBVIOUS
<1>5. h.line = line /\ h.ran = "hook" /\ h.reply = ack /\ h.counted = counted
  BY <1>1, <1>4, HandledFields DEF ack, counted
<1> QED
  BY <1>2, <1>3, <1>4, <1>5

\* processLine: a line leads to one of the records listed.
LEMMA LineLedTo ==
    ASSUME NEW line, processLine(line)
    PROVE  \E h : h = last' /\ LedTo(h, line)
<1> DEFINE o == parse(line)
<1>1. PICK h : h = last'
  OBVIOUS
<1>2. ParsedAs(o, line)
  BY ParseCases
<1>3. CASE o.kind # "Valid"
  <2>1. \E counted \in {{"invalid_targets"}, o.counted} : last' = Dropped(line, counted)
    BY <1>3, Zenon DEF processLine
  <2>2. PICK counted \in {{"invalid_targets"}, o.counted} : IsDropped(h, line, counted)
    BY <1>1, <2>1, DroppedFields
  <2>3. ~Admitted(line)
    BY <1>2, <1>3 DEF ParsedAs, Admitted
  <2>4. CASE counted = {"invalid_targets"}
    BY <1>1, <2>2, <2>3, <2>4, Zenon DEF LedTo
  <2>5. CASE counted = o.counted
    <3> HIDE DEF o
    <3>1. \/ counted = {"invalid_json"}
          \/ /\ counted = {} /\ line.seq = "ok" /\ ~Whole(line)
             /\ line.type \in {"command", "heartbeat"}
      BY <1>2, <1>3, <2>5 DEF ParsedAs
    <3> QED
      BY <1>1, <2>2, <2>3, <3>1, Zenon DEF LedTo
  <2> QED
    BY <2>2, <2>4, <2>5
<1>4. CASE o.kind = "Valid"
  <2>1. isValidUtf8(line.text) /\ Whole(line)
    BY <1>2, <1>4 DEF ParsedAs
  <2>2. routeValid(line)
    BY <1>4, Zenon DEF processLine
  <2>3. CASE ~validControllerTarget(line) \/ (line.type = "command" /\ ~GateValid(line))
    <3>1. last' = Dropped(line, {"invalid_targets"})
      BY <2>2, <2>3, Zenon DEF routeValid
    <3>2. IsDropped(h, line, {"invalid_targets"})
      BY <1>1, <3>1, DroppedFields
    <3>3. ~Admitted(line)
      BY <2>3 DEF Admitted
    <3> QED
      BY <1>1, <3>2, <3>3, Zenon DEF LedTo
  <2>4. CASE ~(~validControllerTarget(line) \/ (line.type = "command" /\ ~GateValid(line)))
    <3>1. Admitted(line)
      BY <2>1, <2>4 DEF Admitted
    <3>2. CASE line.type = "command"
      <4>1. dispatch(line)
        BY <2>2, <2>4, <3>2 DEF routeValid
      <4>2. IsAnswered(h, line)
        BY <1>1, <4>1, DispatchAnswers
      <4> QED
        BY <1>1, <3>1, <3>2, <4>2, Zenon DEF LedTo
    <3>3. CASE line.type = "estop"
      <4>1. handleEstop(line)
        BY <2>2, <2>4, <3>3 DEF routeValid
      <4>2. /\ h.line = line /\ h.ran = "hook"
            /\ h.reply.kind \in {"EstopAck", "None"} /\ h.reply.code = "None"
            /\ \/ h.counted = {"estop_received"}
               \/ h.counted = {"estop_received", "estop_apply_failed"}
        BY <1>1, <4>1, EstopLedTo
      <4> QED
        BY <1>1, <3>1, <3>3, <4>2, Zenon DEF LedTo
    <3>4. CASE line.type = "heartbeat"
      <4>1. handleHeartbeat(line)
        BY <2>2, <2>4, <3>4 DEF routeValid
      <4> DEFINE ack == [kind |-> "HeartbeatAck", code |-> "None", result |-> <<>>]
      <4>2. h = Handled(line, "None", "None", <<>>, ack, {"heartbeat_received"})
        BY <1>1, <4>1 DEF handleHeartbeat
      <4>3. ack.kind = "HeartbeatAck" /\ ack.code = "None"
        OBVIOUS
      <4> HIDE DEF ack
      <4>4. /\ h.line = line /\ h.ran = "None" /\ h.reply = ack
            /\ h.counted = {"heartbeat_received"}
        BY <4>2, HandledFields
      <4>5. h.reply.kind = "HeartbeatAck" /\ h.reply.code = "None"
        BY <4>3, <4>4
      <4> QED
        BY <1>1, <3>1, <3>4, <4>4, <4>5, Zenon DEF LedTo
    <3> QED
      BY <2>1, <3>2, <3>3, <3>4 DEF Whole
  <2> QED
    BY <2>3, <2>4
<1> QED
  BY <1>3, <1>4

-----------------------------------------------------------------------------
(* Steps of the server. *)

\* Every step keeps the registry sound, leaves a sealed one alone, and starts the
\* server only with a schema that was found to fit.
LEMMA RegistryStep ==
    ASSUME RegistryOK, [Next]_vars
    PROVE  /\ RegistryOK' /\ (sealed => UNCHANGED Published)
           /\ ~started /\ started' =>
                 /\ validateMaximumSchemaSize
                 /\ UNCHANGED <<identity, commands, telemetry_fields, state_fields>>
<1>1. CASE Configure
  BY <1>1, ConfigureOK
<1>2. CASE PromoteConnection \/ ReceiveLine \/ ReleaseLine \/ UNCHANGED vars
  <2>1. /\ UNCHANGED <<lifecycle, identity_set, identity, commands, telemetry_fields>>
        /\ UNCHANGED <<state_fields, network_config_set, started>>
    BY <1>2 DEF PromoteConnection, ReceiveLine, ReleaseLine, vars, registryVars, identityVars
  <2>2. identity_set' \in BOOLEAN /\ network_config_set' \in BOOLEAN
    BY <2>1 DEF RegistryOK
  <2>3. RegistryOK'
    BY <2>1, <2>2, RegistryOKFrame
  <2> QED
    BY <2>1, <2>3 DEF Published
<1> QED
  BY <1>1, <1>2 DEF Next

\* The registry is sound in every state: within its capacities, every command,
\* argument and field under a name of its own and of a known type, and sealed
\* exactly when the server has started.
THEOREM RegistrySound == Spec => [](RegistryOK)
<1>1. Init => RegistryOK
  BY RegistryOKInit
<1>2. RegistryOK /\ [Next]_vars => RegistryOK'
  BY RegistryStep
<1> QED
  BY <1>1, <1>2, PTL DEF Spec

\* It is frozen from start() on: whatever the application calls later, the
\* commands, fields and identity the dispatcher works from stay the ones the
\* schema line announced.
THEOREM SealedIsFrozen == Spec => [][sealed => UNCHANGED Published]_vars
<1>1. RegistryOK /\ [Next]_vars => [sealed => UNCHANGED Published]_vars
  BY RegistryStep
<1> QED
  BY <1>1, RegistrySound, PTL DEF Spec

\* While a line is in hand nothing else changes.
LEMMA LineInHand ==
    ASSUME [Next]_vars
    PROVE  \/ last' = NoLine
           \/ UNCHANGED <<last, commands, identity>>
           \/ /\ \E line \in Lines : processLine(line)
              /\ UNCHANGED <<commands, identity>>
<1>1. CASE Configure
  <2>1. last = NoLine /\ UNCHANGED last
    BY <1>1, Zenon
      DEF Configure, SetNetworkConfig, setNetworkConfig, SetIdentity, RegisterCommand,
          RegisterOneCommand, enableCountersDiagnosticCommand, registerTelemetrySchema,
          registerStateSchema, setTelemetryProvider, setEstopHook, setControllerLossHook,
          start, facadeVars
  <2> QED
    BY <2>1
<1>2. CASE PromoteConnection
  BY <1>2 DEF PromoteConnection
<1>3. CASE ReceiveLine
  BY <1>3 DEF ReceiveLine, registryVars, identityVars
<1>4. CASE ReleaseLine
  BY <1>4 DEF ReleaseLine
<1>5. CASE UNCHANGED vars
  BY <1>5 DEF vars, registryVars, identityVars
<1> QED
  BY <1>1, <1>2, <1>3, <1>4, <1>5 DEF Next

\* The arguments of a registered command are a list, well typed.
LEMMA CommandLists ==
    ASSUME CommandsOK, NEW i \in 1..Len(commands)
    PROVE  commands[i].args \in Seq(Range(commands[i].args)) /\ WellTyped(commands[i].args)
<1> DEFINE T == {StoredCommand(spec) : spec \in Offered}
<1>1. commands \in Seq(T)
  BY DEF CommandsOK
<1>2. i \in DOMAIN commands /\ commands[i] \in T
  <2> HIDE DEF T
  <2> QED
    BY <1>1
<1>3. PICK spec \in Offered : commands[i] = StoredCommand(spec)
  BY <1>2
<1>4. commands[i].args = spec.args
  BY <1>3 DEF StoredCommand
<1> QED
  BY <1>2, <1>4, OfferedLists DEF CommandsOK

\* What the parts of a handled command are.
LEMMA AnswerFields ==
    ASSUME NEW h, NEW line, IsAnswered(h, line), CommandsOK
    PROVE  /\ h.line = line /\ h.reply.kind = "CommandResponse"
           /\ h.reply.code \in BoardErrorCode \cup {"OK"}
           /\ "commands_received" \in h.counted
           /\ h.counted \subseteq {"commands_received", "commands_ok", "commands_error",
                                   "unknown_commands", "invalid_arguments"}
           /\ \/ "commands_ok" \in h.counted /\ "commands_error" \notin h.counted
              \/ "commands_error" \in h.counted /\ "commands_ok" \notin h.counted
<1> DEFINE Shape(code) ==
             /\ h.line = line /\ h.reply.kind = "CommandResponse" /\ h.reply.code = code
             /\ "commands_received" \in h.counted
             /\ h.counted \subseteq {"commands_received", "commands_ok", "commands_error",
                                     "unknown_commands", "invalid_arguments"}
             /\ \/ "commands_ok" \in h.counted /\ "commands_error" \notin h.counted
                \/ "commands_error" \in h.counted /\ "commands_ok" \notin h.counted
<1>1. \A code, result : /\ Response(code, result).kind = "CommandResponse"
                        /\ Response(code, result).code = code
  BY DEF Response
<1>2. ASSUME NEW ran, NEW said, NEW code, IsError(h, line, ran, said, code) PROVE Shape(code)
  <2>1. h.line = line /\ h.reply = Response(code, <<>>)
    BY <1>2 DEF IsError
  <2>2. h.reply.kind = "CommandResponse" /\ h.reply.code = code
    BY <1>1, <2>1
  <2>3. h.counted = {"commands_received", "commands_error"}
            \cup (IF code = "UNKNOWN_COMMAND" /\ ran = "None" THEN {"unknown_commands"} ELSE {})
            \cup (IF code = "INVALID_ARGUMENT" THEN {"invalid_arguments"} ELSE {})
    BY <1>2 DEF IsError
  <2> QED
    BY <2>1, <2>2, <2>3
<1> HIDE DEF Shape
<1>3. ASSUME NEW i \in findCommand(line.command),
             validateArgs(commands[i], line.args) # "Ok",
             IsError(h, line, "None", "None", validateArgs(commands[i], line.args))
      PROVE  \E code \in BoardErrorCode : Shape(code)
  <2>1. i \in 1..Len(commands)
    BY DEF findCommand
  <2>2. ArgsVerdict(validateArgs(commands[i], line.args), commands[i].args, line.args)
    BY <2>1, CommandLists, ArgsChecked
  <2>3. validateArgs(commands[i], line.args) \in BoardErrorCode
    BY <1>3, <2>2 DEF ArgsVerdict, BoardErrorCode
  <2> QED
    BY <1>2, <1>3, <2>3
<1>4. ASSUME NEW c, IsRun(h, line, c) PROVE \E code \in BoardErrorCode \cup {"OK"} : Shape(code)
  <2>1. PICK run \in HandlerRuns(c) :
        \/ run.said # "OK" /\ IsError(h, line, "handler", run.said, run.said)
        \/ IsError(h, line, "handler", "OK", "INTERNAL_ERROR")
        \/ /\ h.line = line
           /\ h.reply = Response("OK", WithBoardProcUs(close(WrittenBy(run.wrote)).w.out))
           /\ h.counted = {"commands_received", "commands_ok"}
    BY <1>4, Zenon DEF IsRun
  <2>2. run.said \in {"OK"} \cup BoardErrorCode
    BY DEF HandlerRuns
  <2>3. "INTERNAL_ERROR" \in BoardErrorCode
    BY DEF BoardErrorCode
  <2>4. ASSUME h.line = line,
               h.reply = Response("OK", WithBoardProcUs(close(WrittenBy(run.wrote)).w.out)),
               h.counted = {"commands_received", "commands_ok"}
        PROVE  Shape("OK")
    BY <1>1, <2>4 DEF Shape
  <2> QED
    BY <1>2, <2>1, <2>2, <2>3, <2>4
<1>5. \E code \in BoardErrorCode \cup {"OK"} : Shape(code)
  <2>1. "UNKNOWN_COMMAND" \in BoardErrorCode
    BY DEF BoardErrorCode
  <2> QED
    BY <1>2, <1>3, <1>4, <2>1, Zenon DEF IsAnswered
<1> QED
  BY <1>5 DEF Shape

\* Every reply has a code of the protocol.
LEMMA ReplyCode ==
    ASSUME NEW h, NEW line, LedTo(h, line), CommandsOK
    PROVE  h.reply.code \in BoardErrorCode \cup {"OK", "None"}
<1>1. CASE \E counted : IsDropped(h, line, counted)
  BY <1>1 DEF IsDropped, NoReply
<1>2. CASE IsAnswered(h, line)
  BY <1>2, AnswerFields
<1>3. CASE h.reply.code = "None"
  BY <1>3
<1> QED
  BY <1>1, <1>2, <1>3, Zenon DEF LedTo

\* The server's variables have their types, and the registry is within its
\* capacities, for every list of commands and fields an application offers.
THEOREM ServerTypeCorrect == Spec => []ServerTypeOK
<1> DEFINE CodeOK == last.reply.code \in BoardErrorCode \cup {"OK", "None"}
<1>0. NoLine.reply.code = "None"
  BY DroppedFields DEF NoLine, IsDropped, NoReply
<1>1. Init => CodeOK
  BY <1>0 DEF Init
<1>2. RegistryOK /\ CodeOK /\ [Next]_vars => CodeOK'
  <2> SUFFICES ASSUME RegistryOK, CodeOK, [Next]_vars PROVE CodeOK'
    OBVIOUS
  <2>1. CASE last' = NoLine
    BY <1>0, <2>1
  <2>2. CASE UNCHANGED last
    BY <2>2
  <2>3. ASSUME NEW line \in Lines, processLine(line) PROVE CodeOK'
    BY <2>3, LineLedTo, ReplyCode DEF RegistryOK
  <2> QED
    BY <2>1, <2>2, <2>3, LineInHand
<1>3. RegistryOK /\ CodeOK => ServerTypeOK
  BY DEF RegistryOK, CommandsOK, FieldsOK, ServerTypeOK, sealed
<1> QED
  BY <1>1, <1>2, <1>3, RegistrySound, PTL DEF Spec

-----------------------------------------------------------------------------
(* Counting. *)

Headings == {"invalid_json", "invalid_targets", "commands_received", "estop_received",
             "heartbeat_received"}
Results == {"commands_ok", "commands_error"}

\* CountedOnce, of one line.
CountedOne(h) ==
    /\ \/ \E x \in Headings : h.counted \cap Headings = {x}
       \/ h.counted = {} /\ MalformedWithSeq(h.line)
    /\ "commands_received" \in h.counted => \E r \in Results : h.counted \cap Results = {r}

\* Every line is counted once.
LEMMA LineCounted ==
    ASSUME NEW h, NEW line, LedTo(h, line), CommandsOK
    PROVE  CountedOne(h)
<1>1. ASSUME NEW x \in Headings, h.counted \cap Headings = {x}, x # "commands_received"
      PROVE  CountedOne(h)
  <2>1. "commands_received" \notin h.counted
    BY <1>1 DEF Headings
  <2> QED
    BY <1>1, <2>1, Zenon DEF CountedOne
<1>2. ASSUME IsDropped(h, line, {"invalid_json"}) PROVE CountedOne(h)
  <2>1. "invalid_json" \in Headings /\ h.counted \cap Headings = {"invalid_json"}
    BY <1>2 DEF IsDropped, Headings
  <2> QED
    BY <1>1, <2>1
<1>3. ASSUME IsDropped(h, line, {"invalid_targets"}) PROVE CountedOne(h)
  <2>1. "invalid_targets" \in Headings /\ h.counted \cap Headings = {"invalid_targets"}
    BY <1>3 DEF IsDropped, Headings
  <2> QED
    BY <1>1, <2>1
<1>4. ASSUME IsDropped(h, line, {}), line.seq = "ok", ~Whole(line),
             line.type \in {"command", "heartbeat"}
      PROVE  CountedOne(h)
  <2>1. ~Complete(line)
    BY <1>4 DEF Complete, Whole
  <2>2. h.counted = {} /\ h.line = line
    BY <1>4 DEF IsDropped
  <2>3. "commands_received" \notin h.counted
    BY <2>2
  <2> QED
    BY <1>4, <2>1, <2>2, <2>3, Zenon DEF CountedOne, MalformedWithSeq
<1>5. ASSUME IsAnswered(h, line) PROVE CountedOne(h)
  <2>1. /\ "commands_received" \in h.counted
        /\ h.counted \subseteq {"commands_received", "commands_ok", "commands_error",
                                "unknown_commands", "invalid_arguments"}
        /\ \/ "commands_ok" \in h.counted /\ "commands_error" \notin h.counted
           \/ "commands_error" \in h.counted /\ "commands_ok" \notin h.counted
    BY <1>5, AnswerFields
  <2>2. "commands_received" \in Headings /\ h.counted \cap Headings = {"commands_received"}
    BY <2>1 DEF Headings
  <2>3. h.counted \cap Results = {"commands_ok"} \/ h.counted \cap Results = {"commands_error"}
    BY <2>1 DEF Results
  <2>4. "commands_ok" \in Results /\ "commands_error" \in Results
    BY DEF Results
  <2> QED
    BY <2>2, <2>3, <2>4, Zenon DEF CountedOne
<1>6. ASSUME h.counted = {"estop_received"} \/ h.counted = {"estop_received", "estop_apply_failed"}
      PROVE  CountedOne(h)
  <2>1. "estop_received" \in Headings /\ h.counted \cap Headings = {"estop_received"}
    BY <1>6 DEF Headings
  <2> QED
    BY <1>1, <2>1
<1>7. ASSUME h.counted = {"heartbeat_received"} PROVE CountedOne(h)
  <2>1. "heartbeat_received" \in Headings /\ h.counted \cap Headings = {"heartbeat_received"}
    BY <1>7 DEF Headings
  <2> QED
    BY <1>1, <2>1
<1> QED
  BY <1>2, <1>3, <1>4, <1>5, <1>6, <1>7, Zenon DEF LedTo

\* No line is counted under two headings, every one but malformed commands and
\* heartbeats with a seq is counted under one, and a received command is counted
\* under exactly one result (Counters.h, as ServiceLoop and CommandDispatcher
\* count).
THEOREM LinesCountedOnce == Spec => []CountedOnce
<1> DEFINE Inv == last = NoLine \/ CountedOne(last)
<1>1. Init => Inv
  BY DEF Init
<1>2. RegistryOK /\ Inv /\ [Next]_vars => Inv'
  <2> SUFFICES ASSUME RegistryOK, Inv, [Next]_vars PROVE Inv'
    OBVIOUS
  <2>1. CASE last' = NoLine
    BY <2>1
  <2>2. CASE UNCHANGED last
    BY <2>2 DEF CountedOne, MalformedWithSeq, Complete
  <2>3. ASSUME NEW line \in Lines, processLine(line) PROVE Inv'
    <3>1. PICK h : h = last' /\ CountedOne(h)
      BY <2>3, LineLedTo, LineCounted DEF RegistryOK
    <3> QED
      BY <3>1 DEF CountedOne, MalformedWithSeq, Complete
  <2> QED
    BY <2>1, <2>2, <2>3, LineInHand
<1>3. Inv => CountedOnce
  <2>1. NoLine.line = Null
    BY DroppedFields DEF NoLine, IsDropped
  <2>2. CASE last = NoLine
    BY <2>1, <2>2 DEF CountedOnce
  <2>3. CASE CountedOne(last)
    <3>1. /\ \A g, h \in last.counted \cap Headings : g = h
          /\ ~MalformedWithSeq(last.line) => last.counted \cap Headings # {}
      <4>1. CASE \E x \in Headings : last.counted \cap Headings = {x}
        BY <4>1
      <4>2. CASE last.counted = {} /\ MalformedWithSeq(last.line)
        BY <4>2
      <4> QED
        BY <2>3, <4>1, <4>2, Zenon DEF CountedOne
    <3> QED
      BY <2>3, <3>1, Zenon DEF CountedOnce, CountedOne, Headings, Results
  <2> QED
    BY <2>2, <2>3
<1> QED
  BY <1>1, <1>2, <1>3, RegistrySound, PTL DEF Spec

-----------------------------------------------------------------------------
(* Answers against the announced signature. *)

\* argsGet accepts the kinds of value that the announced type admits.
LEMMA ArgsGetAdmits ==
    ASSUME NEW type \in ValueType, NEW kind
    PROVE  argsGet(kind, type) <=> kind \in Admits[type]
<1>1. CASE type = "int"
  BY <1>1 DEF argsGet, Admits
<1>2. CASE type = "float"
  BY <1>2 DEF argsGet, Admits
<1>3. CASE type = "bool"
  BY <1>3 DEF argsGet, Admits
<1>4. CASE type = "string"
  BY <1>4 DEF argsGet, Admits
<1> QED
  BY <1>1, <1>2, <1>3, <1>4 DEF ValueType

\* What validateArgs reports is a defect of the call that the announced signature
\* shows, and Ok means that the call conforms to it.
Defect(error, c, args) ==
    \/ /\ error = "MISSING_FIELD"
       /\ \E i \in DOMAIN c.args : c.args[i].name \notin DOMAIN args
    \/ /\ error = "INVALID_TYPE"
       /\ \E i \in DOMAIN c.args : /\ c.args[i].name \in DOMAIN args
                                   /\ args[c.args[i].name] \notin Admits[c.args[i].type]
    \/ /\ error = "INVALID_ARGUMENT"
       /\ \E n \in DOMAIN args : n \notin {c.args[i].name : i \in DOMAIN c.args}

\* validateArgs accepts exactly the calls that match the announced signature.
LEMMA VerdictAnnounced ==
    ASSUME NEW c, NEW args, c.args \in Seq(Range(c.args)), WellTyped(c.args)
    PROVE  \/ validateArgs(c, args) = "Ok" /\ Conforms(c, args)
           \/ Defect(validateArgs(c, args), c, args) /\ ~Conforms(c, args)
<1> DEFINE list == c.args
           names == {list[i].name : i \in DOMAIN list}
           error == validateArgs(c, args)
<1>1. DOMAIN list = 1..Len(list)
  OBVIOUS
<1>2. \A i \in DOMAIN list : argsGet(args[list[i].name], list[i].type)
                             <=> args[list[i].name] \in Admits[list[i].type]
  BY ArgsGetAdmits DEF WellTyped
<1>3. Declared(list) = names
  BY <1>1, Zenon DEF Declared
<1>4. ArgsVerdict(error, list, args)
  BY ArgsChecked
<1> HIDE DEF error, names
<1>5. CASE /\ error = "Ok"
           /\ \A i \in 1..Len(list) : /\ list[i].name \in DOMAIN args
                                      /\ argsGet(args[list[i].name], list[i].type)
           /\ DOMAIN args \subseteq Declared(list)
  <2>1. \A i \in DOMAIN list : /\ list[i].name \in DOMAIN args
                               /\ args[list[i].name] \in Admits[list[i].type]
    BY <1>1, <1>2, <1>5
  <2>2. DOMAIN args = names
    <3>1. names \subseteq DOMAIN args
      BY <2>1 DEF names
    <3> QED
      BY <1>3, <1>5, <3>1
  <2>3. Conforms(c, args)
    BY <2>1, <2>2, Zenon DEF Conforms, names
  <2> QED
    BY <1>5, <2>3 DEF error
<1>6. CASE error = "MISSING_FIELD" /\ \E i \in 1..Len(list) : list[i].name \notin DOMAIN args
  <2>1. PICK i \in DOMAIN list : list[i].name \notin DOMAIN args
    BY <1>1, <1>6
  <2>2. list[i].name \in names
    BY DEF names
  <2>3. ~Conforms(c, args)
    BY <2>1, <2>2, Zenon DEF Conforms, names
  <2> QED
    BY <1>6, <2>1, <2>3, Zenon DEF Defect, error
<1>7. CASE /\ error = "INVALID_TYPE"
           /\ \E i \in 1..Len(list) : /\ list[i].name \in DOMAIN args
                                      /\ ~argsGet(args[list[i].name], list[i].type)
  <2>1. PICK i \in DOMAIN list : /\ list[i].name \in DOMAIN args
                                 /\ args[list[i].name] \notin Admits[list[i].type]
    BY <1>1, <1>2, <1>7
  <2>2. ~Conforms(c, args)
    BY <2>1, Zenon DEF Conforms
  <2> QED
    BY <1>7, <2>1, <2>2, Zenon DEF Defect, error
<1>8. CASE error = "INVALID_ARGUMENT" /\ \E n \in DOMAIN args : n \notin Declared(list)
  <2>1. PICK n \in DOMAIN args : n \notin names
    BY <1>3, <1>8
  <2>2. ~Conforms(c, args)
    BY <2>1, Zenon DEF Conforms, names
  <2> QED
    BY <1>8, <2>1, <2>2, Zenon DEF Defect, error, names
<1> QED
  BY <1>4, <1>5, <1>6, <1>7, <1>8 DEF ArgsVerdict

\* AnswerMatchesAnnouncement, of one line and a list of commands.
MatchesList(h, cs) ==
    LET args == h.line.args
        found == {c \in {cs[i] : i \in DOMAIN cs} : c.name = h.line.command}
    IN  /\ (h.ran = "handler") = (\E c \in found : Conforms(c, args))
        /\ h.ran # "handler" /\ (\A n \in DOMAIN args : args[n] # "infinite") =>
             CASE h.reply.code = "UNKNOWN_COMMAND" -> found = {}
               [] h.reply.code = "MISSING_FIELD" ->
                    \E c \in found : \E i \in DOMAIN c.args : c.args[i].name \notin DOMAIN args
               [] h.reply.code = "INVALID_TYPE" ->
                    \E c \in found : \E i \in DOMAIN c.args :
                        /\ c.args[i].name \in DOMAIN args
                        /\ args[c.args[i].name] \notin Admits[c.args[i].type]
               [] h.reply.code = "INVALID_ARGUMENT" ->
                    \E c \in found : \E n \in DOMAIN args :
                        n \notin {c.args[i].name : i \in DOMAIN c.args}
               [] OTHER -> FALSE

Matches(h) == MatchesList(h, commands)

\* An answer matches what was announced.
LEMMA AnswerMatches ==
    ASSUME NEW h, NEW line, IsAnswered(h, line), CommandsOK
    PROVE  Matches(h)
<1> DEFINE args == line.args
           found == {c \in {commands[i] : i \in DOMAIN commands} : c.name = line.command}
<1>0. DOMAIN commands = 1..Len(commands)
  BY DEF CommandsOK
<1>1. h.line = line
  BY AnswerFields
<1>2. CASE findCommand(line.command) = {} /\ IsError(h, line, "None", "None", "UNKNOWN_COMMAND")
  <2>1. found = {}
    BY <1>0, <1>2 DEF findCommand
  <2>2. h.ran = "None" /\ h.reply.code = "UNKNOWN_COMMAND"
    BY <1>2 DEF IsError, Response
  <2> QED
    BY <1>1, <2>1, <2>2 DEF Matches, MatchesList
<1>3. ASSUME NEW i \in findCommand(line.command)
      PROVE  /\ commands[i] \in found /\ \A c \in found : c = commands[i]
             /\ commands[i].args \in Seq(Range(commands[i].args)) /\ WellTyped(commands[i].args)
  <2>1. i \in DOMAIN commands /\ commands[i].name = line.command
    BY <1>0 DEF findCommand
  <2>2. \A j \in DOMAIN commands : commands[j].name = line.command => j = i
    BY <2>1 DEF CommandsOK, UniqueNames
  <2>3. commands[i].args \in Seq(Range(commands[i].args)) /\ WellTyped(commands[i].args)
    BY <1>0, <2>1, CommandLists
  <2> QED
    BY <2>1, <2>2, <2>3, Zenon
<1>4. ASSUME NEW i \in findCommand(line.command),
             validateArgs(commands[i], args) # "Ok",
             IsError(h, line, "None", "None", validateArgs(commands[i], args))
      PROVE  Matches(h)
  <2> DEFINE c == commands[i]
             error == validateArgs(c, args)
  <2>1. /\ c \in found /\ (\A d \in found : d = c)
        /\ c.args \in Seq(Range(c.args)) /\ WellTyped(c.args)
    BY <1>3
  <2>2. Defect(error, c, args) /\ ~Conforms(c, args)
    BY <1>4, <2>1, VerdictAnnounced
  <2>3. h.ran = "None" /\ h.reply.code = error
    BY <1>4 DEF IsError, Response
  <2>4. ~(\E d \in found : Conforms(d, args))
    BY <2>1, <2>2, Zenon
  <2>5. (h.ran = "handler") = (\E d \in found : Conforms(d, args))
    <3>1. ~(h.ran = "handler")
      BY <2>3
    <3> QED
      BY <2>4, <3>1, Zenon
  <2> HIDE DEF c, error, found
  <2>6. CASE error = "MISSING_FIELD"
    <3>1. \E d \in found : \E k \in DOMAIN d.args : d.args[k].name \notin DOMAIN args
      BY <2>1, <2>2, <2>6 DEF Defect
    <3> QED
      BY <1>1, <2>3, <2>5, <2>6, <3>1 DEF Matches, MatchesList, found
  <2>7. CASE error = "INVALID_TYPE"
    <3>1. \E d \in found : \E k \in DOMAIN d.args :
             d.args[k].name \in DOMAIN args /\ args[d.args[k].name] \notin Admits[d.args[k].type]
      BY <2>1, <2>2, <2>7 DEF Defect
    <3> QED
      BY <1>1, <2>3, <2>5, <2>7, <3>1 DEF Matches, MatchesList, found
  <2>8. CASE error = "INVALID_ARGUMENT"
    <3>1. \E d \in found : \E n \in DOMAIN args : n \notin {d.args[k].name : k \in DOMAIN d.args}
      BY <2>1, <2>2, <2>8 DEF Defect
    <3> QED
      BY <1>1, <2>3, <2>5, <2>8, <3>1 DEF Matches, MatchesList, found
  <2> QED
    BY <2>2, <2>6, <2>7, <2>8 DEF Defect
<1>5. ASSUME NEW i \in findCommand(line.command), validateArgs(commands[i], args) = "Ok",
             IsRun(h, line, commands[i])
      PROVE  Matches(h)
  <2>1. h.ran = "handler"
    BY <1>5, Zenon DEF IsRun, IsError
  <2>2. Conforms(commands[i], args)
    BY <1>3, <1>5, VerdictAnnounced DEF Defect
  <2>3. \E d \in found : Conforms(d, args)
    BY <1>3, <2>2, Zenon
  <2>4. (h.ran = "handler") = (\E d \in found : Conforms(d, args))
    BY <2>1, <2>3, Zenon
  <2> HIDE DEF found
  <2> QED
    BY <1>1, <2>1, <2>4 DEF Matches, MatchesList, found
<1> QED
  BY <1>2, <1>4, <1>5, Zenon DEF IsAnswered

\* Only the answer to a command is a command response.
LEMMA ResponseIsAnswer ==
    ASSUME NEW h, NEW line, LedTo(h, line), h.reply.kind = "CommandResponse"
    PROVE  IsAnswered(h, line)
<1>1. \A counted : ~IsDropped(h, line, counted)
  BY DEF IsDropped, NoReply
<1>2. h.reply.kind \notin {"EstopAck", "None"} /\ h.reply.kind # "HeartbeatAck"
  OBVIOUS
<1> QED
  BY <1>1, <1>2, Zenon DEF LedTo

\* A handler runs exactly for the calls that match the announced signature of
\* their command, and a refusal of a call without infinite numbers names a defect
\* the call has (CommandDispatcher's dispatch and validateArgs), for any commands
\* the application registered.
THEOREM AnswersMatch == Spec => []AnswerMatchesAnnouncement
<1> DEFINE Inv == last.reply.kind = "CommandResponse" => Matches(last)
<1>0. NoLine.reply.kind = "None"
  BY DroppedFields DEF NoLine, IsDropped, NoReply
<1>1. Init => Inv
  BY <1>0 DEF Init
<1>2. RegistryOK /\ Inv /\ [Next]_vars => Inv'
  <2> SUFFICES ASSUME RegistryOK, Inv, [Next]_vars PROVE Inv'
    OBVIOUS
  <2>1. CASE last' = NoLine
    BY <1>0, <2>1
  <2>2. CASE UNCHANGED <<last, commands, identity>>
    <3>1. Matches(last) => Matches(last)'
      BY <2>2 DEF Matches
    <3>2. last' = last
      BY <2>2
    <3> QED
      BY <3>1, <3>2
  <2>3. ASSUME NEW line \in Lines, processLine(line), UNCHANGED <<commands, identity>> PROVE Inv'
    <3>1. PICK h : h = last' /\ LedTo(h, line)
      BY <2>3, LineLedTo
    <3>2. h.reply.kind = "CommandResponse" => Matches(h)
      BY <3>1, ResponseIsAnswer, AnswerMatches DEF RegistryOK
    <3>3. ASSUME Matches(h) PROVE Matches(last)'
      <4>1. commands' = commands /\ last' = h
        BY <2>3, <3>1
      <4> QED
        BY <3>3, <4>1 DEF Matches
    <3> QED
      BY <3>1, <3>2, <3>3
  <2> QED
    BY <2>1, <2>2, <2>3, LineInHand
<1>3. Inv => AnswerMatchesAnnouncement
  BY Zenon DEF Matches, MatchesList, AnswerMatchesAnnouncement
<1> QED
  BY <1>1, <1>2, <1>3, RegistrySound, PTL DEF Spec

-----------------------------------------------------------------------------
(* UTF-8: the scan against what the encoding means.                        *)

\* The encodings of one byte.
LEMMA EncodesOneByte ==
    ASSUME NEW b, b[1] \in Int, Len(b) = 1
    PROVE  EncodesOne(b) <=> b[1] <= \h7F
<1>1. Announces(b[1], 1) <=> b[1] <= \h7F
  BY DEF Announces
<1>2. CodePoint(b) = b[1] /\ (Takes(b[1], 1) <=> b[1] <= \h7F)
  BY DEF CodePoint, Takes
<1>3. 2..1 = {}
  OBVIOUS
<1> QED
  BY <1>1, <1>2, <1>3 DEF EncodesOne

\* The encodings of two bytes.
LEMMA EncodesTwoBytes ==
    ASSUME NEW b, NEW x \in Int, NEW y \in Int, b[1] = x, b[2] = y, Len(b) = 2
    PROVE  EncodesOne(b) <=> x >= \hC2 /\ x <= \hDF /\ isContinuation(y)
<1>1. Announces(x, 2) <=> x >= \hC0 /\ x <= \hDF
  BY DEF Announces
<1>2. CodePoint(b) = (x % \h20) * \h40 + (y % \h40)
  BY DEF CodePoint
<1>3. \A k : k \in 2..2 <=> k = 2
  OBVIOUS
<1>4. isContinuation(y) <=> y >= \h80 /\ y <= \hBF
  BY DEF isContinuation
<1> DEFINE c == (x % \h20) * \h40 + (y % \h40)
<1>5. Takes(c, 2) <=> c >= \h80 /\ c <= \h7FF
  <2> HIDE DEF c
  <2> QED
  BY DEF Takes
<1>6. ASSUME x >= \hC0, x <= \hDF, y >= \h80, y <= \hBF
      PROVE  c >= \h80 /\ c <= \h7FF <=> x >= \hC2
  BY <1>6
<1> HIDE DEF c
<1>7. EncodesOne(b) <=> Announces(x, 2) /\ isContinuation(y) /\ Takes(c, 2)
  BY <1>2, <1>3 DEF EncodesOne, c
<1> QED
  BY <1>1, <1>4, <1>5, <1>6, <1>7

\* The encodings of three bytes.
LEMMA EncodesThreeBytes ==
    ASSUME NEW b, NEW x \in Int, NEW y \in Int, NEW z \in Int,
           b[1] = x, b[2] = y, b[3] = z, Len(b) = 3
    PROVE  EncodesOne(b) <=>
             /\ x >= \hE0 /\ x <= \hEF /\ isContinuation(y) /\ isContinuation(z)
             /\ x = \hE0 => y >= \hA0
             /\ x = \hED => y <= \h9F
<1>1. Announces(x, 3) <=> x >= \hE0 /\ x <= \hEF
  BY DEF Announces
<1> DEFINE c == (x % \h10) * \h1000 + (y % \h40) * \h40 + (z % \h40)
<1>2. CodePoint(b) = c
  BY DEF CodePoint
<1>3. \A k : k \in 2..3 <=> k = 2 \/ k = 3
  OBVIOUS
<1>4. \A v \in Int : isContinuation(v) <=> v >= \h80 /\ v <= \hBF
  BY DEF isContinuation
<1>5. Takes(c, 3) <=> c >= \h800 /\ c <= \hFFFF /\ ~(c >= \hD800 /\ c <= \hDFFF)
  <2> HIDE DEF c
  <2> QED
  BY DEF Takes
<1>6. ASSUME x >= \hE0, x <= \hEF, y >= \h80, y <= \hBF, z >= \h80, z <= \hBF
      PROVE  c >= \h800 /\ c <= \hFFFF /\ ~(c >= \hD800 /\ c <= \hDFFF)
               <=> (x = \hE0 => y >= \hA0) /\ (x = \hED => y <= \h9F)
  <2>1. x % \h10 = x - \hE0 /\ y % \h40 = y - \h80 /\ z % \h40 = z - \h80
    BY <1>6
  <2>2. c = (x - \hE0) * \h1000 + (y - \h80) * \h40 + (z - \h80)
    BY <2>1
  <2> HIDE DEF c
  <2> QED
    BY <1>6, <2>2
<1> HIDE DEF c
<1>7. EncodesOne(b) <=> Announces(x, 3) /\ isContinuation(y) /\ isContinuation(z) /\ Takes(c, 3)
  BY <1>2, <1>3 DEF EncodesOne
<1> QED
  BY <1>1, <1>4, <1>5, <1>6, <1>7

FourBytes(x, y, z, t) ==
    /\ x >= \hF0 /\ x <= \hF4
    /\ isContinuation(y) /\ isContinuation(z) /\ isContinuation(t)
    /\ x = \hF0 => y >= \h90
    /\ x = \hF4 => y <= \h8F

\* The encodings of four bytes.
LEMMA EncodesFourBytes ==
    ASSUME NEW b, NEW x \in Int, NEW y \in Int, NEW z \in Int, NEW t \in Int,
           b[1] = x, b[2] = y, b[3] = z, b[4] = t, Len(b) = 4
    PROVE  EncodesOne(b) <=> FourBytes(x, y, z, t)
<1>1. Announces(x, 4) <=> x >= \hF0 /\ x <= \hF7
  BY DEF Announces
<1> DEFINE c == (x % \h08) * \h40000 + (y % \h40) * \h1000 + (z % \h40) * \h40 + (t % \h40)
<1>2. CodePoint(b) = c
  BY DEF CodePoint
<1>3. \A k : k \in 2..4 <=> k = 2 \/ k = 3 \/ k = 4
  OBVIOUS
<1>4. \A v \in Int : isContinuation(v) <=> v >= \h80 /\ v <= \hBF
  BY DEF isContinuation
<1>5. Takes(c, 4) <=> c >= \h10000 /\ c <= \h10FFFF
  <2> HIDE DEF c
  <2> QED
  BY DEF Takes
<1>6. ASSUME x >= \hF0, x <= \hF7, y >= \h80, y <= \hBF, z >= \h80, z <= \hBF,
             t >= \h80, t <= \hBF
      PROVE  c >= \h10000 /\ c <= \h10FFFF
               <=> x <= \hF4 /\ (x = \hF0 => y >= \h90) /\ (x = \hF4 => y <= \h8F)
  <2>1. /\ x % \h08 = x - \hF0 /\ y % \h40 = y - \h80 /\ z % \h40 = z - \h80
        /\ t % \h40 = t - \h80
    BY <1>6
  <2>2. c = (x - \hF0) * \h40000 + (y - \h80) * \h1000 + (z - \h80) * \h40 + (t - \h80)
    BY <2>1
  <2> HIDE DEF c
  <2> QED
    BY <1>6, <2>2
<1> HIDE DEF c
<1>7. EncodesOne(b) <=> /\ Announces(x, 4) /\ Takes(c, 4)
                        /\ isContinuation(y) /\ isContinuation(z) /\ isContinuation(t)
  BY <1>2, <1>3 DEF EncodesOne
<1> QED
  BY <1>1, <1>4, <1>5, <1>6, <1>7 DEF FourBytes

\* The rows of the table of lead bytes.
LEMMA LeadTypes ==
    ASSUME NEW lead \in Utf8Leads
    PROVE  /\ lead.first \in Int /\ lead.last \in Int /\ lead.low \in Int /\ lead.high \in Int
           /\ lead.size \in {2, 3, 4}
  BY DEF Utf8Leads, Lead

\* The first two bytes agree with a lead of the table.
Leads(x, y, size) ==
    \E lead \in Utf8Leads : /\ lead.size = size
                            /\ lead.first <= x /\ x <= lead.last
                            /\ lead.low <= y /\ y <= lead.high

\* The table, as bounds on the first two bytes.
LEMMA LeadTable ==
    ASSUME NEW x \in Int, NEW y \in Int
    PROVE  /\ Leads(x, y, 2) <=> x >= \hC2 /\ x <= \hDF /\ y >= \h80 /\ y <= \hBF
           /\ Leads(x, y, 3) <=> /\ x >= \hE0 /\ x <= \hEF /\ y >= \h80 /\ y <= \hBF
                                 /\ x = \hE0 => y >= \hA0
                                 /\ x = \hED => y <= \h9F
           /\ Leads(x, y, 4) <=> /\ x >= \hF0 /\ x <= \hF4 /\ y >= \h80 /\ y <= \hBF
                                 /\ x = \hF0 => y >= \h90
                                 /\ x = \hF4 => y <= \h8F
<1>1. Leads(x, y, 2) <=> x >= \hC2 /\ x <= \hDF /\ y >= \h80 /\ y <= \hBF
  BY DEF Leads, Utf8Leads, Lead
<1>2. Leads(x, y, 3) <=> /\ x >= \hE0 /\ x <= \hEF /\ y >= \h80 /\ y <= \hBF
                         /\ x = \hE0 => y >= \hA0
                         /\ x = \hED => y <= \h9F
  BY DEF Leads, Utf8Leads, Lead
<1>3. Leads(x, y, 4) <=> /\ x >= \hF0 /\ x <= \hF4 /\ y >= \h80 /\ y <= \hBF
                         /\ x = \hF0 => y >= \h90
                         /\ x = \hF4 => y <= \h8F
  BY DEF Leads, Utf8Leads, Lead
<1> QED
  BY <1>1, <1>2, <1>3

\* The scan finds one encoding of k bytes at position i.
EncodesAt(data, i, k) == EncodesOne(SubSeq(data, i, i + k - 1))

\* The bytes of a piece of the data.
LEMMA Piece ==
    ASSUME NEW data \in Seq(Int), NEW i \in 1..Len(data), NEW k \in 1..4, i + k - 1 <= Len(data)
    PROVE  LET s == SubSeq(data, i, i + k - 1)
           IN  /\ Len(s) = k /\ s[1] = data[i] /\ data[i] \in Int
               /\ \A j \in 1..k : s[j] = data[i + j - 1] /\ data[i + j - 1] \in Int
  OBVIOUS

\* What one step of the scan looks for, from the second alternative on.
Scans(data, i, lead) ==
    /\ data[i] \in lead.first..lead.last
    /\ i + lead.size - 1 <= Len(data)
    /\ data[i + 1] \in lead.low..lead.high
    /\ \A k \in (i + 2)..(i + lead.size - 1) : isContinuation(data[k])

\* One row of the scan, as bounds on the bytes.
LEMMA ScansLead ==
    ASSUME NEW data \in Seq(Int), NEW i \in 1..Len(data), NEW lead \in Utf8Leads
    PROVE  Scans(data, i, lead) <=>
             /\ i + lead.size - 1 <= Len(data)
             /\ lead.first <= data[i] /\ data[i] <= lead.last
             /\ lead.low <= data[i + 1] /\ data[i + 1] <= lead.high
             /\ lead.size >= 3 => isContinuation(data[i + 2])
             /\ lead.size >= 4 => isContinuation(data[i + 3])
<1>1. /\ lead.first \in Int /\ lead.last \in Int /\ lead.low \in Int /\ lead.high \in Int
      /\ lead.size \in {2, 3, 4} /\ data[i] \in Int
  BY LeadTypes
<1>2. SUFFICES ASSUME i + lead.size - 1 <= Len(data)
               PROVE  Scans(data, i, lead) <=>
                        /\ lead.first <= data[i] /\ data[i] <= lead.last
                        /\ lead.low <= data[i + 1] /\ data[i + 1] <= lead.high
                        /\ lead.size >= 3 => isContinuation(data[i + 2])
                        /\ lead.size >= 4 => isContinuation(data[i + 3])
  BY DEF Scans
<1>3. PICK m \in {2, 3, 4} : lead.size = m
  BY <1>1
<1>5. data[i + 1] \in Int
  <2>1. i + 1 \in 1..Len(data)
    BY <1>2, <1>3
  <2> QED
    BY <2>1
<1>4. (\A k \in (i + 2)..(i + lead.size - 1) : isContinuation(data[k])) <=>
         /\ lead.size >= 3 => isContinuation(data[i + 2])
         /\ lead.size >= 4 => isContinuation(data[i + 3])
  <2>1. \A k : k \in (i + 2)..(i + lead.size - 1) <=>
                 \/ lead.size >= 3 /\ k = i + 2
                 \/ lead.size >= 4 /\ k = i + 3
    <3>1. CASE m = 2
      BY <1>3, <3>1
    <3>2. CASE m = 3
      BY <1>3, <3>2
    <3>3. CASE m = 4
      BY <1>3, <3>3
    <3> QED
      BY <3>1, <3>2, <3>3
  <2> QED
    BY <2>1, Zenon
<1>6. /\ data[i] \in lead.first..lead.last <=> lead.first <= data[i] /\ data[i] <= lead.last
      /\ data[i + 1] \in lead.low..lead.high <=> /\ lead.low <= data[i + 1]
                                                /\ data[i + 1] <= lead.high
  <2>1. \A v, lo, hi \in Int : v \in lo..hi <=> lo <= v /\ v <= hi
    OBVIOUS
  <2> QED
    BY <1>1, <1>5, <2>1, Zenon
<1> QED
  BY <1>2, <1>4, <1>6, Zenon DEF Scans

\* The scan takes k bytes where they encode one character.
LEMMA ScansOne ==
    ASSUME NEW data \in Seq(Int), NEW i \in 1..Len(data), NEW k \in {2, 3, 4},
           i + k - 1 <= Len(data)
    PROVE  EncodesAt(data, i, k) <=>
             \E lead \in Utf8Leads : lead.size = k /\ Scans(data, i, lead)
<1> DEFINE s == SubSeq(data, i, i + k - 1)
           x == data[i]
           y == data[i + 1]
           Rest == /\ k >= 3 => isContinuation(data[i + 2])
                   /\ k >= 4 => isContinuation(data[i + 3])
<1>1. /\ Len(s) = k /\ s[1] = x /\ x \in Int
      /\ \A j \in 1..k : s[j] = data[i + j - 1] /\ data[i + j - 1] \in Int
  <2>1. k \in 1..4
    OBVIOUS
  <2> QED
    BY <2>1, Piece, Zenon
<1>2. s[2] = y /\ y \in Int
  <2>1. 2 \in 1..k /\ i + 2 - 1 = i + 1
    OBVIOUS
  <2> QED
    BY <1>1, <2>1
<1>3. (\E lead \in Utf8Leads : lead.size = k /\ Scans(data, i, lead)) <=> Leads(x, y, k) /\ Rest
  <2>1. \A lead \in Utf8Leads : lead.size = k =>
           (Scans(data, i, lead) <=> /\ lead.first <= x /\ x <= lead.last
                                     /\ lead.low <= y /\ y <= lead.high /\ Rest)
    BY ScansLead
  <2> HIDE DEF Rest, x, y
  <2> QED
    BY <2>1, Zenon DEF Leads
<1>4. \A v \in Int : isContinuation(v) <=> v >= \h80 /\ v <= \hBF
  BY DEF isContinuation
<1> HIDE DEF s, x, y
<1>5. CASE k = 2
  <2>1. EncodesOne(s) <=> x >= \hC2 /\ x <= \hDF /\ isContinuation(y)
    BY <1>1, <1>2, <1>5, EncodesTwoBytes
  <2> QED
    BY <1>2, <1>1, <1>3, <1>4, <1>5, <2>1, LeadTable DEF EncodesAt, s
<1>6. CASE k = 3
  <2> DEFINE z == data[i + 2]
  <2>1. s[3] = z /\ z \in Int
    <3>1. 3 \in 1..k /\ i + 3 - 1 = i + 2
      BY <1>6
    <3> QED
      BY <1>1, <3>1
  <2>2. Rest <=> isContinuation(z)
    BY <1>6
  <2> HIDE DEF z, Rest
  <2>3. EncodesOne(s) <=>
             /\ x >= \hE0 /\ x <= \hEF /\ isContinuation(y) /\ isContinuation(z)
             /\ x = \hE0 => y >= \hA0
             /\ x = \hED => y <= \h9F
    <3>1. Len(s) = 3 /\ s[1] = x /\ s[2] = y /\ s[3] = z
      BY <1>1, <1>2, <1>6, <2>1
    <3>2. x \in Int /\ y \in Int /\ z \in Int
      BY <1>1, <1>2, <2>1
    <3> QED
      BY <3>1, <3>2, EncodesThreeBytes
  <2> QED
    BY <1>1, <1>2, <1>3, <1>4, <1>6, <2>1, <2>2, <2>3, LeadTable DEF EncodesAt, s
<1>7. CASE k = 4
  <2> DEFINE z == data[i + 2]
             t == data[i + 3]
  <2>1. s[3] = z /\ z \in Int /\ s[4] = t /\ t \in Int
    <3>1. 3 \in 1..k /\ i + 3 - 1 = i + 2 /\ 4 \in 1..k /\ i + 4 - 1 = i + 3
      BY <1>7
    <3> QED
      BY <1>1, <3>1
  <2>2. Rest <=> isContinuation(z) /\ isContinuation(t)
    BY <1>7
  <2> HIDE DEF z, t, Rest
  <2>3. EncodesOne(s) <=> FourBytes(x, y, z, t)
    <3>1. Len(s) = 4 /\ s[1] = x /\ s[2] = y /\ s[3] = z /\ s[4] = t
      BY <1>1, <1>2, <1>7, <2>1
    <3>2. x \in Int /\ y \in Int /\ z \in Int /\ t \in Int
      BY <1>1, <1>2, <2>1
    <3> HIDE DEF s
    <3> QED
      BY <3>1, <3>2, EncodesFourBytes
  <2> QED
    BY <1>1, <1>2, <1>3, <1>4, <1>7, <2>1, <2>2, <2>3, LeadTable DEF EncodesAt, s, FourBytes
<1> QED
  BY <1>5, <1>6, <1>7

-----------------------------------------------------------------------------
\* Positions reached from 0 by jumps of at most four, where E allows them.
Reaches(u, n, E) ==
    \A m \in 0..n : u[m] <=> m = 0 \/ \E k \in 1..4 : k <= m /\ u[m - k] /\ <<m, k>> \in E

\* There is a table of the lengths that are reached.
LEMMA ReachesExists ==
    ASSUME NEW n \in Nat, NEW E
    PROVE  \E u \in [0..n -> BOOLEAN] : Reaches(u, n, E)
<1> DEFINE S == {m \in Nat : \E u \in [0..m -> BOOLEAN] : Reaches(u, m, E)}
<1>1. 0 \in S
  <2> DEFINE u == [m \in 0..0 |-> TRUE]
  <2>1. u \in [0..0 -> BOOLEAN]
    OBVIOUS
  <2>2. Reaches(u, 0, E)
    BY DEF Reaches
  <2> QED
    BY <2>1, <2>2
<1>2. ASSUME NEW p \in Nat, p \in S PROVE p + 1 \in S
  <2>1. PICK g \in [0..p -> BOOLEAN] : Reaches(g, p, E)
    BY <1>2
  <2> DEFINE next == \E k \in 1..4 : k <= p + 1 /\ g[p + 1 - k] /\ <<p + 1, k>> \in E
             h == [m \in 0..(p + 1) |-> IF m = p + 1 THEN next ELSE g[m]]
  <2>2. h \in [0..(p + 1) -> BOOLEAN]
    <3>1. next \in BOOLEAN
      OBVIOUS
    <3> HIDE DEF next
    <3> QED
      BY <3>1
  <2>3. (h[p + 1] <=> next) /\ \A m \in 0..p : h[m] = g[m]
    <3> HIDE DEF next
    <3>1. p + 1 \in 0..(p + 1) /\ \A m \in 0..p : m \in 0..(p + 1) /\ m # p + 1
      OBVIOUS
    <3> QED
      BY <3>1, Zenon
  <2> HIDE DEF h
  <2>4. Reaches(h, p + 1, E)
    <3> DEFINE At(m) == h[m] <=> \/ m = 0
                                 \/ \E k \in 1..4 : k <= m /\ h[m - k] /\ <<m, k>> \in E
    <3>1. ASSUME NEW m \in 0..p PROVE At(m)
      <4>1. \A k \in 1..4 : k <= m => m - k \in 0..p
        OBVIOUS
      <4>2. \A k \in 1..4 : k <= m => h[m - k] = g[m - k]
        BY <2>3, <4>1
      <4>3. g[m] <=> m = 0 \/ \E k \in 1..4 : k <= m /\ g[m - k] /\ <<m, k>> \in E
        BY <2>1 DEF Reaches
      <4> QED
        BY <2>3, <4>2, <4>3
    <3>2. At(p + 1)
      <4>1. \A k \in 1..4 : k <= p + 1 => p + 1 - k \in 0..p
        OBVIOUS
      <4>2. \A k \in 1..4 : k <= p + 1 => h[p + 1 - k] = g[p + 1 - k]
        BY <2>3, <4>1
      <4>3. p + 1 # 0
        OBVIOUS
      <4> QED
        BY <2>3, <4>2, <4>3
    <3>3. \A m \in 0..(p + 1) : m \in 0..p \/ m = p + 1
      OBVIOUS
    <3>4. \A m \in 0..(p + 1) : At(m)
      <4> HIDE DEF At
      <4> QED
        BY <3>1, <3>2, <3>3
    <3> QED
      BY <3>4, Zenon DEF Reaches
  <2> QED
    BY <2>2, <2>4
<1> HIDE DEF S
<1>3. Nat \subseteq S
  BY <1>1, <1>2, SetInduction
<1> QED
  BY <1>3 DEF S

\* One step of isValidUtf8's scan, and of the definition of well-formedness.
ScanBody(data, v, i) ==
    \/ i > Len(data)
    \/ data[i] <= \h7F /\ v[i + 1]
    \/ \E lead \in Utf8Leads :
          /\ data[i] \in lead.first..lead.last
          /\ i + lead.size - 1 <= Len(data)
          /\ data[i + 1] \in lead.low..lead.high
          /\ \A k \in (i + 2)..(i + lead.size - 1) : isContinuation(data[k])
          /\ v[i + lead.size]

UptoBody(data, u, n) ==
    \/ n = 0
    \/ \E k \in 1..4 : /\ k <= n
                       /\ u[n - k]
                       /\ EncodesOne(SubSeq(data, n - k + 1, n))

\* A step of the scan takes one whole encoding.
LEMMA ScanStep ==
    ASSUME NEW data \in Seq(Int), NEW v, NEW i \in 1..Len(data)
    PROVE  ScanBody(data, v, i) <=>
             \E k \in 1..4 : i + k - 1 <= Len(data) /\ EncodesAt(data, i, k) /\ v[i + k]
<1>1. ScanBody(data, v, i) <=>
         \/ data[i] <= \h7F /\ v[i + 1]
         \/ \E lead \in Utf8Leads : Scans(data, i, lead) /\ v[i + lead.size]
  <2>1. ~(i > Len(data))
    OBVIOUS
  <2> QED
    BY <2>1, Zenon DEF ScanBody, Scans
<1>2. i + 1 - 1 <= Len(data) /\ (EncodesAt(data, i, 1) <=> data[i] <= \h7F)
  <2> DEFINE s == SubSeq(data, i, i + 1 - 1)
  <2>0. 1 \in 1..4 /\ i + 1 - 1 <= Len(data)
    OBVIOUS
  <2>1. Len(s) = 1 /\ s[1] = data[i] /\ data[i] \in Int
    BY <2>0, Piece, Zenon
  <2> HIDE DEF s
  <2>2. EncodesOne(s) <=> data[i] <= \h7F
    BY <2>1, EncodesOneByte
  <2> QED
    BY <2>0, <2>2 DEF EncodesAt, s
<1>3. ASSUME NEW k \in {2, 3, 4}
      PROVE  i + k - 1 <= Len(data) /\ EncodesAt(data, i, k) <=>
               \E lead \in Utf8Leads : lead.size = k /\ Scans(data, i, lead)
  <2>1. \A lead \in Utf8Leads : lead.size = k /\ Scans(data, i, lead) => i + k - 1 <= Len(data)
    BY DEF Scans
  <2> QED
    BY <2>1, ScansOne
<1>4. \A lead \in Utf8Leads : lead.size \in {2, 3, 4}
  BY LeadTypes
<1>5. 1..4 = {1} \cup {2, 3, 4}
  OBVIOUS
<1> HIDE DEF EncodesAt, Scans
<1>6. ASSUME ScanBody(data, v, i)
      PROVE  \E k \in 1..4 : i + k - 1 <= Len(data) /\ EncodesAt(data, i, k) /\ v[i + k]
  <2>1. CASE data[i] <= \h7F /\ v[i + 1]
    BY <1>2, <1>5, <2>1
  <2>2. ASSUME NEW lead \in Utf8Leads, Scans(data, i, lead), v[i + lead.size]
        PROVE  \E k \in 1..4 : i + k - 1 <= Len(data) /\ EncodesAt(data, i, k) /\ v[i + k]
    <3>1. PICK k \in {2, 3, 4} : lead.size = k
      BY <1>4
    <3>2. i + k - 1 <= Len(data) /\ EncodesAt(data, i, k)
      BY <1>3, <2>2, <3>1
    <3>3. k \in 1..4 /\ v[i + k]
      BY <2>2, <3>1
    <3> QED
      BY <3>2, <3>3
  <2> QED
    BY <1>1, <1>6, <2>1, <2>2
<1>7. ASSUME NEW k \in 1..4, i + k - 1 <= Len(data), EncodesAt(data, i, k), v[i + k]
      PROVE  ScanBody(data, v, i)
  <2>1. CASE k = 1
    BY <1>1, <1>2, <1>7, <2>1
  <2>2. CASE k \in {2, 3, 4}
    <3>1. PICK lead \in Utf8Leads : lead.size = k /\ Scans(data, i, lead)
      BY <1>3, <1>7, <2>2
    <3>2. v[i + lead.size]
      BY <1>7, <3>1
    <3> QED
      BY <1>1, <3>1, <3>2
  <2> QED
    BY <1>5, <2>1, <2>2
<1> QED
  BY <1>6, <1>7

\* The scan's verdict, and the definition of well-formedness, as tables of the
\* positions they pass through.
Scanned(data, v) ==
    \A i \in 1..(Len(data) + 1) :
        v[i] <=> \/ i = Len(data) + 1
                 \/ \E k \in 1..4 : i + k - 1 <= Len(data) /\ EncodesAt(data, i, k) /\ v[i + k]

Formed(data, u) ==
    \A m \in 0..Len(data) :
        u[m] <=> \/ m = 0
                 \/ \E k \in 1..4 : k <= m /\ u[m - k] /\ EncodesAt(data, m - k + 1, k)

\* isValidUtf8 reads its verdict off a table filled from the end.
LEMMA ValidUtf8Table ==
    ASSUME NEW data \in Seq(Int)
    PROVE  \E v : Scanned(data, v) /\ (isValidUtf8(data) <=> v[1])
<1> DEFINE n == Len(data)
           P(f) == f = [i \in 1..(Len(data) + 1) |-> ScanBody(data, f, i)]
           c == CHOOSE f : P(f)
           E == {p \in (0..n) \X (1..4) : p[2] <= p[1] /\ EncodesAt(data, n + 1 - p[1], p[2])}
<1>1. n \in Nat
  OBVIOUS
<1>2. isValidUtf8(data) <=> c[1]
  BY Zenon DEF isValidUtf8, ScanBody
<1>3. PICK u \in [0..n -> BOOLEAN] : Reaches(u, n, E)
  BY <1>1, ReachesExists
<1> DEFINE v == [i \in 1..(n + 1) |-> u[n + 1 - i]]
<1>4. \A i \in 1..(n + 1) : v[i] = u[n + 1 - i] /\ n + 1 - i \in 0..n /\ v[i] \in BOOLEAN
  BY <1>1, <1>3
<1>5. DOMAIN v = 1..(n + 1) /\ v = [i \in 1..(n + 1) |-> v[i]]
  OBVIOUS
<1> HIDE DEF v
<1>6. ASSUME NEW i \in 1..n
      PROVE  v[i] <=> \E k \in 1..4 : i + k - 1 <= n /\ EncodesAt(data, i, k) /\ v[i + k]
  <2> DEFINE m == n + 1 - i
  <2>1. m \in 0..n /\ m # 0 /\ n + 1 - m = i /\ i \in 1..(n + 1)
    BY <1>1
  <2>2. \A k \in 1..4 : <<m, k>> \in E <=> k <= m /\ EncodesAt(data, i, k)
    BY <2>1
  <2>3. \A k \in 1..4 : k <= m <=> i + k - 1 <= n
    BY <1>1
  <2>4. \A k \in 1..4 : k <= m => i + k \in 1..(n + 1) /\ m - k = n + 1 - (i + k)
    BY <1>1
  <2>5. \A k \in 1..4 : k <= m => v[i + k] = u[m - k]
    BY <1>4, <2>4
  <2>6. u[m] <=> \E k \in 1..4 : k <= m /\ u[m - k] /\ <<m, k>> \in E
    BY <1>3, <2>1 DEF Reaches
  <2>7. v[i] = u[m]
    BY <1>4, <2>1
  <2> HIDE DEF m, E
  <2> QED
    BY <2>2, <2>3, <2>5, <2>6, <2>7
<1>7. v[n + 1]
  <2>1. n + 1 \in 1..(n + 1) /\ n + 1 - (n + 1) = 0 /\ 0 \in 0..n
    BY <1>1
  <2>2. u[0]
    BY <1>3, <2>1, Zenon DEF Reaches
  <2> QED
    BY <1>4, <2>1, <2>2
<1>8. P(v)
  <2>1. ASSUME NEW i \in 1..(n + 1) PROVE v[i] = ScanBody(data, v, i)
    <3>1. v[i] <=> ScanBody(data, v, i)
      <4>1. CASE i \in 1..n
        <5>1. v[i] <=> \E k \in 1..4 : i + k - 1 <= n /\ EncodesAt(data, i, k) /\ v[i + k]
          BY <1>6, <4>1
        <5>2. ScanBody(data, v, i) <=>
                \E k \in 1..4 : i + k - 1 <= n /\ EncodesAt(data, i, k) /\ v[i + k]
          BY <4>1, ScanStep
        <5> QED
          BY <5>1, <5>2, Zenon
      <4>2. CASE i = n + 1
        <5>1. i > Len(data)
          BY <1>1, <4>2
        <5>2. ScanBody(data, v, i)
          BY <5>1, Zenon DEF ScanBody
        <5> QED
          BY <1>7, <4>2, <5>2, Zenon
      <4> QED
        BY <1>1, <4>1, <4>2
    <3>2. ScanBody(data, v, i) \in BOOLEAN
      BY Zenon DEF ScanBody
    <3>3. v[i] \in BOOLEAN
      BY <1>4
    <3> QED
      BY <3>1, <3>2, <3>3, Zenon
  <2> QED
    BY <1>5, <2>1, Zenon
<1>9. P(c)
  <2> HIDE DEF P
  <2> QED
    BY <1>8, Zenon
<1> HIDE DEF c
<1>10. Scanned(data, c)
  <2> SUFFICES ASSUME NEW i \in 1..(n + 1)
               PROVE  c[i] <=> \/ i = n + 1
                               \/ \E k \in 1..4 : /\ i + k - 1 <= n /\ EncodesAt(data, i, k)
                                                  /\ c[i + k]
    BY Zenon DEF Scanned
  <2>1. c[i] = ScanBody(data, c, i)
    BY <1>9, Zenon
  <2>2. CASE i \in 1..n
    <3>1. ScanBody(data, c, i) <=>
             \E k \in 1..4 : i + k - 1 <= n /\ EncodesAt(data, i, k) /\ c[i + k]
      BY <2>2, ScanStep
    <3>2. i # n + 1
      BY <1>1, <2>2
    <3> QED
      BY <2>1, <3>1, <3>2, Zenon
  <2>3. CASE i = n + 1
    <3>1. i > Len(data)
      BY <1>1, <2>3
    <3>2. ScanBody(data, c, i)
      BY <3>1, Zenon DEF ScanBody
    <3> QED
      BY <2>1, <2>3, <3>2, Zenon
  <2> QED
    BY <1>1, <2>2, <2>3
<1> QED
  BY <1>2, <1>10

\* WellFormedUtf8 reads its verdict off a table filled from the start.
LEMMA WellFormedTable ==
    ASSUME NEW data \in Seq(Int)
    PROVE  \E u : Formed(data, u) /\ (WellFormedUtf8(data) <=> u[Len(data)])
<1> DEFINE n == Len(data)
           P(f) == f = [m \in 0..Len(data) |-> UptoBody(data, f, m)]
           c == CHOOSE f : P(f)
           E == {p \in (0..n) \X (1..4) : p[2] <= p[1] /\ EncodesAt(data, p[1] - p[2] + 1, p[2])}
<1>1. n \in Nat
  OBVIOUS
<1>2. WellFormedUtf8(data) <=> c[n]
  BY Zenon DEF WellFormedUtf8, UptoBody
<1>3. PICK u \in [0..n -> BOOLEAN] : Reaches(u, n, E)
  BY <1>1, ReachesExists
<1>4. ASSUME NEW f, NEW m \in 0..n
      PROVE  UptoBody(data, f, m) <=>
               m = 0 \/ \E k \in 1..4 : k <= m /\ f[m - k] /\ EncodesAt(data, m - k + 1, k)
  <2>1. \A k \in 1..4 : (m - k + 1) + k - 1 = m
    BY <1>1
  <2>2. \A k \in 1..4 : EncodesAt(data, m - k + 1, k)
                          <=> EncodesOne(SubSeq(data, m - k + 1, m))
    BY <2>1 DEF EncodesAt
  <2> QED
    BY <2>2, Zenon DEF UptoBody
<1>5. ASSUME NEW m \in 0..n
      PROVE  u[m] <=> m = 0 \/ \E k \in 1..4 : k <= m /\ u[m - k] /\ EncodesAt(data, m - k + 1, k)
  <2>1. \A k \in 1..4 : <<m, k>> \in E <=> k <= m /\ EncodesAt(data, m - k + 1, k)
    OBVIOUS
  <2>2. u[m] <=> m = 0 \/ \E k \in 1..4 : k <= m /\ u[m - k] /\ <<m, k>> \in E
    BY <1>3, Zenon DEF Reaches
  <2> HIDE DEF E
  <2> QED
    BY <2>1, <2>2, Zenon
<1>6. P(u)
  <2>1. ASSUME NEW m \in 0..n PROVE u[m] = UptoBody(data, u, m)
    <3>1. u[m] <=> UptoBody(data, u, m)
      BY <1>4, <1>5, Zenon
    <3>2. UptoBody(data, u, m) \in BOOLEAN
      BY Zenon DEF UptoBody
    <3>3. u[m] \in BOOLEAN
      BY <1>3
    <3> QED
      BY <3>1, <3>2, <3>3, Zenon
  <2>2. u = [m \in 0..n |-> u[m]]
    BY <1>3
  <2> QED
    BY <2>1, <2>2, Zenon
<1>7. P(c)
  <2> HIDE DEF P
  <2> QED
    BY <1>6, Zenon
<1> HIDE DEF c
<1>8. Formed(data, c)
  <2> SUFFICES ASSUME NEW m \in 0..n
               PROVE  c[m] <=> \/ m = 0
                               \/ \E k \in 1..4 : /\ k <= m /\ c[m - k]
                                                  /\ EncodesAt(data, m - k + 1, k)
    BY Zenon DEF Formed
  <2>1. c[m] = UptoBody(data, c, m)
    BY <1>7, Zenon
  <2> QED
    BY <1>4, <2>1, Zenon
<1> QED
  BY <1>2, <1>8

\* The scan of InboundParser.h accepts exactly the well-formed UTF-8 texts: the
\* sequences of Unicode scalar values, each in its shortest encoding.
THEOREM Utf8Exact ==
    ASSUME NEW data \in Seq(Int)
    PROVE  isValidUtf8(data) <=> WellFormedUtf8(data)
<1> DEFINE n == Len(data)
<1>0. n \in Nat
  OBVIOUS
<1>1. PICK v : Scanned(data, v) /\ (isValidUtf8(data) <=> v[1])
  BY ValidUtf8Table
<1>2. PICK u : Formed(data, u) /\ (WellFormedUtf8(data) <=> u[n])
  BY WellFormedTable
<1>3. ASSUME NEW i \in 1..n
      PROVE  v[i] <=> \E k \in 1..4 : i + k - 1 <= n /\ EncodesAt(data, i, k) /\ v[i + k]
  <2>1. i \in 1..(n + 1) /\ i # n + 1
    BY <1>0
  <2> QED
    BY <1>1, <2>1, Zenon DEF Scanned
<1>4. ASSUME NEW m \in 1..n
      PROVE  u[m] <=> \E k \in 1..4 : k <= m /\ u[m - k] /\ EncodesAt(data, m - k + 1, k)
  <2>1. m \in 0..n /\ m # 0
    BY <1>0
  <2> QED
    BY <1>2, <2>1, Zenon DEF Formed
<1>5. v[n + 1] /\ u[0]
  <2>1. n + 1 \in 1..(n + 1) /\ 0 \in 0..n
    BY <1>0
  <2> QED
    BY <1>1, <1>2, <2>1, Zenon DEF Scanned, Formed
<1>6. ASSUME v[1] PROVE u[n]
  <2> DEFINE S == {d \in Nat : \A i \in 1..(n + 1) : n + 1 - i <= d /\ u[i - 1] /\ v[i] => u[n]}
  <2>1. 0 \in S
    <3> SUFFICES ASSUME NEW i \in 1..(n + 1), n + 1 - i <= 0, u[i - 1], v[i] PROVE u[n]
      OBVIOUS
    <3>1. i - 1 = n
      BY <1>0
    <3> QED
      BY <3>1
  <2>2. ASSUME NEW d \in Nat, d \in S PROVE d + 1 \in S
    <3> SUFFICES ASSUME NEW i \in 1..(n + 1), n + 1 - i <= d + 1, u[i - 1], v[i] PROVE u[n]
      OBVIOUS
    <3>1. CASE i = n + 1
      <4>1. i - 1 = n
        BY <1>0, <3>1
      <4> QED
        BY <4>1
    <3>2. CASE i \in 1..n
      <4>1. PICK k \in 1..4 : i + k - 1 <= n /\ EncodesAt(data, i, k) /\ v[i + k]
        BY <1>3, <3>2
      <4> DEFINE m == i + k - 1
      <4>2. /\ m \in 1..n /\ k <= m /\ m - k = i - 1 /\ m - k + 1 = i
            /\ i + k \in 1..(n + 1) /\ (i + k) - 1 = m /\ n + 1 - (i + k) <= d
        BY <1>0, <3>2, <4>1
      <4>3. k <= m /\ u[m - k] /\ EncodesAt(data, m - k + 1, k)
        BY <4>1, <4>2
      <4>4. u[m]
        BY <1>4, <4>2, <4>3
      <4> QED
        BY <2>2, <4>1, <4>2, <4>4
    <3> QED
      BY <1>0, <3>1, <3>2
  <2> HIDE DEF S
  <2>3. Nat \subseteq S
    BY <2>1, <2>2, SetInduction
  <2>4. n \in S /\ 1 \in 1..(n + 1) /\ n + 1 - 1 <= n /\ 1 - 1 = 0
    BY <1>0, <2>3
  <2> QED
    BY <1>5, <1>6, <2>4 DEF S
<1>7. ASSUME u[n] PROVE v[1]
  <2> DEFINE S == {d \in Nat : \A m \in 0..n : m <= d /\ u[m] /\ v[m + 1] => v[1]}
  <2>1. 0 \in S
    <3> SUFFICES ASSUME NEW m \in 0..n, m <= 0, u[m], v[m + 1] PROVE v[1]
      OBVIOUS
    <3>1. m + 1 = 1
      BY <1>0
    <3> QED
      BY <3>1
  <2>2. ASSUME NEW d \in Nat, d \in S PROVE d + 1 \in S
    <3> SUFFICES ASSUME NEW m \in 0..n, m <= d + 1, u[m], v[m + 1] PROVE v[1]
      OBVIOUS
    <3>1. CASE m = 0
      BY <3>1
    <3>2. CASE m \in 1..n
      <4>1. PICK k \in 1..4 : k <= m /\ u[m - k] /\ EncodesAt(data, m - k + 1, k)
        BY <1>4, <3>2
      <4> DEFINE i == m - k + 1
      <4>2. /\ i \in 1..n /\ i + k - 1 <= n /\ i + k = m + 1
            /\ m - k \in 0..n /\ m - k <= d /\ (m - k) + 1 = i
        BY <1>0, <3>2, <4>1
      <4>3. i + k - 1 <= n /\ EncodesAt(data, i, k) /\ v[i + k]
        BY <4>1, <4>2
      <4>4. v[i]
        BY <1>3, <4>2, <4>3
      <4> QED
        BY <2>2, <4>1, <4>2, <4>4
    <3> QED
      BY <1>0, <3>1, <3>2
  <2> HIDE DEF S
  <2>3. Nat \subseteq S
    BY <2>1, <2>2, SetInduction
  <2>4. n \in S /\ n \in 0..n /\ n <= n
    BY <1>0, <2>3
  <2> QED
    BY <1>5, <1>7, <2>4 DEF S
<1> QED
  BY <1>1, <1>2, <1>6, <1>7

-----------------------------------------------------------------------------
(* The identity. *)

\* Each part is a string that was short enough to be copied, or empty.
IdentityPart(s) == s \in ApiTexts \ {Null} /\ Len(s) <= MaxNameBytes

IdentityOK ==
    /\ identity = [board_id |-> identity.board_id,
                   protocol_version |-> identity.protocol_version,
                   firmware_version |-> identity.firmware_version]
    /\ IdentityPart(identity.board_id) /\ IdentityPart(identity.protocol_version)
    /\ IdentityPart(identity.firmware_version)

\* The empty string is a part of an identity.
LEMMA EmptyPart == IdentityPart(EmptyText)
<1>1. EmptyText \in ApiTexts
  BY DEF ApiTexts
<1>2. Len(EmptyText) <= MaxNameBytes
  <2>1. Len(EmptyText) = 0 /\ MaxNameBytes \in Nat
    BY TextAssumption, LimitAssumption
  <2> QED
    BY <2>1
<1> QED
  BY <1>1, <1>2, TextAssumption DEF IdentityPart

\* What copyRequired accepts is a part of an identity.
LEMMA CopiedPart ==
    ASSUME NEW id \in Identities, NEW s \in {id.board_id, id.protocol_version, id.firmware_version},
           copyRequired(s) = "Ok"
    PROVE  IdentityPart(s)
<1>1. s # Null /\ ~(Len(s) > MaxNameBytes)
  BY DEF copyRequired
<1>2. s \in ApiTexts
  BY DEF ApiTexts
<1>3. Len(s) \in Nat /\ MaxNameBytes \in Nat
  BY <1>1, <1>2, TextAssumption, LimitAssumption
<1>4. Len(s) <= MaxNameBytes
  BY <1>1, <1>3
<1> QED
  BY <1>1, <1>2, <1>4 DEF IdentityPart

\* setIdentity leaves an identity of such parts, also when it stops half-way.
LEMMA SetIdentityOK ==
    ASSUME NEW id \in Identities, IdentityOK, setIdentity(id)
    PROVE  IdentityOK'
<1>1. CASE sealed
  <2>1. identity' = identity
    BY <1>1, Zenon DEF setIdentity
  <2> QED
    BY <2>1 DEF IdentityOK, IdentityPart
<1>2. CASE ~sealed
  <2> DEFINE refused == {i \in 1..3 : copyRequired(id[IdentityParts[i]]) # "Ok"}
             reached == IF refused = {} THEN 3 ELSE Min(refused)
             Stored(i) == IF i \in refused THEN EmptyText ELSE id[IdentityParts[i]]
             Which(p) == CHOOSE k \in 1..3 : IdentityParts[k] = p
             Part(i, p) == IF i <= reached THEN Stored(i) ELSE identity[p]
  <2>1. identity' = [p \in DOMAIN identity |-> Part(Which(p), p)]
    BY <1>2, Zenon DEF setIdentity
  <2>2. DOMAIN identity = {"board_id", "protocol_version", "firmware_version"}
    BY DEF IdentityOK
  <2>3. /\ IdentityParts[1] = "board_id" /\ IdentityParts[2] = "protocol_version"
        /\ IdentityParts[3] = "firmware_version"
    BY DEF IdentityParts
  <2>4. /\ Which("board_id") = 1 /\ Which("protocol_version") = 2
        /\ Which("firmware_version") = 3
    <3>1. "board_id" # "protocol_version" /\ "board_id" # "firmware_version"
          /\ "protocol_version" # "firmware_version"
      OBVIOUS
    <3>2. \A k : k \in 1..3 <=> k = 1 \/ k = 2 \/ k = 3
      OBVIOUS
    <3> QED
      BY <2>3, <3>1, <3>2
  <2>5. ASSUME NEW i \in 1..3, NEW p \in DOMAIN identity, IdentityParts[i] = p
        PROVE  IdentityPart(Part(i, p))
    <3>1. CASE i <= reached /\ i \in refused
      BY <3>1, EmptyPart
    <3>2. CASE i <= reached /\ i \notin refused
      <4>1. Part(i, p) = id[p] /\ copyRequired(id[p]) = "Ok"
        BY <2>5, <3>2
      <4>2. id[p] \in {id.board_id, id.protocol_version, id.firmware_version}
        BY <2>2
      <4> QED
        BY <4>1, <4>2, CopiedPart
    <3>3. CASE ~(i <= reached)
      <4>1. Part(i, p) = identity[p]
        BY <3>3
      <4>2. IdentityPart(identity[p])
        BY <2>2 DEF IdentityOK
      <4> QED
        BY <4>1, <4>2
    <3> QED
      BY <3>1, <3>2, <3>3
  <2> HIDE DEF Part, Which
  <2>6. PICK f : f = identity'
    OBVIOUS
  <2>7. f = [p \in {"board_id", "protocol_version", "firmware_version"} |-> Part(Which(p), p)]
    BY <2>1, <2>2, <2>6
  <2>8. /\ f.board_id = Part(1, "board_id") /\ f.protocol_version = Part(2, "protocol_version")
        /\ f.firmware_version = Part(3, "firmware_version")
    BY <2>4, <2>7
  <2>9. /\ IdentityPart(f.board_id) /\ IdentityPart(f.protocol_version)
        /\ IdentityPart(f.firmware_version)
    BY <2>2, <2>3, <2>5, <2>8
  <2>10. f = [board_id |-> f.board_id, protocol_version |-> f.protocol_version,
              firmware_version |-> f.firmware_version]
    BY <2>7
  <2> QED
    BY <2>6, <2>9, <2>10 DEF IdentityOK, IdentityPart
<1> QED
  BY <1>1, <1>2

\* Every step does.
LEMMA IdentityStep ==
    ASSUME IdentityOK, [Next]_vars
    PROVE  IdentityOK'
<1>1. CASE SetIdentity
  BY <1>1, SetIdentityOK DEF SetIdentity
<1>2. CASE UNCHANGED identity
  BY <1>2 DEF IdentityOK, IdentityPart
<1>3. SetIdentity \/ UNCHANGED identity
  BY Zenon
    DEF Next, Configure, SetNetworkConfig, setNetworkConfig, RegisterCommand,
        RegisterOneCommand, enableCountersDiagnosticCommand, registerTelemetrySchema,
        registerStateSchema, setTelemetryProvider, setEstopHook, setControllerLossHook,
        start, PromoteConnection, ReceiveLine, ReleaseLine, registryVars, identityVars, vars
<1> QED
  BY <1>1, <1>2, <1>3

\* The identity has its three parts in every state, none longer than a name may be.
LEMMA IdentitySound == Spec => []IdentityOK
<1>1. Init => IdentityOK
  <2>1. Init => identity = [board_id |-> EmptyText, protocol_version |-> EmptyText,
                            firmware_version |-> EmptyText]
    BY DEF Init, RegistryInit
  <2> QED
    BY <2>1, EmptyPart DEF IdentityOK, IdentityPart
<1>2. IdentityOK /\ [Next]_vars => IdentityOK'
  BY IdentityStep
<1> QED
  BY <1>1, <1>2, PTL DEF Spec

-----------------------------------------------------------------------------
(* Which lines have an effect. *)

\* The lines the board must act on, for a board of the given name.
ForBoard(line, name) ==
    /\ Complete(line)
    /\ line.source = "controller" /\ line.target = name
    /\ line.type = "command" => line.copy_fits

ActsFor(h, name) == (h.ran # "None" \/ h.reply # NoReply) <=> ForBoard(h.line, name)

\* The parser, the gate and the address check let exactly those lines through.
LEMMA AdmittedExactly ==
    ASSUME NEW line \in Lines, IdentityOK
    PROVE  Admitted(line) <=> ForBoard(line, identity.board_id)
<1>1. isValidUtf8(line.text) <=> WellFormedUtf8(line.text)
  <2>1. line.text \in Seq(Byte)
    BY TextAssumption
  <2>2. Byte \subseteq Int
    BY DEF Byte
  <2>3. line.text \in Seq(Int)
    <3> DEFINE text == line.text
    <3> HIDE DEF text
    <3>1. /\ Len(text) \in Nat /\ \A k \in 1..Len(text) : text[k] \in Byte
          /\ text = [k \in 1..Len(text) |-> text[k]]
      BY <2>1 DEF text
    <3>2. \A k \in 1..Len(text) : text[k] \in Int
      BY <2>2, <3>1
    <3>3. text \in Seq(Int)
      BY <3>1, <3>2
    <3> QED
      BY <3>3 DEF text
  <2> QED
    BY <2>3, Utf8Exact
<1>2. Complete(line) <=> Whole(line) /\ WellFormedUtf8(line.text)
  BY Zenon DEF Complete, Whole
<1>3. /\ Len(identity.board_id) <= MaxNameBytes /\ Len("controller") <= MaxNameBytes
  BY TextAssumption DEF IdentityOK, IdentityPart
<1>4. ASSUME Whole(line), line.source = "controller", line.target = identity.board_id
      PROVE  GateValid(line) <=> line.copy_fits
  <2>1. line.shape = "object" /\ getString(line.source) /\ getString(line.target)
    BY <1>4, Zenon DEF Whole, getString
  <2> QED
    BY <1>3, <1>4, <2>1 DEF GateValid
<1> QED
  BY <1>1, <1>2, <1>4 DEF Admitted, ForBoard, validControllerTarget

\* An admitted line runs something or is answered, and no other line is.
LEMMA LedToActs ==
    ASSUME NEW h, NEW line, LedTo(h, line), CommandsOK
    PROVE  h.line = line /\ ((h.ran # "None" \/ h.reply # NoReply) <=> Admitted(line))
<1>1. NoReply.kind = "None"
  BY DEF NoReply
<1>2. ASSUME NEW counted, IsDropped(h, line, counted)
      PROVE  h.line = line /\ h.ran = "None" /\ h.reply = NoReply
  BY <1>2 DEF IsDropped
<1>3. ASSUME IsAnswered(h, line) PROVE h.line = line /\ h.reply # NoReply
  BY <1>1, <1>3, AnswerFields
<1>4. h.reply.kind = "HeartbeatAck" => h.reply # NoReply
  BY <1>1
<1>5. CASE ~Admitted(line)
  BY <1>2, <1>5, Zenon DEF LedTo
<1>6. CASE Admitted(line) /\ line.type = "command" /\ IsAnswered(h, line)
  BY <1>3, <1>6
<1>7. CASE Admitted(line) /\ h.line = line /\ h.ran = "hook"
  BY <1>7
<1>8. CASE Admitted(line) /\ h.line = line /\ h.reply.kind = "HeartbeatAck"
  BY <1>4, <1>8
<1> QED
  BY <1>5, <1>6, <1>7, <1>8, Zenon DEF LedTo

\* A complete message, in well-formed UTF-8, from the controller to this board
\* has its effect unless it is a command too long for the gate's copy; no other
\* line runs application code, and none is answered but, with an error, a
\* recoverable command to this board: whatever bytes are sent (ServiceLoop's
\* processLine with extractSourceTarget, InboundParser's parse) and however the
\* application called the API before.
THEOREM ActsOnMessages == Spec => []ActsOnlyWhenAddressed
<1> DEFINE Inv == last.line # Null => ActsFor(last, identity.board_id)
<1>0. NoLine.line = Null
  BY DroppedFields DEF NoLine, IsDropped
<1>1. Init => Inv
  BY <1>0 DEF Init
<1>2. RegistryOK /\ IdentityOK /\ Inv /\ [Next]_vars => Inv'
  <2> SUFFICES ASSUME RegistryOK, IdentityOK, Inv, [Next]_vars PROVE Inv'
    OBVIOUS
  <2>1. CASE last' = NoLine
    BY <1>0, <2>1
  <2>2. CASE UNCHANGED <<last, commands, identity>>
    BY <2>2
  <2>3. ASSUME NEW line \in Lines, processLine(line), UNCHANGED <<commands, identity>> PROVE Inv'
    <3>1. PICK h : h = last' /\ LedTo(h, line)
      BY <2>3, LineLedTo
    <3>2. ActsFor(h, identity.board_id)
      <4>1. h.line = line /\ ((h.ran # "None" \/ h.reply # NoReply) <=> Admitted(line))
        BY <3>1, LedToActs DEF RegistryOK
      <4>2. Admitted(line) <=> ForBoard(line, identity.board_id)
        BY AdmittedExactly
      <4> QED
        BY <4>1, <4>2 DEF ActsFor
    <3> QED
      BY <2>3, <3>1, <3>2
  <2> QED
    BY <2>1, <2>2, <2>3, LineInHand
<1>3. Inv => ActsOnlyWhenAddressed
  <2> SUFFICES ASSUME Inv, last.line # Null PROVE ActsOnlyWhenAddressed
    BY Zenon DEF ActsOnlyWhenAddressed
  <2>1. (last.ran # "None" \/ last.reply # NoReply)
          <=> /\ Complete(last.line)
              /\ Addressed(last.line)
              /\ last.line.type = "command" => last.line.copy_fits
    BY DEF ActsFor, ForBoard, Addressed
  <2> QED
    BY <2>1, Zenon DEF ActsOnlyWhenAddressed
<1> QED
  BY <1>1, <1>2, <1>3, RegistrySound, IdentitySound, PTL DEF Spec

-----------------------------------------------------------------------------
(* A chain of calls of the writer. *)

\* The strings, tokens and calls that a schema is made of.
Strings == (LibraryTexts \cup ApiTexts) \ {Null}
Tokens ==
    {Quoted(s) : s \in Strings} \cup {Opening, Closing, Comma, Colon, LineEnd}
    \cup {Flag(TRUE), Flag(FALSE), Token("1", 1), WidestTimestamp} \cup Timestamps
Calls ==
    {Field(n) : n \in Strings} \cup {End} \cup {Text(n, v) : n \in Strings, v \in Strings}
    \cup {Literal(n, v) : n \in Strings, v \in Tokens}

\* Tokens have a size, and so have quoted strings.
LEMMA TokensVocabulary ==
    /\ IsVocabulary(Tokens)
    /\ \A s \in Strings : s # Null /\ Quoted(s) \in Tokens
<1>1. ASSUME NEW s \in Strings PROVE s # Null /\ Quoted(s).bytes \in Nat
  <2>1. Len(s) \in Nat /\ Escapes(s) \in Nat
    BY TextAssumption DEF Strings
  <2>2. Quoted(s).bytes = Len(s) + Escapes(s) + 2
    BY DEF Quoted, Token
  <2> QED
    BY <2>1, <2>2 DEF Strings
<1>2. /\ Opening.bytes \in Nat /\ Closing.bytes \in Nat /\ Comma.bytes \in Nat
      /\ Colon.bytes \in Nat /\ LineEnd.bytes \in Nat
  BY OneByteEach
<1>3. Flag(TRUE).bytes \in Nat /\ Flag(FALSE).bytes \in Nat /\ Token("1", 1).bytes \in Nat
  BY DEF Flag, Token
<1>4. \A t \in Timestamps \cup {WidestTimestamp} : t.bytes \in Nat
  BY SchemaAssumption
<1>5. ASSUME NEW t \in Tokens PROVE t.bytes \in Nat
  BY <1>1, <1>2, <1>3, <1>4, Zenon DEF Tokens
<1> QED
  BY <1>1, <1>5, Zenon DEF IsVocabulary, Tokens

\* What a call reports, and the writer it leaves.
Result == [ok : BOOLEAN, w : Writer(Tokens)]

\* A refused call leaves a writer.
LEMMA RefuseType ==
    ASSUME NEW w \in Writer(Tokens)
    PROVE  Refuse(w) \in Result /\ Refuse(w).w.depth = w.depth
<1> DEFINE v == [w EXCEPT !.failed = TRUE]
<1>1. v \in Writer(Tokens) /\ v.depth = w.depth
  BY DEF Writer
<1>2. Refuse(w) = [ok |-> FALSE, w |-> v]
  BY DEF Refuse
<1> HIDE DEF v
<1> QED
  BY <1>1, <1>2 DEF Result

\* Writing leaves a writer.
LEMMA WriteType ==
    ASSUME NEW w \in Writer(Tokens), NEW q \in Seq(Tokens)
    PROVE  Write(w, q) \in Result /\ Write(w, q).w.depth = w.depth
<1>1. CASE Bytes(q) > remaining(w)
  BY <1>1, RefuseType DEF Write
<1>2. CASE ~(Bytes(q) > remaining(w))
  <2>1. Bytes(q) \in Nat
    BY TokensVocabulary, CatBytes DEF IsVocabulary
  <2>2. w.out \in Seq(Tokens) /\ w.length \in Nat
    BY DEF Writer
  <2> DEFINE y == w.out \o q
             n == w.length + Bytes(q)
  <2>3. y \in Seq(Tokens) /\ n \in Nat
    BY <2>1, <2>2, Closed
  <2> HIDE DEF y, n
  <2> DEFINE v == [w EXCEPT !.out = y, !.length = n]
  <2>4. v \in Writer(Tokens) /\ v.depth = w.depth
    BY <2>3 DEF Writer
  <2>5. Write(w, q) = [ok |-> TRUE, w |-> v]
    BY <1>2 DEF Write, y, n
  <2> HIDE DEF v
  <2> QED
    BY <2>4, <2>5 DEF Result
<1> QED
  BY <1>1, <1>2

\* Adding a member leaves a writer.
LEMMA AddMemberType ==
    ASSUME NEW w \in Writer(Tokens), w.depth > 0, NEW n \in Strings, NEW v \in Tokens
    PROVE  AddMember(w, n, v) \in Result /\ AddMember(w, n, v).w.depth = w.depth
<1> DEFINE u == [w EXCEPT !.first[w.depth] = FALSE]
           q == FieldPrefix(w, n) \o <<v>>
           r == Write(u, q)
<1>1. u \in Writer(Tokens) /\ u.depth = w.depth
  BY DEF Writer
<1>2. q \in Seq(Tokens)
  <2> DEFINE c == IF w.first[w.depth] THEN <<>> ELSE <<Comma>>
             k == <<Quoted(n), Colon>>
  <2>1. c \in Seq(Tokens) /\ k \in Seq(Tokens) /\ <<v>> \in Seq(Tokens)
    BY TokensVocabulary DEF IsVocabulary
  <2>2. q = Cat(Cat(c, k), <<v>>)
    BY Zenon DEF FieldPrefix, Cat
  <2> HIDE DEF c, k, q
  <2> QED
    BY <2>1, <2>2, CatType
<1>3. AddMember(w, n, v) = IF r.ok THEN r ELSE Refuse(w)
  BY DEF AddMember, Member
<1> HIDE DEF u, q
<1>4. r \in Result /\ r.w.depth = w.depth
  BY <1>1, <1>2, WriteType
<1> HIDE DEF r
<1> QED
  BY <1>3, <1>4, RefuseType

\* Opening an object leaves a writer.
LEMMA OpenedType ==
    ASSUME NEW r \in Result, r.w.depth < MaxDepth
    PROVE  Opened(r) \in Result
<1>1. CASE ~r.ok
  BY <1>1 DEF Opened
<1>2. CASE r.ok
  <2> DEFINE u == r.w
             v == [u EXCEPT !.depth = @ + 1, !.first[u.depth + 1] = TRUE]
  <2>1. r = [ok |-> r.ok, w |-> r.w] /\ u \in Writer(Tokens) /\ r.ok \in BOOLEAN
    BY DEF Result
  <2>2. Opened(r) = [ok |-> r.ok, w |-> v]
    BY <1>2, <2>1 DEF Opened
  <2>3. v \in Writer(Tokens)
    <3>1. u.depth < MaxDepth
      OBVIOUS
    <3> HIDE DEF u
    <3>2. PICK x : x = v
      OBVIOUS
    <3>3. Deeper(x, u, Tokens)
      BY <2>1, <3>1, <3>2, WriterDeeper, Zenon
    <3> HIDE DEF v
    <3> QED
      BY <3>2, <3>3 DEF Deeper
  <2> HIDE DEF v, u
  <2> QED
    BY <2>1, <2>2, <2>3 DEF Result
<1> QED
  BY <1>1, <1>2

\* Closing an object leaves a writer.
LEMMA EndObjectType ==
    ASSUME NEW w \in Writer(Tokens)
    PROVE  endObject(w) \in Result
<1> DEFINE q == <<Closing>>
           r == Write(w, q)
<1>1. q \in Seq(Tokens)
  BY TokensVocabulary DEF IsVocabulary
<1>2. CASE w.depth = 0
  BY <1>2, RefuseType DEF endObject
<1>3. CASE w.depth # 0
  <2>1. endObject(w) = IF r.ok THEN [r EXCEPT !.w.depth = @ - 1, !.w.closed = (w.depth = 1)]
                       ELSE r
    BY <1>3 DEF endObject
  <2> HIDE DEF q
  <2>2. r \in Result /\ r.w.depth = w.depth
    BY <1>1, WriteType
  <2> DEFINE b == w.depth = 1
             v == [r.w EXCEPT !.depth = @ - 1, !.closed = b]
  <2>3. r = [ok |-> r.ok, w |-> r.w] /\ r.w \in Writer(Tokens) /\ r.ok \in BOOLEAN
    BY <2>2 DEF Result
  <2> HIDE DEF r
  <2>4. b \in BOOLEAN
    OBVIOUS
  <2>5. r.ok => endObject(w) = [ok |-> TRUE, w |-> v]
    <3>1. r.ok => endObject(w) = [r EXCEPT !.w.depth = @ - 1, !.w.closed = b]
      BY <2>1
    <3> HIDE DEF b
    <3> QED
      BY <2>3, <3>1
  <2> HIDE DEF b
  <2>6. r.w.depth - 1 \in 0..MaxDepth
    BY <1>3, <2>2, DepthAssumption DEF Writer
  <2>7. v \in Writer(Tokens)
    BY <2>3, <2>4, <2>6 DEF Writer
  <2> HIDE DEF v
  <2>8. CASE r.ok
    <3>1. endObject(w) = [ok |-> TRUE, w |-> v]
      BY <2>5, <2>8
    <3> QED
      BY <2>7, <3>1 DEF Result
  <2>9. CASE ~r.ok
    BY <2>1, <2>2, <2>9
  <2> QED
    BY <2>8, <2>9
<1> QED
  BY <1>2, <1>3

\* What each kind of call does.
LEMMA ApplyCases ==
    ASSUME NEW w
    PROVE  /\ \A n : Apply(w, Field(n)) = beginObjectField(w, n)
           /\ Apply(w, End) = endObject(w)
           /\ \A n, v : Apply(w, Text(n, v)) = addString(w, n, v)
           /\ \A n, v : Apply(w, Literal(n, v)) = addLiteral(w, n, v)
<1>1. ASSUME NEW n PROVE Apply(w, Field(n)) = beginObjectField(w, n)
  <2>1. Field(n).op = "field" /\ Field(n).name = n
    BY DEF Field, Call
  <2> HIDE DEF Field
  <2> QED
    BY <2>1 DEF Apply
<1>2. Apply(w, End) = endObject(w)
  <2>1. End.op = "end"
    BY DEF End, Call
  <2> QED
    BY <2>1 DEF Apply
<1>3. ASSUME NEW n, NEW v PROVE Apply(w, Text(n, v)) = addString(w, n, v)
  <2>1. Text(n, v).op = "text" /\ Text(n, v).name = n /\ Text(n, v).value = v
    BY DEF Text, Call
  <2> QED
    BY <2>1 DEF Apply
<1>4. ASSUME NEW n, NEW v PROVE Apply(w, Literal(n, v)) = addLiteral(w, n, v)
  <2>1. Literal(n, v).op = "literal" /\ Literal(n, v).name = n /\ Literal(n, v).value = v
    BY DEF Literal, Call
  <2> QED
    BY <2>1 DEF Apply
<1> QED
  BY <1>1, <1>2, <1>3, <1>4

\* Every call leaves a writer.
LEMMA ApplyType ==
    ASSUME NEW w \in Writer(Tokens), NEW call \in Calls
    PROVE  Apply(w, call) \in Result
<1>0. w.depth \in 0..MaxDepth /\ MaxDepth \in Nat
  BY DepthAssumption DEF Writer
<1>1. Refuse(w) \in Result
  BY RefuseType
<1>2. ASSUME NEW n \in Strings, NEW v \in Tokens
      PROVE  addLiteral(w, n, v) \in Result
  <2>1. CASE n = Null \/ ~inObject(w)
    BY <1>1, <2>1 DEF addLiteral
  <2>2. CASE ~(n = Null \/ ~inObject(w))
    <3>1. w.depth > 0
      BY <2>2 DEF inObject
    <3>2. addLiteral(w, n, v) = AddMember(w, n, v)
      BY <2>2 DEF addLiteral
    <3> QED
      BY <3>1, <3>2, AddMemberType
  <2> QED
    BY <2>1, <2>2
<1>3. ASSUME NEW n \in Strings, call = Field(n) PROVE Apply(w, call) \in Result
  <2>1. Apply(w, call) = beginObjectField(w, n)
    BY <1>3, ApplyCases
  <2>2. CASE n = Null \/ ~inObject(w) \/ w.depth >= MaxDepth
    BY <1>1, <2>1, <2>2 DEF beginObjectField
  <2>3. CASE ~(n = Null \/ ~inObject(w) \/ w.depth >= MaxDepth)
    <3>1. w.depth > 0 /\ w.depth < MaxDepth
      BY <1>0, <2>3 DEF inObject
    <3>2. Apply(w, call) = Opened(AddMember(w, n, Opening))
      BY <2>1, <2>3 DEF beginObjectField
    <3>3. Opening \in Tokens
      BY TokensVocabulary DEF IsVocabulary
    <3>4. AddMember(w, n, Opening) \in Result /\ AddMember(w, n, Opening).w.depth < MaxDepth
      BY <3>1, <3>3, AddMemberType
    <3> QED
      BY <3>2, <3>4, OpenedType
  <2> QED
    BY <2>2, <2>3
<1>4. ASSUME call = End PROVE Apply(w, call) \in Result
  BY <1>4, ApplyCases, EndObjectType
<1>5. ASSUME NEW n \in Strings, NEW v \in Strings, call = Text(n, v)
      PROVE  Apply(w, call) \in Result
  <2>1. Apply(w, call) = addString(w, n, v)
    BY <1>5, ApplyCases
  <2>2. v # Null /\ Quoted(v) \in Tokens
    BY TokensVocabulary
  <2>3. addString(w, n, v) = addLiteral(w, n, Quoted(v))
    BY <2>2 DEF addString, addStringOfLength
  <2> QED
    BY <1>2, <2>1, <2>2, <2>3
<1>6. ASSUME NEW n \in Strings, NEW v \in Tokens, call = Literal(n, v)
      PROVE  Apply(w, call) \in Result
  BY <1>2, <1>6, ApplyCases
<1> QED
  BY <1>3, <1>4, <1>5, <1>6 DEF Calls

\* One more call of a chain, and the chain as the loop that it is.
Chained(r, call) == IF r.ok THEN Apply(r.w, call) ELSE r

ChainSteps(calls) == [k \in 1..Len(calls) |-> [r \in Result |-> Chained(r, calls[k])]]

\* So does a call that is made only after success.
LEMMA ChainedType ==
    ASSUME NEW r \in Result, NEW call \in Calls
    PROVE  Chained(r, call) \in Result
<1>1. r.w \in Writer(Tokens)
  BY DEF Result
<1> QED
  BY <1>1, ApplyType DEF Chained

\* A chain is the last value of a loop over its calls.
LEMMA ChainTrace ==
    ASSUME NEW w \in Writer(Tokens), NEW q \in Seq(Calls)
    PROVE  \E g : /\ Trace(g, Len(q), Result, [ok |-> TRUE, w |-> w], ChainSteps(q))
                  /\ Chain(w, q) = g[Len(q)]
<1> DEFINE n == Len(q)
           base == [ok |-> TRUE, w |-> w]
           P(h) == h = [s \in SUBSET (DOMAIN q) |->
                          IF s = {} THEN base ELSE Chained(h[s \ {Max(s)}], q[Max(s)])]
           c == CHOOSE h : P(h)
           step == ChainSteps(q)
           V == Result
<1>1. n \in Nat /\ DOMAIN q = 1..n /\ (\A k \in 1..n : q[k] \in Calls) /\ base \in V
  BY DEF Result
<1>2. Chain(w, q) = c[DOMAIN q]
  BY Zenon DEF Chain, FoldLeft, MapThenFoldSet, Chained
<1>3. step \in [1..n -> [V -> V]] /\ \A k \in 1..n, v \in V : step[k][v] = Chained(v, q[k])
  <2>1. ASSUME NEW k \in 1..n, NEW v \in V PROVE Chained(v, q[k]) \in V
    BY <1>1, ChainedType
  <2> HIDE DEF V
  <2> QED
    BY <1>1, <2>1 DEF ChainSteps, V
<1> HIDE DEF n, step, V, base
<1>4. \A s \in SUBSET (1..n) : s # {} => Max(s) \in 1..n
  BY <1>1, MaxIn
<1>5. \E h : P(h)
  <2>1. PICK h \in [SUBSET (1..n) -> V] : FoldsOver(h, n, base, step)
    BY <1>1, <1>3, FoldExists
  <2>2. \A s \in SUBSET (1..n) : h[s \ {Max(s)}] \in V
    OBVIOUS
  <2>3. P(h)
    BY <1>1, <1>3, <1>4, <2>1, <2>2 DEF FoldsOver
  <2> QED
    BY <2>3
<1>6. P(c)
  <2> HIDE DEF P
  <2> QED
    BY <1>5
<1> HIDE DEF c
<1>7. FoldsWithin(c, n, V, base, step)
  BY <1>1, <1>3, <1>4, <1>6 DEF FoldsWithin
<1>8. n \in Nat /\ base \in V /\ step \in [1..n -> [V -> V]]
  BY <1>1, <1>3
<1>9. Trace(LoopValues(c, n), n, V, base, step)
  <2> HIDE DEF P
  <2> QED
    BY <1>7, <1>8, FoldTrace
<1>10. LoopValues(c, n)[n] = c[1..n]
  <2>1. n \in 0..n
    BY <1>8
  <2> QED
    BY <2>1 DEF LoopValues
<1> QED
  BY <1>1, <1>2, <1>9, <1>10 DEF n, step, V, base

\* A chain of no calls.
LEMMA ChainEmpty ==
    ASSUME NEW w \in Writer(Tokens)
    PROVE  Chain(w, <<>>) = [ok |-> TRUE, w |-> w]
<1>1. <<>> \in Seq(Calls) /\ Len(<<>>) = 0
  OBVIOUS
<1>2. PICK g : /\ Trace(g, Len(<<>>), Result, [ok |-> TRUE, w |-> w], ChainSteps(<<>>))
               /\ Chain(w, <<>>) = g[Len(<<>>)]
  BY <1>1, ChainTrace
<1> QED
  BY <1>1, <1>2 DEF Trace

\* A chain with one call more.
LEMMA ChainAppend ==
    ASSUME NEW w \in Writer(Tokens), NEW q \in Seq(Calls), NEW call \in Calls
    PROVE  /\ Chain(w, q) \in Result
           /\ Chain(w, Append(q, call)) = Chained(Chain(w, q), call)
<1> DEFINE p == Append(q, call)
           n == Len(q)
           base == [ok |-> TRUE, w |-> w]
<1>1. /\ p \in Seq(Calls) /\ n \in Nat /\ Len(p) = n + 1 /\ p[n + 1] = call
      /\ \A k \in 1..n : q[k] = p[k]
  OBVIOUS
<1> HIDE DEF p
<1>2. PICK f : Trace(f, Len(q), Result, base, ChainSteps(q)) /\ Chain(w, q) = f[Len(q)]
  BY ChainTrace
<1>3. PICK g : Trace(g, Len(p), Result, base, ChainSteps(p)) /\ Chain(w, p) = g[Len(p)]
  BY <1>1, ChainTrace
<1> HIDE DEF base
<1>4. ASSUME NEW k \in 1..n PROVE ChainSteps(q)[k] = ChainSteps(p)[k]
  <2>1. k \in 1..Len(q) /\ k \in 1..Len(p) /\ q[k] = p[k]
    BY <1>1
  <2> QED
    BY <2>1 DEF ChainSteps
<1>5. n <= Len(q) /\ n <= Len(p) /\ Len(q) \in Nat /\ Len(p) \in Nat
  BY <1>1
<1>6. f[n] = g[n] /\ f[n] \in Result
  <2>1. \A k \in 1..n : ChainSteps(q)[k] = ChainSteps(p)[k]
    BY <1>4
  <2> HIDE DEF n
  <2> QED
    BY <1>1, <1>2, <1>3, <1>5, <2>1, TraceUnique
<1>7. n + 1 \in 1..Len(p) /\ (n + 1) - 1 = n
  BY <1>1
<1>8. g[n + 1] = ChainSteps(p)[n + 1][g[n]]
  BY <1>3, <1>7 DEF Trace
<1>9. ChainSteps(p)[n + 1][g[n]] = Chained(g[n], call)
  BY <1>1, <1>6, <1>7 DEF ChainSteps
<1> QED
  BY <1>1, <1>2, <1>3, <1>6, <1>8, <1>9 DEF p

\* A sequence that is not empty has a last item.
LEMMA LastItem ==
    ASSUME NEW T, NEW k \in Nat, NEW q \in Seq(T), Len(q) = k + 1
    PROVE  \E u \in Seq(T), x \in T : q = Append(u, x) /\ Len(u) = k
<1>1. q = Append(SubSeq(q, 1, k), q[k + 1])
  OBVIOUS
<1>2. SubSeq(q, 1, k) \in Seq(T) /\ q[k + 1] \in T /\ Len(SubSeq(q, 1, k)) = k
  OBVIOUS
<1> QED
  BY <1>1, <1>2, Zenon

\* Append, kept from the provers.
WithLast(q, x) == Append(q, x)

\* A list that ends in one more item.
LEMMA CatSnoc ==
    ASSUME NEW T
    PROVE  \A a, b \in Seq(T) : \A x \in T : Cat(a, WithLast(b, x)) = WithLast(Cat(a, b), x)
<1> TAKE a, b \in Seq(T)
<1> TAKE x \in T
<1> QED
  BY DEF Cat, WithLast

\* The calls of a chain after those that led to r.
Then(r, calls) == IF r.ok THEN Chain(r.w, calls) ELSE r

\* A chain in two parts: the second is made only if the first succeeds.
LEMMA ChainCat ==
    ASSUME NEW w \in Writer(Tokens), NEW a \in Seq(Calls), NEW b \in Seq(Calls)
    PROVE  Chain(w, Cat(a, b)) = Then(Chain(w, a), b) /\ Chain(w, a) \in Result
<1> DEFINE r == Chain(w, a)
           S == {k \in Nat : \A u \in Seq(Calls) : Len(u) = k => Chain(w, Cat(a, u)) = Then(r, u)}
<1>1. r \in Result /\ r.w \in Writer(Tokens)
  <2>1. \E call : call \in Calls
    BY DEF Calls
  <2>2. r \in Result
    BY <2>1, ChainAppend
  <2> QED
    BY <2>2 DEF Result
<1> HIDE DEF r
<1>2. 0 \in S
  <2>1. ASSUME NEW u \in Seq(Calls), Len(u) = 0 PROVE Chain(w, Cat(a, u)) = Then(r, u)
    <3>1. u = <<>>
      BY <2>1
    <3>2. Cat(a, u) = a
      BY <3>1, CatEmpty
    <3>3. r.ok => Then(r, u) = [ok |-> TRUE, w |-> r.w]
      BY <1>1, <3>1, ChainEmpty DEF Then
    <3>4. r.ok => r = [ok |-> TRUE, w |-> r.w]
      BY <1>1 DEF Result
    <3>5. ~r.ok => Then(r, u) = r
      BY DEF Then
    <3> QED
      BY <3>2, <3>3, <3>4, <3>5 DEF r
  <2> QED
    BY <2>1
<1>3. ASSUME NEW k \in Nat, k \in S PROVE k + 1 \in S
  <2> SUFFICES ASSUME NEW v \in Seq(Calls), Len(v) = k + 1
               PROVE  Chain(w, Cat(a, v)) = Then(r, v)
    OBVIOUS
  <2>1. PICK u \in Seq(Calls), call \in Calls : v = Append(u, call) /\ Len(u) = k
    BY LastItem, Zenon
  <2>2. Chain(w, Cat(a, u)) = Then(r, u)
    BY <1>3, <2>1
  <2>3. Cat(a, v) = Append(Cat(a, u), call) /\ Cat(a, u) \in Seq(Calls)
    <3>0. Cat(a, WithLast(u, call)) = WithLast(Cat(a, u), call)
      BY CatSnoc
    <3>1. Cat(a, Append(u, call)) = Append(Cat(a, u), call)
      BY <3>0, Zenon DEF WithLast
    <3> QED
      BY <2>1, <3>1, CatType, Zenon
  <2>4. Chain(w, Cat(a, v)) = Chained(Then(r, u), call)
    BY <2>2, <2>3, ChainAppend
  <2>5. CASE r.ok
    BY <1>1, <2>1, <2>4, <2>5, ChainAppend DEF Then
  <2>6. CASE ~r.ok
    BY <2>4, <2>6 DEF Then, Chained
  <2> QED
    BY <2>5, <2>6
<1> HIDE DEF S
<1>4. Nat \subseteq S
  BY <1>2, <1>3, SetInduction
<1>5. Len(b) \in S
  BY <1>4
<1> QED
  BY <1>1, <1>5 DEF S, r

\* More members take more room.
LEMMA SeparatedGrows ==
    ASSUME NEW ms \in Seq(Seq(Tokens)), NEW ns \in Seq(Seq(Tokens))
    PROVE  /\ Separated(ms) \in Seq(Tokens) /\ Separated(Cat(ms, ns)) \in Seq(Tokens)
           /\ Bytes(Separated(ms)) \in Nat /\ Bytes(Separated(Cat(ms, ns))) \in Nat
           /\ Bytes(Separated(ms)) <= Bytes(Separated(Cat(ms, ns)))
<1> DEFINE M == Seq(Tokens)
           Grows(u) == Bytes(Separated(ms)) <= Bytes(Separated(Cat(ms, u)))
           S == {k \in Nat : \A u \in Seq(M) : Len(u) = k => Grows(u)}
<1>0. Comma \in Tokens /\ (\A t \in Tokens : t.bytes \in Nat) /\ <<>> \in M
  BY TokensVocabulary DEF IsVocabulary
<1>1. ASSUME NEW u \in Seq(M) PROVE Separated(u) \in Seq(Tokens) /\ Bytes(Separated(u)) \in Nat
  <2>1. Separated(u) \in Seq(Tokens)
    BY <1>0, SeparatedAppend
  <2> QED
    BY <1>0, <2>1, CatBytes
<1>2. ASSUME NEW u \in Seq(M), NEW m \in M
      PROVE  Bytes(Separated(u)) <= Bytes(Separated(Append(u, m)))
  <2>1. Separated(Append(u, m)) = Joined(Separated(u), m)
    BY <1>0, SeparatedAppend
  <2>2. PICK s \in Seq(Tokens) : s = Separated(u)
    BY <1>1
  <2>3. Bytes(s) <= Bytes(Joined(s, m))
    <3>1. CASE s = <<>>
      <4>1. Joined(s, m) = m /\ Bytes(s) = 0
        BY <3>1, BytesEmpty DEF Joined
      <4>2. Bytes(m) \in Nat
        BY <1>0, CatBytes
      <4> QED
        BY <4>1, <4>2
    <3>2. CASE s # <<>>
      <4> DEFINE c == <<Comma>>
      <4>1. Joined(s, m) = Cat(Cat(s, c), m) /\ c \in Seq(Tokens)
        BY <1>0, <3>2 DEF Joined, Cat
      <4> HIDE DEF c
      <4>2. Cat(s, c) \in Seq(Tokens)
        BY <4>1, CatType
      <4>3. /\ Bytes(Cat(s, c)) = Bytes(s) + Bytes(c) /\ Bytes(s) \in Nat /\ Bytes(c) \in Nat
            /\ Bytes(Cat(Cat(s, c), m)) = Bytes(Cat(s, c)) + Bytes(m) /\ Bytes(m) \in Nat
        BY <1>0, <4>1, <4>2, CatBytes
      <4>4. Bytes(Joined(s, m)) = Bytes(Cat(Cat(s, c), m))
        BY <4>1, Zenon
      <4> QED
        BY <4>3, <4>4
    <3> QED
      BY <3>1, <3>2
  <2> QED
    BY <2>1, <2>2, <2>3
<1> HIDE DEF M
<1>30. ms \in Seq(M)
  BY DEF M
<1>3. \A u \in Seq(M) : Cat(ms, u) \in Seq(M)
  BY <1>30, CatType
<1>4. 0 \in S
  <2>1. ASSUME NEW u \in Seq(M), Len(u) = 0 PROVE Grows(u)
    <3>1. u = <<>>
      BY <2>1
    <3>2. ms \in Seq(M)
      BY DEF M
    <3>3. Cat(ms, u) = ms
      BY <3>1, <3>2, CatEmpty
    <3>4. Bytes(Separated(ms)) \in Nat
      BY <1>1, <3>2
    <3> QED
      BY <3>3, <3>4
  <2> QED
    BY <2>1
<1>5. ASSUME NEW k \in Nat, k \in S PROVE k + 1 \in S
  <2> SUFFICES ASSUME NEW v \in Seq(M), Len(v) = k + 1 PROVE Grows(v)
    OBVIOUS
  <2>1. PICK u \in Seq(M), m \in M : v = Append(u, m) /\ Len(u) = k
    BY LastItem, Zenon
  <2>2. Bytes(Separated(ms)) <= Bytes(Separated(Cat(ms, u)))
    BY <1>5, <2>1
  <2>3. Cat(ms, v) = Append(Cat(ms, u), m) /\ Cat(ms, u) \in Seq(M)
    <3>0. Cat(ms, WithLast(u, m)) = WithLast(Cat(ms, u), m)
      BY <1>30, CatSnoc
    <3>1. Cat(ms, Append(u, m)) = Append(Cat(ms, u), m)
      BY <3>0, Zenon DEF WithLast
    <3> QED
      BY <1>3, <2>1, <3>1, Zenon
  <2>4. Bytes(Separated(Cat(ms, u))) <= Bytes(Separated(Cat(ms, v)))
    BY <1>2, <2>3
  <2>5. /\ Bytes(Separated(ms)) \in Nat /\ Bytes(Separated(Cat(ms, u))) \in Nat
        /\ Bytes(Separated(Cat(ms, v))) \in Nat
    BY <1>1, <1>3 DEF M
  <2> QED
    BY <2>2, <2>4, <2>5
<1> HIDE DEF S
<1>6. Nat \subseteq S
  BY <1>4, <1>5, SetInduction
<1>7. Len(ns) \in S /\ ns \in Seq(M) /\ ms \in Seq(M)
  BY <1>6 DEF M
<1> QED
  BY <1>1, <1>3, <1>7 DEF S, M

\* A sequence of one item, kept from the provers.
One(x) == <<x>>

\* A list of one item.
LEMMA OneItem ==
    ASSUME NEW T
    PROVE  \A x \in T : /\ One(x) \in Seq(T) /\ Len(One(x)) = 1
                        /\ \A q \in Seq(T) : WithLast(q, x) = Cat(q, One(x)) /\ WithLast(q, x) \in Seq(T)
<1> TAKE x \in T
<1>1. One(x) \in Seq(T) /\ Len(One(x)) = 1
  BY DEF One
<1>2. ASSUME NEW q \in Seq(T) PROVE WithLast(q, x) = Cat(q, One(x)) /\ WithLast(q, x) \in Seq(T)
  BY DEF WithLast, Cat, One
<1> QED
  BY <1>1, <1>2

\* A chain of one call.
LEMMA ChainOne ==
    ASSUME NEW w \in Writer(Tokens), NEW call \in Calls
    PROVE  Chain(w, One(call)) = Apply(w, call) /\ Apply(w, call) \in Result
<1>1. <<>> \in Seq(Calls) /\ Append(<<>>, call) = One(call)
  BY DEF One
<1>2. Chain(w, Append(<<>>, call)) = Chained(Chain(w, <<>>), call)
  BY <1>1, ChainAppend
<1>3. Chained([ok |-> TRUE, w |-> w], call) = Apply(w, call)
  BY DEF Chained
<1> QED
  BY <1>1, <1>2, <1>3, ChainEmpty, ApplyType

MemberLists == Seq(Seq(Tokens))

\* Lists of members can be joined.
LEMMA MemberListsClosed ==
    /\ \A a, b \in MemberLists : Cat(a, b) \in MemberLists
    /\ \A a \in MemberLists : Cat(a, <<>>) = a /\ Cat(<<>>, a) = a
    /\ \A a, b, c \in MemberLists : Cat(Cat(a, b), c) = Cat(a, Cat(b, c))
    /\ <<>> \in MemberLists
    /\ \A m \in Seq(Tokens) : /\ One(m) \in MemberLists
                              /\ \A a \in MemberLists : WithLast(a, m) = Cat(a, One(m))
<1> DEFINE M == Seq(Tokens)
<1>1. <<>> \in Seq(M)
  OBVIOUS
<1> HIDE DEF M
<1>2. MemberLists = Seq(M)
  BY DEF MemberLists, M
<1>3. \A m \in M : One(m) \in Seq(M) /\ \A a \in Seq(M) : WithLast(a, m) = Cat(a, One(m))
  BY OneItem
<1> QED
  BY <1>1, <1>2, <1>3, CatType, CatEmpty, CatAssociative DEF M

\* r is what calls leave that add the members ns behind ms: all of them when
\* there is room.
Extended(r, w, p, ms, ns) ==
    /\ r \in Result
    /\ r.ok <=> Fits(Cat(p, Separated(Cat(ms, ns))), w)
    /\ r.ok => Inside(r.w, Tokens, p, Cat(ms, ns)) /\ Kept(r.w, w)

\* The calls add the members ns to whatever object they are made in, with k
\* levels to spare.
Adds(calls, ns, k) ==
    /\ calls \in Seq(Calls) /\ ns \in MemberLists /\ k \in Nat
    /\ \A w \in Writer(Tokens), p \in Seq(Tokens), ms \in MemberLists :
          Inside(w, Tokens, p, ms) /\ w.depth + k <= MaxDepth
             => Extended(Chain(w, calls), w, p, ms, ns)

\* What is shorter fits too.
LEMMA FitsLess ==
    ASSUME NEW a, NEW b, Bytes(a) \in Nat, Bytes(b) \in Nat, Bytes(a) <= Bytes(b),
           NEW w, w.tail_reserve \in Nat, w.capacity \in Nat, Fits(b, w)
    PROVE  Fits(a, w)
  BY DEF Fits

\* No calls add no members.
LEMMA AddsNone ==
    ASSUME NEW k \in Nat
    PROVE  Adds(<<>>, <<>>, k)
<1>1. ASSUME NEW w \in Writer(Tokens), NEW p \in Seq(Tokens), NEW ms \in MemberLists,
             Inside(w, Tokens, p, ms)
      PROVE  Extended(Chain(w, <<>>), w, p, ms, <<>>)
  <2>1. Cat(ms, <<>>) = ms
    BY MemberListsClosed
  <2>2. PICK r : r = Chain(w, <<>>)
    OBVIOUS
  <2>3. r = [ok |-> TRUE, w |-> w]
    BY <2>2, ChainEmpty
  <2>4. Fits(Cat(p, Separated(ms)), w)
    BY <1>1 DEF Inside, InBuffer, Fits
  <2>5. Kept(w, w)
    BY DEF Kept
  <2>6. r \in Result
    BY <2>3 DEF Result
  <2> QED
    BY <1>1, <2>1, <2>2, <2>3, <2>4, <2>5, <2>6 DEF Extended
<1>2. <<>> \in Seq(Calls)
  OBVIOUS
<1> QED
  BY <1>1, <1>2, MemberListsClosed DEF Adds

\* Calls made one after the other add their members one after the other.
LEMMA AddsCat ==
    ASSUME NEW a, NEW b, NEW ma, NEW mb, NEW k, Adds(a, ma, k), Adds(b, mb, k)
    PROVE  Adds(Cat(a, b), Cat(ma, mb), k)
<1>1. /\ a \in Seq(Calls) /\ b \in Seq(Calls) /\ ma \in MemberLists /\ mb \in MemberLists
      /\ k \in Nat /\ Cat(ma, mb) \in MemberLists /\ Cat(a, b) \in Seq(Calls)
  BY CatType, MemberListsClosed DEF Adds
<1>2. ASSUME NEW w \in Writer(Tokens), NEW p \in Seq(Tokens), NEW ms \in MemberLists,
             Inside(w, Tokens, p, ms), w.depth + k <= MaxDepth
      PROVE  Extended(Chain(w, Cat(a, b)), w, p, ms, Cat(ma, mb))
  <2>1. PICK r : r = Chain(w, a)
    OBVIOUS
  <2>2. PICK x : x = Cat(ms, ma)
    OBVIOUS
  <2>3. PICK y : y = Cat(ms, Cat(ma, mb))
    OBVIOUS
  <2>4. x \in MemberLists /\ y \in MemberLists /\ y = Cat(x, mb)
    BY <1>1, <2>2, <2>3, MemberListsClosed
  <2>5. Extended(r, w, p, ms, ma)
    BY <1>2, <2>1 DEF Adds
  <2>6. Chain(w, Cat(a, b)) = Then(r, b)
    BY <1>1, <2>1, ChainCat
  <2>7. CASE r.ok
    <3>1. Inside(r.w, Tokens, p, x) /\ Kept(r.w, w)
      BY <2>2, <2>5, <2>7 DEF Extended
    <3>2. r.w \in Writer(Tokens) /\ r.w.depth = w.depth
      BY <3>1 DEF Inside, Kept
    <3>3. Extended(Chain(r.w, b), r.w, p, x, mb)
      BY <1>2, <2>4, <3>1, <3>2 DEF Adds
    <3>4. PICK s : s = Chain(r.w, b)
      OBVIOUS
    <3>5. /\ s \in Result /\ (s.ok <=> Fits(Cat(p, Separated(y)), r.w))
          /\ (s.ok => Inside(s.w, Tokens, p, y) /\ Kept(s.w, r.w))
      BY <2>4, <3>3, <3>4 DEF Extended
    <3>6. Fits(Cat(p, Separated(y)), r.w) <=> Fits(Cat(p, Separated(y)), w)
      BY <3>1 DEF Fits, Kept
    <3>7. Kept(s.w, r.w) => Kept(s.w, w)
      BY <3>1 DEF Kept
    <3>8. Extended(s, w, p, ms, Cat(ma, mb))
      BY <2>3, <3>5, <3>6, <3>7 DEF Extended
    <3> QED
      BY <2>6, <2>7, <3>4, <3>8 DEF Then
  <2>8. CASE ~r.ok
    <3>1. r \in Result /\ ~Fits(Cat(p, Separated(x)), w)
      BY <2>2, <2>5, <2>8 DEF Extended
    <3>2. ~Fits(Cat(p, Separated(y)), w)
      <4>1. /\ Separated(x) \in Seq(Tokens) /\ Separated(y) \in Seq(Tokens)
            /\ Bytes(Separated(x)) \in Nat /\ Bytes(Separated(y)) \in Nat
            /\ Bytes(Separated(x)) <= Bytes(Separated(y))
        BY <1>1, <2>4, SeparatedGrows DEF MemberLists
      <4>2. \A t \in Tokens : t.bytes \in Nat
        BY TokensVocabulary DEF IsVocabulary
      <4>3. /\ Bytes(Cat(p, Separated(x))) = Bytes(p) + Bytes(Separated(x))
            /\ Bytes(Cat(p, Separated(y))) = Bytes(p) + Bytes(Separated(y))
            /\ Bytes(p) \in Nat
        BY <4>1, <4>2, CatBytes
      <4>4. w.tail_reserve \in Nat /\ w.capacity \in Nat
        BY DEF Writer
      <4>5. /\ Bytes(Cat(p, Separated(x))) \in Nat /\ Bytes(Cat(p, Separated(y))) \in Nat
            /\ Bytes(Cat(p, Separated(x))) <= Bytes(Cat(p, Separated(y)))
        <5> HIDE DEF Fits
        <5> QED
          BY <4>1, <4>3
      <4> QED
        BY <3>1, <4>4, <4>5, FitsLess
    <3> QED
      BY <2>3, <2>6, <2>8, <3>1, <3>2 DEF Then, Extended
  <2> QED
    BY <2>7, <2>8
<1> QED
  BY <1>1, <1>2 DEF Adds

\* Fewer levels than there are to spare.
LEMMA AddsWeaken ==
    ASSUME NEW a, NEW ma, NEW k, NEW n \in Nat, k <= n, Adds(a, ma, k)
    PROVE  Adds(a, ma, n)
<1>1. k \in Nat /\ MaxDepth \in Nat
  BY DepthAssumption DEF Adds
<1>2. \A w \in Writer(Tokens) : w.depth + n <= MaxDepth => w.depth + k <= MaxDepth
  <2>1. \A w \in Writer(Tokens) : w.depth \in Nat
    BY <1>1 DEF Writer
  <2> QED
    BY <1>1, <2>1
<1> QED
  BY <1>2 DEF Adds

\* A name with a value is text.
LEMMA PairType ==
    ASSUME NEW name \in Strings, NEW value \in Tokens
    PROVE  Pair(name, <<value>>) \in Seq(Tokens)
<1>1. <<Quoted(name), Colon>> \in Seq(Tokens) /\ <<value>> \in Seq(Tokens)
  BY TokensVocabulary DEF IsVocabulary
<1>2. Pair(name, <<value>>) = Cat(<<Quoted(name), Colon>>, <<value>>)
  BY Zenon DEF Pair, Cat
<1> QED
  BY <1>1, <1>2, CatType

\* A call that writes a member.
LEMMA AddsMember ==
    ASSUME NEW call \in Calls, NEW name \in Strings, NEW value \in Tokens,
           \A w \in Writer(Tokens) : inObject(w) => Apply(w, call) = AddMember(w, name, value)
    PROVE  Adds(One(call), One(Pair(name, <<value>>)), 0)
<1>0. IsVocabulary(Tokens) /\ Quoted(name) \in Tokens
  BY TokensVocabulary
<1>1. PICK m : m = Pair(name, <<value>>)
  OBVIOUS
<1>2. m \in Seq(Tokens)
  BY <1>1, PairType
<1>3. ASSUME NEW w \in Writer(Tokens), NEW p \in Seq(Tokens), NEW ms \in MemberLists,
             Inside(w, Tokens, p, ms)
      PROVE  Extended(Chain(w, One(call)), w, p, ms, One(m))
  <2>1. inObject(w)
    BY <1>3, DepthAssumption DEF Inside, inObject, Writer
  <2>2. Chain(w, One(call)) = AddMember(w, name, value) /\ Chain(w, One(call)) \in Result
    BY <2>1, ChainOne
  <2>3. Added(AddMember(w, name, value), w, Tokens, p, ms, Pair(name, <<value>>))
    BY <1>0, <1>3, MemberAdded DEF MemberLists
  <2>4. PICK r : r = Chain(w, One(call))
    OBVIOUS
  <2>5. Added(r, w, Tokens, p, ms, m)
    BY <1>1, <2>2, <2>3, <2>4
  <2>6. Append(ms, m) = Cat(ms, One(m))
    BY <1>2, MemberListsClosed, Zenon DEF WithLast
  <2>7. PICK y : y = Append(ms, m)
    OBVIOUS
  <2>8. /\ r.ok <=> Fits(Cat(p, Separated(y)), w)
        /\ r.ok => Inside(r.w, Tokens, p, y) /\ Kept(r.w, w)
    BY <2>5, <2>7, Zenon DEF Added
  <2>9. y = Cat(ms, One(m))
    BY <2>6, <2>7, Zenon
  <2>10. Extended(r, w, p, ms, One(m))
    BY <2>2, <2>4, <2>8, <2>9 DEF Extended
  <2> QED
    BY <2>4, <2>10
<1>4. One(call) \in Seq(Calls) /\ One(m) \in MemberLists
  BY <1>2, OneItem, MemberListsClosed
<1>5. Adds(One(call), One(m), 0)
  BY <1>3, <1>4 DEF Adds
<1> QED
  BY <1>1, <1>5

\* addString adds its member.
LEMMA AddsText ==
    ASSUME NEW name \in Strings, NEW value \in Strings
    PROVE  Adds(One(Text(name, value)), One(Pair(name, String(value))), 0)
<1>1. name # Null /\ value # Null /\ Quoted(value) \in Tokens
  BY TokensVocabulary
<1>2. Text(name, value) \in Calls
  BY DEF Calls
<1>3. ASSUME NEW w \in Writer(Tokens), inObject(w)
      PROVE  Apply(w, Text(name, value)) = AddMember(w, name, Quoted(value))
  <2>1. Apply(w, Text(name, value)) = addString(w, name, value)
    BY ApplyCases
  <2> QED
    BY <1>1, <1>3, <2>1 DEF addString, addStringOfLength, addLiteral
<1> QED
  BY <1>1, <1>2, <1>3, AddsMember DEF String

\* addLiteral adds its member.
LEMMA AddsLiteral ==
    ASSUME NEW name \in Strings, NEW value \in Tokens
    PROVE  Adds(One(Literal(name, value)), One(Pair(name, <<value>>)), 0)
<1>1. name # Null
  BY TokensVocabulary
<1>2. Literal(name, value) \in Calls
  BY DEF Calls
<1>3. ASSUME NEW w \in Writer(Tokens), inObject(w)
      PROVE  Apply(w, Literal(name, value)) = AddMember(w, name, value)
  <2>1. Apply(w, Literal(name, value)) = addLiteral(w, name, value)
    BY ApplyCases
  <2> QED
    BY <1>1, <1>3, <2>1 DEF addLiteral
<1> QED
  BY <1>1, <1>2, <1>3, AddsMember

\* A part of what fits, fits.
LEMMA FitsPart ==
    ASSUME NEW a \in Seq(Tokens), NEW b \in Seq(Tokens),
           NEW w, w.tail_reserve \in Nat, w.capacity \in Nat, Fits(Cat(a, b), w)
    PROVE  Fits(a, w)
<1>1. \A t \in Tokens : t.bytes \in Nat
  BY TokensVocabulary DEF IsVocabulary
<1>2. /\ Bytes(Cat(a, b)) = Bytes(a) + Bytes(b)
      /\ Bytes(a) \in Nat /\ Bytes(b) \in Nat
  BY <1>1, CatBytes
<1>3. Bytes(Cat(a, b)) \in Nat /\ Bytes(a) <= Bytes(Cat(a, b))
  BY <1>2
<1> QED
  BY <1>2, <1>3, FitsLess

\* A name with an object is text.
LEMMA ObjectPair ==
    ASSUME NEW name \in Strings, NEW ns \in MemberLists
    PROVE  Object(ns) \in Seq(Tokens) /\ Pair(name, Object(ns)) \in Seq(Tokens)
<1>1. IsVocabulary(Tokens) /\ Quoted(name) \in Tokens
  BY TokensVocabulary
<1>2. Object(ns) \in Seq(Tokens)
  BY <1>1, ObjectText DEF MemberLists
<1>3. <<Quoted(name), Colon>> \in Seq(Tokens)
  BY <1>1 DEF IsVocabulary
<1>4. Pair(name, Object(ns)) = Cat(<<Quoted(name), Colon>>, Object(ns))
  BY Zenon DEF Pair, Cat
<1> QED
  BY <1>2, <1>3, <1>4, CatType

\* An object within the object: its members need a level more than they did.
LEMMA AddsObject ==
    ASSUME NEW a, NEW ns, NEW k, Adds(a, ns, k), NEW name \in Strings
    PROVE  Adds(Cat(Cat(One(Field(name)), a), One(End)), One(Pair(name, Object(ns))), k + 1)
<1> DEFINE f == One(Field(name))
           e == One(End)
           calls == Cat(Cat(f, a), e)
<1>0. IsVocabulary(Tokens) /\ name # Null /\ Quoted(name) \in Tokens
  BY TokensVocabulary
<1>1. /\ a \in Seq(Calls) /\ ns \in MemberLists /\ k \in Nat /\ MaxDepth \in Nat
  BY DepthAssumption DEF Adds
<1>2. Field(name) \in Calls /\ End \in Calls
  BY DEF Calls
<1>3. f \in Seq(Calls) /\ e \in Seq(Calls) /\ Cat(f, a) \in Seq(Calls) /\ calls \in Seq(Calls)
  BY <1>1, <1>2, OneItem, CatType
<1>4. PICK o : o = Pair(name, Object(ns))
  OBVIOUS
<1> HIDE DEF f, e, calls
<1>5. ASSUME NEW w \in Writer(Tokens), NEW p \in Seq(Tokens), NEW ms \in MemberLists,
             Inside(w, Tokens, p, ms), w.depth + (k + 1) <= MaxDepth
      PROVE  Extended(Chain(w, calls), w, p, ms, One(o)) /\ o \in Seq(Tokens)
  <2>1. PICK P : P = UpTo(p, ms, name)
    OBVIOUS
  <2>2. PICK N : N = Separated(ns)
    OBVIOUS
  <2>3. PICK z : z = <<Closing>>
    OBVIOUS
  <2>4. PICK y : y = Append(ms, o)
    OBVIOUS
  <2>5. /\ P \in Seq(Tokens) /\ N \in Seq(Tokens) /\ o \in Seq(Tokens) /\ z \in Seq(Tokens)
        /\ Cat(Cat(P, N), z) = Cat(p, Separated(y))
        /\ Separated(y) # <<>> /\ Separated(y) \in Seq(Tokens)
    <3>1. ms \in Seq(Seq(Tokens)) /\ ns \in Seq(Seq(Tokens))
      BY <1>1 DEF MemberLists
    <3>2. z \in Seq(Tokens)
      BY <1>0, <2>3 DEF IsVocabulary
    <3>3. Spliced(Tokens, p, ms, name, ns)
      BY <1>0, <3>1, ObjectSpliced
    <3> QED
      BY <1>4, <2>1, <2>2, <2>3, <2>4, <3>2, <3>3, Zenon DEF Spliced
  <2>6. y = Cat(ms, One(o)) /\ y \in MemberLists
    <3>1. WithLast(ms, o) = Cat(ms, One(o)) /\ Cat(ms, One(o)) \in MemberLists
      BY <2>5, MemberListsClosed
    <3> QED
      BY <2>4, <3>1, Zenon DEF WithLast
  <2>7. w.depth \in 1..MaxDepth /\ w.tail_reserve \in Nat /\ w.capacity \in Nat
    BY <1>1, <1>5 DEF Inside, Writer
  <2>8. PICK r0 : r0 = Chain(w, f)
    OBVIOUS
  <2>9. /\ r0 \in Result /\ (r0.ok <=> Fits(P, w))
        /\ (r0.ok => Inside(r0.w, Tokens, P, <<>>) /\ Begun(r0.w, w))
    <3>1. r0 = beginObjectField(w, name) /\ r0 \in Result
      BY <1>2, <2>8, ChainOne, ApplyCases DEF f
    <3>2. w.depth < MaxDepth
      BY <1>1, <1>5, <2>7
    <3>3. ms \in Seq(Seq(Tokens))
      BY DEF MemberLists
    <3> QED
      BY <1>0, <1>5, <2>1, <3>1, <3>2, <3>3, FieldBegun
  <2>10. Fits(Cat(P, N), w) => Fits(P, w)
    BY <2>5, <2>7, FitsPart
  <2>11. Fits(Cat(Cat(P, N), z), w) => Fits(Cat(P, N), w)
    <3>1. Cat(P, N) \in Seq(Tokens)
      BY <2>5, CatType
    <3> QED
      BY <2>5, <2>7, <3>1, FitsPart
  <2>12. PICK r1 : r1 = Then(r0, a)
    OBVIOUS
  <2>13. Chain(w, Cat(f, a)) = r1
    BY <1>1, <1>3, <2>8, <2>12, ChainCat
  <2>14. PICK r2 : r2 = Then(r1, e)
    OBVIOUS
  <2>15. Chain(w, calls) = r2
    BY <1>3, <2>13, <2>14, ChainCat DEF calls
  <2>16. CASE ~r0.ok
    <3>1. r2 = r0
      BY <2>12, <2>14, <2>16 DEF Then
    <3>2. ~Fits(Cat(p, Separated(y)), w)
      BY <2>5, <2>9, <2>10, <2>11, <2>16
    <3> QED
      BY <2>5, <2>6, <2>9, <2>15, <2>16, <3>1, <3>2 DEF Extended
  <2>17. CASE r0.ok
    <3>1. /\ Inside(r0.w, Tokens, P, <<>>) /\ Begun(r0.w, w) /\ r0.w \in Writer(Tokens)
          /\ r0.w.depth = w.depth + 1
      BY <2>9, <2>17 DEF Inside, Begun
    <3>2. r1 = Chain(r0.w, a)
      BY <2>12, <2>17 DEF Then
    <3>3. r0.w.depth + k <= MaxDepth
      BY <1>1, <1>5, <2>7, <3>1
    <3>4. Extended(r1, r0.w, P, <<>>, ns)
      BY <2>5, <3>1, <3>2, <3>3, MemberListsClosed DEF Adds
    <3>5. Cat(<<>>, ns) = ns
      BY <1>1, MemberListsClosed
    <3>6. /\ r1 \in Result /\ (r1.ok <=> Fits(Cat(P, N), r0.w))
          /\ (r1.ok => Inside(r1.w, Tokens, P, ns) /\ Kept(r1.w, r0.w))
      BY <2>2, <3>4, <3>5 DEF Extended
    <3>7. r1.ok <=> Fits(Cat(P, N), w)
      BY <3>1, <3>6 DEF Fits, Begun
    <3>8. CASE ~r1.ok
      <4>1. r2 = r1
        BY <2>14, <3>8 DEF Then
      <4>2. ~Fits(Cat(p, Separated(y)), w)
        BY <2>5, <2>11, <3>7, <3>8
      <4> QED
        BY <2>5, <2>6, <2>15, <3>6, <3>8, <4>1, <4>2 DEF Extended
    <3>9. CASE r1.ok
      <4>1. Inside(r1.w, Tokens, P, ns) /\ Kept(r1.w, r0.w) /\ r1.w \in Writer(Tokens)
        BY <3>6, <3>9 DEF Inside
      <4>2. r2 = endObject(r1.w) /\ r2 \in Result
        BY <1>2, <2>14, <3>9, <4>1, ChainOne, ApplyCases DEF Then, e
      <4>3. Ended(r2, r1.w, Tokens, P, ns)
        BY <1>0, <1>1, <2>5, <4>1, <4>2, ObjectEnded DEF MemberLists
      <4>4. /\ r1.w.depth = w.depth + 1 /\ r1.w.capacity = w.capacity
            /\ r1.w.tail_reserve = w.tail_reserve
            /\ \A d \in 1..MaxDepth : d < w.depth + 1 => (r1.w.first[d] <=> r0.w.first[d])
        BY <3>1, <4>1 DEF Kept, Begun
      <4>5. r2.ok <=> Fits(Cat(p, Separated(y)), w)
        <5>1. r2.ok <=> Fits(Cat(Cat(P, N), z), r1.w)
          BY <2>2, <2>3, <4>3 DEF Ended
        <5> QED
          BY <2>5, <4>4, <5>1 DEF Fits
      <4>6. ASSUME r2.ok PROVE Inside(r2.w, Tokens, p, y) /\ Kept(r2.w, w)
        <5>1. /\ r2.w \in Writer(Tokens) /\ InBuffer(r2.w) /\ r2.w.out = Cat(Cat(P, N), z)
              /\ r2.w.depth = r1.w.depth - 1 /\ (r2.w.closed <=> r1.w.depth = 1)
              /\ r2.w.first = r1.w.first
              /\ r2.w.capacity = r1.w.capacity /\ r2.w.tail_reserve = r1.w.tail_reserve
          BY <2>2, <2>3, <4>3, <4>6 DEF Ended
        <5>2. r2.w.depth = w.depth /\ ~r2.w.closed /\ r2.w.depth >= 1
          BY <2>7, <4>4, <5>1
        <5>3. \A d \in 1..MaxDepth : d < w.depth => (r2.w.first[d] <=> w.first[d])
          <6>1. \A d \in 1..MaxDepth : d < w.depth => d < w.depth + 1
            BY <2>7
          <6> QED
            BY <3>1, <4>4, <5>1, <6>1 DEF Begun
        <5>4. ~r2.w.first[w.depth]
          <6>1. w.depth < w.depth + 1
            BY <2>7
          <6> QED
            BY <2>7, <3>1, <4>4, <5>1, <6>1 DEF Begun
        <5>5. Inside(r2.w, Tokens, p, y)
          BY <2>5, <5>1, <5>2, <5>4 DEF Inside
        <5>6. Kept(r2.w, w)
          BY <4>4, <5>1, <5>2, <5>3 DEF Kept
        <5> QED
          BY <5>5, <5>6
      <4> QED
        BY <2>5, <2>6, <2>15, <4>2, <4>5, <4>6 DEF Extended
    <3> QED
      BY <3>8, <3>9
  <2> QED
    BY <2>16, <2>17
<1>6. o \in Seq(Tokens)
  BY <1>0, <1>1, <1>4, ObjectPair
<1>7. One(o) \in MemberLists /\ k + 1 \in Nat
  BY <1>1, <1>6, MemberListsClosed
<1>8. Adds(calls, One(o), k + 1)
  BY <1>3, <1>5, <1>7 DEF Adds
<1> QED
  BY <1>4, <1>8 DEF calls, f, e

\* The first k items of a sequence.
FirstItems(q, k) == SubSeq(q, 1, k)

\* The first items of a list.
LEMMA FrontSteps ==
    ASSUME NEW T, NEW q \in Seq(T)
    PROVE  /\ FirstItems(q, 0) = <<>> /\ FirstItems(q, Len(q)) = q /\ Len(q) \in Nat
           /\ \A k \in Nat : k + 1 <= Len(q) =>
                 FirstItems(q, k + 1) = Cat(FirstItems(q, k), One(q[k + 1])) /\ q[k + 1] \in T
<1>1. FirstItems(q, 0) = <<>> /\ FirstItems(q, Len(q)) = q /\ Len(q) \in Nat
  BY DEF FirstItems
<1>2. ASSUME NEW k \in Nat, k + 1 <= Len(q)
      PROVE  FirstItems(q, k + 1) = Cat(FirstItems(q, k), One(q[k + 1])) /\ q[k + 1] \in T
  <2>1. PICK u \in Seq(T) : u = SubSeq(q, 1, k) /\ Len(u) = k /\ \A i \in 1..k : u[i] = q[i]
    <3>1. /\ SubSeq(q, 1, k) \in Seq(T) /\ Len(SubSeq(q, 1, k)) = k
          /\ \A i \in 1..k : SubSeq(q, 1, k)[i] = q[i]
      BY <1>2
    <3> QED
      BY <3>1, Zenon
  <2>2. q[k + 1] \in T
    BY <1>2
  <2>3. SubSeq(q, 1, k + 1) = u \o <<q[k + 1]>>
    BY <1>2, <2>1, <2>2
  <2> QED
    BY <2>1, <2>2, <2>3, Zenon DEF FirstItems, Cat, One
<1> QED
  BY <1>1, <1>2

\* A member for each call.
LEMMA AddsList ==
    ASSUME NEW a \in Seq(Calls), NEW ms \in MemberLists, Len(ms) = Len(a), NEW k \in Nat,
           \A i \in 1..Len(a) : Adds(One(a[i]), One(ms[i]), k)
    PROVE  Adds(a, ms, k)
<1> DEFINE M == Seq(Tokens)
           S == {i \in Nat : i <= Len(a) => Adds(FirstItems(a, i), FirstItems(ms, i), k)}
<1>1. ms \in Seq(M)
  BY DEF MemberLists
<1> HIDE DEF M
<1>2. 0 \in S
  <2>1. FirstItems(a, 0) = <<>> /\ FirstItems(ms, 0) = <<>>
    BY <1>1, FrontSteps
  <2> QED
    BY <2>1, AddsNone
<1>3. ASSUME NEW i \in Nat, i \in S PROVE i + 1 \in S
  <2> SUFFICES ASSUME i + 1 <= Len(a) PROVE Adds(FirstItems(a, i + 1), FirstItems(ms, i + 1), k)
    OBVIOUS
  <2>1. /\ FirstItems(a, i + 1) = Cat(FirstItems(a, i), One(a[i + 1]))
        /\ FirstItems(ms, i + 1) = Cat(FirstItems(ms, i), One(ms[i + 1]))
    BY <1>1, FrontSteps
  <2>2. i <= Len(a) /\ i + 1 \in 1..Len(a)
    OBVIOUS
  <2>3. Adds(FirstItems(a, i), FirstItems(ms, i), k) /\ Adds(One(a[i + 1]), One(ms[i + 1]), k)
    BY <1>3, <2>2
  <2> QED
    BY <2>1, <2>3, AddsCat
<1> HIDE DEF S
<1>4. Nat \subseteq S
  BY <1>2, <1>3, SetInduction
<1>5. Len(a) \in S /\ Len(a) <= Len(a)
  BY <1>4
<1>6. Adds(FirstItems(a, Len(a)), FirstItems(ms, Len(ms)), k)
  BY <1>5 DEF S
<1> QED
  BY <1>1, <1>6, FrontSteps

\* A member for each sequence of calls.
LEMMA AddsFlatten ==
    ASSUME NEW cs \in Seq(Seq(Calls)), NEW ms \in MemberLists, Len(ms) = Len(cs), NEW k \in Nat,
           \A i \in 1..Len(cs) : Adds(cs[i], One(ms[i]), k)
    PROVE  Adds(FlattenSeq(cs), ms, k)
<1> DEFINE M == Seq(Tokens)
           V == Seq(Calls)
           n == Len(cs)
<1>1. PICK g : Trace(g, n, V, <<>>, ConcatSteps(Calls, cs)) /\ FlattenSeq(cs) = g[n]
  BY FlattenTrace
<1> DEFINE S == {i \in Nat : i <= n => Adds(g[i], FirstItems(ms, i), k)}
<1>2. ms \in Seq(M) /\ cs \in Seq(V)
  BY DEF MemberLists
<1>3. \A i \in 1..n : \A v \in V : ConcatSteps(Calls, cs)[i][v] = Cat(v, cs[i])
  BY Zenon DEF ConcatSteps, Cat
<1> HIDE DEF M, V
<1>4. n \in Nat
  BY <1>2
<1> HIDE DEF n
<1>5. 0 \in S
  <2>1. g[0] = <<>> /\ FirstItems(ms, 0) = <<>>
    BY <1>1, <1>2, FrontSteps DEF Trace
  <2> QED
    BY <2>1, AddsNone
<1>6. ASSUME NEW i \in Nat, i \in S PROVE i + 1 \in S
  <2> SUFFICES ASSUME i + 1 <= n PROVE Adds(g[i + 1], FirstItems(ms, i + 1), k)
    OBVIOUS
  <2>1. i <= n /\ i + 1 \in 1..n /\ i \in 0..n /\ (i + 1) - 1 = i
    BY <1>4
  <2>2. g[i + 1] = ConcatSteps(Calls, cs)[i + 1][g[i]] /\ g[i] \in V
    BY <1>1, <2>1 DEF Trace
  <2>3. g[i + 1] = Cat(g[i], cs[i + 1])
    BY <1>3, <2>1, <2>2
  <2>4. FirstItems(ms, i + 1) = Cat(FirstItems(ms, i), One(ms[i + 1]))
    BY <1>2, <2>1, FrontSteps DEF n
  <2>5. Adds(g[i], FirstItems(ms, i), k) /\ Adds(cs[i + 1], One(ms[i + 1]), k)
    BY <1>6, <2>1 DEF n
  <2> QED
    BY <2>3, <2>4, <2>5, AddsCat
<1> HIDE DEF S
<1>7. Nat \subseteq S
  BY <1>5, <1>6, SetInduction
<1>8. n \in S /\ n <= n
  BY <1>4, <1>7
<1>9. Adds(g[n], FirstItems(ms, Len(ms)), k)
  BY <1>8 DEF S, n
<1> QED
  BY <1>1, <1>2, <1>9, FrontSteps

-----------------------------------------------------------------------------
(* The calls that write a schema, and the members they add. *)

\* The library's own texts are strings.
LEMMA LibraryStrings == LibraryTexts \subseteq Strings /\ ValueType \subseteq Strings
<1>1. Null \notin LibraryTexts
  BY TextAssumption
<1>2. LibraryTexts \subseteq Strings
  BY <1>1 DEF Strings
<1>3. ValueType \subseteq LibraryTexts
  BY DEF LibraryTexts
<1> QED
  BY <1>2, <1>3

\* Arguments or fields, and commands, as a schema can be written from them.
Listed(list) ==
    /\ Len(list) \in Nat
    /\ \A i \in 1..Len(list) : list[i].name \in Strings /\ list[i].type \in ValueType
CommandsListed(cs) ==
    /\ Len(cs) \in Nat
    /\ \A i \in 1..Len(cs) : cs[i].name \in Strings /\ Listed(cs[i].args)

TypedMembers(list) == [i \in 1..Len(list) |-> Pair(list[i].name, String(list[i].type))]
CommandMembers(cs) == [i \in 1..Len(cs) |-> Pair(cs[i].name, CommandObject(cs[i]))]

\* One item for each of n.
LEMMA Itemwise ==
    ASSUME NEW T, NEW n \in Nat, NEW f, f = [i \in 1..n |-> f[i]], \A i \in 1..n : f[i] \in T
    PROVE  f \in Seq(T) /\ Len(f) = n
  OBVIOUS

\* The fields of a list add one member each.
LEMMA AddsTypedNames ==
    ASSUME NEW list, Listed(list)
    PROVE  Adds(TypedNames(list), TypedMembers(list), 0)
<1>1. PICK n \in Nat : n = Len(list)
  BY DEF Listed
<1>2. PICK a : a = TypedNames(list)
  OBVIOUS
<1>3. PICK ms : ms = TypedMembers(list)
  OBVIOUS
<1>4. /\ a = [i \in 1..n |-> a[i]] /\ ms = [i \in 1..n |-> ms[i]]
      /\ \A i \in 1..n : /\ a[i] = Text(list[i].name, list[i].type)
                         /\ ms[i] = Pair(list[i].name, String(list[i].type))
  BY <1>1, <1>2, <1>3, Zenon DEF TypedNames, TypedMembers
<1>5. ASSUME NEW i \in 1..n
      PROVE  a[i] \in Calls /\ ms[i] \in Seq(Tokens) /\ Adds(One(a[i]), One(ms[i]), 0)
  <2>1. list[i].name \in Strings /\ list[i].type \in Strings
    BY <1>1, LibraryStrings DEF Listed
  <2>2. Text(list[i].name, list[i].type) \in Calls
    BY <2>1 DEF Calls
  <2>3. Pair(list[i].name, String(list[i].type)) \in Seq(Tokens)
    BY <2>1, TokensVocabulary, PairType DEF String
  <2> QED
    BY <1>4, <2>1, <2>2, <2>3, AddsText
<1> DEFINE M == Seq(Tokens)
<1>6. \A i \in 1..n : a[i] \in Calls /\ ms[i] \in M
  BY <1>5
<1> HIDE DEF M
<1>7. a \in Seq(Calls) /\ Len(a) = n /\ ms \in Seq(M) /\ Len(ms) = n
  BY <1>4, <1>6, Itemwise
<1>8. ms \in MemberLists
  BY <1>7 DEF MemberLists, M
<1>9. Adds(a, ms, 0)
  BY <1>5, <1>7, <1>8, AddsList
<1> QED
  BY <1>2, <1>3, <1>9

\* Items one by one.
LEMMA TwoItems ==
    ASSUME NEW x, NEW y
    PROVE  <<x, y>> = Cat(One(x), One(y))
<1>1. <<x, y>> = Append(<<x>>, y)
  OBVIOUS
<1>2. x \in {x, y} /\ y \in {x, y}
  OBVIOUS
<1>3. WithLast(One(x), y) = Cat(One(x), One(y))
  BY <1>2, OneItem
<1> QED
  BY <1>1, <1>3, Zenon DEF WithLast, One

\* The same of three.
LEMMA ThreeItems ==
    ASSUME NEW x, NEW y, NEW z
    PROVE  <<x, y, z>> = Cat(Cat(One(x), One(y)), One(z))
<1>1. <<x, y, z>> = <<x, y>> \o <<z>>
  OBVIOUS
<1>2. <<x, y, z>> = Cat(<<x, y>>, One(z))
  BY <1>1, Zenon DEF Cat, One
<1>3. <<x, y>> = Cat(One(x), One(y))
  BY TwoItems
<1> QED
  BY <1>2, <1>3, Zenon

\* The same of four.
LEMMA FourItems ==
    ASSUME NEW x, NEW y, NEW z, NEW u
    PROVE  <<x, y, z, u>> = Cat(Cat(Cat(One(x), One(y)), One(z)), One(u))
<1>1. <<x, y, z, u>> = <<x, y, z>> \o <<u>>
  OBVIOUS
<1>2. <<x, y, z, u>> = Cat(<<x, y, z>>, One(u))
  BY <1>1, Zenon DEF Cat, One
<1>3. <<x, y, z>> = Cat(Cat(One(x), One(y)), One(z))
  BY ThreeItems
<1> QED
  BY <1>2, <1>3, Zenon

\* Where an object begins and ends among the calls.
LEMMA Grouped ==
    ASSUME NEW T
    PROVE  \A u, a, b, c \in Seq(T) : Cat(Cat(Cat(u, a), b), c) = Cat(u, Cat(Cat(a, b), c))
<1> TAKE u, a, b, c \in Seq(T)
<1> QED
  BY CatType, CatAssociative

\* The calls of a command, grouped by the object they are made in.
LEMMA CommandGrouped ==
    ASSUME NEW T, NEW f \in Seq(T), NEW g \in Seq(T), NEW n \in Seq(T), NEW e \in Seq(T),
           NEW l \in Seq(T)
    PROVE  Cat(Cat(Cat(f, g), n), Cat(Cat(e, l), e)) = Cat(Cat(f, Cat(Cat(Cat(g, n), e), l)), e)
<1>1. PICK h \in Seq(T) : h = Cat(g, n)
  BY CatType
<1>2. PICK y \in Seq(T) : y = Cat(e, l)
  BY CatType
<1>3. PICK x \in Seq(T) : x = Cat(f, h)
  BY CatType
<1>4. Cat(Cat(f, g), n) = x
  BY <1>1, <1>3, CatAssociative
<1>5. Cat(x, Cat(y, e)) = Cat(Cat(x, y), e)
  BY CatAssociative
<1>6. Cat(x, y) = Cat(Cat(x, e), l)
  BY <1>2, CatAssociative
<1>7. Cat(Cat(x, e), l) = Cat(f, Cat(Cat(h, e), l))
  BY <1>3, Grouped
<1> QED
  BY <1>1, <1>2, <1>4, <1>5, <1>6, <1>7, Zenon

\* writeCommands, of one command.
LEMMA AddsCommand ==
    ASSUME NEW c, c.name \in Strings, Listed(c.args)
    PROVE  Adds(CommandCalls(c), One(Pair(c.name, CommandObject(c))), 2)
<1> DEFINE f0 == Field(c.name)
           f1 == Field("args")
           lit == Literal("blocked_by_estop", Flag(c.blocked_by_estop))
           names == TypedNames(c.args)
           m1 == Pair("args", TypedNamesObject(c.args))
           m2 == Pair("blocked_by_estop", <<Flag(c.blocked_by_estop)>>)
           args == Cat(Cat(One(f1), names), One(End))
           body == Cat(args, One(lit))
<1>1. "args" \in Strings /\ "blocked_by_estop" \in Strings
  BY LibraryStrings DEF LibraryTexts
<1>2. Flag(c.blocked_by_estop) \in Tokens
  <2>1. Flag(c.blocked_by_estop) = Flag(TRUE) \/ Flag(c.blocked_by_estop) = Flag(FALSE)
    BY DEF Flag
  <2> QED
    BY <2>1, Zenon DEF Tokens
<1>3. Adds(args, One(m1), 1)
  <2>1. Adds(names, TypedMembers(c.args), 0)
    BY AddsTypedNames
  <2>2. Adds(args, One(Pair("args", Object(TypedMembers(c.args)))), 0 + 1)
    BY <1>1, <2>1, AddsObject
  <2>3. Object(TypedMembers(c.args)) = TypedNamesObject(c.args)
    BY Zenon DEF TypedNamesObject, TypedMembers
  <2> QED
    BY <2>2, <2>3
<1>4. Adds(One(lit), One(m2), 1)
  <2>1. Adds(One(lit), One(m2), 0)
    BY <1>1, <1>2, AddsLiteral
  <2> HIDE DEF lit, m2
  <2> QED
    BY <2>1, AddsWeaken
<1>5. Adds(body, Cat(One(m1), One(m2)), 1)
  <2> HIDE DEF m1, m2, lit, args
  <2> QED
    BY <1>3, <1>4, AddsCat
<1>6. Adds(Cat(Cat(One(f0), body), One(End)), One(Pair(c.name, Object(Cat(One(m1), One(m2))))), 2)
  <2> HIDE DEF m1, m2, body
  <2>1. Adds(Cat(Cat(One(f0), body), One(End)),
             One(Pair(c.name, Object(Cat(One(m1), One(m2))))), 1 + 1)
    BY <1>5, AddsObject
  <2> QED
    BY <2>1
<1>7. CommandObject(c) = Object(Cat(One(m1), One(m2)))
  <2>1. CommandObject(c) = Object(<<m1, m2>>)
    BY Zenon DEF CommandObject
  <2> HIDE DEF m1, m2
  <2>2. <<m1, m2>> = Cat(One(m1), One(m2))
    BY TwoItems
  <2> QED
    BY <2>1, <2>2, Zenon
<1>8. CommandCalls(c) = Cat(Cat(One(f0), body), One(End))
  <2>1. CommandCalls(c) = Cat(Cat(<<f0, f1>>, names), <<End, lit, End>>)
    BY Zenon DEF CommandCalls, Cat
  <2>2. /\ One(f0) \in Seq(Calls) /\ One(f1) \in Seq(Calls) /\ One(End) \in Seq(Calls)
        /\ One(lit) \in Seq(Calls) /\ names \in Seq(Calls)
    <3>1. f0 \in Calls /\ f1 \in Calls /\ End \in Calls /\ lit \in Calls
      BY <1>1, <1>2 DEF Calls
    <3>2. names \in Seq(Calls)
      BY AddsTypedNames DEF Adds
    <3> HIDE DEF f0, f1, lit
    <3> QED
      BY <3>1, <3>2, OneItem
  <2> HIDE DEF f0, f1, lit, names
  <2>30. <<f0, f1>> = Cat(One(f0), One(f1))
    BY TwoItems
  <2>3. <<End, lit, End>> = Cat(Cat(One(End), One(lit)), One(End))
    BY ThreeItems
  <2>4. PICK g0 : g0 = One(f0)
    OBVIOUS
  <2>5. PICK g1 : g1 = One(f1)
    OBVIOUS
  <2>6. PICK e : e = One(End)
    OBVIOUS
  <2>7. PICK l : l = One(lit)
    OBVIOUS
  <2>8. CommandCalls(c) = Cat(Cat(Cat(g0, g1), names), Cat(Cat(e, l), e))
    BY <2>1, <2>3, <2>30, <2>4, <2>5, <2>6, <2>7, Zenon
  <2>9. body = Cat(Cat(Cat(g1, names), e), l)
    BY <2>4, <2>5, <2>6, <2>7, Zenon
  <2>10. Cat(Cat(Cat(g0, g1), names), Cat(Cat(e, l), e))
           = Cat(Cat(g0, Cat(Cat(Cat(g1, names), e), l)), e)
    BY <2>2, <2>4, <2>5, <2>6, <2>7, CommandGrouped
  <2> HIDE DEF body
  <2> QED
    BY <2>4, <2>6, <2>8, <2>9, <2>10, Zenon
<1> QED
  BY <1>6, <1>7, <1>8, Zenon

\* writeCommands.
LEMMA AddsCommands ==
    ASSUME NEW cs, CommandsListed(cs)
    PROVE  Adds(FlattenSeq([i \in 1..Len(cs) |-> CommandCalls(cs[i])]), CommandMembers(cs), 2)
<1>1. PICK n \in Nat : n = Len(cs)
  BY DEF CommandsListed
<1>2. PICK a : a = [i \in 1..Len(cs) |-> CommandCalls(cs[i])]
  OBVIOUS
<1>3. PICK ms : ms = CommandMembers(cs)
  OBVIOUS
<1>4. /\ a = [i \in 1..n |-> a[i]] /\ ms = [i \in 1..n |-> ms[i]]
      /\ \A i \in 1..n : /\ a[i] = CommandCalls(cs[i])
                         /\ ms[i] = Pair(cs[i].name, CommandObject(cs[i]))
  BY <1>1, <1>2, <1>3, Zenon DEF CommandMembers
<1> DEFINE M == Seq(Tokens)
           V == Seq(Calls)
<1>5. ASSUME NEW i \in 1..n PROVE a[i] \in V /\ ms[i] \in M /\ Adds(a[i], One(ms[i]), 2)
  <2>1. cs[i].name \in Strings /\ Listed(cs[i].args)
    BY <1>1 DEF CommandsListed
  <2>2. Adds(a[i], One(ms[i]), 2)
    BY <1>4, <2>1, AddsCommand
  <2>3. One(ms[i]) \in MemberLists
    BY <2>2 DEF Adds
  <2>4. ms[i] \in M
    <3> DEFINE x == ms[i]
    <3>1. One(x) \in Seq(M)
      BY <2>3 DEF MemberLists
    <3> HIDE DEF x, M
    <3>2. <<x>>[1] \in M
      BY <3>1 DEF One
    <3>3. x \in M
      BY <3>2
    <3> QED
      BY <3>3 DEF x
  <2> QED
    BY <2>2, <2>4 DEF Adds
<1> HIDE DEF M, V
<1>6. a \in Seq(V) /\ Len(a) = n /\ ms \in Seq(M) /\ Len(ms) = n
  BY <1>4, <1>5, Itemwise
<1>7. ms \in MemberLists /\ a \in Seq(Seq(Calls))
  BY <1>6 DEF MemberLists, M, V
<1>8. Adds(FlattenSeq(a), ms, 2)
  <2>1. \A i \in 1..Len(a) : Adds(a[i], One(ms[i]), 2)
    BY <1>5, <1>6
  <2>2. Len(ms) = Len(a)
    BY <1>6
  <2> QED
    BY <1>7, <2>1, <2>2, AddsFlatten
<1> QED
  BY <1>2, <1>3, <1>8

-----------------------------------------------------------------------------
(* The schema line. *)

SchemaMembers(id, cs, tf, sf) ==
    <<Pair("commands", Object(CommandMembers(cs))), Pair("telemetry", Object(TypedMembers(tf))),
      Pair("state", Object(TypedMembers(sf))),
      Pair("firmware_version", String(id.firmware_version))>>

EnvelopeMembers(t, id) ==
    <<Pair("type", String("schema")), Pair("seq", <<Token("1", 1)>>), Pair("timestamp", <<t>>),
      Pair("source", String(id.board_id)), Pair("target", String("controller")),
      Pair("protocol_version", String(id.protocol_version))>>

LineMembers(t, id, cs, tf, sf) ==
    Cat(EnvelopeMembers(t, id), One(Pair("schema", Object(SchemaMembers(id, cs, tf, sf)))))

\* What the registry holds can be written.
Writable(id, cs, tf, sf) ==
    /\ CommandsListed(cs) /\ Listed(tf) /\ Listed(sf)
    /\ id.board_id \in Strings /\ id.protocol_version \in Strings
    /\ id.firmware_version \in Strings

SchemaSplit(s, c, n, e, t, tn, u, un, x) ==
    LET C == Cat(Cat(c, n), e)
        D == Cat(Cat(t, tn), e)
        E == Cat(Cat(u, un), e)
    IN  Cat(Cat(Cat(Cat(Cat(Cat(Cat(Cat(Cat(Cat(s, c), n), e), t), tn), e), u), un), e), Cat(x, e))
          = Cat(Cat(s, Cat(Cat(Cat(C, D), E), x)), e)

\* The calls of the schema, grouped by the object they are made in.
LEMMA SchemaGrouped ==
    ASSUME NEW T, NEW s \in Seq(T), NEW c \in Seq(T), NEW n \in Seq(T), NEW e \in Seq(T),
           NEW t \in Seq(T), NEW tn \in Seq(T), NEW u \in Seq(T), NEW un \in Seq(T),
           NEW x \in Seq(T)
    PROVE  SchemaSplit(s, c, n, e, t, tn, u, un, x)
<1> DEFINE C == Cat(Cat(c, n), e)
           D == Cat(Cat(t, tn), e)
           E == Cat(Cat(u, un), e)
<1>0. C \in Seq(T) /\ D \in Seq(T) /\ E \in Seq(T)
  <2>1. Cat(c, n) \in Seq(T) /\ Cat(t, tn) \in Seq(T) /\ Cat(u, un) \in Seq(T)
    BY CatType
  <2> QED
    BY <2>1, CatType
<1>1. PICK a \in Seq(T) : a = Cat(s, C) /\ a = Cat(Cat(Cat(s, c), n), e)
  <2>1. Cat(Cat(Cat(s, c), n), e) = Cat(s, C)
    BY Grouped
  <2>2. Cat(s, C) \in Seq(T)
    BY <1>0, CatType
  <2> QED
    BY <2>1, <2>2, Zenon
<1>3. PICK b \in Seq(T) : b = Cat(a, D) /\ b = Cat(Cat(Cat(a, t), tn), e)
  <2>1. Cat(Cat(Cat(a, t), tn), e) = Cat(a, D)
    BY Grouped
  <2>2. Cat(a, D) \in Seq(T)
    BY <1>0, CatType
  <2> QED
    BY <2>1, <2>2, Zenon
<1>5. PICK d \in Seq(T) : d = Cat(b, E) /\ d = Cat(Cat(Cat(b, u), un), e)
  <2>1. Cat(Cat(Cat(b, u), un), e) = Cat(b, E)
    BY Grouped
  <2>2. Cat(b, E) \in Seq(T)
    BY <1>0, CatType
  <2> QED
    BY <2>1, <2>2, Zenon
<1> HIDE DEF C, D, E
<1>7. PICK g \in Seq(T) : g = Cat(Cat(C, D), E)
  <2>1. Cat(C, D) \in Seq(T)
    BY <1>0, CatType
  <2> QED
    BY <1>0, <2>1, CatType
<1>8. d = Cat(s, g)
  <2>1. Cat(Cat(Cat(s, C), D), E) = Cat(s, Cat(Cat(C, D), E))
    BY <1>0, Grouped
  <2> QED
    BY <1>1, <1>3, <1>5, <1>7, <2>1, Zenon
<1>9. Cat(d, Cat(x, e)) = Cat(Cat(d, x), e)
  BY CatAssociative
<1>10. Cat(d, x) = Cat(s, Cat(g, x))
  BY <1>7, <1>8, CatAssociative
<1> QED
  BY <1>1, <1>3, <1>5, <1>7, <1>9, <1>10, Zenon DEF SchemaSplit, C, D, E

\* writeSchemaObject.
LEMMA AddsSchema ==
    ASSUME Writable(identity, commands, telemetry_fields, state_fields)
    PROVE  Adds(SchemaObjectCalls,
                One(Pair("schema", Object(SchemaMembers(identity, commands, telemetry_fields,
                                                        state_fields)))), 4)
<1> DEFINE Wrapped(name, calls) == Cat(Cat(One(Field(name)), calls), One(End))
<1>1. /\ "schema" \in Strings /\ "commands" \in Strings /\ "telemetry" \in Strings
      /\ "state" \in Strings /\ "firmware_version" \in Strings
  BY LibraryStrings DEF LibraryTexts
<1>2. PICK flat : flat = FlattenSeq([i \in 1..Len(commands) |-> CommandCalls(commands[i])])
  OBVIOUS
<1>3. PICK tn : tn = TypedNames(telemetry_fields)
  OBVIOUS
<1>4. PICK sn : sn = TypedNames(state_fields)
  OBVIOUS
<1>5. PICK x : x = Text("firmware_version", identity.firmware_version)
  OBVIOUS
<1>6. PICK mc : mc = Pair("commands", Object(CommandMembers(commands)))
  OBVIOUS
<1>7. PICK mt : mt = Pair("telemetry", Object(TypedMembers(telemetry_fields)))
  OBVIOUS
<1>8. PICK ms : ms = Pair("state", Object(TypedMembers(state_fields)))
  OBVIOUS
<1>9. PICK mx : mx = Pair("firmware_version", String(identity.firmware_version))
  OBVIOUS
<1>10. flat \in Seq(Calls) /\ Adds(Wrapped("commands", flat), One(mc), 3)
  <2>1. Adds(flat, CommandMembers(commands), 2)
    BY <1>2, AddsCommands DEF Writable
  <2>2. Adds(Wrapped("commands", flat), One(mc), 2 + 1)
    BY <1>1, <1>6, <2>1, AddsObject
  <2>3. Adds(Wrapped("commands", flat), One(mc), 3)
    BY <2>2
  <2> QED
    BY <2>1, <2>3 DEF Adds
<1>11. tn \in Seq(Calls) /\ Adds(Wrapped("telemetry", tn), One(mt), 3)
  <2>1. Adds(tn, TypedMembers(telemetry_fields), 0)
    BY <1>3, AddsTypedNames DEF Writable
  <2>2. Adds(Wrapped("telemetry", tn), One(mt), 0 + 1)
    BY <1>1, <1>7, <2>1, AddsObject
  <2>3. Adds(Wrapped("telemetry", tn), One(mt), 3)
    BY <2>2, AddsWeaken
  <2> QED
    BY <2>1, <2>3 DEF Adds
<1>12. sn \in Seq(Calls) /\ Adds(Wrapped("state", sn), One(ms), 3)
  <2>1. Adds(sn, TypedMembers(state_fields), 0)
    BY <1>4, AddsTypedNames DEF Writable
  <2>2. Adds(Wrapped("state", sn), One(ms), 0 + 1)
    BY <1>1, <1>8, <2>1, AddsObject
  <2>3. Adds(Wrapped("state", sn), One(ms), 3)
    BY <2>2, AddsWeaken
  <2> QED
    BY <2>1, <2>3 DEF Adds
<1>13. Adds(One(x), One(mx), 3)
  <2>1. Adds(One(x), One(mx), 0)
    BY <1>1, <1>5, <1>9, AddsText DEF Writable
  <2> QED
    BY <2>1, AddsWeaken
<1> DEFINE body == Cat(Cat(Cat(Wrapped("commands", flat), Wrapped("telemetry", tn)),
                           Wrapped("state", sn)), One(x))
           members == Cat(Cat(Cat(One(mc), One(mt)), One(ms)), One(mx))
<1>14. Adds(body, members, 3)
  <2> HIDE DEF Wrapped
  <2>1. PICK c : c = Wrapped("commands", flat)
    OBVIOUS
  <2>2. PICK d : d = Wrapped("telemetry", tn)
    OBVIOUS
  <2>3. PICK e : e = Wrapped("state", sn)
    OBVIOUS
  <2>4. Adds(Cat(c, d), Cat(One(mc), One(mt)), 3)
    BY <1>10, <1>11, <2>1, <2>2, AddsCat
  <2>5. Adds(Cat(Cat(c, d), e), Cat(Cat(One(mc), One(mt)), One(ms)), 3)
    BY <1>12, <2>3, <2>4, AddsCat
  <2>6. Adds(Cat(Cat(Cat(c, d), e), One(x)), members, 3)
    BY <1>13, <2>5, AddsCat
  <2> QED
    BY <2>1, <2>2, <2>3, <2>6
<1>15. SchemaMembers(identity, commands, telemetry_fields, state_fields) = members
  <2>1. SchemaMembers(identity, commands, telemetry_fields, state_fields) = <<mc, mt, ms, mx>>
    BY <1>6, <1>7, <1>8, <1>9, Zenon DEF SchemaMembers
  <2> QED
    BY <2>1, FourItems
<1>16. SchemaObjectCalls = Wrapped("schema", body)
  <2>1. PICK f : f = One(Field("schema"))
    OBVIOUS
  <2>2. PICK g : g = One(Field("commands"))
    OBVIOUS
  <2>3. PICK h : h = One(Field("telemetry"))
    OBVIOUS
  <2>4. PICK k : k = One(Field("state"))
    OBVIOUS
  <2>5. PICK e : e = One(End)
    OBVIOUS
  <2>6. PICK y : y = One(x)
    OBVIOUS
  <2>7. /\ f \in Seq(Calls) /\ g \in Seq(Calls) /\ h \in Seq(Calls) /\ k \in Seq(Calls)
        /\ e \in Seq(Calls) /\ y \in Seq(Calls)
    <3>1. /\ Field("schema") \in Calls /\ Field("commands") \in Calls
          /\ Field("telemetry") \in Calls /\ Field("state") \in Calls /\ End \in Calls
      <4>1. End \in Calls /\ \A n \in Strings : Field(n) \in Calls
        BY DEF Calls
      <4> QED
        BY <1>1, <4>1
    <3>2. y \in Seq(Calls)
      BY <1>13, <2>6 DEF Adds
    <3> QED
      BY <2>1, <2>2, <2>3, <2>4, <2>5, <3>1, <3>2, OneItem
  <2>8. /\ <<Field("schema"), Field("commands")>> = Cat(f, g)
        /\ <<End>> = e /\ <<Field("telemetry")>> = h /\ <<Field("state")>> = k
    <3>1. <<Field("schema"), Field("commands")>> = Cat(One(Field("schema")), One(Field("commands")))
      BY TwoItems
    <3> QED
      BY <2>1, <2>2, <2>3, <2>4, <2>5, <3>1, Zenon DEF One
  <2>9. <<x, End>> = Cat(y, e)
    BY <2>5, <2>6, TwoItems
  <2>10. SchemaObjectCalls =
           Cat(Cat(Cat(Cat(Cat(Cat(Cat(Cat(Cat(Cat(f, g), flat), e), h), tn), e), k), sn), e),
               Cat(y, e))
    BY <1>2, <1>3, <1>4, <1>5, <2>8, <2>9, Zenon DEF SchemaObjectCalls, Cat
  <2>11. SchemaSplit(f, g, flat, e, h, tn, k, sn, y)
    BY <1>10, <1>11, <1>12, <2>7, SchemaGrouped
  <2>12. SchemaObjectCalls =
           Cat(Cat(f, Cat(Cat(Cat(Cat(Cat(g, flat), e), Cat(Cat(h, tn), e)),
                              Cat(Cat(k, sn), e)), y)), e)
    BY <2>10, <2>11, Zenon DEF SchemaSplit
  <2> QED
    BY <2>1, <2>2, <2>3, <2>4, <2>5, <2>6, <2>12, Zenon
<1> HIDE DEF body, members
<1>17. Adds(Wrapped("schema", body), One(Pair("schema", Object(members))), 3 + 1)
  BY <1>1, <1>14, AddsObject
<1>18. Adds(Wrapped("schema", body), One(Pair("schema", Object(members))), 4)
  BY <1>17
<1> QED
  BY <1>15, <1>16, <1>18, Zenon

\* The same of six.
LEMMA SixItems ==
    ASSUME NEW a, NEW b, NEW c, NEW d, NEW e, NEW f
    PROVE  <<a, b, c, d, e, f>> =
             Cat(Cat(Cat(Cat(One(a), One(b)), One(c)), One(d)), Cat(One(e), One(f)))
<1>1. <<a, b, c, d, e, f>> = <<a, b, c, d>> \o <<e, f>>
  OBVIOUS
<1>2. <<a, b, c, d>> = Cat(Cat(Cat(One(a), One(b)), One(c)), One(d))
  BY FourItems
<1>3. <<e, f>> = Cat(One(e), One(f))
  BY TwoItems
<1> QED
  BY <1>1, <1>2, <1>3, Zenon DEF Cat

\* writeEnvelope.
LEMMA AddsEnvelope ==
    ASSUME Writable(identity, commands, telemetry_fields, state_fields),
           NEW t \in Timestamps \cup {WidestTimestamp}
    PROVE  Adds(EnvelopeCalls(t), EnvelopeMembers(t, identity), 0)
<1>1. /\ "type" \in Strings /\ "schema" \in Strings /\ "seq" \in Strings
      /\ "timestamp" \in Strings /\ "source" \in Strings /\ "target" \in Strings
      /\ "controller" \in Strings /\ "protocol_version" \in Strings
  BY LibraryStrings DEF LibraryTexts
<1>2. identity.board_id \in Strings /\ identity.protocol_version \in Strings
  BY DEF Writable
<1>3. Token("1", 1) \in Tokens /\ t \in Tokens
  BY Zenon DEF Tokens
<1>4. PICK a : a = Text("type", "schema")
  OBVIOUS
<1>5. PICK b : b = Literal("seq", Token("1", 1))
  OBVIOUS
<1>6. PICK c : c = Literal("timestamp", t)
  OBVIOUS
<1>7. PICK d : d = Text("source", identity.board_id)
  OBVIOUS
<1>8. PICK e : e = Text("target", "controller")
  OBVIOUS
<1>9. PICK f : f = Text("protocol_version", identity.protocol_version)
  OBVIOUS
<1>10. PICK ma : ma = Pair("type", String("schema"))
  OBVIOUS
<1>11. PICK mb : mb = Pair("seq", <<Token("1", 1)>>)
  OBVIOUS
<1>12. PICK mc : mc = Pair("timestamp", <<t>>)
  OBVIOUS
<1>13. PICK md : md = Pair("source", String(identity.board_id))
  OBVIOUS
<1>14. PICK me : me = Pair("target", String("controller"))
  OBVIOUS
<1>15. PICK mf : mf = Pair("protocol_version", String(identity.protocol_version))
  OBVIOUS
<1>16. /\ Adds(One(a), One(ma), 0) /\ Adds(One(d), One(md), 0)
       /\ Adds(One(e), One(me), 0) /\ Adds(One(f), One(mf), 0)
  BY <1>1, <1>2, <1>4, <1>7, <1>8, <1>9, <1>10, <1>13, <1>14, <1>15, AddsText
<1>17. Adds(One(b), One(mb), 0) /\ Adds(One(c), One(mc), 0)
  BY <1>1, <1>3, <1>5, <1>6, <1>11, <1>12, AddsLiteral
<1>18. Adds(Cat(Cat(Cat(Cat(One(a), One(b)), One(c)), One(d)), Cat(One(e), One(f))),
            Cat(Cat(Cat(Cat(One(ma), One(mb)), One(mc)), One(md)), Cat(One(me), One(mf))), 0)
  <2>1. Adds(Cat(One(a), One(b)), Cat(One(ma), One(mb)), 0)
    BY <1>16, <1>17, AddsCat
  <2>2. Adds(Cat(Cat(One(a), One(b)), One(c)), Cat(Cat(One(ma), One(mb)), One(mc)), 0)
    BY <1>17, <2>1, AddsCat
  <2>3. Adds(Cat(Cat(Cat(One(a), One(b)), One(c)), One(d)),
             Cat(Cat(Cat(One(ma), One(mb)), One(mc)), One(md)), 0)
    BY <1>16, <2>2, AddsCat
  <2>4. Adds(Cat(One(e), One(f)), Cat(One(me), One(mf)), 0)
    BY <1>16, AddsCat
  <2> QED
    BY <2>3, <2>4, AddsCat
<1>19. Adds(<<a, b, c, d, e, f>>, <<ma, mb, mc, md, me, mf>>, 0)
  <2>1. <<a, b, c, d, e, f>> =
          Cat(Cat(Cat(Cat(One(a), One(b)), One(c)), One(d)), Cat(One(e), One(f)))
    BY SixItems
  <2>2. <<ma, mb, mc, md, me, mf>> =
          Cat(Cat(Cat(Cat(One(ma), One(mb)), One(mc)), One(md)), Cat(One(me), One(mf)))
    BY SixItems
  <2> QED
    BY <1>18, <2>1, <2>2, Zenon
<1>20. EnvelopeCalls(t) = <<a, b, c, d, e, f>>
  BY <1>4, <1>5, <1>6, <1>7, <1>8, <1>9, Zenon DEF EnvelopeCalls
<1>21. EnvelopeMembers(t, identity) = <<ma, mb, mc, md, me, mf>>
  BY <1>10, <1>11, <1>12, <1>13, <1>14, <1>15, Zenon DEF EnvelopeMembers
<1> QED
  BY <1>19, <1>20, <1>21, Zenon

\* The line that was built: all of the document, exactly when it fits.
LineBuilt(r, ms) ==
    /\ r.ok <=> Bytes(Object(ms)) + 1 <= SchemaCapacity
    /\ r.ok => r.w.out = Append(Object(ms), LineEnd)

\* buildSchemaLineWithTimestamp.
LEMMA SchemaLineExact ==
    ASSUME Writable(identity, commands, telemetry_fields, state_fields),
           NEW t \in Timestamps \cup {WidestTimestamp}, NEW ms,
           ms = LineMembers(t, identity, commands, telemetry_fields, state_fields)
    PROVE  ms \in MemberLists /\ LineBuilt(SchemaLine(t), ms)
<1> DEFINE start_w == reserveTailBytes(NewWriter(SchemaCapacity), 1).w
           open == beginObject(start_w)
           calls == Cat(EnvelopeCalls(t), SchemaObjectCalls)
           built == Chain(open.w, Cat(calls, One(End)))
           line == SchemaLine(t)
           p == <<Opening>>
           z == <<Closing>>
<1>0. IsVocabulary(Tokens) /\ SchemaCapacity \in Nat /\ MaxDepth >= 5 /\ MaxDepth \in Nat
  BY TokensVocabulary, SchemaAssumption, DepthAssumption
<1>1. Adds(calls, ms, 4)
  <2>1. Adds(EnvelopeCalls(t), EnvelopeMembers(t, identity), 4)
    BY AddsEnvelope, AddsWeaken
  <2> QED
    BY <2>1, AddsSchema, AddsCat DEF LineMembers
<1>2. ms \in MemberLists /\ calls \in Seq(Calls)
  BY <1>1 DEF Adds
<1>3. /\ open.ok \in BOOLEAN /\ (open.ok <=> 2 <= SchemaCapacity)
      /\ open.ok => /\ OpenObject(open.w, Tokens, <<>>) /\ open.w.capacity = SchemaCapacity
                    /\ open.w.tail_reserve = 1
  BY <1>0, LineOpens
<1>4. line = IF open.ok /\ built.ok THEN appendNewline(releaseTailReserve(built.w))
             ELSE [ok |-> FALSE, w |-> built.w]
  BY Zenon DEF SchemaLine, Cat, One
<1> HIDE DEF line, open, built, calls, start_w
<1>5. /\ Object(ms) = Cat(Cat(p, Separated(ms)), z)
      /\ Object(ms) \in Seq(Tokens) /\ p \in Seq(Tokens) /\ z \in Seq(Tokens)
      /\ Separated(ms) \in Seq(Tokens)
      /\ Bytes(Object(ms)) = 2 + Bytes(Separated(ms)) /\ Bytes(Separated(ms)) \in Nat
  <2>1. Object(ms) = Cat(Cat(p, Separated(ms)), z)
    BY Zenon DEF Object, Cat
  <2>2. p \in Seq(Tokens) /\ z \in Seq(Tokens) /\ Comma \in Tokens /\ <<>> \in Seq(Tokens)
    BY <1>0 DEF IsVocabulary
  <2>3. ms \in Seq(Seq(Tokens))
    BY <1>2 DEF MemberLists
  <2>4. Separated(ms) \in Seq(Tokens)
    BY <2>2, <2>3, SeparatedAppend
  <2>5. /\ Object(ms) \in Seq(Tokens)
        /\ Bytes(Object(ms)) = 2 + Bytes(Separated(ms)) /\ Bytes(Separated(ms)) \in Nat
    BY <1>0, <2>3, ObjectText
  <2> QED
    BY <2>1, <2>2, <2>4, <2>5
<1> HIDE DEF p, z
<1>6. CASE ~open.ok
  <2>1. line.ok = FALSE
    BY <1>4, <1>6
  <2>2. ~(Bytes(Object(ms)) + 1 <= SchemaCapacity)
    BY <1>0, <1>3, <1>5, <1>6
  <2> QED
    BY <1>2, <2>1, <2>2 DEF LineBuilt, line
<1>7. CASE open.ok
  <2>1. /\ Inside(open.w, Tokens, p, <<>>) /\ open.w.depth = 1 /\ open.w \in Writer(Tokens)
        /\ open.w.capacity = SchemaCapacity /\ open.w.tail_reserve = 1
    BY <1>3, <1>7 DEF OpenObject, Inside, p
  <2>2. PICK r : r = Chain(open.w, calls)
    OBVIOUS
  <2>3. Extended(r, open.w, p, <<>>, ms)
    <3>1. open.w.depth + 4 <= MaxDepth
      BY <1>0, <2>1
    <3> QED
      BY <1>1, <1>5, <2>1, <2>2, <3>1, MemberListsClosed DEF Adds
  <2>4. Cat(<<>>, ms) = ms
    BY <1>2, MemberListsClosed
  <2>5. /\ r \in Result /\ (r.ok <=> Fits(Cat(p, Separated(ms)), open.w))
        /\ (r.ok => Inside(r.w, Tokens, p, ms) /\ Kept(r.w, open.w))
    BY <2>3, <2>4 DEF Extended
  <2>6. End \in Calls
    BY DEF Calls
  <2>7. One(End) \in Seq(Calls)
    BY <2>6, OneItem
  <2>8. built = Then(r, One(End))
    BY <1>2, <2>1, <2>2, <2>7, ChainCat DEF built
  <2>9. Fits(Object(ms), open.w) <=> Bytes(Object(ms)) + 1 <= SchemaCapacity
    BY <2>1 DEF Fits
  <2>10. Fits(Object(ms), open.w) => Fits(Cat(p, Separated(ms)), open.w)
    <3>1. Cat(p, Separated(ms)) \in Seq(Tokens)
      BY <1>5, CatType
    <3>2. PICK w : w = open.w
      OBVIOUS
    <3>3. w.tail_reserve \in Nat /\ w.capacity \in Nat
      BY <1>0, <2>1, <3>2
    <3>4. Fits(Cat(Cat(p, Separated(ms)), z), w) => Fits(Cat(p, Separated(ms)), w)
      BY <1>5, <3>1, <3>3, FitsPart
    <3> QED
      BY <1>5, <3>2, <3>4, Zenon
  <2>11. CASE ~r.ok
    <3>1. built = r
      BY <2>8, <2>11 DEF Then
    <3>2. line.ok = FALSE
      BY <1>4, <2>11, <3>1
    <3>3. ~(Bytes(Object(ms)) + 1 <= SchemaCapacity)
      BY <2>5, <2>9, <2>10, <2>11
    <3> QED
      BY <1>2, <3>2, <3>3 DEF LineBuilt, line
  <2>12. CASE r.ok
    <3>1. /\ Inside(r.w, Tokens, p, ms) /\ r.w \in Writer(Tokens)
          /\ r.w.capacity = SchemaCapacity /\ r.w.tail_reserve = 1
      BY <2>1, <2>5, <2>12 DEF Inside, Kept
    <3>2. built = endObject(r.w)
      BY <2>6, <2>8, <2>12, <3>1, ChainOne, ApplyCases DEF Then
    <3>3. Ended(built, r.w, Tokens, p, ms)
      BY <1>0, <1>2, <1>5, <3>1, <3>2, ObjectEnded DEF MemberLists
    <3>4. /\ built.ok \in BOOLEAN /\ (built.ok <=> Fits(Object(ms), r.w))
          /\ built.ok => /\ built.w \in Writer(Tokens) /\ InBuffer(built.w)
                         /\ built.w.out = Object(ms) /\ built.w.tail_reserve = 1
      BY <1>5, <3>1, <3>3 DEF Ended, z
    <3>5. built.ok <=> Bytes(Object(ms)) + 1 <= SchemaCapacity
      BY <3>1, <3>4 DEF Fits
    <3>6. CASE ~built.ok
      <4>1. line.ok = FALSE
        BY <1>4, <3>6
      <4> QED
        BY <1>2, <3>5, <3>6, <4>1 DEF LineBuilt, line
    <3>7. CASE built.ok
      <4>1. line = appendNewline(releaseTailReserve(built.w))
        BY <1>4, <1>7, <3>7
      <4>2. line.ok = TRUE /\ line.w.out = Cat(built.w.out, <<LineEnd>>)
        BY <1>0, <3>4, <3>7, <4>1, NewlineAppended
      <4>3. WithLast(Object(ms), LineEnd) = Cat(Object(ms), One(LineEnd))
        <5>1. LineEnd \in Tokens
          BY <1>0 DEF IsVocabulary
        <5> QED
          BY <1>5, <5>1, OneItem
      <4>4. line.w.out = Append(Object(ms), LineEnd)
        BY <3>4, <3>7, <4>2, <4>3, Zenon DEF WithLast, One
      <4> QED
        BY <1>2, <3>5, <3>7, <4>2, <4>4, Zenon DEF LineBuilt, line
    <3> QED
      BY <3>6, <3>7
  <2> QED
    BY <2>11, <2>12
<1> QED
  BY <1>6, <1>7

\* Every item of a list that the application offered has a name among its
\* strings.
LEMMA OfferedNames ==
    ASSUME NEW spec \in Offered, WellTyped(spec.args)
    PROVE  /\ spec.name # Null => spec.name \in Strings
           /\ Listed(spec.args)
<1> DEFINE args == spec.args
<1>1. args \in Seq(Range(args))
  BY OfferedLists
<1>2. Len(args) \in Nat /\ DOMAIN args = 1..Len(args)
  <2> HIDE DEF args
  <2> QED
    BY <1>1
<1>3. CASE spec \in CommandSpecs
  <2>1. spec.name \in ApiTexts /\ ItemNames(args) \subseteq ApiTexts
    <3>1. ASSUME NEW s \in {spec.name} \cup ItemNames(args) PROVE s \in ApiTexts
      BY <1>3, Zenon DEF ApiTexts
    <3> QED
      BY <3>1
  <2>2. ASSUME NEW i \in 1..Len(args)
        PROVE  args[i].name \in Strings /\ args[i].type \in ValueType
    <3>1. args[i].name \in ItemNames(args)
      BY <1>2, Zenon DEF ItemNames
    <3>2. args[i].name # Null /\ args[i].type \in ValueType
      BY <1>2, Zenon DEF WellTyped, UniqueNames
    <3> QED
      BY <2>1, <3>1, <3>2 DEF Strings
  <2>3. spec.name # Null => spec.name \in Strings
    BY <2>1 DEF Strings
  <2> QED
    BY <1>2, <2>2, <2>3 DEF Listed
<1>4. CASE spec = CountersCommand
  <2>1. args = <<>>
    BY <1>4 DEF CountersCommand
  <2>2. Len(args) = 0
    BY <2>1
  <2>3. spec.name \in Strings
    BY <1>4, LibraryStrings, Zenon DEF LibraryTexts
  <2>4. Listed(args)
    BY <2>2 DEF Listed
  <2> QED
    BY <2>3, <2>4
<1> QED
  BY <1>3, <1>4 DEF Offered

\* Registered fields can be written.
LEMMA FieldsListed ==
    ASSUME NEW fields, FieldsOK(fields, Fields)
    PROVE  Listed(fields)
<1>1. fields \in Seq(Fields) /\ WellTyped(fields)
  BY DEF FieldsOK
<1>2. /\ Len(fields) \in Nat /\ DOMAIN fields = 1..Len(fields)
      /\ \A i \in 1..Len(fields) : fields[i] \in Fields
  BY <1>1
<1>3. ASSUME NEW i \in 1..Len(fields)
      PROVE  fields[i].name \in Strings /\ fields[i].type \in ValueType
  <2>1. PICK list \in (TelemetryLists \cup StateLists) \ {Null} : fields[i] \in Range(list)
    BY <1>2, Zenon DEF Fields
  <2>2. PICK j \in DOMAIN list : fields[i] = list[j]
    BY <2>1, Zenon DEF Range
  <2>3. fields[i].name \in ItemNames(list)
    BY <2>2, Zenon DEF ItemNames
  <2>4. fields[i].name \in ApiTexts
    BY <2>3, Zenon DEF ApiTexts
  <2>5. fields[i].name # Null /\ fields[i].type \in ValueType
    BY <1>1, <1>2, Zenon DEF WellTyped, UniqueNames
  <2> QED
    BY <2>4, <2>5 DEF Strings
<1> QED
  BY <1>2, <1>3 DEF Listed

\* What a sound registry holds can be written.
LEMMA RegistryWritable ==
    ASSUME RegistryOK, IdentityOK
    PROVE  Writable(identity, commands, telemetry_fields, state_fields)
<1> DEFINE T == {StoredCommand(spec) : spec \in Offered}
<1>1. CommandsListed(commands)
  <2>1. commands \in Seq(T)
    BY DEF RegistryOK, CommandsOK
  <2> HIDE DEF T
  <2>2. /\ Len(commands) \in Nat /\ DOMAIN commands = 1..Len(commands)
        /\ \A i \in 1..Len(commands) : commands[i] \in T
    BY <2>1
  <2>3. ASSUME NEW i \in 1..Len(commands)
        PROVE  commands[i].name \in Strings /\ Listed(commands[i].args)
    <3>1. PICK spec \in Offered : commands[i] = StoredCommand(spec)
      BY <2>2, Zenon DEF T
    <3>2. commands[i].name = spec.name /\ commands[i].args = spec.args
      BY <3>1 DEF StoredCommand
    <3>3. WellTyped(commands[i].args)
      BY <2>2, Zenon DEF RegistryOK, CommandsOK
    <3>4. commands[i].name # Null
      BY <2>2, Zenon DEF RegistryOK, CommandsOK, UniqueNames
    <3>5. WellTyped(spec.args)
      BY <3>2, <3>3
    <3>6. /\ spec.name # Null => spec.name \in Strings
          /\ Listed(spec.args)
      BY <3>5, OfferedNames
    <3> QED
      BY <3>2, <3>4, <3>6
  <2> QED
    BY <2>2, <2>3 DEF CommandsListed
<1>2. Listed(telemetry_fields) /\ Listed(state_fields)
  BY FieldsListed DEF RegistryOK
<1>3. \A s : IdentityPart(s) => s \in Strings
  BY DEF IdentityPart, Strings
<1> QED
  BY <1>1, <1>2, <1>3 DEF Writable, IdentityOK

\* Longer members make a longer text.
LEMMA SeparatedLonger ==
    ASSUME NEW ms \in MemberLists, NEW ns \in MemberLists, Len(ms) = Len(ns),
           \A i \in 1..Len(ms) : /\ (ms[i] = <<>>) <=> (ns[i] = <<>>)
                                 /\ Bytes(ms[i]) <= Bytes(ns[i])
    PROVE  Bytes(Object(ms)) <= Bytes(Object(ns))
<1> DEFINE M == Seq(Tokens)
           L(q, k) == Separated(FirstItems(q, k))
           S == {k \in Nat : k <= Len(ms) =>
                   /\ L(ms, k) \in M /\ L(ns, k) \in M
                   /\ (L(ms, k) = <<>>) <=> (L(ns, k) = <<>>)
                   /\ Bytes(L(ms, k)) <= Bytes(L(ns, k))
                   /\ FirstItems(ms, k) \in MemberLists /\ FirstItems(ns, k) \in MemberLists}
<1>0. /\ Comma \in Tokens /\ (\A t \in Tokens : t.bytes \in Nat) /\ <<>> \in M
      /\ IsVocabulary(Tokens) /\ <<Comma>> \in M
  BY TokensVocabulary DEF IsVocabulary
<1>1. ms \in Seq(M) /\ ns \in Seq(M)
  BY DEF MemberLists
<1>2. \A m \in M : Bytes(m) \in Nat
  BY <1>0, CatBytes
<1>3. /\ Len(ms) \in Nat
      /\ FirstItems(ms, 0) = <<>> /\ FirstItems(ms, Len(ms)) = ms
      /\ \A k \in Nat : k + 1 <= Len(ms) =>
            FirstItems(ms, k + 1) = Cat(FirstItems(ms, k), One(ms[k + 1])) /\ ms[k + 1] \in M
  <2> HIDE DEF M
  <2> QED
    BY <1>1, FrontSteps
<1>4. /\ FirstItems(ns, 0) = <<>> /\ FirstItems(ns, Len(ms)) = ns
      /\ \A k \in Nat : k + 1 <= Len(ms) =>
            FirstItems(ns, k + 1) = Cat(FirstItems(ns, k), One(ns[k + 1])) /\ ns[k + 1] \in M
  <2> HIDE DEF M
  <2> QED
    BY <1>1, FrontSteps
<1>5. ASSUME NEW q \in MemberLists, NEW m \in M
      PROVE  /\ Separated(Cat(q, One(m))) = Joined(Separated(q), m)
             /\ Joined(Separated(q), m) \in M /\ Separated(q) \in M
             /\ Cat(q, One(m)) \in MemberLists
  <2>1. Separated(q) \in M /\ Separated(Append(q, m)) = Joined(Separated(q), m)
    BY <1>0, SeparatedAppend DEF MemberLists
  <2>2. Append(q, m) = Cat(q, One(m)) /\ Cat(q, One(m)) \in MemberLists
    <3>1. WithLast(q, m) = Cat(q, One(m)) /\ Cat(q, One(m)) \in MemberLists
      BY MemberListsClosed
    <3> QED
      BY <3>1, Zenon DEF WithLast
  <2>3. Joined(Separated(q), m) \in M
    BY <1>0, <2>1, JoinedType
  <2> QED
    BY <2>1, <2>2, <2>3, Zenon
<1>6. ASSUME NEW x \in M, NEW y \in M, NEW m \in M, NEW n \in M, (x = <<>>) <=> (y = <<>>),
             (m = <<>>) <=> (n = <<>>), Bytes(x) <= Bytes(y), Bytes(m) <= Bytes(n)
      PROVE  /\ (Joined(x, m) = <<>>) <=> (Joined(y, n) = <<>>)
             /\ Bytes(Joined(x, m)) <= Bytes(Joined(y, n))
  <2>1. CASE x = <<>>
    BY <1>6, <2>1 DEF Joined
  <2>2. CASE x # <<>>
    <3>1. PICK c : c = <<Comma>>
      OBVIOUS
    <3>2. Joined(x, m) = Cat(Cat(x, c), m) /\ Joined(y, n) = Cat(Cat(y, c), n) /\ c \in M
      BY <1>0, <1>6, <2>2, <3>1, Zenon DEF Joined, Cat
    <3>3. Cat(x, c) \in M /\ Cat(y, c) \in M
      BY <3>2, CatType
    <3>4. /\ Bytes(Cat(Cat(x, c), m)) = Bytes(Cat(x, c)) + Bytes(m)
          /\ Bytes(Cat(Cat(y, c), n)) = Bytes(Cat(y, c)) + Bytes(n)
      BY <1>0, <3>3, CatBytes
    <3>5. Bytes(Cat(x, c)) = Bytes(x) + Bytes(c) /\ Bytes(Cat(y, c)) = Bytes(y) + Bytes(c)
      BY <1>0, <3>2, CatBytes
    <3>6. Joined(x, m) # <<>> /\ Joined(y, n) # <<>>
      <4>1. Cat(x, c) # <<>> /\ Cat(y, c) # <<>>
        BY <1>6, <2>2, <3>2, CatNotEmpty
      <4> QED
        BY <1>6, <3>2, <3>3, <4>1, CatNotEmpty
    <3>7. /\ Bytes(x) \in Nat /\ Bytes(y) \in Nat /\ Bytes(m) \in Nat /\ Bytes(n) \in Nat
          /\ Bytes(c) \in Nat
      BY <1>2, <3>2
    <3>8. Bytes(Cat(Cat(x, c), m)) <= Bytes(Cat(Cat(y, c), n))
      <4> HIDE DEF M
      <4> QED
        BY <1>6, <3>4, <3>5, <3>7
    <3> QED
      BY <3>2, <3>6, <3>8, Zenon
  <2> QED
    BY <2>1, <2>2
<1> HIDE DEF M
<1>7. 0 \in S
  BY <1>0, <1>3, <1>4, SeparatedEmpty, BytesEmpty, MemberListsClosed
<1>8. ASSUME NEW k \in Nat, k \in S PROVE k + 1 \in S
  <2> SUFFICES ASSUME k + 1 <= Len(ms)
               PROVE  /\ L(ms, k + 1) \in M /\ L(ns, k + 1) \in M
                      /\ (L(ms, k + 1) = <<>>) <=> (L(ns, k + 1) = <<>>)
                      /\ Bytes(L(ms, k + 1)) <= Bytes(L(ns, k + 1))
                      /\ FirstItems(ms, k + 1) \in MemberLists /\ FirstItems(ns, k + 1) \in MemberLists
    OBVIOUS
  <2>1. k <= Len(ms) /\ k + 1 \in 1..Len(ms)
    BY <1>3
  <2>2. /\ L(ms, k) \in M /\ L(ns, k) \in M
        /\ (L(ms, k) = <<>>) <=> (L(ns, k) = <<>>)
        /\ Bytes(L(ms, k)) <= Bytes(L(ns, k))
        /\ FirstItems(ms, k) \in MemberLists /\ FirstItems(ns, k) \in MemberLists
    BY <1>8, <2>1
  <2>3. PICK m \in M : m = ms[k + 1]
    BY <1>3, <2>1
  <2>4. PICK n \in M : n = ns[k + 1] /\ ((m = <<>>) <=> (n = <<>>)) /\ Bytes(m) <= Bytes(n)
    BY <1>4, <2>1, <2>3
  <2>5. FirstItems(ms, k + 1) = Cat(FirstItems(ms, k), One(m)) /\ FirstItems(ns, k + 1) = Cat(FirstItems(ns, k), One(n))
    BY <1>3, <1>4, <2>3, <2>4
  <2>6. L(ms, k + 1) = Joined(L(ms, k), m) /\ L(ns, k + 1) = Joined(L(ns, k), n)
    BY <1>5, <2>2, <2>5
  <2>7. Joined(L(ms, k), m) \in M /\ Joined(L(ns, k), n) \in M
    BY <1>5, <2>2
  <2>8. Cat(FirstItems(ms, k), One(m)) \in MemberLists /\ Cat(FirstItems(ns, k), One(n)) \in MemberLists
    BY <1>5, <2>2
  <2>9. /\ (Joined(L(ms, k), m) = <<>>) <=> (Joined(L(ns, k), n) = <<>>)
        /\ Bytes(Joined(L(ms, k), m)) <= Bytes(Joined(L(ns, k), n))
    BY <1>6, <2>2, <2>3, <2>4
  <2> HIDE DEF L
  <2> QED
    BY <2>5, <2>6, <2>7, <2>8, <2>9
<1> HIDE DEF S
<1>9. Nat \subseteq S
  BY <1>7, <1>8, SetInduction
<1>10. Len(ms) \in S /\ Len(ms) <= Len(ms)
  BY <1>3, <1>9
<1>11. Bytes(Separated(ms)) <= Bytes(Separated(ns))
  BY <1>3, <1>4, <1>10 DEF S
<1>12. /\ Bytes(Object(ms)) = 2 + Bytes(Separated(ms)) /\ Bytes(Separated(ms)) \in Nat
       /\ Bytes(Object(ns)) = 2 + Bytes(Separated(ns)) /\ Bytes(Separated(ns)) \in Nat
  BY <1>0, ObjectText DEF MemberLists
<1> QED
  BY <1>11, <1>12

\* No timestamp makes a longer line than the widest.
LEMMA WidestIsLongest ==
    ASSUME NEW id, NEW cs, NEW tf, NEW sf, NEW t \in Timestamps,
           NEW ms, ms = LineMembers(t, id, cs, tf, sf), ms \in MemberLists,
           NEW ns, ns = LineMembers(WidestTimestamp, id, cs, tf, sf), ns \in MemberLists
    PROVE  Bytes(Object(ms)) <= Bytes(Object(ns))
<1> DEFINE w == WidestTimestamp
<1>1. PICK a : a = Pair("type", String("schema"))
  OBVIOUS
<1>2. PICK b : b = Pair("seq", <<Token("1", 1)>>)
  OBVIOUS
<1>3. PICK d : d = Pair("source", String(id.board_id))
  OBVIOUS
<1>4. PICK e : e = Pair("target", String("controller"))
  OBVIOUS
<1>5. PICK f : f = Pair("protocol_version", String(id.protocol_version))
  OBVIOUS
<1>6. PICK g : g = Pair("schema", Object(SchemaMembers(id, cs, tf, sf)))
  OBVIOUS
<1>7. PICK x : x = Pair("timestamp", <<t>>)
  OBVIOUS
<1>8. PICK y : y = Pair("timestamp", <<w>>)
  OBVIOUS
<1>9. ms = <<a, b, x, d, e, f>> \o <<g>> /\ ns = <<a, b, y, d, e, f>> \o <<g>>
  BY <1>1, <1>2, <1>3, <1>4, <1>5, <1>6, <1>7, <1>8, Zenon
    DEF LineMembers, EnvelopeMembers, Cat, One
<1>10. /\ Len(ms) = 7 /\ Len(ns) = 7
       /\ ms[1] = a /\ ms[2] = b /\ ms[3] = x /\ ms[4] = d /\ ms[5] = e /\ ms[6] = f /\ ms[7] = g
       /\ ns[1] = a /\ ns[2] = b /\ ns[3] = y /\ ns[4] = d /\ ns[5] = e /\ ns[6] = f /\ ns[7] = g
  BY <1>9
<1> DEFINE M == Seq(Tokens)
<1>11. ms \in Seq(M) /\ ns \in Seq(M)
  BY DEF MemberLists
<1>12. \A m \in M : Bytes(m) \in Nat
  BY TokensVocabulary, CatBytes DEF IsVocabulary
<1>13. x # <<>> /\ y # <<>>
  BY <1>7, <1>8 DEF Pair
<1>14. Bytes(x) <= Bytes(y)
  <2>1. "timestamp" \in Strings
    BY LibraryStrings DEF LibraryTexts
  <2>2. PICK k : k = <<Quoted("timestamp"), Colon>>
    OBVIOUS
  <2>3. k \in Seq(Tokens) /\ t \in Tokens /\ w \in Tokens
    <3>1. Quoted("timestamp") \in Tokens /\ Colon \in Tokens
      BY <2>1, TokensVocabulary DEF IsVocabulary
    <3>2. t \in Tokens /\ w \in Tokens
      BY Zenon DEF Tokens
    <3> QED
      BY <2>2, <3>1, <3>2
  <2>4. x = Cat(k, One(t)) /\ y = Cat(k, One(w))
    BY <1>7, <1>8, <2>2, Zenon DEF Pair, Cat, One
  <2>5. One(t) \in Seq(Tokens) /\ One(w) \in Seq(Tokens)
    BY <2>3, OneItem
  <2>6. \A s \in Tokens : s.bytes \in Nat
    BY TokensVocabulary DEF IsVocabulary
  <2>7. Bytes(One(t)) = t.bytes /\ Bytes(One(w)) = w.bytes
    BY <2>3, <2>6, BytesOne DEF One
  <2>8. t.bytes <= w.bytes
    BY SchemaAssumption
  <2>9. /\ Bytes(x) = Bytes(k) + t.bytes /\ Bytes(y) = Bytes(k) + w.bytes /\ Bytes(k) \in Nat
        /\ t.bytes \in Nat /\ w.bytes \in Nat
    BY <2>3, <2>4, <2>5, <2>6, <2>7, CatBytes
  <2> QED
    BY <2>8, <2>9
<1> HIDE DEF M
<1>15. /\ Len(ms) = 7 /\ Len(ns) = 7
       /\ a \in M /\ b \in M /\ d \in M /\ e \in M /\ f \in M /\ g \in M /\ x \in M /\ y \in M
  <2>1. \A i \in 1..7 : ms[i] \in M /\ ns[i] \in M
    <3>1. (\A i \in 1..Len(ms) : ms[i] \in M) /\ \A i \in 1..Len(ns) : ns[i] \in M
      BY <1>11
    <3>2. Len(ms) = 7 /\ Len(ns) = 7
      BY <1>10
    <3> QED
      BY <3>1, <3>2, Zenon
  <2>2. /\ 1 \in 1..7 /\ 2 \in 1..7 /\ 3 \in 1..7 /\ 4 \in 1..7 /\ 5 \in 1..7
        /\ 6 \in 1..7 /\ 7 \in 1..7
    OBVIOUS
  <2> QED
    BY <1>10, <2>1, <2>2, Zenon
<1>16. ASSUME NEW i \in 1..Len(ms)
       PROVE  ((ms[i] = <<>>) <=> (ns[i] = <<>>)) /\ Bytes(ms[i]) <= Bytes(ns[i])
  <2>1. /\ i \in {1, 2, 3, 4, 5, 6, 7}
    BY <1>15
  <2>2. \/ i = 3 /\ ms[i] = x /\ ns[i] = y
        \/ \E m \in {a, b, d, e, f, g} : ms[i] = m /\ ns[i] = m
    BY <1>10, <2>1
  <2>3. \A m \in {a, b, d, e, f, g} : Bytes(m) <= Bytes(m)
    BY <1>12, <1>15
  <2> QED
    BY <1>13, <1>14, <2>2, <2>3
<1> QED
  BY <1>15, <1>16, SeparatedLonger

-----------------------------------------------------------------------------
(* The schema of a started board. *)

\* The schema fits the line at any time, and a line that announces it.
LineFits(id, cs, tf, sf) ==
    Bytes(Object(LineMembers(WidestTimestamp, id, cs, tf, sf))) + 1 <= SchemaCapacity
Tells(a, id, cs, tf, sf) ==
    /\ a.timestamp \in Timestamps
    /\ a.text = Append(Object(LineMembers(a.timestamp, id, cs, tf, sf)), LineEnd)

\* What start() found out stays true, and so does what a session was told.
StartedFits == started => LineFits(identity, commands, telemetry_fields, state_fields)
AnnouncedOK ==
    announced # NoSchema =>
        started /\ Tells(announced, identity, commands, telemetry_fields, state_fields)

\* What start() found out stays true.
LEMMA StartedFitsStep ==
    ASSUME RegistryOK, IdentityOK, StartedFits, [Next]_vars
    PROVE  StartedFits'
<1>1. CASE started
  <2>1. UNCHANGED <<identity, commands, telemetry_fields, state_fields>>
    BY <1>1, RegistryStep DEF RegistryOK, Published
  <2> QED
    BY <1>1, <2>1 DEF StartedFits
<1>2. CASE ~started /\ started'
  <2>1. /\ validateMaximumSchemaSize
        /\ UNCHANGED <<identity, commands, telemetry_fields, state_fields>>
    BY <1>2, RegistryStep
  <2>2. PICK ms : ms = LineMembers(WidestTimestamp, identity, commands, telemetry_fields,
                                   state_fields)
    OBVIOUS
  <2>3. LineBuilt(SchemaLine(WidestTimestamp), ms)
    BY <2>2, RegistryWritable, SchemaLineExact
  <2>4. LineFits(identity, commands, telemetry_fields, state_fields)
    BY <2>1, <2>2, <2>3 DEF LineBuilt, LineFits, validateMaximumSchemaSize
  <2> QED
    BY <2>1, <2>4 DEF StartedFits
<1>3. CASE ~started'
  BY <1>3 DEF StartedFits
<1> QED
  BY <1>1, <1>2, <1>3

\* What a session was told stays true.
LEMMA AnnouncedStep ==
    ASSUME RegistryOK, IdentityOK, AnnouncedOK, [Next]_vars
    PROVE  AnnouncedOK'
<1>1. CASE UNCHANGED announced
  <2>1. CASE announced = NoSchema
    BY <1>1, <2>1 DEF AnnouncedOK
  <2>2. CASE announced # NoSchema
    <3>1. started /\ Tells(announced, identity, commands, telemetry_fields, state_fields)
      BY <2>2 DEF AnnouncedOK
    <3>2. UNCHANGED <<lifecycle, identity, commands, telemetry_fields, state_fields>>
      BY <3>1, RegistryStep DEF RegistryOK, Published
    <3>3. started'
      BY <3>1, <3>2, RegistryStep DEF RegistryOK, sealed
    <3> QED
      BY <1>1, <3>1, <3>2, <3>3 DEF AnnouncedOK
  <2> QED
    BY <2>1, <2>2
<1>2. CASE PromoteConnection
  <2>1. PICK t \in Timestamps :
           announced' = IF SchemaLine(t).ok
                        THEN [timestamp |-> t, text |-> SchemaLine(t).w.out] ELSE NoSchema
    BY <1>2 DEF PromoteConnection
  <2>2. started' /\ UNCHANGED <<identity, commands, telemetry_fields, state_fields>>
    BY <1>2 DEF PromoteConnection, registryVars, identityVars
  <2>3. CASE SchemaLine(t).ok
    <3>1. PICK ms : ms = LineMembers(t, identity, commands, telemetry_fields, state_fields)
      OBVIOUS
    <3>2. LineBuilt(SchemaLine(t), ms)
      BY <3>1, RegistryWritable, SchemaLineExact
    <3>3. PICK a : a = announced' /\ a.timestamp = t /\ a.text = SchemaLine(t).w.out
      BY <2>1, <2>3
    <3>4. a.text = Append(Object(ms), LineEnd)
      BY <2>3, <3>2, <3>3, Zenon DEF LineBuilt
    <3>5. Tells(a, identity, commands, telemetry_fields, state_fields)
      BY <3>1, <3>3, <3>4, Zenon DEF Tells
    <3> QED
      BY <2>2, <3>3, <3>5 DEF AnnouncedOK
  <2>4. CASE ~SchemaLine(t).ok
    BY <2>1, <2>4 DEF AnnouncedOK
  <2> QED
    BY <2>3, <2>4
<1>3. PromoteConnection \/ UNCHANGED announced
  BY Zenon
    DEF Next, Configure, SetNetworkConfig, setNetworkConfig, SetIdentity, RegisterCommand,
        RegisterOneCommand, enableCountersDiagnosticCommand, registerTelemetrySchema,
        registerStateSchema, setTelemetryProvider, setEstopHook, setControllerLossHook,
        start, ReceiveLine, ReleaseLine, facadeVars, vars
<1> QED
  BY <1>1, <1>2, <1>3

\* A board that has started can send its schema at any time.  start() tries the
\* schema once, with the widest timestamp (validateMaximumSchemaSize): that one
\* trial decides for every later moment, because the registry is frozen and no
\* timestamp makes a longer line.
THEOREM SchemaFits == Spec => []SchemaAlwaysFits
<1>1. Init => StartedFits
  BY DEF Init, StartedFits
<1>2. RegistryOK /\ IdentityOK /\ StartedFits /\ [Next]_vars => StartedFits'
  BY StartedFitsStep
<1>3. RegistryOK /\ IdentityOK /\ StartedFits => SchemaAlwaysFits
  <2> SUFFICES ASSUME RegistryOK, IdentityOK, StartedFits, started, NEW t \in Timestamps
               PROVE  SchemaLine(t).ok
    BY DEF SchemaAlwaysFits
  <2>1. Writable(identity, commands, telemetry_fields, state_fields)
    BY RegistryWritable
  <2>2. PICK ms : ms = LineMembers(t, identity, commands, telemetry_fields, state_fields)
    OBVIOUS
  <2>3. PICK ns : ns = LineMembers(WidestTimestamp, identity, commands, telemetry_fields,
                                   state_fields)
    OBVIOUS
  <2>4. ms \in MemberLists /\ LineBuilt(SchemaLine(t), ms) /\ ns \in MemberLists
    BY <2>1, <2>2, <2>3, SchemaLineExact
  <2>5. Bytes(Object(ms)) <= Bytes(Object(ns))
    BY <2>2, <2>3, <2>4, WidestIsLongest
  <2>6. Bytes(Object(ns)) + 1 <= SchemaCapacity
    BY <2>3 DEF StartedFits, LineFits
  <2>7. Bytes(Object(ms)) \in Nat /\ Bytes(Object(ns)) \in Nat /\ SchemaCapacity \in Nat
    <3>1. ASSUME NEW q \in MemberLists PROVE Bytes(Object(q)) \in Nat
      <4>1. Bytes(Object(q)) = 2 + Bytes(Separated(q)) /\ Bytes(Separated(q)) \in Nat
        BY TokensVocabulary, ObjectText DEF MemberLists
      <4> QED
        BY <4>1
    <3> QED
      BY <2>4, <3>1, SchemaAssumption
  <2>8. Bytes(Object(ms)) + 1 <= SchemaCapacity
    BY <2>5, <2>6, <2>7
  <2> QED
    BY <2>4, <2>8 DEF LineBuilt
<1> QED
  BY <1>1, <1>2, <1>3, RegistrySound, IdentitySound, PTL DEF Spec

\* A list of six items and one more.
LEMMA SevenItems ==
    ASSUME NEW a, NEW b, NEW c, NEW d, NEW e, NEW f, NEW g
    PROVE  <<a, b, c, d, e, f>> \o <<g>> = <<a, b, c, d, e, f, g>>
<1> DEFINE T == {a, b, c, d, e, f, g}
<1>1. PICK q : q = <<a, b, c, d, e, f>> \o <<g>>
  OBVIOUS
<1>2. PICK r : r = <<a, b, c, d, e, f, g>>
  OBVIOUS
<1>3. q \in Seq(T) /\ Len(q) = 7
  BY <1>1
<1>4. r \in Seq(T) /\ Len(r) = 7
  BY <1>2
<1>5. /\ q[1] = a /\ q[2] = b /\ q[3] = c /\ q[4] = d /\ q[5] = e /\ q[6] = f /\ q[7] = g
  BY <1>1
<1>6. /\ r[1] = a /\ r[2] = b /\ r[3] = c /\ r[4] = d /\ r[5] = e /\ r[6] = f /\ r[7] = g
  BY <1>2
<1>7. \A i : i \in 1..7 => i = 1 \/ i = 2 \/ i = 3 \/ i = 4 \/ i = 5 \/ i = 6 \/ i = 7
  OBVIOUS
<1>8. \A i \in 1..Len(q) : q[i] = r[i]
  BY <1>3, <1>5, <1>6, <1>7, Zenon
<1> HIDE DEF T
<1> QED
  BY <1>1, <1>2, <1>3, <1>4, <1>8, SeqEqual

\* The members that the writer was led to are the document the registry stands
\* for.
LEMMA LineIsDocument ==
    ASSUME NEW t
    PROVE  Object(LineMembers(t, identity, commands, telemetry_fields, state_fields))
             = SchemaDocument(t)
<1> DEFINE a == Pair("type", String("schema"))
           b == Pair("seq", <<Token("1", 1)>>)
           c == Pair("timestamp", <<t>>)
           d == Pair("source", String(identity.board_id))
           e == Pair("target", String("controller"))
           f == Pair("protocol_version", String(identity.protocol_version))
           o == Object(SchemaMembers(identity, commands, telemetry_fields, state_fields))
           g == Pair("schema", o)
<1>1. LineMembers(t, identity, commands, telemetry_fields, state_fields)
        = <<a, b, c, d, e, f>> \o <<g>>
  BY Zenon DEF LineMembers, EnvelopeMembers, Cat, One
<1>2. SchemaDocument(t) = Object(<<a, b, c, d, e, f, g>>)
  <2>1. SchemaMembers(identity, commands, telemetry_fields, state_fields) =
          <<Pair("commands", Object([i \in 1..Len(commands) |->
                    Pair(commands[i].name, CommandObject(commands[i]))])),
            Pair("telemetry", TypedNamesObject(telemetry_fields)),
            Pair("state", TypedNamesObject(state_fields)),
            Pair("firmware_version", String(identity.firmware_version))>>
    BY Zenon DEF SchemaMembers, CommandMembers, TypedMembers, TypedNamesObject
  <2> QED
    BY <2>1, Zenon DEF SchemaDocument
<1> HIDE DEF a, b, c, d, e, f, g, o
<1>3. <<a, b, c, d, e, f>> \o <<g>> = <<a, b, c, d, e, f, g>>
  BY SevenItems
<1> QED
  BY <1>1, <1>2, <1>3, Zenon

\* A session is told the truth for as long as it lasts: the schema line it was
\* sent is the JSON document of exactly the commands, arguments and fields the
\* dispatcher works from, each under a name of its own, however the application
\* called the API before start() and calls it after (CommandRegistry's checks
\* and seal, SchemaBuilder's writer).
THEOREM AnnouncementsTrue == Spec => []AnnouncementTrue
<1>1. Init => AnnouncedOK
  BY DEF Init, AnnouncedOK
<1>2. RegistryOK /\ IdentityOK /\ AnnouncedOK /\ [Next]_vars => AnnouncedOK'
  BY AnnouncedStep
<1>3. RegistryOK /\ AnnouncedOK => AnnouncementTrue
  <2> SUFFICES ASSUME RegistryOK, AnnouncedOK, announced # NoSchema
               PROVE  /\ announced.text = Append(SchemaDocument(announced.timestamp), LineEnd)
                      /\ UniqueNames(commands)
                      /\ \A i \in DOMAIN commands : UniqueNames(commands[i].args)
                      /\ UniqueNames(telemetry_fields) /\ UniqueNames(state_fields)
    BY DEF AnnouncementTrue
  <2>1. announced.text = Append(SchemaDocument(announced.timestamp), LineEnd)
    <3>1. Tells(announced, identity, commands, telemetry_fields, state_fields)
      BY DEF AnnouncedOK
    <3> QED
      BY <3>1, LineIsDocument, Zenon DEF Tells
  <2>2. UniqueNames(commands) /\ \A i \in DOMAIN commands : UniqueNames(commands[i].args)
    BY DEF RegistryOK, CommandsOK, WellTyped
  <2>3. UniqueNames(telemetry_fields) /\ UniqueNames(state_fields)
    BY DEF RegistryOK, FieldsOK, WellTyped
  <2> QED
    BY <2>1, <2>2, <2>3
<1> QED
  BY <1>1, <1>2, <1>3, RegistrySound, IdentitySound, PTL DEF Spec

-----------------------------------------------------------------------------
(* The result of a handler. *)

\* One request of a handler: its value, its member, and whether it is refused
\* before the writer sees it, or has a value that JSON can represent.
Value(m) == ValueToken(m[2], m[3])
PairOf(m) == Pair(m[1], <<Value(m)>>)
Wanted(m) == m[1] \notin {Null, "board_proc_us"} /\ ~(m[2] = "string" /\ m[3] = Null)
HasText(m) == m[3] # Null /\ (m[2] = "double" => m[3] # NonFinite)

\* The tokens of a result of the requests W, and the requests that reach it.
Words(W) ==
    {Opening, Closing, Comma, Colon, LineEnd, BoardProcUs, Quoted("board_proc_us")}
    \cup {Quoted(m[1]) : m \in {x \in W : x[1] # Null}}
    \cup {Value(m) : m \in {x \in W : x[3] # Null}}
Asked(W) == {m \in W : Wanted(m)}
Sayable(W) == {m \in Asked(W) : HasText(m)}
AreWrites(W) == \A m \in W : IsWrite(m)

\* Their lengths are known.
LEMMA WordsVocabulary ==
    ASSUME NEW W, AreWrites(W)
    PROVE  /\ IsVocabulary(Words(W))
           /\ \A m \in W : /\ m[1] # Null => Quoted(m[1]) \in Words(W)
                           /\ m[3] # Null => Value(m) \in Words(W)
           /\ BoardProcUs \in Words(W) /\ Quoted("board_proc_us") \in Words(W)
<1>1. \A s : IsText(s) => Quoted(s).bytes \in Nat
  <2> TAKE s
  <2>1. Quoted(s).bytes = Len(s) + Escapes(s) + 2
    BY DEF Quoted, Token
  <2> QED
    BY <2>1 DEF IsText
<1>2. ASSUME NEW m \in W, m[1] # Null PROVE Quoted(m[1]).bytes \in Nat
  BY <1>1, <1>2 DEF AreWrites, IsWrite
<1>3. ASSUME NEW m \in W, m[3] # Null PROVE Value(m).bytes \in Nat
  BY <1>1, <1>3 DEF AreWrites, IsWrite, Value, ValueToken
<1>4. /\ Opening.bytes \in Nat /\ Closing.bytes \in Nat /\ Comma.bytes \in Nat
      /\ Colon.bytes \in Nat /\ LineEnd.bytes \in Nat
  BY OneByteEach
<1>5. BoardProcUs.bytes \in Nat /\ Quoted("board_proc_us").bytes \in Nat
  BY <1>1, ResultAssumption
<1>6. ASSUME NEW t \in Words(W) PROVE t.bytes \in Nat
  <2>1. CASE t \in {Opening, Closing, Comma, Colon, LineEnd, BoardProcUs, Quoted("board_proc_us")}
    BY <1>4, <1>5, <2>1, Zenon
  <2>2. CASE t \in {Quoted(m[1]) : m \in {x \in W : x[1] # Null}}
    BY <1>2, <2>2, Zenon
  <2>3. CASE t \in {Value(m) : m \in {x \in W : x[3] # Null}}
    BY <1>3, <2>3, Zenon
  <2> QED
    BY <2>1, <2>2, <2>3, Zenon DEF Words
<1>7. \A m \in W : /\ m[1] # Null => Quoted(m[1]) \in Words(W)
                   /\ m[3] # Null => Value(m) \in Words(W)
  BY Zenon DEF Words
<1>8. /\ BoardProcUs \in Words(W) /\ Quoted("board_proc_us") \in Words(W)
      /\ {Opening, Closing, Comma, Colon, LineEnd} \subseteq Words(W)
  BY Zenon DEF Words
<1> QED
  BY <1>6, <1>7, <1>8 DEF IsVocabulary

\* What the requests make of an object that is open.
HandlerWriter(T) ==
    {w \in Writer(T) : /\ w.tail_reserve = 1 /\ w.capacity = ResultCapacity
                       /\ \E ms \in Seq(Seq(T)) : OpenObject(w, T, ms)}
WriteStep(w, m) == AppAdd(w, m[1], m[2], m[3]).w
AskStep(kept, m) ==
    IF m[1] \notin {Null, "board_proc_us"} /\ ~(m[2] = "string" /\ m[3] = Null)
    THEN Append(kept, m) ELSE kept

\* A request that is refused changes nothing; a value that JSON has no text for
\* makes the writer fail; any other is a member.
LEMMA AppAddCases ==
    ASSUME NEW m, IsWrite(m), NEW w, inObject(w)
    PROVE  /\ ~Wanted(m) => WriteStep(w, m) = w
           /\ Wanted(m) /\ ~HasText(m) => WriteStep(w, m) = Refuse(w).w
           /\ Wanted(m) /\ HasText(m) => WriteStep(w, m) = AddMember(w, m[1], Value(m)).w
<1>1. PICK name, kind, value : name = m[1] /\ kind = m[2] /\ value = m[3]
  OBVIOUS
<1>2. ~w.closed
  BY DEF inObject
<1>3. /\ kind \in {"literal", "double", "string", "chars"}
      /\ kind \notin {"string", "chars"} => value # Null
  BY <1>1 DEF IsWrite
<1>4. CASE ~allowed(w, name)
  <2>1. AppAdd(w, name, kind, value) = [ok |-> FALSE, w |-> w]
    BY <1>4 DEF AppAdd
  <2>2. ~Wanted(m)
    BY <1>1, <1>2, <1>4, Zenon DEF Wanted, allowed
  <2>3. WriteStep(w, m) = w
    BY <1>1, <2>1 DEF WriteStep
  <2> QED
    BY <2>2, <2>3
<1>5. CASE allowed(w, name)
  <2>1. name # Null /\ name # "board_proc_us"
    BY <1>5 DEF allowed
  <2>2. Wanted(m) <=> ~(kind = "string" /\ value = Null)
    BY <1>1, <2>1, Zenon DEF Wanted
  <2>3. \A v : addLiteral(w, name, v) = AddMember(w, name, v)
    BY <2>1 DEF addLiteral
  <2>4. CASE kind = "string"
    <3>1. WriteStep(w, m) = addString(w, name, value).w
      BY <1>1, <1>5, <2>4 DEF AppAdd, WriteStep
    <3>2. Value(m) = Quoted(value) /\ (HasText(m) <=> value # Null)
      BY <1>1, <2>4 DEF Value, ValueToken, HasText
    <3>3. CASE value = Null
      BY <2>2, <2>4, <3>1, <3>3 DEF addString
    <3>4. CASE value # Null
      BY <1>1, <2>2, <2>3, <3>1, <3>2, <3>4 DEF addString, addStringOfLength
    <3> QED
      BY <3>3, <3>4
  <2>5. CASE kind = "literal"
    <3>1. WriteStep(w, m) = addLiteral(w, name, value).w
      BY <1>1, <1>5, <2>5 DEF AppAdd, WriteStep
    <3>2. Value(m) = value /\ HasText(m)
      BY <1>1, <1>3, <2>5 DEF Value, ValueToken, HasText
    <3> QED
      BY <1>1, <1>3, <2>2, <2>3, <2>5, <3>1, <3>2
  <2>6. CASE kind = "double"
    <3>1. WriteStep(w, m) = addDouble(w, name, value).w
      BY <1>1, <1>5, <2>6 DEF AppAdd, WriteStep
    <3>2. Value(m) = value /\ (HasText(m) <=> value # NonFinite)
      BY <1>1, <1>3, <2>6 DEF Value, ValueToken, HasText
    <3> QED
      BY <1>1, <1>3, <2>2, <2>3, <2>6, <3>1, <3>2 DEF addDouble
  <2>7. CASE kind = "chars"
    <3>1. WriteStep(w, m) = addStringOfLength(w, name, value).w
      BY <1>1, <1>5, <2>7 DEF AppAdd, WriteStep
    <3>2. Value(m) = Quoted(value) /\ (HasText(m) <=> value # Null) /\ Wanted(m)
      BY <1>1, <2>2, <2>7 DEF Value, ValueToken, HasText
    <3> QED
      BY <1>1, <2>3, <3>1, <3>2 DEF addStringOfLength
  <2> QED
    BY <1>3, <2>4, <2>5, <2>6, <2>7
<1> QED
  BY <1>4, <1>5

\* The writer of a handler stays one, whatever the handler does.
LEMMA WriteKeeps ==
    ASSUME NEW W, AreWrites(W), NEW m \in W, NEW w \in HandlerWriter(Words(W))
    PROVE  WriteStep(w, m) \in HandlerWriter(Words(W))
<1>1. PICK T, name, kind, value, r :
        /\ T = Words(W) /\ name = m[1] /\ kind = m[2] /\ value = m[3]
        /\ r = AppAdd(w, name, kind, value)
  OBVIOUS
<1>2. IsVocabulary(T)
  BY <1>1, WordsVocabulary
<1>3. PICK ms \in Seq(Seq(T)) : OpenObject(w, T, ms)
  BY <1>1 DEF HandlerWriter
<1>4. /\ kind \in {"literal", "double", "string", "chars"}
      /\ kind \notin {"string", "chars"} => value # Null
  BY <1>1 DEF AreWrites, IsWrite
<1>5. /\ name # Null => Quoted(name) \in T
      /\ value # Null => Value(m) \in T
  BY <1>1, WordsVocabulary
<1>6. /\ kind \notin {"string", "chars"} => value \in T
      /\ kind \in {"string", "chars"} /\ value # Null => Quoted(value) \in T
  BY <1>1, <1>4, <1>5 DEF Value, ValueToken
<1>7. PICK x : x = Pair(name, <<ValueToken(kind, value)>>)
  OBVIOUS
<1>8. Attempted(r, w, T, ms, x)
  BY <1>1, <1>2, <1>3, <1>4, <1>5, <1>6, <1>7, AppAddAttempts
<1>9. w.tail_reserve = 1 /\ w.capacity = ResultCapacity
  BY DEF HandlerWriter
<1>10. \E ns \in Seq(Seq(T)) : OpenObject(r.w, T, ns)
  <2>1. CASE r.ok
    <3>1. x \in Seq(T) /\ OpenObject(r.w, T, Append(ms, x))
      BY <1>8, <2>1 DEF Attempted
    <3> DEFINE V == Seq(T)
    <3>2. ms \in Seq(V) /\ x \in V
      BY <3>1
    <3>3. Append(ms, x) \in Seq(V)
      <4> HIDE DEF V
      <4> QED
        BY <3>2
    <3> QED
      BY <3>1, <3>3, Zenon
  <2>2. CASE ~r.ok
    BY <1>8, <2>2 DEF Attempted
  <2> QED
    BY <2>1, <2>2
<1>11. r.w \in Writer(T)
  BY <1>10 DEF OpenObject, Inside
<1>12. r.w.tail_reserve = 1 /\ r.w.capacity = ResultCapacity
  BY <1>8, <1>9 DEF Attempted
<1>13. WriteStep(w, m) = r.w
  BY <1>1 DEF WriteStep
<1> QED
  BY <1>1, <1>10, <1>11, <1>12, <1>13 DEF HandlerWriter

\* The constructor's writer has not failed.
LEMMA EmptyNotFailed ==
    ASSUME NEW T, IsVocabulary(T)
    PROVE  /\ ObjectWriter(ResultCapacity) \in HandlerWriter(T)
           /\ OpenObject(ObjectWriter(ResultCapacity), T, <<>>)
           /\ ~ObjectWriter(ResultCapacity).failed
<1>1. PICK o, n, b : /\ o = ObjectWriter(ResultCapacity) /\ n = NewWriter(ResultCapacity)
                     /\ b = beginObject(n)
  OBVIOUS
<1>2. ResultCapacity \in Nat /\ ResultCapacity >= 2
  BY ResultAssumption
<1>3. OpenObject(o, T, <<>>) /\ o.capacity = ResultCapacity /\ o.tail_reserve = 1
  BY <1>1, <1>2, ObjectWriterOpens
<1>4. /\ n \in Writer(T) /\ n.capacity = ResultCapacity /\ n.out = <<>>
      /\ n.depth = 0 /\ n.tail_reserve = 0 /\ ~n.closed /\ InBuffer(n)
  BY <1>1, <1>2, NewWriterEmpty
<1>5. ~n.failed
  BY <1>1 DEF NewWriter
<1>6. b.ok /\ b.w.length = 1 /\ b.w.capacity = ResultCapacity /\ b.w \in Writer(T)
  <2>1. /\ b.ok <=> 1 + n.tail_reserve <= n.capacity
        /\ b.ok => OpenObject(b.w, T, <<>>) /\ b.w.capacity = n.capacity /\ b.w.length = 1
    BY <1>1, <1>4, FirstBrace
  <2>2. b.ok
    BY <1>2, <1>4, <2>1
  <2> QED
    BY <1>4, <2>1, <2>2 DEF OpenObject, Inside
<1>7. ~b.w.failed
  <2>1. PICK r : r = Write(n, <<Opening>>)
    OBVIOUS
  <2>2. b = Refuse(n) \/ b = Opened(r)
    BY <1>1, <2>1 DEF beginObject
  <2>3. b = Opened(r)
    BY <1>6, <2>2 DEF Refuse
  <2>4. r.ok /\ b = [r EXCEPT !.w.depth = @ + 1, !.w.first[r.w.depth + 1] = TRUE]
    BY <1>6, <2>3 DEF Opened
  <2>5. r = [ok |-> TRUE, w |-> [n EXCEPT !.out = @ \o <<Opening>>,
                                          !.length = @ + Bytes(<<Opening>>)]]
    BY <2>1, <2>4 DEF Write, Refuse
  <2>6. r.w.failed = n.failed
    BY <1>4, <2>5 DEF Writer
  <2>7. b.w.failed = r.w.failed
    BY <1>4, <2>4, <2>5 DEF Writer
  <2> QED
    BY <1>5, <2>6, <2>7
<1>8. o = [b.w EXCEPT !.tail_reserve = 1]
  BY <1>1, <1>2, <1>6 DEF ObjectWriter, reserveTailBytes
<1>9. ~o.failed
  BY <1>6, <1>7, <1>8 DEF Writer
<1>10. o \in HandlerWriter(T)
  <2>1. o \in Writer(T) /\ <<>> \in Seq(Seq(T))
    BY <1>3 DEF OpenObject, Inside
  <2> QED
    BY <1>3, <2>1 DEF HandlerWriter
<1> QED
  BY <1>1, <1>3, <1>9, <1>10

\* The values that the two loops over the requests q go through.
WriteSteps(T, q) == [k \in 1..Len(q) |-> [v \in HandlerWriter(T) |-> WriteStep(v, q[k])]]
AskSteps(W, q) == [k \in 1..Len(q) |-> [v \in Seq(Asked(W)) |-> AskStep(v, q[k])]]

\* The result as it is written, request by request.
LEMMA WrittenTrace ==
    ASSUME NEW W, AreWrites(W), NEW q \in Seq(W)
    PROVE  \E g : /\ Trace(g, Len(q), HandlerWriter(Words(W)), ObjectWriter(ResultCapacity),
                           WriteSteps(Words(W), q))
                  /\ WrittenBy(q) = g[Len(q)]
<1> DEFINE n == Len(q)
           V == HandlerWriter(Words(W))
           base == ObjectWriter(ResultCapacity)
           P(h) == h = [s \in SUBSET (DOMAIN q) |->
                          IF s = {} THEN base ELSE WriteStep(h[s \ {Max(s)}], q[Max(s)])]
           c == CHOOSE h : P(h)
           step == WriteSteps(Words(W), q)
<1>1. n \in Nat /\ DOMAIN q = 1..n /\ (\A k \in 1..n : q[k] \in W) /\ base \in V
  BY WordsVocabulary, EmptyNotFailed
<1>2. WrittenBy(q) = c[DOMAIN q]
  BY Zenon DEF WrittenBy, FoldLeft, MapThenFoldSet, WriteStep
<1>3. step \in [1..n -> [V -> V]] /\ \A k \in 1..n, v \in V : step[k][v] = WriteStep(v, q[k])
  BY <1>1, WriteKeeps DEF WriteSteps
<1> HIDE DEF n, step, V, base
<1>4. \A s \in SUBSET (1..n) : s # {} => Max(s) \in 1..n
  BY <1>1, MaxIn
<1>5. \E h : P(h)
  <2>1. PICK h \in [SUBSET (1..n) -> V] : FoldsOver(h, n, base, step)
    BY <1>1, <1>3, FoldExists
  <2>2. \A s \in SUBSET (1..n) : h[s \ {Max(s)}] \in V
    OBVIOUS
  <2>3. P(h)
    BY <1>1, <1>3, <1>4, <2>1, <2>2 DEF FoldsOver
  <2> QED
    BY <2>3
<1>6. P(c)
  <2> HIDE DEF P
  <2> QED
    BY <1>5
<1> HIDE DEF c
<1>7. FoldsWithin(c, n, V, base, step)
  BY <1>1, <1>3, <1>4, <1>6 DEF FoldsWithin
<1>8. n \in Nat /\ base \in V /\ step \in [1..n -> [V -> V]]
  BY <1>1, <1>3
<1>9. Trace(LoopValues(c, n), n, V, base, step)
  <2> HIDE DEF P
  <2> QED
    BY <1>7, <1>8, FoldTrace
<1>10. LoopValues(c, n)[n] = c[1..n]
  <2>1. n \in 0..n
    BY <1>8
  <2> QED
    BY <2>1 DEF LoopValues
<1> QED
  BY <1>1, <1>2, <1>9, <1>10 DEF n, step, V, base

\* A request is kept, or refused.
LEMMA AskKeeps ==
    ASSUME NEW W, NEW m \in W, NEW kept \in Seq(Asked(W))
    PROVE  /\ AskStep(kept, m) \in Seq(Asked(W))
           /\ Wanted(m) => m \in Asked(W) /\ AskStep(kept, m) = Append(kept, m)
           /\ ~Wanted(m) => AskStep(kept, m) = kept
<1>1. Wanted(m) <=> m[1] \notin {Null, "board_proc_us"} /\ ~(m[2] = "string" /\ m[3] = Null)
  BY DEF Wanted
<1>2. CASE Wanted(m)
  <2>1. m \in Asked(W)
    BY <1>2 DEF Asked
  <2> QED
    BY <1>1, <1>2, <2>1 DEF AskStep
<1>3. CASE ~Wanted(m)
  BY <1>1, <1>3 DEF AskStep
<1> QED
  BY <1>2, <1>3

\* What was asked, request by request.
LEMMA RequestedTrace ==
    ASSUME NEW W, NEW q \in Seq(W)
    PROVE  \E g : /\ Trace(g, Len(q), Seq(Asked(W)), <<>>, AskSteps(W, q))
                  /\ Requested(q) = g[Len(q)]
<1> DEFINE n == Len(q)
           V == Seq(Asked(W))
           P(h) == h = [s \in SUBSET (DOMAIN q) |->
                          IF s = {} THEN <<>> ELSE AskStep(h[s \ {Max(s)}], q[Max(s)])]
           c == CHOOSE h : P(h)
           step == AskSteps(W, q)
<1>1. n \in Nat /\ DOMAIN q = 1..n /\ (\A k \in 1..n : q[k] \in W) /\ <<>> \in V
  OBVIOUS
<1>2. Requested(q) = c[DOMAIN q]
  BY Zenon DEF Requested, FoldLeft, MapThenFoldSet, AskStep
<1>3. step \in [1..n -> [V -> V]] /\ \A k \in 1..n, v \in V : step[k][v] = AskStep(v, q[k])
  BY <1>1, AskKeeps DEF AskSteps
<1> HIDE DEF n, step, V
<1>4. \A s \in SUBSET (1..n) : s # {} => Max(s) \in 1..n
  BY <1>1, MaxIn
<1>5. \E h : P(h)
  <2>1. PICK h \in [SUBSET (1..n) -> V] : FoldsOver(h, n, <<>>, step)
    BY <1>1, <1>3, FoldExists
  <2>2. \A s \in SUBSET (1..n) : h[s \ {Max(s)}] \in V
    OBVIOUS
  <2>3. P(h)
    BY <1>1, <1>3, <1>4, <2>1, <2>2 DEF FoldsOver
  <2> QED
    BY <2>3
<1>6. P(c)
  <2> HIDE DEF P
  <2> QED
    BY <1>5
<1> HIDE DEF c
<1>7. FoldsWithin(c, n, V, <<>>, step)
  BY <1>1, <1>3, <1>4, <1>6 DEF FoldsWithin
<1>8. n \in Nat /\ <<>> \in V /\ step \in [1..n -> [V -> V]]
  BY <1>1, <1>3
<1>9. Trace(LoopValues(c, n), n, V, <<>>, step)
  <2> HIDE DEF P
  <2> QED
    BY <1>7, <1>8, FoldTrace
<1>10. LoopValues(c, n)[n] = c[1..n]
  <2>1. n \in 0..n
    BY <1>8
  <2> QED
    BY <2>1 DEF LoopValues
<1> QED
  BY <1>1, <1>2, <1>9, <1>10 DEF n, step, V

\* Requests that all have a text.
LEMMA SayableList ==
    ASSUME NEW W, NEW a \in Seq(Asked(W)), \A i \in DOMAIN a : HasText(a[i])
    PROVE  a \in Seq(Sayable(W))
<1>1. /\ Len(a) \in Nat /\ DOMAIN a = 1..Len(a) /\ a = [i \in 1..Len(a) |-> a[i]]
      /\ \A i \in 1..Len(a) : a[i] \in Asked(W)
  OBVIOUS
<1>2. \A i \in 1..Len(a) : a[i] \in Sayable(W)
  BY <1>1 DEF Sayable
<1> QED
  BY <1>1, <1>2

\* One request more is one member more.
LEMMA MembersGrow ==
    ASSUME NEW W, AreWrites(W), NEW a \in Seq(Sayable(W)), NEW m \in Sayable(W)
    PROVE  /\ Members(a) \in Seq(Seq(Words(W))) /\ PairOf(m) \in Seq(Words(W))
           /\ Members(Append(a, m)) = Append(Members(a), PairOf(m))
<1> DEFINE T == Words(W)
           V == Seq(T)
           n == Len(a)
           f == Members(a)
           b == Append(a, m)
           g == Members(b)
<1>1. ASSUME NEW x \in Sayable(W) PROVE PairOf(x) \in V
  <2>1. x \in W /\ x[1] # Null /\ x[3] # Null
    BY Zenon DEF Sayable, HasText, Asked, Wanted
  <2>2. Quoted(x[1]) \in T /\ Value(x) \in T /\ Colon \in T
    BY <2>1, WordsVocabulary DEF IsVocabulary
  <2>3. PICK k, v : k = Quoted(x[1]) /\ v = Value(x)
    OBVIOUS
  <2>4. PairOf(x) = <<k, Colon>> \o <<v>>
    BY <2>3, Zenon DEF PairOf, Pair
  <2>5. <<k, Colon>> \in V /\ <<v>> \in V
    BY <2>2, <2>3
  <2> HIDE DEF T
  <2> QED
    BY <2>4, <2>5, ConcatProperties
<1>2. \A s : Members(s) = [i \in DOMAIN s |-> PairOf(s[i])]
  BY Zenon DEF Members, PairOf, Value
<1>3. n \in Nat /\ DOMAIN a = 1..n /\ (\A i \in 1..n : a[i] \in Sayable(W))
  OBVIOUS
<1>4. /\ b \in Seq(Sayable(W)) /\ Len(b) = n + 1 /\ DOMAIN b = 1..(n + 1) /\ b[n + 1] = m
      /\ \A i \in 1..n : b[i] = a[i]
  OBVIOUS
<1>5. f = [i \in 1..n |-> PairOf(a[i])]
  BY <1>2, <1>3
<1>6. g = [i \in 1..(n + 1) |-> PairOf(b[i])]
  BY <1>2, <1>4
<1> HIDE DEF V, n, f, b, g
<1>7. f \in Seq(V) /\ Len(f) = n
  BY <1>1, <1>3, <1>5
<1>8. g \in Seq(V) /\ Len(g) = n + 1
  <2>1. \A i \in 1..(n + 1) : b[i] \in Sayable(W)
    BY <1>4
  <2> QED
    BY <1>1, <1>3, <1>6, <2>1
<1>9. PICK p : p = PairOf(m)
  OBVIOUS
<1>10. p \in V
  BY <1>1, <1>9
<1>11. Append(f, p) \in Seq(V) /\ Len(Append(f, p)) = n + 1 /\ Append(f, p)[n + 1] = p
       /\ \A i \in 1..n : Append(f, p)[i] = f[i]
  BY <1>3, <1>7, <1>10
<1>12. \A i \in 1..(n + 1) : g[i] = Append(f, p)[i]
  <2>1. g[n + 1] = p
    BY <1>3, <1>4, <1>6, <1>9
  <2>2. ASSUME NEW i \in 1..n PROVE g[i] = f[i]
    BY <1>3, <1>4, <1>5, <1>6, <2>2
  <2> QED
    BY <1>3, <1>11, <2>1, <2>2
<1>13. g = Append(f, p)
  BY <1>8, <1>11, <1>12, SeqEqual
<1> QED
  BY <1>1, <1>7, <1>9, <1>13 DEF f, g, b, V, T

\* A text with a member more is longer.
LEMMA MoreBytes ==
    ASSUME NEW T, IsVocabulary(T), NEW ms \in Seq(Seq(T)), NEW m \in Seq(T)
    PROVE  Bytes(Object(ms)) <= Bytes(Object(Append(ms, m)))
<1>1. PICK s, t : s = Separated(ms) /\ t = Separated(Append(ms, m))
  OBVIOUS
<1>2. s \in Seq(T) /\ t = Joined(s, m) /\ <<Comma>> \in Seq(T) /\ <<>> \in Seq(T)
  BY <1>1, SeparatedAppend DEF IsVocabulary
<1>3. \A x \in T : x.bytes \in Nat
  BY DEF IsVocabulary
<1>4. Bytes(s) <= Bytes(t)
  <2>1. CASE s = <<>>
    <3>1. t = m
      BY <1>2, <2>1 DEF Joined
    <3>2. Bytes(m) \in Nat
      BY <1>3, CatBytes
    <3> QED
      BY <2>1, <3>1, <3>2, BytesEmpty
  <2>2. CASE s # <<>>
    <3>1. PICK c : c = <<Comma>>
      OBVIOUS
    <3>2. t = Cat(Cat(s, c), m)
      BY <1>2, <2>2, <3>1, Zenon DEF Joined, Cat
    <3>3. Cat(s, c) \in Seq(T)
      BY <1>2, <3>1, CatType
    <3>4. /\ Bytes(t) = Bytes(Cat(s, c)) + Bytes(m) /\ Bytes(Cat(s, c)) = Bytes(s) + Bytes(c)
          /\ Bytes(s) \in Nat /\ Bytes(c) \in Nat /\ Bytes(m) \in Nat
      BY <1>2, <1>3, <3>1, <3>2, <3>3, CatBytes
    <3> QED
      BY <3>4
  <2> QED
    BY <2>1, <2>2
<1>5. PICK q : q = Append(ms, m)
  OBVIOUS
<1>6. q \in Seq(Seq(T))
  <2> DEFINE V == Seq(T)
  <2>1. ms \in Seq(V) /\ m \in V
    OBVIOUS
  <2>2. q \in Seq(V)
    <3> HIDE DEF V
    <3> QED
      BY <1>5, <2>1
  <2> QED
    BY <2>2
<1>7. /\ Bytes(Object(ms)) = 2 + Bytes(s) /\ Bytes(Object(q)) = 2 + Bytes(t)
      /\ Bytes(s) \in Nat /\ Bytes(t) \in Nat
  BY <1>1, <1>5, <1>6, ObjectText
<1> QED
  BY <1>4, <1>5, <1>7

\* The requests fit the buffer of a result, and the writer has failed exactly when
\* they do not; while it has not, it holds all of them.
Holds(asked) ==
    /\ \A i \in DOMAIN asked : HasText(asked[i])
    /\ Bytes(Object(Members(asked))) <= ResultCapacity

InStep(w, asked, W) ==
    /\ asked \in Seq(Asked(W)) /\ w \in HandlerWriter(Words(W))
    /\ ~w.failed <=> Holds(asked)
    /\ ~w.failed => OpenObject(w, Words(W), Members(asked))

\* What holds with one request more held before.
LEMMA HoldsLess ==
    ASSUME NEW W, AreWrites(W), NEW asked \in Seq(Asked(W)), NEW m \in Asked(W),
           Holds(Append(asked, m))
    PROVE  Holds(asked) /\ HasText(m)
<1>1. PICK b, T, ms, p : /\ b = Append(asked, m) /\ T = Words(W) /\ ms = Members(asked)
                         /\ p = PairOf(m)
  OBVIOUS
<1>4. Bytes(Object(Members(b))) <= ResultCapacity /\ \A i \in DOMAIN b : HasText(b[i])
  BY <1>1 DEF Holds
<1>7. /\ DOMAIN asked \subseteq DOMAIN b /\ (\A i \in DOMAIN asked : b[i] = asked[i])
      /\ Len(asked) + 1 \in DOMAIN b /\ b[Len(asked) + 1] = m
  BY <1>1
<1>8. (\A i \in DOMAIN asked : HasText(asked[i])) /\ HasText(m)
  BY <1>4, <1>7
<1>9. asked \in Seq(Sayable(W)) /\ m \in Sayable(W)
  BY <1>8, SayableList DEF Sayable
<1>2. IsVocabulary(T) /\ ms \in Seq(Seq(T)) /\ p \in Seq(T) /\ Members(b) = Append(ms, p)
  BY <1>1, <1>9, WordsVocabulary, MembersGrow
<1>3. Bytes(Object(ms)) <= Bytes(Object(Members(b)))
  BY <1>2, MoreBytes
<1>5. Bytes(Object(ms)) \in Nat /\ Bytes(Object(Members(b))) \in Nat /\ ResultCapacity \in Nat
  <2>1. PICK q : q = Append(ms, p)
    OBVIOUS
  <2>2. q \in Seq(Seq(T))
    <3> DEFINE V == Seq(T)
    <3>1. ms \in Seq(V) /\ p \in V
      BY <1>2
    <3>2. q \in Seq(V)
      <4> HIDE DEF V
      <4> QED
        BY <2>1, <3>1
    <3> QED
      BY <3>2
  <2>3. /\ Bytes(Object(ms)) = 2 + Bytes(Separated(ms)) /\ Bytes(Separated(ms)) \in Nat
        /\ Bytes(Object(q)) = 2 + Bytes(Separated(q)) /\ Bytes(Separated(q)) \in Nat
    BY <1>2, <2>2, ObjectText
  <2>4. Members(b) = q
    BY <1>2, <2>1
  <2> QED
    BY <2>3, <2>4, ResultAssumption
<1>6. Bytes(Object(ms)) <= ResultCapacity
  BY <1>3, <1>4, <1>5
<1> QED
  BY <1>1, <1>6, <1>8 DEF Holds

\* Room for a member is room for the object with it.
LEMMA RoomForMember ==
    ASSUME NEW T, IsVocabulary(T), NEW w \in HandlerWriter(T), NEW ms \in Seq(Seq(T))
    PROVE  Fits(Cat(<<Opening>>, Separated(ms)), w) <=> Bytes(Object(ms)) <= ResultCapacity
<1>1. PICK o, s : o = <<Opening>> /\ s = Separated(ms)
  OBVIOUS
<1>2. w.tail_reserve = 1 /\ w.capacity = ResultCapacity /\ ResultCapacity \in Nat
  BY ResultAssumption DEF HandlerWriter
<1>3. o \in Seq(T) /\ s \in Seq(T) /\ Bytes(o) = 1
  <2>1. o \in Seq(T) /\ <<>> \in Seq(T)
    BY <1>1 DEF IsVocabulary
  <2>2. s \in Seq(T)
    BY <1>1, <2>1, SeparatedAppend DEF IsVocabulary
  <2>3. Bytes(o) = 1
    BY <1>1, OneByteEach, BytesOne DEF IsVocabulary
  <2> QED
    BY <2>1, <2>2, <2>3
<1>4. Bytes(Cat(o, s)) = Bytes(o) + Bytes(s) /\ Bytes(s) \in Nat
  BY <1>3, CatBytes DEF IsVocabulary
<1>5. Bytes(Object(ms)) = 2 + Bytes(s)
  BY <1>1, ObjectText
<1>6. Fits(Cat(o, s), w) <=> Bytes(Cat(o, s)) + 1 <= ResultCapacity
  BY <1>2 DEF Fits
<1>7. Fits(Cat(o, s), w) <=> Bytes(Object(ms)) <= ResultCapacity
  BY <1>2, <1>3, <1>4, <1>5, <1>6
<1> QED
  BY <1>1, <1>7, Zenon

\* The two loops stay in step.
LEMMA StepsAgree ==
    ASSUME NEW W, AreWrites(W), NEW m \in W, NEW w, NEW asked, InStep(w, asked, W)
    PROVE  InStep(WriteStep(w, m), AskStep(asked, m), W)
<1>1. PICK T, v, b : T = Words(W) /\ v = WriteStep(w, m) /\ b = AskStep(asked, m)
  OBVIOUS
<1>2. asked \in Seq(Asked(W)) /\ w \in HandlerWriter(T) /\ (~w.failed <=> Holds(asked))
  BY <1>1 DEF InStep
<1>3. ~w.failed => OpenObject(w, T, Members(asked))
  BY <1>1 DEF InStep
<1>4. v \in HandlerWriter(T)
  BY <1>1, <1>2, WriteKeeps
<1>5. /\ b \in Seq(Asked(W))
      /\ Wanted(m) => m \in Asked(W) /\ b = Append(asked, m)
      /\ ~Wanted(m) => b = asked
  BY <1>1, <1>2, AskKeeps
<1>6. PICK ns \in Seq(Seq(T)) : OpenObject(w, T, ns)
  BY <1>2 DEF HandlerWriter
<1>7. /\ ~Wanted(m) => v = w
      /\ Wanted(m) /\ ~HasText(m) => v = Refuse(w).w
      /\ Wanted(m) /\ HasText(m) => v = AddMember(w, m[1], Value(m)).w
  <2>1. inObject(w)
    BY <1>6 DEF inObject, OpenObject, Inside
  <2>2. IsWrite(m)
    BY DEF AreWrites
  <2> QED
    BY <1>1, <2>1, <2>2, AppAddCases
<1>8. Refuse(w).w.failed = TRUE
  BY <1>6, RefuseKeeps DEF OpenObject
<1>9. IsVocabulary(T)
  BY <1>1, WordsVocabulary
<1>10. CASE ~Wanted(m)
  BY <1>1, <1>5, <1>7, <1>10
<1>11. CASE Wanted(m) /\ ~HasText(m)
  <2>1. v.failed = TRUE
    BY <1>7, <1>8, <1>11
  <2>2. ~Holds(b)
    BY <1>2, <1>5, <1>11, HoldsLess
  <2>3. InStep(v, b, W)
    BY <1>1, <1>4, <1>5, <2>1, <2>2 DEF InStep
  <2> QED
    BY <1>1, <2>3
<1>12. CASE Wanted(m) /\ HasText(m)
  <2>1. PICK name, x, r, p, o : /\ name = m[1] /\ x = Value(m) /\ r = AddMember(w, name, x)
                                /\ p = PairOf(m) /\ o = <<Opening>>
    OBVIOUS
  <2>2. Quoted(name) \in T /\ x \in T
    <3>1. m[1] # Null /\ m[3] # Null
      BY <1>12, Zenon DEF Wanted, HasText
    <3> QED
      BY <1>1, <2>1, <3>1, WordsVocabulary
  <2>3. p = Pair(name, <<x>>) /\ o \in Seq(T)
    <3>1. p = Pair(name, <<x>>)
      BY <2>1, Zenon DEF PairOf
    <3>2. o \in Seq(T)
      BY <1>9, <2>1 DEF IsVocabulary
    <3> QED
      BY <3>1, <3>2
  <2>4. ASSUME NEW ms \in Seq(Seq(T)), OpenObject(w, T, ms) PROVE Added(r, w, T, o, ms, p)
    BY <1>9, <2>1, <2>2, <2>3, <2>4, MemberAdded DEF OpenObject
  <2>5. b = Append(asked, m) /\ v = r.w /\ m \in Asked(W)
    BY <1>5, <1>7, <1>12, <2>1
  <2>6. CASE w.failed
    <3>1. Added(r, w, T, o, ns, p)
      BY <1>6, <2>4
    <3>2. v.failed
      BY <1>8, <2>5, <2>6, <3>1 DEF Added
    <3>3. ~Holds(b)
      BY <1>2, <2>5, <2>6, HoldsLess
    <3>4. InStep(v, b, W)
      BY <1>1, <1>4, <1>5, <3>2, <3>3 DEF InStep
    <3> QED
      BY <1>1, <3>4
  <2>7. CASE ~w.failed
    <3>1. PICK ms, ps : ms = Members(asked) /\ ps = Append(ms, p)
      OBVIOUS
    <3>2. ms \in Seq(Seq(T)) /\ p \in Seq(T) /\ Members(b) = ps
      <4>1. asked \in Seq(Sayable(W)) /\ m \in Sayable(W)
        BY <1>2, <1>12, <2>5, <2>7, SayableList DEF Holds, Sayable
      <4> QED
        BY <1>1, <2>1, <2>5, <3>1, <4>1, MembersGrow
    <3>3. ps \in Seq(Seq(T))
      <4> DEFINE V == Seq(T)
      <4>1. ms \in Seq(V) /\ p \in V
        BY <3>2
      <4>2. ps \in Seq(V)
        <5> HIDE DEF V
        <5> QED
          BY <3>1, <4>1
      <4> QED
        BY <4>2
    <3>4. OpenObject(w, T, ms) /\ Holds(asked)
      BY <1>2, <1>3, <2>7, <3>1
    <3>5. Added(r, w, T, o, ms, p)
      BY <2>4, <3>2, <3>4
    <3>6. /\ r.ok <=> Fits(Cat(o, Separated(ps)), w)
          /\ r.ok => Inside(r.w, T, o, ps) /\ Kept(r.w, w) /\ r.w.failed = w.failed
          /\ ~r.ok => r = Refuse(w)
      BY <3>1, <3>5, Zenon DEF Added
    <3>7. r.ok <=> Bytes(Object(ps)) <= ResultCapacity
      BY <1>2, <1>9, <2>1, <3>3, <3>6, RoomForMember
    <3>8. \A i \in DOMAIN b : HasText(b[i])
      <4>1. \A i \in DOMAIN asked : HasText(asked[i])
        BY <3>4 DEF Holds
      <4>2. \A i \in DOMAIN b : b[i] = m \/ (i \in DOMAIN asked /\ b[i] = asked[i])
        BY <1>2, <2>5
      <4> QED
        BY <1>12, <4>1, <4>2
    <3>9. r.ok <=> Holds(b)
      BY <3>2, <3>7, <3>8 DEF Holds
    <3>10. ~v.failed <=> r.ok
      BY <1>8, <2>5, <2>7, <3>6
    <3>11. r.ok => OpenObject(v, T, Members(b))
      <4>1. w.depth = 1
        BY <3>4 DEF OpenObject
      <4> QED
        BY <2>1, <2>5, <3>2, <3>6, <4>1, Zenon DEF OpenObject, Kept
    <3>12. InStep(v, b, W)
      BY <1>1, <1>4, <1>5, <3>9, <3>10, <3>11 DEF InStep
    <3> QED
      BY <1>1, <3>12
  <2> QED
    BY <2>6, <2>7
<1> QED
  BY <1>10, <1>11, <1>12

\* After every request the writer and what was asked of it still agree.
LEMMA LoopsAgree ==
    ASSUME NEW W, AreWrites(W), NEW q \in Seq(W)
    PROVE  InStep(WrittenBy(q), Requested(q), W)
<1> DEFINE n == Len(q)
           T == Words(W)
           V == HandlerWriter(T)
           A == Seq(Asked(W))
           base == ObjectWriter(ResultCapacity)
<1>1. PICK f : Trace(f, n, V, base, WriteSteps(T, q)) /\ WrittenBy(q) = f[n]
  BY WrittenTrace
<1>2. PICK g : Trace(g, n, A, <<>>, AskSteps(W, q)) /\ Requested(q) = g[n]
  BY RequestedTrace
<1> DEFINE S == {k \in Nat : k <= n => InStep(f[k], g[k], W)}
<1>3. n \in Nat /\ \A k \in 1..n : q[k] \in W
  OBVIOUS
<1>4. InStep(base, <<>>, W)
  <2>1. IsVocabulary(T)
    BY WordsVocabulary
  <2>2. base \in V /\ OpenObject(base, T, <<>>) /\ ~base.failed
    BY <2>1, EmptyNotFailed
  <2>3. Members(<<>>) = <<>> /\ <<>> \in A /\ DOMAIN <<>> = {}
    BY DEF Members
  <2>4. Bytes(Object(<<>>)) = 2
    <3>1. <<>> \in Seq(Seq(T))
      OBVIOUS
    <3>2. Bytes(Object(<<>>)) = 2 + Bytes(Separated(<<>>))
      BY <2>1, <3>1, ObjectText
    <3> QED
      BY <3>2, SeparatedEmpty, BytesEmpty
  <2>5. Holds(<<>>)
    BY <2>3, <2>4, ResultAssumption DEF Holds
  <2> QED
    BY <2>2, <2>3, <2>5 DEF InStep
<1> HIDE DEF n, V, A, base
<1>5. 0 \in S
  BY <1>1, <1>2, <1>4 DEF Trace
<1>6. ASSUME NEW k \in Nat, k \in S PROVE k + 1 \in S
  <2> SUFFICES ASSUME k + 1 <= n PROVE InStep(f[k + 1], g[k + 1], W)
    OBVIOUS
  <2>1. k + 1 \in 1..n /\ (k + 1) - 1 = k /\ k \in 0..n /\ InStep(f[k], g[k], W)
    BY <1>3, <1>6
  <2>2. f[k] \in V /\ g[k] \in A
    BY <1>1, <1>2, <2>1 DEF Trace
  <2>3. /\ f[k + 1] = WriteSteps(T, q)[k + 1][f[k]]
        /\ g[k + 1] = AskSteps(W, q)[k + 1][g[k]]
    BY <1>1, <1>2, <2>1 DEF Trace
  <2>4. f[k + 1] = WriteStep(f[k], q[k + 1])
    BY <2>1, <2>2, <2>3 DEF WriteSteps, n, V
  <2>5. g[k + 1] = AskStep(g[k], q[k + 1])
    BY <2>1, <2>2, <2>3 DEF AskSteps, n, A
  <2> QED
    BY <1>3, <2>1, <2>4, <2>5, StepsAgree
<1> HIDE DEF S
<1>7. Nat \subseteq S
  BY <1>5, <1>6, SetInduction
<1>8. InStep(f[n], g[n], W)
  BY <1>3, <1>7 DEF S
<1> QED
  BY <1>1, <1>2, <1>8

\* Closing an object does not make its writer fail.
LEMMA CloseNotFailed ==
    ASSUME NEW T, IsVocabulary(T), NEW ms \in Seq(Seq(T)), NEW w, OpenObject(w, T, ms),
           w.tail_reserve = 1, ~w.failed
    PROVE  ~close(w).w.failed
<1>1. close(w).ok = TRUE
  BY CloseFinishes
<1>2. w \in Writer(T) /\ w.depth = 1 /\ ~w.closed
  BY DEF OpenObject, Inside
<1>3. PICK u : u = [w EXCEPT !.tail_reserve = 0]
  OBVIOUS
<1>4. close(w) = endObject(u)
  BY <1>2, <1>3 DEF close, releaseTailReserve
<1>5. u \in Writer(T) /\ u.depth = 1 /\ ~u.failed
  BY <1>2, <1>3 DEF Writer
<1>6. PICK r : r = Write(u, <<Closing>>)
  OBVIOUS
<1>7. endObject(u) = IF r.ok THEN [r EXCEPT !.w.depth = @ - 1, !.w.closed = (u.depth = 1)] ELSE r
  BY <1>5, <1>6 DEF endObject
<1>8. r.ok
  BY <1>1, <1>4, <1>7
<1>9. r = [ok |-> TRUE, w |-> [u EXCEPT !.out = @ \o <<Closing>>,
                                        !.length = @ + Bytes(<<Closing>>)]]
  BY <1>6, <1>8 DEF Write, Refuse
<1>10. r.w.failed = u.failed
  BY <1>5, <1>9 DEF Writer
<1>11. endObject(u).w.failed = r.w.failed
  <2>1. "failed" \in DOMAIN r.w /\ DOMAIN r = {"ok", "w"}
    BY <1>5, <1>9 DEF Writer
  <2>2. PICK v, d, b : v = r.w /\ d = v.depth - 1 /\ b = (u.depth = 1)
    OBVIOUS
  <2>3. endObject(u).w = [v EXCEPT !.depth = d, !.closed = b]
    BY <1>7, <1>8, <2>1, <2>2
  <2> QED
    BY <2>1, <2>2, <2>3
<1> QED
  BY <1>4, <1>5, <1>10, <1>11

\* The result is complete exactly when all that was asked can be represented, and
\* then it is the object of it.
LEMMA ResultExact ==
    ASSUME NEW W, AreWrites(W), NEW q \in Seq(W)
    PROVE  /\ ResultComplete(WrittenBy(q)) <=> Representable(Requested(q))
           /\ Representable(Requested(q)) =>
                /\ Members(Requested(q)) \in Seq(Seq(Words(W)))
                /\ close(WrittenBy(q)).w.out = Object(Members(Requested(q)))
<1>1. PICK T, w, a, ms : /\ T = Words(W) /\ w = WrittenBy(q) /\ a = Requested(q)
                         /\ ms = Members(a)
  OBVIOUS
<1>2. InStep(w, a, W)
  BY <1>1, LoopsAgree
<1>3. a \in Seq(Asked(W)) /\ w \in HandlerWriter(T) /\ (~w.failed <=> Holds(a))
  BY <1>1, <1>2 DEF InStep
<1>4. ~w.failed => OpenObject(w, T, ms)
  BY <1>1, <1>2 DEF InStep
<1>5. Representable(a) <=> Holds(a) /\ Bytes(Object(ms)) + ResponseEnvelope < ResponseCapacity
  <2>1. (\A i \in DOMAIN a : HasText(a[i])) <=>
        /\ \A i \in DOMAIN a : a[i][3] # Null
        /\ \A i \in DOMAIN a : a[i][2] = "double" => a[i][3] # NonFinite
    BY Zenon DEF HasText
  <2> QED
    BY <1>1, <2>1, Zenon DEF Representable, Holds
<1>6. CASE w.failed
  BY <1>1, <1>3, <1>5, <1>6 DEF ResultComplete
<1>7. CASE ~w.failed
  <2>1. OpenObject(w, T, ms) /\ w.tail_reserve = 1
    BY <1>3, <1>4, <1>7 DEF HandlerWriter
  <2>2. IsVocabulary(T)
    BY <1>1, WordsVocabulary
  <2>3. ms \in Seq(Seq(T))
    <3>1. CASE a = <<>>
      BY <1>1, <3>1 DEF Members
    <3>2. CASE a # <<>>
      <4>1. a \in Seq(Sayable(W))
        BY <1>3, <1>7, SayableList DEF Holds
      <4>2. a[1] \in Sayable(W)
        BY <3>2, <4>1
      <4> QED
        BY <1>1, <4>1, <4>2, MembersGrow
    <3> QED
      BY <3>1, <3>2
  <2>4. close(w).ok = TRUE /\ FinishedObject(close(w).w, T, ms)
    BY <2>1, <2>2, <2>3, CloseFinishes
  <2>5. ~close(w).w.failed
    BY <1>7, <2>1, <2>2, <2>3, CloseNotFailed
  <2>6. close(w).w.out = Object(ms)
    BY <2>4 DEF FinishedObject
  <2>7. ResultComplete(w) <=> Bytes(Object(ms)) + ResponseEnvelope < ResponseCapacity
    BY <1>7, <2>4, <2>5, <2>6 DEF ResultComplete, buildOkLine
  <2> QED
    BY <1>1, <1>3, <1>5, <1>7, <2>3, <2>6, <2>7
<1> QED
  BY <1>6, <1>7

\* appendResultWithBoardProcUs gives the object with one member more, at its end.
LEMMA BoardProcUsLast ==
    ASSUME NEW T, IsVocabulary(T), BoardProcUs \in T, Quoted("board_proc_us") \in T,
           NEW ms \in Seq(Seq(T))
    PROVE  WithBoardProcUs(Object(ms))
             = Object(Append(ms, Pair("board_proc_us", <<BoardProcUs>>)))
<1>1. PICK o, z, c, p, S, e :
        /\ o = <<Opening>> /\ z = <<Closing>> /\ c = <<Comma>> /\ e = <<>>
        /\ p = Pair("board_proc_us", <<BoardProcUs>>) /\ S = Separated(ms)
  OBVIOUS
<1>2. o \in Seq(T) /\ z \in Seq(T) /\ c \in Seq(T) /\ e \in Seq(T) /\ Len(o) = 1 /\ Len(z) = 1
  BY <1>1 DEF IsVocabulary
<1>3. p \in Seq(T)
  <2>1. PICK k, v : k = Quoted("board_proc_us") /\ v = BoardProcUs
    OBVIOUS
  <2>2. p = <<k, Colon>> \o <<v>>
    BY <1>1, <2>1, Zenon DEF Pair
  <2>3. <<k, Colon>> \in Seq(T) /\ <<v>> \in Seq(T)
    BY <2>1 DEF IsVocabulary
  <2> QED
    BY <2>2, <2>3, ConcatProperties
<1>4. S \in Seq(T) /\ Separated(Append(ms, p)) = Joined(S, p)
  BY <1>1, <1>3, SeparatedAppend DEF IsVocabulary
<1>5. PICK b, r : b = Cat(o, S) /\ r = Cat(b, z)
  OBVIOUS
<1>6. Object(ms) = r
  BY <1>1, <1>5, Zenon DEF Object, Cat
<1>7. b \in Seq(T) /\ Len(b) = 1 + Len(S) /\ Len(S) \in Nat
  <2>1. b \in Seq(T)
    BY <1>2, <1>4, <1>5, CatType
  <2>2. Len(b) = Len(o) + Len(S)
    BY <1>2, <1>4, <1>5, ConcatProperties, Zenon DEF Cat
  <2> QED
    BY <1>2, <1>4, <2>1, <2>2
<1>8. /\ r \in Seq(T) /\ Len(r) = Len(b) + 1
      /\ \A i \in 1..Len(b) : r[i] = b[i]
  BY <1>2, <1>5, <1>7, ConcatProperties DEF Cat
<1>9. SubSeq(r, 1, Len(r) - 1) = b
  <2>1. PICK x : x = SubSeq(r, 1, Len(r) - 1)
    OBVIOUS
  <2>2. Len(r) - 1 = Len(b) /\ Len(b) \in Nat
    BY <1>7, <1>8
  <2>3. x \in Seq(T) /\ Len(x) = Len(b) /\ \A i \in 1..Len(b) : x[i] = r[i]
    BY <1>7, <1>8, <2>1, <2>2
  <2>4. x = b
    BY <1>7, <1>8, <2>3, SeqEqual
  <2> QED
    BY <2>1, <2>4
<1>10. Len(r) = 2 <=> S = e
  BY <1>1, <1>4, <1>7, <1>8
<1>11. PICK s : s = IF Len(r) = 2 THEN e ELSE c
  OBVIOUS
<1>12. WithBoardProcUs(r) = Cat(Cat(Cat(b, s), p), z)
  BY <1>1, <1>9, <1>11, Zenon DEF WithBoardProcUs, Cat
<1>13. Object(Append(ms, p)) = Cat(Cat(o, Joined(S, p)), z)
  BY <1>1, <1>4, Zenon DEF Object, Cat
<1>14. Cat(Cat(b, s), p) = Cat(o, Joined(S, p))
  <2>1. CASE S = e
    <3>1. s = e /\ Joined(S, p) = p
      BY <1>1, <1>10, <1>11, <2>1 DEF Joined
    <3>2. Cat(o, e) = o /\ Cat(b, e) = b
      BY <1>1, <1>2, <1>7, CatEmpty
    <3> QED
      BY <1>5, <2>1, <3>1, <3>2
  <2>2. CASE S # e
    <3>1. s = c /\ Joined(S, p) = Cat(Cat(S, c), p)
      <4>1. S # <<>>
        BY <1>1, <2>2
      <4>2. Joined(S, p) = Cat(Cat(S, c), p)
        BY <1>1, <4>1, Zenon DEF Joined, Cat
      <4> QED
        BY <1>10, <1>11, <2>2, <4>2
    <3>2. Cat(S, c) \in Seq(T)
      BY <1>2, <1>4, CatType
    <3>3. Cat(b, c) = Cat(o, Cat(S, c))
      BY <1>2, <1>4, <1>5, CatAssociative
    <3>4. Cat(Cat(o, Cat(S, c)), p) = Cat(o, Cat(Cat(S, c), p))
      BY <1>2, <1>3, <3>2, CatAssociative
    <3> QED
      BY <3>1, <3>3, <3>4
  <2> QED
    BY <2>1, <2>2
<1>15. WithBoardProcUs(r) = Object(Append(ms, p))
  BY <1>12, <1>13, <1>14, Zenon
<1> QED
  BY <1>1, <1>6, <1>15, Zenon

\* OkReplyIsComplete, of one line.
RepliedInFull(h) ==
    LET asked == Requested(h.wrote)
    IN  IF h.said # "OK" THEN h.reply = Response(h.said, <<>>)
        ELSE IF ~Representable(asked) THEN h.reply = Response("INTERNAL_ERROR", <<>>)
        ELSE h.reply = Response("OK",
                Object(Append(Members(asked), Pair("board_proc_us", <<BoardProcUs>>))))

\* A handler that ran is answered in full.
LEMMA RunInFull ==
    ASSUME NEW h, NEW line, NEW c, IsRun(h, line, c)
    PROVE  RepliedInFull(h)
<1>1. PICK run \in HandlerRuns(c) :
        /\ h.wrote = run.wrote
        /\ \/ run.said # "OK" /\ IsError(h, line, "handler", run.said, run.said)
           \/ /\ run.said = "OK" /\ ~ResultComplete(WrittenBy(run.wrote))
              /\ IsError(h, line, "handler", "OK", "INTERNAL_ERROR")
           \/ /\ run.said = "OK" /\ ResultComplete(WrittenBy(run.wrote))
              /\ h.said = "OK"
              /\ h.reply = Response("OK", WithBoardProcUs(close(WrittenBy(run.wrote)).w.out))
  BY Zenon DEF IsRun
<1>2. PICK q, W, a, last_member : /\ q = run.wrote /\ W = Range(q) /\ a = Requested(q)
                                  /\ last_member = Pair("board_proc_us", <<BoardProcUs>>)
  OBVIOUS
<1>3. q \in HandlerWrites \cup {CountersResult}
  <2>1. CASE c.handler = "counters"
    <3>1. run \in {[said |-> "OK", wrote |-> CountersResult]}
      BY <2>1 DEF HandlerRuns
    <3> QED
      BY <1>2, <3>1
  <2>2. CASE c.handler # "counters"
    <3>1. run \in [said : {"OK"} \cup BoardErrorCode, wrote : HandlerWrites]
      BY <2>2 DEF HandlerRuns
    <3> QED
      BY <1>2, <3>1
  <2> QED
    BY <2>1, <2>2
<1>4. q \in Seq(W) /\ AreWrites(W)
  <2>1. IsList(q) /\ \A i \in DOMAIN q : IsWrite(q[i])
    BY <1>3, ResultAssumption
  <2> QED
    BY <1>2, <2>1 DEF IsList, AreWrites, Range
<1>5. /\ ResultComplete(WrittenBy(q)) <=> Representable(a)
      /\ Representable(a) => /\ Members(a) \in Seq(Seq(Words(W)))
                             /\ close(WrittenBy(q)).w.out = Object(Members(a))
  BY <1>2, <1>4, ResultExact
<1>6. CASE run.said # "OK"
  <2>1. h.said # "OK" /\ h.reply = Response(h.said, <<>>)
    BY <1>1, <1>6, Zenon DEF IsError
  <2> QED
    BY <2>1, Zenon DEF RepliedInFull
<1>7. CASE run.said = "OK" /\ ~Representable(a)
  <2>1. h.said = "OK" /\ h.reply = Response("INTERNAL_ERROR", <<>>)
    BY <1>1, <1>2, <1>5, <1>7, Zenon DEF IsError
  <2> QED
    BY <1>1, <1>2, <1>7, <2>1, Zenon DEF RepliedInFull
<1>8. CASE run.said = "OK" /\ Representable(a)
  <2>1. h.said = "OK" /\ h.reply = Response("OK", WithBoardProcUs(close(WrittenBy(q)).w.out))
    BY <1>1, <1>2, <1>5, <1>8, Zenon
  <2>2. PICK ms : ms = Members(a)
    OBVIOUS
  <2>3. ms \in Seq(Seq(Words(W))) /\ close(WrittenBy(q)).w.out = Object(ms)
    BY <1>5, <1>8, <2>2
  <2>4. /\ IsVocabulary(Words(W)) /\ BoardProcUs \in Words(W)
        /\ Quoted("board_proc_us") \in Words(W)
    BY <1>4, WordsVocabulary
  <2>5. WithBoardProcUs(Object(ms)) = Object(Append(ms, last_member))
    BY <1>2, <2>3, <2>4, BoardProcUsLast
  <2>6. h.reply = Response("OK", Object(Append(Members(a), last_member)))
    BY <2>1, <2>2, <2>3, <2>5, Zenon
  <2> QED
    BY <1>1, <1>2, <1>8, <2>1, <2>6, Zenon DEF RepliedInFull
<1> QED
  BY <1>6, <1>7, <1>8

\* Nothing else runs a handler.
LEMMA LineInFull ==
    ASSUME NEW h, NEW line, LedTo(h, line), h.ran = "handler"
    PROVE  RepliedInFull(h)
<1>1. "handler" # "None" /\ "handler" # "hook"
  OBVIOUS
<1>2. IsAnswered(h, line)
  BY <1>1, Zenon DEF LedTo, IsDropped
<1>3. PICK c : IsRun(h, line, c)
  BY <1>1, <1>2, Zenon DEF IsAnswered, IsError
<1> QED
  BY <1>3, RunInFull

\* A handler that reports success is answered with everything it wrote, once and in
\* order, board_proc_us last, or with INTERNAL_ERROR, never with a part of it; its
\* error is passed on (ObjectWriter.h, CommandDispatcher.h), whatever the handlers
\* write and whatever the buffers hold.
THEOREM RepliesComplete == Spec => []OkReplyIsComplete
<1> DEFINE Inv == last.ran = "handler" => RepliedInFull(last)
<1>0. NoLine.ran # "handler"
  BY DroppedFields DEF NoLine, IsDropped
<1>1. Init => Inv
  BY <1>0 DEF Init
<1>2. Inv /\ [Next]_vars => Inv'
  <2> SUFFICES ASSUME Inv, [Next]_vars PROVE Inv'
    OBVIOUS
  <2>1. CASE last' = NoLine
    BY <1>0, <2>1
  <2>2. CASE UNCHANGED last
    <3>1. PICK h : h = last
      OBVIOUS
    <3>2. h.ran = "handler" => RepliedInFull(h)
      BY <3>1
    <3>3. last' = h
      BY <2>2, <3>1
    <3> QED
      BY <3>2, <3>3 DEF RepliedInFull
  <2>3. ASSUME NEW line \in Lines, processLine(line) PROVE Inv'
    <3>1. PICK h : h = last' /\ LedTo(h, line)
      BY <2>3, LineLedTo
    <3>2. h.ran = "handler" => RepliedInFull(h)
      BY <3>1, LineInFull
    <3> QED
      BY <3>1, <3>2 DEF RepliedInFull
  <2> QED
    BY <2>1, <2>2, <2>3, LineInHand
<1>3. Inv => OkReplyIsComplete
  BY Zenon DEF OkReplyIsComplete, RepliedInFull
<1> QED
  BY <1>1, <1>2, <1>3, PTL DEF Spec

=============================================================================
