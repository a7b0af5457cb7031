---------------------------- MODULE DamageProofs ----------------------------
(***************************************************************************)
(* What two components make of data that may be damaged: the parser of the *)
(* event stream, of a body that changes on the way, and the admin store,   *)
(* of a file whose writing may stop anywhere.  The components share        *)
(* nothing; each part stands on its own.                                   *)
(*                                                                         *)
(* The parser is a loop over data of any length, so its part begins with   *)
(* an induction over the natural numbers, stated with a set because the    *)
(* provers cannot instantiate an operator and proved from the theorems on  *)
(* finite sets, and what follows from it about functions defined by        *)
(* recursion.                                                              *)
(***************************************************************************)
EXTENDS CredentialStore, RobustParser, TLAPS, SequenceTheorems, FiniteSetTheorems
LOCAL INSTANCE SequencesExt

-----------------------------------------------------------------------------
(* Induction and recursion over the natural numbers.                        *)
\* If n were not in S, adding one would map the members of S up to n to those
\* of them that are not 0, which are fewer.
LEMMA SetInduction ==
    ASSUME NEW S, 0 \in S, \A n \in Nat : (n \in S => n + 1 \in S)
    PROVE  Nat \subseteq S
<1>1. SUFFICES ASSUME NEW n \in Nat, n \notin S PROVE FALSE
  OBVIOUS
<1> DEFINE A == {k \in S \cap Nat : k <= n}
           B == A \ {0}
           f == [k \in A |-> k + 1]
<1>2. A \in SUBSET Nat /\ 0 \in A /\ \A k \in A : k <= n
  BY <1>1
<1>3. ASSUME NEW k \in A PROVE k + 1 \in B
  <2>1. k \in Nat /\ k \in S /\ k <= n /\ k # n
    BY <1>1
  <2> QED
    BY <1>1, <2>1
<1>4. f \in [A -> B]
  BY <1>3
<1>5. \A x, y \in A : f[x] = f[y] => x = y
  BY <1>2
<1> HIDE DEF A, f
<1>6. IsFiniteSet(A) /\ Cardinality(A) \in Nat
  BY <1>1, <1>2, FS_BoundedSetOfNaturals, FS_CardinalityType
<1>7. IsFiniteSet(B) /\ Cardinality(B) = Cardinality(A) - 1
  BY <1>2, <1>6, FS_RemoveElement
<1>8. Cardinality(B) < Cardinality(A)
  BY <1>6, <1>7
<1> HIDE DEF B
<1> QED
  BY <1>4, <1>5, <1>6, <1>7, <1>8, FS_PigeonHole

\* A set of natural numbers that is not empty has a least member.
LEMMA LeastMember ==
    ASSUME NEW I \in SUBSET Nat, I # {}
    PROVE  \E x \in I : \A y \in I : x <= y
<1> DEFINE S == {n \in Nat : \A y \in I : n <= y}
<1>1. SUFFICES ASSUME \A x \in I : ~(\A y \in I : x <= y) PROVE FALSE
  OBVIOUS
<1>2. 0 \in S
  OBVIOUS
<1>3. ASSUME NEW n \in Nat, n \in S PROVE n + 1 \in S
  <2>1. n \notin I
    BY <1>1, <1>3
  <2>2. ASSUME NEW y \in I PROVE n + 1 <= y
    <3>1. n <= y /\ y # n /\ y \in Nat
      BY <1>3, <2>1
    <3> QED
      BY <3>1
  <2> QED
    BY <2>2
<1> HIDE DEF S
<1>4. Nat \subseteq S
  BY <1>2, <1>3, SetInduction
<1>5. PICK x \in I : TRUE
  OBVIOUS
<1>6. x + 1 \in Nat /\ ~(x + 1 <= x)
  OBVIOUS
<1>7. x + 1 \in S
  BY <1>4, <1>6
<1> QED
  BY <1>6, <1>7 DEF S

\* g is the function on 0 .. n defined by recursion.
Recurs(g, n, base, Step) ==
    g[0] = base /\ \A k \in 1 .. n : g[k] = Step[k][g[k - 1]]

\* It exists,
LEMMA Recursion ==
    ASSUME NEW X, NEW n \in Nat, NEW base \in X, NEW Step \in [1 .. n -> [X -> X]]
    PROVE  \E g \in [0 .. n -> X] : Recurs(g, n, base, Step)
<1> DEFINE Good(g, m) == Recurs(g, m, base, Step)
<1> DEFINE S == {m \in Nat : m <= n => \E g \in [0 .. m -> X] : Good(g, m)}
<1>1. 0 \in S
  <2>1. [k \in 0 .. 0 |-> base] \in [0 .. 0 -> X] /\ Good([k \in 0 .. 0 |-> base], 0)
    BY DEF Recurs
  <2> HIDE DEF Good
  <2> QED
    BY <2>1
<1>2. ASSUME NEW m \in Nat, m \in S PROVE m + 1 \in S
  <2>1. SUFFICES ASSUME m + 1 <= n PROVE \E g \in [0 .. m + 1 -> X] : Good(g, m + 1)
    BY DEF S
  <2>2. PICK g \in [0 .. m -> X] : Good(g, m)
    BY <1>2, <2>1 DEF S
  <2> DEFINE h == [k \in 0 .. m + 1 |-> IF k <= m THEN g[k] ELSE Step[m + 1][g[m]]]
  <2>3. g[m] \in X /\ m + 1 \in 1 .. n
    BY <2>1, <2>2
  <2>4. Step[m + 1][g[m]] \in X
    BY <2>3
  <2>5. h \in [0 .. m + 1 -> X]
    BY <2>2, <2>4
  <2>6. \A k \in 1 .. m + 1 : h[k] = Step[k][h[k - 1]]
    BY <2>2, <2>3 DEF Recurs
  <2>7. h[0] = base
    BY <2>2 DEF Recurs
  <2> HIDE DEF h
  <2> QED
    BY <2>5, <2>6, <2>7 DEF Recurs
<1> HIDE DEF S
<1>3. n \in S
  BY <1>1, <1>2, SetInduction
<1> QED
  BY <1>3 DEF S

\* and is the only one.
LEMMA RecursionUnique ==
    ASSUME NEW n \in Nat, NEW Step, NEW base, NEW f, NEW g,
           Recurs(f, n, base, Step), Recurs(g, n, base, Step)
    PROVE  f[n] = g[n]
<1> DEFINE S == {m \in Nat : m <= n => f[m] = g[m]}
<1>1. 0 \in S
  BY DEF Recurs
<1>2. ASSUME NEW m \in Nat, m \in S PROVE m + 1 \in S
  <2>1. CASE m + 1 <= n
    <3>1. f[m] = g[m] /\ m + 1 \in 1 .. n /\ (m + 1) - 1 = m
      BY <1>2, <2>1
    <3>2. f[m + 1] = g[m + 1]
      BY <3>1 DEF Recurs
    <3> QED
      BY <3>2
  <2> QED
    BY <2>1
<1> HIDE DEF S
<1>3. Nat \subseteq S
  BY <1>1, <1>2, SetInduction
<1> QED
  BY <1>3 DEF S

-----------------------------------------------------------------------------
\* FlattenSeq of a sequence of sequences.
LEMMA FlattenNone == FlattenSeq(<<>>) = <<>>
  BY DEF FlattenSeq

\* FlattenSeq puts one sequence after the other behind what it has.
LEMMA FlattenSteps ==
    ASSUME NEW X, NEW s \in Seq(Seq(X)), s # <<>>
    PROVE  \E g \in [1 .. Len(s) -> Seq(X)] :
              /\ g[1] = s[1]
              /\ \A k \in 2 .. Len(s) : g[k] = g[k - 1] \o s[k]
              /\ FlattenSeq(s) = g[Len(s)]
<1> DEFINE Step == [k \in 1 .. Len(s) |-> [x \in Seq(X) |-> x \o s[k]]]
           Body(g) == [i \in 1 .. Len(s) |-> IF i = 1 THEN s[i] ELSE g[i - 1] \o s[i]]
           flatten == CHOOSE g : g = Body(g)
<1>1. Len(s) \in Nat /\ Len(s) # 0 /\ \A k \in 1 .. Len(s) : s[k] \in Seq(X)
  BY EmptySeq, LenProperties, ElementOfSeq
<1>2. Step \in [1 .. Len(s) -> [Seq(X) -> Seq(X)]]
  BY <1>1
<1>3. <<>> \in Seq(X)
  OBVIOUS
<1> HIDE DEF Step
<1>4. PICK g \in [0 .. Len(s) -> Seq(X)] : Recurs(g, Len(s), <<>>, Step)
  BY <1>1, <1>2, <1>3, Recursion
<1>5. ASSUME NEW k \in 1 .. Len(s) PROVE g[k] = g[k - 1] \o s[k]
  <2>1. k - 1 \in 0 .. Len(s)
    BY <1>1
  <2>2. g[k - 1] \in Seq(X)
    BY <2>1
  <2>3. Step[k][g[k - 1]] = g[k - 1] \o s[k]
    BY <2>2 DEF Step
  <2> QED
    BY <1>4, <2>3 DEF Recurs
<1> DEFINE h == [k \in 1 .. Len(s) |-> g[k]]
<1>6. h = Body(h)
  <2>1. ASSUME NEW k \in 1 .. Len(s) PROVE h[k] = Body(h)[k]
    <3>1. CASE k = 1
      <4>1. g[1] = <<>> \o s[1]
        <5>1. 1 \in 1 .. Len(s) /\ 1 - 1 = 0
          BY <1>1
        <5>2. g[1] = g[0] \o s[1]
          BY <1>5, <5>1, Zenon
        <5> QED
          BY <1>4, <5>2 DEF Recurs
      <4>2. <<>> \o s[1] = s[1]
        BY <1>1, ConcatEmptySeq
      <4> QED
        BY <3>1, <4>1, <4>2
    <3>2. CASE k # 1
      <4>1. k - 1 \in 1 .. Len(s)
        BY <1>1, <3>2
      <4> QED
        BY <1>5, <3>2, <4>1
    <3> QED
      BY <3>1, <3>2
  <2>2. \A k \in 1 .. Len(s) : h[k] = Body(h)[k]
    BY <2>1
  <2> QED
    BY <2>2
<1>7. flatten = Body(flatten)
  <2> HIDE DEF h, Body
  <2> QED
    BY <1>6
<1>8. FlattenSeq(s) = flatten[Len(s)]
  BY <1>1 DEF FlattenSeq
<1> HIDE DEF flatten, h
<1>9. /\ flatten[1] = s[1]
      /\ \A k \in 1 .. Len(s) : k # 1 => flatten[k] = flatten[k - 1] \o s[k]
  <2>1. \A k \in 1 .. Len(s) :
           flatten[k] = IF k = 1 THEN s[k] ELSE flatten[k - 1] \o s[k]
    BY <1>7
  <2>2. 1 \in 1 .. Len(s)
    BY <1>1
  <2> QED
    BY <2>1, <2>2, Zenon
<1>10. \A k \in 1 .. Len(s) : flatten[k] \in Seq(X)
  <2> DEFINE S == {m \in Nat : m + 1 <= Len(s) => flatten[m + 1] \in Seq(X)}
  <2>1. 0 \in S
    BY <1>1, <1>9
  <2>2. ASSUME NEW m \in Nat, m \in S PROVE m + 1 \in S
    <3>1. SUFFICES ASSUME m + 2 <= Len(s) PROVE flatten[m + 2] \in Seq(X)
      OBVIOUS
    <3>2. flatten[m + 1] \in Seq(X) /\ s[m + 2] \in Seq(X)
      BY <1>1, <2>2, <3>1
    <3>3. flatten[m + 2] = flatten[m + 1] \o s[m + 2]
      <4>1. m + 2 \in 1 .. Len(s) /\ m + 2 # 1 /\ (m + 2) - 1 = m + 1
        BY <1>1, <3>1
      <4>2. flatten[m + 2] = flatten[(m + 2) - 1] \o s[m + 2]
        BY <1>9, <4>1, Zenon
      <4> QED
        BY <4>1, <4>2
    <3> QED
      BY <3>2, <3>3
  <2> HIDE DEF S
  <2>3. Nat \subseteq S
    BY <2>1, <2>2, SetInduction
  <2>4. ASSUME NEW k \in 1 .. Len(s) PROVE flatten[k] \in Seq(X)
    <3>1. k - 1 \in S /\ (k - 1) + 1 = k
      BY <1>1, <2>3
    <3> QED
      BY <1>1, <3>1 DEF S
  <2> QED
    BY <2>4
<1>11. flatten \in [1 .. Len(s) -> Seq(X)]
  <2> DEFINE fl == [k \in 1 .. Len(s) |-> flatten[k]]
  <2>1. flatten = fl
    <3> HIDE DEF Body
    <3>1. flatten = [k \in 1 .. Len(s) |-> Body(flatten)[k]]
      BY <1>7 DEF Body
    <3> QED
      BY <1>7, <3>1
  <2> QED
    BY <1>10, <2>1
<1>12. flatten[1] = s[1] /\ \A k \in 2 .. Len(s) : flatten[k] = flatten[k - 1] \o s[k]
  <2>1. \A k \in 2 .. Len(s) : k \in 1 .. Len(s) /\ k # 1
    BY <1>1
  <2> QED
    BY <1>9, <2>1, Zenon
<1> QED
  BY <1>8, <1>11, <1>12

\* It makes one sequence of them.
LEMMA FlattenType ==
    ASSUME NEW X, NEW s \in Seq(Seq(X)) PROVE FlattenSeq(s) \in Seq(X)
<1>1. CASE s = <<>>
  <2>1. <<>> \in Seq(X)
    OBVIOUS
  <2>2. FlattenSeq(s) = <<>>
    BY <1>1, FlattenNone
  <2> QED
    BY <2>1, <2>2
<1>2. CASE s # <<>>
  <2>1. PICK g \in [1 .. Len(s) -> Seq(X)] : FlattenSeq(s) = g[Len(s)]
    BY <1>2, FlattenSteps
  <2>2. Len(s) \in 1 .. Len(s)
    BY <1>2, EmptySeq
  <2> QED
    BY <2>1, <2>2
<1> QED
  BY <1>1, <1>2

\* One more sequence at the end of the sequence of sequences.
LEMMA FlattenAppend ==
    ASSUME NEW X, NEW s \in Seq(Seq(X)), NEW x \in Seq(X)
    PROVE  FlattenSeq(Append(s, x)) = FlattenSeq(s) \o x
<1> DEFINE t == Append(s, x)
<1>1. /\ t \in Seq(Seq(X)) /\ t # <<>> /\ Len(t) = Len(s) + 1 /\ t[Len(t)] = x
      /\ \A k \in 1 .. Len(s) : t[k] = s[k]
      /\ Len(s) \in Nat
  BY AppendProperties
<1> HIDE DEF t
<1>2. PICK g \in [1 .. Len(t) -> Seq(X)] :
         /\ g[1] = t[1]
         /\ \A k \in 2 .. Len(t) : g[k] = g[k - 1] \o t[k]
         /\ FlattenSeq(t) = g[Len(t)]
  BY <1>1, FlattenSteps
<1>3. CASE s = <<>>
  <2>1. FlattenSeq(t) = x
    BY <1>1, <1>2, <1>3
  <2>2. <<>> \o x = x
    BY ConcatEmptySeq
  <2> QED
    BY <1>3, <2>1, <2>2, FlattenNone DEF t
<1>4. CASE s # <<>>
  <2>1. Len(s) >= 1
    BY <1>1, <1>4, EmptySeq
  <2>2. PICK h \in [1 .. Len(s) -> Seq(X)] :
           /\ h[1] = s[1]
           /\ \A k \in 2 .. Len(s) : h[k] = h[k - 1] \o s[k]
           /\ FlattenSeq(s) = h[Len(s)]
    BY <1>4, FlattenSteps
  <2> DEFINE S == {m \in Nat : m + 1 <= Len(s) => g[m + 1] = h[m + 1]}
  <2>3. 0 \in S
    BY <1>1, <1>2, <2>1, <2>2
  <2>4. ASSUME NEW m \in Nat, m \in S PROVE m + 1 \in S
    <3>1. SUFFICES ASSUME m + 2 <= Len(s) PROVE g[m + 2] = h[m + 2]
      OBVIOUS
    <3>2. /\ m + 2 \in 2 .. Len(s) /\ m + 2 \in 2 .. Len(t) /\ (m + 2) - 1 = m + 1
          /\ m + 1 <= Len(s) /\ m + 2 \in 1 .. Len(s)
      BY <1>1, <3>1
    <3>3. g[m + 1] = h[m + 1] /\ t[m + 2] = s[m + 2]
      BY <1>1, <2>4, <3>2
    <3>4. g[m + 2] = g[m + 1] \o t[m + 2] /\ h[m + 2] = h[m + 1] \o s[m + 2]
      BY <1>2, <2>2, <3>2
    <3> QED
      BY <3>3, <3>4
  <2> HIDE DEF S
  <2>5. Nat \subseteq S
    BY <2>3, <2>4, SetInduction
  <2>6. g[Len(s)] = h[Len(s)]
    <3>1. Len(s) - 1 \in S /\ (Len(s) - 1) + 1 = Len(s)
      BY <1>1, <2>1, <2>5
    <3> QED
      BY <1>1, <3>1 DEF S
  <2>7. g[Len(t)] = g[Len(s)] \o x
    <3>1. Len(t) \in 2 .. Len(t) /\ Len(t) - 1 = Len(s)
      BY <1>1, <2>1
    <3>2. g[Len(t)] = g[Len(t) - 1] \o t[Len(t)]
      BY <1>2, <3>1
    <3> QED
      BY <1>1, <3>1, <3>2
  <2> QED
    BY <1>2, <2>2, <2>6, <2>7 DEF t
<1> QED
  BY <1>3, <1>4

-----------------------------------------------------------------------------
\* The units of one header.
EncodedHeader(h) == <<h.name, h.type, Len(h.value)>> \o h.value

\* A header is encoded in numbers.
LEMMA EncodedHeaderType ==
    ASSUME NEW h \in HeaderType PROVE EncodedHeader(h) \in Seq(Nat)
<1>1. h.name \in Nat /\ h.type \in Nat /\ h.value \in Seq(Nat) /\ Len(h.value) \in Nat
  BY DEF HeaderType
<1>2. <<h.name, h.type, Len(h.value)>> \in Seq(Nat)
  BY <1>1
<1> QED
  BY <1>1, <1>2, ConcatProperties DEF EncodedHeader

\* The sequence t stands in s behind position p.
Stands(s, p, t) == p + Len(t) <= Len(s) /\ \A k \in 1 .. Len(t) : s[p + k] = t[k]

\* What stands there is what SubSeq cuts out there.
LEMMA StandsSubSeq ==
    ASSUME NEW X, NEW s \in Seq(X), NEW t \in Seq(X), NEW p \in Nat, Stands(s, p, t)
    PROVE  SubSeq(s, p + 1, p + Len(t)) = t
<1>1. Len(t) \in Nat /\ Len(s) \in Nat
  BY LenProperties
<1>2. p + Len(t) <= Len(s)
  BY DEF Stands
<1> DEFINE u == SubSeq(s, p + 1, p + Len(t))
<1>3. u \in Seq(X)
  BY <1>1, <1>2
<1>4. Len(u) = Len(t)
  BY <1>1, <1>2
<1>5. ASSUME NEW k \in 1 .. Len(t) PROVE u[k] = t[k]
  <2>1. u[k] = s[p + k]
    BY <1>1, <1>2
  <2> QED
    BY <2>1 DEF Stands
<1> HIDE DEF u
<1>6. u = t
  BY <1>3, <1>4, <1>5, SeqEqual
<1> QED
  BY <1>6 DEF u

\* Two sequences stand in the one they are put together to.
LEMMA ConcatStands ==
    ASSUME NEW X, NEW s \in Seq(X), NEW t \in Seq(X)
    PROVE  /\ s \o t \in Seq(X)
           /\ Len(s \o t) = Len(s) + Len(t)
           /\ Stands(s \o t, 0, s)
           /\ Stands(s \o t, Len(s), t)
<1>1. Len(t) \in Nat /\ Len(s) \in Nat
  BY LenProperties
<1>2. s \o t \in Seq(X) /\ Len(s \o t) = Len(s) + Len(t)
  BY ConcatProperties
<1>3. \A k \in 1 .. Len(s) : (s \o t)[0 + k] = s[k]
  BY <1>1
<1>4. \A k \in 1 .. Len(t) : (s \o t)[Len(s) + k] = t[k]
  BY <1>1
<1> QED
  BY <1>1, <1>2, <1>3, <1>4 DEF Stands

\* What stands in a part stands in the whole.
LEMMA StandsWithin ==
    ASSUME NEW X, NEW r \in Seq(X), NEW s \in Seq(X), NEW t \in Seq(X),
           NEW p \in Nat, NEW q \in Nat, Stands(r, p, s), Stands(s, q, t)
    PROVE  Stands(r, p + q, t)
<1>1. Len(t) \in Nat /\ Len(s) \in Nat /\ Len(r) \in Nat
  BY LenProperties
<1>2. p + Len(s) <= Len(r) /\ q + Len(t) <= Len(s)
  BY DEF Stands
<1>3. ASSUME NEW k \in 1 .. Len(t) PROVE r[(p + q) + k] = t[k]
  <2>1. q + k \in 1 .. Len(s) /\ p + (q + k) = (p + q) + k
    BY <1>1, <1>2
  <2>2. r[p + (q + k)] = s[q + k]
    BY <2>1 DEF Stands
  <2> QED
    BY <2>1, <2>2 DEF Stands
<1> QED
  BY <1>1, <1>2, <1>3 DEF Stands

\* The four parts of a frame, and where each is found.
LEMMA FourParts ==
    ASSUME NEW ab \in Seq(Nat), NEW h \in Seq(Nat), NEW p \in Seq(Nat)
    PROVE  /\ ab \o h \o p \in Seq(Nat)
           /\ Len(ab \o h \o p) = Len(ab) + Len(h) + Len(p)
           /\ Stands(ab \o h \o p, 0, ab)
           /\ Stands(ab \o h \o p, Len(ab), h)
           /\ Stands(ab \o h \o p, Len(ab) + Len(h), p)
<1>1. Len(h) \in Nat /\ Len(p) \in Nat /\ Len(ab) \in Nat
  BY LenProperties
<1> DEFINE g == ab \o h
<1>2. g \in Seq(Nat) /\ Len(g) = Len(ab) + Len(h) /\ Stands(g, 0, ab) /\ Stands(g, Len(ab), h)
  BY ConcatStands
<1> HIDE DEF g
<1> DEFINE f == g \o p
<1>3. f \in Seq(Nat) /\ Len(f) = Len(g) + Len(p) /\ Stands(f, 0, g) /\ Stands(f, Len(g), p)
  BY <1>2, ConcatStands
<1> HIDE DEF f
<1>4. Stands(f, 0 + 0, ab)
  BY <1>2, <1>3, StandsWithin
<1>5. Stands(f, 0 + Len(ab), h)
  BY <1>1, <1>2, <1>3, StandsWithin
<1> QED
  BY <1>1, <1>2, <1>3, <1>4, <1>5 DEF f, g

\* The units of a frame, and how many they are.
LEMMA EncodingType ==
    ASSUME NEW f \in FrameType
    PROVE  /\ EncodedHeaders(f) \in Seq(Nat)
           /\ Encoding(f) \in Seq(Nat)
           /\ Len(Encoding(f)) = 2 + Len(EncodedHeaders(f)) + Len(f.payload)
<1>1. f.headers \in Seq(HeaderType) /\ f.payload \in Seq(Nat)
  BY DEF FrameType
<1> DEFINE parts == [k \in 1 .. Len(f.headers) |-> EncodedHeader(f.headers[k])]
<1>2. parts \in Seq(Seq(Nat))
  <2>1. Len(f.headers) \in Nat /\ \A k \in 1 .. Len(f.headers) : f.headers[k] \in HeaderType
    BY <1>1, ElementOfSeq
  <2>2. \A k \in 1 .. Len(f.headers) : EncodedHeader(f.headers[k]) \in Seq(Nat)
    BY <2>1, EncodedHeaderType
  <2> QED
    BY <2>1, <2>2, IsASeq
<1>3. EncodedHeaders(f) = FlattenSeq(parts)
  BY DEF EncodedHeaders, EncodedHeader
<1> HIDE DEF parts
<1>4. EncodedHeaders(f) \in Seq(Nat)
  BY <1>2, <1>3, FlattenType
<1> DEFINE e == EncodedHeaders(f)
           p == f.payload
<1>5. Encoding(f) = <<2 + Len(e) + Len(p), Len(e)>> \o e \o p
  BY DEF Encoding
<1>6. e \in Seq(Nat) /\ p \in Seq(Nat)
  BY <1>1, <1>4
<1> HIDE DEF e, p
<1>7. Len(e) \in Nat /\ Len(p) \in Nat
  BY <1>6, LenProperties
<1> DEFINE ab == <<2 + Len(e) + Len(p), Len(e)>>
<1>8. ab \in Seq(Nat) /\ Len(ab) = 2
  BY <1>7
<1> HIDE DEF ab
<1>9. Encoding(f) \in Seq(Nat) /\ Len(Encoding(f)) = 2 + Len(e) + Len(p)
  BY <1>5, <1>6, <1>8, FourParts DEF ab
<1> QED
  BY <1>4, <1>9 DEF e, p

\* The units of all the frames.
LEMMA EncodedType ==
    ASSUME NEW frames \in Seq(FrameType)
    PROVE  Encoded(frames) \in Seq(Nat)
<1>1. [k \in 1 .. Len(frames) |-> Encoding(frames[k])] \in Seq(Seq(Nat))
  <2>1. Len(frames) \in Nat /\ \A k \in 1 .. Len(frames) : frames[k] \in FrameType
    BY ElementOfSeq
  <2>2. \A k \in 1 .. Len(frames) : Encoding(frames[k]) \in Seq(Nat)
    BY <2>1, EncodingType
  <2> QED
    BY <2>1, <2>2, IsASeq
<1> QED
  BY <1>1, FlattenType DEF Encoded

\* The upstream sends frames.
LEMMA SentType == FramingInit => sent \in Seq(FrameType)
<1> SUFFICES ASSUME FramingInit PROVE sent \in Seq(FrameType)
  OBVIOUS
<1>1. PICK n \in 0 .. MaxFrames : sent \in [1 .. n -> Frames]
  BY DEF FramingInit, SeqOf
<1>2. n \in Nat
  BY <1>1, SizeAssumption
<1>3. sent \in [1 .. n -> FrameType]
  BY <1>1, FramesAssumption
<1> QED
  BY <1>2, <1>3, SeqDef

-----------------------------------------------------------------------------
(* The state machine of the header parser.                                  *)
ParsedType == [kind: {"missing", "string", "raw"}, text: Seq(Nat)]
HeaderStateType ==
    [phase: {"name", "type", "size", "value", "failed"}, name: Names, type: Nat,
     size: Nat, value: Seq(Nat), parsed: [Names -> ParsedType]]

\* The state after a reset is a state of the header parser,
LEMMA FreshType == Fresh \in HeaderStateType
  BY DEF Fresh, Missing, Names, MessageTypeName, EventTypeName, Other, String,
         HeaderStateType, ParsedType

\* and what stores a value,
LEMMA StoreType == ASSUME NEW s \in HeaderStateType PROVE Store(s) \in HeaderStateType
<1> DEFINE v == [kind |-> IF s.type = String THEN "string" ELSE "raw", text |-> s.value]
           p == IF s.type = Number /\ s.size # 1 THEN s.parsed
                ELSE [s.parsed EXCEPT ![s.name] = v]
<1>1. v \in ParsedType
  BY DEF HeaderStateType, ParsedType
<1>2. Store(s) = [s EXCEPT !.phase = "name", !.parsed = p]
  BY DEF Store
<1> HIDE DEF v
<1>3. p \in [Names -> ParsedType]
  BY <1>1 DEF HeaderStateType
<1> HIDE DEF p
<1> QED
  BY <1>2, <1>3 DEF HeaderStateType

\* what reads a unit in one of the phases
LEMMA PhaseTypes ==
    ASSUME NEW t \in HeaderStateType, NEW u \in Nat
    PROVE  /\ ReadName(t, u) \in HeaderStateType
           /\ ReadType(t, u) \in HeaderStateType
           /\ ReadSize(t, u) \in HeaderStateType
           /\ ReadValue(t, u) \in HeaderStateType
<1>1. ReadName(t, u) \in HeaderStateType
  <2>1. (IF u < Other THEN u ELSE Other) \in Names \/ u = 0
    BY DEF Names, Other, MessageTypeName, EventTypeName
  <2>2. [t EXCEPT !.phase = "failed"] \in HeaderStateType
    BY DEF HeaderStateType
  <2>3. ASSUME NEW m \in Names
        PROVE  [t EXCEPT !.phase = "type", !.name = m] \in HeaderStateType
    BY DEF HeaderStateType
  <2> QED
    BY <2>1, <2>2, <2>3 DEF ReadName
<1>2. ReadType(t, u) \in HeaderStateType
  BY DEF ReadType, HeaderStateType
<1>3. ReadSize(t, u) \in HeaderStateType
  <2>1. ASSUME NEW v \in Seq(Nat)
        PROVE  [t EXCEPT !.phase = "value", !.size = u, !.value = v] \in HeaderStateType
    BY DEF HeaderStateType
  <2>2. <<>> \in Seq(Nat)
    OBVIOUS
  <2> QED
    BY <2>1, <2>2 DEF ReadSize
<1>4. ReadValue(t, u) \in HeaderStateType
  <2> DEFINE r == [t EXCEPT !.value = Append(@, u)]
  <2>1. r \in HeaderStateType
    <3>1. t.value \in Seq(Nat)
      BY DEF HeaderStateType
    <3>2. Append(t.value, u) \in Seq(Nat)
      BY <3>1, AppendProperties
    <3> QED
      BY <3>2 DEF HeaderStateType
  <2>2. ReadValue(t, u) = IF Len(r.value) = r.size THEN Store(r) ELSE r
    BY DEF ReadValue
  <2> HIDE DEF r
  <2> QED
    BY <2>1, <2>2, StoreType
<1> QED
  BY <1>1, <1>2, <1>3, <1>4

\* and what reads a unit in any phase leads from state to state.
LEMMA StepType ==
    ASSUME NEW s \in HeaderStateType, NEW u \in Nat
    PROVE  Read(s, u) \in HeaderStateType
<1> DEFINE t == IF s.phase = "value" /\ s.size = 0 THEN Store(s) ELSE s
<1>1. t \in HeaderStateType
  BY StoreType
<1>2. Read(s, u) = CASE t.phase = "name"  -> ReadName(t, u)
                     [] t.phase = "type"  -> ReadType(t, u)
                     [] t.phase = "size"  -> ReadSize(t, u)
                     [] t.phase = "value" -> ReadValue(t, u)
                     [] OTHER             -> t
  BY DEF Read
<1> HIDE DEF t
<1>3. /\ ReadName(t, u) \in HeaderStateType
      /\ ReadType(t, u) \in HeaderStateType
      /\ ReadSize(t, u) \in HeaderStateType
      /\ ReadValue(t, u) \in HeaderStateType
  BY <1>1, PhaseTypes
<1>4. t.phase \in {"name", "type", "size", "value", "failed"}
  BY <1>1 DEF HeaderStateType
<1> QED
  BY <1>1, <1>2, <1>3, <1>4

\* What each unit does to the state.
Reading(units) == [k \in 1 .. Len(units) |-> [s \in HeaderStateType |-> Read(s, units[k])]]

\* ParseHeaders is the recursion of Read along the data.
LEMMA ParseSteps ==
    ASSUME NEW s \in HeaderStateType, NEW units \in Seq(Nat)
    PROVE  \E g \in [0 .. Len(units) -> HeaderStateType] :
              /\ Recurs(g, Len(units), s, Reading(units))
              /\ ParseHeaders(s, units) = g[Len(units)]
<1> DEFINE n == Len(units)
           Body(g) == [k \in 0 .. n |-> IF k = 0 THEN s ELSE Read(g[k - 1], units[k])]
           after == CHOOSE g : g = Body(g)
<1>1. n \in Nat /\ \A k \in 1 .. n : units[k] \in Nat
  BY LenProperties, ElementOfSeq
<1>2. ParseHeaders(s, units) = after[n]
  BY DEF ParseHeaders
<1>3. Reading(units) \in [1 .. n -> [HeaderStateType -> HeaderStateType]]
  BY <1>1, StepType DEF Reading
<1> HIDE DEF after, Body, n
<1>4. PICK g \in [0 .. n -> HeaderStateType] : Recurs(g, n, s, Reading(units))
  BY <1>1, <1>3, Recursion
<1>5. ASSUME NEW k \in 1 .. n, NEW r \in HeaderStateType
      PROVE  Reading(units)[k][r] = Read(r, units[k])
  BY <1>5 DEF Reading, n
<1>6. g = Body(g)
  <2>1. ASSUME NEW k \in 0 .. n PROVE g[k] = IF k = 0 THEN s ELSE Read(g[k - 1], units[k])
    <3>1. CASE k = 0
      BY <1>4, <3>1 DEF Recurs
    <3>2. CASE k # 0
      <4>1. k \in 1 .. n /\ k - 1 \in 0 .. n
        BY <1>1, <3>2
      <4>2. g[k - 1] \in HeaderStateType
        BY <4>1
      <4>3. g[k] = Reading(units)[k][g[k - 1]]
        BY <1>4, <4>1 DEF Recurs
      <4> QED
        BY <1>5, <3>2, <4>1, <4>2, <4>3
    <3> QED
      BY <3>1, <3>2
  <2>2. g = [k \in 0 .. n |-> g[k]]
    OBVIOUS
  <2> QED
    BY <2>1, <2>2 DEF Body
<1>7. after = Body(after)
  BY <1>6 DEF after
<1>8. after[0] = s /\ \A k \in 1 .. n : after[k] = Read(after[k - 1], units[k])
  <2>1. \A k \in 0 .. n : after[k] = IF k = 0 THEN s ELSE Read(after[k - 1], units[k])
    BY <1>7 DEF Body
  <2>2. 0 \in 0 .. n /\ \A k \in 1 .. n : k \in 0 .. n /\ k # 0
    BY <1>1
  <2> QED
    BY <2>1, <2>2, Zenon
<1> DEFINE S == {m \in Nat : m <= n => after[m] = g[m]}
<1>9. 0 \in S
  BY <1>4, <1>8 DEF Recurs
<1>10. ASSUME NEW m \in Nat, m \in S PROVE m + 1 \in S
  <2>1. SUFFICES ASSUME m + 1 <= n PROVE after[m + 1] = g[m + 1]
    OBVIOUS
  <2>2. m + 1 \in 1 .. n /\ (m + 1) - 1 = m /\ m \in 0 .. n
    BY <1>1, <2>1
  <2>3. after[m] = g[m] /\ g[m] \in HeaderStateType
    BY <1>10, <2>1, <2>2
  <2>4. g[m + 1] = Reading(units)[m + 1][g[m]]
    BY <1>4, <2>2 DEF Recurs
  <2>5. after[m + 1] = Read(after[m], units[m + 1])
    BY <1>8, <2>2
  <2> QED
    BY <1>5, <2>2, <2>3, <2>4, <2>5
<1> HIDE DEF S
<1>11. n \in S
  BY <1>1, <1>9, <1>10, SetInduction
<1>12. after[n] = g[n]
  BY <1>1, <1>11 DEF S
<1> QED
  BY <1>2, <1>4, <1>12 DEF n

\* Parsing ends in a state.
LEMMA ParseType ==
    ASSUME NEW s \in HeaderStateType, NEW units \in Seq(Nat)
    PROVE  ParseHeaders(s, units) \in HeaderStateType
<1>1. PICK g \in [0 .. Len(units) -> HeaderStateType] : ParseHeaders(s, units) = g[Len(units)]
  BY ParseSteps
<1>2. Len(units) \in 0 .. Len(units)
  BY LenProperties
<1> QED
  BY <1>1, <1>2

\* No data changes nothing,
LEMMA ParseNone ==
    ASSUME NEW s \in HeaderStateType PROVE ParseHeaders(s, <<>>) = s
<1>1. <<>> \in Seq(Nat) /\ Len(<<>>) = 0
  OBVIOUS
<1>2. PICK g \in [0 .. Len(<<>>) -> HeaderStateType] :
         Recurs(g, Len(<<>>), s, Reading(<<>>)) /\ ParseHeaders(s, <<>>) = g[Len(<<>>)]
  BY <1>1, ParseSteps
<1> QED
  BY <1>1, <1>2 DEF Recurs

\* and parsing goes on where it stopped.
LEMMA ParseAppend ==
    ASSUME NEW s \in HeaderStateType, NEW units \in Seq(Nat), NEW u \in Nat
    PROVE  ParseHeaders(s, Append(units, u)) = Read(ParseHeaders(s, units), u)
<1> DEFINE more == Append(units, u)
           n == Len(units)
<1>1. /\ more \in Seq(Nat) /\ Len(more) = n + 1 /\ n \in Nat
      /\ more[n + 1] = u /\ \A k \in 1 .. n : more[k] = units[k]
  BY AppendProperties, LenProperties
<1> HIDE DEF more
<1>2. PICK g \in [0 .. n -> HeaderStateType] :
         Recurs(g, n, s, Reading(units)) /\ ParseHeaders(s, units) = g[n]
  BY ParseSteps
<1>3. PICK h \in [0 .. n + 1 -> HeaderStateType] :
         Recurs(h, n + 1, s, Reading(more)) /\ ParseHeaders(s, more) = h[n + 1]
  <2>1. Len(more) = n + 1
    BY <1>1
  <2> HIDE DEF n
  <2> QED
    BY <1>1, <2>1, ParseSteps
<1> HIDE DEF n
<1>4. Recurs(h, n, s, Reading(units))
  <2>1. h[0] = s
    BY <1>3 DEF Recurs
  <2>2. ASSUME NEW k \in 1 .. n PROVE h[k] = Reading(units)[k][h[k - 1]]
    <3>1. k \in 1 .. n + 1 /\ k \in 1 .. Len(more) /\ k - 1 \in 0 .. n + 1
      BY <1>1
    <3>2. h[k] = Reading(more)[k][h[k - 1]] /\ h[k - 1] \in HeaderStateType
      BY <1>3, <3>1 DEF Recurs
    <3>3. Reading(more)[k] = Reading(units)[k]
      BY <1>1, <3>1 DEF Reading, n
    <3> QED
      BY <3>2, <3>3
  <2> QED
    BY <2>1, <2>2 DEF Recurs
<1>5. g[n] = h[n]
  BY <1>1, <1>2, <1>4, RecursionUnique
<1>6. g[n] = h[n] /\ g[n] \in HeaderStateType
  BY <1>1, <1>2, <1>5
<1>7. h[n + 1] = Reading(more)[n + 1][h[n]]
  <2>1. n + 1 \in 1 .. n + 1 /\ (n + 1) - 1 = n
    BY <1>1
  <2> QED
    BY <1>3, <2>1 DEF Recurs
<1>8. Reading(more)[n + 1][h[n]] = Read(h[n], u)
  <2>1. n + 1 \in 1 .. Len(more)
    BY <1>1
  <2> QED
    BY <1>1, <1>6, <2>1 DEF Reading
<1> QED
  BY <1>2, <1>3, <1>6, <1>7, <1>8 DEF more

\* The message that is made of data has a type.
LEMMA MessageTyped ==
    ASSUME NEW units \in Seq(Nat), Len(units) >= 2, ~HeaderTooLong(units)
    PROVE  /\ HeaderData(units) \in Seq(Nat)
           /\ HeaderStateAfter(units) \in HeaderStateType
           /\ Message(units, HeaderStateAfter(units)) \in MessageType
<1>1. units[2] \in Nat /\ Len(units) \in Nat /\ 2 + units[2] <= Len(units)
  BY ElementOfSeq, LenProperties DEF HeaderTooLong, MinSize
<1>2. HeaderData(units) \in Seq(Nat) /\ Payload(units) \in Seq(Nat)
  BY <1>1 DEF HeaderData, Payload
<1>3. HeaderStateAfter(units) \in HeaderStateType
  BY <1>2, FreshType, ParseType DEF HeaderStateAfter
<1> DEFINE s == HeaderStateAfter(units)
           headers == HeadersOf(HeaderData(units), s)
<1>4. headers \in [Names -> ParsedType]
  <2>1. s.parsed \in [Names -> ParsedType]
    BY <1>3 DEF HeaderStateType
  <2>2. Default \in ParsedType
    BY DEF Default, ParsedType
  <2> HIDE DEF s
  <2> QED
    BY <2>1, <2>2 DEF HeadersOf
<1>5. Message(units, s) = [type |-> MessageTypeOf(headers), event |-> EventTypeOf(headers),
                          payload |-> Payload(units)]
  BY DEF Message
<1> HIDE DEF s, headers
<1>6. headers[MessageTypeName] \in ParsedType /\ headers[EventTypeName] \in ParsedType
  BY <1>4 DEF Names
<1>7. Default.text \in Seq(Nat) /\ <<>> \in Seq(Nat)
  BY DEF Default
<1>8. MessageTypeOf(headers) \in Seq(Nat) /\ EventTypeOf(headers) \in Seq(Nat)
  BY <1>6, <1>7 DEF MessageTypeOf, EventTypeOf, ParsedType
<1> QED
  BY <1>2, <1>3, <1>5, <1>8 DEF MessageType, s

-----------------------------------------------------------------------------
(* One parse of the first n units of a body b.                              *)
Piece(b, p) == SubSeq(b, p + 1, p + b[p + 1])

\* What ParsedFrom looks at, and that it looks ahead only.
LEMMA ParsedCases ==
    ASSUME NEW b \in Seq(Nat), NEW n \in 0 .. Len(b), NEW p \in 0 .. n, NEW later
    PROVE  /\ n - p < 2 => ParsedFrom(b, n, p, later) = <<>>
           /\ n - p >= 2 =>
                /\ b[p + 1] \in Nat
                /\ LengthInvalid(b[p + 1]) =>
                      p + 1 \in 0 .. n /\ ParsedFrom(b, n, p, later) = later[p + 1]
                /\ ~LengthInvalid(b[p + 1]) /\ n - p < b[p + 1] =>
                      ParsedFrom(b, n, p, later) = <<>>
                /\ ~LengthInvalid(b[p + 1]) /\ n - p >= b[p + 1] =>
                      /\ p + b[p + 1] \in 0 .. n /\ p < p + b[p + 1]
                      /\ HeaderTooLong(Piece(b, p)) =>
                            ParsedFrom(b, n, p, later) = later[p + b[p + 1]]
                      /\ ~HeaderTooLong(Piece(b, p)) =>
                            /\ Message(Piece(b, p), HeaderStateAfter(Piece(b, p))) \in MessageType
                            /\ ParsedFrom(b, n, p, later) =
                                  <<Message(Piece(b, p), HeaderStateAfter(Piece(b, p)))>>
                                  \o later[p + b[p + 1]]
<1>1. Len(b) \in Nat
  BY LenProperties
<1>2. CASE n - p < 2
  BY <1>1, <1>2 DEF ParsedFrom, MinSize
<1>3. CASE n - p >= 2
  <2> DEFINE total == b[p + 1]
             units == Piece(b, p)
  <2>1. ~(n - p < MinSize) /\ ~(n - p < 2)
    BY <1>1, <1>3 DEF MinSize
  <2>2. p + 1 \in 1 .. Len(b) /\ p + 1 \in 0 .. n
    BY <1>1, <1>3
  <2>3. total \in Nat
    BY <2>2, ElementOfSeq
  <2> HIDE DEF total
  <2>4. ParsedFrom(b, n, p, later) =
           IF LengthInvalid(total) THEN later[p + 1]
           ELSE IF n - p < total THEN <<>>
           ELSE IF HeaderTooLong(units) THEN later[p + total]
           ELSE <<Message(units, HeaderStateAfter(units))>> \o later[p + total]
    BY <2>1 DEF ParsedFrom, LengthInvalid, HeaderStateAfter, Piece, total
  <2> HIDE DEF units
  <2>5. CASE LengthInvalid(total)
    BY <1>3, <2>1, <2>2, <2>3, <2>4, <2>5 DEF total
  <2>6. CASE ~LengthInvalid(total) /\ n - p < total
    <3>1. ~(n - p >= total)
      BY <1>1, <2>3, <2>6
    <3> QED
      BY <1>3, <2>1, <2>3, <2>4, <2>6, <3>1 DEF total
  <2>7. CASE ~LengthInvalid(total) /\ ~(n - p < total)
    <3>1. p + total \in 0 .. n /\ p < p + total /\ total >= 2 /\ p + total <= Len(b)
      BY <1>1, <2>3, <2>7 DEF LengthInvalid, MinSize
    <3>2. units \in Seq(Nat) /\ Len(units) = total
      <4>1. units = SubSeq(b, p + 1, p + total)
        BY DEF units, Piece, total
      <4>2. SubSeq(b, p + 1, p + total) \in Seq(Nat)
        BY <1>1, <2>3, <3>1
      <4>3. Len(SubSeq(b, p + 1, p + total)) = total
        BY <1>1, <2>3, <3>1
      <4> QED
        BY <4>1, <4>2, <4>3
    <3>3. ~HeaderTooLong(units) => Message(units, HeaderStateAfter(units)) \in MessageType
      BY <3>1, <3>2, MessageTyped
    <3> QED
      BY <1>3, <2>1, <2>3, <2>4, <2>7, <3>1, <3>3 DEF total, units
  <2> QED
    BY <2>5, <2>6, <2>7
<1> QED
  BY <1>1, <1>2, <1>3

\* A message that has arrived whole.
LEMMA ParsedWhole ==
    ASSUME NEW b \in Seq(Nat), NEW n \in 0 .. Len(b), NEW p \in 0 .. n, NEW later,
           n - p >= 2, ~LengthInvalid(b[p + 1]), n - p >= b[p + 1]
    PROVE  /\ HeaderTooLong(Piece(b, p)) =>
                 ParsedFrom(b, n, p, later) = later[p + b[p + 1]]
           /\ ~HeaderTooLong(Piece(b, p)) =>
                 /\ Message(Piece(b, p), HeaderStateAfter(Piece(b, p))) \in MessageType
                 /\ ParsedFrom(b, n, p, later) =
                       <<Message(Piece(b, p), HeaderStateAfter(Piece(b, p)))>>
                       \o later[p + b[p + 1]]
  BY ParsedCases

\* What is returned from a position on depends on the later positions only.
LEMMA ParsedLocal ==
    ASSUME NEW b \in Seq(Nat), NEW n \in 0 .. Len(b), NEW p \in 0 .. n, NEW f, NEW g,
           \A q \in 0 .. n : (p < q => f[q] = g[q])
    PROVE  ParsedFrom(b, n, p, f) = ParsedFrom(b, n, p, g)
<1>1. n \in Nat /\ p \in Nat
  BY LenProperties
<1> DEFINE total == b[p + 1]
           m == Message(Piece(b, p), HeaderStateAfter(Piece(b, p)))
<1>2. CASE n - p < 2
  <2>1. ParsedFrom(b, n, p, f) = <<>>
    BY <1>2, ParsedCases
  <2>2. ParsedFrom(b, n, p, g) = <<>>
    BY <1>2, ParsedCases
  <2> QED
    BY <2>1, <2>2
<1>3. CASE n - p >= 2 /\ LengthInvalid(total)
  <2>1. p + 1 \in 0 .. n /\ ParsedFrom(b, n, p, f) = f[p + 1]
    BY <1>3, ParsedCases
  <2>2. ParsedFrom(b, n, p, g) = g[p + 1]
    BY <1>3, ParsedCases
  <2>3. p < p + 1
    BY <1>1
  <2> QED
    BY <2>1, <2>2, <2>3
<1>4. CASE n - p >= 2 /\ ~LengthInvalid(total) /\ n - p < total
  <2>1. ParsedFrom(b, n, p, f) = <<>>
    BY <1>4, ParsedCases
  <2>2. ParsedFrom(b, n, p, g) = <<>>
    BY <1>4, ParsedCases
  <2> QED
    BY <2>1, <2>2
<1>5. CASE n - p >= 2 /\ ~LengthInvalid(total) /\ n - p >= total
  <2>1. p + total \in 0 .. n /\ p < p + total
    BY <1>5, ParsedCases
  <2>2. f[p + total] = g[p + total]
    BY <2>1
  <2>3. CASE HeaderTooLong(Piece(b, p))
    <3>1. ParsedFrom(b, n, p, f) = f[p + total]
      BY <1>5, <2>3, ParsedWhole
    <3>2. ParsedFrom(b, n, p, g) = g[p + total]
      BY <1>5, <2>3, ParsedWhole
    <3> QED
      BY <2>2, <3>1, <3>2
  <2>4. CASE ~HeaderTooLong(Piece(b, p))
    <3>1. ParsedFrom(b, n, p, f) = <<m>> \o f[p + total]
      BY <1>5, <2>4, ParsedWhole
    <3>2. ParsedFrom(b, n, p, g) = <<m>> \o g[p + total]
      BY <1>5, <2>4, ParsedWhole
    <3> QED
      BY <2>2, <3>1, <3>2
  <2> QED
    BY <2>3, <2>4
<1>6. n - p >= 2 => total \in Nat
  BY ParsedCases
<1> QED
  BY <1>1, <1>2, <1>3, <1>4, <1>5, <1>6

\* What is returned from a position on are messages.
LEMMA ParsedFromType ==
    ASSUME NEW b \in Seq(Nat), NEW n \in 0 .. Len(b), NEW p \in 0 .. n, NEW f,
           \A q \in 0 .. n : (p < q => f[q] \in Seq(MessageType))
    PROVE  ParsedFrom(b, n, p, f) \in Seq(MessageType)
<1>1. n \in Nat /\ p \in Nat
  BY LenProperties
<1> DEFINE total == b[p + 1]
           m == Message(Piece(b, p), HeaderStateAfter(Piece(b, p)))
<1>2. <<>> \in Seq(MessageType)
  OBVIOUS
<1>3. CASE n - p < 2
  <2>1. ParsedFrom(b, n, p, f) = <<>>
    BY <1>3, ParsedCases
  <2> QED
    BY <1>2, <2>1
<1>4. CASE n - p >= 2 /\ ~LengthInvalid(total) /\ n - p < total
  <2>1. ParsedFrom(b, n, p, f) = <<>>
    BY <1>4, ParsedCases
  <2> QED
    BY <1>2, <2>1
<1>5. CASE n - p >= 2 /\ LengthInvalid(total)
  <2>1. p + 1 \in 0 .. n /\ ParsedFrom(b, n, p, f) = f[p + 1]
    BY <1>5, ParsedCases
  <2>2. p < p + 1
    BY <1>1
  <2> QED
    BY <2>1, <2>2
<1>6. CASE n - p >= 2 /\ ~LengthInvalid(total) /\ n - p >= total
  <2>1. p + total \in 0 .. n /\ p < p + total
    BY <1>6, ParsedCases
  <2>2. f[p + total] \in Seq(MessageType)
    BY <2>1
  <2>3. CASE HeaderTooLong(Piece(b, p))
    BY <1>6, <2>2, <2>3, ParsedWhole
  <2>4. CASE ~HeaderTooLong(Piece(b, p))
    <3>1. m \in MessageType /\ ParsedFrom(b, n, p, f) = <<m>> \o f[p + total]
      BY <1>6, <2>4, ParsedWhole
    <3> HIDE DEF m
    <3>2. <<m>> \in Seq(MessageType)
      BY <3>1
    <3> QED
      BY <2>2, <3>1, <3>2, ConcatProperties
  <2> QED
    BY <2>3, <2>4
<1>7. n - p >= 2 => total \in Nat
  BY ParsedCases
<1> QED
  BY <1>1, <1>3, <1>5, <1>6, <1>7, <1>4

\* The recursion from the end of the body has a solution, so the parse is one.
LEMMA ParsedEquation ==
    ASSUME NEW b \in Seq(Nat), NEW n \in 0 .. Len(b)
    PROVE  /\ \A p \in 0 .. n :
                 ParsedAtOnce(b, n)[p] = ParsedFrom(b, n, p, ParsedAtOnce(b, n))
           /\ \A p \in 0 .. n : ParsedAtOnce(b, n)[p] \in Seq(MessageType)
<1> DEFINE Body(g) == [p \in 0 .. n |-> ParsedFrom(b, n, p, g)]
           from == CHOOSE g : g = Body(g)
           Solves(g, k) == \A p \in 0 .. n : n - p <= k => g[p] = ParsedFrom(b, n, p, g)
           S == {k \in Nat : \E g : Solves(g, k)}
<1>1. n \in Nat
  BY LenProperties
<1>2. ParsedAtOnce(b, n) = from
  BY DEF ParsedAtOnce
<1> HIDE DEF from
<1>3. ASSUME NEW k \in Int, NEW g, Solves(g, k) PROVE \E h : Solves(h, k + 1)
  <2> DEFINE h == [p \in 0 .. n |-> IF n - p <= k THEN g[p] ELSE ParsedFrom(b, n, p, g)]
  <2>1. ASSUME NEW p \in 0 .. n, n - p <= k + 1 PROVE h[p] = ParsedFrom(b, n, p, h)
    <3>1. h[p] = ParsedFrom(b, n, p, g)
      BY <1>3
    <3>2. \A q \in 0 .. n : (p < q => h[q] = g[q])
      BY <1>1, <2>1
    <3> HIDE DEF h
    <3>3. ParsedFrom(b, n, p, h) = ParsedFrom(b, n, p, g)
      BY <3>2, ParsedLocal
    <3> QED
      BY <3>1, <3>3
  <2> HIDE DEF h
  <2>2. Solves(h, k + 1)
    BY <2>1
  <2> HIDE DEF Solves
  <2> QED
    BY <2>2
<1>4. 0 \in S
  <2>1. Solves(<<>>, -1)
    BY <1>1
  <2> HIDE DEF Solves
  <2>2. \E h : Solves(h, (-1) + 1)
    BY <1>3, <2>1
  <2>3. (-1) + 1 = 0
    OBVIOUS
  <2> QED
    BY <2>2, <2>3
<1>5. ASSUME NEW k \in Nat, k \in S PROVE k + 1 \in S
  <2> HIDE DEF Solves
  <2>1. PICK g : Solves(g, k)
    BY <1>5
  <2> QED
    BY <1>3, <2>1
<1> HIDE DEF S
<1>6. n \in S
  BY <1>1, <1>4, <1>5, SetInduction
<1>7. PICK g : \A p \in 0 .. n : n - p <= n => g[p] = ParsedFrom(b, n, p, g)
  BY <1>6 DEF S
<1> DEFINE h == [p \in 0 .. n |-> g[p]]
<1>8. h = Body(h)
  <2>1. ASSUME NEW p \in 0 .. n PROVE h[p] = ParsedFrom(b, n, p, h)
    <3>1. h[p] = ParsedFrom(b, n, p, g)
      BY <1>1, <1>7
    <3>2. \A q \in 0 .. n : (p < q => h[q] = g[q])
      OBVIOUS
    <3> HIDE DEF h
    <3>3. ParsedFrom(b, n, p, h) = ParsedFrom(b, n, p, g)
      BY <3>2, ParsedLocal
    <3> QED
      BY <3>1, <3>3
  <2>2. h = [p \in 0 .. n |-> h[p]]
    OBVIOUS
  <2> HIDE DEF h
  <2> QED
    BY <2>1, <2>2
<1>9. from = Body(from)
  <2> HIDE DEF h, Body
  <2> QED
    BY <1>8 DEF from
<1>10. \A p \in 0 .. n : from[p] = ParsedFrom(b, n, p, from)
  BY <1>9
<1> DEFINE Typed(k) == \A p \in 0 .. n : n - p <= k => from[p] \in Seq(MessageType)
           T == {k \in Nat : Typed(k)}
<1>11. ASSUME NEW k \in Int, Typed(k) PROVE Typed(k + 1)
  <2> SUFFICES ASSUME NEW p \in 0 .. n, n - p <= k + 1 PROVE from[p] \in Seq(MessageType)
    OBVIOUS
  <2>1. \A q \in 0 .. n : (p < q => from[q] \in Seq(MessageType))
    BY <1>1, <1>11
  <2>2. ParsedFrom(b, n, p, from) \in Seq(MessageType)
    BY <2>1, ParsedFromType
  <2> QED
    BY <1>10, <2>2
<1>12. 0 \in T
  <2>1. Typed(-1)
    BY <1>1
  <2> HIDE DEF Typed
  <2>2. Typed((-1) + 1)
    BY <1>11, <2>1
  <2>3. (-1) + 1 = 0
    OBVIOUS
  <2> QED
    BY <2>2, <2>3
<1>13. ASSUME NEW k \in Nat, k \in T PROVE k + 1 \in T
  <2> HIDE DEF Typed
  <2> QED
    BY <1>11, <1>13
<1> HIDE DEF T
<1>14. n \in T
  BY <1>1, <1>12, <1>13, SetInduction
<1>15. \A p \in 0 .. n : from[p] \in Seq(MessageType)
  BY <1>1, <1>14 DEF T
<1> QED
  BY <1>2, <1>10, <1>15

-----------------------------------------------------------------------------
(* The buffer of the event-stream parser stays below the longest message,   *)
(* for every body the upstream may send and every way it may be damaged and *)
(* cut into chunks.                                                         *)
\* What the loop relies on: the buffer is a piece of a body of numbers.
BufferShape ==
    /\ body \in Seq(Nat)
    /\ received \in 0 .. Len(body)
    /\ read \in 0 .. received
    /\ parsing \in BOOLEAN

BufferInv == BufferShape /\ BufferBounded

\* A body damaged in one place is still a body of numbers.
LEMMA InitBuffer == FramingInit => BufferInv
<1> SUFFICES ASSUME FramingInit PROVE BufferInv
  OBVIOUS
<1>1. Encoded(sent) \in Seq(Nat)
  BY EncodedType, SentType
<1>2. body \in Seq(Nat)
  <2>1. CASE body = Encoded(sent)
    BY <1>1, <2>1
  <2>2. ASSUME NEW u \in Units, damaged \in 1 .. Len(Encoded(sent)),
               body = [Encoded(sent) EXCEPT ![damaged] = u]
        PROVE  body \in Seq(Nat)
    BY <1>1, <2>2, SizeAssumption, ExceptSeq
  <2> QED
    BY <2>1, <2>2 DEF FramingInit
<1>3. Len(body) \in Nat
  BY <1>2
<1>4. 2 <= MaxSize
  BY SizeAssumption DEF MinSize
<1>5. received = 0 /\ read = 0 /\ parsing \in BOOLEAN
  BY DEF FramingInit
<1>6. BufferShape
  <2>1. received \in 0 .. Len(body) /\ read \in 0 .. received
    BY <1>3, <1>5
  <2> QED
    BY <1>2, <1>5, <2>1, Zenon DEF BufferShape
<1>7. BufferBounded
  BY <1>4, <1>5, SizeAssumption DEF BufferBounded, Available
<1> QED
  BY <1>6, <1>7 DEF BufferInv

\* Each step moves one of the two positions, within the body.
LEMMA NextBuffer == BufferInv /\ [FramingNext]_framingVars => BufferInv'
<1> SUFFICES ASSUME BufferInv, [FramingNext]_framingVars PROVE BufferInv'
  OBVIOUS
<1>1. /\ body \in Seq(Nat) /\ Len(body) \in Nat
      /\ received \in 0 .. Len(body) /\ read \in 0 .. received
      /\ parsing \in BOOLEAN
  BY DEF BufferInv, BufferShape
<1>2. ~parsing => Available < MaxSize
  BY DEF BufferInv, BufferBounded
<1>3. MaxSize \in Nat /\ MinSize = 2 /\ 2 <= MaxSize
  BY SizeAssumption DEF MinSize
<1>4. Available >= 1 => TotalLength \in Nat
  <2> SUFFICES ASSUME Available >= 1 PROVE TotalLength \in Nat
    OBVIOUS
  <2>1. read + 1 \in 1 .. Len(body)
    BY <1>1 DEF Available
  <2> QED
    BY <1>1, <2>1, ElementOfSeq DEF TotalLength
<1>5. ASSUME NEW n \in 1 .. Len(body), ParseStream(n) PROVE BufferInv'
  BY <1>1, <1>5 DEF ParseStream, BufferInv, BufferShape, BufferBounded, Available
<1>6. CASE SkipInvalid
  BY <1>1, <1>3, <1>6 DEF SkipInvalid, BufferInv, BufferShape, BufferBounded, Available
<1>7. CASE WaitForMore
  <2>1. Available < MaxSize
    <3>1. CASE Available < MinSize
      BY <1>1, <1>3, <3>1 DEF Available
    <3>2. CASE Available >= MinSize /\ ~LengthInvalid(TotalLength) /\ Available < TotalLength
      BY <1>1, <1>3, <1>4, <3>2 DEF Available, LengthInvalid
    <3> QED
      BY <1>7, <3>1, <3>2 DEF WaitForMore
  <2>2. UNCHANGED <<body, received, read>> /\ parsing' = FALSE
    BY <1>7 DEF WaitForMore
  <2> QED
    BY <1>1, <2>1, <2>2 DEF BufferInv, BufferShape, BufferBounded, Available
<1>8. CASE TakeMessage
  <2>1. Available >= MinSize /\ Available >= TotalLength /\ TotalLength \in Nat
    BY <1>1, <1>3, <1>4, <1>8 DEF TakeMessage, Available
  <2>2. /\ read' = read + TotalLength /\ parsing
        /\ UNCHANGED <<body, received, parsing>>
    BY <1>8 DEF TakeMessage
  <2> QED
    BY <1>1, <2>1, <2>2 DEF BufferInv, BufferShape, BufferBounded, Available
<1>9. CASE UNCHANGED framingVars
  BY <1>1, <1>2, <1>9 DEF framingVars, BufferInv, BufferShape, BufferBounded, Available
<1> QED
  BY <1>5, <1>6, <1>7, <1>8, <1>9 DEF FramingNext

\* Between two calls the buffer holds less than the longest message allowed
\* (robust_parser.go:376-389): no body makes it grow.
THEOREM BufferBoundedHolds == FramingSpec => []BufferBounded
<1>1. BufferInv => BufferBounded
  BY DEF BufferInv
<1> QED
  BY InitBuffer, NextBuffer, <1>1, PTL DEF FramingSpec

-----------------------------------------------------------------------------
(* The types of the parser, and what the header parser is left in: a        *)
(* message whose headers fail leaves nothing for the next one.              *)
FramingTypeInv ==
    /\ damaged \in 0 .. Len(body)
    /\ headerState \in HeaderStateType /\ headerState.phase # "failed"
    /\ messages \in Seq(MessageType)
    /\ errorCount \in Nat

\* What is kept has not failed.
LEMMA KeptType ==
    ASSUME NEW s \in HeaderStateType
    PROVE  Kept(s) \in HeaderStateType /\ Kept(s).phase # "failed"
<1>1. Fresh.phase # "failed"
  BY DEF Fresh
<1> QED
  BY <1>1, FreshType DEF Kept

\* Damage changes one unit of the body, not its length.
LEMMA InitFramingType == FramingInit => FramingTypeInv
<1> SUFFICES ASSUME FramingInit PROVE FramingTypeInv
  OBVIOUS
<1>1. Encoded(sent) \in Seq(Nat) /\ Len(Encoded(sent)) \in Nat
  BY EncodedType, SentType, LenProperties
<1>2. damaged \in 0 .. Len(body)
  <2>1. CASE damaged = 0 /\ body = Encoded(sent)
    BY <1>1, <2>1
  <2>2. ASSUME NEW u \in Units, damaged \in 1 .. Len(Encoded(sent)),
               body = [Encoded(sent) EXCEPT ![damaged] = u]
        PROVE  damaged \in 0 .. Len(body)
    <3>1. Len(body) = Len(Encoded(sent))
      BY <1>1, <2>2, SizeAssumption, ExceptSeq
    <3> QED
      BY <1>1, <2>2, <3>1
  <2> QED
    BY <2>1, <2>2 DEF FramingInit
<1>3. headerState \in HeaderStateType /\ headerState.phase # "failed"
  <2>1. headerState = Fresh /\ Fresh.phase # "failed"
    BY DEF FramingInit, Fresh
  <2> QED
    BY <2>1, FreshType
<1>4. messages \in Seq(MessageType) /\ errorCount \in Nat
  BY DEF FramingInit
<1> QED
  BY <1>2, <1>3, <1>4 DEF FramingTypeInv

\* The message that is taken from the buffer has at least two units.
LEMMA TakenData ==
    ASSUME BufferShape, TakeMessage
    PROVE  /\ TotalLength \in Nat /\ TotalLength >= 2
           /\ Piece(body, read) \in Seq(Nat)
           /\ Len(Piece(body, read)) = TotalLength
<1>1. /\ body \in Seq(Nat) /\ Len(body) \in Nat
      /\ received \in 0 .. Len(body) /\ read \in 0 .. received
  BY LenProperties DEF BufferShape
<1>2. Available >= 2 /\ ~LengthInvalid(TotalLength) /\ Available >= TotalLength
  BY DEF TakeMessage, MinSize
<1>3. read + 1 \in 1 .. Len(body)
  BY <1>1, <1>2 DEF Available
<1>4. TotalLength \in Nat
  BY <1>1, <1>3, ElementOfSeq DEF TotalLength
<1>5. TotalLength >= 2 /\ read + TotalLength <= Len(body)
  BY <1>1, <1>2, <1>4, SizeAssumption DEF LengthInvalid, MinSize, Available
<1>6. Piece(body, read) = SubSeq(body, read + 1, read + TotalLength)
  BY DEF Piece, TotalLength
<1> HIDE DEF TotalLength
<1> QED
  BY <1>1, <1>4, <1>5, <1>6

\* A message sets the state to what is kept of it, and an error clears it.
LEMMA NextFramingType ==
    BufferInv /\ FramingTypeInv /\ [FramingNext]_framingVars => FramingTypeInv'
<1> SUFFICES ASSUME BufferInv, FramingTypeInv, [FramingNext]_framingVars
             PROVE  FramingTypeInv'
  OBVIOUS
<1>1. BufferShape
  BY DEF BufferInv
<1>2. ASSUME NEW n \in 1 .. Len(body), ParseStream(n) PROVE FramingTypeInv'
  BY <1>2 DEF ParseStream, FramingTypeInv
<1>3. CASE SkipInvalid
  BY <1>3 DEF SkipInvalid, FramingTypeInv
<1>4. CASE WaitForMore
  BY <1>4 DEF WaitForMore, FramingTypeInv
<1>5. CASE TakeMessage
  <2> DEFINE units == Piece(body, read)
             s == HeaderStateAfter(units)
  <2>1. units \in Seq(Nat) /\ Len(units) >= 2
    BY <1>1, <1>5, TakenData
  <2>2. /\ UNCHANGED <<body, damaged>>
        /\ \/ /\ HeaderTooLong(units) /\ headerState' = Fresh
              /\ errorCount' = errorCount + 1 /\ UNCHANGED messages
           \/ /\ ~HeaderTooLong(units) /\ headerState' = Kept(s)
              /\ messages' = Append(messages, Message(units, s)) /\ UNCHANGED errorCount
    BY <1>5 DEF TakeMessage, Piece, TotalLength
  <2> HIDE DEF units
  <2>3. CASE HeaderTooLong(units) /\ headerState' = Fresh /\ UNCHANGED messages
             /\ errorCount' = errorCount + 1
    <3>1. Fresh.phase # "failed"
      BY DEF Fresh
    <3> QED
      BY <2>2, <2>3, <3>1, FreshType DEF FramingTypeInv
  <2>4. CASE /\ ~HeaderTooLong(units) /\ headerState' = Kept(s) /\ UNCHANGED errorCount
             /\ messages' = Append(messages, Message(units, s))
    <3>1. s \in HeaderStateType /\ Message(units, s) \in MessageType
      BY <2>1, <2>4, MessageTyped
    <3> HIDE DEF s
    <3>2. headerState' \in HeaderStateType /\ headerState'.phase # "failed"
      BY <2>4, <3>1, KeptType
    <3>3. messages' \in Seq(MessageType)
      BY <2>4, <3>1, AppendProperties DEF FramingTypeInv
    <3> QED
      BY <2>2, <2>4, <3>2, <3>3 DEF FramingTypeInv
  <2> QED
    BY <2>2, <2>3, <2>4
<1>6. CASE UNCHANGED framingVars
  BY <1>6 DEF framingVars, FramingTypeInv
<1> QED
  BY <1>2, <1>3, <1>4, <1>5, <1>6 DEF FramingNext

\* The positions stay in the body, the messages are messages, and no message
\* finds the header parser in an error (robust_parser.go:170-187).
THEOREM FramingTypeCorrect == FramingSpec => []FramingTypeOK
<1>1. BufferInv /\ FramingTypeInv => FramingTypeOK
  BY DEF BufferInv, BufferShape, FramingTypeInv, FramingTypeOK, HeaderStateType
<1> QED
  BY InitBuffer, NextBuffer, InitFramingType, NextFramingType, <1>1, PTL DEF FramingSpec

-----------------------------------------------------------------------------
(* Where the network cuts the body makes no difference.                     *)
\* The loop has nothing more to do with what has been received.
Exhausted ==
    \/ Available < 2
    \/ Available >= 2 /\ ~LengthInvalid(TotalLength) /\ Available < TotalLength

\* However much more of the body will be received, one parse of it returns the
\* messages returned so far, followed by what it finds from here on.
ChunkInv ==
    /\ messages \in Seq(MessageType)
    /\ \A n \in received .. Len(body) :
          ParsedAtOnce(body, n)[0] = messages \o ParsedAtOnce(body, n)[read]
    /\ ~parsing => Exhausted

\* Nothing was taken from the buffer yet.
LEMMA InitChunk == FramingInit => ChunkInv
<1> SUFFICES ASSUME FramingInit PROVE ChunkInv
  OBVIOUS
<1>1. messages = <<>> /\ read = 0 /\ received = 0
  BY DEF FramingInit
<1>2. body \in Seq(Nat) /\ Len(body) \in Nat
  BY InitBuffer, LenProperties DEF BufferInv, BufferShape
<1>3. ASSUME NEW n \in received .. Len(body)
      PROVE  ParsedAtOnce(body, n)[0] = messages \o ParsedAtOnce(body, n)[read]
  <2>1. n \in 0 .. Len(body) /\ 0 \in 0 .. n
    BY <1>1, <1>2
  <2>2. ParsedAtOnce(body, n)[0] \in Seq(MessageType)
    BY <1>2, <2>1, ParsedEquation
  <2> QED
    BY <1>1, <2>2, ConcatEmptySeq
<1>4. messages \in Seq(MessageType)
  BY <1>1
<1>5. Exhausted
  BY <1>1 DEF Exhausted, Available
<1> QED
  BY <1>3, <1>4, <1>5 DEF ChunkInv

\* A step takes from the buffer what one parse would find there.
LEMMA NextChunk == BufferInv /\ ChunkInv /\ [FramingNext]_framingVars => ChunkInv'
<1> SUFFICES ASSUME BufferInv, ChunkInv, [FramingNext]_framingVars PROVE ChunkInv'
  OBVIOUS
<1>1. /\ body \in Seq(Nat) /\ Len(body) \in Nat
      /\ received \in 0 .. Len(body) /\ read \in 0 .. received
  BY LenProperties DEF BufferInv, BufferShape
<1>2. /\ messages \in Seq(MessageType)
      /\ \A n \in received .. Len(body) :
            ParsedAtOnce(body, n)[0] = messages \o ParsedAtOnce(body, n)[read]
      /\ ~parsing => Exhausted
  BY DEF ChunkInv
<1>3. ASSUME NEW k \in 1 .. Len(body), ParseStream(k) PROVE ChunkInv'
  <2>1. /\ received' = received + k /\ parsing' = TRUE
        /\ UNCHANGED <<body, read, messages>>
    BY <1>3 DEF ParseStream
  <2>2. \A n \in received' .. Len(body) : n \in received .. Len(body)
    BY <1>1, <2>1
  <2> QED
    BY <1>2, <2>1, <2>2 DEF ChunkInv
<1>4. CASE SkipInvalid
  <2>1. /\ read' = read + 1 /\ parsing /\ Available >= 2 /\ LengthInvalid(TotalLength)
        /\ UNCHANGED <<body, received, parsing, messages>>
    BY <1>4 DEF SkipInvalid, MinSize
  <2>2. ASSUME NEW n \in received .. Len(body)
        PROVE  ParsedAtOnce(body, n)[read] = ParsedAtOnce(body, n)[read + 1]
    <3>1. n \in 0 .. Len(body) /\ read \in 0 .. n /\ n - read >= 2
      BY <1>1, <2>1 DEF Available
    <3>2. ParsedFrom(body, n, read, ParsedAtOnce(body, n)) = ParsedAtOnce(body, n)[read + 1]
      BY <1>1, <2>1, <3>1, ParsedCases DEF TotalLength
    <3> QED
      BY <1>1, <3>1, <3>2, ParsedEquation
  <2> QED
    BY <1>2, <2>1, <2>2 DEF ChunkInv
<1>5. CASE WaitForMore
  <2>1. Exhausted /\ UNCHANGED <<body, received, read, messages>>
    BY <1>5 DEF WaitForMore, Exhausted, MinSize
  <2>2. Exhausted'
    BY <2>1 DEF Exhausted, Available, TotalLength
  <2> QED
    BY <1>2, <2>1, <2>2 DEF ChunkInv
<1>6. CASE TakeMessage
  <2> DEFINE units == SubSeq(body, read + 1, read + TotalLength)
             m == Message(units, HeaderStateAfter(units))
             rest(n) == ParsedAtOnce(body, n)[read + TotalLength]
  <2>1. /\ read' = read + TotalLength /\ parsing
        /\ Available >= 2 /\ ~LengthInvalid(TotalLength) /\ Available >= TotalLength
        /\ UNCHANGED <<body, received, parsing>>
        /\ \/ HeaderTooLong(units) /\ UNCHANGED messages
           \/ ~HeaderTooLong(units) /\ messages' = Append(messages, m)
    BY <1>6 DEF TakeMessage, MinSize
  <2>2. units = Piece(body, read)
    BY DEF Piece, TotalLength
  <2> HIDE DEF units
  <2>3. ASSUME NEW n \in received .. Len(body)
        PROVE  /\ n \in 0 .. Len(body) /\ read \in 0 .. n /\ n - read >= 2
               /\ TotalLength \in Nat /\ n - read >= TotalLength
               /\ read + TotalLength \in 0 .. n
               /\ rest(n) \in Seq(MessageType)
    <3>1. n \in 0 .. Len(body) /\ read \in 0 .. n /\ n - read >= 2
      BY <1>1, <2>1 DEF Available
    <3>2. TotalLength \in Nat
      BY <1>1, <3>1, ParsedCases DEF TotalLength
    <3>3. n - read >= TotalLength
      BY <1>1, <2>1, <3>1, <3>2 DEF Available
    <3>4. read + TotalLength \in 0 .. n
      BY <1>1, <3>1, <3>2, <3>3
    <3>5. rest(n) \in Seq(MessageType)
      BY <1>1, <3>1, <3>4, ParsedEquation
    <3> QED
      BY <3>1, <3>2, <3>3, <3>4, <3>5
  <2>4. CASE HeaderTooLong(units) /\ UNCHANGED messages
    <3>1. ASSUME NEW n \in received .. Len(body)
          PROVE  ParsedAtOnce(body, n)[read] = rest(n)
      <4>1. ParsedFrom(body, n, read, ParsedAtOnce(body, n)) = rest(n)
        BY <1>1, <2>1, <2>2, <2>3, <2>4, ParsedWhole DEF TotalLength
      <4> QED
        BY <1>1, <2>3, <4>1, ParsedEquation
    <3> QED
      BY <1>2, <2>1, <2>4, <3>1 DEF ChunkInv
  <2>5. CASE ~HeaderTooLong(units) /\ messages' = Append(messages, m)
    <3>1. ASSUME NEW n \in received .. Len(body)
          PROVE  m \in MessageType /\ ParsedAtOnce(body, n)[read] = <<m>> \o rest(n)
      <4>1. /\ m \in MessageType
            /\ ParsedFrom(body, n, read, ParsedAtOnce(body, n)) = <<m>> \o rest(n)
        BY <1>1, <2>1, <2>2, <2>3, <2>5, ParsedWhole DEF TotalLength
      <4> QED
        BY <1>1, <2>3, <4>1, ParsedEquation
    <3>2. m \in MessageType
      <4>1. received \in received .. Len(body)
        BY <1>1
      <4> QED
        BY <3>1, <4>1
    <3> HIDE DEF m, rest
    <3>3. messages' \in Seq(MessageType) /\ messages' = messages \o <<m>>
      BY <1>2, <2>5, <3>2, AppendProperties, AppendIsConcat
    <3>4. ASSUME NEW n \in received .. Len(body)
          PROVE  ParsedAtOnce(body, n)[0] = messages' \o rest(n)
      <4>1. ParsedAtOnce(body, n)[0] = messages \o (<<m>> \o rest(n))
        BY <1>2, <3>1
      <4>2. <<m>> \in Seq(MessageType) /\ rest(n) \in Seq(MessageType)
        BY <2>3, <3>2
      <4>3. messages \o (<<m>> \o rest(n)) = (messages \o <<m>>) \o rest(n)
        BY <1>2, <4>2, ConcatAssociative
      <4> QED
        BY <3>3, <4>1, <4>3
    <3> QED
      BY <2>1, <3>3, <3>4 DEF ChunkInv, rest
  <2> QED
    BY <2>1, <2>4, <2>5
<1>7. CASE UNCHANGED framingVars
  <2>1. UNCHANGED <<body, received, read, parsing, messages>>
    BY <1>7 DEF framingVars
  <2>2. Exhausted' = Exhausted
    BY <2>1 DEF Exhausted, Available, TotalLength
  <2> QED
    BY <1>2, <2>1, <2>2 DEF ChunkInv
<1> QED
  BY <1>3, <1>4, <1>5, <1>6, <1>7 DEF FramingNext

\* Between two calls the messages returned are those of one parse of all that
\* was received, for every body and every way to cut it (robust_parser.go:349-416).
THEOREM ChunkingInvisibleHolds == FramingSpec => []ChunkingInvisible
<1>1. BufferInv /\ ChunkInv => ChunkingInvisible
  <2> SUFFICES ASSUME BufferInv, ChunkInv, ~parsing
               PROVE  messages = ParsedAtOnce(body, received)[0]
    BY DEF ChunkingInvisible
  <2>1. /\ body \in Seq(Nat) /\ Len(body) \in Nat
        /\ received \in 0 .. Len(body) /\ read \in 0 .. received
    BY LenProperties DEF BufferInv, BufferShape
  <2>2. received \in received .. Len(body)
    BY <2>1
  <2>3. ParsedAtOnce(body, received)[0] = messages \o ParsedAtOnce(body, received)[read]
    BY <2>2 DEF ChunkInv
  <2>4. Exhausted
    BY DEF ChunkInv
  <2>5. ParsedFrom(body, received, read, ParsedAtOnce(body, received)) = <<>>
    BY <2>1, <2>4, ParsedCases DEF Exhausted, Available, TotalLength
  <2>6. ParsedAtOnce(body, received)[read] = <<>>
    BY <2>1, <2>5, ParsedEquation
  <2>7. messages \o <<>> = messages
    BY ConcatEmptySeq DEF ChunkInv
  <2> QED
    BY <2>3, <2>6, <2>7
<1> QED
  BY InitBuffer, NextBuffer, InitChunk, NextChunk, <1>1, PTL DEF FramingSpec

-----------------------------------------------------------------------------
(* What the header parser makes of headers that come whole.                 *)
\* A sequence up to a place, and one element more.
LEMMA PrefixStep ==
    ASSUME NEW X, NEW d \in Seq(X), NEW i \in 0 .. Len(d) - 1
    PROVE  /\ SubSeq(d, 1, i) \in Seq(X) /\ d[i + 1] \in X
           /\ SubSeq(d, 1, i + 1) = Append(SubSeq(d, 1, i), d[i + 1])
<1>1. Len(d) \in Nat /\ i \in Nat /\ i + 1 \in 1 .. Len(d)
  BY LenProperties
<1>2. d[i + 1] \in X
  BY <1>1, ElementOfSeq
<1> DEFINE p == SubSeq(d, 1, i)
           q == SubSeq(d, 1, i + 1)
<1>3. p \in Seq(X) /\ Len(p) = i /\ \A k \in 1 .. i : p[k] = d[k]
  BY <1>1
<1>4. q \in Seq(X) /\ Len(q) = i + 1 /\ \A k \in 1 .. i + 1 : q[k] = d[k]
  BY <1>1
<1> HIDE DEF p, q
<1> DEFINE r == Append(p, d[i + 1])
<1>5. r \in Seq(X) /\ Len(r) = i + 1 /\ r[i + 1] = d[i + 1] /\ \A k \in 1 .. i : r[k] = p[k]
  BY <1>2, <1>3, AppendProperties
<1> HIDE DEF r
<1>6. \A k \in 1 .. i + 1 : q[k] = r[k]
  BY <1>1, <1>3, <1>4, <1>5
<1>7. q = r
  BY <1>4, <1>5, <1>6, SeqEqual
<1> QED
  BY <1>2, <1>3, <1>7 DEF p, q, r

\* Nothing of a sequence, and all of it.
LEMMA PrefixEnds ==
    ASSUME NEW X, NEW d \in Seq(X)
    PROVE  SubSeq(d, 1, 0) = <<>> /\ SubSeq(d, 1, Len(d)) = d
<1>1. Len(d) \in Nat
  BY LenProperties
<1>2. SubSeq(d, 1, 0) = <<>>
  BY <1>1, EmptySeq
<1>3. /\ SubSeq(d, 1, Len(d)) \in Seq(X) /\ Len(SubSeq(d, 1, Len(d))) = Len(d)
      /\ \A k \in 1 .. Len(d) : SubSeq(d, 1, Len(d))[k] = d[k]
  BY <1>1
<1>4. SubSeq(d, 1, Len(d)) = d
  BY <1>3, SeqEqual
<1> QED
  BY <1>2, <1>4

\* Parsing goes on with whatever comes next.
LEMMA ParseConcat ==
    ASSUME NEW s \in HeaderStateType, NEW c \in Seq(Nat), NEW d \in Seq(Nat)
    PROVE  ParseHeaders(s, c \o d) = ParseHeaders(ParseHeaders(s, c), d)
<1> DEFINE r == ParseHeaders(s, c)
           S == {i \in Nat : i <= Len(d) =>
                    ParseHeaders(s, c \o SubSeq(d, 1, i)) = ParseHeaders(r, SubSeq(d, 1, i))}
<1>1. r \in HeaderStateType
  BY ParseType
<1>2. SubSeq(d, 1, 0) = <<>> /\ SubSeq(d, 1, Len(d)) = d /\ Len(d) \in Nat
  BY PrefixEnds, LenProperties
<1>3. 0 \in S
  <2>1. c \o <<>> = c
    BY ConcatEmptySeq
  <2>2. ParseHeaders(r, <<>>) = r
    BY <1>1, ParseNone
  <2> QED
    BY <1>2, <2>1, <2>2
<1> HIDE DEF r
<1>4. ASSUME NEW i \in Nat, i \in S PROVE i + 1 \in S
  <2>1. SUFFICES ASSUME i + 1 <= Len(d)
                 PROVE  ParseHeaders(s, c \o SubSeq(d, 1, i + 1))
                        = ParseHeaders(r, SubSeq(d, 1, i + 1))
    OBVIOUS
  <2> DEFINE p == SubSeq(d, 1, i)
             u == d[i + 1]
  <2>2. i \in 0 .. Len(d) - 1
    BY <1>2, <2>1
  <2>3. p \in Seq(Nat) /\ u \in Nat /\ SubSeq(d, 1, i + 1) = Append(p, u)
    BY <2>2, PrefixStep
  <2>4. ParseHeaders(s, c \o p) = ParseHeaders(r, p)
    BY <1>2, <1>4, <2>1, <2>2
  <2> HIDE DEF p, u
  <2>5. c \o p \in Seq(Nat)
    BY <2>3, ConcatProperties
  <2>6. c \o Append(p, u) = Append(c \o p, u)
    <3>1. Append(p, u) = p \o <<u>> /\ Append(c \o p, u) = (c \o p) \o <<u>>
      BY <2>3, <2>5, AppendIsConcat
    <3>2. c \o (p \o <<u>>) = (c \o p) \o <<u>>
      BY <2>3, ConcatAssociative
    <3> QED
      BY <3>1, <3>2
  <2>7. ParseHeaders(s, Append(c \o p, u)) = Read(ParseHeaders(s, c \o p), u)
    BY <2>3, <2>5, ParseAppend
  <2>8. ParseHeaders(r, Append(p, u)) = Read(ParseHeaders(r, p), u)
    BY <1>1, <2>3, ParseAppend
  <2> QED
    BY <2>3, <2>4, <2>6, <2>7, <2>8
<1> HIDE DEF S
<1>5. Len(d) \in S
  BY <1>2, <1>3, <1>4, SetInduction
<1>6. ParseHeaders(s, c \o SubSeq(d, 1, Len(d))) = ParseHeaders(r, SubSeq(d, 1, Len(d)))
  BY <1>2, <1>5 DEF S
<1> QED
  BY <1>2, <1>6 DEF r

\* The state between two headers: an empty value may be waiting to be stored.
Settled(s) == IF s.phase = "value" /\ s.size = 0 THEN Store(s) ELSE s

\* The name under which a header is kept.
NameRead(u) == IF u < Other THEN u ELSE Other

\* It is one of the names.
LEMMA NameReadType == ASSUME NEW u \in Nat \ {0} PROVE NameRead(u) \in Names
  BY DEF NameRead, Names, Other, MessageTypeName, EventTypeName

\* After the three units of the header h, in the state s.
Opened(s, h) == [s EXCEPT !.phase = "value", !.name = NameRead(h.name), !.type = h.type,
                          !.size = Len(h.value), !.value = <<>>]

\* The fields of the state after the three units.
LEMMA OpenedType ==
    ASSUME NEW s \in HeaderStateType, NEW h \in HeaderType
    PROVE  /\ Opened(s, h) \in HeaderStateType
           /\ Opened(s, h).phase = "value" /\ Opened(s, h).size = Len(h.value)
           /\ Opened(s, h).value = <<>> /\ Opened(s, h).type = h.type
           /\ Opened(s, h).name = NameRead(h.name) /\ Opened(s, h).parsed = s.parsed
<1>1. h.name \in Nat \ {0} /\ h.type \in Nat /\ Len(h.value) \in Nat
  BY LenProperties DEF HeaderType
<1>2. NameRead(h.name) \in Names /\ <<>> \in Seq(Nat)
  BY <1>1, NameReadType
<1> DEFINE n == NameRead(h.name)
           t == h.type
           k == Len(h.value)
           v == <<>>
           o == [s EXCEPT !.phase = "value", !.name = n, !.type = t, !.size = k, !.value = v]
<1>3. o = Opened(s, h)
  BY DEF Opened
<1>4. n \in Names /\ t \in Nat /\ k \in Nat /\ v \in Seq(Nat)
  BY <1>1, <1>2
<1> HIDE DEF n, t, k, v
<1>5. /\ o \in HeaderStateType
      /\ o.phase = "value" /\ o.size = k /\ o.value = v /\ o.type = t
      /\ o.name = n /\ o.parsed = s.parsed
  BY <1>4 DEF HeaderStateType
<1> HIDE DEF o
<1> QED
  BY <1>3, <1>5 DEF n, t, k, v

\* One unit in each phase: the name of the header,
LEMMA ReadNamePhase ==
    ASSUME NEW r \in HeaderStateType, Settled(r).phase = "name", NEW u \in Nat \ {0}
    PROVE  Read(r, u) = [Settled(r) EXCEPT !.phase = "type", !.name = NameRead(u)]
  BY DEF Read, Settled, ReadName, NameRead

\* its type,
LEMMA ReadTypePhase ==
    ASSUME NEW s \in HeaderStateType, s.phase = "type", NEW u \in Nat
    PROVE  Read(s, u) = [s EXCEPT !.phase = "size", !.type = u]
  BY DEF Read, ReadType

\* the size of its value
LEMMA ReadSizePhase ==
    ASSUME NEW s \in HeaderStateType, s.phase = "size", NEW u \in Nat
    PROVE  Read(s, u) = [s EXCEPT !.phase = "value", !.size = u, !.value = <<>>]
  BY DEF Read, ReadSize

\* and the units of the value, which is stored with the last one.
LEMMA ReadValuePhase ==
    ASSUME NEW s \in HeaderStateType, s.phase = "value", s.size # 0, NEW u \in Nat
    PROVE  Read(s, u) = LET t == [s EXCEPT !.value = Append(s.value, u)]
                        IN  IF Len(t.value) = t.size THEN Store(t) ELSE t
  BY DEF Read, ReadValue

\* The three units, read between two headers.
LEMMA ReadHead ==
    ASSUME NEW r \in HeaderStateType, Settled(r).phase = "name", NEW h \in HeaderType
    PROVE  ParseHeaders(r, <<h.name, h.type, Len(h.value)>>) = Opened(Settled(r), h)
<1> DEFINE s == Settled(r)
           a == [s EXCEPT !.phase = "type", !.name = NameRead(h.name)]
           b == [a EXCEPT !.phase = "size", !.type = h.type]
           c == [b EXCEPT !.phase = "value", !.size = Len(h.value), !.value = <<>>]
<1>1. h.name \in Nat \ {0} /\ h.type \in Nat /\ Len(h.value) \in Nat
  BY LenProperties DEF HeaderType
<1>2. s \in HeaderStateType
  BY StoreType DEF Settled
<1>3. NameRead(h.name) \in Names
  BY <1>1, NameReadType
<1>4. Read(r, h.name) = a
  BY <1>1, ReadNamePhase
<1> HIDE DEF s
<1>5. a \in HeaderStateType /\ a.phase = "type"
  BY <1>2, <1>3 DEF HeaderStateType
<1>6. c = Opened(s, h)
  BY <1>2 DEF Opened, HeaderStateType
<1> HIDE DEF a
<1>7. Read(a, h.type) = b
  BY <1>1, <1>5, ReadTypePhase
<1>8. b \in HeaderStateType /\ b.phase = "size"
  BY <1>1, <1>5 DEF HeaderStateType
<1> HIDE DEF b
<1>9. Read(b, Len(h.value)) = c
  BY <1>1, <1>8, ReadSizePhase
<1> HIDE DEF c
<1> DEFINE u == h.name
           v == h.type
           w == Len(h.value)
<1>10. u \in Nat /\ v \in Nat /\ w \in Nat
  BY <1>1
<1> HIDE DEF u, v, w
<1>11. /\ <<u>> = Append(<<>>, u) /\ <<u, v>> = Append(<<u>>, v)
       /\ <<u, v, w>> = Append(<<u, v>>, w)
  OBVIOUS
<1>12. <<>> \in Seq(Nat) /\ <<u>> \in Seq(Nat) /\ <<u, v>> \in Seq(Nat)
  BY <1>10
<1>13. ParseHeaders(r, <<>>) = r
  BY ParseNone
<1>14. ParseHeaders(r, <<u>>) = a
  BY <1>4, <1>10, <1>11, <1>12, <1>13, ParseAppend DEF u
<1>15. ParseHeaders(r, <<u, v>>) = b
  BY <1>7, <1>10, <1>11, <1>12, <1>14, ParseAppend DEF v
<1>16. ParseHeaders(r, <<u, v, w>>) = c
  BY <1>9, <1>10, <1>11, <1>12, <1>15, ParseAppend DEF w
<1> QED
  BY <1>6, <1>16 DEF u, v, w, s

\* The units of a value, read one by one.
LEMMA ReadUnits ==
    ASSUME NEW s \in HeaderStateType, NEW v \in Seq(Nat), v # <<>>,
           s.phase = "value", s.size = Len(v), s.value = <<>>
    PROVE  ParseHeaders(s, v) = Store([s EXCEPT !.value = v])
<1> DEFINE Taken(i) == [s EXCEPT !.value = SubSeq(v, 1, i)]
           S == {i \in Nat : i < Len(v) => ParseHeaders(s, SubSeq(v, 1, i)) = Taken(i)}
<1>1. SubSeq(v, 1, 0) = <<>> /\ SubSeq(v, 1, Len(v)) = v /\ Len(v) \in Nat /\ Len(v) # 0
  BY PrefixEnds, LenProperties, EmptySeq
<1>2. 0 \in S
  <2>1. Taken(0) = s
    BY <1>1 DEF HeaderStateType
  <2>2. ParseHeaders(s, <<>>) = s
    BY ParseNone
  <2> HIDE DEF Taken
  <2> QED
    BY <1>1, <2>1, <2>2
\* One unit more is stored with the last.
<1>3. ASSUME NEW i \in 0 .. Len(v) - 1, ParseHeaders(s, SubSeq(v, 1, i)) = Taken(i)
      PROVE  ParseHeaders(s, SubSeq(v, 1, i + 1)) =
                IF i + 1 = Len(v) THEN Store(Taken(i + 1)) ELSE Taken(i + 1)
  <2> DEFINE p == SubSeq(v, 1, i)
             q == SubSeq(v, 1, i + 1)
             u == v[i + 1]
  <2>1. p \in Seq(Nat) /\ u \in Nat /\ q = Append(p, u)
    BY PrefixStep
  <2>2. q \in Seq(Nat) /\ Len(q) = i + 1
    BY <1>1
  <2>3. Taken(i) = [s EXCEPT !.value = p] /\ Taken(i + 1) = [s EXCEPT !.value = q]
    OBVIOUS
  <2>4. ParseHeaders(s, p) = Taken(i)
    BY <1>3
  <2> HIDE DEF p, q, u, Taken
  <2>5. /\ Taken(i) \in HeaderStateType /\ Taken(i).phase = "value"
        /\ Taken(i).size = Len(v) /\ Taken(i).value = p
        /\ Taken(i + 1).size = Len(v) /\ Taken(i + 1).value = q
        /\ [Taken(i) EXCEPT !.value = q] = Taken(i + 1)
    BY <2>1, <2>2, <2>3 DEF HeaderStateType
  <2>6. ParseHeaders(s, q) = Read(Taken(i), u)
    BY <2>1, <2>4, ParseAppend
  <2>7. Read(Taken(i), u) = IF Len(q) = Len(v) THEN Store(Taken(i + 1)) ELSE Taken(i + 1)
    <3> DEFINE t == [Taken(i) EXCEPT !.value = Append(Taken(i).value, u)]
    <3>1. t = Taken(i + 1)
      BY <2>1, <2>5
    <3>2. Read(Taken(i), u) = IF Len(t.value) = t.size THEN Store(t) ELSE t
      BY <1>1, <2>1, <2>5, ReadValuePhase
    <3> HIDE DEF t
    <3> QED
      BY <2>5, <3>1, <3>2
  <2> QED
    BY <2>2, <2>6, <2>7 DEF q
<1>4. ASSUME NEW i \in Nat, i \in S PROVE i + 1 \in S
  <2>1. SUFFICES ASSUME i + 1 < Len(v)
                 PROVE  ParseHeaders(s, SubSeq(v, 1, i + 1)) = Taken(i + 1)
    OBVIOUS
  <2> HIDE DEF Taken, S
  <2>2. i \in 0 .. Len(v) - 1 /\ i + 1 # Len(v) /\ i < Len(v)
    <3>1. Len(v) \in Nat
      BY <1>1
    <3> QED
      BY <2>1, <3>1
  <2>3. ParseHeaders(s, SubSeq(v, 1, i)) = Taken(i)
    BY <1>4, <2>2 DEF S
  <2> QED
    BY <1>3, <2>2, <2>3
<1> HIDE DEF S
<1> DEFINE last == Len(v) - 1
<1>5. last \in Nat /\ last \in 0 .. Len(v) - 1 /\ last < Len(v) /\ last + 1 = Len(v)
  BY <1>1
<1>6. last \in S
  BY <1>2, <1>4, <1>5, SetInduction
<1> HIDE DEF last
<1>7. ParseHeaders(s, SubSeq(v, 1, last)) = Taken(last)
  BY <1>5, <1>6 DEF S
<1>8. Taken(Len(v)) = [s EXCEPT !.value = v]
  BY <1>1
<1> HIDE DEF Taken
<1>9. ParseHeaders(s, SubSeq(v, 1, last + 1)) = Store(Taken(last + 1))
  BY <1>3, <1>5, <1>7
<1> QED
  BY <1>1, <1>5, <1>8, <1>9

\* A header is stored as it was sent, at the latest when more data follows.
Filled(s, h) == [Opened(s, h) EXCEPT !.value = h.value]

\* A header that comes whole between two headers is stored, at once if it has a
\* value.
LEMMA ReadHeader ==
    ASSUME NEW r \in HeaderStateType, Settled(r).phase = "name", NEW h \in HeaderType
    PROVE  /\ Settled(ParseHeaders(r, EncodedHeader(h))) = Store(Filled(Settled(r), h))
           /\ h.value # <<>> =>
                 ParseHeaders(r, EncodedHeader(h)) = Store(Filled(Settled(r), h))
<1> DEFINE s == Settled(r)
           head == <<h.name, h.type, Len(h.value)>>
           o == Opened(s, h)
<1>1. h.name \in Nat /\ h.type \in Nat /\ h.value \in Seq(Nat) /\ Len(h.value) \in Nat
  BY LenProperties DEF HeaderType
<1>2. head \in Seq(Nat)
  BY <1>1
<1>3. s \in HeaderStateType
  BY StoreType DEF Settled
<1>4. ParseHeaders(r, head) = o
  BY ReadHead
<1>5. EncodedHeader(h) = head \o h.value
  BY DEF EncodedHeader
<1>6. Filled(s, h) = [o EXCEPT !.value = h.value]
  BY DEF Filled
<1> HIDE DEF s
<1>7. /\ o \in HeaderStateType /\ o.phase = "value" /\ o.size = Len(h.value)
      /\ o.value = <<>>
  BY <1>3, OpenedType
<1> HIDE DEF o, head
<1>8. ParseHeaders(r, EncodedHeader(h)) = ParseHeaders(o, h.value)
  BY <1>1, <1>2, <1>4, <1>5, ParseConcat
<1>9. CASE h.value = <<>>
  <2>1. ParseHeaders(o, h.value) = o
    BY <1>7, <1>9, ParseNone
  <2>2. Filled(s, h) = o
    BY <1>6, <1>7, <1>9 DEF HeaderStateType
  <2>3. Len(h.value) = 0
    BY <1>9
  <2>4. Settled(o) = Store(o)
    BY <1>7, <2>3 DEF Settled
  <2> QED
    BY <1>8, <1>9, <2>1, <2>2, <2>4 DEF s
<1>10. CASE h.value # <<>>
  <2>1. ParseHeaders(o, h.value) = Store(Filled(s, h))
    BY <1>1, <1>6, <1>7, <1>10, ReadUnits
  <2>2. Filled(s, h) \in HeaderStateType
    BY <1>1, <1>6, <1>7 DEF HeaderStateType
  <2> DEFINE t == Store(Filled(s, h))
  <2>3. t.phase = "name"
    BY <2>2 DEF Store, HeaderStateType
  <2> HIDE DEF t
  <2>4. Settled(t) = t
    BY <2>3 DEF Settled
  <2> QED
    BY <1>8, <2>1, <2>4 DEF s, t
<1> QED
  BY <1>9, <1>10

\* What is parsed after a header.
LEMMA Filling ==
    ASSUME NEW s \in HeaderStateType, NEW h \in HeaderType
    PROVE  /\ Store(Filled(s, h)) \in HeaderStateType
           /\ Store(Filled(s, h)).phase = "name"
           /\ Store(Filled(s, h)).parsed =
                 IF h.type = Number /\ Len(h.value) # 1 THEN s.parsed
                 ELSE [s.parsed EXCEPT ![NameRead(h.name)] =
                          [kind |-> IF h.type = String THEN "string" ELSE "raw",
                           text |-> h.value]]
<1> DEFINE o == Opened(s, h)
           f == Filled(s, h)
<1>1. h.value \in Seq(Nat)
  BY DEF HeaderType
<1>2. /\ o \in HeaderStateType /\ o.type = h.type /\ o.size = Len(h.value)
      /\ o.name = NameRead(h.name) /\ o.parsed = s.parsed
  BY OpenedType
<1>3. f = [o EXCEPT !.value = h.value]
  BY DEF Filled
<1> HIDE DEF o, f
<1>4. /\ f \in HeaderStateType /\ f.type = h.type /\ f.size = Len(h.value)
      /\ f.name = NameRead(h.name) /\ f.parsed = s.parsed /\ f.value = h.value
  BY <1>1, <1>2, <1>3 DEF HeaderStateType
<1>5. Store(f) \in HeaderStateType /\ Store(f).phase = "name"
  BY <1>4, StoreType DEF Store, HeaderStateType
<1>6. Store(f).parsed = IF f.type = Number /\ f.size # 1 THEN f.parsed
                        ELSE [f.parsed EXCEPT ![f.name] =
                                 [kind |-> IF f.type = String THEN "string" ELSE "raw",
                                  text |-> f.value]]
  BY <1>4 DEF Store, HeaderStateType
<1> QED
  BY <1>4, <1>5, <1>6 DEF f

\* It takes at least three units.
LEMMA EncodedHeaderLength ==
    ASSUME NEW h \in HeaderType PROVE Len(EncodedHeader(h)) >= 3
<1> DEFINE v == h.value
           head == <<h.name, h.type, Len(v)>>
<1>1. h.name \in Nat /\ h.type \in Nat /\ v \in Seq(Nat) /\ Len(v) \in Nat
  BY LenProperties DEF HeaderType
<1>2. head \in Seq(Nat) /\ Len(head) = 3
  BY <1>1
<1>3. EncodedHeader(h) = head \o v
  BY DEF EncodedHeader
<1> HIDE DEF head, v
<1>4. Len(head \o v) = Len(head) + Len(v)
  BY <1>1, <1>2, ConcatProperties
<1> QED
  BY <1>1, <1>2, <1>3, <1>4

\* Flattening one sequence more.
LEMMA FlattenPrefix ==
    ASSUME NEW X, NEW s \in Seq(Seq(X)), NEW i \in 0 .. Len(s) - 1
    PROVE  /\ FlattenSeq(SubSeq(s, 1, i)) \in Seq(X) /\ s[i + 1] \in Seq(X)
           /\ FlattenSeq(SubSeq(s, 1, i + 1)) = FlattenSeq(SubSeq(s, 1, i)) \o s[i + 1]
<1>1. /\ SubSeq(s, 1, i) \in Seq(Seq(X)) /\ s[i + 1] \in Seq(X)
      /\ SubSeq(s, 1, i + 1) = Append(SubSeq(s, 1, i), s[i + 1])
  BY PrefixStep
<1> QED
  BY <1>1, FlattenType, FlattenAppend

\* What is parsed of a header that came whole.
Holding(h) ==
    IF h.type = Number /\ Len(h.value) # 1 THEN Missing
    ELSE [kind |-> IF h.type = String THEN "string" ELSE "raw", text |-> h.value]

\* After the first m headers, the names that matter have what their headers hold.
HeadersRead(hs, m, r) ==
    /\ r \in HeaderStateType
    /\ Settled(r).phase = "name"
    /\ \A n \in {MessageTypeName, EventTypeName} :
          /\ (\A j \in 1 .. m : hs[j].name # n) => Settled(r).parsed[n] = Missing
          /\ \A j \in 1 .. m : hs[j].name = n => Settled(r).parsed[n] = Holding(hs[j])

\* Neither of those names comes twice.
OnceNamed(hs) == \A j, k \in 1 .. Len(hs) :
                    j # k /\ hs[j].name = hs[k].name => hs[j].name >= Other

\* Before the first header.
LEMMA NoneRead ==
    ASSUME NEW hs PROVE HeadersRead(hs, 0, Fresh)
<1>1. Settled(Fresh) = Fresh /\ Fresh.phase = "name"
  BY DEF Settled, Fresh
<1>2. \A n \in {MessageTypeName, EventTypeName} : Fresh.parsed[n] = Missing
  BY DEF Fresh, Names
<1> QED
  BY <1>1, <1>2, FreshType DEF HeadersRead

\* A name that matters comes once, so a header leaves what others are stored
\* under alone.
LEMMA OneMoreRead ==
    ASSUME NEW hs \in Seq(HeaderType), OnceNamed(hs), NEW m \in 0 .. Len(hs) - 1,
           NEW r, HeadersRead(hs, m, r)
    PROVE  HeadersRead(hs, m + 1, ParseHeaders(r, EncodedHeader(hs[m + 1])))
<1> DEFINE h == hs[m + 1]
           q == ParseHeaders(r, EncodedHeader(h))
           s == Settled(r)
           t == Store(Filled(s, h))
<1>1. Len(hs) \in Nat /\ m \in Nat /\ m + 1 \in 1 .. Len(hs)
  BY LenProperties
<1>2. h \in HeaderType
  BY <1>1, ElementOfSeq
<1>3. r \in HeaderStateType /\ s.phase = "name"
  BY DEF HeadersRead
<1>4. s \in HeaderStateType
  BY <1>3, StoreType DEF Settled
<1>5. q \in HeaderStateType
  BY <1>2, <1>3, EncodedHeaderType, ParseType
<1>6. Settled(q) = t
  BY <1>2, <1>3, ReadHeader
<1>7. \A n \in {MessageTypeName, EventTypeName} :
         /\ (\A j \in 1 .. m : hs[j].name # n) => s.parsed[n] = Missing
         /\ \A j \in 1 .. m : hs[j].name = n => s.parsed[n] = Holding(hs[j])
  BY DEF HeadersRead
<1> DEFINE entry == [kind |-> IF h.type = String THEN "string" ELSE "raw", text |-> h.value]
           skipped == h.type = Number /\ Len(h.value) # 1
<1>8. /\ t.phase = "name"
      /\ t.parsed = IF skipped THEN s.parsed
                    ELSE [s.parsed EXCEPT ![NameRead(h.name)] = entry]
  BY <1>2, <1>4, Filling
<1>9. Holding(h) = IF skipped THEN Missing ELSE entry
  BY DEF Holding
<1>10. s.parsed \in [Names -> ParsedType] /\ h.name \in Nat \ {0}
  BY <1>2, <1>4 DEF HeaderStateType, HeaderType
<1>11. hs[m + 1] = h
  OBVIOUS
<1> HIDE DEF h, q, s, t, entry, skipped
<1>12. ASSUME NEW n \in {MessageTypeName, EventTypeName}
       PROVE  /\ (\A j \in 1 .. m + 1 : hs[j].name # n) => t.parsed[n] = Missing
              /\ \A j \in 1 .. m + 1 : hs[j].name = n => t.parsed[n] = Holding(hs[j])
  <2>1. n \in Nat /\ n < Other /\ n \in Names
    BY DEF MessageTypeName, EventTypeName, Other, Names
  <2>2. \A j \in 1 .. m + 1 : j \in 1 .. m \/ j = m + 1
    BY <1>1
  <2>3. m + 1 \in 1 .. m + 1 /\ \A j \in 1 .. m : j \in 1 .. m + 1
    BY <1>1
  <2>4. CASE h.name = n
    <3>1. ASSUME NEW j \in 1 .. m PROVE hs[j].name # n
      <4>1. j \in 1 .. Len(hs) /\ j # m + 1
        BY <1>1
      <4> QED
        BY <1>1, <1>11, <2>1, <2>4, <4>1 DEF OnceNamed, Other
    <3>2. s.parsed[n] = Missing
      BY <1>7, <3>1
    <3>3. NameRead(h.name) = n
      BY <2>1, <2>4 DEF NameRead
    <3>4. t.parsed[n] = Holding(h)
      BY <1>8, <1>9, <1>10, <2>1, <3>2, <3>3
    <3> QED
      BY <1>11, <2>2, <2>3, <2>4, <3>1, <3>4
  <2>5. CASE h.name # n
    <3>1. NameRead(h.name) # n
      BY <1>10, <2>1, <2>5 DEF NameRead, Other
    <3>2. t.parsed[n] = s.parsed[n]
      BY <1>8, <1>10, <2>1, <3>1
    <3> QED
      BY <1>7, <1>11, <2>2, <2>3, <2>5, <3>2
  <2> QED
    BY <2>4, <2>5
<1> QED
  BY <1>5, <1>6, <1>8, <1>12 DEF HeadersRead, q, h

\* All the headers of a frame are read, and between two of them the data ends.
LEMMA HeadersAsSent ==
    ASSUME NEW f \in FrameType, OnceNamed(f.headers),
           f.headers # <<>> => f.headers[Len(f.headers)].value # <<>>
    PROVE  LET r == ParseHeaders(Fresh, EncodedHeaders(f))
           IN  /\ HeadersRead(f.headers, Len(f.headers), r)
               /\ r.phase = "name"
               /\ f.headers = <<>> <=> EncodedHeaders(f) = <<>>
<1> DEFINE hs == f.headers
           parts == [k \in 1 .. Len(hs) |-> EncodedHeader(hs[k])]
           Read1(m) == FlattenSeq(SubSeq(parts, 1, m))
           S == {m \in Nat : m <= Len(hs) =>
                    HeadersRead(hs, m, ParseHeaders(Fresh, Read1(m)))}
<1>1. /\ hs \in Seq(HeaderType) /\ Len(hs) \in Nat
      /\ \A k \in 1 .. Len(hs) : hs[k] \in HeaderType
  BY LenProperties, ElementOfSeq DEF FrameType
<1>2. parts \in Seq(Seq(Nat)) /\ Len(parts) = Len(hs)
      /\ \A k \in 1 .. Len(hs) : parts[k] = EncodedHeader(hs[k])
  <2>1. \A k \in 1 .. Len(hs) : EncodedHeader(hs[k]) \in Seq(Nat)
    BY <1>1, EncodedHeaderType
  <2> HIDE DEF hs
  <2> QED
    BY <1>1, <2>1, IsASeq
<1>3. EncodedHeaders(f) = FlattenSeq(parts)
  BY DEF EncodedHeaders, EncodedHeader
<1> HIDE DEF parts
<1>4. Read1(0) = <<>> /\ Read1(Len(hs)) = EncodedHeaders(f)
  BY <1>2, <1>3, PrefixEnds, FlattenNone
<1>5. ASSUME NEW m \in Nat, m + 1 <= Len(hs)
      PROVE  /\ Read1(m) \in Seq(Nat) /\ EncodedHeader(hs[m + 1]) \in Seq(Nat)
             /\ Read1(m + 1) = Read1(m) \o EncodedHeader(hs[m + 1])
  <2>1. m \in 0 .. Len(parts) - 1 /\ m + 1 \in 1 .. Len(hs)
    BY <1>1, <1>2, <1>5
  <2> QED
    BY <1>2, <2>1, FlattenPrefix
<1> HIDE DEF hs, Read1
<1>6. ASSUME NEW m \in Nat, m + 1 <= Len(hs)
      PROVE  ParseHeaders(Fresh, Read1(m + 1))
             = ParseHeaders(ParseHeaders(Fresh, Read1(m)), EncodedHeader(hs[m + 1]))
  <2> DEFINE p == Read1(m)
             e == EncodedHeader(hs[m + 1])
  <2>1. p \in Seq(Nat) /\ e \in Seq(Nat) /\ Read1(m + 1) = p \o e
    BY <1>5, <1>6
  <2> HIDE DEF p, e
  <2>2. ParseHeaders(Fresh, p \o e) = ParseHeaders(ParseHeaders(Fresh, p), e)
    BY <2>1, FreshType, ParseConcat
  <2> QED
    BY <2>1, <2>2 DEF p, e
<1>7. 0 \in S
  BY <1>4, FreshType, ParseNone, NoneRead
<1>8. ASSUME NEW m \in Nat, m \in S PROVE m + 1 \in S
  <2>1. SUFFICES ASSUME m + 1 <= Len(hs)
                 PROVE  HeadersRead(hs, m + 1, ParseHeaders(Fresh, Read1(m + 1)))
    OBVIOUS
  <2>2. m \in 0 .. Len(hs) - 1 /\ m <= Len(hs)
    BY <1>1, <2>1
  <2>3. HeadersRead(hs, m, ParseHeaders(Fresh, Read1(m)))
    BY <1>8, <2>2
  <2> QED
    BY <1>1, <1>6, <2>1, <2>2, <2>3, OneMoreRead DEF hs
<1>9. \A m \in 0 .. Len(hs) : HeadersRead(hs, m, ParseHeaders(Fresh, Read1(m)))
  <2> HIDE DEF S
  <2>1. Nat \subseteq S
    BY <1>7, <1>8, SetInduction
  <2> QED
    BY <1>1, <2>1 DEF S
<1>10. HeadersRead(hs, Len(hs), ParseHeaders(Fresh, EncodedHeaders(f)))
  BY <1>1, <1>4, <1>9
<1>11. CASE hs = <<>>
  <2>1. EncodedHeaders(f) = <<>>
    BY <1>4, <1>11
  <2>2. ParseHeaders(Fresh, EncodedHeaders(f)).phase = "name"
    BY <2>1, FreshType, ParseNone DEF Fresh
  <2> QED
    BY <1>10, <1>11, <2>1, <2>2 DEF hs
<1>12. CASE hs # <<>>
  <2> DEFINE m == Len(hs) - 1
             h == hs[Len(hs)]
             r == ParseHeaders(Fresh, Read1(m))
  <2>1. m \in Nat /\ m \in 0 .. Len(hs) /\ m + 1 <= Len(hs) /\ m + 1 = Len(hs)
    BY <1>1, <1>12, EmptySeq
  <2>2. h \in HeaderType /\ h.value # <<>>
    BY <1>1, <1>12, <2>1, ElementOfSeq DEF hs
  <2>3. r \in HeaderStateType /\ Settled(r).phase = "name"
    BY <1>9, <2>1 DEF HeadersRead
  <2> HIDE DEF m
  <2>4. ParseHeaders(Fresh, EncodedHeaders(f)) = ParseHeaders(r, EncodedHeader(h))
    BY <1>4, <1>6, <2>1
  <2> HIDE DEF r
  <2>5. ParseHeaders(r, EncodedHeader(h)) = Store(Filled(Settled(r), h))
    BY <2>2, <2>3, ReadHeader
  <2>6. Settled(r) \in HeaderStateType
    BY <2>3, StoreType DEF Settled
  <2>7. Store(Filled(Settled(r), h)).phase = "name"
    BY <2>2, <2>6, Filling
  <2>8. EncodedHeaders(f) # <<>>
    <3>1. Read1(m) \in Seq(Nat) /\ EncodedHeader(h) \in Seq(Nat)
          /\ EncodedHeaders(f) = Read1(m) \o EncodedHeader(h)
      BY <1>4, <1>5, <2>1
    <3>2. Len(EncodedHeader(h)) >= 3
      BY <2>2, EncodedHeaderLength
    <3>3. Len(Read1(m) \o EncodedHeader(h)) = Len(Read1(m)) + Len(EncodedHeader(h))
      BY <3>1, ConcatProperties
    <3>4. Len(Read1(m)) \in Nat /\ Len(EncodedHeader(h)) \in Nat
      BY <3>1, LenProperties
    <3> HIDE DEF h
    <3>5. Len(EncodedHeaders(f)) # 0
      BY <3>1, <3>2, <3>3, <3>4
    <3> QED
      BY <3>5
  <2> QED
    BY <1>10, <1>12, <2>4, <2>5, <2>7, <2>8 DEF hs
<1> QED
  BY <1>11, <1>12

-----------------------------------------------------------------------------
(* What a frame means to the parser.                                        *)
\* What is parsed under a name is what the frame says, and it says one thing.
LEMMA SaidOnce ==
    ASSUME NEW f \in FrameType, OnceNamed(f.headers), NEW r,
           HeadersRead(f.headers, Len(f.headers), r),
           NEW n \in {MessageTypeName, EventTypeName}
    PROVE  IF Said(f, n) = {} THEN Settled(r).parsed[n].kind # "string"
           ELSE /\ Settled(r).parsed[n].kind = "string"
                /\ Said(f, n) = {Settled(r).parsed[n].text}
<1> DEFINE hs == f.headers
           held == Settled(r).parsed[n]
<1>1. n < Other
  BY DEF MessageTypeName, EventTypeName, Other
<1>2. /\ (\A j \in 1 .. Len(hs) : hs[j].name # n) => held = Missing
      /\ \A j \in 1 .. Len(hs) : hs[j].name = n => held = Holding(hs[j])
  BY DEF HeadersRead
<1>3. \A j, k \in 1 .. Len(hs) : hs[j].name = n /\ hs[k].name = n => j = k
  BY <1>1 DEF OnceNamed, Other, MessageTypeName, EventTypeName
<1> HIDE DEF held
<1>4. Said(f, n) = {hs[j].value : j \in {k \in 1 .. Len(hs) :
                                           hs[k].name = n /\ hs[k].type = String}}
  BY DEF Said
<1> HIDE DEF hs
<1>5. CASE \A j \in 1 .. Len(hs) : hs[j].name # n
  <2>1. Said(f, n) = {} /\ held = Missing
    BY <1>2, <1>4, <1>5
  <2> QED
    BY <2>1 DEF Missing, held
<1>6. ASSUME NEW j \in 1 .. Len(hs), hs[j].name = n
      PROVE  IF Said(f, n) = {} THEN held.kind # "string"
             ELSE held.kind = "string" /\ Said(f, n) = {held.text}
  <2>1. held = Holding(hs[j])
    BY <1>2, <1>6
  <2>2. CASE hs[j].type = String
    <3>1. held = [kind |-> "string", text |-> hs[j].value]
      BY <2>1, <2>2 DEF Holding, String, Number
    <3>2. Said(f, n) = {hs[j].value}
      BY <1>3, <1>4, <1>6, <2>2
    <3> QED
      BY <3>1, <3>2
  <2>3. CASE hs[j].type # String
    <3>1. held.kind # "string"
      BY <2>1, <2>3 DEF Holding, Missing
    <3>2. Said(f, n) = {}
      BY <1>3, <1>4, <1>6, <2>3
    <3> QED
      BY <3>1, <3>2
  <2> QED
    BY <2>2, <2>3
<1> QED
  BY <1>5, <1>6 DEF held

\* The two headers of a message say what the headers of its frame say.
LEMMA HeadersMeant ==
    ASSUME NEW f \in FrameType, OnceNamed(f.headers),
           f.headers # <<>> => f.headers[Len(f.headers)].value # <<>>
    PROVE  LET headers == HeadersOf(EncodedHeaders(f), ParseHeaders(Fresh, EncodedHeaders(f)))
           IN  /\ MessageTypeOf(headers) = Meaning(f).type
               /\ EventTypeOf(headers) = Meaning(f).event
<1> DEFINE e == EncodedHeaders(f)
           r == ParseHeaders(Fresh, e)
           headers == HeadersOf(e, r)
           T == Said(f, MessageTypeName)
           V == Said(f, EventTypeName)
<1>1. /\ HeadersRead(f.headers, Len(f.headers), r) /\ r.phase = "name"
      /\ f.headers = <<>> <=> e = <<>>
  BY HeadersAsSent
<1>2. /\ Meaning(f).type = IF T = {} THEN Default.text ELSE CHOOSE v \in T : TRUE
      /\ Meaning(f).event = IF f.headers = <<>> THEN Default.text
                            ELSE IF V = {} THEN <<>> ELSE CHOOSE v \in V : TRUE
  BY DEF Meaning
<1>3. Settled(r) = r
  BY <1>1 DEF Settled
<1>4. /\ IF T = {} THEN r.parsed[MessageTypeName].kind # "string"
         ELSE /\ r.parsed[MessageTypeName].kind = "string"
              /\ T = {r.parsed[MessageTypeName].text}
      /\ IF V = {} THEN r.parsed[EventTypeName].kind # "string"
         ELSE /\ r.parsed[EventTypeName].kind = "string"
              /\ V = {r.parsed[EventTypeName].text}
  BY <1>1, <1>3, SaidOnce
<1>5. CASE f.headers = <<>>
  <2>1. T = {}
    BY <1>5 DEF Said
  <2>2. r = Fresh
    BY <1>1, <1>5, FreshType, ParseNone
  <2>3. headers[MessageTypeName] = Default /\ headers[EventTypeName] = Default
    BY <1>1, <1>5, <2>2 DEF HeadersOf, Fresh, Names
  <2> HIDE DEF headers, T, V, r, e
  <2> QED
    BY <1>2, <1>5, <2>1, <2>3 DEF MessageTypeOf, EventTypeOf, Default, headers, r, e
<1>6. CASE f.headers # <<>>
  <2>1. headers = r.parsed
    BY <1>1, <1>6 DEF HeadersOf
  <2> HIDE DEF headers, T, V, r, e
  <2>2. MessageTypeOf(headers) = Meaning(f).type
    BY <1>2, <1>4, <2>1 DEF MessageTypeOf
  <2>3. EventTypeOf(headers) = Meaning(f).event
    BY <1>2, <1>4, <1>6, <2>1 DEF EventTypeOf
  <2> QED
    BY <2>2, <2>3 DEF headers, r, e
<1> QED
  BY <1>5, <1>6

\* A frame that arrives as it was sent is read as it was meant.
LEMMA FrameMeant ==
    ASSUME NEW f \in Frames
    PROVE  /\ Encoding(f) \in Seq(Nat) /\ Len(Encoding(f)) >= 2
           /\ Encoding(f)[1] = Len(Encoding(f))
           /\ ~LengthInvalid(Len(Encoding(f)))
           /\ ~HeaderTooLong(Encoding(f))
           /\ Message(Encoding(f), HeaderStateAfter(Encoding(f))) = Meaning(f)
<1> DEFINE e == EncodedHeaders(f)
           p == f.payload
           d == Encoding(f)
<1>1. f \in FrameType /\ OnceNamed(f.headers) /\ Len(d) <= MaxSize
  BY FramesAssumption DEF OnceNamed
<1>2. f.headers # <<>> => f.headers[Len(f.headers)].value # <<>>
  BY FramesAssumption
<1>3. e \in Seq(Nat) /\ p \in Seq(Nat) /\ d \in Seq(Nat) /\ Len(d) = 2 + Len(e) + Len(p)
  BY <1>1, EncodingType DEF FrameType
<1>4. d = <<2 + Len(e) + Len(p), Len(e)>> \o e \o p
  BY DEF Encoding
<1>5. /\ MessageTypeOf(HeadersOf(e, ParseHeaders(Fresh, e))) = Meaning(f).type
      /\ EventTypeOf(HeadersOf(e, ParseHeaders(Fresh, e))) = Meaning(f).event
  BY <1>1, <1>2, HeadersMeant
<1>6. Meaning(f) = [type |-> Meaning(f).type, event |-> Meaning(f).event, payload |-> p]
  BY DEF Meaning
<1> HIDE DEF e, p, d
<1>7. Len(e) \in Nat /\ Len(p) \in Nat
  BY <1>3, LenProperties
<1> DEFINE ab == <<2 + Len(e) + Len(p), Len(e)>>
<1>8. ab \in Seq(Nat) /\ Len(ab) = 2 /\ ab[1] = 2 + Len(e) + Len(p) /\ ab[2] = Len(e)
  BY <1>7
<1> HIDE DEF ab
<1>9. Stands(d, 0, ab) /\ Stands(d, 2, e) /\ Stands(d, 2 + Len(e), p)
  <2>1. d = ab \o e \o p
    BY <1>4 DEF ab
  <2> QED
    BY <1>3, <1>8, <2>1, FourParts
<1>10. d[1] = Len(d) /\ d[2] = Len(e)
  <2>1. d[0 + 1] = ab[1] /\ d[0 + 2] = ab[2]
    BY <1>8, <1>9 DEF Stands
  <2> QED
    BY <1>3, <1>8, <2>1
<1>11. HeaderData(d) = e
  <2>1. SubSeq(d, 2 + 1, 2 + Len(e)) = e
    BY <1>3, <1>9, StandsSubSeq
  <2> QED
    BY <1>10, <2>1 DEF HeaderData
<1>12. Payload(d) = p
  <2>1. 2 + Len(e) \in Nat
    BY <1>7
  <2>2. SubSeq(d, (2 + Len(e)) + 1, (2 + Len(e)) + Len(p)) = p
    BY <1>3, <1>9, <2>1, StandsSubSeq
  <2>3. (2 + Len(e)) + 1 = 3 + Len(e) /\ (2 + Len(e)) + Len(p) = Len(d)
    BY <1>3, <1>7
  <2> QED
    BY <1>10, <2>2, <2>3 DEF Payload
<1>13. ~HeaderTooLong(d)
  BY <1>3, <1>7, <1>10 DEF HeaderTooLong, MinSize
<1>14. Len(d) >= 2 /\ ~LengthInvalid(Len(d))
  BY <1>1, <1>3, <1>7, SizeAssumption DEF LengthInvalid, MinSize, d
<1>15. Message(d, HeaderStateAfter(d)) = Meaning(f)
  <2>1. HeaderStateAfter(d) = ParseHeaders(Fresh, e)
    BY <1>11 DEF HeaderStateAfter
  <2> QED
    BY <1>5, <1>6, <1>11, <1>12, <2>1 DEF Message
<1> QED
  BY <1>3, <1>10, <1>13, <1>14, <1>15 DEF d

-----------------------------------------------------------------------------
(* A sequence without one of its elements.                                  *)
\* Removing the last,
LEMMA RemoveLast ==
    ASSUME NEW X, NEW s \in Seq(X), NEW x \in X
    PROVE  RemoveAt(Append(s, x), Len(s) + 1) = s
<1> DEFINE t == Append(s, x)
           n == Len(s)
<1>1. n \in Nat
  BY LenProperties
<1>2. t \in Seq(X) /\ Len(t) = n + 1 /\ \A k \in 1 .. n : t[k] = s[k]
  BY AppendProperties
<1> HIDE DEF t
<1>3. RemoveAt(t, n + 1) = SubSeq(t, 1, (n + 1) - 1) \o SubSeq(t, (n + 1) + 1, Len(t))
  BY DEF RemoveAt
<1> DEFINE a == SubSeq(t, 1, (n + 1) - 1)
           b == SubSeq(t, (n + 1) + 1, Len(t))
<1>4. a \in Seq(X) /\ Len(a) = n /\ \A k \in 1 .. n : a[k] = t[k]
  BY <1>1, <1>2
<1>5. b = <<>>
  BY <1>1, <1>2, EmptySeq
<1> HIDE DEF a, b, n
<1>6. a = s
  BY <1>1, <1>2, <1>4, SeqEqual DEF n
<1>7. a \o <<>> = a
  BY <1>4, ConcatEmptySeq
<1> QED
  BY <1>3, <1>5, <1>6, <1>7 DEF t, n, a, b

\* and removing an earlier one.
LEMMA RemoveEarlier ==
    ASSUME NEW X, NEW s \in Seq(X), NEW x \in X, NEW d \in 1 .. Len(s)
    PROVE  /\ RemoveAt(s, d) \in Seq(X)
           /\ RemoveAt(Append(s, x), d) = Append(RemoveAt(s, d), x)
<1> DEFINE t == Append(s, x)
           n == Len(s)
<1>1. n \in Nat /\ d \in Nat /\ d >= 1 /\ d <= n
  BY LenProperties
<1>2. t \in Seq(X) /\ Len(t) = n + 1 /\ t[n + 1] = x /\ \A k \in 1 .. n : t[k] = s[k]
  BY AppendProperties
<1> HIDE DEF t
<1> DEFINE a == SubSeq(s, 1, d - 1)
           b == SubSeq(s, d + 1, Len(s))
           c == SubSeq(t, 1, d - 1)
           e == SubSeq(t, d + 1, Len(t))
<1>3. RemoveAt(s, d) = a \o b /\ RemoveAt(t, d) = c \o e
  BY DEF RemoveAt
<1>4. a \in Seq(X) /\ Len(a) = d - 1 /\ \A k \in 1 .. d - 1 : a[k] = s[k]
  BY <1>1
<1>5. c \in Seq(X) /\ Len(c) = d - 1 /\ \A k \in 1 .. d - 1 : c[k] = t[k]
  BY <1>1, <1>2
<1>6. b \in Seq(X) /\ Len(b) = n - d /\ \A k \in 1 .. n - d : b[k] = s[d + k]
  BY <1>1
<1>7. e \in Seq(X) /\ Len(e) = n + 1 - d /\ \A k \in 1 .. n + 1 - d : e[k] = t[d + k]
  BY <1>1, <1>2
<1> HIDE DEF a, b, c, e, n
<1>8. a = c
  <2>1. \A k \in 1 .. d - 1 : a[k] = c[k]
    BY <1>1, <1>2, <1>4, <1>5
  <2> QED
    BY <1>4, <1>5, <2>1, SeqEqual
<1>9. e = Append(b, x)
  <2> DEFINE g == Append(b, x)
  <2>1. g \in Seq(X) /\ Len(g) = (n - d) + 1 /\ g[(n - d) + 1] = x
        /\ \A k \in 1 .. n - d : g[k] = b[k]
    BY <1>6, AppendProperties
  <2> HIDE DEF g
  <2>2. ASSUME NEW k \in 1 .. n + 1 - d PROVE e[k] = g[k]
    <3>1. CASE k = (n - d) + 1
      <4>1. d + k = n + 1
        BY <1>1, <3>1
      <4> QED
        BY <1>2, <1>7, <2>1, <3>1, <4>1
    <3>2. CASE k # (n - d) + 1
      <4>1. k \in 1 .. n - d /\ d + k \in 1 .. n
        BY <1>1, <3>2
      <4> QED
        BY <1>2, <1>6, <1>7, <2>1, <4>1
    <3> QED
      BY <3>1, <3>2
  <2>3. Len(g) = n + 1 - d
    BY <1>1, <2>1
  <2>4. e = g
    BY <1>7, <2>1, <2>2, <2>3, SeqEqual
  <2> QED
    BY <2>4 DEF g
<1>10. a \o b \in Seq(X)
  BY <1>4, <1>6, ConcatProperties
<1>11. a \o Append(b, x) = Append(a \o b, x)
  <2>1. Append(b, x) = b \o <<x>> /\ Append(a \o b, x) = (a \o b) \o <<x>>
    BY <1>6, <1>10, AppendIsConcat
  <2>2. <<x>> \in Seq(X)
    OBVIOUS
  <2>3. a \o (b \o <<x>>) = (a \o b) \o <<x>>
    BY <1>4, <1>6, <2>2, ConcatAssociative
  <2> QED
    BY <2>1, <2>3
<1> QED
  BY <1>3, <1>8, <1>9, <1>10, <1>11 DEF t

-----------------------------------------------------------------------------
(* Where the frames are in the body.                                        *)
\* The units of the first m frames.
UpTo(m) == Encoded(SubSeq(sent, 1, m))

\* One frame more is its units more.
LEMMA UpToStep ==
    ASSUME sent \in Seq(Frames), NEW m \in 0 .. Len(sent) - 1
    PROVE  /\ UpTo(m) \in Seq(Nat) /\ sent[m + 1] \in Frames
           /\ Encoding(sent[m + 1]) \in Seq(Nat)
           /\ UpTo(m + 1) = UpTo(m) \o Encoding(sent[m + 1])
<1> DEFINE parts == [k \in 1 .. Len(sent) |-> Encoding(sent[k])]
<1>1. Len(sent) \in Nat /\ \A k \in 1 .. Len(sent) : sent[k] \in Frames
  BY LenProperties, ElementOfSeq
<1>2. /\ parts \in Seq(Seq(Nat)) /\ Len(parts) = Len(sent)
      /\ \A k \in 1 .. Len(sent) : parts[k] = Encoding(sent[k])
  <2>1. \A k \in 1 .. Len(sent) : Encoding(sent[k]) \in Seq(Nat)
    BY <1>1, FrameMeant
  <2> QED
    BY <1>1, <2>1, IsASeq
<1> HIDE DEF parts
<1>3. ASSUME NEW i \in 0 .. Len(sent) PROVE UpTo(i) = FlattenSeq(SubSeq(parts, 1, i))
  <2> DEFINE p == SubSeq(sent, 1, i)
             q == SubSeq(parts, 1, i)
             r == [k \in 1 .. Len(p) |-> Encoding(p[k])]
  <2>1. p \in Seq(Frames) /\ Len(p) = i /\ \A k \in 1 .. i : p[k] = sent[k]
    BY <1>1
  <2>2. q \in Seq(Seq(Nat)) /\ Len(q) = i /\ \A k \in 1 .. i : q[k] = parts[k]
    BY <1>1, <1>2
  <2>3. UpTo(i) = FlattenSeq(r)
    BY DEF UpTo, Encoded
  <2> HIDE DEF p, q, r
  <2>4. ASSUME NEW k \in 1 .. i PROVE p[k] \in Frames /\ Encoding(p[k]) \in Seq(Nat)
    <3>1. p[k] \in Frames
      BY <2>1, ElementOfSeq
    <3> QED
      BY <3>1, FrameMeant
  <2>5. r \in Seq(Seq(Nat)) /\ Len(r) = i /\ \A k \in 1 .. i : r[k] = Encoding(p[k])
    BY <1>1, <2>1, <2>4, IsASeq DEF r
  <2>6. \A k \in 1 .. i : k \in 1 .. Len(sent)
    BY <1>1
  <2>7. \A k \in 1 .. i : q[k] = r[k]
    BY <1>2, <2>1, <2>2, <2>5, <2>6
  <2>8. q = r
    BY <2>2, <2>5, <2>7, SeqEqual
  <2> QED
    BY <2>3, <2>8 DEF q
<1>4. m \in 0 .. Len(sent) /\ m + 1 \in 0 .. Len(sent) /\ m + 1 \in 1 .. Len(sent)
      /\ m \in 0 .. Len(parts) - 1
  BY <1>1, <1>2
<1>5. /\ FlattenSeq(SubSeq(parts, 1, m)) \in Seq(Nat)
      /\ FlattenSeq(SubSeq(parts, 1, m + 1)) = FlattenSeq(SubSeq(parts, 1, m)) \o parts[m + 1]
      /\ parts[m + 1] \in Seq(Nat)
  BY <1>2, <1>4, FlattenPrefix
<1> QED
  BY <1>1, <1>2, <1>3, <1>4, <1>5

\* No frame is nothing, and all of them are the body that was sent.
LEMMA UpToEnds ==
    ASSUME sent \in Seq(Frames)
    PROVE  /\ UpTo(0) = <<>> /\ UpTo(Len(sent)) = Encoded(sent)
           /\ \A m \in 0 .. Len(sent) : UpTo(m) \in Seq(Nat) /\ Len(UpTo(m)) \in Nat
<1>1. SubSeq(sent, 1, 0) = <<>> /\ SubSeq(sent, 1, Len(sent)) = sent /\ Len(sent) \in Nat
  BY PrefixEnds, LenProperties
<1>2. UpTo(0) = <<>>
  <2>1. [k \in 1 .. Len(<<>>) |-> Encoding(<<>>[k])] = <<>>
    OBVIOUS
  <2> QED
    BY <1>1, <2>1, FlattenNone DEF UpTo, Encoded
<1>3. UpTo(Len(sent)) = Encoded(sent)
  BY <1>1 DEF UpTo
<1>4. ASSUME NEW m \in 0 .. Len(sent) PROVE UpTo(m) \in Seq(Nat) /\ Len(UpTo(m)) \in Nat
  <2>1. SubSeq(sent, 1, m) \in Seq(Frames)
    BY <1>1
  <2>2. SubSeq(sent, 1, m) \in Seq(FrameType)
    <3>1. Frames \subseteq FrameType
      BY FramesAssumption
    <3>2. \A k \in 1 .. Len(SubSeq(sent, 1, m)) : SubSeq(sent, 1, m)[k] \in FrameType
      BY <2>1, <3>1, ElementOfSeq
    <3> QED
      BY <2>1, <3>2, SeqDef, LenProperties
  <2> QED
    BY <2>2, EncodedType, LenProperties DEF UpTo
<1> QED
  BY <1>2, <1>3, <1>4

\* A frame starts where the one before it ends.
LEMMA StartStep ==
    ASSUME sent \in Seq(Frames)
    PROVE  /\ Start(1) = 0 /\ Start(Len(sent) + 1) = Len(Encoded(sent))
           /\ \A k \in 1 .. Len(sent) + 1 : Start(k) \in Nat
           /\ \A k \in 1 .. Len(sent) :
                 /\ sent[k] \in Frames
                 /\ Len(Encoding(sent[k])) \in Nat /\ Len(Encoding(sent[k])) >= 2
                 /\ Start(k + 1) = Start(k) + Len(Encoding(sent[k]))
<1>1. Len(sent) \in Nat
  BY LenProperties
<1>2. \A k : Start(k) = Len(UpTo(k - 1))
  BY DEF Start, UpTo
<1>3. 1 - 1 = 0 /\ (Len(sent) + 1) - 1 = Len(sent)
  BY <1>1
<1>4. Start(1) = 0 /\ Start(Len(sent) + 1) = Len(Encoded(sent))
  BY <1>2, <1>3, UpToEnds
<1>5. ASSUME NEW k \in 1 .. Len(sent) + 1 PROVE Start(k) \in Nat
  <2>1. k - 1 \in 0 .. Len(sent)
    BY <1>1
  <2> QED
    BY <1>2, <2>1, UpToEnds
<1>6. ASSUME NEW k \in 1 .. Len(sent)
      PROVE  /\ sent[k] \in Frames
             /\ Len(Encoding(sent[k])) \in Nat /\ Len(Encoding(sent[k])) >= 2
             /\ Start(k + 1) = Start(k) + Len(Encoding(sent[k]))
  <2>1. k - 1 \in 0 .. Len(sent) - 1 /\ (k - 1) + 1 = k /\ (k + 1) - 1 = k
    BY <1>1
  <2> DEFINE p == UpTo(k - 1)
             e == Encoding(sent[k])
  <2>2. p \in Seq(Nat) /\ sent[k] \in Frames /\ e \in Seq(Nat) /\ UpTo(k) = p \o e
    BY <2>1, UpToStep
  <2>3. Len(e) \in Nat /\ Len(e) >= 2
    BY <2>2, FrameMeant, LenProperties
  <2>4. Start(k) = Len(p) /\ Start(k + 1) = Len(UpTo(k))
    BY <1>2, <2>1
  <2> HIDE DEF p, e
  <2>5. Len(p \o e) = Len(p) + Len(e)
    BY <2>2, ConcatProperties
  <2> QED
    BY <2>2, <2>3, <2>4, <2>5 DEF e
<1> QED
  BY <1>4, <1>5, <1>6

\* A later frame starts at least two units later.
LEMMA StartOrder ==
    ASSUME sent \in Seq(Frames), NEW j \in 1 .. Len(sent) + 1,
           NEW k \in 1 .. Len(sent) + 1, j < k
    PROVE  Start(j) + 2 <= Start(k)
<1> DEFINE S == {m \in Nat : j + m + 1 <= Len(sent) + 1 => Start(j) + 2 <= Start(j + m + 1)}
<1>1. Len(sent) \in Nat /\ j \in Nat /\ k \in Nat /\ j >= 1
  BY LenProperties
<1>2. ASSUME NEW i \in Nat, i >= 1, i <= Len(sent)
      PROVE  Start(i) \in Nat /\ Start(i + 1) \in Nat /\ Start(i) + 2 <= Start(i + 1)
  <2>1. i \in 1 .. Len(sent) /\ i \in 1 .. Len(sent) + 1 /\ i + 1 \in 1 .. Len(sent) + 1
    BY <1>1, <1>2
  <2> QED
    BY <2>1, StartStep
<1>3. 0 \in S
  <2>1. j + 0 + 1 = j + 1
    BY <1>1
  <2>2. j + 1 <= Len(sent) + 1 => Start(j) + 2 <= Start(j + 1)
    BY <1>1, <1>2
  <2> QED
    BY <2>1, <2>2
<1>4. ASSUME NEW m \in Nat, m \in S PROVE m + 1 \in S
  <2>1. SUFFICES ASSUME j + (m + 1) + 1 <= Len(sent) + 1
                 PROVE  Start(j) + 2 <= Start(j + (m + 1) + 1)
    OBVIOUS
  <2> HIDE DEF S
  <2>2. j + m + 1 <= Len(sent) + 1
    BY <1>1, <2>1
  <2>3. Start(j) + 2 <= Start(j + m + 1)
    BY <1>4, <2>2 DEF S
  <2> DEFINE i == j + m + 1
  <2>4. i \in Nat /\ i >= 1 /\ i <= Len(sent) /\ j + (m + 1) + 1 = i + 1
    BY <1>1, <2>1
  <2> HIDE DEF i
  <2>5. Start(i) \in Nat /\ Start(i + 1) \in Nat /\ Start(i) + 2 <= Start(i + 1)
    BY <1>2, <2>4
  <2>6. Start(j) \in Nat
    BY StartStep
  <2>7. Start(j) + 2 <= Start(i)
    BY <2>3 DEF i
  <2>8. Start(j) + 2 <= Start(i + 1)
    BY <2>5, <2>6, <2>7
  <2> QED
    BY <2>4, <2>8
<1> HIDE DEF S
<1>5. (k - j) - 1 \in Nat /\ j + ((k - j) - 1) + 1 = k
  BY <1>1
<1>6. (k - j) - 1 \in S
  BY <1>3, <1>4, <1>5, SetInduction
<1> QED
  BY <1>1, <1>5, <1>6 DEF S

\* Each frame is found in the body that was sent, where it starts.
LEMMA FrameStands ==
    ASSUME sent \in Seq(Frames), NEW k \in 1 .. Len(sent)
    PROVE  Stands(Encoded(sent), Start(k), Encoding(sent[k]))
<1> DEFINE e == Encoding(sent[k])
           S == {m \in Nat : k + m <= Len(sent) => Stands(UpTo(k + m), Start(k), e)}
<1>1. Len(sent) \in Nat /\ k \in Nat /\ k >= 1 /\ k <= Len(sent)
  BY LenProperties
<1>2. Start(k) = Len(UpTo(k - 1)) /\ Start(k) \in Nat
  BY <1>1, StartStep DEF Start, UpTo
<1>3. e \in Seq(Nat)
  BY StartStep, FrameMeant
<1> HIDE DEF e
<1>4. 0 \in S
  <2>1. k - 1 \in 0 .. Len(sent) - 1 /\ (k - 1) + 1 = k /\ k + 0 = k
    BY <1>1
  <2>2. UpTo(k - 1) \in Seq(Nat) /\ UpTo(k) = UpTo(k - 1) \o e
    BY <2>1, UpToStep DEF e
  <2>3. Stands(UpTo(k), Start(k), e)
    BY <1>2, <1>3, <2>2, ConcatStands
  <2> QED
    BY <2>1, <2>3
<1>5. ASSUME NEW m \in Nat, m \in S PROVE m + 1 \in S
  <2>1. SUFFICES ASSUME k + (m + 1) <= Len(sent)
                 PROVE  Stands(UpTo(k + (m + 1)), Start(k), e)
    OBVIOUS
  <2> HIDE DEF S
  <2>2. k + m <= Len(sent) /\ k + m \in 0 .. Len(sent) - 1 /\ k + (m + 1) = (k + m) + 1
    BY <1>1, <2>1
  <2>3. Stands(UpTo(k + m), Start(k), e)
    BY <1>5, <2>2 DEF S
  <2> DEFINE p == UpTo(k + m)
             f == Encoding(sent[(k + m) + 1])
  <2>4. p \in Seq(Nat) /\ f \in Seq(Nat) /\ UpTo((k + m) + 1) = p \o f
    BY <2>2, UpToStep
  <2> HIDE DEF p, f
  <2>5. p \o f \in Seq(Nat) /\ Stands(p \o f, 0, p)
    BY <2>4, ConcatStands
  <2>6. Stands(p \o f, 0 + Start(k), e)
    BY <1>2, <1>3, <2>3, <2>4, <2>5, StandsWithin DEF p
  <2>7. 0 + Start(k) = Start(k)
    BY <1>2
  <2> QED
    BY <2>2, <2>4, <2>6, <2>7
<1> HIDE DEF S
<1>6. Len(sent) - k \in Nat /\ k + (Len(sent) - k) = Len(sent)
  BY <1>1
<1>7. Len(sent) - k \in S
  BY <1>4, <1>5, <1>6, SetInduction
<1>8. Stands(UpTo(Len(sent)), Start(k), e)
  BY <1>1, <1>6, <1>7 DEF S
<1> QED
  BY <1>8, UpToEnds DEF e

-----------------------------------------------------------------------------
(* Damage stays in its own frame.                                           *)
\* The body is what was sent, but for the damaged unit.
BodyInv ==
    /\ sent \in Seq(Frames)
    /\ damaged \in Nat
    /\ Len(body) = Len(Encoded(sent))
    /\ \A i \in 1 .. Len(body) : i # damaged => body[i] = Encoded(sent)[i]

\* The first j frames are returned, but for the damaged one, which is returned
\* as something or left out.
Returned(j) ==
    \/ /\ Len(messages) = j
       /\ \A k \in (1 .. j) \ DamagedFrame : messages[k] = Meanings[k]
       /\ damaged = 0 => errorCount = 0
    \/ \E d \in DamagedFrame :
          d <= j /\ messages = RemoveAt(SubSeq(Meanings, 1, j), d)

\* The parser is at the start of a frame.
PlaceInv ==
    FramingIntact => \E j \in 0 .. Len(sent) : read = Start(j + 1) /\ Returned(j)

\* At most one unit is damaged.
LEMMA InitBody == FramingInit => BodyInv
<1> SUFFICES ASSUME FramingInit PROVE BodyInv
  OBVIOUS
<1>1. sent \in Seq(Frames)
  <2>1. PICK n \in 0 .. MaxFrames : sent \in [1 .. n -> Frames]
    BY DEF FramingInit, SeqOf
  <2>2. n \in Nat
    BY <2>1, SizeAssumption
  <2> QED
    BY <2>1, <2>2, SeqDef
<1>2. Encoded(sent) \in Seq(Nat) /\ Len(Encoded(sent)) \in Nat
  BY EncodedType, SentType, LenProperties
<1> DEFINE e == Encoded(sent)
<1>3. CASE damaged = 0 /\ body = e
  BY <1>1, <1>2, <1>3 DEF BodyInv
<1>4. ASSUME NEW u \in Units, damaged \in 1 .. Len(e), body = [e EXCEPT ![damaged] = u]
      PROVE  BodyInv
  <2>1. Len(body) = Len(e) /\ body \in Seq(Nat)
    BY <1>2, <1>4, SizeAssumption, ExceptSeq
  <2>2. \A i \in 1 .. Len(e) : i # damaged => body[i] = e[i]
    BY <1>2, <1>4, ExceptSeq, SizeAssumption
  <2>3. damaged \in Nat
    BY <1>2, <1>4
  <2> HIDE DEF e
  <2> QED
    BY <1>1, <2>1, <2>2, <2>3 DEF BodyInv, e
<1> QED
  BY <1>3, <1>4 DEF FramingInit

\* No step touches the body.
LEMMA NextBody == BodyInv /\ [FramingNext]_framingVars => BodyInv'
<1> SUFFICES ASSUME BodyInv, [FramingNext]_framingVars PROVE BodyInv'
  OBVIOUS
<1>1. UNCHANGED <<sent, damaged, body>>
  <2>1. ASSUME NEW n \in 1 .. Len(body), ParseStream(n) PROVE UNCHANGED <<sent, damaged, body>>
    BY <2>1 DEF ParseStream
  <2> QED
    BY <2>1 DEF FramingNext, framingVars, SkipInvalid, WaitForMore, TakeMessage
<1> QED
  BY <1>1 DEF BodyInv

\* A unit is in one frame.
LEMMA OneDamaged ==
    ASSUME BodyInv, NEW c \in DamagedFrame, NEW d \in DamagedFrame PROVE c = d
<1>1. sent \in Seq(Frames) /\ damaged \in Nat /\ Len(sent) \in Nat
  BY LenProperties DEF BodyInv
<1>2. ASSUME NEW x \in DamagedFrame, NEW y \in DamagedFrame PROVE ~(x < y)
  <2>1. /\ x \in 1 .. Len(sent) /\ y \in 1 .. Len(sent)
        /\ damaged > Start(y) /\ damaged <= Start(x + 1)
    BY DEF DamagedFrame
  <2>2. SUFFICES ASSUME x < y PROVE FALSE
    OBVIOUS
  <2>3. /\ y \in 1 .. Len(sent) + 1 /\ x + 1 \in 1 .. Len(sent) + 1
        /\ (x + 1 = y \/ x + 1 < y)
    BY <1>1, <2>1, <2>2
  <2>4. Start(y) \in Nat /\ Start(x + 1) \in Nat
    BY <1>1, <2>3, StartStep
  <2>5. Start(x + 1) <= Start(y)
    BY <1>1, <2>3, <2>4, StartOrder
  <2> QED
    BY <1>1, <2>1, <2>4, <2>5
<1>3. c \in Nat /\ d \in Nat
  BY <1>1 DEF DamagedFrame
<1> QED
  BY <1>2, <1>3

\* A frame is in the body as it was sent, or is the damaged one, and its first
\* unit is its length.
LEMMA FrameArrives ==
    ASSUME BodyInv, body \in Seq(Nat), NEW k \in 1 .. Len(sent)
    PROVE  /\ Start(k) \in Nat /\ Start(k) + Len(Encoding(sent[k])) <= Len(body)
           /\ k \notin DamagedFrame => Stands(body, Start(k), Encoding(sent[k]))
           /\ FramingIntact => body[Start(k) + 1] = Len(Encoding(sent[k]))
<1> DEFINE e == Encoding(sent[k])
           p == Start(k)
<1>1. /\ sent \in Seq(Frames) /\ damaged \in Nat /\ Len(body) = Len(Encoded(sent))
      /\ \A i \in 1 .. Len(body) : i # damaged => body[i] = Encoded(sent)[i]
      /\ Len(body) \in Nat
  BY LenProperties DEF BodyInv
<1>2. /\ sent[k] \in Frames /\ Len(e) \in Nat /\ Len(e) >= 2 /\ Start(k + 1) = p + Len(e)
      /\ p \in Nat
  <2>1. k \in 1 .. Len(sent) + 1
    BY <1>1, LenProperties
  <2> QED
    BY <1>1, <2>1, StartStep
<1>3. e[1] = Len(e)
  BY <1>2, FrameMeant
<1>4. p + Len(e) <= Len(body) /\ \A i \in 1 .. Len(e) : Encoded(sent)[p + i] = e[i]
  BY <1>1, FrameStands DEF Stands
<1>5. k \notin DamagedFrame <=> ~(damaged > p /\ damaged <= p + Len(e))
  BY <1>2 DEF DamagedFrame
<1>6. FramingIntact => damaged # p + 1
  BY DEF FramingIntact
<1> HIDE DEF e, p
<1>7. ASSUME k \notin DamagedFrame PROVE Stands(body, p, e)
  <2>1. ASSUME NEW i \in 1 .. Len(e) PROVE body[p + i] = e[i]
    <3>1. p + i \in 1 .. Len(body) /\ p + i # damaged
      BY <1>1, <1>2, <1>4, <1>5, <1>7
    <3> QED
      BY <1>1, <1>4, <3>1
  <2> QED
    BY <1>4, <2>1 DEF Stands
<1>8. ASSUME FramingIntact PROVE body[p + 1] = Len(e)
  <2>1. p + 1 \in 1 .. Len(body) /\ p + 1 # damaged /\ 1 \in 1 .. Len(e)
    BY <1>1, <1>2, <1>4, <1>6, <1>8
  <2> QED
    BY <1>1, <1>3, <1>4, <2>1
<1> QED
  BY <1>2, <1>4, <1>7, <1>8 DEF e, p

\* What the frames mean are messages.
LEMMA MeaningsType ==
    ASSUME sent \in Seq(Frames)
    PROVE  /\ Meanings \in Seq(MessageType) /\ Len(Meanings) = Len(sent)
           /\ \A k \in 1 .. Len(sent) : Meanings[k] = Meaning(sent[k])
<1>1. Len(sent) \in Nat /\ \A k \in 1 .. Len(sent) : sent[k] \in Frames
  BY LenProperties, ElementOfSeq
<1>2. ASSUME NEW k \in 1 .. Len(sent) PROVE Meaning(sent[k]) \in MessageType
  <2> DEFINE d == Encoding(sent[k])
  <2>1. /\ d \in Seq(Nat) /\ Len(d) >= 2 /\ ~HeaderTooLong(d)
        /\ Message(d, HeaderStateAfter(d)) = Meaning(sent[k])
    BY <1>1, FrameMeant
  <2> HIDE DEF d
  <2>2. Message(d, HeaderStateAfter(d)) \in MessageType
    BY <2>1, MessageTyped
  <2> QED
    BY <2>1, <2>2
<1>3. Meanings = [k \in 1 .. Len(sent) |-> Meaning(sent[k])]
  BY DEF Meanings
<1> QED
  BY <1>1, <1>2, <1>3, IsASeq

\* The parser begins at the start of the first frame.
LEMMA InitPlace == FramingInit => PlaceInv
<1> SUFFICES ASSUME FramingInit PROVE PlaceInv
  OBVIOUS
<1>1. read = 0 /\ messages = <<>> /\ errorCount = 0
  BY DEF FramingInit
<1>2. sent \in Seq(Frames)
  BY InitBody DEF BodyInv
<1>3. 0 \in 0 .. Len(sent) /\ 0 + 1 = 1
  BY <1>2, LenProperties
<1>4. Start(0 + 1) = 0
  BY <1>2, <1>3, StartStep
<1>5. Returned(0)
  BY <1>1 DEF Returned
<1> QED
  BY <1>1, <1>3, <1>4, <1>5 DEF PlaceInv

\* With two units in the buffer at the start of a frame, a frame is there.
LEMMA AtFrame ==
    ASSUME BufferShape, BodyInv, FramingIntact, NEW j \in 0 .. Len(sent),
           read = Start(j + 1), Available >= 2
    PROVE  /\ j + 1 \in 1 .. Len(sent)
           /\ TotalLength = Len(Encoding(sent[j + 1]))
           /\ ~LengthInvalid(TotalLength)
           /\ Start(j + 2) = Start(j + 1) + TotalLength
<1>1. /\ sent \in Seq(Frames) /\ Len(sent) \in Nat /\ Len(body) = Len(Encoded(sent))
      /\ body \in Seq(Nat) /\ Len(body) \in Nat
      /\ received \in 0 .. Len(body) /\ read \in 0 .. received
  BY LenProperties DEF BodyInv, BufferShape
<1>2. j # Len(sent)
  <2>1. SUFFICES ASSUME j = Len(sent) PROVE FALSE
    OBVIOUS
  <2>2. Start(j + 1) = Len(body)
    BY <1>1, <2>1, StartStep
  <2> QED
    BY <1>1, <2>2 DEF Available
<1>3. j + 1 \in 1 .. Len(sent) /\ (j + 1) + 1 = j + 2
  BY <1>1, <1>2
<1>4. TotalLength = Len(Encoding(sent[j + 1]))
  BY <1>1, <1>3, FrameArrives DEF TotalLength
<1>5. sent[j + 1] \in Frames /\ Start(j + 2) = Start(j + 1) + Len(Encoding(sent[j + 1]))
  BY <1>1, <1>3, StartStep
<1>6. ~LengthInvalid(TotalLength)
  BY <1>4, <1>5, FrameMeant
<1> QED
  BY <1>3, <1>4, <1>5, <1>6

\* What is returned after one frame more.
LEMMA ReturnedNext ==
    ASSUME BufferShape, BodyInv, FramingTypeInv, FramingIntact, TakeMessage,
           NEW j \in 0 .. Len(sent), read = Start(j + 1), Returned(j)
    PROVE  Returned(j + 1)'
<1> DEFINE k == j + 1
           units == Piece(body, read)
           m == Message(units, HeaderStateAfter(units))
<1>1. /\ sent \in Seq(Frames) /\ Len(sent) \in Nat /\ damaged \in Nat
      /\ body \in Seq(Nat) /\ j \in Nat
  BY LenProperties DEF BodyInv, BufferShape
<1>2. messages \in Seq(MessageType) /\ Len(messages) \in Nat
  BY LenProperties DEF FramingTypeInv
<1>3. /\ k \in 1 .. Len(sent) /\ TotalLength = Len(Encoding(sent[k]))
      /\ read = Start(k)
  BY AtFrame DEF TakeMessage, MinSize
<1>4. units \in Seq(Nat) /\ Len(units) >= 2
  BY TakenData
<1>5. /\ UNCHANGED <<sent, damaged>>
      /\ \/ HeaderTooLong(units) /\ UNCHANGED messages /\ errorCount' = errorCount + 1
         \/ ~HeaderTooLong(units) /\ messages' = Append(messages, m) /\ UNCHANGED errorCount
  BY DEF TakeMessage, Piece, TotalLength
<1>6. /\ Meanings \in Seq(MessageType) /\ Len(Meanings) = Len(sent)
      /\ Meanings[k] = Meaning(sent[k])
  BY <1>1, <1>3, MeaningsType
<1>7. ~HeaderTooLong(units) => m \in MessageType
  BY <1>4, MessageTyped
<1>8. DamagedFrame' = DamagedFrame /\ Meanings' = Meanings
  BY <1>5 DEF DamagedFrame, Start, Meanings
<1> DEFINE before == SubSeq(Meanings, 1, j)
           after == SubSeq(Meanings, 1, k)
<1>9. /\ before \in Seq(MessageType) /\ Len(before) = j
      /\ \A i \in 1 .. j : before[i] = Meanings[i]
      /\ Meanings[k] \in MessageType /\ after = Append(before, Meanings[k])
  <2>1. j \in 0 .. Len(Meanings) - 1 /\ j <= Len(Meanings)
    BY <1>1, <1>3, <1>6
  <2>2. /\ before \in Seq(MessageType) /\ Meanings[k] \in MessageType
        /\ after = Append(before, Meanings[k])
    BY <1>6, <2>1, PrefixStep
  <2> QED
    BY <1>1, <1>6, <2>1, <2>2
<1>10. ASSUME k \notin DamagedFrame
       PROVE  ~HeaderTooLong(units) /\ m = Meanings[k]
  <2>1. Stands(body, Start(k), Encoding(sent[k])) /\ Start(k) \in Nat
    BY <1>1, <1>3, <1>10, FrameArrives
  <2>2. /\ sent[k] \in Frames /\ Encoding(sent[k]) \in Seq(Nat)
        /\ ~HeaderTooLong(Encoding(sent[k]))
        /\ Message(Encoding(sent[k]), HeaderStateAfter(Encoding(sent[k]))) = Meaning(sent[k])
    BY <1>1, <1>3, StartStep, FrameMeant
  <2>3. SubSeq(body, Start(k) + 1, Start(k) + Len(Encoding(sent[k]))) = Encoding(sent[k])
    BY <1>1, <2>1, <2>2, StandsSubSeq
  <2>4. units = Encoding(sent[k])
    BY <1>3, <2>3 DEF Piece, TotalLength
  <2> QED
    BY <1>6, <2>2, <2>4
<1> HIDE DEF units, m, k, before, after
<1>11. k = j + 1
  BY DEF k
<1>12. Returned(k)' <=>
          \/ /\ Len(messages') = k
             /\ \A i \in (1 .. k) \ DamagedFrame : messages'[i] = Meanings[i]
             /\ damaged = 0 => errorCount' = 0
          \/ \E d \in DamagedFrame : d <= k /\ messages' = RemoveAt(after, d)
  BY <1>5, <1>8 DEF Returned, after
<1>13. CASE /\ Len(messages) = j
            /\ \A i \in (1 .. j) \ DamagedFrame : messages[i] = Meanings[i]
            /\ damaged = 0 => errorCount = 0
  <2>1. ASSUME ~HeaderTooLong(units), k \in DamagedFrame \/ m = Meanings[k]
        PROVE  Returned(k)'
    <3>1. /\ messages' = Append(messages, m) /\ UNCHANGED errorCount
          /\ m \in MessageType
      BY <1>5, <1>7, <2>1
    <3>2. /\ Len(messages') = j + 1 /\ messages'[j + 1] = m
          /\ \A i \in 1 .. j : messages'[i] = messages[i]
      BY <1>2, <1>13, <3>1, AppendProperties
    <3>3. \A i \in 1 .. k : i \in 1 .. j \/ i = k
      BY <1>1, <1>11
    <3> QED
      BY <1>11, <1>12, <1>13, <2>1, <3>1, <3>2, <3>3
  <2>2. ASSUME HeaderTooLong(units), k \in DamagedFrame PROVE Returned(k)'
    <3>1. \A i \in 1 .. j : i \notin DamagedFrame
      <4>1. SUFFICES ASSUME NEW i \in 1 .. j, i \in DamagedFrame PROVE FALSE
        OBVIOUS
      <4>2. i = k
        BY <2>2, <4>1, OneDamaged
      <4> QED
        BY <1>1, <1>11, <4>1, <4>2
    <3>2. \A i \in 1 .. j : messages[i] = before[i]
      BY <1>9, <1>13, <3>1
    <3>3. messages = before
      BY <1>2, <1>9, <1>13, <3>2, SeqEqual
    <3>4. RemoveAt(after, k) = before
      BY <1>9, <1>11, RemoveLast
    <3>5. UNCHANGED messages /\ k <= k
      BY <1>1, <1>5, <1>11, <2>2
    <3> QED
      BY <1>12, <2>2, <3>3, <3>4, <3>5
  <2> QED
    BY <1>10, <1>11, <2>1, <2>2
<1>14. ASSUME NEW d \in DamagedFrame, d <= j, messages = RemoveAt(before, d)
       PROVE  Returned(k)'
  <2>1. d \in 1 .. j /\ d <= k
    BY <1>1, <1>11, <1>14 DEF DamagedFrame
  <2>2. k \notin DamagedFrame
    <3>1. SUFFICES ASSUME k \in DamagedFrame PROVE FALSE
      OBVIOUS
    <3>2. k = d
      BY <3>1, OneDamaged
    <3> QED
      BY <1>1, <1>11, <2>1, <3>2
  <2>3. messages' = Append(messages, Meanings[k])
    BY <1>5, <1>10, <2>2
  <2>4. RemoveAt(after, d) = Append(RemoveAt(before, d), Meanings[k])
    BY <1>9, <2>1, RemoveEarlier
  <2> QED
    BY <1>12, <1>14, <2>1, <2>3, <2>4
<1> QED
  BY <1>11, <1>13, <1>14 DEF Returned, before

\* A message that is taken ends where the next frame starts.
LEMMA NextPlace ==
    /\ BufferInv /\ BodyInv /\ FramingTypeInv /\ PlaceInv /\ [FramingNext]_framingVars
    => PlaceInv'
<1> SUFFICES ASSUME BufferInv, BodyInv, FramingTypeInv, PlaceInv, [FramingNext]_framingVars,
                    FramingIntact'
             PROVE  \E j \in 0 .. Len(sent') : (read = Start(j + 1) /\ Returned(j))'
  BY DEF PlaceInv
<1>1. BufferShape
  BY DEF BufferInv
<1>2. UNCHANGED <<sent, damaged, body>>
  <2>1. ASSUME NEW n \in 1 .. Len(body), ParseStream(n) PROVE UNCHANGED <<sent, damaged, body>>
    BY <2>1 DEF ParseStream
  <2> QED
    BY <2>1 DEF FramingNext, framingVars, SkipInvalid, WaitForMore, TakeMessage
<1>3. FramingIntact
  BY <1>2 DEF FramingIntact, Start
<1>4. PICK j \in 0 .. Len(sent) : read = Start(j + 1) /\ Returned(j)
  BY <1>3 DEF PlaceInv
<1>5. ASSUME UNCHANGED <<read, messages, errorCount>>
      PROVE  (read = Start(j + 1) /\ Returned(j))'
  BY <1>2, <1>4, <1>5 DEF Start, Returned, DamagedFrame, Meanings
<1>6. ASSUME NEW n \in 1 .. Len(body), ParseStream(n)
      PROVE  UNCHANGED <<read, messages, errorCount>>
  BY <1>6 DEF ParseStream
<1>7. CASE SkipInvalid
  <2>1. Available >= 2 /\ LengthInvalid(TotalLength)
    BY <1>7 DEF SkipInvalid, MinSize
  <2> QED
    BY <1>1, <1>3, <1>4, <2>1, AtFrame
<1>8. CASE WaitForMore
  BY <1>2, <1>4, <1>5, <1>8 DEF WaitForMore
<1>9. CASE TakeMessage
  <2>1. Available >= 2 /\ read' = read + TotalLength
    BY <1>9 DEF TakeMessage, MinSize
  <2>2. j + 1 \in 1 .. Len(sent) /\ Start(j + 2) = Start(j + 1) + TotalLength
    BY <1>1, <1>3, <1>4, <2>1, AtFrame
  <2>3. Returned(j + 1)'
    BY <1>1, <1>3, <1>4, <1>9, ReturnedNext
  <2>4. Start(j + 2)' = Start(j + 2)
    BY <1>2 DEF Start
  <2>5. j + 1 \in 0 .. Len(sent') /\ (j + 1) + 1 = j + 2
    BY <1>2, <2>2
  <2> QED
    BY <1>4, <2>1, <2>2, <2>3, <2>4, <2>5
<1>10. CASE UNCHANGED framingVars
  BY <1>2, <1>4, <1>5, <1>10 DEF framingVars
<1> QED
  BY <1>2, <1>4, <1>5, <1>6, <1>7, <1>8, <1>9, <1>10 DEF FramingNext

\* When the loop has nothing more to do at the start of a frame, the frames
\* before it are those that have arrived.
LEMMA ArrivedBefore ==
    ASSUME BufferShape, BodyInv, FramingIntact, Exhausted, NEW j \in 0 .. Len(sent),
           read = Start(j + 1)
    PROVE  Arrived = 1 .. j
<1>1. /\ sent \in Seq(Frames) /\ Len(sent) \in Nat /\ Len(body) \in Nat
      /\ received \in 0 .. Len(body) /\ read \in 0 .. received
  BY LenProperties DEF BodyInv, BufferShape
<1>2. \A k \in 1 .. Len(sent) + 1 : Start(k) \in Nat
  BY <1>1, StartStep
<1>3. ASSUME j < Len(sent) PROVE received < Start(j + 2)
  <2>1. CASE Available < 2
    <3>1. j + 1 \in 1 .. Len(sent) + 1 /\ j + 2 \in 1 .. Len(sent) + 1 /\ j + 1 < j + 2
      BY <1>1, <1>3
    <3>2. Start(j + 1) + 2 <= Start(j + 2)
      BY <1>1, <3>1, StartOrder
    <3> QED
      BY <1>1, <1>2, <2>1, <3>1, <3>2 DEF Available
  <2>2. CASE Available >= 2 /\ Available < TotalLength
    <3>1. /\ TotalLength = Len(Encoding(sent[j + 1])) /\ j + 1 \in 1 .. Len(sent)
          /\ Start(j + 2) = Start(j + 1) + TotalLength
      BY <2>2, AtFrame
    <3>2. TotalLength \in Nat
      BY <1>1, <3>1, StartStep
    <3> HIDE DEF TotalLength
    <3> QED
      BY <1>1, <2>2, <3>1, <3>2 DEF Available
  <2> QED
    BY <2>1, <2>2 DEF Exhausted
<1>4. ASSUME NEW k \in 1 .. Len(sent) PROVE Start(k + 1) <= received <=> k \in 1 .. j
  <2>1. k + 1 \in 1 .. Len(sent) + 1 /\ j + 1 \in 1 .. Len(sent) + 1
    BY <1>1
  <2>2. Start(k + 1) \in Nat /\ Start(j + 1) \in Nat
    BY <1>2, <2>1
  <2>3. CASE k <= j
    <3>1. k = j \/ k + 1 < j + 1
      BY <1>1, <2>3
    <3>2. Start(k + 1) <= Start(j + 1)
      BY <1>1, <2>1, <2>2, <3>1, StartOrder
    <3> QED
      BY <1>1, <2>2, <2>3, <3>2
  <2>4. CASE k > j
    <3>1. /\ j < Len(sent) /\ j + 2 \in 1 .. Len(sent) + 1
          /\ (k + 1 = j + 2 \/ j + 2 < k + 1)
      BY <1>1, <2>4
    <3>2. Start(j + 2) \in Nat /\ Start(j + 2) <= Start(k + 1)
      BY <1>1, <1>2, <2>1, <2>2, <3>1, StartOrder
    <3>3. received < Start(k + 1)
      BY <1>1, <1>3, <2>2, <3>1, <3>2
    <3> QED
      BY <1>1, <2>2, <2>4, <3>3
  <2> QED
    BY <1>1, <2>3, <2>4
<1>5. \A k \in 1 .. j : k \in 1 .. Len(sent)
  BY <1>1
<1> QED
  BY <1>4, <1>5 DEF Arrived

\* Damage that spares the total lengths costs at most the frame it is in, and
\* a body that is not damaged is returned whole, for every choice of frames and
\* every place and kind of damage (robust_parser.go:118-187, 401-406).
THEOREM DamageContainedHolds == FramingSpec => []DamageContained
<1>1. BufferInv /\ BodyInv /\ ChunkInv /\ PlaceInv => DamageContained
  <2> SUFFICES ASSUME BufferInv, BodyInv, ChunkInv, PlaceInv, ~parsing, FramingIntact
               PROVE  \E n \in 0 .. Len(sent) :
                         /\ Arrived = 1 .. n
                         /\ \/ /\ Len(messages) = n
                               /\ \A k \in (1 .. n) \ DamagedFrame : messages[k] = Meanings[k]
                               /\ damaged = 0 => errorCount = 0
                            \/ \E d \in DamagedFrame \cap Arrived :
                                  messages = RemoveAt(SubSeq(Meanings, 1, n), d)
    BY DEF DamageContained
  <2>1. PICK j \in 0 .. Len(sent) : read = Start(j + 1) /\ Returned(j)
    BY DEF PlaceInv
  <2>2. Exhausted
    BY DEF ChunkInv
  <2>3. Arrived = 1 .. j
    BY <2>1, <2>2, ArrivedBefore DEF BufferInv
  <2>4. \A d \in DamagedFrame : d <= j => d \in 1 .. j
    BY DEF DamagedFrame
  <2> QED
    BY <2>1, <2>3, <2>4 DEF Returned
<1> QED
  BY InitBuffer, NextBuffer, InitFramingType, NextFramingType, InitChunk, NextChunk,
     InitBody, NextBody, InitPlace, NextPlace, <1>1, PTL DEF FramingSpec

-----------------------------------------------------------------------------
(* What the admin store promised survives a save that fails or is cut off.  *)
Promised == file = Whole(promised) \/ (file = Absent /\ promised = DefaultData)

\* What holds at each point of a save.  The temporary file is whole when it is
\* renamed, and until then the file is as promised.
SaveInv ==
    /\ pc \in {"down", "idle", "create", "write", "rename", "reply"}
    /\ pc \in {"create", "write", "rename"} => ~saved
    /\ pc = "rename" => tmp = Whole(data)
    /\ pc \in {"idle", "create", "write", "rename"} => Promised
    /\ pc \in {"reply", "down"} => Promised \/ (saved /\ file = Whole(data))
    /\ pc = "reply" /\ saved => file = Whole(data)

\* The store starts down, without a file.
LEMMA InitSave == Init => SaveInv
  BY DEF Init, SaveInv, Promised

\* Every operation leaves the file alone and starts a save.
LEMMA OperationStartsSave ==
  ASSUME Operation
  PROVE  /\ pc = "idle" /\ pc' = "create" /\ saved' = FALSE
         /\ UNCHANGED <<file, tmp, promised>>
<1>1. ASSUME NEW new, Change(new)
      PROVE  /\ pc = "idle" /\ pc' = "create" /\ saved' = FALSE
             /\ UNCHANGED <<file, tmp, promised>>
  BY <1>1 DEF Change
<1>2. ASSUME NEW tokens, ChangeTokens(tokens)
      PROVE  /\ pc = "idle" /\ pc' = "create" /\ saved' = FALSE
             /\ UNCHANGED <<file, tmp, promised>>
  BY <1>1, <1>2 DEF ChangeTokens
<1>3. ASSUME NEW t \in Token, AddToken(t)
      PROVE  ChangeTokens(Append(data.tokens, t))
  BY <1>3 DEF AddToken
<1>4. ASSUME NEW id \in Ids, NEW t \in Given, UpdateToken(id, t)
      PROVE  ChangeTokens([data.tokens EXCEPT ![First(id)] = Updated(@, t)])
  BY <1>4 DEF UpdateToken
<1>5. ASSUME NEW id \in Ids, DeleteToken(id)
      PROVE  \E tokens : ChangeTokens(tokens)
  BY <1>5 DEF DeleteToken
<1>6. ASSUME NEW id \in Ids, ToggleToken(id)
      PROVE  ChangeTokens([data.tokens EXCEPT ![First(id)].disabled = ~@])
  BY <1>6 DEF ToggleToken
<1>7. ASSUME NEW tokens, BatchAddTokens(tokens)
      PROVE  ChangeTokens(data.tokens \o Valid(tokens))
  BY <1>7 DEF BatchAddTokens
<1>8. ASSUME NEW tokens, NEW mode, ImportConfig(tokens, mode)
      PROVE  ChangeTokens(Imported(tokens, mode))
  BY <1>8 DEF ImportConfig
<1>9. ASSUME ClearAllTokens PROVE ChangeTokens(<<>>)
  BY <1>9 DEF ClearAllTokens
<1>10. ASSUME NEW s \in SessionTokens, CreateSession(s)
       PROVE  Change([data EXCEPT !.sessions = @ \cup {s}])
  BY <1>10 DEF CreateSession
<1>11. ASSUME NEW S \in SUBSET SessionTokens, DropSessions(S)
       PROVE  Change([data EXCEPT !.sessions = @ \ S])
  BY <1>11 DEF DropSessions
<1>12. ASSUME NEW p \in Passwords, UpdateAdminPassword(p)
       PROVE  Change([data EXCEPT !.password = p])
  BY <1>12 DEF UpdateAdminPassword
<1> QED
  BY <1>1, <1>2, <1>3, <1>4, <1>5, <1>6, <1>7, <1>8, <1>9, <1>10, <1>11, <1>12
  DEF Operation

\* Each step of a save, and what may come between two of them.
LEMMA NextSave == SaveInv /\ [Next]_storeVars => SaveInv'
<1> SUFFICES ASSUME SaveInv, [Next]_storeVars PROVE SaveInv'
  OBVIOUS
<1>1. CASE Load
  <2>1. file = Whole(file.data) \/ file = Absent
    BY <1>1 DEF Load, SaveInv, Promised, Whole
  <2>2. file # Absent => Whole(file.data) # Absent
    BY DEF Whole, Absent
  <2>3. promised' = file.data /\ file' = file /\ saved' = FALSE
        /\ pc' = IF file = Absent THEN "create" ELSE "idle"
    BY <1>1 DEF Load
  <2>4. Promised'
    BY <2>1, <2>3 DEF Promised, Absent
  <2> QED
    BY <2>3, <2>4 DEF SaveInv
<1>2. CASE Crash
  <2>1. pc' = "down" /\ UNCHANGED <<file, data, promised, saved>> /\ pc # "down"
    BY <1>2 DEF Crash
  <2>2. Promised \/ (saved /\ file = Whole(data))
    BY <2>1 DEF SaveInv
  <2> QED
    BY <2>1, <2>2 DEF SaveInv, Promised
<1>3. CASE Operation
  <2>1. /\ pc = "idle" /\ pc' = "create" /\ saved' = FALSE
        /\ UNCHANGED <<file, tmp, promised>>
    BY <1>3, OperationStartsSave
  <2> QED
    BY <2>1 DEF SaveInv, Promised
<1>4. CASE CreateTemp
  BY <1>4 DEF CreateTemp, SaveInv, Promised
<1>5. CASE WriteTemp
  BY <1>5 DEF WriteTemp, SaveInv, Promised
<1>6. CASE Rename
  BY <1>6 DEF Rename, SaveInv, Promised
<1>7. CASE Reply
  BY <1>7 DEF Reply, Acknowledged, SaveInv, Promised
<1>8. CASE UNCHANGED storeVars
  BY <1>8 DEF storeVars, SaveInv, Promised
<1> QED
  BY <1>1, <1>2, <1>3, <1>4, <1>5, <1>6, <1>7, <1>8 DEF Next

\* What a caller was told is saved is what the file holds, wherever the
\* process stops and whatever system call fails (store.go:133-153).
THEOREM PromiseKeptHolds == Spec => []PromiseKept
<1>1. SaveInv => PromiseKept
  BY DEF SaveInv, Promised, PromiseKept
<1> QED
  BY InitSave, NextSave, <1>1, PTL DEF Spec

-----------------------------------------------------------------------------
(* The data of the store keeps its form through every operation.            *)
\* Among takes members of the set only.
LEMMA AmongType ==
    ASSUME NEW X, NEW s \in Seq(X), NEW S PROVE Among(s, S) \in Seq(X \cap S)
<1> DEFINE n == Len(s)
           Y == Seq(X \cap S)
           Body(g) == [k \in 0 .. n |->
                          IF k = 0 THEN <<>>
                          ELSE IF s[k] \in S THEN Append(g[k - 1], s[k]) ELSE g[k - 1]]
           kept == CHOOSE g : g = Body(g)
           Step == [k \in 1 .. n |-> [x \in Y |-> IF s[k] \in S THEN Append(x, s[k]) ELSE x]]
<1>1. n \in Nat /\ \A k \in 1 .. n : s[k] \in X
  BY LenProperties, ElementOfSeq
<1>2. Among(s, S) = kept[n]
  BY DEF Among
<1>3. <<>> \in Y
  OBVIOUS
<1>4. ASSUME NEW k \in 1 .. n, NEW x \in Y, s[k] \in S PROVE Append(x, s[k]) \in Y
  <2>1. s[k] \in X \cap S
    BY <1>1, <1>4
  <2> HIDE DEF n
  <2> QED
    BY <2>1, AppendProperties
<1> HIDE DEF n, Y, kept, Body
<1>5. Step \in [1 .. n -> [Y -> Y]]
  BY <1>4
<1> HIDE DEF Step
<1>6. PICK g \in [0 .. n -> Y] : Recurs(g, n, <<>>, Step)
  BY <1>1, <1>3, <1>5, Recursion
<1>7. g = Body(g)
  <2>1. ASSUME NEW k \in 1 .. n
        PROVE  g[k] = IF s[k] \in S THEN Append(g[k - 1], s[k]) ELSE g[k - 1]
    <3>1. k - 1 \in 0 .. n
      BY <1>1
    <3>2. g[k - 1] \in Y
      BY <3>1
    <3>3. g[k] = Step[k][g[k - 1]]
      BY <1>6 DEF Recurs
    <3> QED
      BY <3>2, <3>3 DEF Step
  <2>2. g[0] = <<>>
    BY <1>6 DEF Recurs
  <2>3. ASSUME NEW k \in 0 .. n
        PROVE  g[k] = IF k = 0 THEN <<>>
                      ELSE IF s[k] \in S THEN Append(g[k - 1], s[k]) ELSE g[k - 1]
    <3>1. CASE k = 0
      BY <2>2, <3>1
    <3>2. CASE k # 0
      <4>1. k \in 1 .. n
        BY <1>1, <3>2
      <4> QED
        BY <2>1, <3>2, <4>1
    <3> QED
      BY <3>1, <3>2
  <2>4. g = [k \in 0 .. n |-> g[k]]
    OBVIOUS
  <2> QED
    BY <2>3, <2>4 DEF Body
<1>8. kept = Body(kept)
  BY <1>7 DEF kept
<1>9. /\ kept[0] = <<>>
      /\ \A k \in 1 .. n : kept[k] = IF s[k] \in S THEN Append(kept[k - 1], s[k])
                                     ELSE kept[k - 1]
  <2>1. \A k \in 0 .. n :
           kept[k] = IF k = 0 THEN <<>>
                     ELSE IF s[k] \in S THEN Append(kept[k - 1], s[k]) ELSE kept[k - 1]
    BY <1>8 DEF Body
  <2>2. 0 \in 0 .. n /\ \A k \in 1 .. n : k \in 0 .. n /\ k # 0
    BY <1>1
  <2> QED
    BY <2>1, <2>2, Zenon
<1> DEFINE T == {m \in Nat : m <= n => kept[m] \in Y}
<1>10. 0 \in T
  BY <1>3, <1>9
<1>11. ASSUME NEW m \in Nat, m \in T PROVE m + 1 \in T
  <2>1. SUFFICES ASSUME m + 1 <= n PROVE kept[m + 1] \in Y
    OBVIOUS
  <2>2. m + 1 \in 1 .. n /\ (m + 1) - 1 = m /\ m <= n
    BY <1>1, <2>1
  <2>3. kept[m] \in Y
    BY <1>11, <2>2
  <2>4. kept[m + 1] = IF s[m + 1] \in S THEN Append(kept[m], s[m + 1]) ELSE kept[m]
    BY <1>9, <2>2
  <2> QED
    BY <1>4, <2>2, <2>3, <2>4
<1> HIDE DEF T
<1>12. n \in T
  BY <1>1, <1>10, <1>11, SetInduction
<1> QED
  BY <1>1, <1>2, <1>12 DEF T, Y

\* The last element of a sequence is one of its elements.
LEMMA LastType ==
    ASSUME NEW X, NEW s \in Seq(X), s # <<>> PROVE Last(s) \in X
<1>1. Len(s) \in 1 .. Len(s)
  BY LenProperties, EmptySeq
<1> QED
  BY <1>1, ElementOfSeq DEF Last

\* The tokens of a request that have a credential are tokens of the store.
LEMMA ValidType ==
    ASSUME NEW tokens \in SeqOf(Given, MaxTokens) PROVE Valid(tokens) \in Seq(Token)
<1>1. PICK n \in 0 .. MaxTokens : tokens \in [1 .. n -> Given]
  BY DEF SeqOf
<1>2. n \in Nat
  BY <1>1, StoreAssumption
<1>3. tokens \in Seq(Given)
  BY <1>1, <1>2, SeqDef
<1> DEFINE S == {t \in Given : t.credential # NoCredential}
<1>4. Valid(tokens) \in Seq(Given \cap S)
  BY <1>3, AmongType DEF Valid
<1>5. Given \cap S \subseteq Token
  BY DEF Given, Token
<1> HIDE DEF S
<1> QED
  BY <1>4, <1>5, SeqMonotonic

\* The first token of an id is where the loops find it.
LEMMA FirstType ==
    ASSUME NEW id, data.tokens \in Seq(Token), Known(id)
    PROVE  First(id) \in 1 .. Len(data.tokens)
<1> DEFINE I == {i \in 1 .. Len(data.tokens) : data.tokens[i].id = id}
<1>1. I # {} /\ I \in SUBSET Nat
  BY DEF Known
<1>2. First(id) = CHOOSE x \in I : \A y \in I : x <= y
  BY <1>1 DEF First, SelectInSeq, Min
<1>3. \E x \in I : \A y \in I : x <= y
  BY <1>1, LeastMember
<1>4. First(id) \in I
  BY <1>2, <1>3
<1> QED
  BY <1>4

\* A change of one token leaves a sequence of tokens.
LEMMA OneTokenChanged ==
    ASSUME NEW s \in Seq(Token), NEW k \in 1 .. Len(s)
    PROVE  /\ \A t \in Given : [s EXCEPT ![k] = Updated(@, t)] \in Seq(Token)
           /\ [s EXCEPT ![k].disabled = ~@] \in Seq(Token)
           /\ RemoveAt(s, k) \in Seq(Token)
<1>1. s[k] \in Token
  BY ElementOfSeq
<1>2. ASSUME NEW t \in Given PROVE [s EXCEPT ![k] = Updated(@, t)] \in Seq(Token)
  <2>1. Updated(s[k], t) \in Token
    BY <1>1 DEF Updated, Token, Given
  <2> QED
    BY <2>1, ExceptSeq
<1>3. [s EXCEPT ![k].disabled = ~@] \in Seq(Token)
  <2>1. [s[k] EXCEPT !.disabled = ~@] \in Token
    BY <1>1 DEF Token
  <2> QED
    BY <2>1, ExceptSeq
<1>4. RemoveAt(s, k) \in Seq(Token)
  <2>1. \A i \in 1 .. Len(s) : s[i] \in Token
    BY ElementOfSeq
  <2>2. Len(s) \in Nat
    BY LenProperties
  <2>3. SubSeq(s, 1, k - 1) \in Seq(Token)
    <3>1. \A i \in 1 .. k - 1 : s[i] \in Token
      BY <2>1, <2>2
    <3> QED
      BY <2>2, <3>1, SubSeqProperties
  <2>4. SubSeq(s, k + 1, Len(s)) \in Seq(Token)
    <3>1. \A i \in k + 1 .. Len(s) : s[i] \in Token
      BY <2>1, <2>2
    <3> QED
      BY <2>2, <3>1, SubSeqProperties
  <2> QED
    BY <2>3, <2>4, ConcatProperties DEF RemoveAt
<1> QED
  BY <1>2, <1>3, <1>4

\* An import leaves a sequence of tokens, in each of its modes.
LEMMA ImportedType ==
    ASSUME data.tokens \in Seq(Token), NEW tokens \in SeqOf(Given, MaxTokens),
           NEW mode \in {"merge", "update", "replace"}
    PROVE  Imported(tokens, mode) \in Seq(Token)
<1>1. Valid(tokens) \in Seq(Token)
  BY ValidType
<1>2. ASSUME NEW S PROVE Among(Valid(tokens), S) \in Seq(Token)
  <2>1. Among(Valid(tokens), S) \in Seq(Token \cap S)
    BY <1>1, AmongType
  <2> QED
    BY <2>1, SeqMonotonic
<1>3. Unheld(tokens) \in Seq(Token)
  BY <1>2 DEF Unheld
<1>4. ASSUME NEW k PROVE UpdatesFor(k, tokens) \in Seq(Token)
  BY <1>2 DEF UpdatesFor
<1>5. CASE mode = "replace"
  BY <1>1, <1>5 DEF Imported
<1>6. CASE mode = "merge"
  <2>1. Imported(tokens, mode) = data.tokens \o Unheld(tokens)
    BY <1>6 DEF Imported
  <2> QED
    BY <1>3, <2>1, ConcatProperties
<1>7. CASE mode = "update"
  <2> DEFINE At(k) == IF UpdatesFor(k, tokens) = <<>> THEN data.tokens[k]
                      ELSE [data.tokens[k] EXCEPT
                               !.disabled = Last(UpdatesFor(k, tokens)).disabled]
             s == [k \in 1 .. Len(data.tokens) |-> At(k)]
  <2>1. Imported(tokens, mode) = s \o Unheld(tokens)
    BY <1>7 DEF Imported
  <2>2. ASSUME NEW k \in 1 .. Len(data.tokens) PROVE At(k) \in Token
    <3>1. data.tokens[k] \in Token
      BY ElementOfSeq
    <3>2. CASE UpdatesFor(k, tokens) = <<>>
      BY <3>1, <3>2
    <3>3. CASE UpdatesFor(k, tokens) # <<>>
      <4>1. Last(UpdatesFor(k, tokens)) \in Token
        BY <1>4, <3>3, LastType
      <4>2. Last(UpdatesFor(k, tokens)).disabled \in BOOLEAN
        BY <4>1 DEF Token
      <4>3. [data.tokens[k] EXCEPT !.disabled = Last(UpdatesFor(k, tokens)).disabled]
            \in Token
        BY <3>1, <4>2 DEF Token
      <4> QED
        BY <3>3, <4>3
    <3> QED
      BY <3>2, <3>3
  <2> HIDE DEF At
  <2>3. Len(data.tokens) \in Nat
    BY LenProperties
  <2>4. s \in Seq(Token)
    BY <2>2, <2>3, SeqDef
  <2> HIDE DEF s
  <2> QED
    BY <1>3, <2>1, <2>4, ConcatProperties
<1> QED
  BY <1>5, <1>6, <1>7

\* What each operation leaves in memory.
LEMMA OperationType ==
    ASSUME data \in Data, Operation PROVE data' \in Data
<1>1. /\ data.tokens \in Seq(Token) /\ data.sessions \subseteq SessionTokens
      /\ data.password \in Passwords
  BY DEF Data
<1>2. ASSUME NEW new \in Data, Change(new) PROVE data' \in Data
  BY <1>2 DEF Change
<1>3. ASSUME NEW tokens \in Seq(Token), ChangeTokens(tokens) PROVE data' \in Data
  <2>1. [data EXCEPT !.tokens = tokens] \in Data
    BY DEF Data
  <2> QED
    BY <1>2, <1>3, <2>1 DEF ChangeTokens
<1>4. ASSUME NEW t \in Token, AddToken(t) PROVE data' \in Data
  <2>1. Append(data.tokens, t) \in Seq(Token)
    BY <1>1, AppendProperties
  <2> QED
    BY <1>3, <1>4, <2>1 DEF AddToken
<1>5. ASSUME NEW id \in Ids, NEW t \in Given, UpdateToken(id, t) PROVE data' \in Data
  <2>1. First(id) \in 1 .. Len(data.tokens)
    BY <1>1, <1>5, FirstType DEF UpdateToken
  <2>2. [data.tokens EXCEPT ![First(id)] = Updated(@, t)] \in Seq(Token)
    BY <1>1, <2>1, OneTokenChanged
  <2> QED
    BY <1>3, <1>5, <2>2 DEF UpdateToken
<1>6. ASSUME NEW id \in Ids, DeleteToken(id) PROVE data' \in Data
  <2>1. First(id) \in 1 .. Len(data.tokens)
    BY <1>1, <1>6, FirstType DEF DeleteToken
  <2>2. RemoveAt(data.tokens, First(id)) \in Seq(Token)
    BY <1>1, <2>1, OneTokenChanged
  <2> QED
    BY <1>3, <1>6, <2>2 DEF DeleteToken
<1>7. ASSUME NEW id \in Ids, ToggleToken(id) PROVE data' \in Data
  <2>1. First(id) \in 1 .. Len(data.tokens)
    BY <1>1, <1>7, FirstType DEF ToggleToken
  <2>2. [data.tokens EXCEPT ![First(id)].disabled = ~@] \in Seq(Token)
    BY <1>1, <2>1, OneTokenChanged
  <2> QED
    BY <1>3, <1>7, <2>2 DEF ToggleToken
<1>8. ASSUME NEW tokens \in SeqOf(Given, MaxTokens), BatchAddTokens(tokens)
      PROVE  data' \in Data
  <2>1. data.tokens \o Valid(tokens) \in Seq(Token)
    BY <1>1, ValidType, ConcatProperties
  <2> QED
    BY <1>3, <1>8, <2>1 DEF BatchAddTokens
<1>9. ASSUME NEW tokens \in SeqOf(Given, MaxTokens),
             NEW mode \in {"merge", "update", "replace"}, ImportConfig(tokens, mode)
      PROVE  data' \in Data
  BY <1>1, <1>3, <1>9, ImportedType DEF ImportConfig
<1>10. ASSUME ClearAllTokens PROVE data' \in Data
  BY <1>3, <1>10, EmptySeq DEF ClearAllTokens
<1>11. ASSUME NEW s \in SessionTokens, CreateSession(s) PROVE data' \in Data
  <2>1. [data EXCEPT !.sessions = @ \cup {s}] \in Data
    BY DEF Data
  <2> QED
    BY <1>2, <1>11, <2>1 DEF CreateSession
<1>12. ASSUME NEW S \in SUBSET SessionTokens, DropSessions(S) PROVE data' \in Data
  <2>1. [data EXCEPT !.sessions = @ \ S] \in Data
    BY DEF Data
  <2> QED
    BY <1>2, <1>12, <2>1 DEF DropSessions
<1>13. ASSUME NEW p \in Passwords, UpdateAdminPassword(p) PROVE data' \in Data
  <2>1. [data EXCEPT !.password = p] \in Data
    BY DEF Data
  <2> QED
    BY <1>2, <1>13, <2>1 DEF UpdateAdminPassword
<1> QED
  BY <1>4, <1>5, <1>6, <1>7, <1>8, <1>9, <1>10, <1>11, <1>12, <1>13 DEF Operation

\* The data the process starts with.
LEMMA DefaultType == DefaultData \in Data
  BY StoreAssumption, EmptySeq DEF DefaultData, Data

\* The store starts with the default data in memory and no file.
LEMMA InitStoreType == Init => TypeOK
<1>1. /\ Absent \in [state: {"whole", "absent"}, data: Data]
      /\ Absent \in [state: {"whole", "absent", "torn"}, data: Data]
  BY DefaultType DEF Absent
<1> QED
  BY DefaultType, <1>1 DEF Init, TypeOK

\* The types are kept by every step of an operation, of a save and of a start:
\* the file takes what the temporary file holds, which is whole by then.
LEMMA NextStoreType == SaveInv /\ TypeOK /\ [Next]_storeVars => TypeOK'
<1> SUFFICES ASSUME SaveInv, TypeOK, [Next]_storeVars PROVE TypeOK'
  OBVIOUS
<1>1. CASE Load
  BY <1>1 DEF Load, TypeOK
<1>2. CASE Crash
  BY <1>2 DEF Crash, TypeOK
<1>3. CASE Operation
  <2>1. data' \in Data
    BY <1>3, OperationType DEF TypeOK
  <2>2. pc' = "create" /\ saved' = FALSE /\ UNCHANGED <<file, tmp, promised>>
    BY <1>3, OperationStartsSave
  <2> QED
    BY <2>1, <2>2 DEF TypeOK
<1>4. CASE CreateTemp
  <2>1. /\ tmp' \in {tmp, Torn} /\ pc' \in {"write", "reply"}
        /\ UNCHANGED <<data, file, saved, promised>>
    BY <1>4 DEF CreateTemp
  <2> QED
    BY <2>1, DefaultType DEF TypeOK, Torn
<1>5. CASE WriteTemp
  <2>1. /\ tmp' \in {Whole(data), Torn} /\ pc' \in {"rename", "reply"}
        /\ UNCHANGED <<data, file, saved, promised>>
    BY <1>5 DEF WriteTemp
  <2> QED
    BY <2>1, DefaultType DEF TypeOK, Torn, Whole
<1>6. CASE Rename
  <2>1. /\ pc = "rename" /\ file' \in {file, tmp} /\ saved' \in {saved, TRUE}
        /\ tmp' = Absent /\ pc' = "reply" /\ UNCHANGED <<data, promised>>
    BY <1>6 DEF Rename
  <2>2. tmp = Whole(data)
    BY <2>1 DEF SaveInv
  <2> QED
    BY <2>1, <2>2, DefaultType DEF TypeOK, Absent, Whole
<1>7. CASE Reply
  BY <1>7 DEF Reply, TypeOK
<1>8. CASE UNCHANGED storeVars
  BY <1>8 DEF storeVars, TypeOK
<1> QED
  BY <1>1, <1>2, <1>3, <1>4, <1>5, <1>6, <1>7, <1>8 DEF Next

\* Memory, the file and the promise always hold well-formed data: accounts
\* with a credential, sessions, a password; and the file is never one with
\* part of the text (store.go:133-153, and the operations of the store).
THEOREM StoreTypeCorrect == Spec => []TypeOK
  BY InitSave, NextSave, InitStoreType, NextStoreType, PTL DEF Spec
=============================================================================
