------------------------- MODULE UserTokenCacheProofs -------------------------
(***************************************************************************)
(* How far the cache can outgrow its size, and the order drift from the    *)
(* entries, for every set of keys and of requests and every size: each     *)
(* store that went by an outdated lookup costs one entry, and nothing else *)
(* does.                                                                   *)
(***************************************************************************)
EXTENDS UserTokenCache, FiniteSetTheorems, TLAPS

\* Entries in the order, entries the order has lost, and places of the order
\* that stand for no entry of their own.
Kept == Cardinality(Present \cap Listed)
Lost == Cardinality(Present \ Listed)
Stale == Len(order) - Kept

Typed ==
    /\ cache \in [Keys -> {"fresh", "expired", "absent"}]
    /\ order \in Seq(Keys)
    /\ pc \in [Requests -> {"idle", "touch", "refresh"}]
    /\ wanted \in [Requests -> Keys]
    /\ exists \in [Requests -> BOOLEAN]
    /\ outdated \in 0 .. MaxOutdated

\* A stale place at the head is evicted without making room, so an entry too
\* many may take its place: together they are bounded.
Bounded == Lost <= outdated /\ Stale <= outdated /\ Lost + Len(order) <= MaxSize + outdated

CacheInv == Typed /\ Bounded

-----------------------------------------------------------------------------
(* Counting.                                                                *)
LEMMA Parts ==
    ASSUME NEW P, NEW O, IsFiniteSet(P)
    PROVE  /\ IsFiniteSet(P \cap O) /\ IsFiniteSet(P \ O)
           /\ Cardinality(P \cap O) \in Nat /\ Cardinality(P \ O) \in Nat
           /\ Cardinality(P) = Cardinality(P \cap O) + Cardinality(P \ O)
<1>1. (P \cap O) \cup (P \ O) = P /\ (P \cap O) \cap (P \ O) = {}
  OBVIOUS
<1>2. IsFiniteSet(P \cap O) /\ IsFiniteSet(P \ O)
  <2>1. P \cap O \in SUBSET P /\ P \ O \in SUBSET P
    OBVIOUS
  <2> QED
    BY <2>1, FS_Subset
<1>3. Cardinality(P \cap O) \in Nat /\ Cardinality(P \ O) \in Nat
  BY <1>2, FS_CardinalityType
<1>4. Cardinality(P) = Cardinality(P \cap O) + Cardinality(P \ O) - Cardinality({})
  BY <1>1, <1>2, FS_Union
<1>5. Cardinality({}) = 0
  BY FS_EmptySet
<1> QED
  BY <1>2, <1>3, <1>4, <1>5

\* The keys of an order, of its tail, and of one with a key at its end.
KeysOf(s) == {s[i] : i \in DOMAIN s}

LEMMA KeysAppended ==
    ASSUME NEW S, NEW s \in Seq(S), NEW k \in S
    PROVE  /\ s \o <<k>> \in Seq(S) /\ Len(s \o <<k>>) = Len(s) + 1
           /\ KeysOf(s \o <<k>>) = KeysOf(s) \cup {k}
<1> DEFINE t == s \o <<k>>
<1>1. /\ t \in Seq(S) /\ Len(t) = Len(s) + 1 /\ Len(s) \in Nat
      /\ DOMAIN t = 1 .. Len(s) + 1 /\ DOMAIN s = 1 .. Len(s)
      /\ t[Len(s) + 1] = k /\ \A i \in 1 .. Len(s) : t[i] = s[i]
  OBVIOUS
<1> HIDE DEF t
<1>2. ASSUME NEW x PROVE x \in KeysOf(t) <=> x \in KeysOf(s) \cup {k}
  <2>1. x \in KeysOf(t) => x \in KeysOf(s) \cup {k}
    <3> SUFFICES ASSUME NEW i \in 1 .. Len(s) + 1, x = t[i]
                 PROVE  x \in KeysOf(s) \cup {k}
      BY <1>1 DEF KeysOf
    <3>1. i \in 1 .. Len(s) \/ i = Len(s) + 1
      BY <1>1
    <3> QED
      BY <1>1, <3>1 DEF KeysOf
  <2>2. x \in KeysOf(s) => x \in KeysOf(t)
    <3> SUFFICES ASSUME NEW i \in 1 .. Len(s), x = s[i] PROVE x \in KeysOf(t)
      BY <1>1 DEF KeysOf
    <3>1. i \in DOMAIN t /\ t[i] = x
      BY <1>1
    <3> QED
      BY <3>1 DEF KeysOf
  <2>3. k \in KeysOf(t)
    <3>1. Len(s) + 1 \in DOMAIN t
      BY <1>1
    <3> QED
      BY <1>1, <3>1 DEF KeysOf
  <2> QED
    BY <2>1, <2>2, <2>3
<1> QED
  BY <1>1, <1>2 DEF t

LEMMA KeysOfTail ==
    ASSUME NEW S, NEW s \in Seq(S), s # <<>>
    PROVE  /\ Tail(s) \in Seq(S) /\ Len(Tail(s)) = Len(s) - 1
           /\ KeysOf(s) = KeysOf(Tail(s)) \cup {Head(s)}
<1> DEFINE t == Tail(s)
<1>1. /\ t \in Seq(S) /\ Len(t) = Len(s) - 1 /\ Len(s) \in Nat \ {0}
      /\ DOMAIN t = 1 .. Len(s) - 1 /\ DOMAIN s = 1 .. Len(s)
      /\ Head(s) = s[1] /\ \A i \in 1 .. Len(s) - 1 : t[i] = s[i + 1]
  OBVIOUS
<1> HIDE DEF t
<1>2. ASSUME NEW x PROVE x \in KeysOf(s) <=> x \in KeysOf(t) \cup {Head(s)}
  <2>1. x \in KeysOf(s) => x \in KeysOf(t) \cup {Head(s)}
    <3> SUFFICES ASSUME NEW i \in 1 .. Len(s), x = s[i], i # 1
                 PROVE  x \in KeysOf(t)
      BY <1>1 DEF KeysOf
    <3>1. i - 1 \in 1 .. Len(s) - 1 /\ i - 1 + 1 = i
      BY <1>1
    <3>2. i - 1 \in DOMAIN t /\ t[i - 1] = x
      BY <1>1, <3>1
    <3> QED
      BY <3>2 DEF KeysOf
  <2>2. x \in KeysOf(t) => x \in KeysOf(s)
    <3> SUFFICES ASSUME NEW i \in 1 .. Len(s) - 1, x = t[i] PROVE x \in KeysOf(s)
      BY <1>1 DEF KeysOf
    <3>1. i + 1 \in DOMAIN s /\ s[i + 1] = x
      BY <1>1
    <3> QED
      BY <3>1 DEF KeysOf
  <2>3. Head(s) \in KeysOf(s)
    <3>1. 1 \in DOMAIN s
      BY <1>1
    <3> QED
      BY <1>1, <3>1 DEF KeysOf
  <2> QED
    BY <2>1, <2>2, <2>3
<1> QED
  BY <1>1, <1>2 DEF t

\* A key that goes to the end is still there, and no other key is gone.
LEMMA KeysMoved ==
    ASSUME NEW S, NEW s \in Seq(S), NEW i \in DOMAIN s, NEW k, s[i] = k
    PROVE  LET t == SubSeq(s, 1, i - 1) \o SubSeq(s, i + 1, Len(s)) \o <<k>> IN
           t \in Seq(S) /\ Len(t) = Len(s) /\ KeysOf(t) = KeysOf(s)
<1> DEFINE a == SubSeq(s, 1, i - 1)
           b == SubSeq(s, i + 1, Len(s))
           c == a \o b
           t == c \o <<k>>
<1>1. i \in 1 .. Len(s) /\ Len(s) \in Nat /\ DOMAIN s = 1 .. Len(s) /\ k \in S
  OBVIOUS
<1>2. /\ a \in Seq(S) /\ Len(a) = i - 1
      /\ \A j \in 1 .. i - 1 : a[j] = s[j]
  BY <1>1
<1>3. /\ b \in Seq(S) /\ Len(b) = Len(s) - i
      /\ \A j \in 1 .. Len(s) - i : b[j] = s[i + j]
  BY <1>1
<1> HIDE DEF a, b
<1>4. /\ c \in Seq(S) /\ Len(c) = Len(s) - 1
      /\ \A j \in 1 .. i - 1 : c[j] = s[j]
      /\ \A j \in i .. Len(s) - 1 : c[j] = s[j + 1]
  <2>1. c \in Seq(S) /\ Len(c) = Len(s) - 1
    <3>1. \A x \in Seq(S), y \in Seq(S) : x \o y \in Seq(S) /\ Len(x \o y) = Len(x) + Len(y)
      OBVIOUS
    <3>3. c \in Seq(S) /\ Len(c) = Len(a) + Len(b)
      BY <1>2, <1>3, <3>1, Zenon
    <3>2. Len(a) + Len(b) = Len(s) - 1
      BY <1>1, <1>2, <1>3
    <3> QED
      BY <3>2, <3>3
  <2>2. ASSUME NEW j \in 1 .. i - 1 PROVE c[j] = s[j]
    BY <1>1, <1>2, <1>3
  <2>3. ASSUME NEW j \in i .. Len(s) - 1 PROVE c[j] = s[j + 1]
    <3>1. c[j] = b[j - (i - 1)]
      BY <1>1, <1>2, <1>3
    <3>2. j - (i - 1) \in 1 .. Len(s) - i /\ i + (j - (i - 1)) = j + 1
      BY <1>1
    <3> QED
      BY <1>3, <3>1, <3>2
  <2> QED
    BY <2>1, <2>2, <2>3
<1> HIDE DEF c
<1>5. t \in Seq(S) /\ Len(t) = Len(s) /\ KeysOf(t) = KeysOf(c) \cup {k}
  <2>1. c \in Seq(S) /\ k \in S
    BY <1>1, <1>4
  <2>2. t \in Seq(S) /\ Len(t) = Len(c) + 1 /\ KeysOf(t) = KeysOf(c) \cup {k}
    BY <2>1, KeysAppended
  <2> HIDE DEF t
  <2> QED
    BY <1>1, <1>4, <2>2
<1>6. ASSUME NEW x PROVE x \in KeysOf(c) \cup {k} <=> x \in KeysOf(s)
  <2>1. DOMAIN c = 1 .. Len(s) - 1
    BY <1>4
  <2>2. x \in KeysOf(c) => x \in KeysOf(s)
    <3> SUFFICES ASSUME NEW j \in 1 .. Len(s) - 1, x = c[j] PROVE x \in KeysOf(s)
      BY <2>1 DEF KeysOf
    <3>1. j \in 1 .. i - 1 \/ j \in i .. Len(s) - 1
      BY <1>1
    <3>2. (x = s[j] /\ j \in DOMAIN s) \/ (x = s[j + 1] /\ j + 1 \in DOMAIN s)
      BY <1>1, <1>4, <3>1
    <3> QED
      BY <3>2 DEF KeysOf
  <2>3. k \in KeysOf(s)
    BY DEF KeysOf
  <2>4. x \in KeysOf(s) => x \in KeysOf(c) \cup {k}
    <3> SUFFICES ASSUME NEW j \in 1 .. Len(s), x = s[j], j # i PROVE x \in KeysOf(c)
      BY <1>1 DEF KeysOf
    <3>1. CASE j \in 1 .. i - 1
      <4>1. j \in DOMAIN c /\ c[j] = x
        BY <1>1, <1>4, <2>1, <3>1
      <4> QED
        BY <4>1 DEF KeysOf
    <3>2. CASE j \in i + 1 .. Len(s)
      <4>1. j - 1 \in i .. Len(s) - 1 /\ j - 1 + 1 = j
        BY <1>1, <3>2
      <4>2. j - 1 \in DOMAIN c /\ c[j - 1] = x
        BY <1>1, <1>4, <2>1, <4>1
      <4> QED
        BY <4>2 DEF KeysOf
    <3> QED
      BY <1>1, <3>1, <3>2
  <2> QED
    BY <2>2, <2>3, <2>4
<1>7. KeysOf(c) \cup {k} = KeysOf(s)
  BY <1>6
<1> QED
  BY <1>5, <1>7 DEF t, c, a, b

-----------------------------------------------------------------------------
(* The steps.                                                               *)
LEMMA PresentFinite ==
    /\ IsFiniteSet(Present)
    /\ Kept \in Nat /\ Lost \in Nat /\ Cardinality(Present) = Kept + Lost
<1>1. Present \in SUBSET Keys
  BY DEF Present
<1>2. IsFiniteSet(Present)
  BY <1>1, FS_Subset, UserCacheAssumption
<1> QED
  BY <1>2, Parts DEF Kept, Lost

\* No more keys than places.
LEMMA KeptListed == Typed => Kept <= Len(order)
<1> SUFFICES ASSUME Typed PROVE Kept <= Len(order)
  OBVIOUS
<1>1. /\ order \in Seq(Keys) /\ Len(order) \in Nat /\ DOMAIN order = 1 .. Len(order)
  BY DEF Typed
<1>2. IsFiniteSet(1 .. Len(order)) /\ Cardinality(1 .. Len(order)) = Len(order)
  <2>1. 1 \in Int /\ Len(order) \in Int
    BY <1>1
  <2>2. Cardinality(1 .. Len(order)) = IF 1 > Len(order) THEN 0 ELSE Len(order) - 1 + 1
    BY <2>1, FS_Interval
  <2> QED
    BY <1>1, <2>1, <2>2, FS_Interval
<1>3. order \in Surjection(1 .. Len(order), Listed)
  BY <1>1 DEF Listed, Surjection
<1>4. IsFiniteSet(Listed) /\ Cardinality(Listed) <= Len(order)
  BY <1>2, <1>3, FS_Surjection
<1>5. Present \cap Listed \in SUBSET Listed
  OBVIOUS
<1>6. Kept <= Cardinality(Listed)
  BY <1>4, <1>5, FS_Subset DEF Kept
<1> QED
  BY <1>1, <1>4, <1>6, PresentFinite, FS_CardinalityType

LEMMA CacheInit == Init => CacheInv
<1> SUFFICES ASSUME Init PROVE CacheInv
  OBVIOUS
<1>1. Present = {} /\ Len(order) = 0 /\ outdated = 0
  BY DEF Init, Present
<1>2. Kept = 0 /\ Lost = 0
  <2>1. Present \cap Listed = {} /\ Present \ Listed = {}
    BY <1>1
  <2> QED
    BY <2>1, FS_EmptySet DEF Kept, Lost
<1>3. Bounded
  BY <1>1, <1>2, UserCacheAssumption DEF Bounded, Stale
<1>4. Typed
  <2>1. outdated \in 0 .. MaxOutdated
    BY <1>1, UserCacheAssumption
  <2> QED
    BY <2>1 DEF Init, Typed
<1> QED
  BY <1>3, <1>4 DEF CacheInv

\* A step that leaves the entries and the keys of the order as they are.
LEMMA SameEntries ==
    ASSUME Bounded, Present' = Present, Listed' = Listed, Len(order') = Len(order),
           outdated' = outdated
    PROVE  Bounded'
BY DEF Bounded, Stale, Kept, Lost

LEMMA TouchMoves ==
    ASSUME Typed, NEW r \in Requests, TouchKey(r)
    PROVE  order' \in Seq(Keys) /\ Len(order') = Len(order) /\ Listed' = Listed
<1>1. CASE UNCHANGED order
  BY <1>1 DEF Typed, Listed
<1>2. ASSUME NEW i \in DOMAIN order, order[i] = wanted[r],
             order' = SubSeq(order, 1, i - 1) \o SubSeq(order, i + 1, Len(order))
                      \o <<wanted[r]>>
      PROVE  order' \in Seq(Keys) /\ Len(order') = Len(order) /\ Listed' = Listed
  <2>1. order \in Seq(Keys)
    BY DEF Typed
  <2>2. order' \in Seq(Keys) /\ Len(order') = Len(order) /\ KeysOf(order') = KeysOf(order)
    BY <1>2, <2>1, KeysMoved
  <2> QED
    BY <2>2 DEF KeysOf, Listed
<1> QED
  BY <1>1, <1>2 DEF TouchKey, FirstPlace

\* What a store does to the entries and to the order.
StoreEffect(r) ==
    LET w == wanted[r] IN
    /\ Present' = (IF Evicts(r) THEN Present \ {Head(order)} ELSE Present) \cup {w}
    /\ outdated' = IF exists[r] = (w \in Present) THEN outdated ELSE outdated + 1
    /\ order' \in Seq(Keys)
    /\ Evicts(r) => /\ Len(order') = Len(order)
                    /\ \E T : Listed = T \cup {Head(order)} /\ Listed' = T \cup {w}
    /\ ~Evicts(r) /\ exists[r] => Len(order') = Len(order) /\ Listed' = Listed
    /\ ~Evicts(r) /\ ~exists[r] => Len(order') = Len(order) + 1 /\ Listed' = Listed \cup {w}

LEMMA StoreHasEffect ==
    ASSUME Typed, NEW r \in Requests, Store(r)
    PROVE  StoreEffect(r)
<1> PICK w : w = wanted[r]
  OBVIOUS
<1>1. /\ order \in Seq(Keys) /\ w \in Keys
      /\ order' = (IF Evicts(r) THEN Tail(order) ELSE order)
                  \o (IF exists[r] THEN <<>> ELSE <<w>>)
      /\ Evicts(r) => ~exists[r] /\ order # <<>>
  BY DEF Typed, Store, OrderAfter, Evicts
<1>2. Present' = (IF Evicts(r) THEN Present \ {Head(order)} ELSE Present) \cup {w}
  BY <1>1 DEF Store, Present
<1>3. Listed = KeysOf(order) /\ Listed' = KeysOf(order')
  BY DEF Listed, KeysOf
<1>4. CASE Evicts(r)
  <2>1. /\ Tail(order) \in Seq(Keys) /\ Len(Tail(order)) = Len(order) - 1
        /\ KeysOf(order) = KeysOf(Tail(order)) \cup {Head(order)}
    BY <1>1, <1>4, KeysOfTail
  <2>2. order' = Tail(order) \o <<w>>
    BY <1>1, <1>4
  <2>3. /\ order' \in Seq(Keys) /\ Len(order') = Len(Tail(order)) + 1
        /\ KeysOf(order') = KeysOf(Tail(order)) \cup {w}
    <3> PICK t : t = Tail(order)
      OBVIOUS
    <3>1. t \in Seq(Keys) /\ w \in Keys
      BY <1>1, <2>1
    <3>2. /\ t \o <<w>> \in Seq(Keys) /\ Len(t \o <<w>>) = Len(t) + 1
          /\ KeysOf(t \o <<w>>) = KeysOf(t) \cup {w}
      BY ONLY <3>1, KeysAppended
    <3> QED
      BY <2>2, <3>2, Zenon
  <2>4. Len(order') = Len(order)
    <3>1. Len(order) \in Nat
      BY <1>1
    <3> QED
      BY <2>1, <2>3, <3>1
  <2>5. Listed = KeysOf(Tail(order)) \cup {Head(order)} /\ Listed' = KeysOf(Tail(order)) \cup {w}
    BY <1>3, <2>1, <2>3
  <2> QED
    BY <1>2, <1>4, <2>3, <2>4, <2>5 DEF StoreEffect, Store
<1>5. CASE ~Evicts(r) /\ exists[r]
  <2>1. order' = order
    BY <1>1, <1>5
  <2> QED
    BY <1>1, <1>2, <1>3, <1>5, <2>1 DEF StoreEffect, Store
<1>6. CASE ~Evicts(r) /\ ~exists[r]
  <2>1. order' = order \o <<w>>
    BY <1>1, <1>6
  <2>2. /\ order' \in Seq(Keys) /\ Len(order') = Len(order) + 1
        /\ KeysOf(order') = KeysOf(order) \cup {w}
    <3>1. order \in Seq(Keys) /\ w \in Keys
      BY <1>1
    <3>2. /\ order \o <<w>> \in Seq(Keys) /\ Len(order \o <<w>>) = Len(order) + 1
          /\ KeysOf(order \o <<w>>) = KeysOf(order) \cup {w}
      BY <3>1, KeysAppended
    <3> QED
      BY <2>1, <3>2, Zenon
  <2> QED
    BY <1>2, <1>3, <1>6, <2>2 DEF StoreEffect, Store
<1> QED
  BY <1>4, <1>5, <1>6

\* The bounds of a cache with the entries P, the keys O in an order of the
\* length len, and n outdated stores.
InBounds(P, O, len, n) ==
    /\ Cardinality(P \ O) <= n
    /\ len - Cardinality(P \cap O) <= n
    /\ Cardinality(P \ O) + len <= MaxSize + n

LEMMA OneMore ==
    ASSUME NEW S, IsFiniteSet(S), NEW x, x \notin S, NEW T, T = S \cup {x}
    PROVE  IsFiniteSet(T) /\ Cardinality(S) \in Nat /\ Cardinality(T) = Cardinality(S) + 1
BY FS_AddElement, FS_CardinalityType

LEMMA OneLess ==
    ASSUME NEW S, IsFiniteSet(S), NEW x \in S, NEW T, T = S \ {x}
    PROVE  IsFiniteSet(T) /\ Cardinality(S) \in Nat /\ Cardinality(T) = Cardinality(S) - 1
BY FS_RemoveElement, FS_CardinalityType

LEMMA Without ==
    ASSUME NEW S, IsFiniteSet(S), NEW x, NEW T, T = S \ {x}
    PROVE  /\ IsFiniteSet(T) /\ Cardinality(T) \in Nat
           /\ Cardinality(T) >= Cardinality(S) - 1
           /\ x \notin S => Cardinality(T) = Cardinality(S)
<1>1. Cardinality(S) \in Nat
  BY FS_CardinalityType
<1>2. CASE x \in S
  <2>1. IsFiniteSet(T) /\ Cardinality(T) = Cardinality(S) - 1
    BY <1>2, OneLess
  <2>2. Cardinality(T) \in Nat
    BY <2>1, FS_CardinalityType
  <2> QED
    BY <1>1, <1>2, <2>1, <2>2
<1>3. CASE x \notin S
  <2>1. T = S /\ IsFiniteSet(S)
    BY <1>3
  <2>2. Cardinality(T) = Cardinality(S)
    BY <2>1
  <2>3. Cardinality(T) \in Nat /\ Cardinality(T) >= Cardinality(S) - 1
    BY <1>1, <2>2
  <2> QED
    BY <2>1, <2>2, <2>3
<1> QED
  BY <1>2, <1>3

\* The lookup had found an entry: it is renewed, or comes back without a place.
LEMMA RenewBounds ==
    ASSUME NEW P, IsFiniteSet(P), NEW O, NEW w, NEW len \in Nat, NEW n \in Nat,
           InBounds(P, O, len, n)
    PROVE  InBounds(P \cup {w}, O, len, IF w \in P THEN n ELSE n + 1)
<1> DEFINE Q == P \cup {w}
<1> PICK kept : kept = Cardinality(P \cap O)
  OBVIOUS
<1> PICK lost : lost = Cardinality(P \ O)
  OBVIOUS
<1>1. /\ kept \in Nat /\ lost \in Nat /\ MaxSize \in Nat
      /\ IsFiniteSet(P \cap O) /\ IsFiniteSet(P \ O)
      /\ lost <= n /\ len - kept <= n /\ lost + len <= MaxSize + n
  BY Parts, UserCacheAssumption DEF InBounds
<1>2. CASE w \in P
  <2>1. Q = P
    BY <1>2
  <2> QED
    BY <1>2, <2>1
<1>3. CASE w \notin P /\ w \in O
  <2>1. Q \ O = P \ O /\ Q \cap O = (P \cap O) \cup {w} /\ w \notin P \cap O
    BY <1>3
  <2>2. Cardinality(Q \cap O) = kept + 1 /\ Cardinality(Q \ O) = lost
    BY <1>1, <2>1, OneMore
  <2> HIDE DEF Q
  <2>3. InBounds(Q, O, len, n + 1)
    BY <1>1, <2>2 DEF InBounds
  <2> QED
    BY <1>3, <2>3 DEF Q
<1>4. CASE w \notin P /\ w \notin O
  <2>1. Q \ O = (P \ O) \cup {w} /\ Q \cap O = P \cap O /\ w \notin P \ O
    BY <1>4
  <2>2. Cardinality(Q \ O) = lost + 1 /\ Cardinality(Q \cap O) = kept
    BY <1>1, <2>1, OneMore
  <2> HIDE DEF Q
  <2>3. InBounds(Q, O, len, n + 1)
    BY <1>1, <2>2 DEF InBounds
  <2> QED
    BY <1>4, <2>3 DEF Q
<1> QED
  BY <1>2, <1>3, <1>4

\* There is room, or nothing to evict: the key gets a place, a second one when
\* another request has stored it.
LEMMA AddBounds ==
    ASSUME NEW P, IsFiniteSet(P), NEW O, NEW w, NEW len \in Nat, NEW n \in Nat,
           InBounds(P, O, len, n),
           Cardinality(P) < MaxSize \/ len = 0
    PROVE  InBounds(P \cup {w}, O \cup {w}, len + 1, IF w \in P THEN n + 1 ELSE n)
<1> DEFINE Q == P \cup {w}
           R == O \cup {w}
<1> PICK kept : kept = Cardinality(P \cap O)
  OBVIOUS
<1> PICK lost : lost = Cardinality(P \ O)
  OBVIOUS
<1>1. /\ kept \in Nat /\ lost \in Nat /\ MaxSize \in Nat \ {0}
      /\ IsFiniteSet(P \cap O) /\ IsFiniteSet(P \ O)
      /\ lost <= n /\ len - kept <= n /\ lost + len <= MaxSize + n
      /\ Cardinality(P) = kept + lost
  BY Parts, UserCacheAssumption DEF InBounds
<1>2. CASE w \notin P
  <2>1. Q \ R = P \ O /\ Q \cap R = (P \cap O) \cup {w} /\ w \notin P \cap O
    BY <1>2
  <2>2. Cardinality(Q \cap R) = kept + 1 /\ Cardinality(Q \ R) = lost
    BY <1>1, <2>1, OneMore
  <2>3. lost + len + 1 <= MaxSize + n
    BY <1>1
  <2> HIDE DEF Q, R
  <2>4. InBounds(Q, R, len + 1, n)
    BY <1>1, <2>2, <2>3 DEF InBounds
  <2> QED
    BY <1>2, <2>4 DEF Q, R
<1>3. CASE w \in P /\ w \in O
  <2>1. Q = P /\ R = O
    BY <1>3
  <2>2. InBounds(P, O, len + 1, n + 1)
    BY <1>1 DEF InBounds
  <2> QED
    BY <1>3, <2>1, <2>2
<1>4. CASE w \in P /\ w \notin O
  <2>1. /\ Q \ R = (P \ O) \ {w} /\ w \in P \ O
        /\ Q \cap R = (P \cap O) \cup {w} /\ w \notin P \cap O
    BY <1>4
  <2>2. Cardinality(Q \ R) = lost - 1 /\ Cardinality(Q \cap R) = kept + 1
    BY <1>1, <2>1, OneMore, OneLess
  <2> HIDE DEF Q, R
  <2>3. InBounds(Q, R, len + 1, n + 1)
    BY <1>1, <2>2 DEF InBounds
  <2> QED
    BY <1>4, <2>3 DEF Q, R
<1> QED
  BY <1>2, <1>3, <1>4

\* The key at the head makes room, if it still is an entry.
LEMMA EvictBounds ==
    ASSUME NEW P, IsFiniteSet(P), NEW T, NEW h, NEW w, NEW len \in Nat, NEW n \in Nat,
           InBounds(P, T \cup {h}, len, n)
    PROVE  InBounds((P \ {h}) \cup {w}, T \cup {w}, len, IF w \in P THEN n + 1 ELSE n)
<1> DEFINE O == T \cup {h}
           Q == (P \ {h}) \cup {w}
           R == T \cup {w}
           K == (P \cap O) \ {h}
<1> PICK kept : kept = Cardinality(P \cap O)
  OBVIOUS
<1> PICK lost : lost = Cardinality(P \ O)
  OBVIOUS
<1>1. /\ kept \in Nat /\ lost \in Nat /\ MaxSize \in Nat \ {0}
      /\ IsFiniteSet(P \cap O) /\ IsFiniteSet(P \ O)
      /\ lost <= n /\ len - kept <= n /\ lost + len <= MaxSize + n
  BY Parts, UserCacheAssumption DEF InBounds
<1>2. Cardinality(Q \ R) \in Nat /\ Cardinality(Q \ R) <= lost
  <2>1. Q \ R \in SUBSET (P \ O)
    OBVIOUS
  <2>2. IsFiniteSet(Q \ R) /\ Cardinality(Q \ R) <= lost
    BY <1>1, <2>1, FS_Subset
  <2> QED
    BY <2>2, FS_CardinalityType
<1>3. Q \cap R = K \cup {w}
  OBVIOUS
<1> PICK c : c = Cardinality(K)
  OBVIOUS
<1>4. IsFiniteSet(K) /\ c \in Nat /\ c >= kept - 1
  BY <1>1, Without
<1>5. CASE w \in P
  <2> PICK d : d = Cardinality(Q \cap R)
    OBVIOUS
  <2>1. d \in Nat /\ d >= c
    <3>1. IsFiniteSet(K \cup {w}) /\ K \in SUBSET (K \cup {w})
      BY <1>4, FS_AddElement
    <3>2. Cardinality(K) <= Cardinality(K \cup {w}) /\ Cardinality(K \cup {w}) \in Nat
      BY <3>1, FS_Subset, FS_CardinalityType
    <3> HIDE DEF K, Q, R
    <3> QED
      BY <1>3, <3>2
  <2> HIDE DEF Q, R, O, K
  <2>2. len - d <= n + 1
    BY <1>1, <1>4, <2>1
  <2>3. Cardinality(Q \ R) <= n + 1 /\ Cardinality(Q \ R) + len <= MaxSize + (n + 1)
    BY <1>1, <1>2
  <2>4. InBounds(Q, R, len, n + 1)
    BY <2>2, <2>3 DEF InBounds
  <2> QED
    BY <1>5, <2>4 DEF Q, R
<1>6. CASE w \notin P
  <2> PICK d : d = Cardinality(Q \cap R)
    OBVIOUS
  <2>1. d = c + 1
    <3>1. w \notin K
      BY <1>6
    <3>2. Cardinality(K \cup {w}) = Cardinality(K) + 1
      BY <1>4, <3>1, OneMore
    <3> HIDE DEF K, Q, R
    <3> QED
      BY <1>3, <3>2
  <2> HIDE DEF Q, R, O, K
  <2>2. len - d <= n
    BY <1>1, <1>4, <2>1
  <2>3. Cardinality(Q \ R) <= n /\ Cardinality(Q \ R) + len <= MaxSize + n
    BY <1>1, <1>2
  <2>4. InBounds(Q, R, len, n)
    BY <2>2, <2>3 DEF InBounds
  <2> QED
    BY <1>6, <2>4 DEF Q, R
<1> QED
  BY <1>5, <1>6

LEMMA StoreKeepsBounds ==
    ASSUME Typed, Bounded, NEW r \in Requests, StoreEffect(r)
    PROVE  Bounded'
<1> PICK w : w = wanted[r]
  OBVIOUS
<1>1. /\ InBounds(Present, Listed, Len(order), outdated)
      /\ InBounds(Present', Listed', Len(order'), outdated') => Bounded'
  BY DEF Bounded, InBounds, Stale, Kept, Lost
<1>2. /\ Len(order) \in Nat /\ outdated \in Nat /\ IsFiniteSet(Present)
      /\ exists[r] \in BOOLEAN
  BY PresentFinite, UserCacheAssumption DEF Typed
<1>3. /\ exists[r] => outdated' = IF w \in Present THEN outdated ELSE outdated + 1
      /\ ~exists[r] => outdated' = IF w \in Present THEN outdated + 1 ELSE outdated
  BY <1>2 DEF StoreEffect
<1>4. CASE Evicts(r)
  <2>1. PICK T : Listed = T \cup {Head(order)} /\ Listed' = T \cup {w}
    BY <1>4 DEF StoreEffect
  <2>2. /\ Present' = (Present \ {Head(order)}) \cup {w} /\ Len(order') = Len(order)
        /\ ~exists[r]
    BY <1>4 DEF StoreEffect, Evicts
  <2>3. InBounds(Present, T \cup {Head(order)}, Len(order), outdated)
    BY <1>1, <2>1, Zenon
  <2>4. InBounds((Present \ {Head(order)}) \cup {w}, T \cup {w}, Len(order),
                 IF w \in Present THEN outdated + 1 ELSE outdated)
    BY <1>2, <2>3, EvictBounds
  <2>5. outdated' = IF w \in Present THEN outdated + 1 ELSE outdated
    BY <1>3, <2>2
  <2> QED
    BY <1>1, <2>1, <2>2, <2>4, <2>5, Zenon
<1>5. CASE ~Evicts(r) /\ exists[r]
  <2>1. Present' = Present \cup {w} /\ Listed' = Listed /\ Len(order') = Len(order)
    BY <1>5 DEF StoreEffect
  <2>2. InBounds(Present \cup {w}, Listed, Len(order),
                 IF w \in Present THEN outdated ELSE outdated + 1)
    BY <1>1, <1>2, RenewBounds
  <2>3. outdated' = IF w \in Present THEN outdated ELSE outdated + 1
    BY <1>3, <1>5
  <2> QED
    BY <1>1, <2>1, <2>2, <2>3, Zenon
<1>6. CASE ~Evicts(r) /\ ~exists[r]
  <2>1. /\ Present' = Present \cup {w} /\ Listed' = Listed \cup {w}
        /\ Len(order') = Len(order) + 1
    BY <1>6 DEF StoreEffect
  <2>2. Cardinality(Present) < MaxSize \/ Len(order) = 0
    <3>1. Cardinality(Present) \in Nat
      BY <1>2, FS_CardinalityType
    <3>2. ~(Cardinality(Present) >= MaxSize) \/ order = <<>>
      BY <1>6 DEF Evicts
    <3> QED
      BY <3>1, <3>2, UserCacheAssumption
  <2>3. InBounds(Present \cup {w}, Listed \cup {w}, Len(order) + 1,
                 IF w \in Present THEN outdated + 1 ELSE outdated)
    BY <1>1, <1>2, <2>2, AddBounds
  <2>4. outdated' = IF w \in Present THEN outdated + 1 ELSE outdated
    BY <1>3, <1>6
  <2> QED
    BY <1>1, <2>1, <2>3, <2>4, Zenon
<1> QED
  BY <1>4, <1>5, <1>6

LEMMA CacheStep == CacheInv /\ [Next]_vars => CacheInv'
<1> SUFFICES ASSUME CacheInv, [Next]_vars PROVE CacheInv'
  OBVIOUS
<1>1. Typed /\ Bounded
  BY DEF CacheInv
<1>2. ASSUME NEW r \in Requests, NEW k \in Keys, Lookup(r, k) PROVE CacheInv'
  <2>1. Typed'
    <3>1. (k \in Present) \in BOOLEAN
      OBVIOUS
    <3>2. exists' \in [Requests -> BOOLEAN]
      BY <1>1, <1>2, <3>1, Zenon DEF Typed, Lookup
    <3>3. (IF cache[k] = "fresh" THEN "touch" ELSE "refresh") \in {"idle", "touch", "refresh"}
      OBVIOUS
    <3>4. pc' \in [Requests -> {"idle", "touch", "refresh"}]
      BY <1>1, <1>2, <3>3 DEF Typed, Lookup, Goto
    <3> QED
      BY <1>1, <1>2, <3>2, <3>4 DEF Typed, Lookup
  <2>2. Bounded'
    BY <1>1, <1>2, SameEntries DEF Lookup, Present, Listed
  <2> QED
    BY <2>1, <2>2 DEF CacheInv
<1>3. ASSUME NEW r \in Requests, TouchKey(r) PROVE CacheInv'
  <2>1. order' \in Seq(Keys) /\ Len(order') = Len(order) /\ Listed' = Listed
    BY <1>1, <1>3, TouchMoves
  <2>2. Typed'
    BY <1>1, <1>3, <2>1 DEF Typed, TouchKey, Goto
  <2>3. Present' = Present /\ outdated' = outdated
    BY <1>3 DEF TouchKey, Present
  <2> QED
    BY <1>1, <2>1, <2>2, <2>3, SameEntries DEF CacheInv
<1>4. ASSUME NEW r \in Requests, RefreshFails(r) PROVE CacheInv'
  <2>1. Typed'
    BY <1>1, <1>4 DEF Typed, RefreshFails, Goto
  <2>2. Bounded'
    BY <1>1, <1>4, SameEntries DEF RefreshFails, Present, Listed
  <2> QED
    BY <2>1, <2>2 DEF CacheInv
<1>5. ASSUME NEW r \in Requests, Store(r) PROVE CacheInv'
  <2>1. StoreEffect(r)
    BY <1>1, <1>5, StoreHasEffect
  <2>2. outdated' \in 0 .. MaxOutdated
    BY <1>1, <1>5, UserCacheAssumption DEF Typed, Store
  <2>3. Typed'
    <3>1. cache' \in [Keys -> {"fresh", "expired", "absent"}]
      BY <1>1, <1>5 DEF Typed, Store
    <3> QED
      BY <1>1, <1>5, <2>1, <2>2, <3>1 DEF Typed, Store, StoreEffect, Goto
  <2>4. Bounded'
    BY <1>1, <2>1, StoreKeepsBounds
  <2> QED
    BY <2>3, <2>4 DEF CacheInv
<1>6. ASSUME NEW k \in Keys, Expire(k) PROVE CacheInv'
  <2>1. Typed'
    BY <1>1, <1>6 DEF Typed, Expire
  <2>2. Present' = Present
    BY <1>1, <1>6 DEF Typed, Expire, Present
  <2>3. Bounded'
    BY <1>1, <1>6, <2>2, SameEntries DEF Expire, Listed
  <2> QED
    BY <2>1, <2>3 DEF CacheInv
<1>7. CASE UNCHANGED vars
  BY <1>1, <1>7 DEF vars, CacheInv, Typed, Bounded, Stale, Kept, Lost, Present, Listed
<1> QED
  BY <1>2, <1>3, <1>4, <1>5, <1>6, <1>7 DEF Next

LEMMA CacheInvariant == Spec => []CacheInv
  BY CacheInit, CacheStep, PTL DEF Spec

-----------------------------------------------------------------------------
\* The cache holds maxSize entries and one more for each outdated store
\* (user_token_cache.go:11, 59-75).
THEOREM SizeBoundedHolds == Spec => []SizeBounded
<1>1. CacheInv => SizeBounded
  <2> SUFFICES ASSUME CacheInv PROVE SizeBounded
    OBVIOUS
  <2>1. Kept <= Len(order)
    BY KeptListed DEF CacheInv
  <2> QED
    BY <2>1, PresentFinite, UserCacheAssumption
    DEF CacheInv, Bounded, Typed, Stale, SizeBounded
<1> QED
  BY <1>1, CacheInvariant, PTL

\* As many entries are lost to the order, and places of it without an entry of
\* their own, as there were outdated stores, at most (user_token_cache.go:59-111).
THEOREM OrderOfEntriesHolds == Spec => []OrderOfEntries
<1>1. CacheInv => OrderOfEntries
  BY DEF CacheInv, Bounded, Stale, Kept, Lost, OrderOfEntries
<1> QED
  BY <1>1, CacheInvariant, PTL

\* The state stays well-typed, and the order no longer than the size of the
\* cache and the outdated stores.
THEOREM TypeCorrect == Spec => []TypeOK
<1>1. CacheInv => TypeOK
  <2> SUFFICES ASSUME CacheInv PROVE TypeOK
    OBVIOUS
  <2>1. Len(order) <= MaxSize + outdated
    BY PresentFinite, UserCacheAssumption DEF CacheInv, Bounded, Typed
  <2> QED
    BY <2>1 DEF CacheInv, Typed, TypeOK
<1> QED
  BY <1>1, CacheInvariant, PTL
=============================================================================
