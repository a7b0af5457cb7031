---------------------------- MODULE TokenPoolProofs ----------------------------
(***************************************************************************)
(* What TokenPool promises for any number of tokens and of requests.       *)
(***************************************************************************)
EXTENDS TokenPool, FiniteSetTheorems, TLAPS

USE DEF Tokens, NoToken, NotRefreshed

\* A position in configOrder stays one.
LEMMA ModInRange ==
    ASSUME NEW a \in Nat PROVE a % N \in Tokens
  BY PoolAssumption

\* The number of requests, and of requests of some kind.
LEMMA Counting ==
    /\ Concurrent \in Nat \ {0}
    /\ \A S \in SUBSET Requests :
        /\ IsFiniteSet(S)
        /\ Cardinality(S) \in 0 .. Concurrent
        /\ \A r \in Requests \ S :
            /\ Cardinality(S \cup {r}) = Cardinality(S) + 1
            /\ Cardinality(S) <= Concurrent - 1
        /\ \A r \in S : Cardinality(S \ {r}) = Cardinality(S) - 1
<1>1. IsFiniteSet(Requests) /\ Requests # {}
  BY PoolAssumption
<1>2. Cardinality(Requests) \in Nat /\ Cardinality(Requests) # 0
  BY <1>1, FS_CardinalityType, FS_EmptySet
<1>3. ASSUME NEW S \in SUBSET Requests
      PROVE  /\ IsFiniteSet(S)
             /\ Cardinality(S) \in 0 .. Concurrent
  <2>1. IsFiniteSet(S) /\ Cardinality(S) <= Cardinality(Requests)
    BY <1>1, FS_Subset
  <2>2. Cardinality(S) \in Nat
    BY <2>1, FS_CardinalityType
  <2> QED BY <1>2, <2>1, <2>2 DEF Concurrent
<1>4. ASSUME NEW S \in SUBSET Requests, NEW r \in Requests \ S
      PROVE  Cardinality(S \cup {r}) = Cardinality(S) + 1
  BY <1>3, FS_AddElement
<1>5. ASSUME NEW S \in SUBSET Requests, NEW r \in Requests \ S
      PROVE  Cardinality(S) <= Concurrent - 1
  <2>1. S \cup {r} \in SUBSET Requests
    OBVIOUS
  <2>2. Cardinality(S \cup {r}) <= Concurrent
    BY <1>3, <2>1
  <2>3. Cardinality(S) \in Nat /\ Concurrent \in Nat
    BY <1>2, <1>3 DEF Concurrent
  <2> QED BY <1>4, <2>2, <2>3
<1>6. ASSUME NEW S \in SUBSET Requests, NEW r \in S
      PROVE  Cardinality(S \ {r}) = Cardinality(S) - 1
  BY <1>3, FS_RemoveElement
<1> QED
  BY <1>2, <1>3, <1>4, <1>5, <1>6 DEF Concurrent

LEMMA OneLeftOut ==
    ASSUME NEW S \in SUBSET Requests, NEW r \in Requests, r \notin S
    PROVE  Cardinality(S) \in 0 .. Concurrent - 1
<1>1. Cardinality(S) \in 0 .. Concurrent /\ Concurrent \in Nat
  BY Counting
<1>2. Cardinality(S) <= Concurrent - 1
  BY Counting
<1> QED BY <1>1, <1>2

-----------------------------------------------------------------------------
(* Type correctness.  An outcome of a refresh is a function of the tokens. *)
Held == [token: Tokens \cup {NoToken}, cached: BOOLEAN]
Entry == [live: BOOLEAN, available: 0 .. MaxQuota]
Found == [Tokens -> {NotRefreshed} \cup 0 .. MaxQuota]

LEMMA OutcomesType == Outcomes \subseteq Found
  BY DEF Outcomes, NoRefresh, Found

LEMMA RefreshType ==
    ASSUME TypeOK, NEW found \in Found
    PROVE  /\ Refreshed(found) \in [Tokens -> Entry]
           /\ Detached(found) \in [Requests -> Held]
           /\ QuotaSeen(found) \in [Tokens -> 0 .. MaxQuota]
           /\ DrawnSince(found) \in [Tokens -> Nat]
<1>1. Refreshed(found) \in [Tokens -> Entry]
  BY DEF TypeOK, Found, Refreshed, Entry
<1>2. Detached(found) \in [Requests -> Held]
  <2>1. \A r \in Requests : held[r] \in Held
    BY DEF TypeOK, Held
  <2>2. \A h \in Held : [h EXCEPT !.cached = FALSE] \in Held
    BY DEF Held
  <2> QED BY <2>1, <2>2 DEF Detached
<1>3. QuotaSeen(found) \in [Tokens -> 0 .. MaxQuota]
  BY DEF TypeOK, Found, QuotaSeen
<1>4. \A t \in Tokens : Cardinality(Holding(t)) \in Nat
  BY Counting DEF Holding
<1>5. DrawnSince(found) \in [Tokens -> Nat]
  BY <1>4 DEF TypeOK, DrawnSince
<1> QED BY <1>1, <1>2, <1>3, <1>5

LEMMA CountUp ==
    ASSUME NEW f \in [Tokens -> Nat], NEW t \in Tokens
    PROVE  [f EXCEPT ![t] = @ + 1] \in [Tokens -> Nat]
<1> DEFINE g == [f EXCEPT ![t] = f[t] + 1]
<1>1. f[t] + 1 \in Nat
  OBVIOUS
<1>2. g \in [Tokens -> Nat]
  BY <1>1
<1> QED BY <1>2

\* A request holds a token of the pool exactly while it is working with it.
Working == {"record", "decide", "reset", "rotate", "charge", "sent"}
HoldingOK ==
    \A r \in Requests :
        /\ pc[r] \in Working => held[r].token \in Tokens
        /\ pc[r] = "idle" => held[r].token = NoToken
        /\ pc[r] = "cooldown" => blamed[r] \in Tokens
TypeInv == TypeOK /\ HoldingOK

LEMMA FailuresType ==
    ASSUME TypeOK, NEW S PROVE FailuresAfterScan(S) \in [Tokens -> 0 .. MaxFailures]
  BY PoolAssumption DEF TypeOK, FailuresAfterScan

THEOREM TypeInvInductive == TypeInv /\ [Next]_vars => TypeInv'
<1> SUFFICES ASSUME TypeInv, [Next]_vars PROVE TypeInv'
  OBVIOUS
<1> USE DEF TypeInv
<1>1. ASSUME NEW r \in Requests, Select(r) PROVE TypeInv'
  <2>1. PICK found \in Outcomes, k \in 0 .. N - 1 :
          /\ currentIndex' = TokenAt(k)
          /\ entries' = Refreshed(found)
          /\ failCount' = FailuresAfterScan({TokenAt(j) : j \in 0 .. k})
          /\ held' = [Detached(found) EXCEPT
                        ![r] = [token |-> TokenAt(k), cached |-> TRUE]]
          /\ quota' = QuotaSeen(found)
          /\ drawn' = [DrawnSince(found) EXCEPT ![TokenAt(k)] = @ + 1]
          /\ streak' = IF k = 0 THEN streak + 1 ELSE 1
    BY <1>1 DEF Select
  <2>2. found \in Found
    BY OutcomesType
  <2>3. TokenAt(k) \in Tokens
    <3>1. currentIndex + k \in Nat
      BY PoolAssumption DEF TypeOK
    <3> QED BY <3>1, ModInRange DEF TokenAt
  <2>4. held' \in [Requests -> Held]
    BY <2>1, <2>2, <2>3, RefreshType DEF Held
  <2>5. drawn' \in [Tokens -> Nat]
    <3> DEFINE D == DrawnSince(found)
    <3>1. D \in [Tokens -> Nat]
      BY <2>2, RefreshType
    <3>2. drawn' = [D EXCEPT ![TokenAt(k)] = @ + 1]
      BY <2>1
    <3> HIDE DEF D
    <3> QED BY <2>3, <3>1, <3>2, CountUp
  <2>6. entries' \in [Tokens -> Entry] /\ quota' \in [Tokens -> 0 .. MaxQuota]
    BY <2>1, <2>2, RefreshType
  <2>7. failCount' \in [Tokens -> 0 .. MaxFailures]
    BY <2>1, FailuresType
  <2>8. streak' \in Nat
    BY <2>1 DEF TypeOK
  <2>9. pc' \in [Requests -> PC]
    BY <1>1 DEF Select, TypeOK, PC
  <2>10. TypeOK'
    BY <1>1, <2>1, <2>3, <2>4, <2>5, <2>6, <2>7, <2>8, <2>9
      DEF Select, TypeOK, Held, Entry
  <2>11. \A q \in Requests : held'[q].token =
            IF q = r THEN TokenAt(k) ELSE held[q].token
    BY <2>1 DEF Detached, TypeOK, Held
  <2>12. HoldingOK'
    BY <1>1, <2>3, <2>11 DEF Select, HoldingOK, TypeOK, Working
  <2> QED BY <2>10, <2>12
<1>2. ASSUME NEW r \in Requests, Refuse(r) PROVE TypeInv'
  <2>1. PICK found \in Outcomes :
          /\ entries' = Refreshed(found)
          /\ held' = Detached(found)
          /\ quota' = QuotaSeen(found)
          /\ drawn' = DrawnSince(found)
    BY <1>2 DEF Refuse
  <2>2. found \in Found
    BY OutcomesType
  <2>3. /\ entries' \in [Tokens -> Entry] /\ held' \in [Requests -> Held]
        /\ quota' \in [Tokens -> 0 .. MaxQuota] /\ drawn' \in [Tokens -> Nat]
    BY <2>1, <2>2, RefreshType
  <2>4. failCount' \in [Tokens -> 0 .. MaxFailures]
    BY <1>2, FailuresType DEF Refuse
  <2>5. TypeOK'
    BY <1>2, <2>3, <2>4 DEF Refuse, TypeOK, Held, Entry
  <2>6. \A q \in Requests : held'[q].token = held[q].token
    BY <2>1 DEF Detached, TypeOK, Held
  <2>7. HoldingOK'
    BY <1>2, <2>6 DEF Refuse, HoldingOK
  <2> QED BY <2>5, <2>7
<1>3. ASSUME NEW r \in Requests, RecordRequest(r) PROVE TypeInv'
  <2>3. requestCount' \in [Tokens -> Nat] /\ dailyRequests' \in [Tokens -> Nat]
    <3>1. held[r].token \in Tokens
      BY <1>3 DEF RecordRequest, HoldingOK, Working
    <3> QED BY <1>3, <3>1, CountUp DEF RecordRequest, TypeOK
  <2>4. pc' \in [Requests -> PC]
    BY <1>3 DEF RecordRequest, TypeOK, PC
  <2>1. TypeOK'
    BY <1>3, <2>3, <2>4 DEF RecordRequest, TypeOK, historyVars
  <2>2. HoldingOK'
    BY <1>3 DEF RecordRequest, TypeOK, HoldingOK, Working
  <2> QED BY <2>1, <2>2
<1>4. ASSUME NEW r \in Requests, ShouldRotate(r) PROVE TypeInv'
  <2>1. TypeOK'
    BY <1>4 DEF ShouldRotate, TypeOK, PC, historyVars, limiterVars
  <2>2. HoldingOK'
    BY <1>4 DEF ShouldRotate, TypeOK, HoldingOK, Working
  <2> QED BY <2>1, <2>2
<1>5. ASSUME NEW r \in Requests, ResetTokenCount(r) PROVE TypeInv'
  <2>1. TypeOK'
    BY <1>5 DEF ResetTokenCount, TypeOK, PC, historyVars
  <2>2. HoldingOK'
    BY <1>5 DEF ResetTokenCount, TypeOK, HoldingOK, Working
  <2> QED BY <2>1, <2>2
<1>6. ASSUME NEW r \in Requests, Rotate(r) PROVE TypeInv'
  <2>1. currentIndex' \in Tokens
    BY <1>6, ModInRange DEF Rotate, AdvanceToNextToken, TypeOK
  <2>2. TypeOK'
    BY <1>6, <2>1 DEF Rotate, AdvanceToNextToken, TypeOK, PC, limiterVars
  <2>3. HoldingOK'
    BY <1>6 DEF Rotate, TypeOK, HoldingOK, Working
  <2> QED BY <2>2, <2>3
<1>7. ASSUME NEW r \in Requests, Charge(r) PROVE TypeInv'
  <2>1. \A t \in Tokens : Charged(entries[t]) \in Entry
    <3> TAKE t \in Tokens
    <3> DEFINE e == entries[t]
    <3>1. e \in Entry
      BY DEF TypeOK, Entry
    <3>2. CASE e.available > 0
      <4>1. e.available - 1 \in 0 .. MaxQuota
        BY <3>1, <3>2, PoolAssumption DEF Entry
      <4>2. [e EXCEPT !.available = @ - 1] \in Entry
        BY <3>1, <4>1 DEF Entry
      <4> QED BY <3>2, <4>2 DEF Charged
    <3>3. CASE ~(e.available > 0)
      BY <3>1, <3>3 DEF Charged
    <3> QED BY <3>2, <3>3
  <2>2. held[r].token \in Tokens
    BY <1>7 DEF Charge, HoldingOK, Working
  <2>3. entries' \in [Tokens -> Entry]
    BY <1>7, <2>1, <2>2 DEF Charge, TypeOK, Entry
  <2>4. TypeOK'
    BY <1>7, <2>3 DEF Charge, TypeOK, PC, historyVars, limiterVars, Entry
  <2>5. HoldingOK'
    BY <1>7 DEF Charge, TypeOK, HoldingOK, Working
  <2> QED BY <2>4, <2>5
<1>8. ASSUME NEW r \in Requests, Finish(r) PROVE TypeInv'
  <2>1. held' \in [Requests -> Held]
    BY <1>8 DEF Finish, TypeOK, Held, Nothing
  <2>2. TypeOK'
    BY <1>8, <2>1 DEF Finish, TypeOK, PC, historyVars, limiterVars, Held
  <2>3. HoldingOK'
    BY <1>8 DEF Finish, TypeOK, HoldingOK, Working, Nothing
  <2> QED BY <2>2, <2>3
<1>9. ASSUME NEW r \in Requests, ReadCurrentKey(r) PROVE TypeInv'
  <2>1. TypeOK'
    BY <1>9 DEF ReadCurrentKey, TypeOK, PC, historyVars, limiterVars
  <2>2. HoldingOK'
    BY <1>9 DEF ReadCurrentKey, TypeOK, HoldingOK, Working
  <2> QED BY <2>1, <2>2
<1>10. ASSUME NEW r \in Requests, MarkTokenCooldown(r) PROVE TypeInv'
  <2>1. failCount' \in [Tokens -> 0 .. MaxFailures]
    <3>1. /\ blamed[r] \in Tokens
          /\ \A n \in 0 .. MaxFailures :
                (IF n < MaxFailures THEN n + 1 ELSE n) \in 0 .. MaxFailures
      BY <1>10, PoolAssumption DEF MarkTokenCooldown, HoldingOK
    <3>2. failCount \in [Tokens -> 0 .. MaxFailures]
      BY DEF TypeOK
    <3> QED BY <1>10, <3>1, <3>2 DEF MarkTokenCooldown
  <2>2. TypeOK'
    BY <1>10, <2>1 DEF MarkTokenCooldown, TypeOK, PC, historyVars
  <2>3. HoldingOK'
    BY <1>10 DEF MarkTokenCooldown, TypeOK, HoldingOK, Working
  <2> QED BY <2>2, <2>3
<1>11. ASSUME NEW r \in Requests, FailOver(r) PROVE TypeInv'
  <2>1. currentIndex' \in Tokens
    BY <1>11, ModInRange DEF FailOver, AdvanceToNextToken, TypeOK
  <2>2. held' \in [Requests -> Held]
    BY <1>11 DEF FailOver, TypeOK, Held, Nothing
  <2>3. TypeOK'
    BY <1>11, <2>1, <2>2
      DEF FailOver, AdvanceToNextToken, TypeOK, PC, limiterVars, Held
  <2>4. HoldingOK'
    BY <1>11 DEF FailOver, TypeOK, HoldingOK, Working, Nothing
  <2> QED BY <2>3, <2>4
<1>12. ASSUME NEW t \in Tokens, EntryExpires(t) PROVE TypeInv'
  <2>1. \A e \in Entry : [e EXCEPT !.live = FALSE] \in Entry
    BY DEF Entry
  <2>2. entries' \in [Tokens -> Entry]
    BY <1>12, <2>1 DEF EntryExpires, TypeOK, Entry
  <2>3. TypeOK'
    BY <1>12, <2>2
      DEF EntryExpires, TypeOK, Entry, limiterVars, requestVars, historyVars
  <2>4. HoldingOK'
    BY <1>12 DEF EntryExpires, HoldingOK, requestVars
  <2> QED BY <2>3, <2>4
<1>13. ASSUME NEW t \in Tokens, CooldownEnds(t) PROVE TypeInv'
  <2>1. TypeOK'
    BY <1>13 DEF CooldownEnds, TypeOK, requestVars, historyVars
  <2>2. HoldingOK'
    BY <1>13 DEF CooldownEnds, HoldingOK, requestVars
  <2> QED BY <2>1, <2>2
<1>15. CASE RefreshFallsDue
  <2>1. TypeOK'
    BY <1>15 DEF RefreshFallsDue, TypeOK, limiterVars, requestVars, historyVars
  <2>2. HoldingOK'
    BY <1>15 DEF RefreshFallsDue, HoldingOK, requestVars
  <2> QED BY <2>1, <2>2
<1>16. CASE NewDay
  <2>1. TypeOK'
    BY <1>16 DEF NewDay, TypeOK, requestVars, historyVars
  <2>2. HoldingOK'
    BY <1>16 DEF NewDay, HoldingOK, requestVars
  <2> QED BY <2>1, <2>2
<1>14. CASE UNCHANGED vars
  BY <1>14 DEF vars, TypeOK, HoldingOK, limiterVars, requestVars, historyVars
<1> QED
  BY <1>1, <1>2, <1>3, <1>4, <1>5, <1>6, <1>7, <1>8, <1>9, <1>10, <1>11, <1>12,
     <1>13, <1>14, <1>15, <1>16 DEF Next, Request

\* No step leaves the types; a request is never without the token it works on.
THEOREM TypeInvHolds == Spec => []TypeInv
<1>1. Init => TypeInv
  BY PoolAssumption
    DEF Init, TypeInv, TypeOK, HoldingOK, Nothing, PC, Working
<1> QED BY <1>1, TypeInvInductive, PTL DEF Spec

\* The model's variables keep their types.
THEOREM TypeCorrect == Spec => []TypeOK
<1>1. TypeInv => TypeOK
  BY DEF TypeInv
<1> QED BY <1>1, TypeInvHolds, PTL

-----------------------------------------------------------------------------
(* The daily limit.  A request between its selection and its recording is  *)
(* a use that the count it was tested against does not show.               *)
Unrecorded(t) == {r \in Requests : pc[r] = "record" /\ held[r].token = t}

DailyInv ==
    DailyMaxRequests > 0 =>
        \A t \in Tokens :
            dailyRequests[t] + Cardinality(Unrecorded(t))
                <= DailyMaxRequests + Concurrent - 1

LEMMA UnrecordedSubset ==
    \A t : Unrecorded(t) \in SUBSET Requests /\ Unrecorded(t)' \in SUBSET Requests
  BY DEF Unrecorded

\* What Select does to what requests hold, as far as these proofs need it.
LEMMA SelectHolds ==
    ASSUME TypeInv, NEW r \in Requests, NEW found \in Found, NEW t \in Tokens,
           held' = [Detached(found) EXCEPT
                        ![r] = [token |-> t, cached |-> TRUE]]
    PROVE  /\ held'[r].token = t /\ held'[r].cached
           /\ \A q \in Requests \ {r} :
                /\ held'[q].token = held[q].token
                /\ held'[q].cached <=>
                      /\ held[q].cached
                      /\ held[q].token \in Tokens =>
                            found[held[q].token] = NotRefreshed
  BY DEF Detached, TypeInv, TypeOK

LEMMA SelectFacts ==
    ASSUME TypeInv, NEW r \in Requests, Select(r)
    PROVE  \E found \in Found, t \in Tokens :
            /\ Eligible(Refreshed(found), t)
            /\ entries' = Refreshed(found)
            /\ held' = [Detached(found) EXCEPT
                            ![r] = [token |-> t, cached |-> TRUE]]
            /\ quota' = QuotaSeen(found)
            /\ drawn' = [DrawnSince(found) EXCEPT ![t] = @ + 1]
<1>1. PICK found \in Outcomes, k \in 0 .. N - 1 :
        /\ Eligible(Refreshed(found), TokenAt(k))
        /\ entries' = Refreshed(found)
        /\ held' = [Detached(found) EXCEPT
                        ![r] = [token |-> TokenAt(k), cached |-> TRUE]]
        /\ quota' = QuotaSeen(found)
        /\ drawn' = [DrawnSince(found) EXCEPT ![TokenAt(k)] = @ + 1]
  BY DEF Select
<1>2. currentIndex + k \in Nat
  BY PoolAssumption DEF TypeInv, TypeOK
<1>3. TokenAt(k) \in Tokens
  BY <1>2, ModInRange DEF TokenAt
<1> QED BY <1>1, <1>3, OutcomesType

THEOREM DailyInvInductive ==
    TypeInv /\ TypeInv' /\ DailyInv /\ [Next]_vars => DailyInv'
<1> SUFFICES ASSUME TypeInv, TypeInv', DailyInv, [Next]_vars,
                    DailyMaxRequests > 0, NEW t \in Tokens
             PROVE  (dailyRequests[t] + Cardinality(Unrecorded(t))
                        <= DailyMaxRequests + Concurrent - 1)'
  BY DEF DailyInv
<1> DEFINE d == dailyRequests[t]
           U == Cardinality(Unrecorded(t))
           Goal == d' + U' <= DailyMaxRequests + Concurrent - 1
<1>a. /\ d \in Nat /\ d' \in Nat /\ DailyMaxRequests \in Nat
      /\ U \in 0 .. Concurrent /\ U' \in 0 .. Concurrent
      /\ Concurrent \in Nat \ {0}
  BY Counting, UnrecordedSubset, PoolAssumption DEF TypeInv, TypeOK
<1>b. d + U <= DailyMaxRequests + Concurrent - 1
  BY DEF DailyInv
<1>c. ASSUME d' = d, Unrecorded(t)' \subseteq Unrecorded(t) PROVE Goal
  <2>1. IsFiniteSet(Unrecorded(t))
    BY Counting, UnrecordedSubset
  <2>2. Cardinality(Unrecorded(t)') <= Cardinality(Unrecorded(t))
    BY <1>c, <2>1, FS_Subset
  <2>3. U' = Cardinality(Unrecorded(t)')
    BY DEF Unrecorded
  <2>4. U' <= U /\ d' = d
    BY <1>c, <2>2, <2>3
  <2> QED BY <1>a, <1>b, <2>4
<1>1. ASSUME NEW r \in Requests, Select(r) PROVE Goal
  <2>1. PICK found \in Found, s \in Tokens :
          /\ Eligible(Refreshed(found), s)
          /\ held' = [Detached(found) EXCEPT
                            ![r] = [token |-> s, cached |-> TRUE]]
    BY <1>1, SelectFacts
  <2>2. /\ held'[r].token = s
        /\ \A q \in Requests \ {r} : held'[q].token = held[q].token
    <3>1. held'[r].token = s
      BY <2>1 DEF Detached
    <3>2. \A q \in Requests \ {r} : held'[q].token = held[q].token
      BY <2>1, SelectHolds
    <3> QED BY <3>1, <3>2
  <2>3. /\ pc[r] = "idle" /\ pc' = [pc EXCEPT ![r] = "record"]
        /\ dailyRequests' = dailyRequests
    BY <1>1 DEF Select
  <2>4. r \notin Unrecorded(t)
    BY <2>3 DEF Unrecorded
  <2>5. CASE s # t
    <3>1. Unrecorded(t)' \subseteq Unrecorded(t)
      BY <2>2, <2>3, <2>5 DEF Unrecorded, TypeInv, TypeOK
    <3> QED BY <1>c, <2>3, <3>1
  <2>6. CASE s = t
    <3>1. Unrecorded(t)' = Unrecorded(t) \cup {r}
      BY <2>2, <2>3, <2>6 DEF Unrecorded, TypeInv, TypeOK
    <3>2. U' = U + 1 /\ U <= Concurrent - 1
      BY <2>4, <3>1, Counting, UnrecordedSubset
    <3>3. ~DailyLimitExceeded(t)
      BY <2>1, <2>6 DEF Eligible
    <3>4. d <= DailyMaxRequests - 1
      BY <1>a, <3>3 DEF DailyLimitExceeded
    <3>5. d' = d
      BY <2>3
    <3> HIDE DEF d, U
    <3> QED BY <1>a, <3>2, <3>4, <3>5
  <2> QED BY <2>5, <2>6
<1>2. ASSUME NEW r \in Requests, Refuse(r) PROVE Goal
  <2>1. PICK found \in Outcomes : held' = Detached(found)
    BY <1>2 DEF Refuse
  <2>2. \A q \in Requests : held'[q].token = held[q].token
    BY <2>1 DEF Detached, TypeInv, TypeOK
  <2>3. Unrecorded(t)' \subseteq Unrecorded(t) /\ d' = d
    BY <1>2, <2>2 DEF Unrecorded, Refuse
  <2> QED BY <1>c, <2>3
<1>3. ASSUME NEW r \in Requests, RecordRequest(r) PROVE Goal
  <2>1. r \in Unrecorded(held[r].token) /\ held[r].token \in Tokens
    BY <1>3 DEF RecordRequest, Unrecorded, TypeInv, HoldingOK, Working
  <2>2. CASE held[r].token = t
    <3>1. Unrecorded(t)' = Unrecorded(t) \ {r}
      BY <1>3, <2>2 DEF RecordRequest, Unrecorded, TypeInv, TypeOK
    <3>2. U' = U - 1
      BY <2>1, <2>2, <3>1, Counting, UnrecordedSubset
    <3>3. d' = d + 1
      BY <1>3, <2>2 DEF RecordRequest, TypeInv, TypeOK
    <3> HIDE DEF d, U
    <3> QED BY <1>a, <1>b, <3>2, <3>3
  <2>3. CASE held[r].token # t
    <3>1. Unrecorded(t)' \subseteq Unrecorded(t) /\ d' = d
      BY <1>3, <2>3 DEF RecordRequest, Unrecorded, TypeInv, TypeOK
    <3> QED BY <1>c, <3>1
  <2> QED BY <2>2, <2>3
<1>4. ASSUME NewDay PROVE Goal
  <2>1. d' = 0
    BY <1>4 DEF NewDay
  <2>2. DailyMaxRequests >= 1
    BY <1>a
  <2> QED BY <1>a, <2>1, <2>2
<1>5. ASSUME NEW r \in Requests,
             \/ ShouldRotate(r) \/ ResetTokenCount(r) \/ Rotate(r)
             \/ Charge(r) \/ Finish(r)
             \/ ReadCurrentKey(r) \/ MarkTokenCooldown(r) \/ FailOver(r)
      PROVE  Goal
  <2>1. d' = d
    BY <1>5 DEF ShouldRotate, ResetTokenCount, Rotate, Charge, Finish,
                ReadCurrentKey, MarkTokenCooldown, FailOver, limiterVars
  <2>2. \E st : st # "record" /\ pc' = [pc EXCEPT ![r] = st]
    <3>1. CASE ShouldRotate(r)
      BY <3>1 DEF ShouldRotate
    <3>2. CASE ~ShouldRotate(r)
      BY <1>5, <3>2 DEF ResetTokenCount, Rotate, Charge, Finish,
                        ReadCurrentKey, MarkTokenCooldown, FailOver
    <3> QED BY <3>1, <3>2
  <2>3. \A q \in Requests \ {r} : held'[q] = held[q]
    BY <1>5 DEF ShouldRotate, ResetTokenCount, Rotate, Charge, Finish,
                ReadCurrentKey, MarkTokenCooldown, FailOver, TypeInv, TypeOK
  <2>4. Unrecorded(t)' \subseteq Unrecorded(t)
    BY <2>2, <2>3 DEF Unrecorded, TypeInv, TypeOK
  <2> QED BY <1>c, <2>1, <2>4
<1>6. CASE \/ RefreshFallsDue \/ UNCHANGED vars
           \/ \E s \in Tokens : EntryExpires(s) \/ CooldownEnds(s)
  <2>1. d' = d /\ UNCHANGED <<pc, held>>
    BY <1>6 DEF RefreshFallsDue, EntryExpires, CooldownEnds, vars, limiterVars,
                requestVars
  <2> QED BY <1>c, <2>1 DEF Unrecorded
<1> QED
  BY <1>1, <1>2, <1>3, <1>4, <1>5, <1>6 DEF Next, Request

(* DailyLimitKept: the limit is overrun by the requests that were selected *)
(* before the others were recorded, and by no more.                        *)
THEOREM DailyLimitHolds == Spec => []DailyLimitKept
<1>1. Init => DailyInv
  <2> SUFFICES ASSUME Init, NEW t \in Tokens, DailyMaxRequests > 0
               PROVE  dailyRequests[t] + Cardinality(Unrecorded(t))
                        <= DailyMaxRequests + Concurrent - 1
    BY DEF DailyInv
  <2>1. dailyRequests[t] = 0 /\ Unrecorded(t) = {}
    BY DEF Init, Unrecorded
  <2> QED BY <2>1, FS_EmptySet, Counting, PoolAssumption
<1>2. TypeInv /\ DailyInv => DailyLimitKept
  <2> SUFFICES ASSUME TypeInv, DailyInv, DailyMaxRequests > 0, NEW t \in Tokens
               PROVE  dailyRequests[t] <= DailyMaxRequests + Concurrent - 1
    BY DEF DailyLimitKept
  <2>1. /\ Cardinality(Unrecorded(t)) \in Nat /\ dailyRequests[t] \in Nat
        /\ Concurrent \in Nat
    BY Counting, UnrecordedSubset DEF TypeInv, TypeOK
  <2>2. dailyRequests[t] + Cardinality(Unrecorded(t))
            <= DailyMaxRequests + Concurrent - 1
    BY DEF DailyInv
  <2> QED BY <2>1, <2>2, PoolAssumption
<1> QED BY <1>1, <1>2, TypeInvHolds, DailyInvInductive, PTL DEF Spec

-----------------------------------------------------------------------------
(* The quota.  A request that has selected a token and not charged it yet  *)
(* is a call Available does not show; so is one that was under way when a  *)
(* refresh replaced the object it will charge.  The second kind is fixed   *)
(* at the refresh and at most one per other request.                       *)
Uncharged == {"record", "decide", "reset", "rotate", "charge"}
Owing(t) ==
    {r \in Requests : pc[r] \in Uncharged /\ held[r].token = t /\ held[r].cached}

OverdraftInv ==
    \A t \in Tokens :
        /\ drawn[t] <= quota[t] + 2 * (Concurrent - 1)
        /\ entries[t].available > 0 =>
              drawn[t] <= quota[t] - entries[t].available
                            + Cardinality(Owing(t)) + Concurrent - 1

LEMMA OwingSubset ==
    \A t : Owing(t) \in SUBSET Requests /\ Owing(t)' \in SUBSET Requests
  BY DEF Owing

LEMMA HoldingSubset ==
    ASSUME TypeInv, NEW r \in Requests, pc[r] = "idle", NEW t \in Tokens
    PROVE  /\ Holding(t) \in SUBSET Requests
           /\ Cardinality(Holding(t)) \in 0 .. Concurrent - 1
<1>1. Holding(t) \in SUBSET Requests /\ r \notin Holding(t)
  BY DEF Holding, TypeInv, HoldingOK
<1> QED BY <1>1, OneLeftOut

\* A step that takes nobody out of Owing(t) unless it charges t.
LEMMA SameOwing ==
    ASSUME TypeInv, NEW r \in Requests, NEW t \in Tokens,
           held' = held, NEW st \in Uncharged, pc[r] \in Uncharged,
           pc' = [pc EXCEPT ![r] = st]
    PROVE  Owing(t)' = Owing(t)
  BY DEF Owing, TypeInv, TypeOK

LEMMA RefreshOverdraft ==
    ASSUME TypeInv, NEW r \in Requests, pc[r] = "idle",
           NEW found \in Found, NEW t \in Tokens, found[t] # NotRefreshed
    PROVE  /\ QuotaSeen(found)[t] = Refreshed(found)[t].available
           /\ QuotaSeen(found)[t] \in Nat
           /\ DrawnSince(found)[t] \in 0 .. Concurrent - 1
<1>1. /\ QuotaSeen(found)[t] = found[t]
      /\ Refreshed(found)[t].available = found[t]
      /\ DrawnSince(found)[t] = Cardinality(Holding(t))
  BY DEF QuotaSeen, Refreshed, DrawnSince
<1>2. found[t] \in Nat
  BY PoolAssumption DEF Found
<1> QED BY <1>1, <1>2, HoldingSubset

LEMMA KeptOverdraft ==
    ASSUME TypeInv, NEW found \in Found, NEW t \in Tokens,
           found[t] = NotRefreshed
    PROVE  /\ QuotaSeen(found)[t] = quota[t]
           /\ Refreshed(found)[t] = entries[t]
           /\ DrawnSince(found)[t] = drawn[t]
  BY DEF QuotaSeen, Refreshed, DrawnSince

\* The arithmetic of one token: q, a, d and n for its quota, Available,
\* drawn and the number of requests that owe it a charge.
Within(q, a, d, n) ==
    /\ d <= q + 2 * (Concurrent - 1)
    /\ a > 0 => d <= q - a + n + Concurrent - 1

LEMMA Arithmetic ==
    ASSUME NEW q \in Nat, NEW a \in Nat, NEW d \in Nat, NEW n \in Nat,
           Within(q, a, d, n)
    PROVE  /\ a > 0 /\ n <= Concurrent - 1 => Within(q, a, d + 1, n + 1)
           /\ n > 0 => Within(q, IF a > 0 THEN a - 1 ELSE a, d, n - 1)
           /\ \A m \in Nat : n <= m => Within(q, a, d, m)
<1>1. Concurrent \in Nat \ {0}
  BY Counting
<1> QED BY <1>1 DEF Within

LEMMA FreshArithmetic ==
    ASSUME NEW q \in Nat, NEW d \in 0 .. Concurrent - 1
    PROVE  /\ \A n \in Nat : Within(q, q, d, n)
           /\ q > 0 => Within(q, q, d + 1, 1)
<1>1. Concurrent \in Nat \ {0}
  BY Counting
<1> QED BY <1>1 DEF Within

LEMMA SelectOverdraft ==
    ASSUME TypeInv, TypeInv', NEW r \in Requests, Select(r), NEW t \in Tokens,
           Within(quota[t], entries[t].available, drawn[t],
                  Cardinality(Owing(t)))
    PROVE  Within(quota'[t], entries'[t].available, drawn'[t],
                  Cardinality(Owing(t)'))
<1>1. PICK found \in Found, s \in Tokens :
        /\ Eligible(Refreshed(found), s)
        /\ entries' = Refreshed(found)
        /\ held' = [Detached(found) EXCEPT
                        ![r] = [token |-> s, cached |-> TRUE]]
        /\ quota' = QuotaSeen(found)
        /\ drawn' = [DrawnSince(found) EXCEPT ![s] = @ + 1]
  BY SelectFacts
<1>2. pc[r] = "idle" /\ pc' = [pc EXCEPT ![r] = "record"]
  BY DEF Select
<1>3. held'[r].token = s /\ held'[r].cached
  BY <1>1 DEF Detached
<1>4. \A q \in Requests \ {r} :
        /\ held'[q].token = held[q].token
        /\ held'[q].cached <=>
              /\ held[q].cached
              /\ held[q].token \in Tokens =>
                    found[held[q].token] = NotRefreshed
  BY <1>1, SelectHolds
<1>5. DrawnSince(found) \in [Tokens -> Nat]
  BY RefreshType DEF TypeInv
<1>6. drawn'[t] = IF s = t THEN DrawnSince(found)[t] + 1 ELSE DrawnSince(found)[t]
  BY <1>1, <1>5
<1>7. Refreshed(found)[s].available > 0
  BY <1>1 DEF Eligible, IsUsable
<1>8. r \notin Owing(t) /\ "record" \in Uncharged
  BY <1>2 DEF Owing, Uncharged
<1>9. CASE found[t] # NotRefreshed
  <2>1. /\ quota'[t] = entries'[t].available
        /\ quota'[t] \in Nat
        /\ DrawnSince(found)[t] \in 0 .. Concurrent - 1
    BY <1>1, <1>2, <1>9, RefreshOverdraft
  <2>2. Owing(t)' = IF s = t THEN {r} ELSE {}
    <3>1. \A q \in Requests \ {r} : q \notin Owing(t)'
      BY <1>4, <1>9 DEF Owing
    <3>2. r \in Owing(t)' <=> s = t
      BY <1>2, <1>3, <1>8 DEF Owing, TypeInv, TypeOK
    <3> QED BY <3>1, <3>2, OwingSubset
  <2>3. CASE s = t
    <3>1. Cardinality(Owing(t)') = 1
      BY <2>2, <2>3, FS_Singleton
    <3>2. quota'[t] > 0
      BY <1>1, <1>7, <2>1, <2>3
    <3> QED BY <1>6, <2>1, <2>3, <3>1, <3>2, FreshArithmetic
  <2>4. CASE s # t
    <3>1. Cardinality(Owing(t)') = 0
      BY <2>2, <2>4, FS_EmptySet
    <3> QED BY <1>6, <2>1, <2>4, <3>1, FreshArithmetic
  <2> QED BY <2>3, <2>4
<1>10. CASE found[t] = NotRefreshed
  <2>1. /\ quota'[t] = quota[t] /\ entries'[t] = entries[t]
        /\ DrawnSince(found)[t] = drawn[t]
    BY <1>1, <1>10, KeptOverdraft
  <2>2. Owing(t)' = IF s = t THEN Owing(t) \cup {r} ELSE Owing(t)
    <3>1. \A q \in Requests \ {r} : q \in Owing(t)' <=> q \in Owing(t)
      BY <1>2, <1>4, <1>10 DEF Owing, TypeInv, TypeOK
    <3>2. r \in Owing(t)' <=> s = t
      BY <1>2, <1>3, <1>8 DEF Owing, TypeInv, TypeOK
    <3> QED BY <1>8, <3>1, <3>2, OwingSubset
  <2>3. /\ quota[t] \in Nat /\ entries[t].available \in Nat /\ drawn[t] \in Nat
        /\ Cardinality(Owing(t)) \in 0 .. Concurrent - 1
    <3>1. Cardinality(Owing(t)) \in 0 .. Concurrent - 1
      BY <1>8, OneLeftOut, OwingSubset
    <3>2. entries[t].available \in Nat /\ quota[t] \in Nat
      BY PoolAssumption DEF TypeInv, TypeOK
    <3>3. drawn[t] \in Nat
      BY DEF TypeInv, TypeOK
    <3> QED BY <3>1, <3>2, <3>3
  <2>4. CASE s = t
    <3>1. Cardinality(Owing(t)') = Cardinality(Owing(t)) + 1
      BY <1>8, <2>2, <2>4, Counting, OwingSubset
    <3>2. entries[t].available > 0
      BY <1>1, <1>7, <2>1, <2>4
    <3>3. drawn'[t] = drawn[t] + 1
      BY <1>6, <2>1, <2>4
    <3> QED BY <2>1, <2>3, <3>1, <3>2, <3>3, Arithmetic
  <2>5. CASE s # t
    BY <1>6, <2>1, <2>2, <2>5
  <2> QED BY <2>4, <2>5
<1> QED BY <1>9, <1>10

\* A refused request may have refreshed the cache.
LEMMA RefuseOverdraft ==
    ASSUME TypeInv, TypeInv', NEW r \in Requests, Refuse(r), NEW t \in Tokens,
           Within(quota[t], entries[t].available, drawn[t],
                  Cardinality(Owing(t)))
    PROVE  Within(quota'[t], entries'[t].available, drawn'[t],
                  Cardinality(Owing(t)'))
<1>1. PICK found \in Found :
        /\ entries' = Refreshed(found)
        /\ held' = Detached(found)
        /\ quota' = QuotaSeen(found)
        /\ drawn' = DrawnSince(found)
  BY OutcomesType DEF Refuse
<1>2. pc[r] = "idle" /\ pc' = pc
  BY DEF Refuse
<1>3. CASE found[t] # NotRefreshed
  <2>1. /\ quota'[t] = entries'[t].available
        /\ quota'[t] \in Nat
        /\ drawn'[t] \in 0 .. Concurrent - 1
    BY <1>1, <1>2, <1>3, RefreshOverdraft
  <2>2. Cardinality(Owing(t)') \in Nat
    BY Counting, OwingSubset
  <2> QED BY <2>1, <2>2, FreshArithmetic
<1>4. CASE found[t] = NotRefreshed
  <2>1. /\ quota'[t] = quota[t] /\ entries'[t] = entries[t]
        /\ drawn'[t] = drawn[t]
    BY <1>1, <1>4, KeptOverdraft
  <2>2. \A q \in Requests : held[q].token = t => held'[q] = held[q]
    BY <1>1, <1>4 DEF Detached
  <2>3. \A q \in Requests : held'[q].token = held[q].token
    BY <1>1 DEF Detached, TypeInv, TypeOK
  <2>4. Owing(t)' = Owing(t)
    BY <1>2, <2>2, <2>3 DEF Owing
  <2> QED BY <2>1, <2>4
<1> QED BY <1>3, <1>4

\* The second critical section charges the object the request selected.
LEMMA ChargeOverdraft ==
    ASSUME TypeInv, TypeInv', NEW r \in Requests, Charge(r), NEW t \in Tokens,
           Within(quota[t], entries[t].available, drawn[t],
                  Cardinality(Owing(t)))
    PROVE  Within(quota'[t], entries'[t].available, drawn'[t],
                  Cardinality(Owing(t)'))
<1>1. /\ pc[r] = "charge" /\ pc' = [pc EXCEPT ![r] = "sent"]
      /\ UNCHANGED <<held, quota, drawn>>
  BY DEF Charge, historyVars
<1>2. Owing(t)' = Owing(t) \ {r}
  BY <1>1 DEF Owing, Uncharged, TypeInv, TypeOK
<1>3. quota[t] \in Nat /\ entries[t].available \in Nat
  BY PoolAssumption DEF TypeInv, TypeOK
<1>4. drawn[t] \in Nat
  BY DEF TypeInv, TypeOK
<1>5. Cardinality(Owing(t)) \in Nat
  BY Counting, OwingSubset
<1>6. CASE r \in Owing(t)
  <2>1. held[r].cached /\ held[r].token = t
    BY <1>6 DEF Owing
  <2>2. entries'[t] = Charged(entries[t])
    BY <2>1 DEF Charge, TypeInv, TypeOK
  <2>3. entries'[t].available =
            IF entries[t].available > 0 THEN entries[t].available - 1
                                        ELSE entries[t].available
    BY <2>2 DEF Charged, TypeInv, TypeOK
  <2>4. Cardinality(Owing(t)') = Cardinality(Owing(t)) - 1
    BY <1>2, <1>6, Counting, OwingSubset
  <2>5. Cardinality(Owing(t)) > 0
    BY <1>2, <1>5, <2>4, Counting, OwingSubset
  <2> QED BY <1>1, <1>3, <1>4, <1>5, <2>3, <2>4, <2>5, Arithmetic
<1>7. CASE r \notin Owing(t)
  <2>1. ~(held[r].cached /\ held[r].token = t)
    BY <1>1, <1>7 DEF Owing, Uncharged
  <2>2. entries'[t] = entries[t]
    BY <2>1 DEF Charge, TypeInv, TypeOK
  <2>3. Owing(t)' = Owing(t)
    BY <1>2, <1>7
  <2> QED BY <1>1, <2>2, <2>3
<1> QED BY <1>6, <1>7

\* No other step selects, charges or refreshes.
LEMMA OtherOverdraft ==
    ASSUME TypeInv, [Next]_vars,
           \A r \in Requests : ~Select(r) /\ ~Refuse(r) /\ ~Charge(r),
           NEW t \in Tokens
    PROVE  /\ quota' = quota /\ drawn' = drawn
           /\ entries'[t].available = entries[t].available
           /\ Owing(t)' = Owing(t)
<1>1. ASSUME NEW r \in Requests,
             \/ RecordRequest(r) \/ ShouldRotate(r) \/ ResetTokenCount(r)
             \/ Rotate(r)
      PROVE  /\ quota' = quota /\ drawn' = drawn /\ entries' = entries
             /\ Owing(t)' = Owing(t)
  <2>1. quota' = quota /\ drawn' = drawn /\ entries' = entries /\ held' = held
    BY <1>1 DEF RecordRequest, ShouldRotate, ResetTokenCount, Rotate,
                AdvanceToNextToken, historyVars
  <2>2. /\ pc[r] \in Uncharged
        /\ \E st \in Uncharged : pc' = [pc EXCEPT ![r] = st]
    BY <1>1 DEF RecordRequest, ShouldRotate, ResetTokenCount, Rotate, Uncharged
  <2> QED BY <2>1, <2>2, SameOwing
<1>2. ASSUME NEW r \in Requests,
             \/ Finish(r) \/ ReadCurrentKey(r) \/ MarkTokenCooldown(r)
             \/ FailOver(r)
      PROVE  /\ quota' = quota /\ drawn' = drawn /\ entries' = entries
             /\ Owing(t)' = Owing(t)
  <2>1. quota' = quota /\ drawn' = drawn /\ entries' = entries
    BY <1>2 DEF Finish, ReadCurrentKey, MarkTokenCooldown, FailOver,
                AdvanceToNextToken, historyVars
  <2>2. /\ pc[r] \notin Uncharged
        /\ \E st : st \notin Uncharged /\ pc' = [pc EXCEPT ![r] = st]
    BY <1>2 DEF Finish, ReadCurrentKey, MarkTokenCooldown, FailOver, Uncharged
  <2>3. \A q \in Requests \ {r} : held'[q] = held[q]
    BY <1>2 DEF Finish, ReadCurrentKey, MarkTokenCooldown, FailOver, TypeInv,
                TypeOK
  <2>4. Owing(t)' = Owing(t)
    BY <2>2, <2>3 DEF Owing, TypeInv, TypeOK
  <2> QED BY <2>1, <2>4
<1>3. ASSUME NEW s \in Tokens, EntryExpires(s)
      PROVE  /\ quota' = quota /\ drawn' = drawn
             /\ entries'[t].available = entries[t].available
             /\ Owing(t)' = Owing(t)
  <2>1. quota' = quota /\ drawn' = drawn /\ pc' = pc /\ held' = held
    BY <1>3 DEF EntryExpires, requestVars, historyVars
  <2>2. entries'[t].available = entries[t].available
    BY <1>3 DEF EntryExpires, TypeInv, TypeOK
  <2> QED BY <2>1, <2>2 DEF Owing
<1>4. CASE \/ RefreshFallsDue \/ NewDay \/ UNCHANGED vars
           \/ \E s \in Tokens : CooldownEnds(s)
  <2>1. /\ quota' = quota /\ drawn' = drawn /\ pc' = pc /\ held' = held
        /\ entries' = entries
    BY <1>4 DEF RefreshFallsDue, NewDay, CooldownEnds, vars, requestVars,
                historyVars
  <2> QED BY <2>1 DEF Owing
<1> QED BY <1>1, <1>2, <1>3, <1>4 DEF Next, Request

THEOREM OverdraftInvInductive ==
    TypeInv /\ TypeInv' /\ OverdraftInv /\ [Next]_vars => OverdraftInv'
<1> SUFFICES ASSUME TypeInv, TypeInv', OverdraftInv, [Next]_vars,
                    NEW t \in Tokens
             PROVE  Within(quota'[t], entries'[t].available, drawn'[t],
                           Cardinality(Owing(t)'))
  BY DEF OverdraftInv, Within, Owing
<1>1. Within(quota[t], entries[t].available, drawn[t], Cardinality(Owing(t)))
  BY DEF OverdraftInv, Within
<1>2. CASE \E r \in Requests : Select(r) \/ Refuse(r) \/ Charge(r)
  BY <1>1, <1>2, SelectOverdraft, RefuseOverdraft, ChargeOverdraft
<1>3. CASE \A r \in Requests : ~Select(r) /\ ~Refuse(r) /\ ~Charge(r)
  <2>1. /\ quota' = quota /\ drawn' = drawn
        /\ entries'[t].available = entries[t].available
        /\ Owing(t)' = Owing(t)
    BY <1>3, OtherOverdraft
  <2> QED BY <1>1, <2>1
<1> QED BY <1>2, <1>3

(* OverdraftBounded: an account is asked for at most two calls per other   *)
(* request beyond what upstream said it had.                               *)
THEOREM OverdraftHolds == Spec => []OverdraftBounded
<1>1. Init => OverdraftInv
  <2> SUFFICES ASSUME Init, NEW t \in Tokens
               PROVE  /\ drawn[t] <= quota[t] + 2 * (Concurrent - 1)
                      /\ ~(entries[t].available > 0)
    BY DEF OverdraftInv
  <2>1. drawn[t] = 0 /\ quota[t] = 0 /\ entries[t].available = 0
    BY DEF Init
  <2> QED BY <2>1, Counting
<1>2. OverdraftInv => OverdraftBounded
  BY DEF OverdraftInv, OverdraftBounded
<1> QED BY <1>1, <1>2, TypeInvHolds, OverdraftInvInductive, PTL DEF Spec

-----------------------------------------------------------------------------
(* The consecutive uses.  Room(m) is what m requests that are not about to *)
(* move the pool can still add to the streak: the first of them to reset   *)
(* the count has let MaxConsecutiveUse uses be counted, and those of the   *)
(* m - 1 others that had recorded theirs are wiped with them.              *)
Room(m) == m * MaxConsecutiveUse + (m * (m - 1)) \div 2

LEMMA RoomStep ==
    ASSUME NEW m \in Nat
    PROVE  /\ Room(m) \in Nat
           /\ Room(m + 1) = Room(m) + MaxConsecutiveUse + m
<1> DEFINE x == m * (m - 1)
           y == m * MaxConsecutiveUse
<1>1. x \in Nat
  <2>1. CASE m = 0
    BY <2>1
  <2>2. CASE m # 0
    <3>1. m - 1 \in Nat
      BY <2>2
    <3> QED BY <3>1
  <2> QED BY <2>1, <2>2
<1>2. y \in Nat
  BY PoolAssumption
<1>3. (m + 1) * ((m + 1) - 1) = x + 2 * m
  OBVIOUS
<1>4. (m + 1) * MaxConsecutiveUse = y + MaxConsecutiveUse
  BY PoolAssumption
<1>5. Room(m) = y + x \div 2
  BY DEF Room
<1>6. Room(m + 1) = y + MaxConsecutiveUse + (x + 2 * m) \div 2
  BY <1>3, <1>4 DEF Room
<1> HIDE DEF x, y
<1>7. (x + 2 * m) \div 2 = x \div 2 + m /\ x \div 2 \in Nat
  BY <1>1
<1> QED BY <1>1, <1>2, <1>5, <1>6, <1>7, PoolAssumption

LEMMA RoomGrows ==
    ASSUME NEW m \in Nat, NEW n \in Nat, m <= n PROVE Room(m) <= Room(n)
<1> DEFINE d == n - m
           x == m * (m - 1)
           e == d * (2 * m + d - 1)
           y == m * MaxConsecutiveUse
           z == d * MaxConsecutiveUse
<1>1. d \in Nat /\ n = m + d
  OBVIOUS
<1>2. e \in Nat
  <2>1. CASE d = 0
    BY <2>1
  <2>2. CASE d # 0
    <3>1. 2 * m + d - 1 \in Nat
      BY <1>1, <2>2
    <3> QED BY <1>1, <3>1
  <2> QED BY <2>1, <2>2
<1>3. y \in Nat /\ z \in Nat /\ n * MaxConsecutiveUse = y + z
  BY <1>1, PoolAssumption
<1>4. x \in Int /\ n * (n - 1) = x + e
  BY <1>1
<1>5. Room(m) = y + x \div 2 /\ Room(n) = y + z + (x + e) \div 2
  BY <1>3, <1>4 DEF Room
<1> HIDE DEF x, y, z, e
<1>6. x \div 2 \in Int /\ (x + e) \div 2 \in Int /\ x \div 2 <= (x + e) \div 2
  BY <1>2, <1>4
<1> QED BY <1>3, <1>5, <1>6

LEMMA ThreeDisjoint ==
    ASSUME NEW A \in SUBSET Requests, NEW B \in SUBSET Requests,
           NEW D \in SUBSET Requests,
           A \cap B = {}, (A \cup B) \cap D = {}
    PROVE  Cardinality(A) + Cardinality(B) + Cardinality(D) <= Concurrent
<1>1. IsFiniteSet(A) /\ IsFiniteSet(B) /\ IsFiniteSet(D)
  BY Counting
<1>2. /\ IsFiniteSet(A \cup B)
      /\ Cardinality(A \cup B)
            = Cardinality(A) + Cardinality(B) - Cardinality(A \cap B)
  BY <1>1, FS_Union
<1>3. Cardinality((A \cup B) \cup D)
        = Cardinality(A \cup B) + Cardinality(D) - Cardinality((A \cup B) \cap D)
  BY <1>1, <1>2, FS_Union
<1>4. Cardinality(A \cap B) = 0 /\ Cardinality((A \cup B) \cap D) = 0
  BY FS_EmptySet
<1>5. Cardinality((A \cup B) \cup D) <= Concurrent
  <2>1. (A \cup B) \cup D \in SUBSET Requests
    OBVIOUS
  <2> QED BY <2>1, Counting
<1>6. /\ Cardinality(A) \in Nat /\ Cardinality(B) \in Nat
      /\ Cardinality(D) \in Nat
  BY Counting
<1> QED BY <1>2, <1>3, <1>4, <1>5, <1>6

\* The requests that have reset a count and will move the pool, and those
\* whose use of t is counted but may still be wiped.
Leaving == {r \in Requests : pc[r] \in {"rotate", "failover"}}
Counted(t) ==
    {r \in Requests : pc[r] \in {"decide", "reset"} /\ held[r].token = t}

CountInv ==
    \A t \in Tokens :
        requestCount[t] <= MaxConsecutiveUse - 1 + Cardinality(Counted(t))

Stay == Concurrent - Cardinality(Leaving)
StreakInv ==
    /\ streak <= Room(Concurrent)
    /\ streak + Room(Stay) <= Room(Concurrent) + requestCount[currentIndex]
                                + Cardinality(Unrecorded(currentIndex))

LEMMA UseSubsets ==
    \A t : /\ Counted(t) \in SUBSET Requests /\ Counted(t)' \in SUBSET Requests
           /\ Unrecorded(t) \in SUBSET Requests
           /\ Unrecorded(t)' \in SUBSET Requests
           /\ Leaving \in SUBSET Requests /\ Leaving' \in SUBSET Requests
  BY DEF Counted, Unrecorded, Leaving

LEMMA UseCounts ==
    \A t : /\ Cardinality(Counted(t)) \in Nat
           /\ Cardinality(Counted(t)') \in Nat
           /\ Cardinality(Unrecorded(t)) \in Nat
           /\ Cardinality(Unrecorded(t)') \in Nat
           /\ Cardinality(Leaving) \in 0 .. Concurrent
           /\ Cardinality(Leaving') \in 0 .. Concurrent
  BY UseSubsets, Counting

\* How one request's step moves it in or out of a set.
LEMMA Joins ==
    ASSUME NEW S \in SUBSET Requests, NEW r \in Requests, r \notin S
    PROVE  Cardinality(S \cup {r}) = Cardinality(S) + 1
  BY Counting
LEMMA Leaves ==
    ASSUME NEW S \in SUBSET Requests, NEW r \in S
    PROVE  Cardinality(S \ {r}) = Cardinality(S) - 1
  BY Counting

THEOREM CountInvInductive ==
    MaxConsecutiveUse > 0 =>
        (TypeInv /\ TypeInv' /\ CountInv /\ [Next]_vars => CountInv')
<1> SUFFICES ASSUME MaxConsecutiveUse > 0, TypeInv, TypeInv', CountInv,
                    [Next]_vars, NEW t \in Tokens
             PROVE  requestCount'[t] <=
                        MaxConsecutiveUse - 1 + Cardinality(Counted(t)')
  BY DEF CountInv, Counted
<1> DEFINE Goal == requestCount'[t] <=
                        MaxConsecutiveUse - 1 + Cardinality(Counted(t)')
<1>a. /\ requestCount[t] \in Nat /\ requestCount'[t] \in Nat
      /\ MaxConsecutiveUse \in Nat \ {0}
  <2>1. requestCount[t] \in Nat /\ requestCount'[t] \in Nat
    BY DEF TypeInv, TypeOK
  <2>2. MaxConsecutiveUse \in Nat \ {0}
    BY PoolAssumption
  <2> QED BY <2>1, <2>2
<1>b. requestCount[t] <= MaxConsecutiveUse - 1 + Cardinality(Counted(t))
  BY DEF CountInv
<1>c. ASSUME requestCount'[t] = 0 PROVE Goal
  BY <1>a, <1>c, UseCounts
<1>d. ASSUME requestCount'[t] = requestCount[t], Counted(t)' = Counted(t)
      PROVE  Goal
  BY <1>b, <1>d
<1>1. ASSUME NEW r \in Requests, RecordRequest(r) PROVE Goal
  <2>1. CASE held[r].token = t
    <3>1. Counted(t)' = Counted(t) \cup {r} /\ r \notin Counted(t)
      BY <1>1, <2>1 DEF RecordRequest, Counted, TypeInv, TypeOK
    <3>2. Cardinality(Counted(t)') = Cardinality(Counted(t)) + 1
      BY <3>1, Joins, UseSubsets
    <3>3. requestCount'[t] = requestCount[t] + 1
      BY <1>1, <2>1 DEF RecordRequest, TypeInv, TypeOK
    <3> QED BY <1>a, <1>b, <3>2, <3>3, UseCounts
  <2>2. CASE held[r].token # t
    <3>1. Counted(t)' = Counted(t) /\ requestCount'[t] = requestCount[t]
      BY <1>1, <2>2 DEF RecordRequest, Counted, TypeInv, TypeOK
    <3> QED BY <1>d, <3>1
  <2> QED BY <2>1, <2>2
<1>2. ASSUME NEW r \in Requests, ShouldRotate(r) PROVE Goal
  <2>1. requestCount' = requestCount /\ held' = held
    BY <1>2 DEF ShouldRotate, limiterVars
  <2>2. CASE requestCount[held[r].token] >= MaxConsecutiveUse
    <3>1. Counted(t)' = Counted(t)
      BY <1>2, <2>1, <2>2 DEF ShouldRotate, Counted, TypeInv, TypeOK
    <3> QED BY <1>d, <2>1, <3>1
  <2>3. CASE ~(requestCount[held[r].token] >= MaxConsecutiveUse)
    <3>1. CASE held[r].token = t
      <4>1. requestCount'[t] <= MaxConsecutiveUse - 1
        BY <1>a, <2>1, <2>3, <3>1
      <4> QED BY <1>a, <4>1, UseCounts
    <3>2. CASE held[r].token # t
      <4>1. Counted(t)' = Counted(t)
        BY <1>2, <2>1, <3>2 DEF ShouldRotate, Counted, TypeInv, TypeOK
      <4> QED BY <1>d, <2>1, <4>1
    <3> QED BY <3>1, <3>2
  <2> QED BY <2>2, <2>3
<1>3. ASSUME NEW r \in Requests, ResetTokenCount(r) PROVE Goal
  <2>1. CASE held[r].token = t
    <3>1. requestCount'[t] = 0
      BY <1>3, <2>1 DEF ResetTokenCount, TypeInv, TypeOK
    <3> QED BY <1>c, <3>1
  <2>2. CASE held[r].token # t
    <3>1. Counted(t)' = Counted(t) /\ requestCount'[t] = requestCount[t]
      BY <1>3, <2>2 DEF ResetTokenCount, Counted, TypeInv, TypeOK
    <3> QED BY <1>d, <3>1
  <2> QED BY <2>1, <2>2
<1>4. ASSUME NEW r \in Requests, MarkTokenCooldown(r) PROVE Goal
  <2>1. Counted(t)' = Counted(t)
    BY <1>4 DEF MarkTokenCooldown, Counted, TypeInv, TypeOK
  <2>2. requestCount'[t] = 0 \/ requestCount'[t] = requestCount[t]
    BY <1>4 DEF MarkTokenCooldown, TypeInv, TypeOK
  <2> QED BY <1>c, <1>d, <2>1, <2>2
<1>5. ASSUME NEW r \in Requests, Select(r) PROVE Goal
  <2>1. PICK found \in Found, s \in Tokens :
          held' = [Detached(found) EXCEPT
                            ![r] = [token |-> s, cached |-> TRUE]]
    BY <1>5, SelectFacts
  <2>2. \A q \in Requests \ {r} : held'[q].token = held[q].token
    BY <2>1, SelectHolds
  <2>3. Counted(t)' = Counted(t)
    BY <1>5, <2>2 DEF Select, Counted, TypeInv, TypeOK
  <2>4. requestCount' = requestCount
    BY <1>5 DEF Select
  <2> QED BY <1>d, <2>3, <2>4
<1>6. ASSUME NEW r \in Requests, Refuse(r) PROVE Goal
  <2>1. PICK found \in Outcomes : held' = Detached(found)
    BY <1>6 DEF Refuse
  <2>2. \A q \in Requests : held'[q].token = held[q].token
    BY <2>1 DEF Detached, TypeInv, TypeOK
  <2>3. Counted(t)' = Counted(t) /\ requestCount' = requestCount
    BY <1>6, <2>2 DEF Refuse, Counted
  <2> QED BY <1>d, <2>3
<1>7. ASSUME NEW r \in Requests,
             Rotate(r) \/ Charge(r) \/ Finish(r) \/ ReadCurrentKey(r) \/ FailOver(r)
      PROVE  Goal
  <2>1. requestCount' = requestCount
    BY <1>7 DEF Rotate, Charge, Finish, ReadCurrentKey, FailOver, limiterVars
  <2>2. /\ pc[r] \notin {"decide", "reset"}
        /\ \E st : st \notin {"decide", "reset"} /\ pc' = [pc EXCEPT ![r] = st]
    BY <1>7 DEF Rotate, Charge, Finish, ReadCurrentKey, FailOver
  <2>3. \A q \in Requests \ {r} : held'[q] = held[q]
    BY <1>7 DEF Rotate, Charge, Finish, ReadCurrentKey, FailOver, TypeInv, TypeOK
  <2>4. Counted(t)' = Counted(t)
    BY <2>2, <2>3 DEF Counted, TypeInv, TypeOK
  <2> QED BY <1>d, <2>1, <2>4
<1>8. CASE \/ RefreshFallsDue \/ NewDay \/ UNCHANGED vars
           \/ \E s \in Tokens : EntryExpires(s) \/ CooldownEnds(s)
  <2>1. UNCHANGED <<requestCount, pc, held>>
    BY <1>8 DEF RefreshFallsDue, NewDay, EntryExpires, CooldownEnds, vars,
                limiterVars, requestVars
  <2> QED BY <1>d, <2>1 DEF Counted
<1> QED
  BY <1>1, <1>2, <1>3, <1>4, <1>5, <1>6, <1>7, <1>8 DEF Next, Request

\* The second conjunct of StreakInv as arithmetic: s, m, c and u are streak,
\* Stay, the current token's count and its unrecorded uses.
Fits(s, m, c, u) == s + Room(m) <= Room(Concurrent) + c + u

LEMMA StayType ==
    /\ Stay \in 0 .. Concurrent /\ Stay' \in 0 .. Concurrent
    /\ Concurrent \in Nat
<1>1. Concurrent \in Nat /\ Concurrent' = Concurrent
  BY Counting DEF Concurrent
<1>2. Cardinality(Leaving) \in 0 .. Concurrent
  BY UseCounts
<1>3. Cardinality(Leaving)' \in 0 .. Concurrent
  BY UseCounts
<1>4. Stay' = Concurrent - Cardinality(Leaving)'
  BY <1>1 DEF Stay
<1> QED BY <1>1, <1>2, <1>3, <1>4 DEF Stay

\* The pool has just moved, to any token: there is room for anything.
LEMMA FitsAfresh ==
    ASSUME NEW m \in 0 .. Concurrent, NEW c \in Nat, NEW u \in Nat
    PROVE  /\ Fits(0, m, c, u)
           /\ u > 0 => Fits(1, m, c, u)
<1>1. Concurrent \in Nat /\ m \in Nat
  BY Counting
<1>2. Room(m) \in Nat /\ Room(Concurrent) \in Nat /\ Room(m) <= Room(Concurrent)
  BY <1>1, RoomStep, RoomGrows
<1> QED BY <1>2 DEF Fits

\* A request joins Leaving, having wiped the count c or not.
LEMMA FitsLeaving ==
    ASSUME NEW s \in Nat, NEW m \in 1 .. Concurrent, NEW c \in Nat,
           NEW u \in Nat, Fits(s, m, c, u)
    PROVE  /\ Fits(s, m - 1, c, u)
           /\ c + u <= MaxConsecutiveUse - 1 + m => Fits(s, m - 1, 0, u)
<1>1. Concurrent \in Nat /\ m - 1 \in Nat
  BY Counting
<1>2. /\ Room(m - 1) \in Nat /\ Room(Concurrent) \in Nat
      /\ Room(m) = Room(m - 1) + MaxConsecutiveUse + (m - 1)
  BY <1>1, RoomStep
<1> QED BY <1>1, <1>2, PoolAssumption DEF Fits

\* What is counted and what will be, of requests that are still to stay.
LEMMA StayBounds ==
    ASSUME TypeInv, NEW t \in Tokens
    PROVE  Cardinality(Counted(t)) + Cardinality(Unrecorded(t)) <= Stay
<1>1. /\ Counted(t) \cap Unrecorded(t) = {}
      /\ (Counted(t) \cup Unrecorded(t)) \cap Leaving = {}
  BY DEF Counted, Unrecorded, Leaving
<1>2. Cardinality(Counted(t)) + Cardinality(Unrecorded(t)) + Cardinality(Leaving)
        <= Concurrent
  BY <1>1, ThreeDisjoint, UseSubsets
<1> QED BY <1>2, UseCounts, Counting DEF Stay

\* One more use fits: the request that makes it was not leaving.
LEMMA FitsOneMore ==
    ASSUME NEW s \in Nat, NEW m \in 1 .. Concurrent, NEW c \in Nat,
           NEW u \in Nat, Fits(s, m, c, u), c + u <= MaxConsecutiveUse - 1 + m - 1
    PROVE  s + 1 <= Room(Concurrent) /\ Fits(s + 1, m, c, u + 1)
<1>1. Concurrent \in Nat /\ m - 1 \in Nat
  BY Counting
<1>2. /\ Room(m - 1) \in Nat /\ Room(Concurrent) \in Nat
      /\ Room(m) = Room(m - 1) + MaxConsecutiveUse + (m - 1)
  BY <1>1, RoomStep
<1> QED BY <1>1, <1>2, PoolAssumption DEF Fits

THEOREM StreakInvInductive ==
    MaxConsecutiveUse > 0 =>
        (TypeInv /\ TypeInv' /\ CountInv /\ StreakInv /\ [Next]_vars
            => StreakInv')
<1> DEFINE c == requestCount[currentIndex]
           U == Unrecorded(currentIndex)
           u == Cardinality(U)
           V == {q \in Requests : pc'[q] = "record"
                                    /\ held'[q].token = currentIndex'}
<1> SUFFICES ASSUME MaxConsecutiveUse > 0, TypeInv, TypeInv', CountInv,
                    StreakInv, [Next]_vars
             PROVE  /\ streak' <= Room(Concurrent)
                    /\ Fits(streak', Stay', requestCount'[currentIndex'],
                            Cardinality(V))
  <2>1. V = Unrecorded(currentIndex)'
    BY DEF Unrecorded
  <2> QED BY <2>1, Counting DEF StreakInv, Fits, Room, Concurrent
<1> DEFINE Goal == /\ streak' <= Room(Concurrent)
                   /\ Fits(streak', Stay', requestCount'[currentIndex'],
                           Cardinality(V))
<1>a. currentIndex \in Tokens /\ streak \in Nat /\ c \in Nat
  BY DEF TypeInv, TypeOK
<1>b. currentIndex' \in Tokens /\ requestCount'[currentIndex'] \in Nat
  BY DEF TypeInv, TypeOK
<1>c. U \in SUBSET Requests /\ u \in Nat /\ V \in SUBSET Requests
  BY UseSubsets, UseCounts
<1>d. Cardinality(V) \in Nat
  BY <1>c, Counting
<1>e. streak <= Room(Concurrent) /\ Fits(streak, Stay, c, u)
  BY DEF StreakInv, Fits
<1>f. /\ c <= MaxConsecutiveUse - 1 + Cardinality(Counted(currentIndex))
      /\ Cardinality(Counted(currentIndex)) + u <= Stay
      /\ Cardinality(Counted(currentIndex)) \in Nat
  BY <1>a, StayBounds, UseCounts DEF CountInv
<1>g. /\ Stay \in 0 .. Concurrent /\ Stay' \in 0 .. Concurrent
      /\ Concurrent \in Nat /\ MaxConsecutiveUse \in Nat \ {0}
  BY StayType, PoolAssumption
<1>h. ASSUME streak' = streak, Stay' = Stay, V = U,
             requestCount'[currentIndex'] = c
      PROVE  Goal
  BY <1>e, <1>h
<1>i. ASSUME NEW r \in Requests, Leaving' = Leaving \cup {r}, r \notin Leaving
      PROVE  Stay' = Stay - 1 /\ Stay \in 1 .. Concurrent
  <2>1. Cardinality(Leaving') = Cardinality(Leaving) + 1
    BY <1>i, Joins, UseSubsets
  <2>2. Stay' = Concurrent - Cardinality(Leaving')
    BY DEF Stay, Concurrent
  <2> QED BY <1>g, <2>1, <2>2, UseCounts DEF Stay
<1>j. ASSUME Leaving' = Leaving PROVE Stay' = Stay
  BY <1>j DEF Stay, Concurrent
<1> HIDE DEF Goal
<1>1. ASSUME NEW r \in Requests, Select(r) PROVE Goal
  <2>1. PICK found \in Outcomes, k \in 0 .. N - 1 :
          /\ currentIndex' = TokenAt(k)
          /\ held' = [Detached(found) EXCEPT
                            ![r] = [token |-> TokenAt(k), cached |-> TRUE]]
          /\ streak' = IF k = 0 THEN streak + 1 ELSE 1
    BY <1>1 DEF Select
  <2>2. /\ pc[r] = "idle" /\ pc' = [pc EXCEPT ![r] = "record"]
        /\ requestCount' = requestCount
    BY <1>1 DEF Select
  <2>3. held'[r].token = currentIndex'
    BY <2>1 DEF Detached
  <2>4. \A q \in Requests \ {r} : held'[q].token = held[q].token
    <3>1. found \in Found /\ TokenAt(k) \in Tokens
      BY <1>b, <2>1, OutcomesType
    <3> QED BY <2>1, <3>1, SelectHolds
  <2>5. Leaving' = Leaving /\ r \notin Leaving
    BY <2>2 DEF Leaving, TypeInv, TypeOK
  <2>6. V = Unrecorded(currentIndex') \cup {r} /\ r \notin Unrecorded(currentIndex')
    BY <2>2, <2>3, <2>4 DEF Unrecorded, TypeInv, TypeOK
  <2>7. Cardinality(V) = Cardinality(Unrecorded(currentIndex')) + 1
    BY <2>6, Joins, UseSubsets
  <2>8. Stay' = Stay
    BY <1>j, <2>5
  <2>9. CASE k = 0
    <3>1. currentIndex' = currentIndex
      BY <2>1, <2>9, <1>a, PoolAssumption DEF TokenAt
    <3>2. Cardinality(Counted(currentIndex)) + u <= Stay - 1
      <4>1. Leaving \cup {r} \in SUBSET Requests
        BY UseSubsets
      <4>2. /\ Counted(currentIndex) \cap U = {}
            /\ (Counted(currentIndex) \cup U) \cap (Leaving \cup {r}) = {}
        BY <2>2 DEF Counted, Unrecorded, Leaving
      <4>3. Cardinality(Leaving \cup {r}) = Cardinality(Leaving) + 1
        BY <2>5, Joins, UseSubsets
      <4>4. Cardinality(Counted(currentIndex)) + u
                + Cardinality(Leaving \cup {r}) <= Concurrent
        BY <4>1, <4>2, ThreeDisjoint, UseSubsets
      <4> QED BY <1>c, <1>f, <1>g, <4>3, <4>4, UseCounts DEF Stay
    <3>3. c + u <= MaxConsecutiveUse - 1 + Stay - 1 /\ Stay \in 1 .. Concurrent
      BY <1>a, <1>c, <1>f, <1>g, <3>2
    <3>4. /\ streak + 1 <= Room(Concurrent)
          /\ Fits(streak + 1, Stay, c, u + 1)
      BY <1>a, <1>c, <1>e, <3>3, FitsOneMore
    <3>5. /\ streak' = streak + 1 /\ requestCount'[currentIndex'] = c
          /\ Cardinality(V) = u + 1
      BY <2>1, <2>2, <2>7, <2>9, <3>1
    <3> QED BY <2>8, <3>4, <3>5 DEF Goal
  <2>10. CASE k # 0
    <3>1. streak' = 1
      BY <2>1, <2>10
    <3>2. Cardinality(V) > 0
      BY <1>b, <2>7, UseCounts
    <3>3. Fits(1, Stay', requestCount'[currentIndex'], Cardinality(V))
      BY <1>b, <1>d, <1>g, <3>2, FitsAfresh
    <3>4. 1 <= Room(Concurrent)
      <4>1. Concurrent \in Nat \ {0}
        BY Counting
      <4>2. Concurrent - 1 \in Nat /\ Room(Concurrent - 1) \in Nat
        BY <4>1, RoomStep
      <4>3. Room(Concurrent) =
                Room(Concurrent - 1) + MaxConsecutiveUse + (Concurrent - 1)
        <5>1. Room((Concurrent - 1) + 1) =
                Room(Concurrent - 1) + MaxConsecutiveUse + (Concurrent - 1)
          BY <4>2, RoomStep
        <5>2. (Concurrent - 1) + 1 = Concurrent
          BY <4>1
        <5> QED BY <5>1, <5>2
      <4> QED BY <1>g, <4>1, <4>2, <4>3
    <3> QED BY <3>1, <3>3, <3>4 DEF Goal
  <2> QED BY <2>9, <2>10
<1>2. ASSUME NEW r \in Requests, Refuse(r) PROVE Goal
  <2>1. PICK found \in Outcomes : held' = Detached(found)
    BY <1>2 DEF Refuse
  <2>2. \A q \in Requests : held'[q].token = held[q].token
    BY <2>1 DEF Detached, TypeInv, TypeOK
  <2>3. UNCHANGED <<pc, streak, currentIndex, requestCount>>
    BY <1>2 DEF Refuse
  <2>4. V = U /\ Leaving' = Leaving
    BY <2>2, <2>3 DEF Unrecorded, Leaving
  <2> QED BY <1>h, <1>j, <2>3, <2>4
<1>3. ASSUME NEW r \in Requests, RecordRequest(r) PROVE Goal
  <2>1. /\ pc[r] = "record" /\ pc' = [pc EXCEPT ![r] = "decide"]
        /\ UNCHANGED <<held, streak, currentIndex>>
    BY <1>3 DEF RecordRequest, historyVars
  <2>2. Stay' = Stay
    <3>1. Leaving' = Leaving
      BY <2>1 DEF Leaving, TypeInv, TypeOK
    <3> QED BY <1>j, <3>1
  <2>3. CASE held[r].token = currentIndex
    <3>1. V = U \ {r} /\ r \in U
      BY <2>1, <2>3 DEF Unrecorded, TypeInv, TypeOK
    <3>2. Cardinality(V) = u - 1
      BY <3>1, Leaves, UseSubsets
    <3>3. requestCount'[currentIndex'] = c + 1
      BY <1>3, <1>a, <2>1, <2>3 DEF RecordRequest, TypeInv, TypeOK
    <3>4. c + u = (c + 1) + (u - 1)
      BY <1>a, <1>c
    <3>5. Room(Stay) \in Nat /\ Room(Concurrent) \in Nat
      BY <1>g, RoomStep
    <3>6. Fits(streak, Stay, c + 1, u - 1)
      BY <1>a, <1>c, <1>e, <3>5 DEF Fits
    <3> QED BY <1>e, <2>1, <2>2, <3>2, <3>3, <3>6 DEF Goal
  <2>4. CASE held[r].token # currentIndex
    <3>1. V = U
      BY <2>1, <2>4 DEF Unrecorded, TypeInv, TypeOK
    <3>2. requestCount'[currentIndex'] = c
      BY <1>3, <2>1, <2>4 DEF RecordRequest, TypeInv, TypeOK
    <3> QED BY <1>h, <2>1, <2>2, <3>1, <3>2
  <2> QED BY <2>3, <2>4
<1>4. ASSUME NEW r \in Requests, ResetTokenCount(r) \/ MarkTokenCooldown(r)
      PROVE  Goal
  <2>1. /\ pc[r] \notin {"rotate", "failover", "record"}
        /\ \E st \in {"rotate", "failover"} : pc' = [pc EXCEPT ![r] = st]
        /\ UNCHANGED <<held, streak, currentIndex>>
    BY <1>4 DEF ResetTokenCount, MarkTokenCooldown, historyVars
  <2>2. Leaving' = Leaving \cup {r} /\ r \notin Leaving /\ V = U
    BY <2>1 DEF Leaving, Unrecorded, TypeInv, TypeOK
  <2>3. Stay' = Stay - 1 /\ Stay \in 1 .. Concurrent
    BY <1>i, <2>2
  <2>4. requestCount'[currentIndex'] = 0 \/ requestCount'[currentIndex'] = c
    BY <1>4, <2>1 DEF ResetTokenCount, MarkTokenCooldown, TypeInv, TypeOK
  <2>5. c + u <= MaxConsecutiveUse - 1 + Stay
    BY <1>a, <1>c, <1>f, <1>g
  <2>6. Fits(streak, Stay - 1, c, u) /\ Fits(streak, Stay - 1, 0, u)
    BY <1>a, <1>c, <1>e, <2>3, <2>5, FitsLeaving
  <2> QED BY <1>e, <2>1, <2>2, <2>3, <2>4, <2>6 DEF Goal
<1>5. ASSUME NEW r \in Requests, Rotate(r) \/ FailOver(r) PROVE Goal
  <2>1. streak' = 0
    BY <1>5 DEF Rotate, FailOver, AdvanceToNextToken
  <2>2. Fits(0, Stay', requestCount'[currentIndex'], Cardinality(V))
    BY <1>b, <1>d, <1>g, FitsAfresh
  <2>3. Room(Concurrent) \in Nat
    BY <1>g, RoomStep
  <2> QED BY <2>1, <2>2, <2>3 DEF Goal
<1>6. ASSUME NEW r \in Requests,
             ShouldRotate(r) \/ Charge(r) \/ Finish(r) \/ ReadCurrentKey(r)
      PROVE  Goal
  <2>1. UNCHANGED <<streak, currentIndex, requestCount>>
    BY <1>6 DEF ShouldRotate, Charge, Finish, ReadCurrentKey, limiterVars,
                historyVars
  <2>2. /\ pc[r] \notin {"rotate", "failover", "record"}
        /\ \E st : st \notin {"rotate", "failover", "record"}
                    /\ pc' = [pc EXCEPT ![r] = st]
    <3>1. CASE ShouldRotate(r)
      BY <3>1 DEF ShouldRotate
    <3>2. CASE ~ShouldRotate(r)
      BY <1>6, <3>2 DEF Charge, Finish, ReadCurrentKey
    <3> QED BY <3>1, <3>2
  <2>3. \A q \in Requests \ {r} : held'[q] = held[q]
    BY <1>6 DEF ShouldRotate, Charge, Finish, ReadCurrentKey, TypeInv, TypeOK
  <2>4. V = U /\ Leaving' = Leaving
    BY <2>1, <2>2, <2>3 DEF Unrecorded, Leaving, TypeInv, TypeOK
  <2> QED BY <1>h, <1>j, <2>1, <2>4
<1>7. CASE \/ RefreshFallsDue \/ NewDay \/ UNCHANGED vars
           \/ \E s \in Tokens : EntryExpires(s) \/ CooldownEnds(s)
  <2>1. UNCHANGED <<streak, currentIndex, requestCount, pc, held>>
    BY <1>7 DEF RefreshFallsDue, NewDay, EntryExpires, CooldownEnds, vars,
                limiterVars, requestVars, historyVars
  <2>2. V = U /\ Leaving' = Leaving
    BY <2>1 DEF Unrecorded, Leaving
  <2>3. Goal
    BY <1>h, <1>j, <2>1, <2>2
  <2> QED BY <2>3 DEF Goal
<1>8. Goal
  BY <1>1, <1>2, <1>3, <1>4, <1>5, <1>6, <1>7 DEF Next, Request, Goal
<1> QED BY <1>8 DEF Goal

(* UseBounded: how far the consecutive-use limit can be exceeded when the  *)
(* requests interleave in the worst way.                                   *)
THEOREM UseHolds == Spec => []UseBounded
<1> DEFINE Inv == MaxConsecutiveUse > 0 => CountInv /\ StreakInv
<1>1. Init => Inv
  <2> SUFFICES ASSUME Init, MaxConsecutiveUse > 0 PROVE CountInv /\ StreakInv
    OBVIOUS
  <2>1. MaxConsecutiveUse \in Nat \ {0} /\ 0 \in Tokens
    BY PoolAssumption
  <2>2. CountInv
    <3> SUFFICES ASSUME NEW t \in Tokens
                 PROVE  0 <= MaxConsecutiveUse - 1 + Cardinality(Counted(t))
      BY DEF CountInv, Init
    <3> QED BY <2>1, UseCounts
  <2>3. /\ streak = 0 /\ requestCount[currentIndex] = 0
        /\ Stay \in 0 .. Concurrent
        /\ Cardinality(Unrecorded(currentIndex)) \in Nat
    BY <2>1, StayType, UseCounts DEF Init
  <2>4. Fits(0, Stay, 0, Cardinality(Unrecorded(currentIndex)))
    BY <2>3, FitsAfresh
  <2>5. Room(Concurrent) \in Nat
    BY StayType, RoomStep
  <2>6. StreakInv
    BY <2>3, <2>4, <2>5 DEF StreakInv, Fits
  <2> QED BY <2>2, <2>6
<1>2. TypeInv /\ TypeInv' /\ Inv /\ [Next]_vars => Inv'
  BY CountInvInductive, StreakInvInductive
<1>3. Inv => UseBounded
  <2> SUFFICES ASSUME Inv, MaxConsecutiveUse > 0
               PROVE  streak <= MaxConsecutiveUse * Concurrent
                                    + (Concurrent * (Concurrent - 1)) \div 2
    BY DEF UseBounded
  <2>1. MaxConsecutiveUse * Concurrent = Concurrent * MaxConsecutiveUse
    BY StayType, PoolAssumption
  <2> QED BY <2>1 DEF StreakInv, Room
<1> HIDE DEF Inv
<1> QED BY <1>1, <1>2, <1>3, TypeInvHolds, PTL DEF Spec
=============================================================================
