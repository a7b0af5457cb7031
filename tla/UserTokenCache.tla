----------------------------- MODULE UserTokenCache -----------------------------
(***************************************************************************)
(* UserTokenCache (auth/user_token_cache.go): the access tokens of users   *)
(* who bring a refresh token of their own, at most maxSize of them, the    *)
(* least recently used one evicted first.                                  *)
(*                                                                         *)
(* GetOrRefresh looks a key up under the read lock, and touches or stores  *)
(* it later under the write lock: each is one action here, and requests    *)
(* come in between, also during the refresh, which is a call to upstream.  *)
(* A key stands for the refresh tokens that begin with it.                 *)
(***************************************************************************)
EXTENDS Integers, Sequences, FiniteSets

CONSTANTS
    Keys,              (* cache keys                                       *)
    Requests,          (* goroutines serving requests of users             *)
    MaxSize,           (* maxSize                                          *)
    MaxOutdated        (* bound: see outdated                              *)

ASSUME UserCacheAssumption ==
    /\ IsFiniteSet(Keys)
    /\ MaxSize \in Nat \ {0}
    /\ MaxOutdated \in Nat

VARIABLES
    cache,             (* the token of a key: fresh, expired or absent     *)
    order,             (* keys, the least recently used first              *)
    pc,                (* where a request is in GetOrRefresh               *)
    wanted,            (* its key                                          *)
    exists,            (* whether its lookup found an entry                *)
    outdated           (* stores so far whose lookup was no longer true;   *)
                       (* for the properties                               *)
vars == <<cache, order, pc, wanted, exists, outdated>>

Init ==
    /\ cache = [k \in Keys |-> "absent"]
    /\ order = <<>>
    /\ pc = [r \in Requests |-> "idle"]
    /\ wanted \in [Requests -> Keys]
    /\ exists = [r \in Requests |-> FALSE]
    /\ outdated = 0

Present == {k \in Keys : cache[k] # "absent"}
Listed == {order[i] : i \in DOMAIN order}
Goto(r, place) == pc' = [pc EXCEPT ![r] = place]

-----------------------------------------------------------------------------
\* The lookup, and the way it goes on.
Lookup(r, k) ==
    /\ pc[r] = "idle"
    /\ wanted' = [wanted EXCEPT ![r] = k]
    /\ exists' = [exists EXCEPT ![r] = k \in Present]
    /\ Goto(r, IF cache[k] = "fresh" THEN "touch" ELSE "refresh")
    /\ UNCHANGED <<cache, order, outdated>>

\* The first place of the key in the order.
FirstPlace(i, k) == order[i] = k /\ \A j \in 1 .. i - 1 : order[j] # k

\* The key goes to the end; one that was evicted in between stays away.
TouchKey(r) ==
    /\ pc[r] = "touch"
    /\ \/ wanted[r] \notin Listed /\ UNCHANGED order
       \/ \E i \in DOMAIN order :
             /\ FirstPlace(i, wanted[r])
             /\ order' = SubSeq(order, 1, i - 1) \o SubSeq(order, i + 1, Len(order))
                         \o <<wanted[r]>>
    /\ Goto(r, "idle")
    /\ UNCHANGED <<cache, wanted, exists, outdated>>

RefreshFails(r) ==
    /\ pc[r] = "refresh"
    /\ Goto(r, "idle")
    /\ UNCHANGED <<cache, order, wanted, exists, outdated>>

\* Broken: makes room only when there is none left.
EvictsLate(r) == Cardinality(Present) > MaxSize /\ ~exists[r] /\ order # <<>>
\* evictOldest is called, and finds something to evict.
Evicts(r) == Cardinality(Present) >= MaxSize /\ ~exists[r] /\ order # <<>>

\* Broken: an expired entry that is renewed gets a place of its own.
OrderAfterAlways(r) ==
    (IF Evicts(r) THEN Tail(order) ELSE order) \o <<wanted[r]>>
OrderAfter(r) ==
    (IF Evicts(r) THEN Tail(order) ELSE order)
    \o (IF exists[r] THEN <<>> ELSE <<wanted[r]>>)

\* The refresh succeeded: the token is stored by what the lookup had found.
Store(r) ==
    /\ pc[r] = "refresh"
    /\ outdated' = IF exists[r] = (wanted[r] \in Present) THEN outdated ELSE outdated + 1
    /\ outdated' <= MaxOutdated
    /\ order' = OrderAfter(r)
    /\ cache' = [k \in Keys |-> IF k = wanted[r] THEN "fresh"
                                ELSE IF Evicts(r) /\ k = Head(order) THEN "absent"
                                ELSE cache[k]]
    /\ Goto(r, "idle")
    /\ UNCHANGED <<wanted, exists>>

\* Time: the access token of an entry expires.
Expire(k) ==
    /\ cache[k] = "fresh"
    /\ cache' = [cache EXCEPT ![k] = "expired"]
    /\ UNCHANGED <<order, pc, wanted, exists, outdated>>

Next ==
    \/ \E r \in Requests :
          \/ \E k \in Keys : Lookup(r, k)
          \/ TouchKey(r) \/ RefreshFails(r) \/ Store(r)
    \/ \E k \in Keys : Expire(k)

Spec == Init /\ [][Next]_vars

-----------------------------------------------------------------------------
TypeOK ==
    /\ cache \in [Keys -> {"fresh", "expired", "absent"}]
    /\ order \in Seq(Keys)
    /\ Len(order) <= MaxSize + outdated
    /\ pc \in [Requests -> {"idle", "touch", "refresh"}]
    /\ wanted \in [Requests -> Keys]
    /\ exists \in [Requests -> BOOLEAN]
    /\ outdated \in 0 .. MaxOutdated

(* The cache holds maxSize entries (user_token_cache.go:11) and one more   *)
(* for each store that went by an outdated lookup, at most: two requests   *)
(* of one user that both miss leave the key twice in the order, and the    *)
(* second of them makes room for nothing when its turn comes.              *)
SizeBounded == Cardinality(Present) <= MaxSize + outdated

(* Entries that the order has lost, which stay for good, and places in the *)
(* order without an entry are the work of outdated stores only: as long as *)
(* there was none, the order lists the entries, each once.                 *)
OrderOfEntries ==
    /\ Cardinality(Present \ Listed) <= outdated
    /\ Len(order) - Cardinality(Present \cap Listed) <= outdated
=============================================================================
