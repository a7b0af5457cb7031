------------------------------- MODULE TokenPool -------------------------------
(***************************************************************************)
(* The pool of configured upstream accounts: TokenManager and RateLimiter  *)
(* (auth/token_manager.go, auth/rate_limiter.go) as the request goroutines *)
(* of the server drive them.                                               *)
(*                                                                         *)
(* Every critical section is one action and nothing else is atomic: a      *)
(* request selects a token under tm.mutex, waits and is recorded under     *)
(* rl.mutex, may rotate the pool, takes tm.mutex again to charge the token *)
(* it selected, calls upstream, and on 403 or 429 reports a failure, which *)
(* is three more critical sections.  Time is the three actions at the end. *)
(*                                                                         *)
(* A token is its position in configOrder.  Available is a float that is   *)
(* tested only against zero and decremented by one, so its ceiling is      *)
(* exact.  Suspension is left out: the usage checker files it under the    *)
(* access token's prefix and never under a key of the pool.                *)
(***************************************************************************)
EXTENDS Integers, FiniteSets

CONSTANTS
    Requests,            (* goroutines serving requests                    *)
    N,                   (* configured tokens                              *)
    MaxConsecutiveUse,   (* RATE_LIMIT_MAX_CONSECUTIVE                     *)
    DailyMaxRequests,    (* RATE_LIMIT_DAILY_MAX, 0 for no limit           *)
    MaxQuota,            (* bound on what a refresh finds available        *)
    MaxFailures,         (* failures from which the backoff is backoffMax  *)
    MultiTenant          (* users may bring a refresh token of their own   *)

ASSUME PoolAssumption ==
    /\ IsFiniteSet(Requests) /\ Requests # {}
    /\ N \in Nat \ {0}
    /\ MaxConsecutiveUse \in Nat
    /\ DailyMaxRequests \in Nat
    /\ MaxQuota \in Nat
    /\ MaxFailures \in Nat \ {0}
    /\ MultiTenant \in BOOLEAN

Tokens == 0 .. N - 1
NoToken == N             (* what a request holds that has no pool token    *)
NotRefreshed == -1       (* refreshSingleToken failed, or Disabled         *)

VARIABLES
    currentIndex,        (* the pool's position in configOrder             *)
    refreshDue,          (* the TTL has passed since lastRefresh           *)
    entries,             (* cache.tokens: usable by time, and Available    *)
    requestCount,        (* TokenState.RequestCount                        *)
    dailyRequests,       (* TokenState.DailyRequests                       *)
    failCount,           (* TokenState.FailCount                           *)
    cooling,             (* now is before TokenState.CooldownEnd           *)
    pc,                  (* the critical section a request enters next     *)
    held,                (* the CachedToken it selected and whether that   *)
                         (* object is still the one in the cache           *)
    blamed,              (* the key a failing request read                 *)
    \* What has happened, kept for the properties only:
    quota,               (* Available as the last refresh of a token saw it*)
    drawn,               (* calls made on it that this Available had not   *)
                         (* counted yet                                    *)
    streak               (* selections since currentIndex last moved       *)

limiterVars == <<requestCount, dailyRequests, failCount, cooling>>
requestVars == <<pc, held, blamed>>
historyVars == <<quota, drawn, streak>>
vars == <<currentIndex, refreshDue, entries, limiterVars, requestVars,
          historyVars>>

Nothing == [token |-> NoToken, cached |-> FALSE]

Init ==
    /\ currentIndex = 0
    /\ refreshDue = TRUE
    /\ entries = [t \in Tokens |-> [live |-> FALSE, available |-> 0]]
    /\ requestCount = [t \in Tokens |-> 0]
    /\ dailyRequests = [t \in Tokens |-> 0]
    /\ failCount = [t \in Tokens |-> 0]
    /\ cooling = [t \in Tokens |-> FALSE]
    /\ pc = [r \in Requests |-> "idle"]
    /\ held = [r \in Requests |-> Nothing]
    /\ blamed = [r \in Requests |-> NoToken]
    /\ quota = [t \in Tokens |-> 0]
    /\ drawn = [t \in Tokens |-> 0]
    /\ streak = 0

Holding(t) == {r \in Requests : held[r].token = t}

-----------------------------------------------------------------------------
(* refreshCacheUnlocked.  An outcome gives every token what its usage      *)
(* query found (0 also when the query failed), or NotRefreshed.            *)
NoRefresh == [t \in Tokens |-> NotRefreshed]
Outcomes == IF refreshDue THEN [Tokens -> {NotRefreshed} \cup 0 .. MaxQuota]
                          ELSE {NoRefresh}

\* The cache after it.  A new object takes the place of the old one, so a
\* request that selected the old one will charge an object nobody reads.
Refreshed(found) ==
    [t \in Tokens |-> IF found[t] = NotRefreshed THEN entries[t]
                      ELSE [live |-> TRUE, available |-> found[t]]]
Detached(found) ==
    [r \in Requests |->
        IF held[r].token \in Tokens /\ found[held[r].token] # NotRefreshed
        THEN [held[r] EXCEPT !.cached = FALSE] ELSE held[r]]

\* What upstream reported had not counted the calls still under way.
QuotaSeen(found) ==
    [t \in Tokens |-> IF found[t] = NotRefreshed THEN quota[t] ELSE found[t]]
DrawnSince(found) ==
    [t \in Tokens |-> IF found[t] = NotRefreshed THEN drawn[t]
                      ELSE Cardinality(Holding(t))]

\* The tests of selectNextAvailableTokenUnlocked.
DailyLimitPassed(t) ==                    \* Broken: off by one.
    DailyMaxRequests > 0 /\ dailyRequests[t] > DailyMaxRequests
DailyLimitExceeded(t) ==
    DailyMaxRequests > 0 /\ dailyRequests[t] >= DailyMaxRequests
IsUsableByTime(entry) == entry.live       \* Broken: the quota is not looked at.
IsUsable(entry) == entry.live /\ entry.available > 0
Eligible(cache, t) ==
    ~cooling[t] /\ ~DailyLimitExceeded(t) /\ IsUsable(cache[t])

TokenAt(k) == (currentIndex + k) % N

\* IsTokenInCooldown forgets the failures of a token whose cooldown is over.
FailuresAfterScan(scanned) ==
    [t \in Tokens |-> IF t \in scanned /\ ~cooling[t] THEN 0
                      ELSE failCount[t]]

\* GetTokenWithFingerprint up to the first Unlock, when a token is found: the
\* first eligible one, counting from currentIndex, which stops there.
Select(r) ==
    /\ pc[r] = "idle"
    /\ \E found \in Outcomes, k \in 0 .. N - 1 :
        /\ Eligible(Refreshed(found), TokenAt(k))
        /\ \A j \in 0 .. k - 1 : ~Eligible(Refreshed(found), TokenAt(j))
        /\ currentIndex' = TokenAt(k)
        /\ entries' = Refreshed(found)
        /\ failCount' = FailuresAfterScan({TokenAt(j) : j \in 0 .. k})
        /\ held' = [Detached(found) EXCEPT
                        ![r] = [token |-> TokenAt(k), cached |-> TRUE]]
        /\ quota' = QuotaSeen(found)
        /\ drawn' = [DrawnSince(found) EXCEPT ![TokenAt(k)] = @ + 1]
        /\ streak' = IF k = 0 THEN streak + 1 ELSE 1
    /\ refreshDue' = FALSE
    /\ pc' = [pc EXCEPT ![r] = "record"]
    /\ UNCHANGED <<requestCount, dailyRequests, cooling, blamed>>

\* The same when a whole round finds none: the request is refused.
Refuse(r) ==
    /\ pc[r] = "idle"
    /\ \E found \in Outcomes :
        /\ \A t \in Tokens : ~Eligible(Refreshed(found), t)
        /\ entries' = Refreshed(found)
        /\ held' = Detached(found)
        /\ quota' = QuotaSeen(found)
        /\ drawn' = DrawnSince(found)
    /\ failCount' = FailuresAfterScan(Tokens)
    /\ refreshDue' = FALSE
    /\ UNCHANGED <<currentIndex, requestCount, dailyRequests, cooling, pc,
                   blamed, streak>>

-----------------------------------------------------------------------------
(* The rate limiter and the rotation, one mutex at a time.                 *)
RecordRequest(r) ==
    /\ pc[r] = "record"
    /\ requestCount' = [requestCount EXCEPT ![held[r].token] = @ + 1]
    /\ dailyRequests' = [dailyRequests EXCEPT ![held[r].token] = @ + 1]
    /\ pc' = [pc EXCEPT ![r] = "decide"]
    /\ UNCHANGED <<currentIndex, refreshDue, entries, failCount, cooling, held,
                   blamed, historyVars>>

\* Broken: off by one.
ShouldRotateLate(r) ==
    /\ pc[r] = "decide"
    /\ pc' = [pc EXCEPT ![r] =
                IF requestCount[held[r].token] > MaxConsecutiveUse
                THEN "reset" ELSE "charge"]
    /\ UNCHANGED <<currentIndex, refreshDue, entries, limiterVars, held,
                   blamed, historyVars>>

ShouldRotate(r) ==
    /\ pc[r] = "decide"
    /\ pc' = [pc EXCEPT ![r] =
                IF requestCount[held[r].token] >= MaxConsecutiveUse
                THEN "reset" ELSE "charge"]
    /\ UNCHANGED <<currentIndex, refreshDue, entries, limiterVars, held,
                   blamed, historyVars>>

ResetTokenCount(r) ==
    /\ pc[r] = "reset"
    /\ requestCount' = [requestCount EXCEPT ![held[r].token] = 0]
    /\ pc' = [pc EXCEPT ![r] = "rotate"]
    /\ UNCHANGED <<currentIndex, refreshDue, entries, dailyRequests, failCount,
                   cooling, held, blamed, historyVars>>

AdvanceToNextToken ==
    /\ currentIndex' = (currentIndex + 1) % N
    /\ streak' = 0

Rotate(r) ==
    /\ pc[r] = "rotate"
    /\ AdvanceToNextToken
    /\ pc' = [pc EXCEPT ![r] = "charge"]
    /\ UNCHANGED <<refreshDue, entries, limiterVars, held, blamed, quota, drawn>>

\* Broken: decremented even when others have used it up.
ChargedAnyway(entry) == [entry EXCEPT !.available = @ - 1]

\* The second Lock: Available-- on the object selected long before.
Charged(entry) ==
    IF entry.available > 0 THEN [entry EXCEPT !.available = @ - 1] ELSE entry

Charge(r) ==
    /\ pc[r] = "charge"
    /\ entries' = IF held[r].cached
                  THEN [entries EXCEPT ![held[r].token] = Charged(@)]
                  ELSE entries
    /\ pc' = [pc EXCEPT ![r] = "sent"]
    /\ UNCHANGED <<currentIndex, refreshDue, limiterVars, held, blamed,
                   historyVars>>

-----------------------------------------------------------------------------
(* The answer.  Nothing is recorded for one that is not 403 or 429, nor    *)
(* when the request ends before it is sent.                                *)
Finish(r) ==
    /\ pc[r] = "sent"
    /\ pc' = [pc EXCEPT ![r] = "idle"]
    /\ held' = [held EXCEPT ![r] = Nothing]
    /\ UNCHANGED <<currentIndex, refreshDue, entries, limiterVars, blamed,
                   historyVars>>

\* AuthService.MarkTokenFailed: the failed token is taken to be the current
\* one, also for a request whose token never came from the pool.
ReadCurrentKey(r) ==
    /\ \/ pc[r] = "sent"
       \/ MultiTenant /\ pc[r] = "idle"
    /\ blamed' = [blamed EXCEPT ![r] = currentIndex]
    /\ pc' = [pc EXCEPT ![r] = "cooldown"]
    /\ UNCHANGED <<currentIndex, refreshDue, entries, limiterVars, held,
                   historyVars>>

\* failCount saturates where calculateBackoff does.
MarkTokenCooldown(r) ==
    /\ pc[r] = "cooldown"
    /\ failCount' = [failCount EXCEPT ![blamed[r]] =
                        IF @ < MaxFailures THEN @ + 1 ELSE @]
    /\ cooling' = [cooling EXCEPT ![blamed[r]] = TRUE]
    /\ requestCount' = [requestCount EXCEPT ![blamed[r]] = 0]
    /\ pc' = [pc EXCEPT ![r] = "failover"]
    /\ UNCHANGED <<currentIndex, refreshDue, entries, dailyRequests, held,
                   blamed, historyVars>>

FailOver(r) ==
    /\ pc[r] = "failover"
    /\ AdvanceToNextToken
    /\ pc' = [pc EXCEPT ![r] = "idle"]
    /\ held' = [held EXCEPT ![r] = Nothing]
    /\ blamed' = [blamed EXCEPT ![r] = NoToken]
    /\ UNCHANGED <<refreshDue, entries, limiterVars, quota, drawn>>

-----------------------------------------------------------------------------
(* Time.  An entry grows older than the TTL, or its token expires; the TTL *)
(* passes since lastRefresh, which is later than any entry's CachedAt.     *)
EntryExpires(t) ==
    /\ entries[t].live
    /\ entries' = [entries EXCEPT ![t].live = FALSE]
    /\ UNCHANGED <<currentIndex, refreshDue, limiterVars, requestVars,
                   historyVars>>

RefreshFallsDue ==
    /\ ~refreshDue
    /\ \A t \in Tokens : ~entries[t].live
    /\ refreshDue' = TRUE
    /\ UNCHANGED <<currentIndex, entries, limiterVars, requestVars, historyVars>>

CooldownEnds(t) ==
    /\ cooling[t]
    /\ cooling' = [cooling EXCEPT ![t] = FALSE]
    /\ UNCHANGED <<currentIndex, refreshDue, entries, requestCount,
                   dailyRequests, failCount, requestVars, historyVars>>

\* getOrCreateState clears the count at the first use after midnight, before
\* anything reads it.
NewDay ==
    /\ \E t \in Tokens : dailyRequests[t] > 0
    /\ dailyRequests' = [t \in Tokens |-> 0]
    /\ UNCHANGED <<currentIndex, refreshDue, entries, requestCount, failCount,
                   cooling, requestVars, historyVars>>

-----------------------------------------------------------------------------
Request(r) ==
    \/ Select(r) \/ Refuse(r)
    \/ RecordRequest(r) \/ ShouldRotate(r) \/ ResetTokenCount(r) \/ Rotate(r)
    \/ Charge(r)
    \/ Finish(r)
    \/ ReadCurrentKey(r) \/ MarkTokenCooldown(r) \/ FailOver(r)

Next ==
    \/ \E r \in Requests : Request(r)
    \/ \E t \in Tokens : EntryExpires(t) \/ CooldownEnds(t)
    \/ RefreshFallsDue
    \/ NewDay

Spec == Init /\ [][Next]_vars

-----------------------------------------------------------------------------
PC == {"idle", "record", "decide", "reset", "rotate", "charge", "sent",
       "cooldown", "failover"}

TypeOK ==
    /\ currentIndex \in Tokens
    /\ refreshDue \in BOOLEAN
    /\ entries \in [Tokens -> [live: BOOLEAN, available: 0 .. MaxQuota]]
    /\ requestCount \in [Tokens -> Nat]
    /\ dailyRequests \in [Tokens -> Nat]
    /\ failCount \in [Tokens -> 0 .. MaxFailures]
    /\ cooling \in [Tokens -> BOOLEAN]
    /\ pc \in [Requests -> PC]
    /\ held \in [Requests -> [token: Tokens \cup {NoToken}, cached: BOOLEAN]]
    /\ blamed \in [Requests -> Tokens \cup {NoToken}]
    /\ quota \in [Tokens -> 0 .. MaxQuota]
    /\ drawn \in [Tokens -> Nat]
    /\ streak \in Nat

Concurrent == Cardinality(Requests)

(* A token is selected on the strength of an Available that is charged     *)
(* only after the rate limiter's wait, on an object a refresh may have     *)
(* replaced.  However the requests interleave, an account is asked for at  *)
(* most two calls per other request more than upstream said it had.        *)
OverdraftBounded ==
    \A t \in Tokens : drawn[t] <= quota[t] + 2 * (Concurrent - 1)

(* The daily limit is tested when a token is selected and counted after    *)
(* the wait, so it can be overrun, by one request for each other one.      *)
DailyLimitKept ==
    DailyMaxRequests > 0 =>
        \A t \in Tokens : dailyRequests[t] <= DailyMaxRequests + Concurrent - 1

(* The consecutive-use limit is counted, tested, reset and acted on in     *)
(* four critical sections.  A request stopped between the last two leaves  *)
(* the pool where it is with a count of zero, having wiped the uses others *)
(* recorded since it looked; each request can do so once before the pool   *)
(* moves, and the limit is exceeded by that much and no more.              *)
UseBounded ==
    MaxConsecutiveUse > 0 =>
        streak <= MaxConsecutiveUse * Concurrent
                  + (Concurrent * (Concurrent - 1)) \div 2

(* What .env.example and the comments of MarkTokenFailed say of a 403 or   *)
(* 429: the token that failed is the one that goes into cooldown.          *)
FailedTokenCools ==
    \A r \in Requests : pc[r] = "failover" => blamed[r] = held[r].token
=============================================================================
