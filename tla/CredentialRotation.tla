--------------------------- MODULE CredentialRotation ---------------------------
(***************************************************************************)
(* Refresh tokens change hands: the upstream answers a refresh with a new  *)
(* refresh token and the old one is void.  TokenManager                    *)
(* (auth/token_manager.go) notes the new one in its configs and in the     *)
(* cache and starts a goroutine, PersistCredentials, that writes it back   *)
(* to where the configs came from (auth/config.go): the store of the web   *)
(* administration, or the file KIRO_AUTH_TOKEN names, in array format.     *)
(*                                                                         *)
(* Refresh tokens of an account are numbered in the order of issue.  A     *)
(* refresh runs under tm.mutex; the goroutine takes that mutex for single  *)
(* steps, walks over configs without it, and holds its read side while it  *)
(* writes the file.  The store saves as CredentialStore says; its file is  *)
(* one step here.  Whether an account is disabled is left out: those of    *)
(* the file are not loaded, and UpdateToken, which gets nothing but the    *)
(* refresh token, enables the one it writes (store.go:362).                *)
(***************************************************************************)
EXTENDS Integers, FiniteSets

CONSTANTS
    N,                 (* accounts, in the order of the configs            *)
    FromStore,         (* those that come from the store                   *)
    Goroutines,        (* PersistCredentials goroutines                    *)
    MaxIssued,         (* bound: refresh tokens issued for an account      *)
    MaxOvertaken,      (* refreshes that may happen before a goroutine     *)
                       (* that was started earlier ends                    *)
    MaxCrashes         (* bound: ends of the process                       *)

Accounts == 1 .. N
FromFile == Accounts \ FromStore

ASSUME RotationAssumption ==
    /\ N \in Nat \ {0}
    /\ FromStore \subseteq Accounts
    /\ IsFiniteSet(Goroutines) /\ Goroutines # {}
    /\ MaxIssued \in Nat \ {0}
    /\ MaxOvertaken \in Nat
    /\ MaxCrashes \in Nat

VARIABLES
    issued,            (* the refresh token upstream takes, of each account*)
    configs,           (* RefreshToken of tm.configs                       *)
    cached,            (* that of the token in the cache, 0 when none      *)
    storeToken,        (* what the store holds of its accounts             *)
    file,              (* what the config file holds of its accounts       *)
    tmp,               (* the temporary file                               *)
    pc,                (* where each goroutine is                          *)
    at,                (* the account its loop is at                       *)
    seen,              (* cfg.RefreshToken, copied by its loop             *)
    found,             (* newRefreshToken, read from the cache             *)
    writesTo,          (* the file the one it has open for writing is now  *)
    overtaken,         (* refreshes since it was started                   *)
    shared,            (* the temporary file was opened while another      *)
                       (* goroutine used it (history)                      *)
    failed,            (* a write has failed since the last refresh        *)
    crashes
persistVars == <<pc, at, seen, found, writesTo, overtaken>>
vars == <<issued, configs, cached, storeToken, file, tmp, persistVars, shared,
          failed, crashes>>

NotLoaded == -1        (* the file could not be read at the start          *)
Torn == [a \in FromFile |-> NotLoaded]   (* part of the JSON text          *)
Absent == [a \in FromFile |-> -2]        (* there is no temporary file     *)

Init ==
    /\ issued = [a \in Accounts |-> 1]
    /\ configs = issued
    /\ cached = [a \in Accounts |-> 0]
    /\ storeToken = [a \in FromStore |-> issued[a]]
    /\ file = [a \in FromFile |-> issued[a]]
    /\ tmp = Absent
    /\ pc = [g \in Goroutines |-> "none"]
    /\ at = [g \in Goroutines |-> 1]
    /\ seen = [g \in Goroutines |-> 0]
    /\ found = [g \in Goroutines |-> 0]
    /\ writesTo = [g \in Goroutines |-> "none"]
    /\ overtaken = [g \in Goroutines |-> 0]
    /\ shared = FALSE
    /\ failed = FALSE
    /\ crashes = 0

-----------------------------------------------------------------------------
Active == {g \in Goroutines : pc[g] # "none"}

\* persistToFile holds the read lock from its first line to its last.
\* Broken: it collects the configs under the lock and writes without it.
ReadingNothing == {}
Reading == {g \in Goroutines : pc[g] \in {"create", "write", "rename", "remove"}}
Unlocked == Reading = {}

\* Upstream refuses a refresh token that is void.
Accepted(a) == configs[a] = issued[a]

\* refreshCacheUnlocked: the accounts of `ok` are refreshed, those of `new`
\* with a new refresh token.  One goroutine is started when there is anything
\* new.
RefreshCache(ok, new) ==
    /\ Unlocked
    /\ new \subseteq ok /\ ok # {}
    /\ \A a \in ok : Accepted(a)
    /\ \A a \in new : issued[a] < MaxIssued
    /\ \A g \in Active : overtaken[g] < MaxOvertaken
    /\ issued' = [a \in Accounts |-> IF a \in new THEN issued[a] + 1 ELSE issued[a]]
    /\ configs' = [a \in Accounts |-> IF a \in new THEN issued[a] + 1 ELSE configs[a]]
    /\ cached' = [a \in Accounts |-> IF a \in ok THEN configs'[a] ELSE cached[a]]
    /\ overtaken' = [g \in Goroutines |-> IF g \in Active THEN overtaken[g] + 1 ELSE 0]
    /\ \/ /\ new = {}
          /\ UNCHANGED <<pc, at, failed>>
       \/ /\ new # {}
          /\ \E g \in Goroutines \ Active :
                pc' = [pc EXCEPT ![g] = "copy"] /\ at' = [at EXCEPT ![g] = 1]
          /\ failed' = FALSE
    /\ UNCHANGED <<storeToken, file, tmp, seen, found, writesTo, shared, crashes>>

-----------------------------------------------------------------------------
(* PersistCredentials, one turn of the loop after the other.                *)
Goto(g, place) == pc' = [pc EXCEPT ![g] = place]

\* Broken: one turn too many, or the first account without news ends it all.
NextTurnPastEnd(g) == /\ at' = [at EXCEPT ![g] = @ + 1]
                      /\ Goto(g, IF at[g] <= N THEN "copy" ELSE "collect")
NextTurnEnding(g) == Goto(g, "none") /\ UNCHANGED at
NextTurn(g) == /\ at' = [at EXCEPT ![g] = @ + 1]
               /\ Goto(g, IF at[g] < N THEN "copy" ELSE "collect")

\* for i, cfg := range configs: the array is the one refreshes write to.
CopyConfig(g) ==
    /\ pc[g] = "copy"
    /\ seen' = [seen EXCEPT ![g] = configs[at[g]]]
    /\ Goto(g, "compare")
    /\ UNCHANGED <<issued, configs, cached, storeToken, file, tmp, at, found,
                   writesTo, overtaken, shared, failed, crashes>>

CompareCached(g) ==
    /\ pc[g] = "compare"
    /\ found' = [found EXCEPT ![g] = cached[at[g]]]
    /\ IF cached[at[g]] \in {0, seen[g]} THEN NextTurn(g)
       ELSE Goto(g, IF at[g] \in FromStore THEN "store" ELSE "assign") /\ UNCHANGED at
    /\ UNCHANGED <<issued, configs, cached, storeToken, file, tmp, seen,
                   writesTo, overtaken, shared, failed, crashes>>

PersistToStore(g) ==
    /\ pc[g] = "store"
    /\ \/ /\ storeToken' = [storeToken EXCEPT ![at[g]] = found[g]]
          /\ UNCHANGED failed
       \/ failed' = TRUE /\ UNCHANGED storeToken
    /\ Goto(g, "assign")
    /\ UNCHANGED <<issued, configs, cached, file, tmp, at, seen, found,
                   writesTo, overtaken, shared, crashes>>

\* Broken: the copy of the loop is written back.
AssignConfigSeen(g) ==
    /\ pc[g] = "assign"
    /\ Unlocked
    /\ configs' = [configs EXCEPT ![at[g]] = seen[g]]
    /\ NextTurn(g)
    /\ UNCHANGED <<issued, cached, storeToken, file, tmp, seen, found,
                   writesTo, overtaken, shared, failed, crashes>>
AssignConfig(g) ==
    /\ pc[g] = "assign"
    /\ Unlocked
    /\ configs' = [configs EXCEPT ![at[g]] = found[g]]
    /\ NextTurn(g)
    /\ UNCHANGED <<issued, cached, storeToken, file, tmp, seen, found,
                   writesTo, overtaken, shared, failed, crashes>>

-----------------------------------------------------------------------------
(* persistToFile: the read lock is taken, the configs are collected, the    *)
(* temporary file is opened (and emptied), written, renamed.  Two of these  *)
(* goroutines may hold the read lock together, and use one temporary file.  *)
End(g) == Goto(g, "none")

FileConfigs == [a \in FromFile |-> configs[a]]

Collect(g) ==
    /\ pc[g] = "collect"
    /\ IF FromFile = {} \/ FileConfigs = Torn THEN End(g) ELSE Goto(g, "create")
    /\ UNCHANGED <<issued, configs, cached, storeToken, file, tmp, at, seen,
                   found, writesTo, overtaken, shared, failed, crashes>>

\* The goroutines that have opened the temporary file and are not done.
Using == {g \in Goroutines : pc[g] \in {"write", "rename", "remove"}}

CreateTemp(g) ==
    /\ pc[g] = "create"
    /\ \/ /\ tmp' = Torn
          /\ writesTo' = [writesTo EXCEPT ![g] = "tmp"]
          /\ shared' = (Using # {})
          /\ Goto(g, "write")
          /\ UNCHANGED failed
       \/ failed' = TRUE /\ End(g) /\ UNCHANGED <<tmp, writesTo, shared>>
    /\ UNCHANGED <<issued, configs, cached, storeToken, file, at, seen, found,
                   overtaken, crashes>>

\* The configs are what they were when the lock was taken.
WriteTemp(g) ==
    /\ pc[g] = "write"
    /\ tmp' = IF writesTo[g] = "tmp" THEN FileConfigs ELSE tmp
    /\ file' = IF writesTo[g] = "file" THEN FileConfigs ELSE file
    /\ writesTo' = [writesTo EXCEPT ![g] = "none"]
    /\ Goto(g, "rename")
    /\ UNCHANGED <<issued, configs, cached, storeToken, at, seen, found,
                   overtaken, shared, failed, crashes>>

\* A full disk: what is open stays torn.
WriteTempFails(g) ==
    /\ pc[g] = "write"
    /\ writesTo' = [writesTo EXCEPT ![g] = "none"]
    /\ failed' = TRUE
    /\ End(g)
    /\ UNCHANGED <<issued, configs, cached, storeToken, file, tmp, at, seen,
                   found, overtaken, shared, crashes>>

\* The file another goroutine is writing may be the one that is renamed; the
\* rename fails when another one was quicker, or because it fails.
Rename(g) ==
    /\ pc[g] = "rename"
    /\ \/ /\ tmp # Absent
          /\ file' = tmp
          /\ tmp' = Absent
          /\ writesTo' = [h \in Goroutines |->
                CASE writesTo[h] = "tmp"  -> "file"
                  [] writesTo[h] = "file" -> "none"
                  [] OTHER                -> writesTo[h]]
          /\ End(g)
          /\ UNCHANGED failed
       \/ /\ Goto(g, "remove")
          /\ failed' = (failed \/ tmp # Absent)
          /\ UNCHANGED <<file, tmp, writesTo>>
    /\ UNCHANGED <<issued, configs, cached, storeToken, at, seen, found,
                   overtaken, shared, crashes>>

\* What is removed may be the file another goroutine has just created.
RemoveTemp(g) ==
    /\ pc[g] = "remove"
    /\ tmp' = Absent
    /\ writesTo' = [h \in Goroutines |-> IF writesTo[h] = "tmp" THEN "none" ELSE writesTo[h]]
    /\ End(g)
    /\ UNCHANGED <<issued, configs, cached, storeToken, file, at, seen, found,
                   overtaken, shared, failed, crashes>>

Persist(g) ==
    \/ CopyConfig(g) \/ CompareCached(g) \/ PersistToStore(g) \/ AssignConfig(g)
    \/ Collect(g) \/ CreateTemp(g) \/ WriteTemp(g) \/ WriteTempFails(g) \/ Rename(g)
    \/ RemoveTemp(g)

-----------------------------------------------------------------------------
(* The process ends, and starts from what the store and the file hold.      *)
Source(a) == IF a \in FromStore THEN storeToken[a] ELSE file[a]

Restart ==
    /\ crashes < MaxCrashes
    /\ crashes' = crashes + 1
    /\ configs' = [a \in Accounts |-> Source(a)]
    /\ cached' = [a \in Accounts |-> 0]
    /\ pc' = [g \in Goroutines |-> "none"]
    /\ writesTo' = [g \in Goroutines |-> "none"]
    /\ failed' = TRUE
    /\ UNCHANGED <<issued, storeToken, file, tmp, at, seen, found, overtaken, shared>>

Next ==
    \/ \E ok \in SUBSET Accounts : \E new \in SUBSET ok : RefreshCache(ok, new)
    \/ \E g \in Goroutines : Persist(g)
    \/ Restart

Spec == Init /\ [][Next]_vars

-----------------------------------------------------------------------------
Numbers(S) == [S -> 1 .. MaxIssued]

TypeOK ==
    /\ issued \in Numbers(Accounts)
    /\ configs \in [Accounts -> {NotLoaded} \cup 1 .. MaxIssued]
    /\ cached \in [Accounts -> 0 .. MaxIssued]
    /\ storeToken \in Numbers(FromStore)
    /\ file \in Numbers(FromFile) \cup {Torn}
    /\ tmp \in Numbers(FromFile) \cup {Torn, Absent}
    /\ pc \in [Goroutines -> {"none", "copy", "compare", "store", "assign",
                              "collect", "create", "write", "rename", "remove"}]
    /\ at \in [Goroutines -> 1 .. N + 1]
    /\ \A g \in Goroutines :
          pc[g] \in {"copy", "compare", "store", "assign"} => at[g] \in Accounts
    /\ seen \in [Goroutines -> -1 .. MaxIssued]
    /\ found \in [Goroutines -> 0 .. MaxIssued]
    /\ writesTo \in [Goroutines -> {"none", "tmp", "file"}]
    /\ overtaken \in [Goroutines -> 0 .. MaxOvertaken]
    /\ shared \in BOOLEAN /\ failed \in BOOLEAN
    /\ crashes \in 0 .. MaxCrashes

(* PersistCredentials writes new refresh tokens back to where they came    *)
(* from (token_manager.go:439-440): when none is at work and none of their *)
(* writes has failed, a restart would find every token the pool uses.      *)
Persisted(S) == Active = {} /\ ~failed => \A a \in S : Source(a) = configs[a]
RotationPersisted == Persisted(Accounts)

(* It does so for the tokens of the config file, whatever the goroutines   *)
(* of two refreshes do to each other.                                      *)
FilePersisted == Persisted(FromFile)

(* The goroutines copy configs, look at the cache and assign configs in    *)
(* steps that refreshes come between; while less than two refreshes come   *)
(* between, the pool never goes back to a refresh token that is void       *)
(* (token_manager.go:449-486).                                             *)
NeverBack ==
    [][crashes' = crashes => \A a \in Accounts : configs'[a] >= configs[a]]_vars

(* persistToFile says it writes atomically (token_manager.go:550).  A       *)
(* goroutine that has the temporary file to itself does: whatever write     *)
(* fails and wherever the process ends, the config file changes from whole  *)
(* to whole, and to the tokens the pool uses at that moment, since no       *)
(* refresh comes between the collection and the rename (530-560).  Two that *)
(* share the temporary file do not: one empties what the other renames, and *)
(* when it then fails, or the process ends, the config file stays torn.     *)
(* That, and nothing out of date, is all they can do to it.                 *)
WritesCurrent ==
    [][file' # file => file' = FileConfigs \/ (shared /\ file' = Torn)]_vars
=============================================================================
