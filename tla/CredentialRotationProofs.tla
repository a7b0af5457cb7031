------------------------ MODULE CredentialRotationProofs ------------------------
(***************************************************************************)
(* The write-back of refresh tokens beside refreshes, for any number of    *)
(* accounts, of goroutines that share one temporary file, and of restarts. *)
(***************************************************************************)
EXTENDS CredentialRotation, TLAPS

\* What is in the cache, or on its way from there to the configs, was loaded
\* at the start.
LoadedInv ==
    /\ \A a \in Accounts : cached[a] # 0 => configs[a] # NotLoaded
    /\ \A g \in Goroutines : pc[g] \in {"store", "assign"} =>
          found[g] # 0 /\ configs[at[g]] # NotLoaded

\* The configs of the file are all loaded, or the file is torn and nobody
\* writes it.
ConfigsInv ==
    /\ \/ FileConfigs \in Numbers(FromFile)
       \/ FileConfigs = Torn /\ file = Torn /\ Reading = {}
    /\ FromFile = {} => Reading = {}

\* A goroutine has a file open only while it writes.
OpenInv == \A g \in Goroutines : writesTo[g] # "none" => pc[g] = "write"

\* Once a goroutine has created the temporary file under the lock, it is whole
\* and current, or someone is still writing it.
TmpInv ==
    (\E g \in Goroutines : pc[g] \in {"write", "rename", "remove"}) =>
        /\ tmp \in {FileConfigs, Absent, Torn}
        /\ tmp = Torn => failed \/ \E h \in Goroutines : writesTo[h] = "tmp"

\* The file is current, or someone is writing to it.
Good == file = FileConfigs \/ \E h \in Goroutines : writesTo[h] = "file"

\* A goroutine whose temporary file is gone.
Robbed(g) ==
    \/ pc[g] = "remove"
    \/ pc[g] = "write" /\ writesTo[g] = "none"
    \/ pc[g] = "rename" /\ tmp = Absent

\* Its file was renamed, not lost.
RobbedInv == ~failed => \A g \in Goroutines : Robbed(g) => Good

WrittenInv == Active = {} /\ ~failed => file = FileConfigs

ShareInv == ConfigsInv /\ OpenInv /\ TmpInv /\ RobbedInv /\ WrittenInv

FileInv == TypeOK /\ LoadedInv /\ ShareInv

\* Less than two refreshes come between: what a goroutine assigns is there.
AssignInv ==
    /\ \A a \in Accounts : cached[a] \in {0, configs[a]}
    /\ \A g \in Goroutines : pc[g] = "compare" =>
          overtaken[g] > 0 \/ seen[g] = configs[at[g]]
    /\ \A g \in Goroutines : pc[g] \in {"store", "assign"} =>
          overtaken[g] > 0 /\ found[g] = configs[at[g]]

\* A goroutine that opened the temporary file while nobody used it has it to
\* itself until another one opens it.
AloneInv ==
    ~shared => \A g \in Using :
        /\ Using = {g}
        /\ pc[g] = "write" => writesTo[g] = "tmp"
        /\ pc[g] = "rename" => tmp = FileConfigs

WriteInv == FileInv /\ AloneInv

IInv == FileInv /\ AssignInv

-----------------------------------------------------------------------------
(* Types.                                                                   *)
Loop == {"copy", "compare", "store", "assign"}
Places == {"none", "copy", "compare", "store", "assign",
           "collect", "create", "write", "rename", "remove"}

LEMMA Sizes ==
    /\ N \in Nat \ {0} /\ MaxIssued \in Nat \ {0}
    /\ MaxOvertaken \in Nat /\ MaxCrashes \in Nat
    /\ FromStore \subseteq Accounts /\ FromFile \subseteq Accounts
    /\ Accounts = 1 .. N /\ FromFile = Accounts \ FromStore
  BY RotationAssumption DEF FromFile, Accounts

\* The next turn of the loop is at an account, or the loop is over.
LEMMA NextTurnTyped ==
    ASSUME TypeOK, NEW g \in Goroutines, pc[g] \in {"compare", "assign"}, NextTurn(g)
    PROVE  /\ at' \in [Goroutines -> 1 .. N + 1]
           /\ \E p \in {"copy", "collect"} :
                 /\ pc' = [pc EXCEPT ![g] = p]
                 /\ p = "copy" => at'[g] \in Accounts
           /\ \A h \in Goroutines : h # g => at'[h] = at[h]
<1>1. at \in [Goroutines -> 1 .. N + 1] /\ at[g] \in 1 .. N /\ N \in Nat
  BY Sizes DEF TypeOK
<1>2. at' = [at EXCEPT ![g] = at[g] + 1]
  BY DEF NextTurn
<1>3. at' \in [Goroutines -> 1 .. N + 1] /\ at'[g] = at[g] + 1
  BY <1>1, <1>2
<1>4. \A h \in Goroutines : h # g => at'[h] = at[h]
  BY <1>1, <1>2
<1>5. CASE at[g] < N
  <2>1. pc' = [pc EXCEPT ![g] = "copy"]
    BY <1>5 DEF NextTurn, Goto
  <2>2. at'[g] \in Accounts
    BY <1>1, <1>3, <1>5, Sizes
  <2> QED
    BY <1>3, <1>4, <2>1, <2>2
<1>6. CASE ~(at[g] < N)
  <2>1. pc' = [pc EXCEPT ![g] = "collect"]
    BY <1>6 DEF NextTurn, Goto
  <2> QED
    BY <1>3, <1>4, <2>1
<1> QED
  BY <1>5, <1>6

\* Where the goroutines are after one of them has gone to p.
LEMMA Gone ==
    ASSUME TypeOK, NEW g \in Goroutines, NEW p, pc' = [pc EXCEPT ![g] = p]
    PROVE  /\ \A h \in Goroutines : pc'[h] = IF h = g THEN p ELSE pc[h]
           /\ p \in Places => pc' \in [Goroutines -> Places]
<1>1. pc \in [Goroutines -> Places]
  BY DEF TypeOK, Places
<1> QED
  BY <1>1

-----------------------------------------------------------------------------
(* The steps and the file.                                                  *)
\* A goroutine that has not opened a file yet goes on.
Before == {"copy", "compare", "store", "assign", "collect"}

LEMMA Quiet ==
    ASSUME TypeOK, ShareInv, NEW g \in Goroutines, NEW p,
           pc' = [pc EXCEPT ![g] = p], pc[g] \in Before, p \in Before \cup {"create", "none"},
           p = "create" => FromFile # {} /\ FileConfigs # Torn,
           p = "none" => file = FileConfigs,
           UNCHANGED <<configs, file, tmp, writesTo>>, failed => failed'
    PROVE  ShareInv'
<1>1. \A h \in Goroutines : pc'[h] = IF h = g THEN p ELSE pc[h]
  BY Gone
<1>2. FileConfigs' = FileConfigs
  BY DEF FileConfigs
<1>3. ConfigsInv'
  <2>1. CASE p = "create"
    BY <1>2, <2>1 DEF ShareInv, ConfigsInv
  <2>2. CASE p # "create"
    <3>1. Reading' = Reading
      BY <1>1, <2>2 DEF Reading, Before
    <3> QED
      BY <1>2, <3>1 DEF ShareInv, ConfigsInv
  <2> QED
    BY <2>1, <2>2
<1>4. OpenInv'
  BY <1>1 DEF ShareInv, OpenInv, Before
<1>5. TmpInv'
  BY <1>1, <1>2 DEF ShareInv, TmpInv, Before
<1>6. RobbedInv'
  <2>1. Good' = Good
    BY <1>2 DEF Good
  <2>2. ASSUME NEW h \in Goroutines, Robbed(h)' PROVE Robbed(h)
    BY <1>1, <2>2 DEF Robbed, Before
  <2> QED
    BY <2>1, <2>2 DEF ShareInv, RobbedInv
<1>7. WrittenInv'
  BY <1>1, <1>2 DEF WrittenInv, Active, Before
<1> QED
  BY <1>3, <1>4, <1>5, <1>6, <1>7 DEF ShareInv

\* Nobody holds the lock for the file, and somebody will take it or the file
\* is current.
LEMMA Nobody ==
    ASSUME Reading' = {}, ConfigsInv', WrittenInv',
           \A g \in Goroutines : writesTo'[g] = "none"
    PROVE  ShareInv'
<1>1. \A g \in Goroutines : pc'[g] \notin {"create", "write", "rename", "remove"}
  BY DEF Reading
<1>2. OpenInv' /\ TmpInv'
  BY <1>1 DEF OpenInv, TmpInv
<1>3. RobbedInv'
  BY <1>1 DEF RobbedInv, Robbed
<1> QED
  BY <1>2, <1>3 DEF ShareInv

LEMMA UnlockedClosed ==
    ASSUME ShareInv, Unlocked
    PROVE  /\ \A g \in Goroutines : pc[g] \notin {"create", "write", "rename", "remove"}
           /\ \A g \in Goroutines : writesTo[g] = "none"
  BY DEF ShareInv, OpenInv, Unlocked, Reading

-----------------------------------------------------------------------------
(* The goroutine, up to the collection.                                     *)
LEMMA CopyKeeps ==
    ASSUME FileInv, NEW g \in Goroutines, CopyConfig(g)
    PROVE  FileInv'
<1>1. TypeOK /\ LoadedInv /\ ShareInv
  BY DEF FileInv
<1>2. /\ pc[g] = "copy" /\ pc' = [pc EXCEPT ![g] = "compare"]
      /\ seen' = [seen EXCEPT ![g] = configs[at[g]]]
      /\ UNCHANGED <<issued, configs, cached, storeToken, file, tmp, at, found,
                     writesTo, overtaken, shared, failed, crashes>>
  BY DEF CopyConfig, Goto
<1>3. /\ \A h \in Goroutines : pc'[h] = IF h = g THEN "compare" ELSE pc[h]
      /\ pc' \in [Goroutines -> Places]
  BY <1>1, <1>2, Gone DEF Places
<1>4. TypeOK'
  <2>1. configs[at[g]] \in -1 .. MaxIssued
    <3>1. at[g] \in Accounts /\ configs \in [Accounts -> {NotLoaded} \cup 1 .. MaxIssued]
      BY <1>1, <1>2 DEF TypeOK
    <3> QED
      BY <3>1, Sizes DEF NotLoaded
  <2>2. seen' \in [Goroutines -> -1 .. MaxIssued]
    BY <1>1, <1>2, <2>1 DEF TypeOK
  <2>3. \A h \in Goroutines : pc'[h] \in Loop => at'[h] \in Accounts
    BY <1>1, <1>2, <1>3 DEF TypeOK, Loop
  <2> QED
    BY <1>1, <1>2, <1>3, <2>2, <2>3 DEF TypeOK, Places, Loop, FromFile
<1>5. LoadedInv'
  BY <1>1, <1>2, <1>3 DEF LoadedInv
<1>6. ShareInv'
  BY <1>1, <1>2, Quiet DEF Before
<1> QED
  BY <1>4, <1>5, <1>6 DEF FileInv

LEMMA CompareKeeps ==
    ASSUME FileInv, NEW g \in Goroutines, CompareCached(g)
    PROVE  FileInv'
<1>1. TypeOK /\ LoadedInv /\ ShareInv
  BY DEF FileInv
<1>2. /\ pc[g] = "compare" /\ found' = [found EXCEPT ![g] = cached[at[g]]]
      /\ UNCHANGED <<issued, configs, cached, storeToken, file, tmp, seen,
                     writesTo, overtaken, shared, failed, crashes>>
  BY DEF CompareCached
<1>3. /\ at[g] \in Accounts /\ cached[at[g]] \in 0 .. MaxIssued
      /\ cached[at[g]] # 0 => configs[at[g]] # NotLoaded
  BY <1>1, <1>2 DEF TypeOK, LoadedInv
<1>4. found' \in [Goroutines -> 0 .. MaxIssued] /\ found'[g] = cached[at[g]]
      /\ \A h \in Goroutines : h # g => found'[h] = found[h]
  BY <1>1, <1>2, <1>3 DEF TypeOK
<1>5. PICK p \in Before :
        /\ pc' = [pc EXCEPT ![g] = p] /\ at' \in [Goroutines -> 1 .. N + 1]
        /\ p \in {"copy", "compare", "store", "assign"} => at'[g] \in Accounts
        /\ p \in {"store", "assign"} => at'[g] = at[g] /\ cached[at[g]] # 0
        /\ \A h \in Goroutines : h # g => at'[h] = at[h]
  <2>1. CASE cached[at[g]] \in {0, seen[g]}
    <3>1. NextTurn(g)
      BY <2>1 DEF CompareCached
    <3> QED
      BY <1>1, <1>2, <3>1, NextTurnTyped DEF Before
  <2>2. CASE cached[at[g]] \notin {0, seen[g]}
    <3>1. Goto(g, IF at[g] \in FromStore THEN "store" ELSE "assign") /\ at' = at
      BY <2>2 DEF CompareCached
    <3>2. PICK p : /\ p = IF at[g] \in FromStore THEN "store" ELSE "assign"
                   /\ p \in {"store", "assign"}
      OBVIOUS
    <3>3. at \in [Goroutines -> 1 .. N + 1]
      BY <1>1 DEF TypeOK
    <3> QED
      BY <1>3, <2>2, <3>1, <3>2, <3>3 DEF Goto, Before
  <2> QED
    BY <2>1, <2>2
<1>6. /\ \A h \in Goroutines : pc'[h] = IF h = g THEN p ELSE pc[h]
      /\ pc' \in [Goroutines -> Places]
  BY <1>1, <1>5, Gone DEF Places, Before
<1>7. TypeOK'
  <2>1. \A h \in Goroutines : pc'[h] \in Loop => at'[h] \in Accounts
    BY <1>1, <1>5, <1>6 DEF TypeOK, Loop
  <2> QED
    BY <1>1, <1>2, <1>4, <1>5, <1>6, <2>1 DEF TypeOK, Places, Loop, FromFile
<1>8. LoadedInv'
  BY <1>1, <1>2, <1>3, <1>4, <1>5, <1>6 DEF LoadedInv
<1>9. ShareInv'
  BY <1>1, <1>2, <1>5, Quiet DEF Before
<1> QED
  BY <1>7, <1>8, <1>9 DEF FileInv

LEMMA StoreKeeps ==
    ASSUME FileInv, NEW g \in Goroutines, PersistToStore(g)
    PROVE  FileInv'
<1>1. TypeOK /\ LoadedInv /\ ShareInv
  BY DEF FileInv
<1>2. /\ pc[g] = "store" /\ pc' = [pc EXCEPT ![g] = "assign"]
      /\ UNCHANGED <<issued, configs, cached, file, tmp, at, seen, found,
                     writesTo, overtaken, shared, crashes>>
  BY DEF PersistToStore, Goto
<1>3. found[g] \in 1 .. MaxIssued
  <2>1. found[g] \in 0 .. MaxIssued /\ found[g] # 0
    BY <1>1, <1>2 DEF TypeOK, LoadedInv
  <2> QED
    BY <2>1, Sizes
<1>4. storeToken' \in Numbers(FromStore)
  <2>1. CASE storeToken' = [storeToken EXCEPT ![at[g]] = found[g]]
    BY <1>1, <1>3, <2>1 DEF TypeOK, Numbers
  <2>2. CASE storeToken' = storeToken
    BY <1>1, <2>2 DEF TypeOK
  <2> QED
    BY <2>1, <2>2 DEF PersistToStore
<1>9. failed' \in BOOLEAN
  BY <1>1, Zenon DEF TypeOK, PersistToStore
<1>10. failed => failed'
  BY Zenon DEF PersistToStore
<1>5. /\ \A h \in Goroutines : pc'[h] = IF h = g THEN "assign" ELSE pc[h]
      /\ pc' \in [Goroutines -> Places]
  BY <1>1, <1>2, Gone DEF Places
<1>6. TypeOK'
  <2>1. \A h \in Goroutines : pc'[h] \in Loop => at'[h] \in Accounts
    BY <1>1, <1>2, <1>5 DEF TypeOK, Loop
  <2> QED
    BY <1>1, <1>2, <1>4, <1>5, <1>9, <2>1, Zenon DEF TypeOK, Places, Loop, FromFile
<1>7. LoadedInv'
  BY <1>1, <1>2, <1>5 DEF LoadedInv
<1>8. ShareInv'
  <2>1. /\ pc[g] \in Before /\ "assign" \in Before \cup {"create", "none"}
        /\ "assign" # "create" /\ "assign" # "none"
    BY <1>2 DEF Before
  <2>2. UNCHANGED <<configs, file, tmp, writesTo>>
    BY <1>2
  <2> QED
    BY <1>1, <1>2, <1>10, <2>1, <2>2, Quiet, Zenon
<1> QED
  BY <1>6, <1>7, <1>8 DEF FileInv

\* The configs of the file after some of them were set.
LEMMA ConfigsSet ==
    ASSUME TypeOK, ConfigsInv, TypeOK', Reading' = {}, file' = file,
           \A a \in Accounts : configs'[a] = configs[a]
                               \/ (configs[a] # NotLoaded /\ configs'[a] # NotLoaded)
    PROVE  ConfigsInv'
<1>1. /\ configs' \in [Accounts -> {NotLoaded} \cup 1 .. MaxIssued]
      /\ FromFile \subseteq Accounts
  BY Sizes DEF TypeOK
<1>2. CASE FileConfigs \in Numbers(FromFile)
  <2>1. \A a \in FromFile : configs[a] # NotLoaded
    <3>1. \A a \in FromFile : FileConfigs[a] = configs[a] /\ FileConfigs[a] \in 1 .. MaxIssued
      BY <1>2 DEF FileConfigs, Numbers
    <3> QED
      BY <3>1 DEF NotLoaded
  <2>2. \A a \in FromFile : configs'[a] \in 1 .. MaxIssued
    BY <1>1, <2>1
  <2>3. FileConfigs' \in Numbers(FromFile)
    BY <2>2 DEF FileConfigs, Numbers
  <2> QED
    BY <2>3 DEF ConfigsInv
<1>3. CASE FileConfigs = Torn /\ file = Torn
  <2>1. \A a \in FromFile : configs[a] = NotLoaded
    <3>1. \A a \in FromFile : FileConfigs[a] = configs[a] /\ Torn[a] = NotLoaded
      BY DEF FileConfigs, Torn
    <3> QED
      BY <1>3, <3>1
  <2>2. \A a \in FromFile : configs'[a] = configs[a]
    BY <1>1, <2>1
  <2>3. FileConfigs' = FileConfigs
    BY <2>2 DEF FileConfigs
  <2> QED
    BY <1>3, <2>3 DEF ConfigsInv, Torn
<1> QED
  BY <1>2, <1>3 DEF ConfigsInv

LEMMA AssignKeeps ==
    ASSUME FileInv, NEW g \in Goroutines, AssignConfig(g)
    PROVE  FileInv'
<1>1. TypeOK /\ LoadedInv /\ ShareInv
  BY DEF FileInv
<1>2. /\ pc[g] = "assign" /\ NextTurn(g) /\ Unlocked
      /\ configs' = [configs EXCEPT ![at[g]] = found[g]]
      /\ UNCHANGED <<issued, cached, storeToken, file, tmp, seen, found,
                     writesTo, overtaken, shared, failed, crashes>>
  BY DEF AssignConfig
<1>3. /\ at[g] \in Accounts /\ found[g] \in 1 .. MaxIssued
      /\ configs[at[g]] # NotLoaded /\ found[g] # NotLoaded
  <2>1. /\ found[g] \in 0 .. MaxIssued /\ found[g] # 0 /\ at[g] \in Accounts
        /\ configs[at[g]] # NotLoaded
    BY <1>1, <1>2 DEF TypeOK, LoadedInv
  <2> QED
    BY <2>1, Sizes DEF NotLoaded
<1>4. configs' \in [Accounts -> {NotLoaded} \cup 1 .. MaxIssued]
  BY <1>1, <1>2, <1>3 DEF TypeOK
<1>5. \A a \in Accounts : configs'[a] = configs[a]
                          \/ (configs[a] # NotLoaded /\ configs'[a] # NotLoaded)
  BY <1>1, <1>2, <1>3 DEF TypeOK
<1>6. PICK p \in {"copy", "collect"} :
        /\ pc' = [pc EXCEPT ![g] = p] /\ at' \in [Goroutines -> 1 .. N + 1]
        /\ p = "copy" => at'[g] \in Accounts
        /\ \A h \in Goroutines : h # g => at'[h] = at[h]
  BY <1>1, <1>2, NextTurnTyped
<1>7. /\ \A h \in Goroutines : pc'[h] = IF h = g THEN p ELSE pc[h]
      /\ pc' \in [Goroutines -> Places]
  BY <1>1, <1>6, Gone DEF Places
<1>8. TypeOK'
  <2>1. \A h \in Goroutines : pc'[h] \in Loop => at'[h] \in Accounts
    BY <1>1, <1>6, <1>7 DEF TypeOK, Loop
  <2> QED
    BY <1>1, <1>2, <1>4, <1>6, <1>7, <2>1 DEF TypeOK, Places, Loop, FromFile
<1>9. LoadedInv'
  <2>1. \A a \in Accounts : cached'[a] # 0 => configs'[a] # NotLoaded
    BY <1>1, <1>2, <1>5 DEF LoadedInv
  <2>2. ASSUME NEW h \in Goroutines, pc'[h] \in {"store", "assign"}
        PROVE  found'[h] # 0 /\ configs'[at'[h]] # NotLoaded
    <3>1. h # g /\ pc[h] \in {"store", "assign"}
      BY <1>7, <2>2
    <3>2. at[h] \in Accounts /\ at'[h] = at[h]
      BY <1>1, <1>6, <3>1 DEF TypeOK
    <3> QED
      BY <1>1, <1>2, <1>5, <3>1, <3>2 DEF LoadedInv
  <2> QED
    BY <2>1, <2>2 DEF LoadedInv
<1>10. ShareInv'
  <2>1. /\ \A h \in Goroutines : pc[h] \notin {"create", "write", "rename", "remove"}
        /\ \A h \in Goroutines : writesTo[h] = "none"
    BY <1>1, <1>2, UnlockedClosed
  <2>2. Reading' = {}
    BY <1>7, <2>1 DEF Reading
  <2>3. ConfigsInv'
    BY <1>1, <1>2, <1>5, <1>8, <2>2, ConfigsSet DEF ShareInv
  <2>4. WrittenInv'
    BY <1>7 DEF WrittenInv, Active
  <2> QED
    BY <1>2, <2>1, <2>2, <2>3, <2>4, Nobody
<1> QED
  BY <1>8, <1>9, <1>10 DEF FileInv

-----------------------------------------------------------------------------
(* The collection and the steps under the lock.                             *)
\* What the steps after the loop leave alone.
LEMMA LoopOver ==
    ASSUME TypeOK, LoadedInv, NEW g \in Goroutines, NEW p \in Places \ Loop,
           pc' = [pc EXCEPT ![g] = p],
           UNCHANGED <<issued, configs, cached, storeToken, at, seen, found,
                       overtaken, crashes>>
    PROVE  /\ LoadedInv'
           /\ (/\ file' \in Numbers(FromFile) \cup {Torn}
               /\ tmp' \in Numbers(FromFile) \cup {Torn, Absent}
               /\ writesTo' \in [Goroutines -> {"none", "tmp", "file"}]
               /\ shared' \in BOOLEAN /\ failed' \in BOOLEAN) => TypeOK'
<1>1. /\ \A h \in Goroutines : pc'[h] = IF h = g THEN p ELSE pc[h]
      /\ pc' \in [Goroutines -> Places]
  BY Gone
<1>2. LoadedInv'
  BY <1>1 DEF LoadedInv, Loop
<1>3. \A h \in Goroutines : pc'[h] \in Loop => at'[h] \in Accounts
  BY <1>1 DEF TypeOK, Loop
<1>4. ASSUME file' \in Numbers(FromFile) \cup {Torn},
             tmp' \in Numbers(FromFile) \cup {Torn, Absent},
             writesTo' \in [Goroutines -> {"none", "tmp", "file"}],
             shared' \in BOOLEAN, failed' \in BOOLEAN
      PROVE  TypeOK'
  BY <1>1, <1>3, <1>4, Zenon DEF TypeOK, Places, Loop, FromFile
<1> QED
  BY <1>2, <1>4, Zenon

\* Under the lock the configs of the file are there and do not change.
LEMMA Collected ==
    ASSUME TypeOK, ConfigsInv, NEW g \in Goroutines,
           pc[g] \in {"create", "write", "rename", "remove"}, configs' = configs
    PROVE  /\ FileConfigs \in Numbers(FromFile) /\ FileConfigs' = FileConfigs
           /\ FileConfigs # Torn /\ FileConfigs # Absent /\ Torn # Absent
           /\ ConfigsInv'
<1>1. g \in Reading
  BY DEF Reading
<1>2. FileConfigs \in Numbers(FromFile) /\ FromFile # {}
  BY <1>1 DEF ConfigsInv
<1>3. FileConfigs' = FileConfigs
  BY DEF FileConfigs
<1>4. ConfigsInv'
  BY <1>2, <1>3 DEF ConfigsInv
<1>5. PICK a : a \in FromFile
  BY <1>2
<1>6. FileConfigs[a] \in 1 .. MaxIssued /\ Torn[a] = -1 /\ Absent[a] = -2
  BY <1>2, <1>5 DEF Numbers, Torn, Absent, NotLoaded
<1> QED
  BY <1>2, <1>3, <1>4, <1>6, Sizes

\* What the proofs of the steps have in common.
LEMMA StepUnderLock ==
    ASSUME FileInv, NEW g \in Goroutines, NEW p \in Places \ Loop,
           pc[g] \in {"create", "write", "rename", "remove"}, pc' = [pc EXCEPT ![g] = p],
           UNCHANGED <<issued, configs, cached, storeToken, at, seen, found,
                       overtaken, crashes>>,
           file' \in Numbers(FromFile) \cup {Torn},
           tmp' \in Numbers(FromFile) \cup {Torn, Absent},
           writesTo' \in [Goroutines -> {"none", "tmp", "file"}],
           shared' \in BOOLEAN, failed' \in BOOLEAN,
           OpenInv', TmpInv', RobbedInv', WrittenInv'
    PROVE  FileInv'
<1>1. TypeOK /\ LoadedInv /\ ConfigsInv
  BY DEF FileInv, ShareInv
<1>2. TypeOK' /\ LoadedInv'
  BY <1>1, LoopOver, Zenon
<1>3. configs' = configs
  OBVIOUS
<1>4. ConfigsInv'
  BY <1>1, <1>3, Collected, Zenon
<1> QED
  BY <1>2, <1>4, Zenon DEF FileInv, ShareInv

LEMMA CollectKeeps ==
    ASSUME FileInv, NEW g \in Goroutines, Collect(g)
    PROVE  FileInv'
<1>1. TypeOK /\ LoadedInv /\ ShareInv
  BY DEF FileInv
<1>2. /\ pc[g] = "collect"
      /\ UNCHANGED <<issued, configs, cached, storeToken, file, tmp, at, seen,
                     found, writesTo, overtaken, shared, failed, crashes>>
  BY DEF Collect
<1>3. PICK p \in {"none", "create"} :
        /\ pc' = [pc EXCEPT ![g] = p]
        /\ p = "none" <=> FromFile = {} \/ FileConfigs = Torn
  BY DEF Collect, End, Goto
<1>4. ASSUME FromFile = {} PROVE file = FileConfigs
  <2>1. file \in Numbers(FromFile) \cup {Torn}
    BY <1>1 DEF TypeOK
  <2>2. file = [a \in FromFile |-> file[a]]
    BY <2>1 DEF Numbers, Torn
  <2> QED
    BY <1>4, <2>2 DEF FileConfigs
<1>5. FileConfigs = Torn => file = FileConfigs
  <2>1. ASSUME FromFile # {}, FileConfigs = Torn PROVE FileConfigs \notin Numbers(FromFile)
    <3>1. PICK a : a \in FromFile
      BY <2>1
    <3>2. FileConfigs[a] = -1
      BY <2>1, <3>1 DEF Torn, NotLoaded
    <3> QED
      BY <3>1, <3>2, Sizes DEF Numbers
  <2> QED
    BY <1>1, <1>4, <2>1 DEF ShareInv, ConfigsInv
<1>6. ShareInv'
  BY <1>1, <1>2, <1>3, <1>4, <1>5, Quiet DEF Before
<1>7. p \in Places \ Loop
  BY DEF Places, Loop
<1>8. TypeOK' /\ LoadedInv'
  BY <1>1, <1>2, <1>3, <1>7, LoopOver DEF TypeOK
<1> QED
  BY <1>6, <1>8 DEF FileInv

\* What is known when a step under the lock begins.
LEMMA UnderLock ==
    ASSUME FileInv, NEW g \in Goroutines, configs' = configs,
           pc[g] \in {"create", "write", "rename", "remove"}
    PROVE  /\ TypeOK /\ OpenInv /\ TmpInv /\ RobbedInv
           /\ FileConfigs \in Numbers(FromFile) /\ FileConfigs' = FileConfigs
           /\ FileConfigs # Torn /\ FileConfigs # Absent /\ Torn # Absent
           /\ file \in Numbers(FromFile) \cup {Torn}
           /\ tmp \in Numbers(FromFile) \cup {Torn, Absent}
           /\ writesTo \in [Goroutines -> {"none", "tmp", "file"}]
           /\ shared \in BOOLEAN /\ failed \in BOOLEAN
<1>1. TypeOK /\ ConfigsInv /\ OpenInv /\ TmpInv /\ RobbedInv
  BY DEF FileInv, ShareInv
<1> QED
  BY <1>1, Collected DEF TypeOK

LEMMA CreateKeeps ==
    ASSUME FileInv, NEW g \in Goroutines, CreateTemp(g)
    PROVE  FileInv'
<1>1. /\ pc[g] = "create"
      /\ UNCHANGED <<issued, configs, cached, storeToken, file, at, seen, found,
                     overtaken, crashes>>
  BY DEF CreateTemp
<1>2. /\ TypeOK /\ OpenInv /\ TmpInv /\ RobbedInv
      /\ FileConfigs' = FileConfigs /\ Torn # Absent
      /\ file \in Numbers(FromFile) \cup {Torn}
      /\ tmp \in Numbers(FromFile) \cup {Torn, Absent}
      /\ writesTo \in [Goroutines -> {"none", "tmp", "file"}]
      /\ shared \in BOOLEAN /\ failed \in BOOLEAN
  BY <1>1, UnderLock
<1>3. "write" \in Places \ Loop /\ "none" \in Places \ Loop
  BY DEF Places, Loop
<1>4. ASSUME tmp' = Torn, writesTo' = [writesTo EXCEPT ![g] = "tmp"],
             Goto(g, "write"), shared' = (Using # {}), failed' = failed
      PROVE  FileInv'
  <2>1. pc' = [pc EXCEPT ![g] = "write"]
    BY <1>4 DEF Goto
  <2>2. \A h \in Goroutines : /\ pc'[h] = IF h = g THEN "write" ELSE pc[h]
                             /\ writesTo'[h] = IF h = g THEN "tmp" ELSE writesTo[h]
    BY <1>2, <1>4, <2>1, Gone
  <2>3. writesTo' \in [Goroutines -> {"none", "tmp", "file"}]
    BY <1>2, <1>4
  <2>4. OpenInv'
    BY <1>2, <2>2 DEF OpenInv
  <2>5. TmpInv'
    BY <1>4, <2>2 DEF TmpInv
  <2>6. RobbedInv'
    <3>1. Good => Good'
      BY <1>1, <1>2, <2>2 DEF Good, OpenInv
    <3>2. ASSUME NEW h \in Goroutines, Robbed(h)' PROVE Robbed(h)
      BY <1>2, <1>4, <2>2, <3>2 DEF Robbed
    <3> QED
      BY <1>2, <1>4, <3>1, <3>2 DEF RobbedInv
  <2>7. WrittenInv'
    BY <2>2 DEF WrittenInv, Active
  <2>8. /\ file' \in Numbers(FromFile) \cup {Torn}
        /\ tmp' \in Numbers(FromFile) \cup {Torn, Absent}
    BY <1>1, <1>2, <1>4
  <2>9. failed' \in BOOLEAN /\ pc[g] \in {"create", "write", "rename", "remove"}
    BY <1>1, <1>2, <1>4
  <2>10. shared' \in BOOLEAN
    BY <1>4, Zenon
  <2> QED
    BY <1>1, <1>3, <2>1, <2>3, <2>4, <2>5, <2>6, <2>7, <2>8, <2>9, <2>10, StepUnderLock, Zenon
<1>5. ASSUME failed' = TRUE, End(g), tmp' = tmp, writesTo' = writesTo, shared' = shared
      PROVE  FileInv'
  <2>1. pc' = [pc EXCEPT ![g] = "none"]
    BY <1>5 DEF End, Goto
  <2>2. \A h \in Goroutines : pc'[h] = IF h = g THEN "none" ELSE pc[h]
    BY <1>2, <2>1, Gone
  <2>3. OpenInv'
    BY <1>1, <1>2, <1>5, <2>2 DEF OpenInv
  <2>4. TmpInv'
    BY <1>2, <1>5, <2>2 DEF TmpInv
  <2>5. RobbedInv' /\ WrittenInv'
    BY <1>5 DEF RobbedInv, WrittenInv
  <2>6. /\ file' \in Numbers(FromFile) \cup {Torn}
        /\ tmp' \in Numbers(FromFile) \cup {Torn, Absent}
        /\ writesTo' \in [Goroutines -> {"none", "tmp", "file"}]
    BY <1>1, <1>2, <1>5
  <2>7. /\ shared' \in BOOLEAN /\ failed' \in BOOLEAN
        /\ pc[g] \in {"create", "write", "rename", "remove"}
    BY <1>1, <1>2, <1>5
  <2> QED
    BY <1>1, <1>3, <2>1, <2>3, <2>4, <2>5, <2>6, <2>7, StepUnderLock, Zenon
<1> QED
  BY <1>4, <1>5 DEF CreateTemp

LEMMA WriteKeeps ==
    ASSUME FileInv, NEW g \in Goroutines, WriteTemp(g)
    PROVE  FileInv'
<1>1. /\ pc[g] = "write" /\ failed' = failed
      /\ UNCHANGED <<issued, configs, cached, storeToken, at, seen, found,
                     overtaken, shared, crashes>>
      /\ tmp' = IF writesTo[g] = "tmp" THEN FileConfigs ELSE tmp
      /\ file' = IF writesTo[g] = "file" THEN FileConfigs ELSE file
      /\ writesTo' = [writesTo EXCEPT ![g] = "none"]
      /\ pc' = [pc EXCEPT ![g] = "rename"]
  BY DEF WriteTemp, Goto
<1>2. /\ TypeOK /\ OpenInv /\ TmpInv /\ RobbedInv
      /\ FileConfigs \in Numbers(FromFile) /\ FileConfigs' = FileConfigs
      /\ FileConfigs # Torn /\ FileConfigs # Absent
      /\ file \in Numbers(FromFile) \cup {Torn}
      /\ tmp \in Numbers(FromFile) \cup {Torn, Absent}
      /\ writesTo \in [Goroutines -> {"none", "tmp", "file"}]
      /\ shared \in BOOLEAN /\ failed \in BOOLEAN
  BY <1>1, UnderLock
<1>3. "rename" \in Places \ Loop
  BY DEF Places, Loop
<1>4. \A h \in Goroutines : /\ pc'[h] = IF h = g THEN "rename" ELSE pc[h]
                           /\ writesTo'[h] = IF h = g THEN "none" ELSE writesTo[h]
  BY <1>1, <1>2, Gone
<1>5. writesTo' \in [Goroutines -> {"none", "tmp", "file"}]
  BY <1>1, <1>2
<1>6. OpenInv'
  BY <1>2, <1>4 DEF OpenInv
<1>7. TmpInv'
  <2>1. tmp \in {FileConfigs, Absent, Torn}
    BY <1>1, <1>2 DEF TmpInv
  <2>2. tmp' \in {FileConfigs, Absent, Torn}
    BY <1>1, <2>1
  <2>3. ASSUME tmp' = Torn, ~failed PROVE \E h \in Goroutines : writesTo'[h] = "tmp"
    <3>1. writesTo[g] # "tmp" /\ tmp = Torn
      BY <1>1, <1>2, <2>3
    <3>2. PICK h \in Goroutines : writesTo[h] = "tmp"
      BY <1>1, <1>2, <2>3, <3>1 DEF TmpInv
    <3> QED
      BY <1>4, <3>1, <3>2
  <2> QED
    BY <1>1, <1>2, <2>2, <2>3 DEF TmpInv
<1>8. RobbedInv'
  <2>1. Good => Good'
    BY <1>1, <1>2, <1>4 DEF Good
  <2>2. ASSUME NEW h \in Goroutines, h # g, Robbed(h)' PROVE Robbed(h)
    BY <1>1, <1>2, <1>4, <2>2 DEF Robbed
  <2>3. ASSUME Robbed(g)' PROVE Good' \/ Robbed(g)
    <3>1. tmp' = Absent
      BY <1>4, <2>3 DEF Robbed
    <3>2. writesTo[g] # "tmp"
      BY <1>1, <1>2, <3>1
    <3>3. CASE writesTo[g] = "file"
      BY <1>1, <1>2, <3>3 DEF Good
    <3>4. CASE writesTo[g] = "none"
      BY <1>1, <3>4 DEF Robbed
    <3> QED
      BY <1>2, <3>2, <3>3, <3>4
  <2> QED
    BY <1>1, <1>2, <2>1, <2>2, <2>3 DEF RobbedInv
<1>9. WrittenInv'
  BY <1>4 DEF WrittenInv, Active
<1>10. /\ file' \in Numbers(FromFile) \cup {Torn}
       /\ tmp' \in Numbers(FromFile) \cup {Torn, Absent}
  BY <1>1, <1>2
<1>11. /\ shared' \in BOOLEAN /\ failed' \in BOOLEAN
       /\ pc[g] \in {"create", "write", "rename", "remove"}
  BY <1>1, <1>2
<1> QED
  BY <1>1, <1>3, <1>5, <1>6, <1>7, <1>8, <1>9, <1>10, <1>11, StepUnderLock, Zenon

LEMMA WriteFailsKeeps ==
    ASSUME FileInv, NEW g \in Goroutines, WriteTempFails(g)
    PROVE  FileInv'
<1>1. /\ pc[g] = "write" /\ failed' = TRUE
      /\ UNCHANGED <<issued, configs, cached, storeToken, file, tmp, at, seen, found,
                     overtaken, shared, crashes>>
      /\ writesTo' = [writesTo EXCEPT ![g] = "none"]
      /\ pc' = [pc EXCEPT ![g] = "none"]
  BY DEF WriteTempFails, End, Goto
<1>2. /\ TypeOK /\ OpenInv /\ TmpInv /\ FileConfigs' = FileConfigs
      /\ file \in Numbers(FromFile) \cup {Torn}
      /\ tmp \in Numbers(FromFile) \cup {Torn, Absent}
      /\ writesTo \in [Goroutines -> {"none", "tmp", "file"}]
      /\ shared \in BOOLEAN
  BY <1>1, UnderLock
<1>3. "none" \in Places \ Loop
  BY DEF Places, Loop
<1>4. \A h \in Goroutines : /\ pc'[h] = IF h = g THEN "none" ELSE pc[h]
                           /\ writesTo'[h] = IF h = g THEN "none" ELSE writesTo[h]
  BY <1>1, <1>2, Gone
<1>5. writesTo' \in [Goroutines -> {"none", "tmp", "file"}]
  BY <1>1, <1>2
<1>6. OpenInv'
  BY <1>2, <1>4 DEF OpenInv
<1>7. TmpInv'
  BY <1>1, <1>2 DEF TmpInv
<1>8. RobbedInv' /\ WrittenInv'
  BY <1>1 DEF RobbedInv, WrittenInv
<1>9. /\ file' \in Numbers(FromFile) \cup {Torn}
      /\ tmp' \in Numbers(FromFile) \cup {Torn, Absent}
  BY <1>1, <1>2
<1>10. /\ shared' \in BOOLEAN /\ failed' \in BOOLEAN
       /\ pc[g] \in {"create", "write", "rename", "remove"}
  BY <1>1, <1>2
<1> QED
  BY <1>1, <1>3, <1>5, <1>6, <1>7, <1>8, <1>9, <1>10, StepUnderLock, Zenon

\* The rename gives the file what is current, or a writer.
LEMMA Renamed ==
    ASSUME FileInv, NEW g \in Goroutines, pc[g] = "rename",
           tmp # Absent, file' = tmp, configs' = configs,
           \A h \in Goroutines : writesTo[h] = "tmp" => writesTo'[h] = "file"
    PROVE  ~failed => Good'
<1>1. /\ TmpInv /\ FileConfigs' = FileConfigs
  BY UnderLock
<1>2. /\ tmp \in {FileConfigs, Torn}
      /\ tmp = Torn => failed \/ \E h \in Goroutines : writesTo[h] = "tmp"
  BY <1>1 DEF TmpInv
<1>3. CASE tmp = FileConfigs
  BY <1>1, <1>3 DEF Good
<1>4. CASE tmp = Torn
  BY <1>2, <1>4 DEF Good
<1> QED
  BY <1>2, <1>3, <1>4

LEMMA RenameKeeps ==
    ASSUME FileInv, NEW g \in Goroutines, Rename(g)
    PROVE  FileInv'
<1>1. /\ pc[g] = "rename"
      /\ UNCHANGED <<issued, configs, cached, storeToken, at, seen, found,
                     overtaken, shared, crashes>>
  BY DEF Rename
<1>2. /\ TypeOK /\ OpenInv /\ TmpInv /\ RobbedInv
      /\ FileConfigs' = FileConfigs /\ Torn # Absent
      /\ file \in Numbers(FromFile) \cup {Torn}
      /\ tmp \in Numbers(FromFile) \cup {Torn, Absent}
      /\ writesTo \in [Goroutines -> {"none", "tmp", "file"}]
      /\ shared \in BOOLEAN /\ failed \in BOOLEAN
  BY <1>1, UnderLock
<1>3. "remove" \in Places \ Loop /\ "none" \in Places \ Loop
  BY DEF Places, Loop
<1>4. ASSUME tmp # Absent, file' = tmp, tmp' = Absent, End(g), failed' = failed,
             writesTo' = [h \in Goroutines |->
                CASE writesTo[h] = "tmp"  -> "file"
                  [] writesTo[h] = "file" -> "none"
                  [] OTHER                -> writesTo[h]]
      PROVE  FileInv'
  <2>1. pc' = [pc EXCEPT ![g] = "none"]
    BY <1>4 DEF End, Goto
  <2>2. \A h \in Goroutines : pc'[h] = IF h = g THEN "none" ELSE pc[h]
    BY <1>2, <2>1, Gone
  <2>3. \A h \in Goroutines :
          /\ writesTo'[h] \in {"none", "file"}
          /\ writesTo'[h] = "file" <=> writesTo[h] = "tmp"
    BY <1>2, <1>4
  <2>4. writesTo' \in [Goroutines -> {"none", "tmp", "file"}]
    BY <1>4, <2>3
  <2>5. OpenInv'
    BY <1>1, <1>2, <2>2, <2>3 DEF OpenInv
  <2>6. TmpInv'
    BY <1>2, <1>4 DEF TmpInv
  <2>7. ~failed => Good'
    BY <1>1, <1>4, <2>3, Renamed
  <2>8. RobbedInv'
    BY <1>4, <2>7, Zenon DEF RobbedInv
  <2>9. WrittenInv'
    <3>1. SUFFICES ASSUME Active' = {}, ~failed' PROVE file' = FileConfigs'
      BY DEF WrittenInv
    <3>2. Good'
      BY <1>4, <2>7, <3>1, Zenon
    <3>3. \A h \in Goroutines : writesTo'[h] = "none"
      BY <2>5, <3>1 DEF OpenInv, Active
    <3> QED
      BY <3>2, <3>3 DEF Good
  <2>10. /\ file' \in Numbers(FromFile) \cup {Torn}
         /\ tmp' \in Numbers(FromFile) \cup {Torn, Absent}
    BY <1>2, <1>4
  <2>11. /\ shared' \in BOOLEAN /\ failed' \in BOOLEAN
         /\ pc[g] \in {"create", "write", "rename", "remove"}
    BY <1>1, <1>2, <1>4
  <2> QED
    BY <1>1, <1>3, <2>1, <2>4, <2>5, <2>6, <2>8, <2>9, <2>10, <2>11, StepUnderLock, Zenon
<1>5. ASSUME Goto(g, "remove"), failed' = (failed \/ tmp # Absent),
             file' = file, tmp' = tmp, writesTo' = writesTo
      PROVE  FileInv'
  <2>1. pc' = [pc EXCEPT ![g] = "remove"]
    BY <1>5 DEF Goto
  <2>2. \A h \in Goroutines : pc'[h] = IF h = g THEN "remove" ELSE pc[h]
    BY <1>2, <2>1, Gone
  <2>3. OpenInv'
    BY <1>1, <1>2, <1>5, <2>2 DEF OpenInv
  <2>4. failed => failed'
    BY <1>5, Zenon
  <2>5. TmpInv'
    BY <1>1, <1>2, <1>5, <2>2, <2>4 DEF TmpInv
  <2>6. RobbedInv'
    <3>1. ~failed' => ~failed /\ tmp = Absent
      BY <1>5, Zenon
    <3>2. Good' = Good
      BY <1>2, <1>5 DEF Good
    <3>3. ASSUME tmp = Absent, NEW h \in Goroutines, Robbed(h)' PROVE Robbed(h)
      BY <1>1, <1>5, <2>2, <3>3 DEF Robbed
    <3> QED
      BY <1>2, <3>1, <3>2, <3>3 DEF RobbedInv
  <2>7. WrittenInv'
    BY <2>2 DEF WrittenInv, Active
  <2>8. /\ file' \in Numbers(FromFile) \cup {Torn}
        /\ tmp' \in Numbers(FromFile) \cup {Torn, Absent}
        /\ writesTo' \in [Goroutines -> {"none", "tmp", "file"}]
    BY <1>2, <1>5
  <2>9. pc[g] \in {"create", "write", "rename", "remove"}
    BY <1>1
  <2>10. shared' \in BOOLEAN /\ failed' \in BOOLEAN
    BY <1>1, <1>2, <1>5, Zenon
  <2> QED
    BY <1>1, <1>3, <2>1, <2>3, <2>5, <2>6, <2>7, <2>8, <2>9, <2>10, StepUnderLock, Zenon
<1> QED
  BY <1>4, <1>5, Zenon DEF Rename

LEMMA RemoveKeeps ==
    ASSUME FileInv, NEW g \in Goroutines, RemoveTemp(g)
    PROVE  FileInv'
<1>1. /\ pc[g] = "remove" /\ tmp' = Absent
      /\ UNCHANGED <<issued, configs, cached, storeToken, file, at, seen, found,
                     overtaken, shared, failed, crashes>>
      /\ writesTo' = [h \in Goroutines |-> IF writesTo[h] = "tmp" THEN "none" ELSE writesTo[h]]
      /\ pc' = [pc EXCEPT ![g] = "none"]
  BY DEF RemoveTemp, End, Goto
<1>2. /\ TypeOK /\ OpenInv /\ RobbedInv
      /\ FileConfigs' = FileConfigs /\ Torn # Absent
      /\ file \in Numbers(FromFile) \cup {Torn}
      /\ writesTo \in [Goroutines -> {"none", "tmp", "file"}]
      /\ shared \in BOOLEAN /\ failed \in BOOLEAN
  BY <1>1, UnderLock
<1>3. "none" \in Places \ Loop
  BY DEF Places, Loop
<1>4. \A h \in Goroutines :
        /\ pc'[h] = IF h = g THEN "none" ELSE pc[h]
        /\ writesTo'[h] = IF writesTo[h] = "tmp" THEN "none" ELSE writesTo[h]
  BY <1>1, <1>2, Gone
<1>5. writesTo' \in [Goroutines -> {"none", "tmp", "file"}]
  BY <1>1, <1>2
<1>6. OpenInv'
  BY <1>1, <1>2, <1>4 DEF OpenInv
<1>7. TmpInv'
  BY <1>1, <1>2 DEF TmpInv
<1>8. ~failed => Good'
  <2>1. Robbed(g)
    BY <1>1 DEF Robbed
  <2>2. Good => Good'
    BY <1>1, <1>2, <1>4 DEF Good
  <2> QED
    BY <1>2, <2>1, <2>2 DEF RobbedInv
<1>9. RobbedInv'
  BY <1>1, <1>8, Zenon DEF RobbedInv
<1>10. WrittenInv'
  <2>1. SUFFICES ASSUME Active' = {}, ~failed' PROVE file' = FileConfigs'
    BY DEF WrittenInv
  <2>2. failed' = failed
    BY <1>1
  <2>3. Good'
    BY <1>8, <2>1, <2>2, Zenon
  <2>4. \A h \in Goroutines : writesTo'[h] = "none"
    BY <1>6, <2>1 DEF OpenInv, Active
  <2> QED
    BY <2>3, <2>4 DEF Good
<1>11. /\ file' \in Numbers(FromFile) \cup {Torn}
       /\ tmp' \in Numbers(FromFile) \cup {Torn, Absent}
  BY <1>1, <1>2
<1>12. /\ shared' \in BOOLEAN /\ failed' \in BOOLEAN
       /\ pc[g] \in {"create", "write", "rename", "remove"}
  BY <1>1, <1>2
<1> QED
  BY <1>1, <1>3, <1>5, <1>6, <1>7, <1>9, <1>10, <1>11, <1>12, StepUnderLock, Zenon

-----------------------------------------------------------------------------
(* Refreshes and the end of the process.                                    *)
LEMMA RefreshTyped ==
    ASSUME TypeOK, NEW ok \in SUBSET Accounts, NEW new \in SUBSET ok, RefreshCache(ok, new)
    PROVE  TypeOK'
<1>1. \A a \in Accounts : issued[a] \in 1 .. MaxIssued /\ MaxIssued \in Nat
  BY Sizes DEF TypeOK, Numbers
<1>2. \A a \in new : issued[a] + 1 \in 1 .. MaxIssued
  <2>1. \A a \in new : issued[a] < MaxIssued /\ a \in Accounts
    BY DEF RefreshCache
  <2> QED
    BY <1>1, <2>1
<1>3. issued' \in Numbers(Accounts)
  BY <1>1, <1>2 DEF RefreshCache, Numbers
<1>4. configs' \in [Accounts -> {NotLoaded} \cup 1 .. MaxIssued]
  BY <1>2 DEF TypeOK, RefreshCache
<1>5. cached' \in [Accounts -> 0 .. MaxIssued]
  <2>1. \A a \in ok : configs'[a] \in 1 .. MaxIssued
    BY <1>1, <1>2 DEF TypeOK, RefreshCache, Accepted
  <2>2. \A a \in ok : configs'[a] \in 0 .. MaxIssued
    BY <1>1, <2>1
  <2> QED
    BY <2>2 DEF TypeOK, RefreshCache
<1>6. overtaken' \in [Goroutines -> 0 .. MaxOvertaken]
  <2>1. \A g \in Goroutines : overtaken[g] \in 0 .. MaxOvertaken /\ MaxOvertaken \in Nat
    BY Sizes DEF TypeOK
  <2>2. \A g \in Active : overtaken[g] + 1 \in 0 .. MaxOvertaken
    <3>1. \A g \in Active : overtaken[g] < MaxOvertaken /\ g \in Goroutines
      BY DEF RefreshCache, Active
    <3> QED
      BY <2>1, <3>1
  <2>3. 0 \in 0 .. MaxOvertaken
    BY Sizes
  <2> QED
    BY <2>2, <2>3 DEF RefreshCache
<1>7. /\ pc' \in [Goroutines -> Places] /\ at' \in [Goroutines -> 1 .. N + 1]
      /\ failed' \in BOOLEAN
      /\ \A g \in Goroutines : pc'[g] \in Loop => at'[g] \in Accounts
  <2>1. CASE UNCHANGED <<pc, at, failed>>
    BY <2>1 DEF TypeOK, Places, Loop
  <2>2. ASSUME NEW g \in Goroutines, pc' = [pc EXCEPT ![g] = "copy"],
               at' = [at EXCEPT ![g] = 1], failed' = FALSE
        PROVE  <1>7!:
    <3>1. 1 \in 1 .. N + 1 /\ 1 \in Accounts
      BY Sizes
    <3>2. /\ pc' \in [Goroutines -> Places]
          /\ \A h \in Goroutines : pc'[h] = IF h = g THEN "copy" ELSE pc[h]
      BY <2>2, Gone DEF Places
    <3>3. /\ at' \in [Goroutines -> 1 .. N + 1]
          /\ \A h \in Goroutines : at'[h] = IF h = g THEN 1 ELSE at[h]
      BY <2>2, <3>1 DEF TypeOK
    <3>4. \A h \in Goroutines : pc'[h] \in Loop => at'[h] \in Accounts
      BY <3>1, <3>2, <3>3 DEF TypeOK, Loop
    <3> QED
      BY <2>2, <3>2, <3>3, <3>4
  <2> QED
    BY <2>1, <2>2 DEF RefreshCache
<1>8. UNCHANGED <<storeToken, file, tmp, seen, found, writesTo, shared, crashes>>
  BY DEF RefreshCache
<1> QED
  BY <1>3, <1>4, <1>5, <1>6, <1>7, <1>8 DEF TypeOK, Places, Loop, FromFile

LEMMA RefreshKeeps ==
    ASSUME FileInv, NEW ok \in SUBSET Accounts, NEW new \in SUBSET ok, RefreshCache(ok, new)
    PROVE  FileInv'
<1>1. TypeOK /\ LoadedInv /\ ShareInv
  BY DEF FileInv
<1>2. TypeOK'
  BY <1>1, RefreshTyped
<1>3. \A a \in Accounts :
        /\ a \notin new => configs'[a] = configs[a]
        /\ a \in ok => configs[a] # NotLoaded /\ configs'[a] # NotLoaded
        /\ a \notin ok => cached'[a] = cached[a]
  <2>1. \A a \in Accounts : issued[a] \in 1 .. MaxIssued
    BY <1>1 DEF TypeOK, Numbers
  <2>2. \A a \in Accounts : issued[a] # NotLoaded /\ issued[a] + 1 # NotLoaded
    BY <2>1, Sizes DEF NotLoaded
  <2> QED
    BY <2>2 DEF RefreshCache, Accepted
<1>4. \A g \in Goroutines :
        pc'[g] \in {"store", "assign", "create", "write", "rename", "remove"} =>
           pc'[g] = pc[g] /\ at'[g] = at[g]
  <2>1. CASE UNCHANGED <<pc, at>>
    BY <2>1
  <2>2. ASSUME NEW g \in Goroutines, pc' = [pc EXCEPT ![g] = "copy"], at' = [at EXCEPT ![g] = 1]
        PROVE  \A h \in Goroutines : h # g => pc'[h] = pc[h] /\ at'[h] = at[h]
    BY <1>1, <2>2 DEF TypeOK
  <2>3. ASSUME NEW g \in Goroutines, pc' = [pc EXCEPT ![g] = "copy"]
        PROVE  pc'[g] = "copy"
    BY <1>1, <2>3 DEF TypeOK
  <2> QED
    BY <2>1, <2>2, <2>3 DEF RefreshCache
<1>5. LoadedInv'
  <2>1. \A a \in Accounts : cached'[a] # 0 => configs'[a] # NotLoaded
    BY <1>1, <1>3 DEF LoadedInv
  <2>2. ASSUME NEW g \in Goroutines, pc'[g] \in {"store", "assign"}
        PROVE  found'[g] # 0 /\ configs'[at'[g]] # NotLoaded
    <3>1. /\ pc[g] \in {"store", "assign"} /\ at'[g] = at[g] /\ found' = found
          /\ at[g] \in Accounts
      BY <1>1, <1>4, <2>2 DEF TypeOK, RefreshCache
    <3> QED
      BY <1>1, <1>3, <3>1 DEF LoadedInv
  <2> QED
    BY <2>1, <2>2 DEF LoadedInv
<1>6. ShareInv'
  <2>1. /\ \A g \in Goroutines : pc[g] \notin {"create", "write", "rename", "remove"}
        /\ \A g \in Goroutines : writesTo'[g] = "none"
    BY <1>1, UnlockedClosed DEF RefreshCache
  <2>2. Reading' = {}
    BY <1>4, <2>1 DEF Reading
  <2>3. \A a \in Accounts : configs'[a] = configs[a]
                           \/ (configs[a] # NotLoaded /\ configs'[a] # NotLoaded)
    BY <1>3
  <2>4. ConfigsInv'
    BY <1>1, <1>2, <2>2, <2>3, ConfigsSet DEF ShareInv, RefreshCache
  <2>5. WrittenInv'
    <3>1. CASE new = {}
      <4>1. UNCHANGED <<pc, failed, file>>
        BY <3>1 DEF RefreshCache
      <4>2. \A a \in FromFile : configs'[a] = configs[a]
        BY <1>3, <3>1, Sizes
      <4>3. FileConfigs' = FileConfigs
        BY <4>2 DEF FileConfigs
      <4> QED
        BY <1>1, <4>1, <4>3 DEF ShareInv, WrittenInv, Active
    <3>2. CASE new # {}
      <4>1. PICK g \in Goroutines : pc' = [pc EXCEPT ![g] = "copy"]
        BY <3>2 DEF RefreshCache
      <4>2. pc'[g] = "copy"
        BY <1>1, <4>1 DEF TypeOK
      <4> QED
        BY <4>2 DEF WrittenInv, Active
    <3> QED
      BY <3>1, <3>2
  <2> QED
    BY <2>1, <2>2, <2>4, <2>5, Nobody
<1> QED
  BY <1>2, <1>5, <1>6 DEF FileInv

LEMMA RestartKeeps ==
    ASSUME FileInv, Restart
    PROVE  FileInv'
<1>1. TypeOK /\ LoadedInv /\ ShareInv
  BY DEF FileInv
<1>2. /\ \A g \in Goroutines : pc'[g] = "none" /\ writesTo'[g] = "none"
      /\ \A a \in Accounts : cached'[a] = 0 /\ configs'[a] = Source(a)
      /\ failed' = TRUE
  BY DEF Restart
<1>3. file \in Numbers(FromFile) \/ file = Torn
  BY <1>1 DEF TypeOK
<1>4. \A a \in Accounts : Source(a) \in {NotLoaded} \cup 1 .. MaxIssued
  BY <1>1, <1>3, Sizes DEF TypeOK, Numbers, Source, Torn
<1>5. TypeOK'
  <2>1. crashes' \in 0 .. MaxCrashes
    BY <1>1, Sizes DEF TypeOK, Restart
  <2>2. configs' \in [Accounts -> {NotLoaded} \cup 1 .. MaxIssued]
    BY <1>4 DEF Restart
  <2>3. cached' \in [Accounts -> 0 .. MaxIssued]
    BY Sizes DEF Restart
  <2>4. /\ pc' \in [Goroutines -> Places]
        /\ writesTo' \in [Goroutines -> {"none", "tmp", "file"}]
    BY DEF Restart, Places
  <2>5. \A g \in Goroutines : pc'[g] \in Loop => at'[g] \in Accounts
    BY <1>2 DEF Loop
  <2>6. UNCHANGED <<issued, storeToken, file, tmp, at, seen, found, overtaken, shared>>
    BY DEF Restart
  <2> QED
    BY <1>1, <1>2, <2>1, <2>2, <2>3, <2>4, <2>5, <2>6 DEF TypeOK, Places, Loop, FromFile
<1>6. LoadedInv'
  BY <1>2 DEF LoadedInv
<1>7. ShareInv'
  <2>1. Reading' = {}
    BY <1>2 DEF Reading
  <2>2. FileConfigs' = file
    <3>1. \A a \in FromFile : configs'[a] = file[a]
      BY <1>2, Sizes DEF Source
    <3>2. file = [a \in FromFile |-> file[a]]
      BY <1>3 DEF Numbers, Torn
    <3> QED
      BY <3>1, <3>2 DEF FileConfigs
  <2>3. file' = file
    BY DEF Restart
  <2>4. ConfigsInv'
    BY <1>3, <2>1, <2>2, <2>3 DEF ConfigsInv
  <2>5. WrittenInv'
    BY <2>2, <2>3 DEF WrittenInv
  <2> QED
    BY <1>2, <2>1, <2>4, <2>5, Nobody
<1> QED
  BY <1>5, <1>6, <1>7 DEF FileInv

LEMMA InitKeeps == Init => IInv
<1> SUFFICES ASSUME Init PROVE IInv
  OBVIOUS
<1>1. /\ issued = [a \in Accounts |-> 1] /\ configs = issued
      /\ cached = [a \in Accounts |-> 0]
      /\ storeToken = [a \in FromStore |-> issued[a]]
      /\ file = [a \in FromFile |-> issued[a]] /\ tmp = Absent
      /\ pc = [g \in Goroutines |-> "none"] /\ at = [g \in Goroutines |-> 1]
      /\ seen = [g \in Goroutines |-> 0] /\ found = [g \in Goroutines |-> 0]
      /\ writesTo = [g \in Goroutines |-> "none"]
      /\ overtaken = [g \in Goroutines |-> 0]
      /\ shared = FALSE /\ failed = FALSE /\ crashes = 0
  BY DEF Init
<1>2. /\ 1 \in 1 .. MaxIssued /\ 1 \in 1 .. N + 1 /\ 0 \in 0 .. MaxIssued
      /\ 0 \in -1 .. MaxIssued /\ 0 \in 0 .. MaxOvertaken /\ 0 \in 0 .. MaxCrashes
      /\ 1 # NotLoaded
  BY Sizes DEF NotLoaded
<1>3. FileConfigs = file /\ file \in Numbers(FromFile)
  BY <1>1, <1>2, Sizes DEF FileConfigs, Numbers
<1>4. TypeOK
  <2>1. issued \in Numbers(Accounts) /\ storeToken \in Numbers(FromStore)
    BY <1>1, <1>2, Sizes DEF Numbers
  <2>2. /\ configs \in [Accounts -> {NotLoaded} \cup 1 .. MaxIssued]
        /\ cached \in [Accounts -> 0 .. MaxIssued]
    BY <1>1, <1>2
  <2>3. /\ pc \in [Goroutines -> Places]
        /\ at \in [Goroutines -> 1 .. N + 1]
        /\ \A g \in Goroutines : pc[g] \notin Loop
    BY <1>1, <1>2 DEF Places, Loop
  <2>4. /\ seen \in [Goroutines -> -1 .. MaxIssued]
        /\ found \in [Goroutines -> 0 .. MaxIssued]
        /\ writesTo \in [Goroutines -> {"none", "tmp", "file"}]
        /\ overtaken \in [Goroutines -> 0 .. MaxOvertaken]
    BY <1>1, <1>2
  <2>5. file \in Numbers(FromFile) \cup {Torn} /\ tmp \in Numbers(FromFile) \cup {Torn, Absent}
    BY <1>1, <1>3
  <2>6. shared \in BOOLEAN /\ failed \in BOOLEAN /\ crashes \in 0 .. MaxCrashes
    BY <1>1, <1>2
  <2> QED
    BY <2>1, <2>2, <2>3, <2>4, <2>5, <2>6 DEF TypeOK, Places, Loop
<1>5. LoadedInv /\ AssignInv
  BY <1>1 DEF LoadedInv, AssignInv
<1>6. ShareInv
  <2>1. Reading = {}
    BY <1>1 DEF Reading
  <2>2. ConfigsInv /\ WrittenInv
    BY <1>3, <2>1 DEF ConfigsInv, WrittenInv
  <2>3. OpenInv /\ TmpInv /\ RobbedInv
    BY <1>1 DEF OpenInv, TmpInv, RobbedInv, Robbed
  <2> QED
    BY <2>2, <2>3 DEF ShareInv
<1> QED
  BY <1>4, <1>5, <1>6 DEF IInv, FileInv

LEMMA FileStep == FileInv /\ [Next]_vars => FileInv'
<1> SUFFICES ASSUME FileInv, [Next]_vars PROVE FileInv'
  OBVIOUS
<1>1. ASSUME NEW ok \in SUBSET Accounts, NEW new \in SUBSET ok, RefreshCache(ok, new)
      PROVE  FileInv'
  BY <1>1, RefreshKeeps
<1>2. ASSUME NEW g \in Goroutines, Persist(g) PROVE FileInv'
  BY <1>2, CopyKeeps, CompareKeeps, StoreKeeps, AssignKeeps, CollectKeeps, CreateKeeps,
     WriteKeeps, WriteFailsKeeps, RenameKeeps, RemoveKeeps DEF Persist
<1>3. CASE Restart
  BY <1>3, RestartKeeps
<1>4. CASE UNCHANGED vars
  <2>1. UNCHANGED <<issued, configs, cached, storeToken, file, tmp, pc, at, seen, found,
                    writesTo, overtaken, shared, failed, crashes>>
    BY <1>4 DEF vars, persistVars
  <2>2. TypeOK' /\ LoadedInv'
    BY <2>1 DEF FileInv, TypeOK, LoadedInv
  <2>3. FileConfigs' = FileConfigs /\ Reading' = Reading /\ Active' = Active
    BY <2>1 DEF FileConfigs, Reading, Active
  <2>4. ConfigsInv' /\ OpenInv' /\ TmpInv' /\ WrittenInv'
    BY <2>1, <2>3 DEF FileInv, ShareInv, ConfigsInv, OpenInv, TmpInv, WrittenInv
  <2>5. RobbedInv'
    BY <2>1, <2>3 DEF FileInv, ShareInv, RobbedInv, Robbed, Good
  <2> QED
    BY <2>2, <2>4, <2>5 DEF FileInv, ShareInv
<1> QED
  BY <1>1, <1>2, <1>3, <1>4, Zenon DEF Next

LEMMA FileInvariant == Spec => []FileInv
<1>1. Init => FileInv
  BY InitKeeps DEF IInv
<1> QED
  BY <1>1, FileStep, PTL DEF Spec

-----------------------------------------------------------------------------
\* The write-back (token_manager.go:406-565) keeps its types.
THEOREM TypeCorrect == Spec => []TypeOK
<1>1. FileInv => TypeOK
  BY DEF FileInv
<1> QED
  BY <1>1, FileInvariant, PTL

\* When no goroutine is at work and no write has failed, the config file has
\* the refresh tokens the pool uses (token_manager.go:439-440, 530-565),
\* however many goroutines have shared the temporary file.
THEOREM FilePersistedHolds == Spec => []FilePersisted
<1>1. FileInv => FilePersisted
  <2> SUFFICES ASSUME FileInv, Active = {}, ~failed, NEW a \in FromFile
               PROVE  Source(a) = configs[a]
    BY DEF FilePersisted, Persisted
  <2>1. file = FileConfigs
    BY DEF FileInv, ShareInv, WrittenInv
  <2>2. Source(a) = file[a]
    BY DEF Source, FromFile
  <2> QED
    BY <2>1, <2>2 DEF FileConfigs
<1> QED
  BY <1>1, FileInvariant, PTL

(* What becomes the config file.                                            *)
\* The step of a goroutine that does not open the temporary file keeps it to
\* itself if it has it.
LEMMA StaysAlone ==
    ASSUME WriteInv, NEW g \in Goroutines, NEW p, pc' = [pc EXCEPT ![g] = p],
           shared' = shared,
           p \in {"write", "rename", "remove"} => g \in Using,
           ~shared /\ g \in Using /\ p \in {"write", "rename", "remove"} =>
               /\ p = "write" => writesTo'[g] = "tmp"
               /\ p = "rename" => tmp' = FileConfigs',
           ~shared /\ g \notin Using /\ Using # {} =>
               UNCHANGED <<writesTo, tmp>> /\ FileConfigs' = FileConfigs
    PROVE  AloneInv'
<1>1. TypeOK /\ AloneInv
  BY DEF WriteInv, FileInv
<1>2. \A h \in Goroutines : pc'[h] = IF h = g THEN p ELSE pc[h]
  BY <1>1, Gone
<1>3. Using' \subseteq Using
  BY <1>2 DEF Using
<1> SUFFICES ASSUME ~shared, NEW h \in Using'
             PROVE  /\ Using' = {h}
                    /\ pc'[h] = "write" => writesTo'[h] = "tmp"
                    /\ pc'[h] = "rename" => tmp' = FileConfigs'
  BY DEF AloneInv
<1>4. /\ h \in Using /\ Using = {h} /\ h \in Goroutines
      /\ pc[h] = "write" => writesTo[h] = "tmp"
      /\ pc[h] = "rename" => tmp = FileConfigs
  BY <1>1, <1>3 DEF AloneInv, Using
<1>5. Using' = {h}
  BY <1>3, <1>4
<1>6. CASE h = g
  <2>1. p \in {"write", "rename", "remove"}
    BY <1>2, <1>6 DEF Using
  <2> QED
    BY <1>2, <1>4, <1>5, <1>6, <2>1
<1>7. CASE h # g
  BY <1>2, <1>4, <1>5, <1>7
<1> QED
  BY <1>6, <1>7

LEMMA AloneStep ==
    ASSUME WriteInv, [Next]_vars
    PROVE  AloneInv'
<1>1. FileInv /\ TypeOK /\ AloneInv
  BY DEF WriteInv, FileInv
<1>2. ASSUME Using' = {} PROVE AloneInv'
  BY <1>2 DEF AloneInv
<1>3. ASSUME NEW ok \in SUBSET Accounts, NEW new \in SUBSET ok, RefreshCache(ok, new)
      PROVE  AloneInv'
  <2>1. \A g \in Goroutines : pc[g] \notin {"write", "rename", "remove"}
    BY <1>3 DEF RefreshCache, Unlocked, Reading
  <2>2. \A g \in Goroutines : pc'[g] = pc[g] \/ pc'[g] = "copy"
    BY <1>1, <1>3 DEF RefreshCache, TypeOK
  <2>3. Using' = {}
    BY <2>1, <2>2 DEF Using
  <2> QED
    BY <2>3, <1>2
<1>4. ASSUME NEW g \in Goroutines, CopyConfig(g) PROVE AloneInv'
  <2>1. /\ pc' = [pc EXCEPT ![g] = "compare"] /\ g \notin Using
        /\ UNCHANGED <<configs, writesTo, tmp, shared>> /\ FileConfigs' = FileConfigs
    BY <1>4 DEF CopyConfig, Goto, Using, FileConfigs
  <2> QED
    BY <2>1, StaysAlone
<1>5. ASSUME NEW g \in Goroutines, CompareCached(g) PROVE AloneInv'
  <2>1. /\ pc[g] = "compare" /\ g \notin Using
        /\ UNCHANGED <<configs, writesTo, tmp, shared>> /\ FileConfigs' = FileConfigs
    BY <1>5 DEF CompareCached, Using, FileConfigs
  <2>2. PICK p \in {"copy", "collect", "store", "assign"} : pc' = [pc EXCEPT ![g] = p]
    BY <1>5 DEF CompareCached, NextTurn, Goto
  <2> QED
    BY <2>1, <2>2, StaysAlone
<1>6. ASSUME NEW g \in Goroutines, PersistToStore(g) PROVE AloneInv'
  <2>1. /\ pc' = [pc EXCEPT ![g] = "assign"] /\ g \notin Using
        /\ UNCHANGED <<configs, writesTo, tmp, shared>> /\ FileConfigs' = FileConfigs
    BY <1>6 DEF PersistToStore, Goto, Using, FileConfigs
  <2> QED
    BY <2>1, StaysAlone
<1>7. ASSUME NEW g \in Goroutines, AssignConfig(g) PROVE AloneInv'
  <2>1. /\ g \notin Using /\ Using = {} /\ shared' = shared
    BY <1>7 DEF AssignConfig, Unlocked, Reading, Using
  <2>2. PICK p \in {"copy", "collect"} : pc' = [pc EXCEPT ![g] = p]
    BY <1>7 DEF AssignConfig, NextTurn, Goto
  <2> QED
    BY <2>1, <2>2, StaysAlone
<1>8. ASSUME NEW g \in Goroutines, Collect(g) PROVE AloneInv'
  <2>1. /\ g \notin Using
        /\ UNCHANGED <<configs, writesTo, tmp, shared>> /\ FileConfigs' = FileConfigs
    BY <1>8 DEF Collect, Using, FileConfigs
  <2>2. PICK p \in {"none", "create"} : pc' = [pc EXCEPT ![g] = p]
    BY <1>8 DEF Collect, End, Goto
  <2> QED
    BY <2>1, <2>2, StaysAlone
<1>9. ASSUME NEW g \in Goroutines, CreateTemp(g) PROVE AloneInv'
  <2>1. pc[g] = "create" /\ g \notin Using /\ FileConfigs' = FileConfigs
    BY <1>9 DEF CreateTemp, Using, FileConfigs
  <2>2. ASSUME writesTo' = [writesTo EXCEPT ![g] = "tmp"], shared' = (Using # {}),
               Goto(g, "write"), ~shared'
        PROVE  AloneInv'
    <3>1. Using = {}
      BY <2>2, Zenon
    <3>2. /\ \A h \in Goroutines : pc'[h] = IF h = g THEN "write" ELSE pc[h]
          /\ writesTo'[g] = "tmp"
      BY <1>1, <2>2, Gone DEF Goto, TypeOK
    <3>3. Using' = {g}
      BY <3>1, <3>2 DEF Using
    <3> QED
      BY <3>2, <3>3 DEF AloneInv
  <2>3. ASSUME End(g), UNCHANGED <<tmp, writesTo, shared>> PROVE AloneInv'
    BY <2>1, <2>3, StaysAlone DEF End, Goto
  <2>4. shared' => AloneInv'
    BY DEF AloneInv
  <2> QED
    BY <1>9, <2>2, <2>3, <2>4, Zenon DEF CreateTemp
<1>10. ASSUME NEW g \in Goroutines, WriteTemp(g) PROVE AloneInv'
  <2>1. /\ pc' = [pc EXCEPT ![g] = "rename"] /\ g \in Using /\ pc[g] = "write"
        /\ tmp' = IF writesTo[g] = "tmp" THEN FileConfigs ELSE tmp
        /\ shared' = shared /\ FileConfigs' = FileConfigs
    BY <1>10 DEF WriteTemp, Goto, Using, FileConfigs
  <2>2. ~shared => tmp' = FileConfigs'
    BY <1>1, <2>1 DEF AloneInv
  <2> QED
    BY <2>1, <2>2, StaysAlone
<1>11. ASSUME NEW g \in Goroutines, WriteTempFails(g) \/ RemoveTemp(g) PROVE AloneInv'
  <2>1. pc' = [pc EXCEPT ![g] = "none"] /\ g \in Using /\ shared' = shared
    BY <1>11 DEF WriteTempFails, RemoveTemp, End, Goto, Using
  <2> QED
    BY <2>1, StaysAlone
<1>12. ASSUME NEW g \in Goroutines, Rename(g) PROVE AloneInv'
  <2>1. g \in Using /\ shared' = shared
    BY <1>12 DEF Rename, Using
  <2>2. End(g) \/ Goto(g, "remove")
    BY <1>12, Zenon DEF Rename
  <2>3. PICK p \in {"none", "remove"} : pc' = [pc EXCEPT ![g] = p]
    BY <2>2 DEF End, Goto
  <2> QED
    BY <2>1, <2>3, StaysAlone
<1>13. ASSUME Restart PROVE AloneInv'
  <2>1. Using' = {}
    BY <1>13 DEF Restart, Using
  <2> QED
    BY <2>1, <1>2
<1>14. ASSUME UNCHANGED vars PROVE AloneInv'
  BY <1>1, <1>14 DEF vars, persistVars, AloneInv, Using, FileConfigs
<1>15. ASSUME NEW g \in Goroutines, Persist(g) PROVE AloneInv'
  BY <1>4, <1>5, <1>6, <1>7, <1>8, <1>9, <1>10, <1>11, <1>12, <1>15, Zenon DEF Persist
<1> QED
  BY <1>3, <1>13, <1>14, <1>15, Zenon DEF Next

LEMMA WriteInvariant == Spec => []WriteInv
<1>1. Init => AloneInv
  BY DEF Init, AloneInv, Using
<1>2. WriteInv /\ [Next]_vars => AloneInv'
  BY AloneStep
<1>3. WriteInv <=> FileInv /\ AloneInv
  BY DEF WriteInv
<1>4. Init => WriteInv
  BY <1>1, <1>3, InitKeeps DEF IInv
<1>5. WriteInv /\ [Next]_vars => WriteInv'
  BY <1>2, FileStep DEF WriteInv
<1> QED
  BY <1>4, <1>5, PTL DEF Spec

\* What becomes the config file is current, or torn because two goroutines
\* shared the temporary file (token_manager.go:550-560).
LEMMA WritesCurrentStep ==
    ASSUME WriteInv, [Next]_vars, file' # file
    PROVE  file' = FileConfigs \/ (shared /\ file' = Torn)
<1>1. ASSUME NEW g \in Goroutines, WriteTemp(g) PROVE file' = FileConfigs
  BY <1>1 DEF WriteTemp
<1>2. ASSUME NEW g \in Goroutines, Rename(g)
      PROVE  file' = FileConfigs \/ (shared /\ file' = Torn)
  <2>1. pc[g] = "rename" /\ tmp # Absent /\ file' = tmp
    BY <1>2, Zenon DEF Rename
  <2>2. tmp \in {FileConfigs, Absent, Torn}
    BY <2>1 DEF WriteInv, FileInv, ShareInv, TmpInv
  <2>3. ~shared => tmp = FileConfigs
    BY <2>1 DEF WriteInv, AloneInv, Using
  <2> HIDE DEF Torn, Absent, FileConfigs
  <2> QED
    BY <2>1, <2>2, <2>3
<1>3. UNCHANGED vars => file' = file
  BY DEF vars
<1>4. ASSUME NEW ok \in SUBSET Accounts, NEW new \in SUBSET ok, RefreshCache(ok, new)
      PROVE  file' = file
  BY <1>4 DEF RefreshCache
<1>5. Restart => file' = file
  BY DEF Restart
<1>6. ASSUME NEW g \in Goroutines,
             \/ CopyConfig(g) \/ CompareCached(g) \/ PersistToStore(g) \/ AssignConfig(g)
             \/ Collect(g) \/ CreateTemp(g) \/ WriteTempFails(g) \/ RemoveTemp(g)
      PROVE  file' = file
  BY <1>6 DEF CopyConfig, CompareCached, PersistToStore, AssignConfig, Collect, CreateTemp,
              WriteTempFails, RemoveTemp
<1>7. ASSUME NEW g \in Goroutines, Persist(g), ~WriteTemp(g), ~Rename(g)
      PROVE  file' = file
  BY <1>6, <1>7, Zenon DEF Persist
<1>8. ~UNCHANGED vars /\ ~Restart
  BY <1>3, <1>5
<1>9. ~\E ok \in SUBSET Accounts : \E new \in SUBSET ok : RefreshCache(ok, new)
  BY <1>4, Zenon
<1>10. PICK g \in Goroutines : Persist(g)
  BY <1>8, <1>9, Zenon DEF Next
<1> QED
  BY <1>1, <1>2, <1>7, <1>10, Zenon

\* A goroutine that has the temporary file to itself changes the config file
\* from whole to whole and to the tokens the pool uses, whatever fails and
\* wherever the process ends; those that share it leave it current or torn
\* (token_manager.go:530-560).
THEOREM WritesCurrentHolds == Spec => WritesCurrent
<1>1. WriteInv /\ [Next]_vars =>
        [file' # file => file' = FileConfigs \/ (shared /\ file' = Torn)]_vars
  BY WritesCurrentStep
<1> QED
  BY <1>1, WriteInvariant, PTL DEF Spec, WritesCurrent

-----------------------------------------------------------------------------
(* While less than two refreshes come between.                              *)
\* A goroutine goes on, and neither configs nor the cache change.
LEMMA AssignQuiet ==
    ASSUME TypeOK, AssignInv, NEW g \in Goroutines, NEW p,
           pc' = [pc EXCEPT ![g] = p], p \notin {"compare", "store", "assign"},
           \A h \in Goroutines : h # g => at'[h] = at[h],
           UNCHANGED <<configs, cached, seen, found, overtaken>>
    PROVE  AssignInv'
<1>1. \A h \in Goroutines : pc'[h] = IF h = g THEN p ELSE pc[h]
  BY DEF TypeOK
<1> QED
  BY <1>1 DEF AssignInv

LEMMA AssignsWhatIsThere ==
    ASSUME TypeOK, AssignInv, NEW g \in Goroutines, AssignConfig(g)
    PROVE  configs' = configs
<1>1. /\ configs' = [configs EXCEPT ![at[g]] = found[g]] /\ found[g] = configs[at[g]]
      /\ configs \in [Accounts -> {NotLoaded} \cup 1 .. MaxIssued]
  BY DEF AssignConfig, AssignInv, TypeOK
<1> QED
  BY <1>1

LEMMA CompareAssigns ==
    ASSUME TypeOK, AssignInv, NEW g \in Goroutines, CompareCached(g)
    PROVE  AssignInv'
<1>1. /\ pc[g] = "compare" /\ found' = [found EXCEPT ![g] = cached[at[g]]]
      /\ UNCHANGED <<configs, cached, seen, overtaken>>
      /\ at[g] \in Accounts
  BY DEF CompareCached, TypeOK
<1>2. \A h \in Goroutines : found'[h] = IF h = g THEN cached[at[g]] ELSE found[h]
  BY <1>1 DEF TypeOK
<1>3. CASE cached[at[g]] \in {0, seen[g]}
  <2>1. NextTurn(g)
    BY <1>3 DEF CompareCached
  <2>2. PICK p \in {"copy", "collect"} :
          /\ pc' = [pc EXCEPT ![g] = p]
          /\ \A h \in Goroutines : h # g => at'[h] = at[h]
    BY <1>1, <2>1, NextTurnTyped
  <2>3. \A h \in Goroutines : pc'[h] = IF h = g THEN p ELSE pc[h]
    BY <2>2 DEF TypeOK
  <2> QED
    BY <1>1, <1>2, <2>2, <2>3 DEF AssignInv
<1>4. CASE cached[at[g]] \notin {0, seen[g]}
  <2>1. Goto(g, IF at[g] \in FromStore THEN "store" ELSE "assign") /\ at' = at
    BY <1>4 DEF CompareCached
  <2>2. PICK p \in {"store", "assign"} : p = IF at[g] \in FromStore THEN "store" ELSE "assign"
    OBVIOUS
  <2>3. \A h \in Goroutines : pc'[h] = IF h = g THEN p ELSE pc[h]
    BY <2>1, <2>2 DEF Goto, TypeOK
  <2>4. overtaken[g] > 0 /\ cached[at[g]] = configs[at[g]]
    BY <1>1, <1>4 DEF AssignInv
  <2> QED
    BY <1>1, <1>2, <2>1, <2>2, <2>3, <2>4 DEF AssignInv
<1> QED
  BY <1>3, <1>4

LEMMA RefreshAssigns ==
    ASSUME TypeOK, AssignInv, MaxOvertaken <= 1,
           NEW ok \in SUBSET Accounts, NEW new \in SUBSET ok, RefreshCache(ok, new)
    PROVE  AssignInv'
<1>1. \A g \in Goroutines : pc[g] # "none" =>
        /\ overtaken[g] = 0
        /\ overtaken'[g] = 1
  <2>1. /\ \A g \in Active : overtaken[g] < MaxOvertaken
        /\ overtaken' = [g \in Goroutines |-> IF g \in Active THEN overtaken[g] + 1 ELSE 0]
    BY DEF RefreshCache
  <2>2. \A g \in Goroutines : overtaken[g] \in 0 .. MaxOvertaken /\ MaxOvertaken \in Nat
    BY Sizes DEF TypeOK
  <2>3. \A g \in Active : overtaken[g] = 0
    BY <2>1, <2>2 DEF Active
  <2> QED
    BY <2>1, <2>3 DEF Active
<1>2. \A g \in Goroutines : pc[g] \notin {"store", "assign"}
  BY <1>1 DEF AssignInv
<1>3. \A g \in Goroutines : pc'[g] # "copy" => pc'[g] = pc[g]
  BY DEF RefreshCache, TypeOK
<1>4. \A a \in Accounts : cached'[a] \in {0, configs'[a]}
  BY DEF RefreshCache, AssignInv
<1> QED
  BY <1>1, <1>2, <1>3, <1>4 DEF AssignInv

LEMMA AssignStep ==
    ASSUME MaxOvertaken <= 1, IInv, [Next]_vars
    PROVE  AssignInv'
<1>1. TypeOK /\ AssignInv
  BY DEF IInv, FileInv
<1>2. ASSUME NEW ok \in SUBSET Accounts, NEW new \in SUBSET ok, RefreshCache(ok, new)
      PROVE  AssignInv'
  BY <1>1, <1>2, RefreshAssigns
<1>3. ASSUME NEW g \in Goroutines, CopyConfig(g) PROVE AssignInv'
  <2>1. /\ \A h \in Goroutines : pc'[h] = IF h = g THEN "compare" ELSE pc[h]
        /\ \A h \in Goroutines : seen'[h] = IF h = g THEN configs[at[g]] ELSE seen[h]
    BY <1>1, <1>3, Gone DEF CopyConfig, Goto, TypeOK
  <2> QED
    BY <1>1, <1>3, <2>1 DEF CopyConfig, AssignInv
<1>4. ASSUME NEW g \in Goroutines, CompareCached(g) PROVE AssignInv'
  BY <1>1, <1>4, CompareAssigns
<1>5. ASSUME NEW g \in Goroutines, PersistToStore(g) PROVE AssignInv'
  <2>1. \A h \in Goroutines : pc'[h] = IF h = g THEN "assign" ELSE pc[h]
    BY <1>1, <1>5, Gone DEF PersistToStore, Goto
  <2> QED
    BY <1>1, <1>5, <2>1 DEF PersistToStore, AssignInv
<1>6. ASSUME NEW g \in Goroutines, AssignConfig(g) PROVE AssignInv'
  <2>1. pc[g] = "assign" /\ NextTurn(g) /\ UNCHANGED <<configs, cached, seen, found, overtaken>>
    BY <1>1, <1>6, AssignsWhatIsThere DEF AssignConfig
  <2>2. PICK p \in {"copy", "collect"} :
          /\ pc' = [pc EXCEPT ![g] = p]
          /\ \A h \in Goroutines : h # g => at'[h] = at[h]
    BY <1>1, <2>1, NextTurnTyped
  <2>3. p \notin {"compare", "store", "assign"}
    BY <2>2
  <2> QED
    BY <1>1, <2>1, <2>2, <2>3, AssignQuiet, Zenon
<1>7. ASSUME NEW g \in Goroutines,
             \/ Collect(g) \/ CreateTemp(g) \/ WriteTemp(g) \/ WriteTempFails(g)
             \/ Rename(g) \/ RemoveTemp(g)
      PROVE  AssignInv'
  <2>1. /\ at' = at /\ UNCHANGED <<configs, cached, seen, found, overtaken>>
        /\ \E p \in {"none", "create", "write", "rename", "remove"} :
              pc' = [pc EXCEPT ![g] = p]
    <3>1. ASSUME Collect(g) PROVE <2>1!:
      <4>1. End(g) \/ Goto(g, "create")
        BY <3>1 DEF Collect
      <4> QED
        BY <3>1, <4>1 DEF Collect, End, Goto
    <3>2. ASSUME CreateTemp(g) PROVE <2>1!:
      <4>1. End(g) \/ Goto(g, "write")
        BY <3>2, Zenon DEF CreateTemp
      <4> QED
        BY <3>2, <4>1 DEF CreateTemp, End, Goto
    <3>3. ASSUME Rename(g) PROVE <2>1!:
      <4>1. End(g) \/ Goto(g, "remove")
        BY <3>3, Zenon DEF Rename
      <4>2. at' = at /\ UNCHANGED <<configs, cached, seen, found, overtaken>>
        BY <3>3, Zenon DEF Rename
      <4> QED
        BY <4>1, <4>2 DEF End, Goto
    <3>4. ASSUME WriteTemp(g) \/ WriteTempFails(g) \/ RemoveTemp(g) PROVE <2>1!:
      BY <3>4 DEF WriteTemp, WriteTempFails, RemoveTemp, End, Goto
    <3> QED
      BY <1>7, <3>1, <3>2, <3>3, <3>4, Zenon
  <2>2. PICK p \in {"none", "create", "write", "rename", "remove"} : pc' = [pc EXCEPT ![g] = p]
    BY <2>1
  <2>3. p \notin {"compare", "store", "assign"} /\ \A h \in Goroutines : h # g => at'[h] = at[h]
    BY <2>1, <2>2
  <2> QED
    BY <1>1, <2>1, <2>2, <2>3, AssignQuiet, Zenon
<1>8. ASSUME Restart PROVE AssignInv'
  BY <1>8 DEF Restart, AssignInv
<1>9. ASSUME UNCHANGED vars PROVE AssignInv'
  BY <1>1, <1>9 DEF vars, persistVars, AssignInv
<1>10. ASSUME NEW g \in Goroutines, Persist(g) PROVE AssignInv'
  BY <1>3, <1>4, <1>5, <1>6, <1>7, <1>10, Zenon DEF Persist
<1> QED
  BY <1>2, <1>8, <1>9, <1>10, Zenon DEF Next

LEMMA NeverBackStep ==
    ASSUME IInv, [Next]_vars, crashes' = crashes, NEW a \in Accounts
    PROVE  configs'[a] >= configs[a]
<1>1. /\ TypeOK /\ AssignInv /\ configs[a] \in Int /\ issued[a] \in Nat /\ crashes \in Nat
      /\ configs' = configs => configs'[a] >= configs[a]
  <2>1. TypeOK /\ AssignInv /\ MaxIssued \in Nat /\ MaxCrashes \in Nat
    BY Sizes DEF IInv, FileInv
  <2>2. configs[a] \in {NotLoaded} \cup 1 .. MaxIssued /\ issued[a] \in 1 .. MaxIssued
    BY <2>1 DEF TypeOK, Numbers
  <2>3. configs[a] \in Int /\ issued[a] \in Nat
    BY <2>1, <2>2 DEF NotLoaded
  <2>4. crashes \in Nat
    BY <2>1 DEF TypeOK
  <2> QED
    BY <2>1, <2>3, <2>4
<1>2. ASSUME NEW ok \in SUBSET Accounts, NEW new \in SUBSET ok, RefreshCache(ok, new)
      PROVE  configs'[a] >= configs[a]
  BY <1>1, <1>2 DEF RefreshCache, Accepted
<1>3. ASSUME NEW g \in Goroutines, Persist(g) PROVE configs' = configs
  <2>1. ASSUME \/ CopyConfig(g) \/ CompareCached(g) \/ PersistToStore(g) \/ Collect(g)
               \/ CreateTemp(g) \/ WriteTemp(g) \/ WriteTempFails(g) \/ RemoveTemp(g)
        PROVE  configs' = configs
    BY <2>1 DEF CopyConfig, CompareCached, PersistToStore, Collect, CreateTemp, WriteTemp,
                WriteTempFails, RemoveTemp
  <2>2. ASSUME Rename(g) PROVE configs' = configs
    BY <2>2, Zenon DEF Rename
  <2>3. ASSUME AssignConfig(g) PROVE configs' = configs
    BY <1>1, <2>3, AssignsWhatIsThere
  <2> QED
    BY <1>3, <2>1, <2>2, <2>3, Zenon DEF Persist
<1>4. ~Restart
  BY <1>1 DEF Restart
<1>5. UNCHANGED vars => configs' = configs
  BY DEF vars
<1> QED
  BY <1>1, <1>2, <1>3, <1>4, <1>5, Zenon DEF Next

\* While less than two refreshes come between the steps of a goroutine, the
\* pool never goes back to a refresh token that is void
\* (token_manager.go:449-486).
THEOREM NeverBackHolds == ASSUME MaxOvertaken <= 1 PROVE Spec => NeverBack
<1>1. Init => IInv
  BY InitKeeps
<1>2. IInv /\ [Next]_vars => IInv'
  BY FileStep, AssignStep DEF IInv
<1>3. IInv /\ [Next]_vars =>
        [crashes' = crashes => \A a \in Accounts : configs'[a] >= configs[a]]_vars
  BY NeverBackStep
<1> QED
  BY <1>1, <1>2, <1>3, PTL DEF Spec, NeverBack
=============================================================================
