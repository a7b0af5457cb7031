---------------------------- MODULE CredentialStore ----------------------------
(***************************************************************************)
(* Store (store/store.go): the accounts, sessions and password of the web  *)
(* administration, kept in memory and in one JSON file, as the handlers of *)
(* server/admin_handlers.go drive it.                                      *)
(*                                                                         *)
(* s.mu is held from the change in memory to the end of the save, so no    *)
(* two operations overlap; what can come between the steps of a save is a  *)
(* failing system call or the end of the process.  An operation that finds *)
(* no token of its id changes nothing and is left out, and so are the      *)
(* fields of a token that nothing here depends on, with UpdateTokenStatus, *)
(* which sets nothing else and has no caller.                              *)
(***************************************************************************)
EXTENDS Integers, Sequences, FiniteSets
LOCAL INSTANCE SequencesExt

CONSTANTS
    Ids,               (* token ids, generated or given by the caller      *)
    Credentials,       (* refresh tokens                                   *)
    NoCredential,      (* the empty one                                    *)
    SessionTokens,     (* session tokens                                   *)
    Passwords,         (* administration passwords                         *)
    DefaultPassword,   (* "admin"                                          *)
    MaxTokens          (* bound: accounts in the store                     *)

ASSUME StoreAssumption ==
    /\ NoCredential \notin Credentials
    /\ DefaultPassword \in Passwords
    /\ MaxTokens \in Nat

Token == [id: Ids, credential: Credentials, disabled: BOOLEAN]
Given == [id: Ids, credential: Credentials \cup {NoCredential}, disabled: BOOLEAN]

VARIABLES
    data,              (* s.data: the tokens in order, the sessions, the   *)
                       (* administration password                          *)
    file,              (* what the file holds                              *)
    tmp,               (* what the temporary file holds                    *)
    pc,                (* where the process is in an operation             *)
    saved,             (* the save of this operation succeeded             *)
    promised           (* the data as of the last operation whose caller   *)
                       (* was told that it is saved; for the properties    *)
storeVars == <<data, file, tmp, pc, saved, promised>>

DefaultData == [tokens |-> <<>>, sessions |-> {}, password |-> DefaultPassword]

\* A file that holds all of the data, one that does not exist (the process
\* starts with the default data then), and one with part of the JSON text.
Whole(d) == [state |-> "whole", data |-> d]
Absent == [state |-> "absent", data |-> DefaultData]
Torn == [state |-> "torn", data |-> DefaultData]

Init ==
    /\ data = DefaultData
    /\ file = Absent
    /\ tmp = Absent
    /\ pc = "down"
    /\ saved = FALSE
    /\ promised = DefaultData

-----------------------------------------------------------------------------
(* InitStore and the end of the process, at any point.                      *)
Load ==
    /\ pc = "down"
    /\ data' = file.data
    /\ pc' = IF file = Absent THEN "create" ELSE "idle"
    /\ saved' = FALSE
    /\ promised' = file.data
    /\ UNCHANGED <<file, tmp>>

\* What was in memory is kept to the next start for PromiseKept only.
Crash ==
    /\ pc # "down"
    /\ pc' = "down"
    /\ UNCHANGED <<data, file, tmp, saved, promised>>

-----------------------------------------------------------------------------
(* The operations, up to saveUnsafe.                                        *)
Change(new) ==
    /\ pc = "idle"
    /\ Len(new.tokens) <= MaxTokens
    /\ data' = new
    /\ pc' = "create"
    /\ saved' = FALSE
    /\ UNCHANGED <<file, tmp, promised>>

ChangeTokens(tokens) == Change([data EXCEPT !.tokens = tokens])

\* The first token of an id, as the loops over s.data.Tokens find it.
Known(id) == \E k \in 1 .. Len(data.tokens) : data.tokens[k].id = id
First(id) == SelectInSeq(data.tokens, LAMBDA t : t.id = id)

AddToken(token) == ChangeTokens(Append(data.tokens, token))

\* A field that is empty in the request is left alone, except Disabled.
Updated(token, updates) ==
    [token EXCEPT !.credential = IF updates.credential = NoCredential THEN @
                                 ELSE updates.credential,
                  !.disabled = updates.disabled]
UpdateToken(id, updates) ==
    /\ Known(id)
    /\ ChangeTokens([data.tokens EXCEPT ![First(id)] = Updated(@, updates)])

DeleteToken(id) == Known(id) /\ ChangeTokens(RemoveAt(data.tokens, First(id)))

ToggleToken(id) ==
    /\ Known(id)
    /\ ChangeTokens([data.tokens EXCEPT ![First(id)].disabled = ~@])

\* Those of the tokens that are in a set, in their order.
Among(tokens, S) ==
    LET kept[k \in 0 .. Len(tokens)] ==
            IF k = 0 THEN <<>>
            ELSE IF tokens[k] \in S THEN Append(kept[k - 1], tokens[k]) ELSE kept[k - 1]
    IN  kept[Len(tokens)]

\* Broken: takes tokens without a credential.
ValidAll(tokens) == tokens
Valid(tokens) == Among(tokens, {t \in Given : t.credential # NoCredential})

BatchAddTokens(tokens) ==
    /\ Valid(tokens) # <<>>
    /\ ChangeTokens(data.tokens \o Valid(tokens))

\* The three modes of ImportConfig.  What is there already is told by its
\* credential, and looked up before the import begins; the last of several
\* with one credential is the one that is updated.
Holders(credential) ==
    {k \in 1 .. Len(data.tokens) : data.tokens[k].credential = credential}
Unheld(tokens) == Among(Valid(tokens), {t \in Token : Holders(t.credential) = {}})
UpdatesFor(k, tokens) ==
    Among(Valid(tokens), {t \in Token :
        k \in Holders(t.credential) /\ \A j \in Holders(t.credential) : j <= k})
Imported(tokens, mode) ==
    CASE mode = "replace" -> Valid(tokens)
      [] mode = "merge"   -> data.tokens \o Unheld(tokens)
      [] mode = "update"  ->
            [k \in 1 .. Len(data.tokens) |->
                IF UpdatesFor(k, tokens) = <<>> THEN data.tokens[k]
                ELSE [data.tokens[k] EXCEPT
                         !.disabled = Last(UpdatesFor(k, tokens)).disabled]]
            \o Unheld(tokens)
ImportConfig(tokens, mode) == ChangeTokens(Imported(tokens, mode))

ClearAllTokens == ChangeTokens(<<>>)

CreateSession(token) == Change([data EXCEPT !.sessions = @ \cup {token}])
\* DeleteSession, and CleanExpiredSessions when some have expired.
DropSessions(tokens) ==
    /\ tokens # {} /\ tokens \subseteq data.sessions
    /\ Change([data EXCEPT !.sessions = @ \ tokens])

UpdateAdminPassword(password) == Change([data EXCEPT !.password = password])

-----------------------------------------------------------------------------
(* saveUnsafe: the temporary file is created or emptied, written, renamed.  *)
(* Any of the three calls may fail, which ends the save.                    *)
CreateTemp ==
    /\ pc = "create"
    /\ \/ tmp' = Torn /\ pc' = "write"
       \/ tmp' = tmp /\ pc' = "reply"
    /\ UNCHANGED <<data, file, saved, promised>>

WriteTemp ==
    /\ pc = "write"
    /\ \/ tmp' = Whole(data) /\ pc' = "rename"
       \/ tmp' = Torn /\ pc' = "reply"
    /\ UNCHANGED <<data, file, saved, promised>>

Rename ==
    /\ pc = "rename"
    /\ \/ file' = tmp /\ saved' = TRUE
       \/ UNCHANGED <<file, saved>>
    /\ tmp' = Absent
    /\ pc' = "reply"
    /\ UNCHANGED <<data, promised>>

\* Broken: the result of the save is not looked at.
AcknowledgedAnyway == TRUE

\* The caller is told that the change is saved.  The operations that do not
\* look at the result of saveUnsafe (sessions, import, clearing) tell nothing
\* of the file, whatever came of it.
Acknowledged == saved

Reply ==
    /\ pc = "reply"
    /\ promised' = IF Acknowledged THEN data ELSE promised
    /\ pc' = "idle"
    /\ UNCHANGED <<data, file, tmp, saved>>

Operation ==
    \/ \E t \in Token : AddToken(t)
    \/ \E id \in Ids, t \in Given : UpdateToken(id, t)
    \/ \E id \in Ids : DeleteToken(id) \/ ToggleToken(id)
    \/ \E tokens \in SeqOf(Given, MaxTokens) :
          \/ BatchAddTokens(tokens)
          \/ \E mode \in {"merge", "update", "replace"} : ImportConfig(tokens, mode)
    \/ ClearAllTokens
    \/ \E s \in SessionTokens : CreateSession(s)
    \/ \E S \in SUBSET SessionTokens : DropSessions(S)
    \/ \E p \in Passwords : UpdateAdminPassword(p)

Next == Load \/ Crash \/ Operation \/ CreateTemp \/ WriteTemp \/ Rename \/ Reply

Spec == Init /\ [][Next]_storeVars

-----------------------------------------------------------------------------
Data == [tokens: Seq(Token), sessions: SUBSET SessionTokens, password: Passwords]

TypeOK ==
    /\ data \in Data
    /\ file \in [state: {"whole", "absent"}, data: Data]
    /\ tmp \in [state: {"whole", "absent", "torn"}, data: Data]
    /\ pc \in {"down", "idle", "create", "write", "rename", "reply"}
    /\ saved \in BOOLEAN
    /\ promised \in Data

(* What a caller was told is saved is what the process finds when it comes *)
(* back, wherever it stopped and whatever failed: the file holds the last  *)
(* promised data, or the data of an operation that was saved and not yet   *)
(* answered.  It never holds part of the text (store.go:133-153, where the *)
(* comment calls the write atomic).                                        *)
PromiseKept ==
    \/ file = Whole(promised)
    \/ file = Absent /\ promised = DefaultData
    \/ pc \in {"reply", "down"} /\ saved /\ file = Whole(data)
=============================================================================
