------------------------------ MODULE SSEState ------------------------------
(***************************************************************************)
(* SSEStateManager (server/sse_state_manager.go): the filter every event   *)
(* of a /v1/messages stream passes through on its way to the client.       *)
(*                                                                         *)
(* The handlers are total, as in the code: an event that breaks a rule is  *)
(* refused (strict mode returns an error, the production mode drops it),   *)
(* repaired (a missing start or stop is sent first) or let through.        *)
(* `client` is not state of the manager: it is the receiving end, updated  *)
(* by every event the manager sends.                                       *)
(*                                                                         *)
(* The sender never fails here: AnthropicStreamSender ignores write errors *)
(* (server/common.go), so a client that goes away just stops receiving.    *)
(***************************************************************************)
EXTENDS ClientView

CONSTANT StrictMode    (* strictMode of NewSSEStateManager                 *)

ASSUME StrictModeAssumption == StrictMode \in BOOLEAN

VARIABLES
    messageStarted,    (* message_start has been sent                      *)
    messageDeltaSent,  (* message_delta has been sent                      *)
    messageEnded,      (* message_stop has been sent                       *)
    activeBlocks,      (* what the manager believes of every block index   *)
    nextBlockIndex,    (* index given to a start that names none           *)
    client             (* what the client has seen, see ClientView         *)

ssmVars == <<messageStarted, messageDeltaSent, messageEnded, activeBlocks,
             nextBlockIndex, client>>

\* A missing map entry is the block of type "none"; entries are created
\* started, so `Started` is "type # none".
NoBlock == [type |-> "none", stopped |-> FALSE]
BlockState == [type: BlockTypes \cup {"none"}, stopped: BOOLEAN]

Exists(i) == activeBlocks[i].type # "none"
Unclosed == {i \in Index : Exists(i) /\ ~activeBlocks[i].stopped}
UnclosedText == {i \in Unclosed : activeBlocks[i].type = "text"}

Init ==
    /\ messageStarted = FALSE
    /\ messageDeltaSent = FALSE
    /\ messageEnded = FALSE
    /\ activeBlocks = [i \in Index |-> NoBlock]
    /\ nextBlockIndex = 0
    /\ client = NewClient

\* activeBlocks after the blocks of S are marked stopped.
Stopped(S) ==
    [i \in Index |-> IF i \in S THEN [activeBlocks[i] EXCEPT !.stopped = TRUE]
                                ELSE activeBlocks[i]]

-----------------------------------------------------------------------------
HandleMessageStart ==
    \/ /\ messageStarted
       /\ UNCHANGED ssmVars
    \/ /\ ~messageStarted
       /\ messageStarted' = TRUE
       /\ client' = ReceiveMessageStart(client)
       /\ UNCHANGED <<messageDeltaSent, messageEnded, activeBlocks, nextBlockIndex>>

\* Broken: forgets that the block may be open.
StartRefusedOnlyAtEnd(i) == messageEnded \/ (StrictMode /\ ~messageStarted)

\* A start is refused after message_stop, for a block that is open, and, in
\* strict mode only, before message_start.
StartRefused(i) ==
    \/ messageEnded
    \/ i \in Unclosed
    \/ StrictMode /\ ~messageStarted

\* Text blocks that a starting block of type t closes first.
ClosedByStart(t) == IF t = "tool_use" THEN UnclosedText ELSE {}

\* The client after an accepted start: the auto-close stops, then the start.
ClientAfterStart(i, t) ==
    ReceiveBlockStart(ReceiveBlockStops(client, ClosedByStart(t)), i, t)

\* Broken: the auto-closed text blocks are not marked, the index counts the
\* starts, or it is not moved past an index the caller chose.
AcceptStartUnmarked(i, t) ==
    /\ activeBlocks' = [activeBlocks EXCEPT ![i] = [type |-> t, stopped |-> FALSE]]
    /\ nextBlockIndex' = IF i >= nextBlockIndex THEN i + 1 ELSE nextBlockIndex
    /\ UNCHANGED <<messageStarted, messageDeltaSent, messageEnded>>
AcceptStartCounting(i, t) ==
    /\ activeBlocks' = [Stopped(ClosedByStart(t)) EXCEPT
                           ![i] = [type |-> t, stopped |-> FALSE]]
    /\ nextBlockIndex' = nextBlockIndex + 1
    /\ UNCHANGED <<messageStarted, messageDeltaSent, messageEnded>>
AcceptStartBehind(i, t) ==
    /\ activeBlocks' = [Stopped(ClosedByStart(t)) EXCEPT
                           ![i] = [type |-> t, stopped |-> FALSE]]
    /\ nextBlockIndex' = IF i > nextBlockIndex THEN i + 1 ELSE nextBlockIndex
    /\ UNCHANGED <<messageStarted, messageDeltaSent, messageEnded>>

AcceptStart(i, t) ==
    /\ activeBlocks' = [Stopped(ClosedByStart(t)) EXCEPT
                           ![i] = [type |-> t, stopped |-> FALSE]]
    /\ nextBlockIndex' = IF i >= nextBlockIndex THEN i + 1 ELSE nextBlockIndex
    /\ UNCHANGED <<messageStarted, messageDeltaSent, messageEnded>>

HandleContentBlockStart(i, t) ==
    \/ /\ StartRefused(i)
       /\ UNCHANGED ssmVars
    \/ /\ ~StartRefused(i)
       /\ AcceptStart(i, t)
       /\ client' = ClientAfterStart(i, t)

\* An event without a usable index starts the next block.  The guard is the
\* bound MaxIndex of the model.
HandleContentBlockStartNoIndex(t) ==
    /\ nextBlockIndex \in Index
    /\ HandleContentBlockStart(nextBlockIndex, t)

\* The type a block gets when a delta arrives for it first.
InferredType(d) == IF d = "input_json_delta" THEN "tool_use" ELSE "text"

\* A delta for an unknown block runs the start handler first; what the start
\* handler refuses depends on the mode: strict returns its error, otherwise
\* the delta still goes out, without a start.
HandleContentBlockDelta(i, d) ==
    \/ /\ Exists(i)
       /\ IF activeBlocks[i].stopped
          THEN UNCHANGED ssmVars
          ELSE /\ client' = ReceiveBlockDelta(client, i, d)
               /\ UNCHANGED <<messageStarted, messageDeltaSent, messageEnded,
                              activeBlocks, nextBlockIndex>>
    \/ /\ ~Exists(i)
       /\ ~StartRefused(i)
       /\ AcceptStart(i, InferredType(d))
       /\ client' = ReceiveBlockDelta(ClientAfterStart(i, InferredType(d)), i, d)
    \/ /\ ~Exists(i)
       /\ StartRefused(i)
       /\ client' = IF StrictMode THEN client ELSE ReceiveBlockDelta(client, i, d)
       /\ UNCHANGED <<messageStarted, messageDeltaSent, messageEnded,
                      activeBlocks, nextBlockIndex>>

\* Stops for all the blocks of S that are open; the others are refused.
StopBlocks(S) ==
    /\ activeBlocks' = Stopped(S \cap Unclosed)
    /\ client' = ReceiveBlockStops(client, S \cap Unclosed)
    /\ UNCHANGED <<messageStarted, messageDeltaSent, messageEnded, nextBlockIndex>>

HandleContentBlockStop(i) == StopBlocks({i})

\* Broken: the production mode closes none either.
ClosedByNothing == {}

\* Blocks that handleMessageDelta closes first; strict mode only counts them.
ClosedByMessageDelta == IF StrictMode THEN {} ELSE Unclosed

HandleMessageDelta ==
    \/ /\ messageDeltaSent \/ (StrictMode /\ ~messageStarted)
       /\ UNCHANGED ssmVars
    \/ /\ ~messageDeltaSent
       /\ StrictMode => messageStarted
       /\ messageDeltaSent' = TRUE
       /\ activeBlocks' = Stopped(ClosedByMessageDelta)
       /\ client' = ReceiveMessageDelta(
                        ReceiveBlockStops(client, ClosedByMessageDelta))
       /\ UNCHANGED <<messageStarted, messageEnded, nextBlockIndex>>

HandleMessageStop ==
    \/ /\ messageEnded \/ (StrictMode /\ ~messageStarted)
       /\ UNCHANGED ssmVars
    \/ /\ ~messageEnded
       /\ StrictMode => messageStarted
       /\ messageEnded' = TRUE
       /\ client' = ReceiveMessageStop(client)
       /\ UNCHANGED <<messageStarted, messageDeltaSent, activeBlocks, nextBlockIndex>>

-----------------------------------------------------------------------------
\* The manager on its own promises its guarantees to any caller, so the
\* caller may send any event at any time.
Next ==
    \/ HandleMessageStart
    \/ \E i \in Index, t \in BlockTypes : HandleContentBlockStart(i, t)
    \/ \E t \in BlockTypes : HandleContentBlockStartNoIndex(t)
    \/ \E i \in Index, d \in DeltaTypes : HandleContentBlockDelta(i, d)
    \/ \E i \in Index : HandleContentBlockStop(i)
    \/ HandleMessageDelta
    \/ HandleMessageStop

Spec == Init /\ [][Next]_ssmVars

-----------------------------------------------------------------------------
TypeOK ==
    /\ messageStarted \in BOOLEAN
    /\ messageDeltaSent \in BOOLEAN
    /\ messageEnded \in BOOLEAN
    /\ activeBlocks \in [Index -> BlockState]
    /\ nextBlockIndex \in 0 .. MaxIndex + 1
    /\ client \in ClientType

\* What the manager believes of every block and of the message is what the
\* client has seen: no event is sent without being booked, none is booked
\* without being sent, through every auto-start and auto-close path
\* (sse_state_manager.go:145-170, 218-260, 341-365).
ViewOf(b) == IF b.type = "none" THEN "absent"
             ELSE IF b.stopped THEN "closed" ELSE b.type

Agreement ==
    /\ client.started = messageStarted
    /\ client.deltaSent = messageDeltaSent
    /\ client.ended = messageEnded
    /\ \A i \in Index : client.block[i] = ViewOf(activeBlocks[i])

\* Whatever the caller does, the client never sees a message event twice, a
\* second start for an open block, or a stop for a block that is not open
\* (sse_state_manager.go:76, 119, 292, 301, 328, 383).
NeverRepeated == client.faults \cap {"twice", "reopen", "orphan_stop"} = {}

\* In the mode production runs (strictMode = false) no message_delta reaches
\* the client while a block is open, whoever opened it and whenever
\* (sse_state_manager.go:341-365).
ClosedBeforeMessageDelta == ~StrictMode => "unclosed" \notin client.faults

\* The index kept for a start that names none is above every index in use,
\* so such a start never collides with a block (sse_state_manager.go:114, 190).
FreshIndex == \A i \in Index : Exists(i) => i < nextBlockIndex
=============================================================================
