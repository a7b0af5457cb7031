--------------------------- MODULE StreamPipeline ---------------------------
(***************************************************************************)
(* One streaming request from the upstream's messages to the client: the   *)
(* message handlers and the thinking context of the parser                 *)
(* (parser/message_event_handlers.go, thinking_state_machine.go), the tool *)
(* manager, the stream processor with its bookkeeping                      *)
(* (server/stream_processor.go), the stop reason and the SSEStateManager.  *)
(*                                                                         *)
(* All of it runs in the one goroutine of the request.  A message is       *)
(* handled only when the events of the one before it are processed: the    *)
(* code parses every message of a network read first, but the parser and   *)
(* the processor share no state, so the order makes no difference.         *)
(***************************************************************************)
EXTENDS ToolLifecycle, FiniteSets

CONSTANTS
    MaxIndex,          (* highest block index                              *)
    MaxMessages,       (* bound: messages the upstream sends               *)
    Liberties          (* what this upstream does beyond the well-behaved  *)
                       (* one, see Liberty                                 *)

\* The well-behaved upstream sends nothing after a content-length exception,
\* and a thinking response of it has no such exception, no tool call, no text
\* before the <thinking> tag, and no text in messages that are not given to
\* the thinking context.  The code has no guard against any of these.
Liberty == {"after_overflow", "overflow_in_thinking", "tools_with_thinking",
            "text_before_thinking", "plain_text_in_thinking"}

ASSUME PipelineAssumption ==
    /\ MaxIndex \in Nat \ {0}
    /\ IsFiniteSet(ToolIds) /\ Cardinality(ToolIds) <= MaxIndex
    /\ MaxMessages \in Nat
    /\ Liberties \subseteq Liberty
    /\ NoToolId \notin ToolIds

VARIABLES
    messageStarted, messageDeltaSent, messageEnded, activeBlocks,
    nextBlockIndex, client,                       (* of the SSEStateManager *)
    queue,                 (* events handed to the stream processor        *)
    toolUseIdByBlockIndex, (* tools whose block is open, by index          *)
    completedToolUseIds,   (* tools whose block was closed                 *)
    thinkingEnabled,       (* the request asks for thinking                *)
    thinkingState,         (* where the thinking context is                *)
    buffered,              (* the thinking context holds text back         *)
    saidText,              (* the upstream has sent text before a tag      *)
    received,              (* messages received so far                     *)
    upstreamDone,          (* the response body ended                      *)
    stopReason,            (* stop reason the client was given             *)
    dropped                (* types of the deltas the client did not get   *)

\* The manager, with the theorems about it, in the mode production runs.
ssm == INSTANCE SSEStateProofs WITH StrictMode <- FALSE

ssmState == <<messageStarted, messageDeltaSent, messageEnded, activeBlocks,
              nextBlockIndex, client>>
thinkingVars == <<thinkingEnabled, thinkingState, buffered, saidText>>
processorVars == <<toolUseIdByBlockIndex, completedToolUseIds>>
vars == <<toolVars, ssmState, queue, processorVars, thinkingVars, received,
          upstreamDone, stopReason, dropped>>

Init ==
    /\ ToolInit
    /\ ssm!Init
    /\ queue = <<MessageStart>>
    /\ toolUseIdByBlockIndex = [i \in ssm!Index |-> NoToolId]
    /\ completedToolUseIds = {}
    /\ thinkingEnabled \in BOOLEAN
    /\ thinkingState = "not_in_thinking"
    /\ buffered = FALSE
    /\ saidText = FALSE
    /\ received = 0
    /\ upstreamDone = FALSE
    /\ stopReason = "none"
    /\ dropped = {}

-----------------------------------------------------------------------------
(* Messages of the upstream.                                                *)
Receive(events) ==
    /\ queue = <<>>
    /\ ~upstreamDone
    /\ received < MaxMessages
    /\ messageEnded => "after_overflow" \in Liberties
    /\ received' = received + 1
    /\ queue' = events
    /\ UNCHANGED <<ssmState, processorVars, upstreamDone, stopReason, dropped>>

\* Text that goes to block 0 whatever the request asked for: a completion
\* chunk, and an assistantResponseEvent whose payload is in the old format.  In
\* a response without thinking every assistantResponseEvent is like that.
PlainTextAllowed == thinkingEnabled => "plain_text_in_thinking" \in Liberties

Text ==
    /\ PlainTextAllowed
    /\ Receive(<<BlockDelta(0, "text_delta")>>)
    /\ UNCHANGED <<toolVars, thinkingVars>>

\* The last completion chunk has a finish reason and closes the block.
CompletionChunk ==
    /\ PlainTextAllowed
    /\ \E finished \in BOOLEAN :
          Receive(<<BlockDelta(0, "text_delta")>>
                  \o IF finished THEN <<BlockStop(0)>> ELSE <<>>)
    /\ UNCHANGED <<toolVars, thinkingVars>>

-----------------------------------------------------------------------------
(* assistantResponseEvent with thinking: the chunk goes through the         *)
(* thinking context, which holds back what could be part of a tag.  Where   *)
(* the tags fall in the chunks is the upstream's choice.                    *)
ThinkingIndex == 0
TextIndexOfThinking == ThinkingIndex   \* Broken: the text block is not a new one.
TextIndex == 1
Maybe(event) == {<<>>, <<event>>}

BeforeThinking ==
    /\ thinkingState = "not_in_thinking"
    /\ \E text \in Maybe(BlockDelta(0, "text_delta")) :
          /\ Receive(text)
          /\ saidText' = (saidText \/ text # <<>>)
    /\ buffered' = TRUE
    /\ UNCHANGED <<thinkingEnabled, thinkingState>>

EnterThinking ==
    /\ thinkingState = "not_in_thinking"
    /\ \E text \in Maybe(BlockDelta(0, "text_delta")) :
          /\ saidText \/ text # <<>> => "text_before_thinking" \in Liberties
          /\ Receive(<<BlockStart(ThinkingIndex, "thinking")>> \o text)
    /\ thinkingState' = "in_thinking"
    /\ buffered' \in BOOLEAN
    /\ UNCHANGED <<thinkingEnabled, saidText>>

InThinking ==
    /\ thinkingState = "in_thinking"
    /\ \E thought \in Maybe(BlockDelta(ThinkingIndex, "thinking_delta")) : Receive(thought)
    /\ buffered' = TRUE
    /\ UNCHANGED <<thinkingEnabled, thinkingState, saidText>>

LeaveThinking ==
    /\ thinkingState = "in_thinking"
    /\ \E thought \in Maybe(BlockDelta(ThinkingIndex, "thinking_delta")), text \in BOOLEAN :
          Receive(thought \o <<BlockStop(ThinkingIndex)>>
                  \o IF text THEN <<BlockStart(TextIndex, "text"),
                                    BlockDelta(TextIndex, "text_delta")>>
                             ELSE <<>>)
    /\ thinkingState' = "thinking_extracted"
    /\ buffered' = FALSE
    /\ UNCHANGED <<thinkingEnabled, saidText>>

AfterThinking ==
    /\ thinkingState = "thinking_extracted"
    /\ Receive(<<BlockDelta(TextIndex, "text_delta")>>)
    /\ UNCHANGED thinkingVars

ThinkingChunk ==
    /\ thinkingEnabled
    /\ BeforeThinking \/ EnterThinking \/ InThinking \/ LeaveThinking \/ AfterThinking
    /\ UNCHANGED toolVars

-----------------------------------------------------------------------------
(* Tool messages, see ToolLifecycle and ToolArguments.                      *)
ToolsAllowed == thinkingEnabled => "tools_with_thinking" \in Liberties

ToolRequest(id) ==
    /\ ToolsAllowed
    /\ \E hasArguments \in BOOLEAN : Receive(ToolCallRequestEvents(id, hasArguments))
    /\ HandleToolCallRequest(id)
    /\ UNCHANGED thinkingVars

ToolFragment(id) ==
    /\ id \in activeTools
    /\ Receive(<<BlockDelta(blockIndexMap[id], "input_json_delta")>>)
    /\ UNCHANGED <<toolVars, thinkingVars>>

ToolStop(id) ==
    /\ id \in activeTools
    /\ Receive(ToolCallResultEvents(id))
    /\ HandleToolCallResult(id)
    /\ UNCHANGED thinkingVars

ToolError(id) ==
    /\ id \in activeTools
    /\ Receive(ToolCallErrorEvents(id))
    /\ HandleToolCallError(id)
    /\ UNCHANGED thinkingVars

ContentLengthExceeded ==
    /\ thinkingEnabled => "overflow_in_thinking" \in Liberties
    /\ Receive(<<Overflow>>)
    /\ UNCHANGED <<toolVars, thinkingVars>>

-----------------------------------------------------------------------------
(* sendFinalEvents: the rest of the thinking buffer, stops for what is      *)
(* open, then the message events.                                           *)
FlushEvents ==
    IF ~thinkingEnabled \/ ~buffered THEN <<>>
    ELSE IF thinkingState = "in_thinking"
         THEN <<BlockDelta(ThinkingIndex, "thinking_delta")>>
         ELSE <<BlockDelta(0, "text_delta")>>

OpenToolIndices == {i \in ssm!Index : toolUseIdByBlockIndex[i] # NoToolId}

\* Broken: forgets the tools whose block is closed.
DetermineStopReasonFromOpen ==
    IF OpenToolIndices # {} THEN "tool_use" ELSE "end_turn"

DetermineStopReason ==
    IF OpenToolIndices # {} \/ completedToolUseIds # {} THEN "tool_use" ELSE "end_turn"

\* Broken: the thinking buffer is flushed when the message has ended.
EndOfStreamFlushingLast ==
    /\ queue = <<>>
    /\ ~upstreamDone
    /\ upstreamDone' = TRUE
    /\ queue' = <<CloseOpenBlocks, MessageDelta(DetermineStopReason), MessageStop>> \o FlushEvents
    /\ buffered' = FALSE
    /\ UNCHANGED <<toolVars, ssmState, processorVars, thinkingEnabled, thinkingState,
                   saidText, received, stopReason, dropped>>

EndOfStream ==
    /\ queue = <<>>
    /\ ~upstreamDone
    /\ upstreamDone' = TRUE
    /\ queue' = FlushEvents \o <<CloseOpenBlocks, MessageDelta(DetermineStopReason), MessageStop>>
    /\ buffered' = FALSE
    /\ UNCHANGED <<toolVars, ssmState, processorVars, thinkingEnabled, thinkingState,
                   saidText, received, stopReason, dropped>>

-----------------------------------------------------------------------------
(* The stream processor: one event of the queue at a time.                  *)
IsNext(type) == queue # <<>> /\ Head(queue).type = type

Processed ==
    /\ queue' = Tail(queue)
    /\ UNCHANGED <<toolVars, thinkingVars, received, upstreamDone>>

SendMessageStart ==
    /\ IsNext("message_start")
    /\ ssm!HandleMessageStart
    /\ Processed
    /\ UNCHANGED <<processorVars, stopReason, dropped>>

\* processToolUseStart books the tool before the manager sees the event.
ProcessStart ==
    /\ IsNext("content_block_start")
    /\ LET e == Head(queue) IN
          /\ ssm!HandleContentBlockStart(e.index, e.kind)
          /\ toolUseIdByBlockIndex' = IF e.id = NoToolId THEN toolUseIdByBlockIndex
                                      ELSE [toolUseIdByBlockIndex EXCEPT ![e.index] = e.id]
    /\ Processed
    /\ UNCHANGED <<completedToolUseIds, stopReason, dropped>>

ProcessDelta ==
    /\ IsNext("content_block_delta")
    /\ LET e == Head(queue) IN
          /\ ssm!HandleContentBlockDelta(e.index, e.kind)
          /\ dropped' = dropped \cup {k \in {e.kind} : activeBlocks[e.index].stopped}
    /\ Processed
    /\ UNCHANGED <<processorVars, stopReason>>

\* Broken: any closed block counts as a completed tool, or none does.
ProcessStopCountingAll ==
    /\ IsNext("content_block_stop")
    /\ LET e == Head(queue) IN
          /\ ssm!HandleContentBlockStop(e.index)
          /\ completedToolUseIds' = completedToolUseIds \cup {toolUseIdByBlockIndex[e.index]}
          /\ toolUseIdByBlockIndex' = [toolUseIdByBlockIndex EXCEPT ![e.index] = NoToolId]
    /\ Processed
    /\ UNCHANGED <<stopReason, dropped>>
ProcessStopForgetting ==
    /\ IsNext("content_block_stop")
    /\ LET e == Head(queue) IN
          /\ ssm!HandleContentBlockStop(e.index)
          /\ toolUseIdByBlockIndex' = [toolUseIdByBlockIndex EXCEPT ![e.index] = NoToolId]
    /\ Processed
    /\ UNCHANGED <<completedToolUseIds, stopReason, dropped>>

\* processToolUseStop keeps the tool as completed before it forgets the index.
ProcessStop ==
    /\ IsNext("content_block_stop")
    /\ LET e == Head(queue) IN
          /\ ssm!HandleContentBlockStop(e.index)
          /\ completedToolUseIds' = completedToolUseIds
                                    \cup ({toolUseIdByBlockIndex[e.index]} \ {NoToolId})
          /\ toolUseIdByBlockIndex' = [toolUseIdByBlockIndex EXCEPT ![e.index] = NoToolId]
    /\ Processed
    /\ UNCHANGED <<stopReason, dropped>>

\* handleExceptionEvent sends its own ending at once, before what is queued.
ProcessOverflow ==
    /\ IsNext("exception")
    /\ queue' = <<CloseOpenBlocks, MessageDelta("max_tokens"), MessageStop>> \o Tail(queue)
    /\ UNCHANGED <<toolVars, ssmState, processorVars, thinkingVars, received,
                   upstreamDone, stopReason, dropped>>

CloseAll ==
    /\ IsNext("close_open_blocks")
    /\ ssm!StopBlocks(ssm!Unclosed)
    /\ Processed
    /\ UNCHANGED <<processorVars, stopReason, dropped>>

SendMessageDelta ==
    /\ IsNext("message_delta")
    /\ ssm!HandleMessageDelta
    /\ stopReason' = IF messageDeltaSent THEN stopReason ELSE Head(queue).kind
    /\ Processed
    /\ UNCHANGED <<processorVars, dropped>>

SendMessageStop ==
    /\ IsNext("message_stop")
    /\ ssm!HandleMessageStop
    /\ Processed
    /\ UNCHANGED <<processorVars, stopReason, dropped>>

ProcessEvent ==
    \/ SendMessageStart \/ ProcessStart \/ ProcessDelta \/ ProcessStop
    \/ ProcessOverflow \/ CloseAll \/ SendMessageDelta \/ SendMessageStop

\* The request is over; the handler returns.
Finished ==
    /\ upstreamDone
    /\ queue = <<>>
    /\ UNCHANGED vars

Upstream ==
    \/ Text
    \/ CompletionChunk
    \/ ThinkingChunk
    \/ \E id \in ToolIds : ToolRequest(id) \/ ToolFragment(id) \/ ToolStop(id) \/ ToolError(id)
    \/ ContentLengthExceeded

Next == Upstream \/ EndOfStream \/ ProcessEvent \/ Finished

\* The goroutine keeps working, and the upstream eventually ends the body.
Spec == Init /\ [][Next]_vars /\ WF_vars(ProcessEvent) /\ WF_vars(EndOfStream)

-----------------------------------------------------------------------------
DeltaKinds == {"text_delta", "thinking_delta", "input_json_delta"}
Reasons == {"none", "max_tokens", "tool_use", "end_turn"}

TypeOK ==
    /\ ToolTypeOK
    /\ ssm!TypeOK
    /\ \A k \in 1 .. Len(queue) : queue[k].index \in ssm!Index
    /\ toolUseIdByBlockIndex \in [ssm!Index -> ToolIds \cup {NoToolId}]
    /\ completedToolUseIds \subseteq ToolIds
    /\ thinkingEnabled \in BOOLEAN
    /\ thinkingState \in {"not_in_thinking", "in_thinking", "thinking_extracted"}
    /\ buffered \in BOOLEAN
    /\ saidText \in BOOLEAN
    /\ received \in 0 .. MaxMessages
    /\ upstreamDone \in BOOLEAN
    /\ stopReason \in Reasons
    /\ dropped \subseteq DeltaKinds

\* No event the client receives breaks a rule of the event sequence
\* (sse_state_manager.go:20, "ensures the event sequence follows the Claude
\* specification"): the sequence the parser produces and the repairs of the
\* manager add up to a legal stream.
Faultless == client.faults = {}

\* The stop reason is tool_use exactly when the client was shown a tool_use
\* block, unless the answer was cut (stop_reason_manager.go:36-41).  The
\* processor decides it from its own bookkeeping, not from the blocks.
StopReasonHonest ==
    client.deltaSent /\ stopReason # "max_tokens"
        => (stopReason = "tool_use" <=> "tool_use" \in client.seen)

\* When the stream ends every tool call the parser took on was shown as a
\* block of its own, and none of its input was dropped on the way
\* (tool_lifecycle_manager.go:98-135, message_event_handlers.go:754-766).
ToolsDelivered ==
    /\ "input_json_delta" \notin dropped
    /\ upstreamDone /\ queue = <<>> =>
          \A id \in activeTools \cup completedTools :
              /\ client.block[blockIndexMap[id]] = "closed"
              /\ toolUseIdByBlockIndex[blockIndexMap[id]] = id \/ id \in completedToolUseIds

\* In a thinking response nothing is lost between the thinking block and the
\* text block after it (message_event_handlers.go:439-474).
ThinkingDelivered == thinkingEnabled => dropped = {}

\* Once the upstream ends, or is cut, the client gets its message_stop, after
\* a message_delta, with no block left open (stream_processor.go:217-292).
ClaudePhase ==
    IF client.ended THEN "ended"
    ELSE IF client.deltaSent THEN "finished"
    ELSE IF client.started THEN "streaming" ELSE "idle"

claude == INSTANCE ClaudeStream
             WITH phase <- ClaudePhase, blocks <- client.block,
                  seen <- client.seen, reason <- stopReason

\* The detailed stream implements the abstract one, its end included.
ImplementsClaudeStream == claude!Spec
=============================================================================
