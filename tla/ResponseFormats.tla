--------------------------- MODULE ResponseFormats ---------------------------
(***************************************************************************)
(* The answers that are not the Claude stream, made of the events of the   *)
(* same parser: the OpenAI stream (server/openai_handlers.go), the whole   *)
(* Claude message (server/handlers.go) and the whole OpenAI message        *)
(* (server/openai_handlers.go, converter/openai.go).  ToolArguments says   *)
(* what the parser makes of the upstream's messages.                       *)
(*                                                                         *)
(* As in StreamPipeline a message is handled when the events of the one    *)
(* before it are processed.  The parser emits no message_delta of its own, *)
(* so sentFinal stays false and the end is always sent after the loop; its *)
(* ParseStream returns no error.  Events the handler does not look at      *)
(* (block stops, errors, exceptions, completion) only count as events.     *)
(***************************************************************************)
EXTENDS ToolArguments, Integers, FiniteSets

CONSTANT MaxIndex      (* highest block index                              *)

ASSUME FormatsAssumption ==
    MaxIndex \in Nat /\ IsFiniteSet(ToolIds) /\ Cardinality(ToolIds) <= MaxIndex

VARIABLES
    queue,                 (* events of the last message, with their JSON  *)
    toolIndexByToolUseId,  (* place of each id in tool_calls               *)
    toolUseIdByBlockIndex, (* id that was started at each block index      *)
    nextToolIndex,
    sawToolUse,
    inThinking,            (* a <thinking> tag is open                     *)
    hasEvents,             (* messageCount > 0                             *)
    consecutiveErrors,     (* failed reads in a row                        *)
    hasMoreData,           (* the read loop goes on                        *)
    openai                 (* what the OpenAI client has assembled         *)

handlerVars == <<toolIndexByToolUseId, toolUseIdByBlockIndex, nextToolIndex,
                 sawToolUse, inThinking>>
readVars == <<hasEvents, consecutiveErrors, hasMoreData>>
formatVars == <<argVars, queue, handlerVars, readVars, openai>>

Index == 0 .. MaxIndex
NoIndex == -1              (* no entry in toolIndexByToolUseId             *)
maxConsecutiveErrors == 3

-----------------------------------------------------------------------------
(* The client: it appends content to the text and arguments to the call at  *)
(* the index of the chunk.  What no reading of the protocol allows is a     *)
(* fault.                                                                   *)
NewClient == [calls |-> <<>>, thinking |-> FALSE, finish |-> "none",
              done |-> FALSE, faults |-> {}]

\* Text and an opening tag belong outside the tags, a thought and the closing
\* tag inside.
ReadContent(c, kind) ==
    [c EXCEPT !.thinking = kind \in {"open", "thought"},
              !.faults = @ \cup {k \in {kind} : \/ (k \in {"text", "open"}) = c.thinking
                                                \/ c.finish # "none"}]

\* A call has one place: a new id comes next, a known one where it was.
ReadCall(c, i, id) ==
    LET known == {k \in DOMAIN c.calls : c.calls[k].id = id} IN
    IF known = {} /\ i = Len(c.calls)
    THEN [c EXCEPT !.calls = Append(@, [id |-> id, json |-> <<>>])]
    ELSE [c EXCEPT !.faults = @ \cup {k \in {"call"} : known # {i + 1}}]

ReadArguments(c, i, json) ==
    IF i < Len(c.calls) THEN [c EXCEPT !.calls[i + 1].json = @ \o json]
                        ELSE [c EXCEPT !.faults = @ \cup {"arguments"}]

ReadFinish(c, reason) ==
    [c EXCEPT !.finish = reason,
              !.faults = @ \cup {k \in {"finish"} : c.thinking \/ c.finish # "none"}]

-----------------------------------------------------------------------------
FormatsInit ==
    /\ Init
    /\ queue = <<>>
    /\ toolIndexByToolUseId = [id \in ToolIds |-> NoIndex]
    /\ toolUseIdByBlockIndex = [i \in Index |-> NoToolId]
    /\ nextToolIndex = 0
    /\ sawToolUse = FALSE
    /\ inThinking = FALSE
    /\ hasEvents = FALSE
    /\ consecutiveErrors = 0
    /\ hasMoreData = TRUE
    /\ openai = NewClient

(* The parser.  The events of a message carry at most one piece of JSON.    *)
Carrying(events, json) ==
    [k \in 1 .. Len(events) |-> [event |-> events[k], json |-> json]]

RequestEvents(id, json) ==
    Carrying(ToolCallRequestEvents(id, Parsed(json) # <<>>), Parsed(json))

FragmentEvents(id, json) ==
    IF id = NoToolId \/ json = <<>> THEN <<>>
    ELSE Carrying(<<BlockDelta(blockIndexMap[id], "input_json_delta")>>, json)

ToolUseEvents(id, json, stop) ==
    IF id \notin activeTools THEN RequestEvents(id, json)
    ELSE IF stop THEN Carrying(ToolCallResultEvents(id), <<>>)
    ELSE FragmentEvents(id, json)

Receive(events) ==
    /\ queue = <<>>
    /\ hasMoreData
    /\ queue' = events
    /\ hasEvents' = (hasEvents \/ events # <<>>)
    /\ consecutiveErrors' = 0
    /\ UNCHANGED <<handlerVars, hasMoreData, openai>>

ReceiveToolMessage(id) ==
    \/ \E json \in {<<>>, Whole}, stop \in BOOLEAN :
          FirstMessage(id, json, stop) /\ Receive(ToolUseEvents(id, json, stop))
    \/ Fragment(id) /\ Receive(ToolUseEvents(id, NextPiece(id), FALSE))
    \/ Stop(id) /\ Receive(ToolUseEvents(id, <<>>, TRUE))
    \/ Repeat(id) /\ Receive(ToolUseEvents(id, <<>>, FALSE))
    \/ \E json \in {<<>>, Whole} :
          ToolRequest(id, json) /\ Receive(RequestEvents(id, json))
    \/ ToolError(id) /\ Receive(Carrying(ToolCallErrorEvents(id), <<>>))

\* assistantResponseEvent; this parser has no thinking context.
ReceiveText ==
    /\ Receive(Carrying(<<BlockDelta(0, "text_delta")>>, <<>>))
    /\ UNCHANGED argVars

\* ThinkingEventHandler: a block of its own for every thought.
ReceiveThought ==
    /\ Receive(Carrying(<<BlockStart(0, "thinking"), BlockDelta(0, "thinking_delta"),
                          BlockStop(0)>>, <<>>))
    /\ UNCHANGED argVars

-----------------------------------------------------------------------------
(* The body.  A failed read is repeated; the third in a row ends the loop,  *)
(* as does the client that goes away while the handler waits.               *)
\* Broken: errors in a row do not end the loop.
ReadErrorForever ==
    /\ queue = <<>>
    /\ hasMoreData
    /\ consecutiveErrors' = consecutiveErrors + 1
    /\ UNCHANGED <<argVars, queue, handlerVars, hasEvents, hasMoreData, openai>>

\* Data that is read ends the row of errors.
ReadError ==
    /\ queue = <<>>
    /\ hasMoreData
    /\ consecutiveErrors' = consecutiveErrors + 1
    /\ hasMoreData' \in {consecutiveErrors' < maxConsecutiveErrors, FALSE}
    /\ UNCHANGED <<argVars, queue, handlerVars, hasEvents, openai>>

EndOfBody ==
    /\ queue = <<>>
    /\ hasMoreData
    /\ hasMoreData' = FALSE
    /\ UNCHANGED <<argVars, queue, handlerVars, hasEvents, consecutiveErrors, openai>>

-----------------------------------------------------------------------------
(* The loop over the events, one event at a time.                           *)
IsNext(type, kind) ==
    /\ queue # <<>>
    /\ Head(queue).event.type = type
    /\ Head(queue).event.kind = kind

Processed ==
    /\ queue' = Tail(queue)
    /\ UNCHANGED <<argVars, readVars>>

CloseTag(c) == IF inThinking THEN ReadContent(c, "close") ELSE c
OpenTag(c)  == IF inThinking THEN c ELSE ReadContent(c, "open")

\* Broken: the tag stays open.
ProcessTextUnclosed ==
    /\ IsNext("content_block_delta", "text_delta")
    /\ openai' = ReadContent(openai, "text")
    /\ Processed
    /\ UNCHANGED handlerVars

ProcessText ==
    /\ IsNext("content_block_delta", "text_delta")
    /\ openai' = ReadContent(CloseTag(openai), "text")
    /\ inThinking' = FALSE
    /\ Processed
    /\ UNCHANGED <<toolIndexByToolUseId, toolUseIdByBlockIndex, nextToolIndex, sawToolUse>>

ProcessThought ==
    /\ IsNext("content_block_delta", "thinking_delta")
    /\ openai' = ReadContent(OpenTag(openai), "thought")
    /\ inThinking' = TRUE
    /\ Processed
    /\ UNCHANGED <<toolIndexByToolUseId, toolUseIdByBlockIndex, nextToolIndex, sawToolUse>>

IndexOf(id) == IF toolIndexByToolUseId[id] # NoIndex THEN toolIndexByToolUseId[id]
                                                     ELSE nextToolIndex

\* Broken: the block is not noted.
ProcessToolStartUnmapped ==
    /\ IsNext("content_block_start", "tool_use")
    /\ LET e == Head(queue).event IN
          /\ toolIndexByToolUseId' = [toolIndexByToolUseId EXCEPT ![e.id] = IndexOf(e.id)]
          /\ nextToolIndex' = nextToolIndex + 1
          /\ openai' = ReadCall(openai, IndexOf(e.id), e.id)
    /\ Processed
    /\ UNCHANGED <<toolUseIdByBlockIndex, sawToolUse, inThinking>>

\* The id "" is passed over.  An id that is started again keeps its place.
ProcessToolStart ==
    /\ IsNext("content_block_start", "tool_use")
    /\ LET e == Head(queue).event IN
          IF e.id = NoToolId THEN UNCHANGED <<handlerVars, openai>>
          ELSE /\ toolIndexByToolUseId' = [toolIndexByToolUseId EXCEPT ![e.id] = IndexOf(e.id)]
               /\ nextToolIndex' = IF IndexOf(e.id) = nextToolIndex
                                   THEN nextToolIndex + 1 ELSE nextToolIndex
               /\ toolUseIdByBlockIndex' = [toolUseIdByBlockIndex EXCEPT ![e.index] = e.id]
               /\ sawToolUse' = TRUE
               /\ openai' = ReadCall(openai, IndexOf(e.id), e.id)
               /\ UNCHANGED inThinking
    /\ Processed

\* Arguments go to the call that was started at the block.
ProcessArguments ==
    /\ IsNext("content_block_delta", "input_json_delta")
    /\ LET id == toolUseIdByBlockIndex[Head(queue).event.index] IN
          openai' = IF id = NoToolId THEN openai
                    ELSE ReadArguments(openai, toolIndexByToolUseId[id], Head(queue).json)
    /\ Processed
    /\ UNCHANGED handlerVars

ProcessOther ==
    /\ IsNext("content_block_start", "thinking") \/ IsNext("content_block_stop", "none")
    /\ Processed
    /\ UNCHANGED <<handlerVars, openai>>

\* After the loop: a reason only when there was an event, and [DONE].
Finish ==
    /\ ~hasMoreData
    /\ queue = <<>>
    /\ ~openai.done
    /\ openai' = [IF hasEvents
                  THEN ReadFinish(CloseTag(openai), IF sawToolUse THEN "tool_calls" ELSE "stop")
                  ELSE openai EXCEPT !.done = TRUE]
    /\ inThinking' = (inThinking /\ ~hasEvents)
    /\ UNCHANGED <<argVars, queue, readVars, toolIndexByToolUseId, toolUseIdByBlockIndex,
                   nextToolIndex, sawToolUse>>

Process == ProcessText \/ ProcessThought \/ ProcessToolStart \/ ProcessArguments \/ ProcessOther

FormatsNext ==
    \/ \E id \in ToolIds : ReceiveToolMessage(id)
    \/ ReceiveText
    \/ ReceiveThought
    \/ ReadError
    \/ EndOfBody
    \/ Process
    \/ Finish

FormatsSpec == FormatsInit /\ [][FormatsNext]_formatVars

-----------------------------------------------------------------------------
(* The whole messages, made when the body was read to its end.              *)
\* Broken: only the executions that ended.
CompletedTools == {"completed"} \X completedTools

\* One tool_use block for every execution, running or done, in any order.
AllTools == ({"active"} \X activeTools) \cup ({"completed"} \X completedTools)

WholeStopReason == IF AllTools # {} THEN "tool_use" ELSE "end_turn"

\* ConvertAnthropicToOpenAI takes every tool_use block over as it is.
WholeFinishReason == IF AllTools # {} THEN "tool_calls" ELSE "stop"

-----------------------------------------------------------------------------
FormatsTypeOK ==
    /\ TypeOK
    /\ \A k \in DOMAIN queue : /\ queue[k].event.index \in Index
                             /\ queue[k].event.id \in ToolIds \cup {NoToolId}
                             /\ queue[k].json \in PieceSeqs
    /\ toolIndexByToolUseId \in [ToolIds -> Nat \cup {NoIndex}]
    /\ toolUseIdByBlockIndex \in [Index -> ToolIds \cup {NoToolId}]
    /\ nextToolIndex \in Nat
    /\ sawToolUse \in BOOLEAN
    /\ inThinking \in BOOLEAN
    /\ hasEvents \in BOOLEAN
    /\ consecutiveErrors \in 0 .. maxConsecutiveErrors
    /\ hasMoreData \in BOOLEAN
    /\ openai \in [calls: Seq([id: ToolIds, json: Seq(1 .. Pieces)]), thinking: BOOLEAN,
                   finish: {"none", "stop", "tool_calls"}, done: BOOLEAN,
                   faults: SUBSET {"text", "open", "thought", "close", "call",
                                   "arguments", "finish"}]

\* The OpenAI client is never sent what it cannot assemble: thoughts are
\* inside one pair of tags and text outside, whatever comes between them,
\* nothing follows the finish reason, every call has one index and
\* arguments only come for a call that was started
\* (openai_handlers.go:200-289, 370-377, 475-516).
OpenAIFaultless == openai.faults = {}

\* Between two messages the arguments the OpenAI client has joined for a call
\* are those of its block in the Claude stream, though the one is told by the
\* index of the call and the other by the block, also when the call comes back
\* after its end (openai_handlers.go:290-346).
OpenAIArguments ==
    queue = <<>> =>
        \A k \in DOMAIN openai.calls : openai.calls[k].json = sent[openai.calls[k].id]

\* However the client asks, it gets the same answer: the calls of the OpenAI
\* stream are those of the whole messages and the finish reason agrees, and
\* when its id has been used once a call is in the whole messages once, and has
\* the same arguments if upstream ended it.  An id that came back is listed
\* twice while it runs, since its completed call stays, and the OpenAI client
\* joins the pieces of all its calls.  The malformed call with the id "" is only
\* in the whole messages (openai_handlers.go:44-63, 370, 496-499,
\* handlers.go:284-299).
FormatsAgree ==
    openai.done =>
        LET called == {openai.calls[k].id : k \in DOMAIN openai.calls} IN
        /\ \A id \in activeTools \cap completedTools : upstream[id].times > 1
        /\ called = {tool[2] : tool \in AllTools} \ {NoToolId}
        /\ NoToolId \notin activeTools \cup completedTools /\ hasEvents =>
              /\ openai.finish = WholeFinishReason
              /\ openai.finish = "tool_calls" <=> WholeStopReason = "tool_use"
        /\ \A k \in DOMAIN openai.calls :
              LET id == openai.calls[k].id IN
              upstream[id].times = 1 /\ upstream[id].end \in {"stop", "once"}
                  => Parsed(openai.calls[k].json) = arguments[id]
=============================================================================
