--------------------------- MODULE ToolArguments ---------------------------
(***************************************************************************)
(* How the arguments of a tool call get from the upstream to the two       *)
(* places that use them: the input_json_delta events of the stream, and    *)
(* the Arguments of the execution, which the non-streaming response is     *)
(* built from (server/handlers.go).  Composes LegacyToolUseEventHandler    *)
(* (parser/message_event_handlers.go) with the ToolLifecycleManager and    *)
(* the SonicStreamingJSONAggregator.                                       *)
(*                                                                         *)
(* The JSON text of a call is a sequence of Pieces pieces; it parses when  *)
(* all of them are there, in order.                                        *)
(***************************************************************************)
EXTENDS ToolLifecycle, FiniteSets

CONSTANTS
    Pieces,            (* fragments the JSON of a call is cut into         *)
    MaxCalls,          (* bound: calls the upstream begins                 *)
    ObjectThenStop     (* may the upstream send a whole object first, and  *)
                       (* its stop in a later message without data?        *)

ASSUME ArgumentsAssumption ==
    /\ Pieces \in Nat \ {0, 1}
    /\ MaxCalls \in Nat
    /\ ObjectThenStop \in BOOLEAN

VARIABLES
    arguments,         (* Arguments of the execution of each id that was   *)
                       (* registered last, <<>> is {}                      *)
    buffer,            (* what the aggregator holds of each tool's JSON    *)
    sent,              (* the partial_json of each id's block, joined      *)
    upstream           (* what the upstream sent of each call              *)

argVars == <<toolVars, arguments, buffer, sent, upstream>>

Whole == [k \in 1 .. Pieces |-> k]

\* Parsing JSON text: anything but the whole object is an error or empty, and
\* every caller falls back to {}.
Parsed(json) == IF json = Whole THEN Whole ELSE <<>>

\* times: how often the upstream began a call with this id; clean: each time
\* the call before it had been stopped.  The rest is about the last time.
NoCall == [times |-> 0, clean |-> TRUE, sent |-> <<>>, object |-> FALSE, end |-> "none"]

Init ==
    /\ ToolInit
    /\ arguments = [id \in ToolIds |-> <<>>]
    /\ buffer = [id \in ToolIds |-> <<>>]
    /\ sent = [id \in ToolIds |-> <<>>]
    /\ upstream = [id \in ToolIds |-> NoCall]

-----------------------------------------------------------------------------
\* HandleToolCallRequest with the argument text `json`: a new execution starts
\* from it and shows it to the client; a running one only takes it over, and
\* only when it is not empty.
Request(id, json) ==
    /\ HandleToolCallRequest(id)
    /\ arguments' = IF id \in activeTools /\ Parsed(json) = <<>>
                    THEN arguments ELSE [arguments EXCEPT ![id] = Parsed(json)]
    /\ sent' = IF id \in activeTools THEN sent
               ELSE [sent EXCEPT ![id] = @ \o Parsed(json)]
    /\ UNCHANGED buffer

\* Broken: what was received is kept though it does not parse.
CompleteUnparsed(id) ==
    /\ HandleToolCallResult(id)
    /\ arguments' = [arguments EXCEPT ![id] = buffer[id]]
    /\ buffer' = [buffer EXCEPT ![id] = <<>>]
    /\ UNCHANGED sent

\* The aggregator finishes a call: what it parsed replaces the arguments by
\* way of its callback, whatever they were, and the execution ends.
Complete(id) ==
    /\ HandleToolCallResult(id)
    /\ arguments' = [arguments EXCEPT ![id] = Parsed(buffer[id])]
    /\ buffer' = [buffer EXCEPT ![id] = <<>>]
    /\ UNCHANGED sent

\* Broken: the fragment replaces the buffer, or is kept from the stream.
AppendFragmentReplacing(id, json) ==
    /\ buffer' = [buffer EXCEPT ![id] = json]
    /\ sent' = IF id = NoToolId THEN sent ELSE [sent EXCEPT ![id] = @ \o json]
    /\ UNCHANGED <<toolVars, arguments>>
AppendFragmentUnsent(id, json) ==
    /\ buffer' = [buffer EXCEPT ![id] = @ \o json]
    /\ UNCHANGED <<toolVars, arguments, sent>>

\* A fragment goes to the aggregator and, as it is, to the client; the client
\* gets nothing for the tool id "".
AppendFragment(id, json) ==
    /\ buffer' = [buffer EXCEPT ![id] = @ \o json]
    /\ sent' = IF id = NoToolId THEN sent ELSE [sent EXCEPT ![id] = @ \o json]
    /\ UNCHANGED <<toolVars, arguments>>

\* LegacyToolUseEventHandler: a stop on the first message is ignored (the tool
\* stays active), data on a later stop is too.
HandleToolUseEvent(id, json, stop) ==
    \/ id \notin activeTools /\ Request(id, json)
    \/ id \in activeTools /\ stop /\ Complete(id)
    \/ id \in activeTools /\ ~stop /\ json # <<>> /\ AppendFragment(id, json)
    \/ id \in activeTools /\ ~stop /\ json = <<>>
       /\ UNCHANGED <<toolVars, arguments, buffer, sent>>

-----------------------------------------------------------------------------
(* The upstream.  A call starts with an empty input, and its fragments      *)
(* follow, or with the whole object.  Its end is announced by a message     *)
(* without data, or by the flag on its only message; the connection may cut *)
(* the fragments short of the whole.  A message about a call that has ended *)
(* begins a call with the same id: the handlers look at active calls only.  *)
Running(id) == upstream[id].times > 0 /\ upstream[id].end = "none"

CallsBegun == {call \in ToolIds \X (1 .. MaxCalls) : call[2] <= upstream[call[1]].times}

MayBegin(id) == ~Running(id) /\ Cardinality(CallsBegun) < MaxCalls

Begin(id, json, end) ==
    upstream' = [upstream EXCEPT ![id] =
        [times |-> @.times + 1, clean |-> @.times = 0 \/ (@.clean /\ @.end = "stop"),
         sent |-> json, object |-> json = Whole, end |-> end]]

Say(id, json, end) ==
    upstream' = [upstream EXCEPT ![id].sent = @ \o json, ![id].end = end]

\* The only piece that can come next of a call that is sent in fragments.
NextPiece(id) == <<Len(upstream[id].sent) + 1>>

\* It may find the call active, that an earlier first message has ended.
FirstMessage(id, json, stop) ==
    /\ MayBegin(id)
    /\ HandleToolUseEvent(id, json, stop)
    /\ Begin(id, json, IF stop THEN "once" ELSE "none")

Fragment(id) ==
    /\ Running(id)
    /\ Len(upstream[id].sent) < Pieces
    /\ HandleToolUseEvent(id, NextPiece(id), FALSE)
    /\ Say(id, NextPiece(id), "none")

Stop(id) ==
    /\ Running(id)
    /\ upstream[id].object => ObjectThenStop
    /\ HandleToolUseEvent(id, <<>>, TRUE)
    /\ Say(id, <<>>, "stop")

\* A message that repeats a running call without new data.
Repeat(id) ==
    /\ Running(id)
    /\ HandleToolUseEvent(id, <<>>, FALSE)
    /\ Say(id, <<>>, "none")

\* toolCallRequest and toolCallError messages take the other two handlers.  A
\* request begins a call, or comes while one is running.
ToolRequest(id, json) ==
    /\ Request(id, json)
    /\ \/ MayBegin(id) /\ Begin(id, json, "none")
       \/ Running(id) /\ UNCHANGED upstream

ToolError(id) ==
    /\ HandleToolCallError(id)
    /\ \/ Running(id) /\ Say(id, <<>>, "error")
       \/ ~Running(id) /\ UNCHANGED upstream
    /\ UNCHANGED <<arguments, buffer, sent>>

Next ==
    \E id \in ToolIds :
        \/ \E json \in {<<>>, Whole}, stop \in BOOLEAN : FirstMessage(id, json, stop)
        \/ Fragment(id)
        \/ Stop(id)
        \/ Repeat(id)
        \/ \E json \in {<<>>, Whole} : ToolRequest(id, json)
        \/ ToolError(id)

Spec == Init /\ [][Next]_argVars

-----------------------------------------------------------------------------
\* Text that a call is sent in at most once.
PieceSeqs == UNION {[1 .. n -> 1 .. Pieces] : n \in 0 .. Pieces}

TypeOK ==
    /\ ToolTypeOK
    /\ arguments \in [ToolIds -> {<<>>, Whole}]
    /\ buffer \in [ToolIds -> Seq(1 .. Pieces)]
    /\ sent \in [ToolIds -> Seq(1 .. Pieces)]
    /\ upstream \in [ToolIds -> [times: Nat, clean: BOOLEAN,
                                 sent: PieceSeqs, object: BOOLEAN,
                                 end: {"none", "once", "stop", "error"}]]

\* A call that the upstream sent whole and ended has its arguments, however
\* its fragments interleave with those of other calls and however it was
\* cut, also when its id has been used before by calls that were stopped
\* (message_event_handlers.go:655-732, sonic_streaming_aggregator.go:88-136).
JoinedArguments ==
    \A id \in ToolIds :
        upstream[id].clean /\ upstream[id].sent = Whole /\ upstream[id].end \in {"stop", "once"}
            => arguments[id] = Whole

\* The client that reads the stream and the client that reads the whole
\* response are given the same call: both have its arguments or neither can
\* parse them (message_event_handlers.go:698-732; the tool id "" is the
\* malformed call whose fragments the handler keeps from the stream, 747-751).
\* An id that comes back has the pieces of each of its calls in the stream.
SameCall ==
    \A id \in ToolIds \ {NoToolId} :
        upstream[id].times = 1 /\ upstream[id].end \in {"stop", "once"}
            => Parsed(sent[id]) = arguments[id]
=============================================================================
