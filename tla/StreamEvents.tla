---------------------------- MODULE StreamEvents ----------------------------
(***************************************************************************)
(* The SSEEvent values that travel from the parser to the stream           *)
(* processor, reduced to the fields the control flow looks at: the type of *)
(* the event, the block index, the kind (block type, delta type or stop    *)
(* reason) and the tool id of a tool_use start.  Events that the manager   *)
(* only forwards (ping, error, completion, session events) have no member  *)
(* here: they reach the client and change nothing else.                    *)
(***************************************************************************)
EXTENDS Naturals, Sequences

CONSTANT NoToolId      (* the tool id "", and the id of an event without   *)

BlockEvent(type, i, kind, id) ==
    [type |-> type, index |-> i, kind |-> kind, id |-> id]

BlockStart(i, t)     == BlockEvent("content_block_start", i, t, NoToolId)
ToolStart(i, id)     == BlockEvent("content_block_start", i, "tool_use", id)
BlockDelta(i, d)     == BlockEvent("content_block_delta", i, d, NoToolId)
BlockStop(i)         == BlockEvent("content_block_stop", i, "none", NoToolId)

\* An upstream exception message; only content-length exceptions are kept.
Overflow             == BlockEvent("exception", 0, "max_tokens", NoToolId)

\* What the processor sends on its own account, past its bookkeeping: the
\* message events, and a stop for every block that is still open.
MessageStart         == BlockEvent("message_start", 0, "none", NoToolId)
CloseOpenBlocks      == BlockEvent("close_open_blocks", 0, "none", NoToolId)
MessageDelta(reason) == BlockEvent("message_delta", 0, reason, NoToolId)
MessageStop          == BlockEvent("message_stop", 0, "none", NoToolId)
=============================================================================
