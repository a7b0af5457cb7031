----------------------------- MODULE ClientView -----------------------------
(***************************************************************************)
(* What a client of the /v1/messages stream knows after the events it has  *)
(* received, and the rules of the Claude event sequence that it holds the  *)
(* server to.  The rules are the ones SSEStateManager names in its own     *)
(* "violation" messages (server/sse_state_manager.go): this module is the  *)
(* receiving end of the wire, the manager is the sending end.              *)
(*                                                                         *)
(* A client is a record.  Each Receive operator returns the client after   *)
(* one more event, and adds the rules that event broke to `faults`.        *)
(***************************************************************************)
EXTENDS Naturals

CONSTANT MaxIndex      (* content block indices are 0 .. MaxIndex          *)

ASSUME MaxIndexAssumption == MaxIndex \in Nat \ {0}

Index == 0 .. MaxIndex

BlockTypes == {"text", "thinking", "tool_use"}
DeltaTypes == {"text_delta", "thinking_delta", "input_json_delta"}

\* The type a block must have for a delta of the given type to belong to it.
TypeOfDelta(d) ==
    CASE d = "text_delta"     -> "text"
      [] d = "thinking_delta" -> "thinking"
      [] OTHER                -> "tool_use"

\* Names of the rules; each is quoted from the message in the manager.
Faults == {"early",        \* an event before message_start
           "late",         \* a block event after message_delta or message_stop
           "twice",        \* a second message_start, message_delta or message_stop
           "reopen",       \* a start for a block that is open
           "orphan_delta", \* a delta for a block that is not open
           "orphan_stop",  \* a stop for a block that is not open
           "unclosed",     \* a message_delta while a block is open
           "mismatch"}     \* a delta whose type is not the type of its block

\* A block the client never saw is "absent"; an open block shows its type.
\* `seen` keeps the types of all blocks the client was ever told to open.
BlockView == {"absent", "closed"} \cup BlockTypes

ClientType == [started: BOOLEAN, deltaSent: BOOLEAN, ended: BOOLEAN,
               block: [Index -> BlockView], seen: SUBSET BlockTypes,
               faults: SUBSET Faults]

NewClient == [started |-> FALSE, deltaSent |-> FALSE, ended |-> FALSE,
              block |-> [i \in Index |-> "absent"], seen |-> {}, faults |-> {}]

IsOpen(c, i) == c.block[i] \in BlockTypes

OpenAt(c) == {i \in Index : IsOpen(c, i)}

-----------------------------------------------------------------------------
\* Rules every content block event has to respect, whatever its kind.
BlockEventFaults(c) ==
    {f \in {"early", "late"} : \/ f = "early" /\ ~c.started
                               \/ f = "late" /\ (c.deltaSent \/ c.ended)}

ReceiveMessageStart(c) ==
    [c EXCEPT !.started = TRUE,
              !.faults = @ \cup {f \in {"twice"} : c.started}]

ReceiveBlockStart(c, i, t) ==
    [c EXCEPT !.block[i] = t,
              !.seen = @ \cup {t},
              !.faults = @ \cup BlockEventFaults(c)
                           \cup {f \in {"reopen"} : IsOpen(c, i)}]

ReceiveBlockDelta(c, i, d) ==
    [c EXCEPT !.faults = @ \cup BlockEventFaults(c)
                           \cup {f \in {"orphan_delta"} : ~IsOpen(c, i)}
                           \cup {f \in {"mismatch"} :
                                    IsOpen(c, i) /\ c.block[i] # TypeOfDelta(d)}]

\* One content_block_stop for every index of S; stops of different blocks
\* commute, so the order the server's map iteration picks does not matter.
ReceiveBlockStops(c, S) ==
    [c EXCEPT !.block = [i \in Index |-> IF i \in S THEN "closed" ELSE @[i]],
              !.faults = @ \cup {f \in BlockEventFaults(c) : S # {}}
                           \cup {f \in {"orphan_stop"} : \E i \in S : ~IsOpen(c, i)}]

ReceiveMessageDelta(c) ==
    [c EXCEPT !.deltaSent = TRUE,
              !.faults = @ \cup {f \in {"early"} : ~c.started}
                           \cup {f \in {"twice"} : c.deltaSent}
                           \cup {f \in {"late"} : c.ended}
                           \cup {f \in {"unclosed"} : OpenAt(c) # {}}]

ReceiveMessageStop(c) ==
    [c EXCEPT !.ended = TRUE,
              !.faults = @ \cup {f \in {"early"} : ~c.started}
                           \cup {f \in {"twice"} : c.ended}]
=============================================================================
