--------------------------- MODULE ToolLifecycle ---------------------------
(***************************************************************************)
(* ToolLifecycleManager (parser/tool_lifecycle_manager.go): which tool     *)
(* calls of a response are running, which are done, and which content      *)
(* block each one owns.                                                    *)
(*                                                                         *)
(* The handlers also return events; each has an operator of the same name  *)
(* that gives them as a function of the state before the step, so that a   *)
(* module that composes the manager can queue them in the same step.       *)
(***************************************************************************)
EXTENDS StreamEvents

CONSTANT ToolIds       (* ids the upstream may use                         *)

VARIABLES
    activeTools,          (* ids with a running execution                  *)
    completedTools,       (* ids whose execution ended, well or not        *)
    blockIndexMap,        (* block of each id, Unassigned before its first use *)
    nextToolBlock,        (* nextBlockIndex of the manager                 *)
    textIntroGenerated    (* the text introduction has been emitted        *)

toolVars == <<activeTools, completedTools, blockIndexMap, nextToolBlock,
              textIntroGenerated>>

\* Block 0 is never a tool's block, so it stands for "no entry in the map".
Unassigned == 0

ToolInit ==
    /\ activeTools = {}
    /\ completedTools = {}
    /\ blockIndexMap = [id \in ToolIds |-> Unassigned]
    /\ nextToolBlock = 1
    /\ textIntroGenerated = FALSE

\* Broken: every start takes a new block.
BlockForEveryStart(id) == nextToolBlock

\* getOrAssignBlockIndex: an id keeps the block it was given first.
BlockFor(id) == IF blockIndexMap[id] # Unassigned THEN blockIndexMap[id]
                                                  ELSE nextToolBlock

-----------------------------------------------------------------------------
\* Every caller passes one tool call.  hasArguments says whether its argument
\* string parses to a non-empty object.
IntroEvents == IF textIntroGenerated THEN <<>> ELSE <<BlockDelta(0, "text_delta")>>

NewToolEvents(id, hasArguments) ==
    <<ToolStart(BlockFor(id), id)>>
    \o IF hasArguments THEN <<BlockDelta(BlockFor(id), "input_json_delta")>> ELSE <<>>

ToolCallRequestEvents(id, hasArguments) ==
    IntroEvents \o IF id \in activeTools THEN <<>> ELSE NewToolEvents(id, hasArguments)

\* Broken: the block is handed out again.
HandleToolCallRequestSharing(id) ==
    /\ textIntroGenerated' = TRUE
    /\ activeTools' = activeTools \cup {id}
    /\ blockIndexMap' = IF id \in activeTools THEN blockIndexMap
                        ELSE [blockIndexMap EXCEPT ![id] = BlockFor(id)]
    /\ UNCHANGED <<completedTools, nextToolBlock>>

HandleToolCallRequest(id) ==
    /\ textIntroGenerated' = TRUE
    /\ activeTools' = activeTools \cup {id}
    /\ blockIndexMap' = IF id \in activeTools THEN blockIndexMap
                        ELSE [blockIndexMap EXCEPT ![id] = BlockFor(id)]
    /\ nextToolBlock' = IF id \notin activeTools /\ BlockFor(id) = nextToolBlock
                        THEN nextToolBlock + 1 ELSE nextToolBlock
    /\ UNCHANGED completedTools

\* A result for an id that is not active is ignored.
ToolCallResultEvents(id) ==
    IF id \in activeTools THEN <<BlockStop(blockIndexMap[id])>> ELSE <<>>

\* Broken: the execution is dropped instead of kept as completed.
HandleToolCallResultForgetting(id) ==
    /\ activeTools' = activeTools \ {id}
    /\ UNCHANGED <<completedTools, blockIndexMap, nextToolBlock, textIntroGenerated>>

HandleToolCallResult(id) ==
    /\ completedTools' = completedTools \cup ({id} \cap activeTools)
    /\ activeTools' = activeTools \ {id}
    /\ UNCHANGED <<blockIndexMap, nextToolBlock, textIntroGenerated>>

\* An error closes the block like a result; its "error" event is forwarded.
ToolCallErrorEvents(id) == ToolCallResultEvents(id)

HandleToolCallError(id) == HandleToolCallResult(id)

-----------------------------------------------------------------------------
\* The manager on its own: any call in any order.
ToolNext ==
    \E id \in ToolIds :
        \/ HandleToolCallRequest(id)
        \/ HandleToolCallResult(id)
        \/ HandleToolCallError(id)

ToolSpec == ToolInit /\ [][ToolNext]_toolVars

-----------------------------------------------------------------------------
ToolTypeOK ==
    /\ activeTools \subseteq ToolIds
    /\ completedTools \subseteq ToolIds
    /\ blockIndexMap \in [ToolIds -> Nat]
    /\ nextToolBlock \in Nat \ {0}
    /\ textIntroGenerated \in BOOLEAN

\* No two tools share a block, none has the block reserved for text (index 0,
\* tool_lifecycle_manager.go:24), and the next block to hand out is above all
\* of them (301-310).
DistinctBlocks ==
    /\ \A id \in ToolIds : blockIndexMap[id] < nextToolBlock
    /\ \A a, b \in ToolIds :
          blockIndexMap[a] = blockIndexMap[b] /\ a # b => blockIndexMap[a] = Unassigned

\* The tools that own a block are those the manager has registered, running
\* or done: a stop can always name the block (171-181, 241-266).
RegisteredHaveBlocks ==
    \A id \in ToolIds :
        blockIndexMap[id] # Unassigned <=> id \in activeTools \cup completedTools

\* A tool keeps its block for the whole response, also when it is requested
\* again after it ended (301-304).
StableBlocks ==
    [][\A id \in ToolIds : blockIndexMap[id] # Unassigned
                              => blockIndexMap'[id] = blockIndexMap[id]]_toolVars
=============================================================================
