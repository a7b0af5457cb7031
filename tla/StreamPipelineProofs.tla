------------------------ MODULE StreamPipelineProofs ------------------------
(***************************************************************************)
(* The stream a client gets, for every number of tools, blocks and         *)
(* messages.                                                               *)
(*                                                                         *)
(*   1. The types, and the blocks of the tools, for any upstream           *)
(*      (PipelineInv).                                                     *)
(*   2. What a well-behaved upstream (Liberties = {}) gets in addition:    *)
(*      StreamInv says which events can be queued and in which order, and  *)
(*      what the manager, the tool manager and the processor must have     *)
(*      recorded for each.                                                 *)
(*   3. From it: Faultless, ThinkingDelivered, StopReasonHonest,           *)
(*      ToolsDelivered and the safety part of ClaudeStream.                *)
(***************************************************************************)
EXTENDS StreamPipeline, TLAPS, SequenceTheorems, FiniteSetTheorems

-----------------------------------------------------------------------------
(* The events of the pipeline.                                              *)
Kinds == ssm!BlockTypes \cup DeltaKinds \cup Reasons
EventTypes == {"message_start", "content_block_start", "content_block_delta",
               "content_block_stop", "exception", "close_open_blocks",
               "message_delta", "message_stop"}

\* An event says what its type needs.
Complete(e) ==
    /\ e.type = "content_block_start" => e.kind \in ssm!BlockTypes
    /\ e.type = "content_block_delta" => e.kind \in DeltaKinds
    /\ e.type = "message_delta" => e.kind \in Reasons \ {"none"}

Event == {e \in [type: EventTypes, index: ssm!Index, kind: Kinds,
                 id: ToolIds \cup {NoToolId}] : Complete(e)}

\* What the assumptions say of the indices.
LEMMA MaxIndexFacts ==
    /\ MaxIndex \in Nat \ {0}
    /\ FALSE \in BOOLEAN
    /\ ssm!Index = 0 .. MaxIndex
    /\ 0 \in ssm!Index /\ 1 \in ssm!Index
  BY PipelineAssumption DEF ssm!Index

\* The constructors of StreamEvents give events.
LEMMA EventConstructors ==
    ASSUME NEW i \in ssm!Index
    PROVE  /\ \A t \in ssm!BlockTypes : BlockStart(i, t) \in Event
           /\ \A id \in ToolIds : ToolStart(i, id) \in Event
           /\ \A d \in DeltaKinds : BlockDelta(i, d) \in Event
           /\ BlockStop(i) \in Event
           /\ Overflow \in Event /\ MessageStart \in Event
           /\ CloseOpenBlocks \in Event /\ MessageStop \in Event
           /\ \A r \in Reasons \ {"none"} : MessageDelta(r) \in Event
<1> USE MaxIndexFacts DEF BlockEvent, Event, Complete, EventTypes, Kinds, Reasons
<1>1. \A t \in ssm!BlockTypes : BlockStart(i, t) \in Event
  BY DEF BlockStart
<1>2. \A id \in ToolIds : ToolStart(i, id) \in Event
  BY DEF ToolStart, ssm!BlockTypes
<1>3. \A d \in DeltaKinds : BlockDelta(i, d) \in Event
  BY DEF BlockDelta
<1>4. BlockStop(i) \in Event
  BY DEF BlockStop
<1>5. /\ Overflow \in Event /\ MessageStart \in Event
      /\ CloseOpenBlocks \in Event /\ MessageStop \in Event
  BY DEF Overflow, MessageStart, CloseOpenBlocks, MessageStop
<1>6. \A r \in Reasons \ {"none"} : MessageDelta(r) \in Event
  BY DEF MessageDelta
<1> QED
  BY <1>1, <1>2, <1>3, <1>4, <1>5, <1>6

\* The short sequences a message puts together.
LEMMA Concatenations ==
    ASSUME NEW a \in Event, NEW b \in Event, NEW c \in Event
    PROVE  /\ <<a>> \o <<b>> = <<a, b>>
           /\ <<a>> \o <<b, c>> = <<a, b, c>>
<1>1. ASSUME NEW s \in Seq(Event), NEW t \in Seq(Event), NEW u \in Seq(Event),
             Len(u) = Len(s) + Len(t),
             \A i \in 1 .. Len(u) : u[i] = IF i <= Len(s) THEN s[i] ELSE t[i - Len(s)]
      PROVE  s \o t = u
  BY <1>1, ConcatProperties, SeqEqual
<1>2. <<a>> \o <<b>> = <<a, b>>
  <2>1. /\ <<a>> \in Seq(Event) /\ <<b>> \in Seq(Event) /\ <<a, b>> \in Seq(Event)
        /\ Len(<<a>>) = 1 /\ Len(<<b>>) = 1 /\ Len(<<a, b>>) = 2
    OBVIOUS
  <2>2. \A i \in 1 .. 2 : <<a, b>>[i] = IF i <= 1 THEN <<a>>[i] ELSE <<b>>[i - 1]
    OBVIOUS
  <2>3. /\ Len(<<a, b>>) = Len(<<a>>) + Len(<<b>>)
        /\ \A i \in 1 .. Len(<<a, b>>) :
              <<a, b>>[i] = IF i <= Len(<<a>>) THEN <<a>>[i]
                       ELSE <<b>>[i - Len(<<a>>)]
    BY <2>1, <2>2
  <2> QED
    BY <1>1, <2>1, <2>3, Zenon
<1>3. <<a>> \o <<b, c>> = <<a, b, c>>
  <2>1. /\ <<a>> \in Seq(Event) /\ <<b, c>> \in Seq(Event) /\ <<a, b, c>> \in Seq(Event)
        /\ Len(<<a>>) = 1 /\ Len(<<b, c>>) = 2 /\ Len(<<a, b, c>>) = 3
    OBVIOUS
  <2>2. \A i \in 1 .. 3 : <<a, b, c>>[i] = IF i <= 1 THEN <<a>>[i] ELSE <<b, c>>[i - 1]
    OBVIOUS
  <2>3. /\ Len(<<a, b, c>>) = Len(<<a>>) + Len(<<b, c>>)
        /\ \A i \in 1 .. Len(<<a, b, c>>) :
              <<a, b, c>>[i] = IF i <= Len(<<a>>) THEN <<a>>[i]
                       ELSE <<b, c>>[i - Len(<<a>>)]
    BY <2>1, <2>2
  <2> QED
    BY <1>1, <2>1, <2>3, Zenon
<1> QED
  BY <1>2, <1>3

LEMMA ConcatenatedPairs ==
    ASSUME NEW a \in Event, NEW b \in Event, NEW c \in Event, NEW d \in Event
    PROVE  <<a, b>> \o <<c, d>> = <<a, b, c, d>>
<1>1. ASSUME NEW s \in Seq(Event), NEW t \in Seq(Event), NEW u \in Seq(Event),
             Len(u) = Len(s) + Len(t),
             \A i \in 1 .. Len(u) : u[i] = IF i <= Len(s) THEN s[i] ELSE t[i - Len(s)]
      PROVE  s \o t = u
  BY <1>1, ConcatProperties, SeqEqual
<1>2. /\ <<a, b>> \in Seq(Event) /\ <<c, d>> \in Seq(Event) /\ <<a, b, c, d>> \in Seq(Event)
      /\ Len(<<a, b>>) = 2 /\ Len(<<c, d>>) = 2 /\ Len(<<a, b, c, d>>) = 4
  OBVIOUS
<1>3. \A i \in 1 .. 4 : <<a, b, c, d>>[i] = IF i <= 2 THEN <<a, b>>[i] ELSE <<c, d>>[i - 2]
  OBVIOUS
<1>4. /\ Len(<<a, b, c, d>>) = Len(<<a, b>>) + Len(<<c, d>>)
      /\ \A i \in 1 .. Len(<<a, b, c, d>>) :
              <<a, b, c, d>>[i] = IF i <= Len(<<a, b>>) THEN <<a, b>>[i]
                       ELSE <<c, d>>[i - Len(<<a, b>>)]
  BY <1>2, <1>3
<1> QED
  BY <1>1, <1>2, <1>4, Zenon

LEMMA ConcatenatedThree ==
    ASSUME NEW a \in Event, NEW b \in Event, NEW c \in Event, NEW d \in Event
    PROVE  <<a>> \o <<b, c, d>> = <<a, b, c, d>>
<1>1. ASSUME NEW s \in Seq(Event), NEW t \in Seq(Event), NEW u \in Seq(Event),
             Len(u) = Len(s) + Len(t),
             \A i \in 1 .. Len(u) : u[i] = IF i <= Len(s) THEN s[i] ELSE t[i - Len(s)]
      PROVE  s \o t = u
  BY <1>1, ConcatProperties, SeqEqual
<1>2. /\ <<a>> \in Seq(Event) /\ <<b, c, d>> \in Seq(Event) /\ <<a, b, c, d>> \in Seq(Event)
      /\ Len(<<a>>) = 1 /\ Len(<<b, c, d>>) = 3 /\ Len(<<a, b, c, d>>) = 4
  OBVIOUS
<1>3. \A i \in 1 .. 4 : <<a, b, c, d>>[i] = IF i <= 1 THEN <<a>>[i] ELSE <<b, c, d>>[i - 1]
  OBVIOUS
<1>4. /\ Len(<<a, b, c, d>>) = Len(<<a>>) + Len(<<b, c, d>>)
      /\ \A i \in 1 .. Len(<<a, b, c, d>>) :
              <<a, b, c, d>>[i] = IF i <= Len(<<a>>) THEN <<a>>[i]
                       ELSE <<b, c, d>>[i - Len(<<a>>)]
  BY <1>2, <1>3
<1> QED
  BY <1>1, <1>2, <1>4, Zenon

\* The queue without its first event.
LEMMA TailOfQueue ==
    ASSUME queue \in Seq(Event), queue # <<>>
    PROVE  /\ Head(queue) \in Event /\ Head(queue) = queue[1]
           /\ Tail(queue) \in Seq(Event)
           /\ Len(queue) \in Nat \ {0}
           /\ Len(Tail(queue)) = Len(queue) - 1
           /\ \A k \in 1 .. Len(Tail(queue)) :
                 /\ Tail(queue)[k] = queue[k + 1]
                 /\ k + 1 \in 1 .. Len(queue)
  BY HeadTailProperties

-----------------------------------------------------------------------------
(* The tool manager: its blocks are counted, so no index is beyond the last. *)
Assigned == {id \in ToolIds : blockIndexMap[id] # Unassigned}

ToolsInv ==
    /\ ToolTypeOK
    /\ DistinctBlocks
    /\ RegisteredHaveBlocks
    /\ nextToolBlock = 1 + Cardinality(Assigned)

\* An index is left for every tool that has none yet.
LEMMA AssignedCount ==
    ASSUME ToolsInv
    PROVE  /\ IsFiniteSet(Assigned)
           /\ nextToolBlock \in 1 .. MaxIndex + 1
           /\ \A id \in ToolIds : blockIndexMap[id] \in ssm!Index
           /\ \A id \in ToolIds : BlockFor(id) \in ssm!Index /\ BlockFor(id) # 0
           /\ \A id \in ToolIds \ Assigned : IsFiniteSet(Assigned \cup {id})
                  /\ Cardinality(Assigned \cup {id}) = Cardinality(Assigned) + 1
<1>1. Assigned \subseteq ToolIds /\ IsFiniteSet(ToolIds)
  BY PipelineAssumption DEF Assigned
<1>2. /\ IsFiniteSet(Assigned)
      /\ Cardinality(Assigned) \in Nat /\ Cardinality(ToolIds) \in Nat
      /\ Cardinality(Assigned) <= Cardinality(ToolIds)
  BY <1>1, FS_Subset, FS_CardinalityType
<1>3. nextToolBlock \in 1 .. MaxIndex + 1
  BY <1>2, PipelineAssumption DEF ToolsInv
<1>4. ASSUME NEW id \in ToolIds \ Assigned
      PROVE  /\ IsFiniteSet(Assigned \cup {id})
             /\ Cardinality(Assigned \cup {id}) = Cardinality(Assigned) + 1
             /\ nextToolBlock \in 1 .. MaxIndex
  <2>1. IsFiniteSet(Assigned \cup {id}) /\ Cardinality(Assigned \cup {id}) = Cardinality(Assigned) + 1
    BY <1>2, FS_AddElement
  <2>2. Assigned \cup {id} \subseteq ToolIds
    BY <1>1
  <2>3. Cardinality(Assigned \cup {id}) <= Cardinality(ToolIds)
    BY <1>1, <2>2, FS_Subset
  <2> QED
    BY <1>2, <2>1, <2>3, PipelineAssumption DEF ToolsInv
<1>5. ASSUME NEW id \in ToolIds
      PROVE  blockIndexMap[id] \in 0 .. MaxIndex
  BY <1>3, MaxIndexFacts DEF ToolsInv, ToolTypeOK, DistinctBlocks
<1>6. ASSUME NEW id \in ToolIds
      PROVE  BlockFor(id) \in 1 .. MaxIndex
  <2>1. CASE id \in Assigned
    BY <1>5, <2>1, MaxIndexFacts DEF BlockFor, Assigned, Unassigned
  <2>2. CASE id \notin Assigned
    BY <1>4, <2>2 DEF BlockFor, Assigned
  <2> QED
    BY <2>1, <2>2
<1> QED
  BY <1>2, <1>3, <1>4, <1>5, <1>6, MaxIndexFacts

\* No tool has a block at first.
LEMMA ToolInitInv == ToolInit => ToolsInv
<1> SUFFICES ASSUME ToolInit PROVE ToolsInv
  OBVIOUS
<1>1. Assigned = {}
  BY DEF ToolInit, Assigned
<1>2. Cardinality(Assigned) = 0
  BY <1>1, FS_EmptySet
<1>3. ToolTypeOK
  <2>1. blockIndexMap \in [ToolIds -> Nat] /\ nextToolBlock \in Nat \ {0}
    BY DEF ToolInit, Unassigned
  <2>2. textIntroGenerated \in BOOLEAN /\ activeTools \subseteq ToolIds /\ completedTools \subseteq ToolIds
    BY Zenon DEF ToolInit
  <2> QED
    BY <2>1, <2>2, Zenon DEF ToolTypeOK
<1>4. DistinctBlocks /\ RegisteredHaveBlocks
  BY DEF ToolInit, DistinctBlocks, RegisteredHaveBlocks, Unassigned
<1> QED
  BY <1>2, <1>3, <1>4 DEF ToolsInv, ToolInit

\* What a request changes.
LEMMA RequestInv ==
    ASSUME ToolsInv, NEW id \in ToolIds, HandleToolCallRequest(id)
    PROVE  /\ ToolsInv'
           /\ blockIndexMap'[id] = IF id \in activeTools THEN blockIndexMap[id] ELSE BlockFor(id)
           /\ \A other \in ToolIds \ {id} : blockIndexMap'[other] = blockIndexMap[other]
           /\ id \in Assigned => blockIndexMap'[id] = blockIndexMap[id]
           /\ Assigned' = Assigned \cup {id}
           /\ activeTools' = activeTools \cup {id}
           /\ completedTools' = completedTools
<1>1. CASE id \in activeTools
  <2>1. UNCHANGED <<blockIndexMap, nextToolBlock, completedTools, activeTools>>
        /\ textIntroGenerated' = TRUE
    BY <1>1 DEF HandleToolCallRequest
  <2>2. id \in Assigned
    BY <1>1 DEF ToolsInv, RegisteredHaveBlocks, Assigned
  <2>3. Assigned' = Assigned
    BY <2>1 DEF Assigned
  <2> QED
    BY <1>1, <2>1, <2>2, <2>3 DEF ToolsInv, ToolTypeOK, DistinctBlocks, RegisteredHaveBlocks
<1>2. CASE id \notin activeTools
  <2>1. /\ blockIndexMap' = [blockIndexMap EXCEPT ![id] = BlockFor(id)]
        /\ nextToolBlock' = IF BlockFor(id) = nextToolBlock
                            THEN nextToolBlock + 1 ELSE nextToolBlock
        /\ activeTools' = activeTools \cup {id}
        /\ UNCHANGED completedTools /\ textIntroGenerated' = TRUE
    BY <1>2 DEF HandleToolCallRequest
  <2>2. /\ blockIndexMap \in [ToolIds -> Nat] /\ nextToolBlock \in Nat \ {0}
        /\ BlockFor(id) \in Nat \ {0}
    BY AssignedCount, MaxIndexFacts DEF ToolsInv, ToolTypeOK
  <2>3. ToolTypeOK'
    BY <2>1, <2>2 DEF ToolsInv, ToolTypeOK
  <2>4. /\ blockIndexMap'[id] = BlockFor(id)
        /\ \A other \in ToolIds \ {id} : blockIndexMap'[other] = blockIndexMap[other]
    BY <2>1, <2>2
  <2>5. Assigned' = Assigned \cup {id}
    BY <2>2, <2>4 DEF Assigned, Unassigned
  <2>6. RegisteredHaveBlocks'
    BY <2>1, <2>2, <2>4 DEF ToolsInv, RegisteredHaveBlocks, Unassigned
  <2>7. CASE id \in Assigned
    <3>1. BlockFor(id) = blockIndexMap[id] /\ blockIndexMap[id] < nextToolBlock
      BY <2>7 DEF BlockFor, Assigned, ToolsInv, DistinctBlocks
    <3>2. blockIndexMap' = blockIndexMap /\ nextToolBlock' = nextToolBlock
      BY <2>1, <2>2, <3>1
    <3>3. Assigned' = Assigned
      BY <3>2 DEF Assigned
    <3> QED
      BY <1>2, <2>1, <2>3, <2>4, <2>5, <2>6, <3>1, <3>2, <3>3 DEF ToolsInv, DistinctBlocks
  <2>8. CASE id \notin Assigned
    <3>1. BlockFor(id) = nextToolBlock
      BY <2>8 DEF BlockFor, Assigned
    <3>2. nextToolBlock' = nextToolBlock + 1
      BY <2>1, <3>1
    <3>3. DistinctBlocks'
      BY <2>2, <2>4, <3>1, <3>2 DEF ToolsInv, DistinctBlocks, Unassigned
    <3>4. Cardinality(Assigned') = Cardinality(Assigned) + 1
      BY <2>5, <2>8, AssignedCount
    <3>5. nextToolBlock' = 1 + Cardinality(Assigned')
      BY <3>2, <3>4, FS_CardinalityType, AssignedCount DEF ToolsInv
    <3> QED
      BY <1>2, <2>1, <2>3, <2>4, <2>5, <2>6, <2>8, <3>3, <3>5 DEF ToolsInv
  <2> QED
    BY <2>7, <2>8
<1> QED
  BY <1>1, <1>2

\* A result or an error moves the tool from the active to the completed ones.
LEMMA ResultInv ==
    ASSUME ToolsInv, NEW id \in ToolIds, HandleToolCallResult(id)
    PROVE  /\ ToolsInv'
           /\ activeTools' = activeTools \ {id}
           /\ UNCHANGED <<blockIndexMap, Assigned>>
<1>1. /\ completedTools' = completedTools \cup ({id} \cap activeTools)
      /\ activeTools' = activeTools \ {id}
      /\ UNCHANGED <<blockIndexMap, nextToolBlock, textIntroGenerated>>
  BY DEF HandleToolCallResult
<1>2. UNCHANGED Assigned
  BY <1>1 DEF Assigned
<1>3. ToolTypeOK' /\ DistinctBlocks' /\ RegisteredHaveBlocks'
  BY <1>1 DEF ToolsInv, ToolTypeOK, DistinctBlocks, RegisteredHaveBlocks
<1> QED
  BY <1>1, <1>2, <1>3 DEF ToolsInv

\* The steps that leave the tool manager alone.
LEMMA ToolsUnchanged == ToolsInv /\ UNCHANGED toolVars => ToolsInv'
  BY DEF toolVars, ToolsInv, ToolTypeOK, DistinctBlocks, RegisteredHaveBlocks, Assigned

-----------------------------------------------------------------------------
(* What holds whatever the upstream does.                                    *)
ThinkingType ==
    /\ thinkingEnabled \in BOOLEAN
    /\ thinkingState \in {"not_in_thinking", "in_thinking", "thinking_extracted"}
    /\ buffered \in BOOLEAN
    /\ saidText \in BOOLEAN

ProcessorType ==
    /\ toolUseIdByBlockIndex \in [ssm!Index -> ToolIds \cup {NoToolId}]
    /\ completedToolUseIds \subseteq ToolIds

RestType ==
    /\ received \in 0 .. MaxMessages
    /\ upstreamDone \in BOOLEAN
    /\ stopReason \in Reasons
    /\ dropped \subseteq DeltaKinds

PipelineInv ==
    /\ ToolsInv
    /\ ssm!IInv
    /\ queue \in Seq(Event)
    /\ ThinkingType
    /\ ProcessorType
    /\ RestType

\* The invariant gives the type invariant.
LEMMA PipelineTypes == PipelineInv => TypeOK
<1> SUFFICES ASSUME PipelineInv PROVE TypeOK
  OBVIOUS
<1>1. ToolTypeOK /\ ssm!TypeOK
  BY DEF PipelineInv, ToolsInv, ssm!IInv
<1>2. \A k \in 1 .. Len(queue) : queue[k].index \in ssm!Index
  BY ElementOfSeq DEF PipelineInv, Event
<1> QED
  BY <1>1, <1>2, Zenon DEF PipelineInv, ThinkingType, ProcessorType, RestType, TypeOK

\* It holds at first.
LEMMA PipelineInit == Init => PipelineInv
<1> SUFFICES ASSUME Init PROVE PipelineInv
  OBVIOUS
<1>1. ToolsInv /\ ssm!IInv
  BY ToolInitInv, ssm!InitInv, MaxIndexFacts DEF Init
<1>2. queue \in Seq(Event)
  BY EventConstructors, MaxIndexFacts DEF Init
<1>3. ThinkingType
  BY Zenon DEF Init, ThinkingType
<1>4. ProcessorType
  BY DEF Init, ProcessorType
<1>5. RestType
  <2>1. received \in 0 .. MaxMessages
    BY PipelineAssumption DEF Init
  <2> QED
    BY <2>1, Zenon DEF Init, RestType, Reasons
<1> QED
  BY <1>1, <1>2, <1>3, <1>4, <1>5 DEF PipelineInv

\* A message of the upstream only fills the queue.
LEMMA ReceiveKeeps ==
    ASSUME PipelineInv, NEW events \in Seq(Event), Receive(events),
           ToolsInv', ThinkingType'
    PROVE  PipelineInv'
<1>1. UNCHANGED <<ssmState, processorVars, upstreamDone, stopReason, dropped>>
      /\ queue' = events /\ received < MaxMessages /\ received' = received + 1
  BY DEF Receive
<1>2. ssm!IInv'
  <2>1. UNCHANGED ssm!ssmVars
    BY <1>1 DEF ssmState, ssm!ssmVars
  <2> QED
    BY <2>1, ssm!StepInv, MaxIndexFacts DEF PipelineInv
<1>3. ProcessorType'
  BY <1>1 DEF PipelineInv, ProcessorType, processorVars
<1>4. received' \in 0 .. MaxMessages
  BY <1>1, PipelineAssumption DEF PipelineInv, RestType
<1>5. RestType'
  BY <1>1, <1>4, Zenon DEF PipelineInv, RestType
<1> QED
  BY <1>1, <1>2, <1>3, <1>5 DEF PipelineInv

\* The kinds of the events the parser makes.
LEMMA KindFacts ==
    /\ "text_delta" \in DeltaKinds /\ "thinking_delta" \in DeltaKinds
    /\ "input_json_delta" \in DeltaKinds
    /\ "thinking" \in ssm!BlockTypes /\ "text" \in ssm!BlockTypes
    /\ "tool_use" \in ssm!BlockTypes
    /\ DetermineStopReason \in Reasons \ {"none"} /\ "max_tokens" \in Reasons \ {"none"}
    /\ ThinkingIndex = 0 /\ TextIndex = 1
    /\ DeltaKinds = ssm!DeltaTypes
  BY DEF DeltaKinds, ssm!BlockTypes, Reasons, DetermineStopReason, ThinkingIndex, TextIndex, ssm!DeltaTypes

\* Every message of the upstream keeps it.
LEMMA UpstreamKeeps == PipelineInv /\ Upstream => PipelineInv'
<1> SUFFICES ASSUME PipelineInv, Upstream PROVE PipelineInv'
  OBVIOUS
<1> USE KindFacts, MaxIndexFacts
<1>0. ToolsInv /\ ThinkingType
  BY DEF PipelineInv
<1>1. /\ UNCHANGED toolVars => ToolsInv'
      /\ UNCHANGED thinkingVars => ThinkingType'
  BY <1>0, ToolsUnchanged DEF ThinkingType, thinkingVars
<1>2. \A e \in Event : <<>> \in Seq(Event) /\ <<e>> \in Seq(Event)
  OBVIOUS
<1>3. \A s, t \in Seq(Event) : s \o t \in Seq(Event)
  BY ConcatProperties
<1>4. CASE Text
  BY <1>1, <1>2, <1>4, EventConstructors, ReceiveKeeps DEF Text
<1>5. CASE CompletionChunk
  <2>1. \A finished \in BOOLEAN :
           <<BlockDelta(0, "text_delta")>> \o (IF finished THEN <<BlockStop(0)>> ELSE <<>>) \in Seq(Event)
    BY <1>2, <1>3, EventConstructors
  <2> QED
    BY <1>1, <1>5, <2>1, ReceiveKeeps DEF CompletionChunk
<1>6. CASE ThinkingChunk
  <2>1. UNCHANGED toolVars
    BY <1>6 DEF ThinkingChunk
  <2>2. ASSUME NEW i \in {0, 1}, NEW d \in DeltaKinds,
               NEW s \in Maybe(BlockDelta(i, d))
        PROVE  s \in Seq(Event)
    BY <1>2, EventConstructors DEF Maybe
  <2>3. CASE BeforeThinking
    <3>1. ThinkingType'
      BY <1>0, <2>3, Zenon DEF BeforeThinking, ThinkingType
    <3> QED
      BY <1>1, <2>1, <2>2, <2>3, <3>1, ReceiveKeeps DEF BeforeThinking
  <2>4. CASE EnterThinking
    <3>1. ThinkingType'
      BY <1>0, <2>4, Zenon DEF EnterThinking, ThinkingType
    <3>2. <<BlockStart(ThinkingIndex, "thinking")>> \in Seq(Event)
      BY <1>2, EventConstructors
    <3>3. \A text \in Maybe(BlockDelta(0, "text_delta")) :
             <<BlockStart(ThinkingIndex, "thinking")>> \o text \in Seq(Event)
      BY <1>3, <2>2, <3>2
    <3> QED
      BY <1>1, <2>1, <2>4, <3>1, <3>3, ReceiveKeeps DEF EnterThinking
  <2>5. CASE InThinking
    <3>1. ThinkingType'
      BY <1>0, <2>5, Zenon DEF InThinking, ThinkingType
    <3>2. \A thought \in Maybe(BlockDelta(ThinkingIndex, "thinking_delta")) : thought \in Seq(Event)
      BY <2>2
    <3> QED
      BY <1>1, <2>1, <2>5, <3>1, <3>2, ReceiveKeeps DEF InThinking
  <2>6. CASE LeaveThinking
    <3>1. ThinkingType'
      BY <1>0, <2>6, Zenon DEF LeaveThinking, ThinkingType
    <3>2. \A thought \in Maybe(BlockDelta(ThinkingIndex, "thinking_delta")) : thought \in Seq(Event)
      BY <2>2
    <3>3. <<BlockStop(ThinkingIndex)>> \in Seq(Event)
          /\ <<BlockStart(TextIndex, "text"), BlockDelta(TextIndex, "text_delta")>> \in Seq(Event)
      BY EventConstructors
    <3>4. PICK thought \in Maybe(BlockDelta(ThinkingIndex, "thinking_delta")), text \in BOOLEAN :
             Receive(thought \o <<BlockStop(ThinkingIndex)>>
                     \o IF text THEN <<BlockStart(TextIndex, "text"),
                                       BlockDelta(TextIndex, "text_delta")>>
                                ELSE <<>>)
      BY <2>6 DEF LeaveThinking
    <3>5. (IF text THEN <<BlockStart(TextIndex, "text"), BlockDelta(TextIndex, "text_delta")>>
                   ELSE <<>>) \in Seq(Event)
      BY <1>2, <3>3
    <3>6. thought \o <<BlockStop(ThinkingIndex)>> \in Seq(Event)
      BY <1>3, <3>2, <3>3
    <3> QED
      BY <1>1, <1>3, <2>1, <3>1, <3>4, <3>5, <3>6, ReceiveKeeps
  <2>7. CASE AfterThinking
    BY <1>1, <1>2, <2>1, <2>7, EventConstructors, ReceiveKeeps DEF AfterThinking
  <2> QED
    BY <1>6, <2>3, <2>4, <2>5, <2>6, <2>7 DEF ThinkingChunk
<1>7. ASSUME NEW id \in ToolIds, ToolRequest(id) PROVE PipelineInv'
  <2>1. ToolsInv'
    BY <1>0, <1>7, RequestInv DEF ToolRequest
  <2>2. BlockFor(id) \in ssm!Index
    BY <1>0, AssignedCount
  <2>3. ASSUME NEW hasArguments \in BOOLEAN
        PROVE  ToolCallRequestEvents(id, hasArguments) \in Seq(Event)
    <3>1. IntroEvents \in Seq(Event)
      BY <1>2, EventConstructors DEF IntroEvents
    <3>2. <<ToolStart(BlockFor(id), id)>> \in Seq(Event)
          /\ (IF hasArguments THEN <<BlockDelta(BlockFor(id), "input_json_delta")>> ELSE <<>>)
               \in Seq(Event)
      BY <1>2, <2>2, EventConstructors
    <3>3. NewToolEvents(id, hasArguments) \in Seq(Event)
      BY <1>3, <3>2 DEF NewToolEvents
    <3>4. (IF id \in activeTools THEN <<>> ELSE NewToolEvents(id, hasArguments)) \in Seq(Event)
      BY <1>2, <3>3
    <3> QED
      BY <1>3, <3>1, <3>4 DEF ToolCallRequestEvents
  <2> QED
    BY <1>1, <1>7, <2>1, <2>3, ReceiveKeeps DEF ToolRequest
<1>8. ASSUME NEW id \in ToolIds, ToolFragment(id) PROVE PipelineInv'
  <2>1. blockIndexMap[id] \in ssm!Index
    BY <1>0, AssignedCount
  <2>2. <<BlockDelta(blockIndexMap[id], "input_json_delta")>> \in Seq(Event)
    BY <1>2, <2>1, EventConstructors
  <2> QED
    BY <1>1, <1>8, <2>2, ReceiveKeeps DEF ToolFragment
<1>9. ASSUME NEW id \in ToolIds, ToolStop(id) \/ ToolError(id) PROVE PipelineInv'
  <2>1. blockIndexMap[id] \in ssm!Index
    BY <1>0, AssignedCount
  <2>2. ToolCallResultEvents(id) \in Seq(Event)
    BY <1>2, <2>1, EventConstructors DEF ToolCallResultEvents
  <2>3. /\ Receive(ToolCallResultEvents(id))
        /\ HandleToolCallResult(id)
        /\ UNCHANGED thinkingVars
    BY <1>9 DEF ToolStop, ToolError, ToolCallErrorEvents, HandleToolCallError
  <2>4. ToolsInv'
    BY <1>0, <2>3, ResultInv
  <2> QED
    BY <1>1, <2>2, <2>3, <2>4, ReceiveKeeps
<1>10. CASE ContentLengthExceeded
  BY <1>1, <1>2, <1>10, EventConstructors, ReceiveKeeps DEF ContentLengthExceeded
<1> QED
  BY <1>4, <1>5, <1>6, <1>7, <1>8, <1>9, <1>10 DEF Upstream

\* An event that is processed leaves the queue, and the manager takes a step.
LEMMA ProcessedKeeps ==
    ASSUME PipelineInv, queue # <<>>, Processed, ssm!IInv', ProcessorType',
           stopReason' \in Reasons, dropped' \subseteq DeltaKinds
    PROVE  PipelineInv'
<1>1. queue' \in Seq(Event) /\ UNCHANGED <<toolVars, thinkingVars, received, upstreamDone>>
  BY TailOfQueue DEF Processed, PipelineInv
<1>2. ToolsInv'
  BY <1>1, ToolsUnchanged DEF PipelineInv
<1>3. ThinkingType'
  BY <1>1 DEF PipelineInv, ThinkingType, thinkingVars
<1>4. received' \in 0 .. MaxMessages /\ upstreamDone' \in BOOLEAN
  BY <1>1 DEF PipelineInv, RestType
<1> QED
  BY <1>1, <1>2, <1>3, <1>4, Zenon DEF PipelineInv, RestType

\* What an event carries by its type.
LEMMA EventFacts ==
    ASSUME NEW e \in Event
    PROVE  /\ e.index \in ssm!Index /\ e.id \in ToolIds \cup {NoToolId}
           /\ e.type \in EventTypes
           /\ e.type = "content_block_start" => e.kind \in ssm!BlockTypes
           /\ e.type = "content_block_delta" => e.kind \in DeltaKinds
           /\ e.type = "message_delta" => e.kind \in Reasons \ {"none"}
  BY DEF Event, Complete

\* The processing of any event keeps it.
LEMMA ProcessKeeps == PipelineInv /\ ProcessEvent => PipelineInv'
<1> SUFFICES ASSUME PipelineInv, ProcessEvent PROVE PipelineInv'
  OBVIOUS
<1> USE MaxIndexFacts
<1> DEFINE e == Head(queue)
<1>1. queue # <<>>
  BY DEF ProcessEvent, SendMessageStart, ProcessStart, ProcessDelta, ProcessStop,
         ProcessOverflow, CloseAll, SendMessageDelta, SendMessageStop, IsNext
<1>2. e \in Event /\ ssm!IInv /\ ProcessorType /\ queue \in Seq(Event)
      /\ stopReason \in Reasons /\ dropped \subseteq DeltaKinds
  BY <1>1, TailOfQueue DEF PipelineInv, RestType
<1> HIDE DEF e
<1>3. /\ e.index \in ssm!Index /\ e.id \in ToolIds \cup {NoToolId}
      /\ e.type = "content_block_start" => e.kind \in ssm!BlockTypes
      /\ e.type = "content_block_delta" => e.kind \in DeltaKinds
      /\ e.type = "message_delta" => e.kind \in Reasons
  BY <1>2, EventFacts
<1>4. [ssm!Next]_(ssm!ssmVars) => ssm!IInv'
  BY <1>2, ssm!StepInv
<1>5. UNCHANGED processorVars => ProcessorType'
  BY <1>2 DEF processorVars, ProcessorType
<1>6. CASE SendMessageStart
  <2>1. ssm!Next
    BY <1>6 DEF SendMessageStart, ssm!Next
  <2> QED
    BY <1>1, <1>2, <1>4, <1>5, <1>6, <2>1, ProcessedKeeps DEF SendMessageStart
<1>7. CASE ProcessStart
  <2>1. ssm!HandleContentBlockStart(e.index, e.kind) /\ e.type = "content_block_start"
    BY <1>7 DEF ProcessStart, IsNext, e
  <2>2. ssm!Next
    BY <1>3, <2>1 DEF ssm!Next
  <2>3. ProcessorType'
    BY <1>2, <1>3, <1>7 DEF ProcessStart, ProcessorType, e
  <2> QED
    BY <1>1, <1>2, <1>4, <1>7, <2>2, <2>3, ProcessedKeeps DEF ProcessStart
<1>8. CASE ProcessDelta
  <2>1. ssm!HandleContentBlockDelta(e.index, e.kind) /\ e.type = "content_block_delta"
    BY <1>8 DEF ProcessDelta, IsNext, e
  <2>2. ssm!Next
    BY <1>3, <2>1, KindFacts DEF ssm!Next
  <2>3. dropped' \subseteq DeltaKinds
    BY <1>2, <1>3, <1>8, <2>1 DEF ProcessDelta, e
  <2> QED
    BY <1>1, <1>2, <1>4, <1>5, <1>8, <2>2, <2>3, ProcessedKeeps DEF ProcessDelta
<1>9. CASE ProcessStop
  <2>1. ssm!Next
    BY <1>3, <1>9 DEF ProcessStop, ssm!Next, e
  <2>2. ProcessorType'
    BY <1>2, <1>3, <1>9 DEF ProcessStop, ProcessorType, e
  <2> QED
    BY <1>1, <1>2, <1>4, <1>9, <2>1, <2>2, ProcessedKeeps DEF ProcessStop
<1>10. CASE ProcessOverflow
  <2>1. /\ queue' = <<CloseOpenBlocks, MessageDelta("max_tokens"), MessageStop>> \o Tail(queue)
        /\ UNCHANGED <<toolVars, ssmState, processorVars, thinkingVars, received,
                       upstreamDone, stopReason, dropped>>
    BY <1>10 DEF ProcessOverflow
  <2>2. <<CloseOpenBlocks, MessageDelta("max_tokens"), MessageStop>> \in Seq(Event)
    BY EventConstructors, KindFacts
  <2>3. queue' \in Seq(Event)
    BY <1>1, <1>2, <2>1, <2>2, TailOfQueue, ConcatProperties
  <2>4. ssm!IInv'
    BY <1>4, <2>1 DEF ssmState, ssm!ssmVars
  <2>5. ToolsInv' /\ ThinkingType' /\ RestType'
    BY <2>1, ToolsUnchanged DEF PipelineInv, ThinkingType, thinkingVars, RestType
  <2> QED
    BY <1>5, <2>1, <2>3, <2>4, <2>5 DEF PipelineInv
<1>11. CASE CloseAll
  <2>1. ssm!Unclosed \in SUBSET ssm!Index
    BY DEF ssm!Unclosed
  <2>2. ssm!IInv'
    BY <1>2, <1>11, <2>1, ssm!StopBlocksInv DEF CloseAll
  <2> QED
    BY <1>1, <1>2, <1>5, <1>11, <2>2, ProcessedKeeps DEF CloseAll
<1>12. CASE SendMessageDelta
  <2>1. ssm!Next
    BY <1>12 DEF SendMessageDelta, ssm!Next
  <2>2. stopReason' \in Reasons
    BY <1>2, <1>3, <1>12 DEF SendMessageDelta, IsNext, e
  <2> QED
    BY <1>1, <1>2, <1>4, <1>5, <1>12, <2>1, <2>2, ProcessedKeeps DEF SendMessageDelta
<1>13. CASE SendMessageStop
  <2>1. ssm!Next
    BY <1>13 DEF SendMessageStop, ssm!Next
  <2> QED
    BY <1>1, <1>2, <1>4, <1>5, <1>13, <2>1, ProcessedKeeps DEF SendMessageStop
<1> QED
  BY <1>6, <1>7, <1>8, <1>9, <1>10, <1>11, <1>12, <1>13 DEF ProcessEvent

\* So does a step that changes nothing.
LEMMA PipelineUnchanged == PipelineInv /\ UNCHANGED vars => PipelineInv'
<1> SUFFICES ASSUME PipelineInv, UNCHANGED vars PROVE PipelineInv'
  OBVIOUS
<1>1. ToolsInv'
  BY ToolsUnchanged DEF PipelineInv, vars
<1>2. ssm!IInv'
  BY ssm!StepInv, MaxIndexFacts DEF PipelineInv, vars, ssmState, ssm!ssmVars
<1>3. ThinkingType' /\ ProcessorType' /\ RestType'
  BY DEF PipelineInv, vars, ThinkingType, thinkingVars, ProcessorType, processorVars, RestType
<1> QED
  BY <1>1, <1>2, <1>3 DEF PipelineInv, vars

\* So does the end of the body.
LEMMA EndKeeps == PipelineInv /\ EndOfStream => PipelineInv'
<1> SUFFICES ASSUME PipelineInv, EndOfStream PROVE PipelineInv'
  OBVIOUS
<1> USE MaxIndexFacts, KindFacts
<1>1. /\ queue' = FlushEvents \o <<CloseOpenBlocks, MessageDelta(DetermineStopReason), MessageStop>>
      /\ upstreamDone' = TRUE /\ buffered' = FALSE
      /\ UNCHANGED <<toolVars, ssmState, processorVars, thinkingEnabled, thinkingState,
                     saidText, received, stopReason, dropped>>
  BY DEF EndOfStream
<1>2. FlushEvents \in Seq(Event)
  <2>1. /\ <<>> \in Seq(Event)
        /\ <<BlockDelta(ThinkingIndex, "thinking_delta")>> \in Seq(Event)
        /\ <<BlockDelta(0, "text_delta")>> \in Seq(Event)
    BY EventConstructors
  <2> QED
    BY <2>1, Zenon DEF FlushEvents
<1>3. <<CloseOpenBlocks, MessageDelta(DetermineStopReason), MessageStop>> \in Seq(Event)
  BY EventConstructors
<1>4. queue' \in Seq(Event)
  BY <1>1, <1>2, <1>3, ConcatProperties
<1>5. ssm!IInv'
  BY <1>1, ssm!StepInv DEF PipelineInv, ssmState, ssm!ssmVars
<1>6. ToolsInv'
  BY <1>1, ToolsUnchanged DEF PipelineInv
<1>7. ProcessorType'
  BY <1>1 DEF PipelineInv, ProcessorType, processorVars
<1>8. ThinkingType' /\ RestType'
  BY <1>1, Zenon DEF PipelineInv, ThinkingType, RestType
<1> QED
  BY <1>4, <1>5, <1>6, <1>7, <1>8 DEF PipelineInv

\* So the invariant is inductive, whatever the upstream sends.
LEMMA PipelineStep == PipelineInv /\ [Next]_vars => PipelineInv'
  BY UpstreamKeeps, EndKeeps, ProcessKeeps, PipelineUnchanged DEF Next, Finished

\* Every variable of the path keeps its type: no event names a block beyond
\* the last, whatever the upstream sends.
THEOREM TypeCorrect == Spec => []TypeOK
  BY PipelineInit, PipelineStep, PipelineTypes, PTL DEF Spec

\* A tool keeps its block for the whole response (tool_lifecycle_manager.go:
\* 301-304).
THEOREM StableBlocksHolds == Spec => StableBlocks
<1>1. PipelineInv /\ [Next]_vars =>
         [\A id \in ToolIds : blockIndexMap[id] # Unassigned
                               => blockIndexMap'[id] = blockIndexMap[id]]_toolVars
  <2> SUFFICES ASSUME PipelineInv, [Next]_vars,
                      NEW id \in ToolIds, blockIndexMap[id] # Unassigned
               PROVE  UNCHANGED toolVars \/ blockIndexMap'[id] = blockIndexMap[id]
    OBVIOUS
  <2>0. ToolsInv
    BY DEF PipelineInv
  <2>1. ASSUME NEW other \in ToolIds, HandleToolCallRequest(other)
        PROVE  blockIndexMap'[id] = blockIndexMap[id]
    BY <2>0, <2>1, RequestInv DEF Assigned
  <2>2. ASSUME NEW other \in ToolIds, HandleToolCallResult(other)
        PROVE  blockIndexMap'[id] = blockIndexMap[id]
    BY <2>0, <2>2, ResultInv
  <2>3. CASE Upstream
    BY <2>1, <2>2, <2>3 DEF Upstream, Text, CompletionChunk, ThinkingChunk, ToolRequest,
       ToolFragment, ToolStop, ToolError, HandleToolCallError, ContentLengthExceeded
  <2>4. CASE EndOfStream
    BY <2>4 DEF EndOfStream
  <2>5. CASE ProcessEvent
    BY <2>5 DEF ProcessEvent, SendMessageStart, ProcessStart, ProcessDelta, ProcessStop,
       ProcessOverflow, CloseAll, SendMessageDelta, SendMessageStop, Processed
  <2>6. CASE UNCHANGED vars
    BY <2>6 DEF vars
  <2> QED
    BY <2>3, <2>4, <2>5, <2>6 DEF Next, Finished
<1> QED
  BY <1>1, PipelineInit, PipelineStep, PTL DEF Spec, StableBlocks

-----------------------------------------------------------------------------
(* What holds when the upstream is the well-behaved one.                     *)
BlockEvents == {"content_block_start", "content_block_delta", "content_block_stop"}

\* The order of the events in the queue: a start is first, follows a stop or
\* the text introduction; a delta is first or follows the start of its block;
\* the closing events end the queue, in this order, with at most a delta before.
Follows(q, k) ==
    /\ q[k].type = "message_start" => Len(q) = 1
    /\ q[k].type = "exception" => Len(q) = 1
    /\ q[k].type = "content_block_start" /\ k # 1 =>
          /\ q[k].index # 0
          /\ \/ q[k - 1].type = "content_block_stop"
             \/ k = 2 /\ q[1].type = "content_block_delta" /\ q[1].index = 0
    /\ q[k].type = "content_block_delta" /\ k # 1 =>
          /\ q[k - 1].type = "content_block_start"
          /\ q[k - 1].index = q[k].index
    /\ q[k].type = "content_block_stop" /\ k # 1 =>
          k = 2 /\ q[1].type = "content_block_delta" /\ q[1].index = 0
    /\ q[k].type = "close_open_blocks" =>
          /\ k = Len(q) - 2 /\ q[Len(q)].type = "message_stop"
          /\ k # 1 => k = 2 /\ q[1].type = "content_block_delta"
    /\ q[k].type = "message_delta" =>
          /\ k = Len(q) - 1 /\ q[Len(q)].type = "message_stop"
          /\ k # 1 => q[k - 1].type = "close_open_blocks"
    /\ q[k].type = "message_stop" =>
          k = Len(q) /\ (k # 1 => q[k - 1].type = "message_delta")
Shape(q) == \A k \in 1 .. Len(q) : Follows(q, k)
ShapeInv == Shape(queue)

\* The type of the block of an index, from the first event of the response on.
TypeAt(i) ==
    IF thinkingEnabled
    THEN IF i = 0 /\ thinkingState # "not_in_thinking" THEN "thinking" ELSE "text"
    ELSE IF i = 0 THEN "text" ELSE "tool_use"

EndQueued == queue # <<>> /\ queue[Len(queue)].type \in {"exception", "message_stop"}
Ending == messageDeltaSent \/ EndQueued

StartOK(e) ==
    /\ e.kind = TypeAt(e.index)
    /\ e.index \notin ssm!Unclosed
    /\ e.kind = "tool_use" => e.id \in ToolIds /\ blockIndexMap[e.id] = e.index
    /\ e.kind # "tool_use" => e.id = NoToolId
EventOK(e) ==
    /\ e.type \in BlockEvents => ~messageDeltaSent
    /\ e.type = "content_block_start" => StartOK(e)
    /\ e.type = "content_block_delta" => ssm!TypeOfDelta(e.kind) = TypeAt(e.index)
    /\ e.type = "content_block_stop" =>
          /\ \A id \in activeTools : blockIndexMap[id] # e.index
          /\ thinkingEnabled => e.index = 0 /\ thinkingState = "thinking_extracted"
    /\ e.type = "message_delta" /\ e.kind # "max_tokens" =>
          (e.kind = "tool_use" <=> "tool_use" \in client.seen)
    /\ thinkingEnabled /\ thinkingState # "thinking_extracted" => e.index = 0
EventsInv == \A k \in 1 .. Len(queue) : EventOK(queue[k])

\* The event that is processed next finds what it needs.
DeltaReady(e) ==
    \/ e.index \in ssm!Unclosed
    \/ e.kind = "text_delta" /\ (thinkingEnabled => ~ssm!Exists(e.index))
HeadOK(e) ==
    /\ e.type = "content_block_delta" => DeltaReady(e)
    /\ e.type = "message_delta" => ssm!Unclosed = {}
    /\ e.type = "message_stop" => messageDeltaSent
HeadInv == queue # <<>> => HeadOK(queue[1])

MessageInv ==
    /\ ~messageStarted => queue = <<MessageStart>> /\ ~messageDeltaSent
    /\ messageEnded => messageDeltaSent
    /\ messageDeltaSent => ssm!Unclosed = {}
    /\ messageDeltaSent /\ ~messageEnded => queue # <<>>
    /\ messageDeltaSent /\ queue # <<>> => EndQueued
    /\ upstreamDone => Ending
    /\ Ending /\ ~upstreamDone => ~thinkingEnabled
    /\ messageDeltaSent /\ stopReason # "max_tokens" =>
          (stopReason = "tool_use" <=> "tool_use" \in client.seen)

BlocksInv ==
    \A i \in ssm!Index :
        /\ IF ssm!Exists(i) THEN activeBlocks[i].type = TypeAt(i)
                            ELSE ~activeBlocks[i].stopped
        /\ ~thinkingEnabled /\ ssm!Exists(i) /\ i # 0 =>
              \E id \in Assigned : blockIndexMap[id] = i

\* Every tool the parser took on is on its way to the client or was shown to
\* it and booked, and the block of a running one is open.
Pending(id) == \E k \in 1 .. Len(queue) :
                  queue[k].type = "content_block_start" /\ queue[k].id = id
Booked(id) == \/ toolUseIdByBlockIndex[blockIndexMap[id]] = id
              \/ id \in completedToolUseIds
ToolInv == \A id \in Assigned :
    /\ Pending(id) => id \in activeTools
    /\ Pending(id) \/ (ssm!Exists(blockIndexMap[id]) /\ Booked(id))
    /\ id \in activeTools /\ ~Ending => Pending(id) \/ blockIndexMap[id] \in ssm!Unclosed
    /\ id \notin activeTools /\ blockIndexMap[id] \in ssm!Unclosed =>
          queue # <<>> /\ queue[1].type = "content_block_stop" /\ queue[1].index = blockIndexMap[id]
    /\ ~thinkingEnabled

BookInv == "tool_use" \in client.seen <=> completedToolUseIds # {} \/ OpenToolIndices # {}

DropInv ==
    /\ "input_json_delta" \notin dropped
    /\ thinkingEnabled => dropped = {}

ThinkInv == thinkingEnabled =>
    /\ ~Ending => \A i \in ssm!Index : activeBlocks[i].stopped
                                          => i = 0 /\ thinkingState = "thinking_extracted"
    /\ thinkingState = "thinking_extracted" => ~buffered
    /\ thinkingState # "thinking_extracted" => \A i \in ssm!Index : ssm!Exists(i) => i = 0
    /\ thinkingState = "in_thinking" /\ ~Ending =>
          \/ 0 \in ssm!Unclosed
          \/ queue # <<>> /\ queue[1].type = "content_block_start"
    /\ thinkingState = "not_in_thinking" /\ ~saidText /\ ~upstreamDone =>
          /\ ~ssm!Exists(0)
          /\ queue # <<>> => queue[1].type = "message_start"

StreamInv ==
    /\ PipelineInv
    /\ ShapeInv
    /\ EventsInv
    /\ HeadInv
    /\ MessageInv
    /\ BlocksInv
    /\ ToolInv
    /\ BookInv
    /\ DropInv
    /\ ThinkInv
    /\ Faultless

\* The queue keeps its shape when its first event leaves.
LEMMA ShapeTail ==
    ASSUME queue \in Seq(Event), queue # <<>>, ShapeInv
    PROVE  Shape(Tail(queue))
<1> DEFINE q == queue
           t == Tail(queue)
<1>1. /\ Len(q) \in Nat \ {0} /\ Len(t) = Len(q) - 1
      /\ \A k \in 1 .. Len(t) : t[k] = q[k + 1] /\ k + 1 \in 1 .. Len(q)
  BY TailOfQueue
<1>2. SUFFICES ASSUME NEW k \in 1 .. Len(t)
               PROVE  Follows(t, k)
  BY DEF Shape
<1>3. t[k] = q[k + 1] /\ Follows(q, k + 1) /\ k \in Nat /\ k # 0 /\ t[Len(t)] = q[Len(q)]
  BY <1>1 DEF ShapeInv, Shape
<1> HIDE DEF q, t
<1>4. CASE k = 1
  BY <1>1, <1>3, <1>4 DEF Follows
<1>5. CASE k # 1
  <2>1. k - 1 \in 1 .. Len(t) /\ 1 \in 1 .. Len(t) /\ (k - 1) + 1 = k /\ (k + 1) - 1 = k
    BY <1>1, <1>5
  <2>2. t[k - 1] = q[k] /\ t[1] = q[2]
    BY <1>1, <2>1
  <2> QED
    BY <1>1, <1>3, <1>5, <2>1, <2>2 DEF Follows
<1> QED
  BY <1>4, <1>5

\* The messages of the upstream have that shape.
LEMMA ShapeNone == Shape(<<>>) /\ <<>> \in Seq(Event)
  BY DEF Shape

LEMMA ShapeOne ==
    \A e \in Event :
        e.type \in BlockEvents \cup {"exception", "message_start"}
            => Shape(<<e>>) /\ <<e>> \in Seq(Event)
  BY DEF Shape, Follows, BlockEvents

LEMMA ShapeTwo ==
    ASSUME NEW a \in Event, NEW b \in Event,
           \/ a.type = "content_block_delta" /\ a.index = 0 /\ b.type = "content_block_stop"
           \/ /\ a.type = "content_block_delta" /\ a.index = 0
              /\ b.type = "content_block_start" /\ b.index # 0
           \/ a.type = "content_block_start" /\ b.type = "content_block_delta" /\ a.index = b.index
    PROVE  Shape(<<a, b>>) /\ <<a, b>> \in Seq(Event)
<1>1. <<a, b>> \in Seq(Event)
  OBVIOUS
<1>2. Shape(<<a, b>>)
  BY DEF Shape, Follows
<1> QED
  BY <1>1, <1>2

LEMMA ShapeThree ==
    ASSUME NEW a \in Event, NEW b \in Event, NEW c \in Event,
           a.type = "content_block_stop" \/ (a.type = "content_block_delta" /\ a.index = 0),
           b.type = "content_block_start" /\ b.index # 0,
           c.type = "content_block_delta" /\ c.index = b.index
    PROVE  Shape(<<a, b, c>>) /\ <<a, b, c>> \in Seq(Event)
<1>1. <<a, b, c>> \in Seq(Event)
  OBVIOUS
<1>2. Shape(<<a, b, c>>)
  BY DEF Shape, Follows
<1> QED
  BY <1>1, <1>2

LEMMA ShapeFour ==
    ASSUME NEW a \in Event, NEW b \in Event, NEW c \in Event, NEW d \in Event,
           a.type = "content_block_delta" /\ a.index = 0,
           b.type = "content_block_stop",
           c.type = "content_block_start" /\ c.index # 0,
           d.type = "content_block_delta" /\ d.index = c.index
    PROVE  Shape(<<a, b, c, d>>) /\ <<a, b, c, d>> \in Seq(Event)
<1>1. <<a, b, c, d>> \in Seq(Event)
  OBVIOUS
<1>2. Shape(<<a, b, c, d>>)
  BY DEF Shape, Follows
<1> QED
  BY <1>1, <1>2

\* So has the ending, with a last delta before it or not.
LEMMA ClosingShapes ==
    ASSUME NEW d \in Event, d.type = "content_block_delta",
           NEW c \in Event, c.type = "close_open_blocks",
           NEW m \in Event, m.type = "message_delta",
           NEW s \in Event, s.type = "message_stop"
    PROVE  Shape(<<c, m, s>>) /\ Shape(<<d, c, m, s>>)
<1>1. Shape(<<c, m, s>>)
  BY DEF Shape, Follows
<1>2. Shape(<<d, c, m, s>>)
  BY DEF Shape, Follows
<1> QED
  BY <1>1, <1>2

-----------------------------------------------------------------------------
(* What the steps of the manager do when they meet no surprise.              *)
Streaming == messageStarted /\ ~messageDeltaSent /\ ~messageEnded

\* The invariant of the manager, in the terms used here.
LEMMA ManagerFacts ==
    ASSUME ssm!IInv
    PROVE  /\ ssm!TypeOK /\ ssm!Agreement
           /\ client \in ssm!ClientType /\ activeBlocks \in [ssm!Index -> ssm!BlockState]
           /\ ssm!OpenAt(client) = ssm!Unclosed
           /\ \A i \in ssm!Index : ssm!IsOpen(client, i) <=> i \in ssm!Unclosed
           /\ \A i \in ssm!Unclosed : client.block[i] = activeBlocks[i].type
           /\ ssm!Unclosed \subseteq ssm!Index
           /\ \A t : ssm!ClosedByStart(t) \subseteq ssm!Unclosed
           /\ client.started = messageStarted
           /\ client.deltaSent = messageDeltaSent
           /\ client.ended = messageEnded
<1>1. ssm!TypeOK /\ ssm!Agreement
  BY DEF ssm!IInv
<1>2. /\ ssm!OpenAt(client) = ssm!Unclosed
      /\ \A i \in ssm!Index : ssm!IsOpen(client, i) <=> i \in ssm!Unclosed
  BY <1>1, ssm!OpenIsUnclosed, MaxIndexFacts
<1>3. ssm!Unclosed \subseteq ssm!Index /\ \A t : ssm!ClosedByStart(t) \subseteq ssm!Unclosed
  BY <1>1, ssm!HelperType, MaxIndexFacts
<1>4. \A i \in ssm!Unclosed : client.block[i] = activeBlocks[i].type
  BY <1>1 DEF ssm!Agreement, ssm!ViewOf, ssm!Unclosed, ssm!Exists
<1> QED
  BY <1>1, <1>2, <1>3, <1>4 DEF ssm!TypeOK, ssm!Agreement

\* Stops for open blocks, while the message is streaming.
LEMMA StopsQuiet ==
    ASSUME ssm!IInv, NEW S \in SUBSET ssm!Unclosed, Streaming \/ S = {},
           NEW c, c = ssm!ReceiveBlockStops(client, S)
    PROVE  /\ c \in ssm!ClientType
           /\ c.faults = client.faults /\ c.seen = client.seen
           /\ c.started = client.started /\ c.deltaSent = client.deltaSent
           /\ c.ended = client.ended
           /\ c.block = [i \in ssm!Index |-> IF i \in S THEN "closed" ELSE client.block[i]]
<1> USE ManagerFacts
<1>1. c \in ssm!ClientType
  BY ssm!ReceiveType, MaxIndexFacts
<1>2. \A i \in S : ssm!IsOpen(client, i)
  OBVIOUS
<1>3. S # {} => ssm!BlockEventFaults(client) = {}
  BY DEF ssm!BlockEventFaults, Streaming
<1>4. c.faults = client.faults
  BY <1>2, <1>3 DEF ssm!ReceiveBlockStops, ssm!ClientType
<1> QED
  BY <1>1, <1>4 DEF ssm!ReceiveBlockStops, ssm!ClientType

\* What the client gets of an accepted start, while the message is streaming.
LEMMA StartQuiet ==
    ASSUME ssm!IInv, Streaming, NEW i \in ssm!Index, NEW t \in ssm!BlockTypes,
           i \notin ssm!Unclosed
    PROVE  /\ ssm!ClientAfterStart(i, t) \in ssm!ClientType
           /\ ssm!ClientAfterStart(i, t).faults = client.faults
           /\ ssm!ClientAfterStart(i, t).seen = client.seen \cup {t}
           /\ ssm!ClientAfterStart(i, t).started = client.started
           /\ ssm!ClientAfterStart(i, t).deltaSent = client.deltaSent
           /\ ssm!ClientAfterStart(i, t).ended = client.ended
           /\ ssm!ClientAfterStart(i, t).block =
                 [[j \in ssm!Index |-> IF j \in ssm!ClosedByStart(t) THEN "closed"
                                       ELSE client.block[j]] EXCEPT ![i] = t]
<1> DEFINE S == ssm!ClosedByStart(t)
           d == ssm!ReceiveBlockStops(client, S)
           c == ssm!ClientAfterStart(i, t)
<1>1. S \in SUBSET ssm!Unclosed /\ client \in ssm!ClientType
  BY ManagerFacts
<1>2. /\ d \in ssm!ClientType
      /\ d.faults = client.faults /\ d.seen = client.seen
      /\ d.started = client.started /\ d.deltaSent = client.deltaSent
      /\ d.ended = client.ended
      /\ d.block = [j \in ssm!Index |-> IF j \in S THEN "closed" ELSE client.block[j]]
  BY <1>1, StopsQuiet
<1>3. c = ssm!ReceiveBlockStart(d, i, t)
  BY DEF ssm!ClientAfterStart
<1>4. ~ssm!IsOpen(d, i)
  <2>1. ~ssm!IsOpen(client, i) /\ i \notin S
    BY <1>1, ManagerFacts
  <2> QED
    BY <1>2, <2>1 DEF ssm!IsOpen
<1>5. ssm!BlockEventFaults(d) = {}
  BY <1>2, ManagerFacts DEF ssm!BlockEventFaults, Streaming
<1>6. c \in ssm!ClientType
  BY <1>2, <1>3, ssm!ReceiveType, MaxIndexFacts
<1> HIDE DEF d, c
<1>7. /\ c.faults = client.faults /\ c.seen = client.seen \cup {t}
      /\ c.started = client.started /\ c.deltaSent = client.deltaSent
      /\ c.ended = client.ended
      /\ c.block = [d.block EXCEPT ![i] = t]
  BY <1>2, <1>3, <1>4, <1>5 DEF ssm!ReceiveBlockStart, ssm!ClientType
<1> QED
  BY <1>2, <1>6, <1>7 DEF c

\* What the manager books of it.
LEMMA StartBooked ==
    ASSUME ssm!TypeOK, NEW i \in ssm!Index, NEW t \in ssm!BlockTypes, ssm!AcceptStart(i, t)
    PROVE  /\ activeBlocks'[i] = [type |-> t, stopped |-> FALSE]
           /\ \A j \in ssm!Index \ {i} :
                 /\ activeBlocks'[j].type = activeBlocks[j].type
                 /\ activeBlocks'[j].stopped =
                       IF j \in ssm!ClosedByStart(t) THEN TRUE ELSE activeBlocks[j].stopped
           /\ UNCHANGED <<messageStarted, messageDeltaSent, messageEnded>>
<1> DEFINE S == ssm!ClosedByStart(t)
<1>1. activeBlocks \in [ssm!Index -> ssm!BlockState] /\ S \in SUBSET ssm!Index
  BY ssm!HelperType, MaxIndexFacts DEF ssm!TypeOK
<1>2. activeBlocks' = [ssm!Stopped(S) EXCEPT ![i] = [type |-> t, stopped |-> FALSE]]
      /\ UNCHANGED <<messageStarted, messageDeltaSent, messageEnded>>
  BY DEF ssm!AcceptStart
<1>3. ssm!Stopped(S) \in [ssm!Index -> ssm!BlockState]
  BY <1>1, ssm!HelperType, MaxIndexFacts
<1>4. activeBlocks'[i] = [type |-> t, stopped |-> FALSE]
  BY <1>2, <1>3
<1>5. ASSUME NEW j \in ssm!Index \ {i}
      PROVE  /\ activeBlocks'[j].type = activeBlocks[j].type
             /\ activeBlocks'[j].stopped =
                    IF j \in ssm!ClosedByStart(t) THEN TRUE ELSE activeBlocks[j].stopped
  <2>1. activeBlocks'[j] = ssm!Stopped(S)[j]
    BY <1>2, <1>3
  <2>2. activeBlocks[j] \in ssm!BlockState
    BY <1>1
  <2> QED
    BY <2>1, <2>2 DEF ssm!Stopped, ssm!BlockState
<1> QED
  BY <1>2, <1>4, <1>5

\* A delta of the right kind for an open block.
LEMMA DeltaQuiet ==
    ASSUME NEW c \in ssm!ClientType, c.started, ~c.deltaSent, ~c.ended,
           NEW i \in ssm!Index, NEW d \in DeltaKinds,
           c.block[i] = ssm!TypeOfDelta(d)
    PROVE  /\ ssm!ReceiveBlockDelta(c, i, d).faults = c.faults
           /\ ssm!ReceiveBlockDelta(c, i, d).seen = c.seen
           /\ ssm!ReceiveBlockDelta(c, i, d).block = c.block
<1>1. ssm!BlockEventFaults(c) = {}
  BY DEF ssm!BlockEventFaults
<1>2. ssm!IsOpen(c, i)
  BY DEF ssm!IsOpen, ssm!TypeOfDelta, ssm!BlockTypes, DeltaKinds
<1> QED
  BY <1>1, <1>2 DEF ssm!ReceiveBlockDelta, ssm!ClientType

-----------------------------------------------------------------------------
(* The messages of the well-behaved upstream.                                *)
LEMMA TypesOfDeltas ==
    /\ ssm!TypeOfDelta("text_delta") = "text"
    /\ ssm!TypeOfDelta("thinking_delta") = "thinking"
    /\ ssm!TypeOfDelta("input_json_delta") = "tool_use"
  BY DEF ssm!TypeOfDelta

\* Between two messages, before the end.
LEMMA Idle ==
    ASSUME StreamInv, Liberties = {}, NEW events, Receive(events)
    PROVE  /\ Streaming /\ ~Ending /\ ~upstreamDone
           /\ queue = <<>> /\ queue' = events
           /\ UNCHANGED <<messageStarted, messageDeltaSent, messageEnded, activeBlocks,
                          client, toolUseIdByBlockIndex, completedToolUseIds,
                          upstreamDone, stopReason, dropped, ssm!Unclosed>>
           /\ \A i : ssm!Exists(i)' <=> ssm!Exists(i)
           /\ \A id \in Assigned :
                 /\ ssm!Exists(blockIndexMap[id]) /\ Booked(id)
                 /\ id \in activeTools <=> blockIndexMap[id] \in ssm!Unclosed
                 /\ ~thinkingEnabled
<1>1. /\ queue = <<>> /\ ~upstreamDone /\ ~messageEnded /\ queue' = events
      /\ UNCHANGED <<ssmState, processorVars, upstreamDone, stopReason, dropped>>
  BY DEF Receive
<1>2. UNCHANGED <<messageStarted, messageDeltaSent, messageEnded, activeBlocks,
                  client, toolUseIdByBlockIndex, completedToolUseIds>>
  BY <1>1 DEF ssmState, processorVars
<1>3. UNCHANGED ssm!Unclosed /\ \A i : ssm!Exists(i)' <=> ssm!Exists(i)
  BY <1>2 DEF ssm!Unclosed, ssm!Exists
<1>4. Streaming /\ ~Ending
  BY <1>1 DEF StreamInv, MessageInv, Streaming, Ending, EndQueued
<1>5. ASSUME NEW id \in Assigned
      PROVE  /\ ssm!Exists(blockIndexMap[id]) /\ Booked(id)
             /\ id \in activeTools <=> blockIndexMap[id] \in ssm!Unclosed
             /\ ~thinkingEnabled
  <2>1. ~Pending(id)
    BY <1>1 DEF Pending
  <2> QED
    BY <1>1, <1>4, <2>1 DEF StreamInv, ToolInv
<1> QED
  BY <1>1, <1>2, <1>3, <1>4, <1>5

\* What is left to show of a message.
LEMMA ReceiveStream ==
    ASSUME StreamInv, Liberties = {}, NEW events \in Seq(Event), Receive(events), PipelineInv',
           Shape(events), EventsInv', HeadInv', ToolInv', ThinkInv',
           events = <<>> \/ events[Len(events)].type \in BlockEvents
                         \/ (events[Len(events)].type = "exception" /\ ~thinkingEnabled),
           UNCHANGED thinkingEnabled,
           \A i \in ssm!Index : ssm!Exists(i) => TypeAt(i)' = TypeAt(i),
           \A id \in Assigned : id \in Assigned' /\ blockIndexMap'[id] = blockIndexMap[id]
    PROVE  StreamInv'
<1>1. ShapeInv' /\ queue' = events
  BY Idle DEF ShapeInv
<1>2. MessageInv'
  BY Idle DEF MessageInv, Streaming, Ending, EndQueued, BlockEvents
<1>3. BlocksInv'
  BY Idle DEF StreamInv, BlocksInv
<1>4. BookInv'
  BY Idle DEF StreamInv, BookInv, OpenToolIndices
<1>5. DropInv' /\ Faultless'
  BY Idle DEF StreamInv, DropInv, Faultless
<1> QED
  BY <1>1, <1>2, <1>3, <1>4, <1>5 DEF StreamInv

\* A message that leaves the tools alone.
LEMMA ToolsIdle ==
    ASSUME StreamInv, Liberties = {}, NEW events, Receive(events),
           UNCHANGED <<activeTools, blockIndexMap, thinkingEnabled>>,
           thinkingEnabled \/ \A k \in 1 .. Len(events) : events[k].type # "content_block_start"
    PROVE  ToolInv'
<1>1. UNCHANGED <<blockIndexMap, activeTools, Assigned>> /\ queue' = events
  BY Idle DEF Assigned
<1>2. ASSUME NEW id \in Assigned
      PROVE  /\ ssm!Exists(blockIndexMap[id])'
             /\ Booked(id)'
             /\ id \in activeTools' <=> blockIndexMap'[id] \in ssm!Unclosed'
             /\ ~thinkingEnabled'
             /\ ~Pending(id)'
  <2>1. ~thinkingEnabled
    BY Idle
  <2>2. ~Pending(id)'
    BY <1>1, <2>1 DEF Pending
  <2>3. ssm!Exists(blockIndexMap[id])' /\ Booked(id)'
    BY <1>1, Idle DEF Booked, ssm!Exists
  <2>4. id \in activeTools' <=> blockIndexMap'[id] \in ssm!Unclosed'
    BY <1>1, Idle
  <2> QED
    BY <2>1, <2>2, <2>3, <2>4
<1> QED
  BY <1>1, <1>2 DEF ToolInv

\* Nothing to show of a response without thinking.
LEMMA NoThinking == ~thinkingEnabled /\ UNCHANGED thinkingEnabled => ThinkInv'
  BY DEF ThinkInv

\* Text goes to block 0 and may come with its stop.
LEMMA TextStream ==
    ASSUME StreamInv, Liberties = {}, Text \/ CompletionChunk, PipelineInv'
    PROVE  StreamInv'
<1> USE MaxIndexFacts, KindFacts
<1>1. PICK d \in Event : d = BlockDelta(0, "text_delta")
  BY EventConstructors
<1>2. PICK s \in Event : s = BlockStop(0)
  BY EventConstructors
<1>3. PICK events \in {<<d>>, <<d, s>>} : Receive(events)
  <2>1. <<d>> \o <<s>> = <<d, s>>
    BY Concatenations, Zenon
  <2>2. <<d>> \o <<>> = <<d>>
    OBVIOUS
  <2> QED
    BY <1>1, <1>2, <2>1, <2>2 DEF Text, CompletionChunk
<1>4. ~thinkingEnabled /\ UNCHANGED <<toolVars, thinkingVars>>
  BY DEF Text, CompletionChunk, PlainTextAllowed
<1>5. /\ d.type = "content_block_delta" /\ d.index = 0 /\ d.kind = "text_delta"
      /\ s.type = "content_block_stop" /\ s.index = 0
  BY <1>1, <1>2 DEF BlockDelta, BlockStop, BlockEvent
<1>6. Shape(events) /\ events \in Seq(Event)
  <2>1. Shape(<<d>>) /\ <<d>> \in Seq(Event)
    BY <1>5, ShapeOne DEF BlockEvents
  <2>2. Shape(<<d, s>>) /\ <<d, s>> \in Seq(Event)
    BY <1>5, ShapeTwo
  <2> QED
    BY <2>1, <2>2, Zenon
<1>7. UNCHANGED <<thinkingEnabled, thinkingState, activeTools, blockIndexMap>>
  BY <1>4 DEF toolVars, thinkingVars
<1>8. HeadInv'
  BY <1>3, <1>4, <1>5, <1>7, Idle DEF HeadInv, HeadOK, DeltaReady
<1>9. \A id \in activeTools : blockIndexMap[id] # 0
  BY DEF StreamInv, PipelineInv, ToolsInv, RegisteredHaveBlocks, ToolTypeOK, Unassigned
<1>10. EventsInv'
  <2>1. ~messageDeltaSent'
    BY <1>3, Idle DEF Streaming
  <2>2. EventOK(d)'
    BY <1>4, <1>5, <1>7, <2>1, TypesOfDeltas DEF EventOK, TypeAt
  <2>3. EventOK(s)'
    BY <1>4, <1>5, <1>7, <1>9, <2>1 DEF EventOK
  <2> QED
    BY <1>3, <2>2, <2>3, Idle DEF EventsInv
<1>11. ToolInv' /\ ThinkInv'
  <2>1. \A k \in 1 .. Len(events) : events[k].type # "content_block_start"
    BY <1>3, <1>5
  <2> QED
    BY <1>3, <1>4, <1>7, <2>1, ToolsIdle, NoThinking
<1> QED
  BY <1>3, <1>5, <1>6, <1>7, <1>8, <1>10, <1>11, ReceiveStream DEF BlockEvents, TypeAt, Assigned

\* In a thinking response, between two messages.
LEMMA ThinkingIdle ==
    ASSUME StreamInv, Liberties = {}, NEW events, Receive(events), ThinkingChunk
    PROVE  /\ thinkingEnabled /\ UNCHANGED <<toolVars, thinkingEnabled, activeTools, blockIndexMap>>
           /\ ToolInv'
           /\ \A i \in ssm!Index : ssm!Exists(i) =>
                  i \in ssm!Unclosed \/ (i = 0 /\ thinkingState = "thinking_extracted")
           /\ \A i \in ssm!Index : activeBlocks[i].stopped => i = 0 /\ thinkingState = "thinking_extracted"
           /\ thinkingState # "thinking_extracted" => \A i \in ssm!Index : ssm!Exists(i) => i = 0
           /\ thinkingState = "thinking_extracted" => ~buffered
           /\ thinkingState = "in_thinking" => 0 \in ssm!Unclosed
           /\ thinkingState = "not_in_thinking" /\ ~saidText => ~ssm!Exists(0)
           /\ \A i : i \in ssm!Unclosed => ssm!Exists(i)
<1>1. thinkingEnabled /\ UNCHANGED <<toolVars, thinkingEnabled>>
  BY DEF ThinkingChunk, BeforeThinking, EnterThinking, InThinking, LeaveThinking,
         AfterThinking, thinkingVars
<1>2. ToolInv' /\ UNCHANGED <<activeTools, blockIndexMap>>
  BY <1>1, ToolsIdle DEF toolVars
<1>3. ~Ending /\ queue = <<>> /\ ~upstreamDone
  BY Idle
<1>4. ThinkInv
  BY DEF StreamInv
<1>5. \A i \in ssm!Index : activeBlocks[i].stopped => i = 0 /\ thinkingState = "thinking_extracted"
  BY <1>1, <1>3, <1>4 DEF ThinkInv
<1>6. \A i \in ssm!Index : ssm!Exists(i) =>
                  i \in ssm!Unclosed \/ (i = 0 /\ thinkingState = "thinking_extracted")
  BY <1>5 DEF ssm!Unclosed
<1>7. \A i : i \in ssm!Unclosed => ssm!Exists(i)
  BY DEF ssm!Unclosed
<1> QED
  BY <1>1, <1>2, <1>3, <1>4, <1>5, <1>6, <1>7 DEF ThinkInv

\* A message of events that are in order and find what they need.
LEMMA ThinkingMessage ==
    ASSUME StreamInv, Liberties = {}, NEW events \in Seq(Event), Receive(events), ThinkingChunk,
           PipelineInv', Shape(events), EventsInv', HeadInv', ThinkInv',
           events = <<>> \/ events[Len(events)].type \in BlockEvents,
           \A i \in ssm!Index : ssm!Exists(i) => TypeAt(i)' = TypeAt(i)
    PROVE  StreamInv'
<1>1. ToolInv' /\ UNCHANGED thinkingEnabled
  BY ThinkingIdle
<1> QED
  BY <1>1, ThinkingIdle, ReceiveStream DEF Assigned

\* The fields of the events that are built.
LEMMA EventFields ==
    ASSUME NEW i, NEW x, NEW e
    PROVE  /\ e = BlockStart(i, x) => /\ e.type = "content_block_start" /\ e.index = i
                                      /\ e.kind = x /\ e.id = NoToolId
           /\ e = ToolStart(i, x) => /\ e.type = "content_block_start" /\ e.index = i
                                     /\ e.kind = "tool_use" /\ e.id = x
           /\ e = BlockDelta(i, x) => e.type = "content_block_delta" /\ e.index = i /\ e.kind = x
           /\ e = BlockStop(i) => e.type = "content_block_stop" /\ e.index = i
           /\ e = Overflow => e.type = "exception" /\ e.index = 0
           /\ e = MessageStart => e.type = "message_start" /\ e.index = 0
           /\ e = CloseOpenBlocks => e.type = "close_open_blocks" /\ e.index = 0
           /\ e = MessageDelta(x) => e.type = "message_delta" /\ e.kind = x /\ e.index = 0
           /\ e = MessageStop => e.type = "message_stop" /\ e.index = 0
  BY DEF BlockStart, ToolStart, BlockDelta, BlockStop, Overflow, MessageStart, CloseOpenBlocks,
         MessageDelta, MessageStop, BlockEvent

\* Text before the tag is held back or goes to block 0.
LEMMA BeforeStream ==
    ASSUME StreamInv, Liberties = {}, ThinkingChunk, BeforeThinking, PipelineInv'
    PROVE  StreamInv'
<1> USE MaxIndexFacts, KindFacts
<1>1. PICK d \in Event : d = BlockDelta(0, "text_delta")
  BY EventConstructors
<1>2. /\ d.type = "content_block_delta" /\ d.index = 0 /\ d.kind = "text_delta"
  BY <1>1, EventFields
<1>3. PICK events \in {<<>>, <<d>>} : Receive(events) /\ saidText' = (saidText \/ events # <<>>)
  BY <1>1 DEF BeforeThinking, Maybe
<1>4. Shape(events) /\ events \in Seq(Event)
  <2>1. Shape(<<d>>) /\ <<d>> \in Seq(Event)
    BY <1>2, ShapeOne DEF BlockEvents
  <2> QED
    BY <2>1, ShapeNone, Zenon
<1>5. thinkingState = "not_in_thinking" /\ thinkingState' = thinkingState
  BY DEF BeforeThinking
<1>6. queue' = events /\ ~messageDeltaSent' /\ thinkingEnabled'
  BY <1>3, Idle, ThinkingIdle DEF Streaming
<1>7. EventsInv'
  BY <1>2, <1>3, <1>5, <1>6, TypesOfDeltas DEF EventsInv, EventOK, TypeAt, BlockEvents
<1>8. HeadInv'
  <2>1. 0 \in ssm!Unclosed' \/ ~ssm!Exists(0)'
    BY <1>3, <1>5, Idle, ThinkingIdle
  <2> QED
    BY <1>2, <1>3, <1>6, <2>1 DEF HeadInv, HeadOK, DeltaReady
<1>9. ThinkInv'
  <2>1. UNCHANGED activeBlocks /\ \A i : ssm!Exists(i)' <=> ssm!Exists(i)
    BY <1>3, Idle
  <2> QED
    BY <1>3, <1>5, <1>6, <2>1, ThinkingIdle DEF ThinkInv
<1> QED
  BY <1>2, <1>3, <1>4, <1>5, <1>6, <1>7, <1>8, <1>9, ThinkingMessage, ThinkingIdle DEF TypeAt, BlockEvents

\* The tag opens block 0, after nothing else.
LEMMA EnterStream ==
    ASSUME StreamInv, Liberties = {}, ThinkingChunk, EnterThinking, PipelineInv'
    PROVE  StreamInv'
<1> USE MaxIndexFacts, KindFacts
<1>1. PICK s \in Event : s = BlockStart(0, "thinking")
  BY EventConstructors
<1>2. s.type = "content_block_start" /\ s.index = 0 /\ s.kind = "thinking" /\ s.id = NoToolId
  BY <1>1, EventFields
<1>3. Receive(<<s>>) /\ ~saidText
  <2>1. <<s>> \o <<>> = <<s>>
    OBVIOUS
  <2> QED
    BY <1>1, <2>1 DEF EnterThinking
<1>4. Shape(<<s>>) /\ <<s>> \in Seq(Event)
  BY <1>2, ShapeOne DEF BlockEvents
<1>5. thinkingState = "not_in_thinking" /\ thinkingState' = "in_thinking"
  BY DEF EnterThinking
<1>6. queue' = <<s>> /\ ~messageDeltaSent' /\ thinkingEnabled' /\ ~ssm!Exists(0)
  BY <1>3, <1>5, Idle, ThinkingIdle DEF Streaming
<1>7. 0 \notin ssm!Unclosed'
  BY <1>3, <1>6, Idle, ThinkingIdle
<1>8. EventsInv'
  BY <1>2, <1>5, <1>6, <1>7 DEF EventsInv, EventOK, StartOK, TypeAt, BlockEvents
<1>9. HeadInv'
  BY <1>2, <1>6 DEF HeadInv, HeadOK
<1>10. ThinkInv'
  <2>1. UNCHANGED activeBlocks /\ \A i : ssm!Exists(i)' <=> ssm!Exists(i)
    BY <1>3, Idle
  <2> QED
    BY <1>2, <1>3, <1>5, <1>6, <2>1, ThinkingIdle DEF ThinkInv
<1>11. \A i \in ssm!Index : ~ssm!Exists(i)
  BY <1>3, <1>5, <1>6, ThinkingIdle
<1> QED
  BY <1>2, <1>3, <1>4, <1>8, <1>9, <1>10, <1>11, ThinkingMessage DEF BlockEvents

\* A thought goes to the open thinking block.
LEMMA InStream ==
    ASSUME StreamInv, Liberties = {}, ThinkingChunk, InThinking, PipelineInv'
    PROVE  StreamInv'
<1> USE MaxIndexFacts, KindFacts
<1>1. PICK d \in Event : d = BlockDelta(0, "thinking_delta")
  BY EventConstructors
<1>2. /\ d.type = "content_block_delta" /\ d.index = 0 /\ d.kind = "thinking_delta"
  BY <1>1, EventFields
<1>3. PICK events \in {<<>>, <<d>>} : Receive(events)
  BY <1>1 DEF InThinking, Maybe
<1>4. Shape(events) /\ events \in Seq(Event)
  <2>1. Shape(<<d>>) /\ <<d>> \in Seq(Event)
    BY <1>2, ShapeOne DEF BlockEvents
  <2> QED
    BY <2>1, ShapeNone, Zenon
<1>5. thinkingState = "in_thinking" /\ thinkingState' = thinkingState
  BY DEF InThinking
<1>6. queue' = events /\ ~messageDeltaSent' /\ thinkingEnabled' /\ 0 \in ssm!Unclosed'
  BY <1>3, <1>5, Idle, ThinkingIdle DEF Streaming
<1>7. EventsInv'
  BY <1>2, <1>3, <1>5, <1>6, TypesOfDeltas DEF EventsInv, EventOK, TypeAt, BlockEvents
<1>8. HeadInv'
  BY <1>2, <1>3, <1>6 DEF HeadInv, HeadOK, DeltaReady
<1>9. ThinkInv'
  <2>1. UNCHANGED activeBlocks /\ \A i : ssm!Exists(i)' <=> ssm!Exists(i)
    BY <1>3, Idle
  <2> QED
    BY <1>3, <1>5, <1>6, <2>1, ThinkingIdle DEF ThinkInv
<1> QED
  BY <1>2, <1>3, <1>4, <1>5, <1>6, <1>7, <1>8, <1>9, ThinkingMessage, ThinkingIdle DEF TypeAt, BlockEvents

\* Text after the thinking goes to the text block.
LEMMA AfterStream ==
    ASSUME StreamInv, Liberties = {}, ThinkingChunk, AfterThinking, PipelineInv'
    PROVE  StreamInv'
<1> USE MaxIndexFacts, KindFacts
<1>1. PICK d \in Event : d = BlockDelta(1, "text_delta")
  BY EventConstructors
<1>2. /\ d.type = "content_block_delta" /\ d.index = 1 /\ d.kind = "text_delta"
  BY <1>1, EventFields
<1>3. Receive(<<d>>)
  BY <1>1 DEF AfterThinking
<1>4. Shape(<<d>>) /\ <<d>> \in Seq(Event)
  BY <1>2, ShapeOne DEF BlockEvents
<1>5. thinkingState = "thinking_extracted" /\ UNCHANGED <<thinkingState, saidText, buffered>>
  BY DEF AfterThinking, thinkingVars
<1>6. queue' = <<d>> /\ ~messageDeltaSent' /\ thinkingEnabled'
      /\ (1 \in ssm!Unclosed' \/ ~ssm!Exists(1)')
  BY <1>3, <1>5, Idle, ThinkingIdle DEF Streaming
<1>7. EventsInv'
  BY <1>2, <1>3, <1>5, <1>6, TypesOfDeltas DEF EventsInv, EventOK, TypeAt, BlockEvents
<1>8. HeadInv'
  BY <1>2, <1>3, <1>6 DEF HeadInv, HeadOK, DeltaReady
<1>9. ThinkInv'
  <2>1. UNCHANGED activeBlocks /\ \A i : ssm!Exists(i)' <=> ssm!Exists(i)
    BY <1>3, Idle
  <2> QED
    BY <1>3, <1>5, <1>6, <2>1, ThinkingIdle DEF ThinkInv
<1> QED
  BY <1>2, <1>3, <1>4, <1>5, <1>6, <1>7, <1>8, <1>9, ThinkingMessage, ThinkingIdle DEF TypeAt, BlockEvents

\* The closing tag stops block 0, and the text after it has a block of its own.
LEMMA LeaveStream ==
    ASSUME StreamInv, Liberties = {}, ThinkingChunk, LeaveThinking, PipelineInv'
    PROVE  StreamInv'
<1> USE MaxIndexFacts, KindFacts
<1>1. PICK d \in Event : d = BlockDelta(0, "thinking_delta")
  BY EventConstructors
<1>2. PICK s \in Event : s = BlockStop(0)
  BY EventConstructors
<1>3. PICK b \in Event : b = BlockStart(1, "text")
  BY EventConstructors
<1>4. PICK t \in Event : t = BlockDelta(1, "text_delta")
  BY EventConstructors
<1>5. /\ d.type = "content_block_delta" /\ d.index = 0 /\ d.kind = "thinking_delta"
      /\ s.type = "content_block_stop" /\ s.index = 0
      /\ b.type = "content_block_start" /\ b.index = 1 /\ b.kind = "text" /\ b.id = NoToolId
      /\ t.type = "content_block_delta" /\ t.index = 1 /\ t.kind = "text_delta"
  BY <1>1, <1>2, <1>3, <1>4, EventFields
<1>6. PICK events \in {<<s>>, <<s, b, t>>, <<d, s>>, <<d, s, b, t>>} : Receive(events)
  <2>1. PICK thought \in Maybe(d), text \in BOOLEAN :
           Receive(thought \o <<s>> \o IF text THEN <<b, t>> ELSE <<>>)
    BY <1>1, <1>2, <1>3, <1>4 DEF LeaveThinking
  <2>2. /\ <<>> \o <<s>> = <<s>> /\ <<s>> \o <<>> = <<s>> /\ <<d, s>> \o <<>> = <<d, s>>
    OBVIOUS
  <2>3. <<d>> \o <<s>> = <<d, s>>
    BY Concatenations, Zenon
  <2>5. <<s>> \o <<b, t>> = <<s, b, t>>
    BY Concatenations, Zenon
  <2>6. <<d, s>> \o <<b, t>> = <<d, s, b, t>>
    BY ConcatenatedPairs, Zenon
  <2>4. thought = <<>> \/ thought = <<d>>
    BY DEF Maybe
  <2> QED
    BY <2>1, <2>2, <2>3, <2>4, <2>5, <2>6, Zenon
<1>7. Shape(events) /\ events \in Seq(Event)
  <2>1. Shape(<<s>>) /\ <<s>> \in Seq(Event)
    BY <1>5, ShapeOne DEF BlockEvents
  <2>2. Shape(<<d, s>>) /\ <<d, s>> \in Seq(Event)
    BY <1>5, ShapeTwo
  <2>3. b.index # 0 /\ t.index = b.index
    BY <1>5
  <2>4. Shape(<<s, b, t>>) /\ <<s, b, t>> \in Seq(Event)
    BY <1>5, <2>3, ShapeThree
  <2>5. Shape(<<d, s, b, t>>) /\ <<d, s, b, t>> \in Seq(Event)
    BY <1>5, <2>3, ShapeFour
  <2> QED
    BY <2>1, <2>2, <2>4, <2>5, Zenon
<1>8. thinkingState = "in_thinking" /\ thinkingState' = "thinking_extracted" /\ buffered' = FALSE
  BY DEF LeaveThinking
<1>9. queue' = events /\ ~messageDeltaSent' /\ thinkingEnabled' /\ 0 \in ssm!Unclosed'
  BY <1>6, <1>8, Idle, ThinkingIdle DEF Streaming
<1>10. 1 \notin ssm!Unclosed' /\ \A id \in activeTools' : blockIndexMap'[id] # 0
  <2>1. \A id \in activeTools : blockIndexMap[id] # 0
    BY DEF StreamInv, PipelineInv, ToolsInv, RegisteredHaveBlocks, ToolTypeOK, Unassigned
  <2>2. 1 \notin ssm!Unclosed
    BY <1>6, <1>8, ThinkingIdle
  <2> QED
    BY <1>6, <2>1, <2>2, Idle, ThinkingIdle
<1>11. EventsInv'
  <2>1. /\ EventOK(d)' /\ EventOK(s)' /\ EventOK(b)' /\ EventOK(t)'
    BY <1>5, <1>8, <1>9, <1>10, TypesOfDeltas DEF EventOK, StartOK, TypeAt, BlockEvents
  <2> QED
    BY <1>6, <1>9, <2>1 DEF EventsInv
<1>12. HeadInv'
  BY <1>5, <1>6, <1>9 DEF HeadInv, HeadOK, DeltaReady
<1>13. ThinkInv'
  <2>1. UNCHANGED activeBlocks /\ \A i : ssm!Exists(i)' <=> ssm!Exists(i)
    BY <1>6, Idle
  <2> QED
    BY <1>6, <1>8, <1>9, <2>1, ThinkingIdle DEF ThinkInv
<1>14. events[Len(events)].type \in BlockEvents
  <2>1. s.type \in BlockEvents /\ t.type \in BlockEvents
    BY <1>5 DEF BlockEvents
  <2>2. CASE events = <<s>>
    BY <2>1, <2>2
  <2>3. CASE events = <<s, b, t>>
    BY <2>1, <2>3
  <2>4. CASE events = <<d, s>>
    BY <2>1, <2>4
  <2>5. CASE events = <<d, s, b, t>>
    BY <2>1, <2>5
  <2> QED
    BY <1>6, <2>2, <2>3, <2>4, <2>5
<1> QED
  BY <1>6, <1>7, <1>8, <1>9, <1>11, <1>12, <1>13, <1>14, ThinkingMessage, ThinkingIdle DEF TypeAt

\* The events of a tool request: the introduction once, the start of the tool
\* and its first arguments unless the tool is running.
LEMMA RequestEvents ==
    ASSUME StreamInv, Liberties = {}, NEW id \in ToolIds, ToolRequest(id)
    PROVE  /\ BlockFor(id) \in ssm!Index \ {0}
           /\ ~thinkingEnabled
           /\ \E d, s, a \in Event, events \in Seq(Event) :
                 /\ d.type = "content_block_delta" /\ d.index = 0 /\ d.kind = "text_delta"
                 /\ s.type = "content_block_start" /\ s.index = BlockFor(id)
                 /\ s.kind = "tool_use" /\ s.id = id
                 /\ a.type = "content_block_delta" /\ a.index = BlockFor(id)
                 /\ a.kind = "input_json_delta"
                 /\ Receive(events) /\ Shape(events)
                 /\ events \in IF id \in activeTools THEN {<<>>, <<d>>}
                              ELSE {<<s>>, <<d, s>>, <<s, a>>, <<d, s, a>>}
<1> USE MaxIndexFacts, KindFacts
<1>0. ToolsInv
  BY DEF StreamInv, PipelineInv
<1>1. BlockFor(id) \in ssm!Index \ {0}
  <2>1. BlockFor(id) \in ssm!Index
    BY <1>0, AssignedCount
  <2>2. BlockFor(id) # 0
    BY <1>0 DEF ToolsInv, ToolTypeOK, BlockFor, Unassigned
  <2> QED
    BY <2>1, <2>2
<1>2. ~thinkingEnabled
  BY DEF ToolRequest, ToolsAllowed
<1>3. PICK d \in Event : d = BlockDelta(0, "text_delta")
  BY EventConstructors
<1>4. PICK s \in Event : s = ToolStart(BlockFor(id), id)
  BY <1>1, EventConstructors
<1>5. PICK a \in Event : a = BlockDelta(BlockFor(id), "input_json_delta")
  BY <1>1, EventConstructors
<1>6. /\ d.type = "content_block_delta" /\ d.index = 0 /\ d.kind = "text_delta"
      /\ s.type = "content_block_start" /\ s.index = BlockFor(id)
      /\ s.kind = "tool_use" /\ s.id = id
      /\ a.type = "content_block_delta" /\ a.index = BlockFor(id)
      /\ a.kind = "input_json_delta"
  BY <1>3, <1>4, <1>5, EventFields
<1>7. PICK h \in BOOLEAN : Receive(ToolCallRequestEvents(id, h))
  BY DEF ToolRequest
<1>8. ToolCallRequestEvents(id, h) \in IF id \in activeTools THEN {<<>>, <<d>>}
                                      ELSE {<<s>>, <<d, s>>, <<s, a>>, <<d, s, a>>}
  <2>1. IntroEvents = <<>> \/ IntroEvents = <<d>>
    BY <1>3, Zenon DEF IntroEvents
  <2>2. /\ <<>> \o <<>> = <<>> /\ <<d>> \o <<>> = <<d>> /\ <<s>> \o <<>> = <<s>>
        /\ <<>> \o <<s>> = <<s>> /\ <<>> \o <<s, a>> = <<s, a>>
    OBVIOUS
  <2>3. <<s>> \o <<a>> = <<s, a>>
    BY Concatenations, Zenon
  <2>4. <<d>> \o <<s>> = <<d, s>>
    BY Concatenations, Zenon
  <2>5. <<d>> \o <<s, a>> = <<d, s, a>>
    BY Concatenations, Zenon
  <2>6. NewToolEvents(id, h) = <<s>> \/ NewToolEvents(id, h) = <<s, a>>
    BY <1>4, <1>5, <2>2, <2>3, Zenon DEF NewToolEvents
  <2>7. CASE id \in activeTools
    BY <2>1, <2>2, <2>7, Zenon DEF ToolCallRequestEvents
  <2>8. CASE id \notin activeTools
    <3>1. ToolCallRequestEvents(id, h) = IntroEvents \o NewToolEvents(id, h)
      BY <2>8, Zenon DEF ToolCallRequestEvents
    <3>2. IntroEvents \o NewToolEvents(id, h) \in {<<s>>, <<d, s>>, <<s, a>>, <<d, s, a>>}
      BY <2>1, <2>2, <2>4, <2>5, <2>6, Zenon
    <3> QED
      BY <2>8, <3>1, <3>2, Zenon
  <2> QED
    BY <2>7, <2>8
<1>9. Shape(ToolCallRequestEvents(id, h)) /\ ToolCallRequestEvents(id, h) \in Seq(Event)
  <2>1. Shape(<<>>) /\ <<>> \in Seq(Event)
    BY ShapeNone
  <2>2. Shape(<<d>>) /\ <<d>> \in Seq(Event)
    BY <1>6, ShapeOne DEF BlockEvents
  <2>3. Shape(<<s>>) /\ <<s>> \in Seq(Event)
    BY <1>6, ShapeOne DEF BlockEvents
  <2>4. s.index # 0 /\ s.index = a.index /\ a.index = s.index
    BY <1>1, <1>6
  <2>5. Shape(<<d, s>>) /\ <<d, s>> \in Seq(Event)
    BY <1>6, <2>4, ShapeTwo
  <2>6. Shape(<<s, a>>) /\ <<s, a>> \in Seq(Event)
    BY <1>6, <2>4, ShapeTwo
  <2>7. Shape(<<d, s, a>>) /\ <<d, s, a>> \in Seq(Event)
    BY <1>6, <2>4, ShapeThree
  <2> QED
    BY <1>8, <2>1, <2>2, <2>3, <2>5, <2>6, <2>7, Zenon
<1> QED
  BY <1>1, <1>2, <1>6, <1>7, <1>8, <1>9

\* A tool call the parser takes on is queued with its start.
LEMMA RequestStream ==
    ASSUME StreamInv, Liberties = {}, NEW id \in ToolIds, ToolRequest(id), PipelineInv'
    PROVE  StreamInv'
<1> USE MaxIndexFacts, KindFacts
<1>1. /\ BlockFor(id) \in ssm!Index \ {0} /\ BlockFor(id) # 0
      /\ ~thinkingEnabled
  BY RequestEvents
<1>2. PICK d \in Event, s \in Event, a \in Event, events \in Seq(Event) :
          /\ d.type = "content_block_delta" /\ d.index = 0 /\ d.kind = "text_delta"
          /\ s.type = "content_block_start" /\ s.index = BlockFor(id)
          /\ s.kind = "tool_use" /\ s.id = id
          /\ a.type = "content_block_delta" /\ a.index = BlockFor(id)
          /\ a.kind = "input_json_delta"
          /\ Receive(events) /\ Shape(events)
          /\ events \in IF id \in activeTools THEN {<<>>, <<d>>}
                       ELSE {<<s>>, <<d, s>>, <<s, a>>, <<d, s, a>>}
  BY RequestEvents
<1>3. UNCHANGED <<thinkingEnabled, thinkingState>> /\ HandleToolCallRequest(id)
  BY DEF ToolRequest, thinkingVars
<1>4. /\ blockIndexMap'[id] = IF id \in activeTools THEN blockIndexMap[id] ELSE BlockFor(id)
      /\ \A other \in ToolIds \ {id} : blockIndexMap'[other] = blockIndexMap[other]
      /\ id \in Assigned => blockIndexMap'[id] = blockIndexMap[id]
      /\ Assigned' = Assigned \cup {id}
      /\ activeTools' = activeTools \cup {id}
  BY <1>3, RequestInv DEF StreamInv, PipelineInv
<1>5. /\ queue' = events /\ ~messageDeltaSent' /\ ~thinkingEnabled'
      /\ UNCHANGED <<ssm!Unclosed, activeBlocks, toolUseIdByBlockIndex, completedToolUseIds>>
  BY <1>1, <1>2, <1>3, Idle DEF Streaming
<1>6. ThinkInv'
  BY <1>1, <1>3, NoThinking
<1>7. \A other \in Assigned : other \in Assigned' /\ blockIndexMap'[other] = blockIndexMap[other]
  BY <1>4 DEF Assigned
<1>8. CASE id \in activeTools
  <2>1. UNCHANGED <<activeTools, blockIndexMap>>
    BY <1>3, <1>8 DEF HandleToolCallRequest
  <2>2. events = <<>> \/ events = <<d>>
    BY <1>2, <1>8
  <2>3. ToolInv'
    <3>1. \A k \in 1 .. Len(events) : events[k].type # "content_block_start"
      BY <1>2, <2>2
    <3> QED
      BY <1>2, <1>3, <2>1, <3>1, ToolsIdle
  <2>4. EventsInv'
    BY <1>2, <1>5, <2>2, TypesOfDeltas DEF EventsInv, EventOK, TypeAt
  <2>5. HeadInv'
    BY <1>2, <1>5, <2>2 DEF HeadInv, HeadOK, DeltaReady
  <2>6. events = <<>> \/ events[Len(events)].type \in BlockEvents
    BY <1>2, <2>2 DEF BlockEvents
  <2> QED
    BY <1>2, <1>3, <1>6, <1>7, <2>3, <2>4, <2>5, <2>6, ReceiveStream DEF TypeAt
<1>9. CASE id \notin activeTools
  <2>1. events \in {<<s>>, <<d, s>>, <<s, a>>, <<d, s, a>>} /\ blockIndexMap'[id] = BlockFor(id)
    BY <1>2, <1>4, <1>9
  <2>2. BlockFor(id) \notin ssm!Unclosed
    <3>1. CASE id \in Assigned
      BY <1>2, <1>9, <3>1, Idle DEF Assigned, BlockFor
    <3>2. CASE id \notin Assigned
      <4>1. BlockFor(id) = nextToolBlock
        BY <3>2 DEF Assigned, BlockFor
      <4>2. \A other \in Assigned : blockIndexMap[other] < nextToolBlock
        BY DEF StreamInv, PipelineInv, ToolsInv, DistinctBlocks, Assigned
      <4>3. \A other \in Assigned : blockIndexMap[other] # nextToolBlock
        BY <4>2 DEF StreamInv, PipelineInv, ToolsInv, ToolTypeOK, Assigned
      <4>4. ~ssm!Exists(BlockFor(id))
        BY <1>1, <4>1, <4>3 DEF StreamInv, BlocksInv
      <4> QED
        BY <4>4 DEF ssm!Unclosed
    <3> QED
      BY <3>1, <3>2
  <2>3. EventOK(d)' /\ EventOK(s)' /\ EventOK(a)'
    <3>1. /\ ~thinkingEnabled' /\ ~messageDeltaSent' /\ blockIndexMap'[s.id] = s.index
          /\ s.index \notin ssm!Unclosed' /\ s.id \in ToolIds
          /\ s.index # 0 /\ a.index = s.index
      BY <1>1, <1>2, <1>5, <2>1, <2>2
    <3>2. TypeAt(d.index)' = "text" /\ TypeAt(s.index)' = "tool_use"
      BY <1>2, <3>1 DEF TypeAt
    <3> QED
      BY <1>2, <3>1, <3>2, TypesOfDeltas DEF EventOK, StartOK
  <2>4. EventsInv'
    BY <1>5, <2>1, <2>3 DEF EventsInv
  <2>5. HeadInv'
    BY <1>2, <1>5, <2>1 DEF HeadInv, HeadOK, DeltaReady
  <2>6. ToolInv'
    <3>1. Pending(id)'
      <4>1. \E k \in 1 .. Len(events) : events[k] = s
        <5>1. \/ /\ 1 \in 1 .. Len(events) /\ events[1] = s
              \/ /\ 2 \in 1 .. Len(events) /\ events[2] = s
          <6>1. CASE events = <<s>>
            BY <6>1
          <6>2. CASE events = <<d, s>>
            BY <6>2
          <6>3. CASE events = <<s, a>>
            BY <6>3
          <6>4. CASE events = <<d, s, a>>
            BY <6>4
          <6> QED
            BY <2>1, <6>1, <6>2, <6>3, <6>4
        <5> QED
          BY <5>1
      <4> QED
        BY <1>2, <1>5, <4>1 DEF Pending
    <3>2. ASSUME NEW other \in Assigned, other # id
          PROVE  ~Pending(other)'
      <4>1. \A k \in 1 .. Len(events) : events[k] \in {d, s, a}
        BY <2>1
      <4> QED
        BY <1>2, <1>5, <3>2, <4>1 DEF Pending
    <3>3. ASSUME NEW other \in Assigned, other # id
          PROVE  /\ ssm!Exists(blockIndexMap[other])'
                 /\ Booked(other)'
                 /\ other \in activeTools' <=> blockIndexMap'[other] \in ssm!Unclosed'
      BY <1>2, <1>4, <1>5, <1>7, <3>3, Idle DEF Booked, ssm!Exists
    <3>4. id \in activeTools'
      BY <1>4
    <3> QED
      BY <1>4, <1>5, <3>1, <3>2, <3>3, <3>4 DEF ToolInv
  <2>7. events[Len(events)].type \in BlockEvents
    <3>1. s.type \in BlockEvents /\ a.type \in BlockEvents
      BY <1>2 DEF BlockEvents
    <3>2. CASE events = <<s>>
      BY <3>1, <3>2
    <3>3. CASE events = <<d, s>>
      BY <3>1, <3>3
    <3>4. CASE events = <<s, a>>
      BY <3>1, <3>4
    <3>5. CASE events = <<d, s, a>>
      BY <3>1, <3>5
    <3> QED
      BY <2>1, <3>2, <3>3, <3>4, <3>5
  <2> QED
    BY <1>2, <1>3, <1>6, <1>7, <2>4, <2>5, <2>6, <2>7, ReceiveStream DEF TypeAt
<1> QED
  BY <1>8, <1>9

\* A fragment goes to the open block of its tool.
LEMMA FragmentStream ==
    ASSUME StreamInv, Liberties = {}, NEW id \in ToolIds, ToolFragment(id), PipelineInv'
    PROVE  StreamInv'
<1> USE MaxIndexFacts, KindFacts
<1>1. /\ id \in activeTools /\ id \in Assigned
      /\ blockIndexMap[id] \in ssm!Index /\ blockIndexMap[id] # 0
  <2>1. id \in activeTools
    BY DEF ToolFragment
  <2>2. id \in Assigned
    BY <2>1 DEF StreamInv, PipelineInv, ToolsInv, RegisteredHaveBlocks, Assigned
  <2>3. ToolsInv
    BY DEF StreamInv, PipelineInv
  <2> QED
    BY <2>1, <2>2, <2>3, AssignedCount DEF Assigned, Unassigned
<1>2. PICK a \in Event : a = BlockDelta(blockIndexMap[id], "input_json_delta")
  BY <1>1, EventConstructors
<1>3. /\ a.type = "content_block_delta" /\ a.index = blockIndexMap[id]
      /\ a.kind = "input_json_delta"
  BY <1>2, EventFields
<1>4. /\ Receive(<<a>>) /\ UNCHANGED <<activeTools, blockIndexMap, thinkingEnabled, thinkingState>>
  BY <1>2 DEF ToolFragment, toolVars, thinkingVars
<1>5. Shape(<<a>>) /\ <<a>> \in Seq(Event)
  BY <1>3, ShapeOne DEF BlockEvents
<1>6. queue' = <<a>> /\ ~messageDeltaSent' /\ ~thinkingEnabled' /\ a.index \in ssm!Unclosed'
  BY <1>1, <1>3, <1>4, Idle DEF Streaming
<1>7. EventsInv'
  BY <1>1, <1>3, <1>6, TypesOfDeltas DEF EventsInv, EventOK, TypeAt
<1>8. HeadInv'
  BY <1>3, <1>6 DEF HeadInv, HeadOK, DeltaReady
<1>9. ToolInv' /\ ThinkInv'
  <2>1. \A k \in 1 .. Len(<<a>>) : <<a>>[k].type # "content_block_start"
    BY <1>3
  <2>2. ~thinkingEnabled
    BY <1>4, <1>6
  <2> QED
    BY <1>4, <2>1, <2>2, ToolsIdle, NoThinking
<1>10. <<a>>[Len(<<a>>)].type \in BlockEvents
  BY <1>3 DEF BlockEvents
<1> QED
  BY <1>4, <1>5, <1>7, <1>8, <1>9, <1>10, ReceiveStream DEF TypeAt, Assigned

\* An exception is the only event of its message.
LEMMA OverflowStream ==
    ASSUME StreamInv, Liberties = {}, ContentLengthExceeded, PipelineInv'
    PROVE  StreamInv'
<1> USE MaxIndexFacts, KindFacts
<1>1. PICK x \in Event : x = Overflow
  BY EventConstructors
<1>2. x.type = "exception"
  BY <1>1, EventFields
<1>3. /\ Receive(<<x>>) /\ UNCHANGED <<activeTools, blockIndexMap, thinkingEnabled, thinkingState>>
      /\ ~thinkingEnabled
  BY <1>1 DEF ContentLengthExceeded, toolVars, thinkingVars
<1>4. Shape(<<x>>) /\ <<x>> \in Seq(Event)
  BY <1>2, ShapeOne DEF BlockEvents
<1>5. queue' = <<x>> /\ ~thinkingEnabled'
  BY <1>3, Idle
<1>6. EventsInv'
  BY <1>2, <1>5 DEF EventsInv, EventOK, BlockEvents
<1>7. HeadInv'
  BY <1>2, <1>5 DEF HeadInv, HeadOK
<1>8. ToolInv' /\ ThinkInv'
  <2>1. \A k \in 1 .. Len(<<x>>) : <<x>>[k].type # "content_block_start"
    BY <1>2
  <2> QED
    BY <1>3, <2>1, ToolsIdle, NoThinking
<1>9. <<x>>[Len(<<x>>)].type = "exception"
  BY <1>2
<1> QED
  BY <1>3, <1>4, <1>6, <1>7, <1>8, <1>9, ReceiveStream DEF TypeAt, Assigned

\* A result or an error queues the stop of the open block of its tool.
LEMMA ResultStream ==
    ASSUME StreamInv, Liberties = {}, NEW id \in ToolIds, ToolStop(id) \/ ToolError(id), PipelineInv'
    PROVE  StreamInv'
<1> USE MaxIndexFacts, KindFacts
<1>0. ToolsInv
  BY DEF StreamInv, PipelineInv
<1>1. /\ id \in activeTools /\ id \in Assigned
      /\ blockIndexMap[id] \in ssm!Index /\ blockIndexMap[id] # 0
  <2>1. id \in activeTools
    BY DEF ToolStop, ToolError
  <2>2. id \in Assigned
    BY <2>1 DEF StreamInv, PipelineInv, ToolsInv, RegisteredHaveBlocks, Assigned
  <2> QED
    BY <1>0, <2>1, <2>2, AssignedCount DEF Assigned, Unassigned
<1>2. PICK s \in Event : s = BlockStop(blockIndexMap[id])
  BY <1>1, EventConstructors
<1>3. s.type = "content_block_stop" /\ s.index = blockIndexMap[id]
  BY <1>2, EventFields
<1>4. /\ Receive(<<s>>) /\ HandleToolCallResult(id)
      /\ UNCHANGED <<thinkingEnabled, thinkingState>>
  BY <1>1, <1>2 DEF ToolStop, ToolError, ToolCallErrorEvents, ToolCallResultEvents,
                    HandleToolCallError, thinkingVars
<1>5. activeTools' = activeTools \ {id} /\ UNCHANGED <<blockIndexMap, Assigned>>
  BY <1>0, <1>4, ResultInv
<1>6. Shape(<<s>>) /\ <<s>> \in Seq(Event)
  BY <1>3, ShapeOne DEF BlockEvents
<1>7. /\ queue' = <<s>> /\ ~messageDeltaSent' /\ ~thinkingEnabled'
      /\ UNCHANGED <<ssm!Unclosed, activeBlocks, toolUseIdByBlockIndex, completedToolUseIds>>
  BY <1>1, <1>3, <1>4, Idle DEF Streaming
<1>8. \A other \in activeTools' : blockIndexMap'[other] # s.index
  <2>1. ASSUME NEW other \in activeTools, other # id
        PROVE  blockIndexMap[other] # blockIndexMap[id]
    BY <1>0, <1>1, <2>1 DEF ToolsInv, ToolTypeOK, DistinctBlocks, Unassigned
  <2> QED
    BY <1>3, <1>5, <2>1
<1>9. EventsInv'
  BY <1>3, <1>7, <1>8 DEF EventsInv, EventOK
<1>10. HeadInv'
  BY <1>3, <1>7 DEF HeadInv, HeadOK
<1>11. ToolInv'
  <2>1. ASSUME NEW other \in Assigned
        PROVE  /\ ssm!Exists(blockIndexMap[other])' /\ Booked(other)'
               /\ other \in activeTools <=> blockIndexMap[other] \in ssm!Unclosed
    BY <1>4, <1>5, <1>7, Idle DEF Booked, ssm!Exists
  <2>2. ASSUME NEW other \in Assigned
        PROVE  ~Pending(other)'
    BY <1>3, <1>7 DEF Pending
  <2>3. queue'[1] = s /\ queue' # <<>>
    BY <1>7
  <2> QED
    BY <1>3, <1>5, <1>7, <2>1, <2>2, <2>3 DEF ToolInv
<1>12. ThinkInv'
  BY <1>4, <1>7, NoThinking
<1>13. <<s>>[Len(<<s>>)].type \in BlockEvents
  BY <1>3 DEF BlockEvents
<1> QED
  BY <1>4, <1>5, <1>6, <1>9, <1>10, <1>11, <1>12, <1>13, ReceiveStream DEF TypeAt

\* Every message of the well-behaved upstream keeps the invariant.
LEMMA UpstreamStream ==
    ASSUME StreamInv, Liberties = {}, Upstream
    PROVE  StreamInv'
<1>1. PipelineInv'
  BY UpstreamKeeps DEF StreamInv
<1>2. CASE ThinkingChunk
  BY <1>1, <1>2, BeforeStream, EnterStream, InStream, LeaveStream, AfterStream DEF ThinkingChunk
<1>3. CASE \E id \in ToolIds : ToolRequest(id) \/ ToolFragment(id) \/ ToolStop(id) \/ ToolError(id)
  BY <1>1, <1>3, RequestStream, FragmentStream, ResultStream
<1> QED
  BY <1>1, <1>2, <1>3, TextStream, OverflowStream DEF Upstream

-----------------------------------------------------------------------------
(* The end of the upstream.                                                  *)
LEMMA EndStream ==
    ASSUME StreamInv, EndOfStream
    PROVE  StreamInv'
<1> USE MaxIndexFacts, KindFacts
<1>1. PipelineInv'
  BY EndKeeps DEF StreamInv
<1>2. /\ queue = <<>> /\ ~upstreamDone
      /\ upstreamDone' /\ ~buffered'
      /\ UNCHANGED <<toolVars, ssmState, processorVars, thinkingEnabled, thinkingState,
                     saidText, stopReason, dropped>>
  BY DEF EndOfStream
<1>3. /\ UNCHANGED <<messageStarted, messageDeltaSent, messageEnded, activeBlocks,
                    client, toolUseIdByBlockIndex, completedToolUseIds>>
      /\ UNCHANGED <<blockIndexMap, activeTools, Assigned>>
  BY <1>2 DEF ssmState, processorVars, toolVars, Assigned
<1>4. /\ UNCHANGED ssm!Unclosed /\ \A i : ssm!Exists(i)' <=> ssm!Exists(i)
      /\ \A i : TypeAt(i)' = TypeAt(i)
  BY <1>2, <1>3 DEF ssm!Unclosed, ssm!Exists, TypeAt
<1>5. /\ messageStarted
      /\ thinkingEnabled => ~Ending /\ ~messageDeltaSent
  BY <1>2 DEF StreamInv, MessageInv, Ending
<1>6. PICK c \in Event : c = CloseOpenBlocks
  BY EventConstructors
<1>7. PICK m \in Event : m = MessageDelta(DetermineStopReason)
  <2>1. DetermineStopReason \in Reasons \ {"none"}
    BY DEF DetermineStopReason, Reasons
  <2> QED
    BY <2>1, EventConstructors
<1>8. PICK s \in Event : s = MessageStop
  BY EventConstructors
<1>9. /\ c.type = "close_open_blocks" /\ c.index = 0
      /\ m.type = "message_delta" /\ m.kind = DetermineStopReason /\ m.index = 0
      /\ s.type = "message_stop" /\ s.index = 0
  BY <1>6, <1>7, <1>8, EventFields
<1>10. FlushEvents # <<>> => /\ thinkingEnabled /\ buffered
                            /\ \E d \in Event : /\ FlushEvents = <<d>>
                                  /\ d.type = "content_block_delta" /\ d.index = 0
                                  /\ d.kind = IF thinkingState = "in_thinking"
                                              THEN "thinking_delta" ELSE "text_delta"
  <2>1. PICK x \in Event : x = BlockDelta(0, "thinking_delta")
    BY EventConstructors
  <2>2. PICK t \in Event : t = BlockDelta(0, "text_delta")
    BY EventConstructors
  <2>3. /\ x.type = "content_block_delta" /\ x.index = 0 /\ x.kind = "thinking_delta"
        /\ t.type = "content_block_delta" /\ t.index = 0 /\ t.kind = "text_delta"
    BY <2>1, <2>2, EventFields
  <2>4. \/ FlushEvents = <<>>
        \/ thinkingEnabled /\ buffered /\ thinkingState = "in_thinking" /\ FlushEvents = <<x>>
        \/ thinkingEnabled /\ buffered /\ thinkingState # "in_thinking" /\ FlushEvents = <<t>>
    <3>1. CASE ~thinkingEnabled \/ ~buffered
      BY <3>1, Zenon DEF FlushEvents
    <3>2. CASE thinkingEnabled /\ buffered /\ thinkingState = "in_thinking"
      BY <2>1, <3>2, Zenon DEF FlushEvents, ThinkingIndex
    <3>3. CASE thinkingEnabled /\ buffered /\ thinkingState # "in_thinking"
      BY <2>2, <3>3, Zenon DEF FlushEvents
    <3> QED
      BY <3>1, <3>2, <3>3, Zenon
  <2> QED
    BY <2>3, <2>4
<1>11. EventOK(c)' /\ EventOK(m)' /\ EventOK(s)'
  <2>1. m.kind = "tool_use" <=> "tool_use" \in client'.seen
    BY <1>3, <1>9 DEF StreamInv, BookInv, DetermineStopReason
  <2> QED
    BY <1>9, <2>1 DEF EventOK, BlockEvents
<1>12. /\ \A id \in Assigned : ~Pending(id) /\ Booked(id) /\ ssm!Exists(blockIndexMap[id])
                                 /\ (id \notin activeTools => blockIndexMap[id] \notin ssm!Unclosed)
                                 /\ ~thinkingEnabled
  BY <1>2 DEF StreamInv, ToolInv, Pending
<1>13. ASSUME Shape(queue'), EventsInv', HeadInv', queue' # <<>>,
              queue'[Len(queue')].type = "message_stop",
              \A k \in 1 .. Len(queue') : queue'[k].type # "content_block_start"
       PROVE  StreamInv'
  <2>1. Ending' /\ EndQueued'
    BY <1>13 DEF Ending, EndQueued
  <2>2. MessageInv'
    BY <1>2, <1>3, <1>4, <1>5, <1>13, <2>1 DEF StreamInv, MessageInv
  <2>3. BlocksInv'
    BY <1>2, <1>3, <1>4 DEF StreamInv, BlocksInv
  <2>4. ToolInv'
    BY <1>2, <1>3, <1>4, <1>12, <1>13, <2>1 DEF ToolInv, Pending, Booked
  <2>5. BookInv' /\ DropInv' /\ Faultless'
    BY <1>2, <1>3 DEF StreamInv, BookInv, OpenToolIndices, DropInv, Faultless
  <2>6. ThinkInv'
    BY <1>2, <1>3, <1>4, <2>1 DEF StreamInv, ThinkInv
  <2> QED
    BY <1>1, <1>13, <2>2, <2>3, <2>4, <2>5, <2>6 DEF StreamInv, ShapeInv
<1>14. CASE FlushEvents = <<>>
  <2>1. queue' = <<c, m, s>>
    BY <1>6, <1>7, <1>8, <1>14 DEF EndOfStream
  <2>2. Shape(queue')
    <3>1. Shape(<<c, m, s>>)
      BY <1>9 DEF Shape, Follows
    <3> QED
      BY <2>1, <3>1
  <2>3. EventsInv'
    BY <1>11, <2>1 DEF EventsInv
  <2>4. HeadInv'
    BY <1>9, <2>1 DEF HeadInv, HeadOK
  <2>5. /\ queue' # <<>> /\ queue'[Len(queue')].type = "message_stop"
        /\ \A k \in 1 .. Len(queue') : queue'[k].type # "content_block_start"
    BY <1>9, <2>1
  <2> QED
    BY <1>13, <2>2, <2>3, <2>4, <2>5
<1>15. CASE FlushEvents # <<>>
  <2>0. thinkingEnabled /\ buffered /\ thinkingEnabled' /\ ~messageDeltaSent' /\ ~Ending
    BY <1>2, <1>3, <1>5, <1>10, <1>15
  <2>1. PICK d \in Event : /\ FlushEvents = <<d>>
                           /\ d.type = "content_block_delta" /\ d.index = 0
                           /\ d.kind = IF thinkingState = "in_thinking"
                                       THEN "thinking_delta" ELSE "text_delta"
    BY <1>10, <1>15
  <2>2. queue' = <<d, c, m, s>>
    <3>1. <<d>> \o <<c, m, s>> = <<d, c, m, s>>
      BY ConcatenatedThree, Zenon
    <3> QED
      BY <1>6, <1>7, <1>8, <2>1, <3>1 DEF EndOfStream
  <2>3. Shape(queue')
    BY <1>9, <2>1, <2>2, ClosingShapes
  <2>4. thinkingState = "not_in_thinking" \/ thinkingState = "in_thinking"
    BY <2>0 DEF StreamInv, ThinkInv, PipelineInv, ThinkingType
  <2>5. EventsInv'
    <3>1. EventOK(d)'
      BY <1>2, <2>0, <2>1, <2>4, TypesOfDeltas DEF EventOK, TypeAt
    <3> QED
      BY <1>11, <2>2, <3>1 DEF EventsInv
  <2>6. HeadInv'
    <3>1. thinkingState = "in_thinking" => 0 \in ssm!Unclosed
      BY <1>2, <2>0 DEF StreamInv, ThinkInv
    <3>2. thinkingState = "not_in_thinking" => 0 \in ssm!Unclosed \/ ~ssm!Exists(0)
      BY <1>2, <2>0 DEF StreamInv, ThinkInv, ssm!Unclosed
    <3>3. DeltaReady(d)'
      BY <1>4, <2>1, <2>4, <3>1, <3>2 DEF DeltaReady
    <3>4. queue'[1] = d
      BY <2>2
    <3> QED
      BY <2>1, <3>3, <3>4 DEF HeadInv, HeadOK
  <2>7. /\ queue' # <<>> /\ queue'[Len(queue')].type = "message_stop"
        /\ \A k \in 1 .. Len(queue') : queue'[k].type # "content_block_start"
    BY <1>9, <2>1, <2>2
  <2> QED
    BY <1>13, <2>3, <2>5, <2>6, <2>7
<1> QED
  BY <1>14, <1>15

-----------------------------------------------------------------------------
(* The stream processor.                                                     *)
LEMMA SecondEvent ==
    ASSUME queue \in Seq(Event), ShapeInv, Len(queue) # 1, queue # <<>>
    PROVE  /\ queue[2].type = "content_block_delta" =>
                 queue[1].type = "content_block_start" /\ queue[1].index = queue[2].index
           /\ queue[2].type = "message_delta" => queue[1].type = "close_open_blocks"
           /\ queue[2].type = "message_stop" => queue[1].type = "message_delta"
<1>1. 2 \in 1 .. Len(queue) /\ 2 - 1 = 1
  BY TailOfQueue
<1>2. Follows(queue, 2)
  BY <1>1 DEF ShapeInv, Shape
<1> QED
  BY <1>1, <1>2 DEF Follows

\* What can come after the first event: a start,
LEMMA LaterStart ==
    ASSUME queue \in Seq(Event), ShapeInv, NEW k \in 1 .. Len(queue), k # 1,
           queue[k].type = "content_block_start"
    PROVE  /\ queue[k].index # 0
           /\ \/ queue[1].type = "content_block_stop"
              \/ queue[1].type = "content_block_delta" /\ queue[1].index = 0
<1>1. Len(queue) \in Nat /\ k - 1 \in 1 .. Len(queue)
  OBVIOUS
<1>2. Follows(queue, k) /\ Follows(queue, k - 1)
  BY <1>1 DEF ShapeInv, Shape
<1> QED
  BY <1>1, <1>2 DEF Follows

\* or the message_delta of the ending.
LEMMA LaterMessageDelta ==
    ASSUME queue \in Seq(Event), ShapeInv, NEW k \in 1 .. Len(queue), k # 1,
           queue[k].type = "message_delta"
    PROVE  queue[1].type \in {"close_open_blocks", "content_block_delta"}
<1>1. Len(queue) \in Nat /\ k - 1 \in 1 .. Len(queue)
  OBVIOUS
<1>2. Follows(queue, k) /\ Follows(queue, k - 1)
  BY <1>1 DEF ShapeInv, Shape
<1> QED
  BY <1>1, <1>2 DEF Follows

\* The event that is processed, and those that stay in the queue.
LEMMA NextEvent ==
    ASSUME StreamInv, queue # <<>>, Processed
    PROVE  /\ queue \in Seq(Event) /\ Len(queue) \in Nat \ {0} /\ 1 \in 1 .. Len(queue)
           /\ queue[1] = Head(queue) /\ queue[1] \in Event /\ Follows(queue, 1)
           /\ EventOK(queue[1]) /\ HeadOK(queue[1])
           /\ queue' = Tail(queue) /\ Len(queue') = Len(queue) - 1
           /\ queue' = <<>> <=> Len(queue) = 1
           /\ \A k \in 1 .. Len(queue') :
                 /\ k + 1 \in 1 .. Len(queue) /\ k + 1 # 1
                 /\ queue'[k] = queue[k + 1] /\ EventOK(queue[k + 1])
           /\ queue' # <<>> => queue'[Len(queue')] = queue[Len(queue)] /\ queue'[1] = queue[2]
           /\ ShapeInv'
           /\ queue[1].type # "message_start" => messageStarted
           /\ UNCHANGED <<activeTools, blockIndexMap, Assigned, thinkingEnabled, thinkingState,
                          buffered, saidText, upstreamDone>>
           /\ \A i : TypeAt(i)' = TypeAt(i)
<1>1. queue \in Seq(Event) /\ queue' = Tail(queue)
  BY DEF StreamInv, PipelineInv, Processed
<1>2. /\ queue[1] = Head(queue) /\ queue[1] \in Event
      /\ Len(queue) \in Nat \ {0} /\ 1 \in 1 .. Len(queue)
      /\ Len(queue') = Len(queue) - 1 /\ queue' \in Seq(Event)
      /\ \A k \in 1 .. Len(queue') : queue'[k] = queue[k + 1] /\ k + 1 \in 1 .. Len(queue) /\ k + 1 # 1
  BY <1>1, TailOfQueue
<1>3. Shape(queue) /\ EventsInv /\ HeadInv
  BY DEF StreamInv, ShapeInv
<1>4. /\ Follows(queue, 1) /\ EventOK(queue[1]) /\ HeadOK(queue[1])
      /\ \A k \in 1 .. Len(queue') : EventOK(queue[k + 1])
  BY <1>2, <1>3 DEF Shape, EventsInv, HeadInv
<1>5. queue' = <<>> <=> Len(queue) = 1
  BY <1>2
<1>6. queue' # <<>> => queue'[Len(queue')] = queue[Len(queue)] /\ queue'[1] = queue[2]
  <2>1. queue' # <<>> => Len(queue') \in 1 .. Len(queue') /\ 1 \in 1 .. Len(queue')
    BY <1>2, <1>5
  <2> QED
    BY <1>2, <2>1
<1>7. ShapeInv'
  <2>1. Shape(Tail(queue))
    BY <1>1, ShapeTail DEF StreamInv
  <2> QED
    BY <1>1, <2>1 DEF ShapeInv
<1>8. queue[1].type # "message_start" => messageStarted
  <2>1. MessageStart.type = "message_start"
    BY EventFields
  <2>2. queue = <<MessageStart>> => queue[1].type = "message_start"
    BY <2>1
  <2> QED
    BY <2>2 DEF StreamInv, MessageInv
<1>9. UNCHANGED <<activeTools, blockIndexMap, Assigned, thinkingEnabled, thinkingState,
                  buffered, saidText, upstreamDone>>
  BY DEF Processed, toolVars, thinkingVars, Assigned
<1>10. \A i : TypeAt(i)' = TypeAt(i)
  BY <1>9 DEF TypeAt
<1> QED
  BY <1>1, <1>2, <1>4, <1>5, <1>6, <1>7, <1>8, <1>9, <1>10

\* A block event leaves the message as it is.
LEMMA BlockEventStream ==
    ASSUME StreamInv, queue # <<>>, Processed,
           queue[1].type \in BlockEvents \/ queue[1].type = "close_open_blocks",
           UNCHANGED <<messageStarted, messageDeltaSent, messageEnded, stopReason>>,
           messageDeltaSent => ssm!Unclosed' = {} /\ client'.seen = client.seen
    PROVE  /\ MessageInv'
           /\ Ending' <=> Ending
           /\ Streaming \/ (messageDeltaSent /\ ssm!Unclosed = {})
<1>1. queue[1].type \notin {"exception", "message_stop", "message_start"}
  BY DEF BlockEvents
<1>2. EndQueued' <=> EndQueued
  <2>1. CASE queue' = <<>>
    <3>1. Len(queue) = 1
      BY <2>1, NextEvent
    <3> QED
      BY <1>1, <2>1, <3>1 DEF EndQueued
  <2>2. CASE queue' # <<>>
    BY <2>2, NextEvent DEF EndQueued
  <2> QED
    BY <2>1, <2>2
<1>3. Ending' <=> Ending
  BY <1>2 DEF Ending
<1>4. EndQueued' => queue' # <<>>
  BY DEF EndQueued
<1>5. messageStarted
  BY <1>1, NextEvent
<1>6. MessageInv
  BY DEF StreamInv
<1>7. UNCHANGED <<thinkingEnabled, upstreamDone>>
  BY NextEvent
<1>8. MessageInv'
  BY <1>2, <1>3, <1>4, <1>5, <1>6, <1>7 DEF MessageInv
<1> QED
  BY <1>3, <1>5, <1>6, <1>8 DEF MessageInv, Streaming

\* The events that stay in the queue, when a step is quiet enough for them.
LEMMA RestEvents ==
    ASSUME StreamInv, queue # <<>>, Processed, messageDeltaSent' = messageDeltaSent,
           \A k \in 1 .. Len(queue) : k # 1 =>
              /\ queue[k].type = "message_delta" =>
                    ("tool_use" \in client'.seen <=> "tool_use" \in client.seen)
              /\ queue[k].type = "content_block_start" /\ queue[k].index \in ssm!Unclosed' =>
                    queue[k].index \in ssm!Unclosed
    PROVE  EventsInv'
<1> SUFFICES ASSUME NEW k \in 1 .. Len(queue')
             PROVE  EventOK(queue[k])'
  BY DEF EventsInv
<1>1. k + 1 \in 1 .. Len(queue) /\ k + 1 # 1 /\ queue'[k] = queue[k + 1]
  BY NextEvent
<1>2. PICK f \in Event : f = queue[k + 1]
  BY <1>1 DEF StreamInv, PipelineInv
<1>3. EventOK(f)
  BY <1>2, NextEvent
<1>4. /\ UNCHANGED <<activeTools, blockIndexMap, thinkingEnabled, thinkingState>>
      /\ \A i : TypeAt(i)' = TypeAt(i)
  BY NextEvent
<1>5. /\ f.type = "message_delta" => ("tool_use" \in client'.seen <=> "tool_use" \in client.seen)
      /\ f.type = "content_block_start" /\ f.index \in ssm!Unclosed' => f.index \in ssm!Unclosed
  BY <1>1, <1>2
<1>6. EventOK(f)'
  BY <1>3, <1>4, <1>5 DEF EventOK, StartOK
<1> QED
  BY <1>1, <1>2, <1>6

\* The event that is next now finds what it needs.
LEMMA NextHead ==
    ASSUME StreamInv, queue # <<>>, Processed,
           queue[1].type = "content_block_start" => queue[1].index \in ssm!Unclosed',
           queue[1].type = "close_open_blocks" => ssm!Unclosed' = {},
           queue[1].type = "message_delta" => messageDeltaSent'
    PROVE  HeadInv'
<1>1. CASE queue' = <<>>
  BY <1>1 DEF HeadInv
<1>2. CASE queue' # <<>>
  <2>1. Len(queue) # 1 /\ queue'[1] = queue[2]
    BY <1>2, NextEvent
  <2>2. /\ queue[2].type = "content_block_delta" =>
              queue[1].type = "content_block_start" /\ queue[1].index = queue[2].index
        /\ queue[2].type = "message_delta" => queue[1].type = "close_open_blocks"
        /\ queue[2].type = "message_stop" => queue[1].type = "message_delta"
    BY <2>1, NextEvent, SecondEvent DEF StreamInv
  <2>3. PICK f : f = queue[2]
    OBVIOUS
  <2>4. HeadOK(f)'
    BY <2>2, <2>3 DEF HeadOK, DeltaReady
  <2> QED
    BY <2>1, <2>3, <2>4 DEF HeadInv
<1> QED
  BY <1>1, <1>2

\* The starts that are still queued.
LEMMA RestPending ==
    ASSUME StreamInv, queue # <<>>, Processed, NEW id
    PROVE  /\ Pending(id)' => Pending(id)
           /\ Pending(id) => \/ Pending(id)'
                             \/ queue[1].type = "content_block_start" /\ queue[1].id = id
<1>1. Pending(id)' => Pending(id)
  <2> SUFFICES ASSUME NEW k \in 1 .. Len(queue'),
                      queue'[k].type = "content_block_start", queue'[k].id = id
               PROVE  Pending(id)
    BY DEF Pending
  <2>1. k + 1 \in 1 .. Len(queue) /\ queue'[k] = queue[k + 1]
    BY NextEvent
  <2> QED
    BY <2>1 DEF Pending
<1>2. ASSUME NEW k \in 1 .. Len(queue), queue[k].type = "content_block_start", queue[k].id = id,
             k # 1
      PROVE  Pending(id)'
  <2>1. k - 1 \in 1 .. Len(queue') /\ (k - 1) + 1 = k
    BY <1>2, NextEvent
  <2>2. queue'[k - 1] = queue[k]
    BY <2>1, NextEvent
  <2> QED
    BY <1>2, <2>1, <2>2 DEF Pending
<1> QED
  BY <1>1, <1>2 DEF Pending

\* message_start is the only event of the queue.
LEMMA MessageStartStream ==
    ASSUME StreamInv, SendMessageStart, PipelineInv'
    PROVE  StreamInv'
<1>0. queue # <<>> /\ Processed /\ UNCHANGED <<processorVars, stopReason, dropped>>
  BY DEF SendMessageStart, IsNext
<1>1. queue[1].type = "message_start" /\ Len(queue) = 1 /\ queue' = <<>>
  BY <1>0, NextEvent DEF SendMessageStart, IsNext, Follows
<1>2. ~EndQueued /\ ~EndQueued'
  BY <1>1 DEF EndQueued
<1>3. ~messageDeltaSent /\ ~messageEnded /\ ~upstreamDone /\ ~Ending
  BY <1>0, <1>2 DEF StreamInv, MessageInv, Ending
<1>4. \/ messageStarted /\ UNCHANGED ssm!ssmVars
      \/ /\ ~messageStarted /\ messageStarted' = TRUE
         /\ client' = ssm!ReceiveMessageStart(client)
         /\ UNCHANGED <<messageDeltaSent, messageEnded, activeBlocks>>
  BY DEF SendMessageStart, ssm!HandleMessageStart
<1>5. /\ messageStarted' /\ UNCHANGED <<messageDeltaSent, messageEnded, activeBlocks>>
      /\ client'.seen = client.seen /\ client'.faults = client.faults
  <2>1. client \in ssm!ClientType /\ client.started = messageStarted /\ messageStarted \in BOOLEAN
    BY ManagerFacts DEF StreamInv, PipelineInv, ssm!TypeOK
  <2> QED
    BY <1>4, <2>1 DEF ssm!ssmVars, ssm!ReceiveMessageStart, ssm!ClientType
<1>6. UNCHANGED <<ssm!Unclosed, toolUseIdByBlockIndex, completedToolUseIds>>
      /\ \A i : ssm!Exists(i)' <=> ssm!Exists(i)
  BY <1>0, <1>5 DEF ssm!Unclosed, ssm!Exists, processorVars
<1>7. /\ UNCHANGED <<activeTools, blockIndexMap, Assigned, thinkingEnabled, thinkingState,
                    buffered, saidText, upstreamDone>>
      /\ \A i : TypeAt(i)' = TypeAt(i)
      /\ ShapeInv'
  BY <1>0, NextEvent
<1>8. EventsInv' /\ HeadInv'
  BY <1>1 DEF EventsInv, HeadInv
<1>9. MessageInv' /\ ~Ending'
  BY <1>1, <1>2, <1>3, <1>5, <1>7 DEF MessageInv, Ending
<1>10. BlocksInv'
  BY <1>5, <1>6, <1>7 DEF StreamInv, BlocksInv
<1>11. ToolInv'
  <2>1. \A id : ~Pending(id) /\ ~Pending(id)'
    BY <1>1 DEF Pending
  <2>2. \A id : Booked(id)' <=> Booked(id)
    BY <1>6, <1>7 DEF Booked
  <2> QED
    BY <1>1, <1>3, <1>6, <1>7, <2>1, <2>2 DEF StreamInv, ToolInv
<1>12. BookInv' /\ DropInv' /\ Faultless'
  BY <1>0, <1>5, <1>6, <1>7 DEF StreamInv, BookInv, OpenToolIndices, DropInv, Faultless
<1>13. ThinkInv'
  <2>1. queue[1].type # "content_block_start"
    BY <1>1
  <2> QED
    BY <1>1, <1>3, <1>5, <1>6, <1>7, <2>1 DEF StreamInv, ThinkInv
<1> QED
  BY <1>7, <1>8, <1>9, <1>10, <1>11, <1>12, <1>13 DEF StreamInv

\* A stop closes a block of no running tool, and the tool stays booked.
LEMMA StopStream ==
    ASSUME StreamInv, ProcessStop, PipelineInv'
    PROVE  StreamInv'
<1> USE MaxIndexFacts
<1>0. queue # <<>> /\ Processed /\ UNCHANGED <<stopReason, dropped>>
  BY DEF ProcessStop, IsNext
<1>1. PICK e \in Event : e = queue[1]
  BY <1>0, NextEvent
<1>2. /\ e.type = "content_block_stop" /\ e.index \in ssm!Index
      /\ ssm!HandleContentBlockStop(e.index)
      /\ completedToolUseIds' = completedToolUseIds
                                    \cup ({toolUseIdByBlockIndex[e.index]} \ {NoToolId})
      /\ toolUseIdByBlockIndex' = [toolUseIdByBlockIndex EXCEPT ![e.index] = NoToolId]
  BY <1>0, <1>1, NextEvent, EventFacts DEF ProcessStop, IsNext
<1>3. /\ ~messageDeltaSent
      /\ \A id \in activeTools : blockIndexMap[id] # e.index
      /\ thinkingEnabled => e.index = 0 /\ thinkingState = "thinking_extracted"
  BY <1>0, <1>1, <1>2, NextEvent DEF EventOK, BlockEvents
<1>4. /\ UNCHANGED <<activeTools, blockIndexMap, Assigned, thinkingEnabled, thinkingState,
                    buffered, saidText, upstreamDone>>
      /\ \A i : TypeAt(i)' = TypeAt(i)
      /\ ShapeInv'
  BY <1>0, NextEvent
<1> DEFINE S == {e.index} \cap ssm!Unclosed
<1>5. /\ activeBlocks' = ssm!Stopped(S) /\ client' = ssm!ReceiveBlockStops(client, S)
      /\ UNCHANGED <<messageStarted, messageDeltaSent, messageEnded>>
  BY <1>2 DEF ssm!HandleContentBlockStop, ssm!StopBlocks
<1>6. /\ MessageInv' /\ (Ending' <=> Ending) /\ Streaming
  BY <1>0, <1>1, <1>2, <1>3, <1>5, BlockEventStream DEF BlockEvents
<1>7. client'.faults = client.faults /\ client'.seen = client.seen
  <2>1. S \in SUBSET ssm!Unclosed /\ ssm!IInv
    BY DEF StreamInv, PipelineInv
  <2> HIDE DEF S
  <2> QED
    BY <1>5, <1>6, <2>1, StopsQuiet
<1>8. \A j \in ssm!Index : /\ activeBlocks'[j].type = activeBlocks[j].type
                          /\ activeBlocks'[j].stopped = IF j \in S THEN TRUE ELSE activeBlocks[j].stopped
  <2>1. activeBlocks \in [ssm!Index -> ssm!BlockState]
    BY ManagerFacts DEF StreamInv, PipelineInv
  <2> QED
    BY <1>5, <2>1 DEF ssm!Stopped, ssm!BlockState
<1> HIDE DEF S
<1>9. ssm!Unclosed' = ssm!Unclosed \ {e.index} /\ \A j \in ssm!Index : ssm!Exists(j)' <=> ssm!Exists(j)
  BY <1>8 DEF ssm!Unclosed, ssm!Exists, S
<1>10. toolUseIdByBlockIndex \in [ssm!Index -> ToolIds \cup {NoToolId}]
  BY DEF StreamInv, PipelineInv, ProcessorType
<1>11. EventsInv' /\ HeadInv'
  BY <1>0, <1>1, <1>2, <1>5, <1>7, <1>9, RestEvents, NextHead
<1>12. BlocksInv'
  BY <1>4, <1>8, <1>9 DEF StreamInv, BlocksInv, S, ssm!Unclosed
<1>13. ToolInv'
  <2>1. \A id : Pending(id)' <=> Pending(id)
    BY <1>0, <1>1, <1>2, RestPending
  <2>2. ASSUME NEW id \in Assigned
        PROVE  /\ Booked(id) => Booked(id)'
               /\ ssm!Exists(blockIndexMap[id]) => ssm!Exists(blockIndexMap[id])'
    <3>1. blockIndexMap[id] \in ssm!Index /\ id # NoToolId
      BY AssignedCount, PipelineAssumption DEF StreamInv, PipelineInv, Assigned
    <3> QED
      BY <1>2, <1>4, <1>9, <1>10, <3>1 DEF Booked
  <2>3. queue[1] = e
    BY <1>1
  <2> QED
    BY <1>2, <1>3, <1>4, <1>6, <1>9, <2>1, <2>2, <2>3 DEF StreamInv, ToolInv
<1>14. BookInv'
  <2>1. toolUseIdByBlockIndex[e.index] = NoToolId =>
           completedToolUseIds' = completedToolUseIds /\ OpenToolIndices' = OpenToolIndices
    BY <1>2, <1>10 DEF OpenToolIndices
  <2>2. toolUseIdByBlockIndex[e.index] # NoToolId =>
           completedToolUseIds' # {} /\ OpenToolIndices # {}
    BY <1>2 DEF OpenToolIndices
  <2> QED
    BY <1>7, <2>1, <2>2 DEF StreamInv, BookInv
<1>15. DropInv' /\ Faultless'
  BY <1>0, <1>4, <1>7 DEF StreamInv, DropInv, Faultless
<1>16. ThinkInv'
  <2>1. queue[1] = e
    BY <1>1
  <2> QED
    BY <1>2, <1>3, <1>4, <1>6, <1>8, <1>9, <2>1 DEF StreamInv, ThinkInv, S
<1> QED
  BY <1>4, <1>6, <1>11, <1>12, <1>13, <1>14, <1>15, <1>16 DEF StreamInv

\* A start finds its block closed, so the manager accepts it.
LEMMA StartStream ==
    ASSUME StreamInv, ProcessStart, PipelineInv'
    PROVE  StreamInv'
<1> USE MaxIndexFacts
<1>0. queue # <<>> /\ Processed /\ UNCHANGED <<completedToolUseIds, stopReason, dropped>>
  BY DEF ProcessStart, IsNext
<1>1. PICK e \in Event : e = queue[1]
  BY <1>0, NextEvent
<1>2. /\ e.type = "content_block_start" /\ e.index \in ssm!Index /\ e.kind \in ssm!BlockTypes
      /\ ssm!HandleContentBlockStart(e.index, e.kind)
      /\ toolUseIdByBlockIndex' = IF e.id = NoToolId THEN toolUseIdByBlockIndex
                                      ELSE [toolUseIdByBlockIndex EXCEPT ![e.index] = e.id]
  BY <1>0, <1>1, NextEvent, EventFacts DEF ProcessStart, IsNext
<1>3. /\ ~messageDeltaSent
      /\ e.kind = TypeAt(e.index) /\ e.index \notin ssm!Unclosed
      /\ e.kind = "tool_use" => e.id \in ToolIds /\ blockIndexMap[e.id] = e.index
      /\ e.kind # "tool_use" => e.id = NoToolId
      /\ thinkingEnabled /\ thinkingState # "thinking_extracted" => e.index = 0
  BY <1>0, <1>1, <1>2, NextEvent DEF EventOK, StartOK, BlockEvents
<1>4. /\ UNCHANGED <<activeTools, blockIndexMap, Assigned, thinkingEnabled, thinkingState,
                    buffered, saidText, upstreamDone>>
      /\ \A i : TypeAt(i)' = TypeAt(i)
      /\ ShapeInv'
  BY <1>0, NextEvent
<1>5. Streaming
  BY <1>0, <1>1, <1>2, <1>3, NextEvent DEF StreamInv, MessageInv, Streaming
<1>6. ssm!AcceptStart(e.index, e.kind) /\ client' = ssm!ClientAfterStart(e.index, e.kind)
  BY <1>2, <1>3, <1>5 DEF ssm!HandleContentBlockStart, ssm!StartRefused, Streaming
<1>7. /\ client'.faults = client.faults /\ client'.seen = client.seen \cup {e.kind}
      /\ activeBlocks'[e.index] = [type |-> e.kind, stopped |-> FALSE]
      /\ \A j \in ssm!Index \ {e.index} :
            /\ activeBlocks'[j].type = activeBlocks[j].type
            /\ activeBlocks'[j].stopped =
                  IF j \in ssm!ClosedByStart(e.kind) THEN TRUE ELSE activeBlocks[j].stopped
      /\ UNCHANGED <<messageStarted, messageDeltaSent, messageEnded>>
  <2>1. ssm!IInv
    BY DEF StreamInv, PipelineInv
  <2>2. e.index \in ssm!Index /\ e.kind \in ssm!BlockTypes /\ e.index \notin ssm!Unclosed
    BY <1>2, <1>3
  <2>3. ssm!TypeOK
    BY <2>1, ManagerFacts
  <2>4. client'.faults = client.faults /\ client'.seen = client.seen \cup {e.kind}
    BY <1>5, <1>6, <2>1, <2>2, StartQuiet
  <2>5. /\ activeBlocks'[e.index] = [type |-> e.kind, stopped |-> FALSE]
        /\ \A j \in ssm!Index \ {e.index} :
              /\ activeBlocks'[j].type = activeBlocks[j].type
              /\ activeBlocks'[j].stopped =
                    IF j \in ssm!ClosedByStart(e.kind) THEN TRUE ELSE activeBlocks[j].stopped
        /\ UNCHANGED <<messageStarted, messageDeltaSent, messageEnded>>
    BY <1>6, <2>2, <2>3, StartBooked
  <2> QED
    BY <2>4, <2>5
<1>8. /\ MessageInv' /\ (Ending' <=> Ending)
  BY <1>0, <1>1, <1>2, <1>3, <1>7, BlockEventStream DEF BlockEvents
<1>9. /\ thinkingEnabled => e.kind # "tool_use"
      /\ ~thinkingEnabled => (e.kind = "tool_use" <=> e.index # 0)
      /\ \A j \in ssm!ClosedByStart(e.kind) :
            j \in ssm!Unclosed /\ activeBlocks[j].type = "text" /\ e.kind = "tool_use"
  BY <1>3 DEF TypeAt, ssm!ClosedByStart, ssm!UnclosedText
<1>10. /\ ssm!Unclosed' = (ssm!Unclosed \ ssm!ClosedByStart(e.kind)) \cup {e.index}
       /\ \A j \in ssm!Index : ssm!Exists(j)' <=> ssm!Exists(j) \/ j = e.index
  <2>1. activeBlocks'[e.index].type = e.kind /\ activeBlocks'[e.index].stopped = FALSE
        /\ e.kind # "none"
    BY <1>2, <1>7 DEF ssm!BlockTypes
  <2>2. \A j \in ssm!Index : ssm!Exists(j)' <=> ssm!Exists(j) \/ j = e.index
    BY <1>2, <1>7, <2>1 DEF ssm!Exists
  <2>3. \A j \in ssm!Index : j \in ssm!Unclosed' <=>
            j = e.index \/ (j \in ssm!Unclosed /\ j \notin ssm!ClosedByStart(e.kind))
    BY <1>2, <1>3, <1>7, <2>1, <2>2 DEF ssm!Unclosed
  <2>4. ssm!Unclosed' \subseteq ssm!Index /\ ssm!Unclosed \subseteq ssm!Index
    BY DEF ssm!Unclosed
  <2> QED
    BY <1>2, <2>2, <2>3, <2>4
<1>11. toolUseIdByBlockIndex \in [ssm!Index -> ToolIds \cup {NoToolId}] /\ NoToolId \notin ToolIds
  BY PipelineAssumption DEF StreamInv, PipelineInv, ProcessorType
<1>12. \A id \in Assigned : /\ blockIndexMap[id] \in ssm!Index /\ blockIndexMap[id] # 0
                            /\ e.id \in ToolIds /\ id # e.id => blockIndexMap[id] # blockIndexMap[e.id]
  BY AssignedCount DEF StreamInv, PipelineInv, ToolsInv, DistinctBlocks, Assigned, Unassigned
<1>13. EventsInv' /\ HeadInv'
  <2>1. ASSUME NEW k \in 1 .. Len(queue), k # 1
        PROVE  queue[k].type \notin {"message_delta", "content_block_start"}
    <3>1. queue[1].type = "content_block_start"
      BY <1>1, <1>2
    <3> QED
      BY <2>1, <3>1, LaterStart, LaterMessageDelta DEF StreamInv, PipelineInv
  <2>2. EventsInv'
    BY <1>0, <1>7, <2>1, RestEvents
  <2>3. HeadInv'
    BY <1>0, <1>1, <1>2, <1>10, NextHead
  <2> QED
    BY <2>2, <2>3
<1>14. BlocksInv'
  <2>1. ASSUME NEW j \in ssm!Index
        PROVE  IF ssm!Exists(j)' THEN activeBlocks'[j].type = TypeAt(j)' ELSE ~activeBlocks'[j].stopped
    <3>1. CASE j = e.index
      BY <1>3, <1>4, <1>7, <1>10, <3>1
    <3>2. CASE j # e.index
      BY <1>4, <1>7, <1>9, <1>10, <3>2 DEF StreamInv, BlocksInv, ssm!Unclosed
    <3> QED
      BY <3>1, <3>2
  <2>2. ASSUME NEW j \in ssm!Index, ~thinkingEnabled', ssm!Exists(j)', j # 0
        PROVE  \E id \in Assigned' : blockIndexMap'[id] = j
    <3>1. CASE j = e.index
      BY <1>3, <1>4, <1>9, <2>2, <3>1 DEF Assigned, Unassigned
    <3>2. CASE j # e.index
      BY <1>4, <1>10, <2>2, <3>2 DEF StreamInv, BlocksInv
    <3> QED
      BY <3>1, <3>2
  <2> QED
    BY <2>1, <2>2 DEF BlocksInv
<1>15. ToolInv'
  <2> SUFFICES ASSUME NEW id \in Assigned
               PROVE  /\ Pending(id)' => id \in activeTools
                      /\ Pending(id)' \/ (ssm!Exists(blockIndexMap[id])' /\ Booked(id)')
                      /\ id \in activeTools /\ ~Ending => Pending(id)' \/ blockIndexMap[id] \in ssm!Unclosed'
                      /\ id \notin activeTools => blockIndexMap[id] \notin ssm!Unclosed'
                      /\ ~thinkingEnabled
    BY <1>4, <1>8 DEF ToolInv
  <2>1. /\ Pending(id) => id \in activeTools
        /\ Pending(id) \/ (ssm!Exists(blockIndexMap[id]) /\ Booked(id))
        /\ id \in activeTools /\ ~Ending => Pending(id) \/ blockIndexMap[id] \in ssm!Unclosed
        /\ id \notin activeTools => blockIndexMap[id] \notin ssm!Unclosed
        /\ ~thinkingEnabled
    BY <1>1, <1>2 DEF StreamInv, ToolInv
  <2>2. blockIndexMap[id] \in ssm!Index /\ blockIndexMap[id] # 0 /\ id \in ToolIds /\ id # NoToolId
    BY <1>11, <1>12 DEF Assigned
  <2>3. Pending(id)' => Pending(id)
    BY <1>0, RestPending
  <2>4. CASE e.id = id
    <3>1. blockIndexMap[id] = e.index /\ Pending(id)
      BY <1>0, <1>1, <1>2, <1>3, <2>2, <2>4, NextEvent DEF Pending
    <3>2. Booked(id)'
      BY <1>2, <1>4, <1>11, <2>2, <2>4, <3>1 DEF Booked
    <3>3. ssm!Exists(blockIndexMap[id])' /\ blockIndexMap[id] \in ssm!Unclosed'
      BY <1>4, <1>10, <2>2, <3>1
    <3> QED
      BY <2>1, <2>3, <3>1, <3>2, <3>3
  <2>5. CASE e.id # id
    <3>1. blockIndexMap[id] # e.index
      BY <1>3, <1>9, <1>12, <2>1, <2>2, <2>5
    <3>2. Pending(id) => Pending(id)'
      BY <1>0, <1>1, <2>5, RestPending
    <3>3. Booked(id) => Booked(id)'
      BY <1>0, <1>2, <1>4, <1>11, <2>2, <3>1 DEF Booked
    <3>4. ssm!Exists(blockIndexMap[id]) => activeBlocks[blockIndexMap[id]].type = "tool_use"
      BY <2>1, <2>2 DEF StreamInv, BlocksInv, TypeAt
    <3>5. blockIndexMap[id] \in ssm!Unclosed' <=> blockIndexMap[id] \in ssm!Unclosed
      BY <1>9, <1>10, <3>1, <3>4 DEF ssm!Unclosed
    <3>6. ssm!Exists(blockIndexMap[id]) => ssm!Exists(blockIndexMap[id])'
      BY <1>4, <1>10, <2>2
    <3> QED
      BY <2>1, <2>3, <3>2, <3>3, <3>5, <3>6
  <2> QED
    BY <2>4, <2>5
<1>16. BookInv'
  <2>1. CASE e.kind = "tool_use"
    <3>1. toolUseIdByBlockIndex'[e.index] # NoToolId
      BY <1>2, <1>3, <1>11, <2>1
    <3>2. OpenToolIndices' # {}
      BY <1>2, <3>1 DEF OpenToolIndices
    <3> QED
      BY <1>7, <2>1, <3>2 DEF BookInv
  <2>2. CASE e.kind # "tool_use"
    BY <1>0, <1>2, <1>3, <1>7, <2>2 DEF StreamInv, BookInv, OpenToolIndices
  <2> QED
    BY <2>1, <2>2
<1>17. DropInv' /\ Faultless'
  BY <1>0, <1>4, <1>7 DEF StreamInv, DropInv, Faultless
<1>18. ThinkInv'
  <2> SUFFICES ASSUME thinkingEnabled
               PROVE  ThinkInv'
    BY <1>4 DEF ThinkInv
  <2>1. ssm!ClosedByStart(e.kind) = {} /\ queue[1].type = "content_block_start"
    BY <1>1, <1>2, <1>9
  <2>2. \A j \in ssm!Index : activeBlocks'[j].stopped => activeBlocks[j].stopped
    BY <1>7, <2>1
  <2>3. /\ ~Ending => \A i \in ssm!Index : activeBlocks[i].stopped
                                          => i = 0 /\ thinkingState = "thinking_extracted"
        /\ thinkingState = "thinking_extracted" => ~buffered
        /\ thinkingState # "thinking_extracted" => \A i \in ssm!Index : ssm!Exists(i) => i = 0
        /\ ~(thinkingState = "not_in_thinking" /\ ~saidText /\ ~upstreamDone)
    BY <1>0, <2>1 DEF StreamInv, ThinkInv
  <2>4. thinkingState = "in_thinking" => 0 \in ssm!Unclosed'
    BY <1>3, <1>10
  <2> QED
    BY <1>3, <1>4, <1>8, <1>10, <2>2, <2>3, <2>4 DEF ThinkInv
<1> QED
  BY <1>4, <1>8, <1>13, <1>14, <1>15, <1>16, <1>17, <1>18 DEF StreamInv

\* A delta goes to the open block of its type, starts the text block, or is
\* text that comes after the text block was closed for a tool.
LEMMA DeltaCases ==
    ASSUME StreamInv, ProcessDelta, NEW e, e = queue[1]
    PROVE  /\ e.index \in ssm!Index /\ e.kind \in DeltaKinds /\ Streaming
           /\ ssm!TypeOfDelta(e.kind) = TypeAt(e.index)
           /\ thinkingEnabled /\ thinkingState # "thinking_extracted" => e.index = 0
           /\ UNCHANGED <<messageStarted, messageDeltaSent, messageEnded>>
           /\ client'.faults = client.faults
           /\ \/ /\ UNCHANGED activeBlocks /\ client'.seen = client.seen
                 /\ dropped' = dropped \/ (~thinkingEnabled /\ dropped' = dropped \cup {"text_delta"})
              \/ /\ ~ssm!Exists(e.index) /\ TypeAt(e.index) = "text"
                 /\ activeBlocks'[e.index] = [type |-> "text", stopped |-> FALSE]
                 /\ \A j \in ssm!Index \ {e.index} :
                       /\ activeBlocks'[j].type = activeBlocks[j].type
                       /\ activeBlocks'[j].stopped = activeBlocks[j].stopped
                 /\ client'.seen = client.seen \cup {"text"} /\ dropped' = dropped
<1> USE MaxIndexFacts
<1>0. queue # <<>> /\ Processed /\ ssm!IInv
  BY DEF ProcessDelta, IsNext, StreamInv, PipelineInv
<1>1. /\ e \in Event /\ e.type = "content_block_delta"
      /\ e.index \in ssm!Index /\ e.kind \in DeltaKinds
      /\ ssm!HandleContentBlockDelta(e.index, e.kind)
      /\ dropped' = dropped \cup {k \in {e.kind} : activeBlocks[e.index].stopped}
  BY <1>0, NextEvent, EventFacts DEF ProcessDelta, IsNext
<1>2. /\ ~messageDeltaSent
      /\ ssm!TypeOfDelta(e.kind) = TypeAt(e.index)
      /\ thinkingEnabled /\ thinkingState # "thinking_extracted" => e.index = 0
      /\ DeltaReady(e)
  BY <1>0, <1>1, NextEvent DEF EventOK, HeadOK, BlockEvents
<1>3. Streaming
  BY <1>0, <1>1, <1>2, NextEvent DEF StreamInv, MessageInv, Streaming
<1>4. /\ client \in ssm!ClientType /\ client.started = messageStarted
      /\ client.deltaSent = messageDeltaSent /\ client.ended = messageEnded
      /\ ssm!TypeOK
      /\ \A i \in ssm!Unclosed : client.block[i] = activeBlocks[i].type
  BY <1>0, ManagerFacts
<1>5. IF ssm!Exists(e.index) THEN activeBlocks[e.index].type = TypeAt(e.index)
                             ELSE ~activeBlocks[e.index].stopped
  BY <1>1 DEF StreamInv, BlocksInv
<1>6. CASE e.index \in ssm!Unclosed
  <2>1. ssm!Exists(e.index) /\ ~activeBlocks[e.index].stopped
    BY <1>6 DEF ssm!Unclosed
  <2>2. /\ client' = ssm!ReceiveBlockDelta(client, e.index, e.kind)
        /\ UNCHANGED <<messageStarted, messageDeltaSent, messageEnded, activeBlocks>>
    BY <1>1, <2>1 DEF ssm!HandleContentBlockDelta
  <2>3. client.block[e.index] = ssm!TypeOfDelta(e.kind)
    BY <1>2, <1>4, <1>5, <1>6, <2>1
  <2>4. client'.faults = client.faults /\ client'.seen = client.seen
    BY <1>1, <1>3, <1>4, <2>2, <2>3, DeltaQuiet DEF Streaming
  <2>5. dropped' = dropped
    BY <1>1, <2>1
  <2> QED
    BY <1>1, <1>2, <1>3, <2>2, <2>4, <2>5
<1>7. CASE ssm!Exists(e.index) /\ e.index \notin ssm!Unclosed
  <2>1. activeBlocks[e.index].stopped = TRUE
    BY <1>1, <1>4, <1>7 DEF ssm!Unclosed, ssm!TypeOK, ssm!BlockState
  <2>2. UNCHANGED <<messageStarted, messageDeltaSent, messageEnded, activeBlocks, client>>
    BY <1>1, <1>7, <2>1 DEF ssm!HandleContentBlockDelta, ssm!ssmVars
  <2>3. ~thinkingEnabled /\ e.kind = "text_delta"
    BY <1>2, <1>7 DEF DeltaReady
  <2>4. dropped' = dropped \cup {"text_delta"}
    BY <1>1, <2>1, <2>3
  <2> QED
    BY <1>1, <1>2, <1>3, <2>2, <2>3, <2>4
<1>8. CASE ~ssm!Exists(e.index)
  <2>1. e.index \notin ssm!Unclosed
    BY <1>8 DEF ssm!Unclosed
  <2>2. e.kind = "text_delta" /\ TypeAt(e.index) = "text"
    BY <1>2, <2>1, TypesOfDeltas DEF DeltaReady
  <2>3. ssm!InferredType(e.kind) = "text" /\ "text" \in ssm!BlockTypes
    BY <2>2 DEF ssm!InferredType, ssm!BlockTypes
  <2>4. /\ ssm!AcceptStart(e.index, "text")
        /\ client' = ssm!ReceiveBlockDelta(ssm!ClientAfterStart(e.index, "text"), e.index, e.kind)
    BY <1>1, <1>3, <1>8, <2>1, <2>3 DEF ssm!HandleContentBlockDelta, ssm!StartRefused, Streaming
  <2>5. PICK c : c = ssm!ClientAfterStart(e.index, "text")
    OBVIOUS
  <2>6. /\ c \in ssm!ClientType /\ c.faults = client.faults
        /\ c.seen = client.seen \cup {"text"} /\ c.started = client.started
        /\ c.deltaSent = client.deltaSent /\ c.ended = client.ended
        /\ c.block = [[j \in ssm!Index |-> IF j \in ssm!ClosedByStart("text") THEN "closed"
                                           ELSE client.block[j]] EXCEPT ![e.index] = "text"]
    BY <1>0, <1>1, <1>3, <2>1, <2>3, <2>5, StartQuiet
  <2>7. c.block[e.index] = ssm!TypeOfDelta(e.kind)
    BY <1>1, <2>2, <2>6, TypesOfDeltas
  <2>8. client'.faults = client.faults /\ client'.seen = client.seen \cup {"text"}
    <3>1. c.started /\ ~c.deltaSent /\ ~c.ended
      BY <1>3, <1>4, <2>6 DEF Streaming
    <3>2. /\ ssm!ReceiveBlockDelta(c, e.index, e.kind).faults = c.faults
          /\ ssm!ReceiveBlockDelta(c, e.index, e.kind).seen = c.seen
      <4>1. c \in ssm!ClientType /\ e.index \in ssm!Index /\ e.kind \in DeltaKinds
        BY <1>1, <2>6
      <4> QED
        BY <2>7, <3>1, <4>1, DeltaQuiet
    <3>3. client' = ssm!ReceiveBlockDelta(c, e.index, e.kind)
      BY <2>4, <2>5
    <3> QED
      BY <2>6, <3>2, <3>3
  <2>9. /\ activeBlocks'[e.index] = [type |-> "text", stopped |-> FALSE]
        /\ \A j \in ssm!Index \ {e.index} :
              /\ activeBlocks'[j].type = activeBlocks[j].type
              /\ activeBlocks'[j].stopped =
                    IF j \in ssm!ClosedByStart("text") THEN TRUE ELSE activeBlocks[j].stopped
        /\ UNCHANGED <<messageStarted, messageDeltaSent, messageEnded>>
    BY <1>1, <1>4, <2>3, <2>4, StartBooked
  <2>10. ssm!ClosedByStart("text") = {}
    BY DEF ssm!ClosedByStart
  <2>11. dropped' = dropped
    BY <1>1, <1>5, <1>8
  <2> QED
    BY <1>1, <1>2, <1>3, <1>8, <2>2, <2>8, <2>9, <2>10, <2>11
<1> QED
  BY <1>6, <1>7, <1>8

\* A delta leaves the record as it is or starts the text block.
LEMMA DeltaStream ==
    ASSUME StreamInv, ProcessDelta, PipelineInv'
    PROVE  StreamInv'
<1> USE MaxIndexFacts
<1>0. queue # <<>> /\ Processed /\ UNCHANGED <<toolUseIdByBlockIndex, completedToolUseIds, stopReason>>
  BY DEF ProcessDelta, IsNext, processorVars
<1>1. PICK e \in Event : e = queue[1]
  BY <1>0, NextEvent
<1>2. e.type = "content_block_delta"
  BY <1>0, <1>1, NextEvent DEF ProcessDelta, IsNext
<1>3. /\ e.index \in ssm!Index /\ e.kind \in DeltaKinds /\ Streaming
      /\ ssm!TypeOfDelta(e.kind) = TypeAt(e.index)
      /\ thinkingEnabled /\ thinkingState # "thinking_extracted" => e.index = 0
      /\ UNCHANGED <<messageStarted, messageDeltaSent, messageEnded>>
      /\ client'.faults = client.faults
  BY <1>1, DeltaCases
<1>4. \/ /\ UNCHANGED activeBlocks /\ client'.seen = client.seen
         /\ dropped' = dropped \/ (~thinkingEnabled /\ dropped' = dropped \cup {"text_delta"})
      \/ /\ ~ssm!Exists(e.index) /\ TypeAt(e.index) = "text"
         /\ activeBlocks'[e.index] = [type |-> "text", stopped |-> FALSE]
         /\ \A j \in ssm!Index \ {e.index} :
               /\ activeBlocks'[j].type = activeBlocks[j].type
               /\ activeBlocks'[j].stopped = activeBlocks[j].stopped
         /\ client'.seen = client.seen \cup {"text"} /\ dropped' = dropped
  BY <1>1, DeltaCases
<1>5. /\ UNCHANGED <<activeTools, blockIndexMap, Assigned, thinkingEnabled, thinkingState,
                    buffered, saidText, upstreamDone>>
      /\ \A i : TypeAt(i)' = TypeAt(i)
      /\ ShapeInv'
  BY <1>0, NextEvent
<1>6. /\ MessageInv' /\ (Ending' <=> Ending)
  BY <1>0, <1>1, <1>2, <1>3, BlockEventStream DEF BlockEvents, Streaming
<1>7. \/ /\ UNCHANGED ssm!Unclosed /\ \A j : ssm!Exists(j)' <=> ssm!Exists(j)
         /\ UNCHANGED activeBlocks
      \/ /\ ssm!Unclosed' = ssm!Unclosed \cup {e.index}
         /\ \A j \in ssm!Index : ssm!Exists(j)' <=> ssm!Exists(j) \/ j = e.index
         /\ TypeAt(e.index) = "text" /\ ~ssm!Exists(e.index)
         /\ activeBlocks'[e.index].type = "text" /\ activeBlocks'[e.index].stopped = FALSE
         /\ \A j \in ssm!Index \ {e.index} :
               /\ activeBlocks'[j].type = activeBlocks[j].type
               /\ activeBlocks'[j].stopped = activeBlocks[j].stopped
  <2>1. CASE UNCHANGED activeBlocks
    BY <2>1 DEF ssm!Unclosed, ssm!Exists
  <2>2. CASE /\ ~ssm!Exists(e.index) /\ TypeAt(e.index) = "text"
             /\ activeBlocks'[e.index] = [type |-> "text", stopped |-> FALSE]
             /\ \A j \in ssm!Index \ {e.index} :
                   /\ activeBlocks'[j].type = activeBlocks[j].type
                   /\ activeBlocks'[j].stopped = activeBlocks[j].stopped
    <3>1. activeBlocks'[e.index].type = "text" /\ activeBlocks'[e.index].stopped = FALSE
      BY <2>2
    <3>2. \A j \in ssm!Index : ssm!Exists(j)' <=> ssm!Exists(j) \/ j = e.index
      BY <1>3, <2>2, <3>1 DEF ssm!Exists
    <3>3. \A j \in ssm!Index : j \in ssm!Unclosed' <=> j \in ssm!Unclosed \/ j = e.index
      BY <1>3, <2>2, <3>1, <3>2 DEF ssm!Unclosed
    <3>4. ssm!Unclosed' \subseteq ssm!Index /\ ssm!Unclosed \subseteq ssm!Index
      BY DEF ssm!Unclosed
    <3> QED
      BY <1>3, <2>2, <3>1, <3>2, <3>3, <3>4
  <2> QED
    BY <1>4, <2>1, <2>2
<1>8. ~thinkingEnabled /\ TypeAt(e.index) = "text" => e.index = 0
  BY DEF TypeAt
<1>9. EventsInv' /\ HeadInv'
  <2>1. ASSUME NEW k \in 1 .. Len(queue), k # 1
        PROVE  queue[k].type = "content_block_start" => queue[k].index # e.index
    <3>1. queue[1].type = "content_block_delta" /\ queue[1].index = e.index
      BY <1>1, <1>2
    <3> QED
      BY <2>1, <3>1, LaterStart DEF StreamInv, PipelineInv
  <2>2. "tool_use" \in client'.seen <=> "tool_use" \in client.seen
    BY <1>4
  <2>3. EventsInv'
    BY <1>0, <1>3, <1>7, <2>1, <2>2, RestEvents
  <2>4. HeadInv'
    BY <1>0, <1>1, <1>2, NextHead
  <2> QED
    BY <2>3, <2>4
<1>10. BlocksInv'
  <2>1. ASSUME NEW j \in ssm!Index
        PROVE  IF ssm!Exists(j)' THEN activeBlocks'[j].type = TypeAt(j)' ELSE ~activeBlocks'[j].stopped
    BY <1>3, <1>5, <1>7 DEF StreamInv, BlocksInv
  <2>2. ASSUME NEW j \in ssm!Index, ~thinkingEnabled', ssm!Exists(j)', j # 0
        PROVE  \E id \in Assigned' : blockIndexMap'[id] = j
    BY <1>5, <1>7, <1>8, <2>2 DEF StreamInv, BlocksInv
  <2> QED
    BY <2>1, <2>2 DEF BlocksInv
<1>11. ToolInv'
  <2>1. \A id : Pending(id)' <=> Pending(id)
    BY <1>0, <1>1, <1>2, RestPending
  <2>2. \A id : Booked(id)' <=> Booked(id)
    BY <1>0, <1>5 DEF Booked
  <2>3. ASSUME NEW id \in Assigned
        PROVE  /\ ssm!Exists(blockIndexMap[id]) => ssm!Exists(blockIndexMap[id])'
               /\ ~thinkingEnabled =>
                     (blockIndexMap[id] \in ssm!Unclosed' <=> blockIndexMap[id] \in ssm!Unclosed)
    <3>1. blockIndexMap[id] \in ssm!Index /\ blockIndexMap[id] # 0
      BY AssignedCount DEF StreamInv, PipelineInv, Assigned, Unassigned
    <3> QED
      BY <1>5, <1>7, <1>8, <3>1
  <2>4. queue[1].type # "content_block_stop"
    BY <1>1, <1>2
  <2> QED
    BY <1>5, <1>6, <2>1, <2>2, <2>3, <2>4 DEF StreamInv, ToolInv
<1>12. BookInv'
  BY <1>0, <1>4 DEF StreamInv, BookInv, OpenToolIndices
<1>13. DropInv' /\ Faultless'
  BY <1>3, <1>4, <1>5 DEF StreamInv, DropInv, Faultless
<1>14. ThinkInv'
  <2> SUFFICES ASSUME thinkingEnabled
               PROVE  ThinkInv'
    BY <1>5 DEF ThinkInv
  <2>1. queue[1].type = "content_block_delta"
    BY <1>1, <1>2
  <2>2. \A j \in ssm!Index : activeBlocks'[j].stopped => activeBlocks[j].stopped
    BY <1>7
  <2>3. /\ ~Ending => \A i \in ssm!Index : activeBlocks[i].stopped
                                          => i = 0 /\ thinkingState = "thinking_extracted"
        /\ thinkingState = "thinking_extracted" => ~buffered
        /\ thinkingState # "thinking_extracted" => \A i \in ssm!Index : ssm!Exists(i) => i = 0
        /\ thinkingState = "in_thinking" /\ ~Ending => 0 \in ssm!Unclosed
        /\ ~(thinkingState = "not_in_thinking" /\ ~saidText /\ ~upstreamDone)
    BY <1>0, <2>1 DEF StreamInv, ThinkInv
  <2> QED
    BY <1>3, <1>5, <1>6, <1>7, <2>2, <2>3 DEF ThinkInv
<1> QED
  BY <1>5, <1>6, <1>9, <1>10, <1>11, <1>12, <1>13, <1>14 DEF StreamInv

\* An exception queues the ending at once.
LEMMA OverflowProcessed ==
    ASSUME StreamInv, ProcessOverflow, PipelineInv'
    PROVE  StreamInv'
<1> USE MaxIndexFacts, KindFacts
<1>1. /\ queue # <<>> /\ Head(queue).type = "exception"
      /\ queue' = <<CloseOpenBlocks, MessageDelta("max_tokens"), MessageStop>> \o Tail(queue)
      /\ UNCHANGED <<toolVars, ssmState, processorVars, thinkingVars, upstreamDone, stopReason, dropped>>
  BY DEF ProcessOverflow, IsNext
<1>2. queue \in Seq(Event) /\ queue[1].type = "exception" /\ Len(queue) = 1
  <2>1. queue \in Seq(Event) /\ queue[1] = Head(queue) /\ 1 \in 1 .. Len(queue)
    BY <1>1, TailOfQueue DEF StreamInv, PipelineInv
  <2> QED
    BY <1>1, <2>1 DEF StreamInv, ShapeInv, Shape, Follows
<1>3. PICK c \in Event : c = CloseOpenBlocks
  BY EventConstructors
<1>4. PICK m \in Event : m = MessageDelta("max_tokens")
  BY EventConstructors
<1>5. PICK s \in Event : s = MessageStop
  BY EventConstructors
<1>6. /\ c.type = "close_open_blocks" /\ c.index = 0
      /\ m.type = "message_delta" /\ m.kind = "max_tokens" /\ m.index = 0
      /\ s.type = "message_stop" /\ s.index = 0
  BY <1>3, <1>4, <1>5, EventFields
<1>7. queue' = <<c, m, s>>
  <2>1. Tail(queue) = <<>>
    <3>1. Tail(queue) \in Seq(Event) /\ Len(Tail(queue)) = 0
      BY <1>1, <1>2, TailOfQueue
    <3> QED
      BY <3>1, EmptySeq
  <2>2. <<c, m, s>> \o <<>> = <<c, m, s>>
    OBVIOUS
  <2> QED
    BY <1>1, <1>3, <1>4, <1>5, <2>1, <2>2
<1>8. /\ UNCHANGED <<messageStarted, messageDeltaSent, messageEnded, activeBlocks,
                    client, toolUseIdByBlockIndex, completedToolUseIds>>
      /\ UNCHANGED <<blockIndexMap, activeTools, Assigned, thinkingEnabled, thinkingState,
                    buffered, saidText>>
  BY <1>1 DEF ssmState, processorVars, toolVars, thinkingVars, Assigned
<1>9. /\ UNCHANGED ssm!Unclosed /\ \A i : ssm!Exists(i)' <=> ssm!Exists(i)
      /\ \A i : TypeAt(i)' = TypeAt(i)
  BY <1>8 DEF ssm!Unclosed, ssm!Exists, TypeAt
<1>10. EndQueued /\ EndQueued' /\ Ending /\ Ending'
  <2>1. EndQueued
    BY <1>1, <1>2 DEF EndQueued
  <2>2. queue' # <<>> /\ queue'[Len(queue')].type = "message_stop"
    BY <1>6, <1>7
  <2> QED
    BY <2>1, <2>2 DEF EndQueued, Ending
<1>11. messageStarted
  <2>1. MessageStart.type = "message_start"
    BY EventFields
  <2>2. queue = <<MessageStart>> => queue[1].type = "message_start"
    BY <2>1
  <2> QED
    BY <1>2, <2>2 DEF StreamInv, MessageInv
<1>12. ShapeInv'
  <2>1. Shape(<<c, m, s>>)
    BY <1>6 DEF Shape, Follows
  <2> QED
    BY <1>7, <2>1 DEF ShapeInv
<1>13. EventsInv' /\ HeadInv'
  <2>1. EventOK(c)' /\ EventOK(m)' /\ EventOK(s)'
    BY <1>6 DEF EventOK, BlockEvents
  <2>2. EventsInv'
    BY <1>7, <2>1 DEF EventsInv
  <2>3. HeadInv'
    BY <1>6, <1>7 DEF HeadInv, HeadOK
  <2> QED
    BY <2>2, <2>3
<1>14. MessageInv'
  <2>1. queue' # <<>>
    BY <1>7
  <2> QED
    BY <1>1, <1>8, <1>9, <1>10, <1>11, <2>1 DEF StreamInv, MessageInv
<1>15. BlocksInv'
  BY <1>8, <1>9 DEF StreamInv, BlocksInv
<1>16. ToolInv'
  <2>1. \A id : ~Pending(id)
    BY <1>2 DEF Pending
  <2>2. \A id : ~Pending(id)'
    BY <1>6, <1>7 DEF Pending
  <2>3. \A id : Booked(id)' <=> Booked(id)
    BY <1>8 DEF Booked
  <2> QED
    BY <1>2, <1>8, <1>9, <1>10, <2>1, <2>2, <2>3 DEF StreamInv, ToolInv
<1>17. BookInv' /\ DropInv' /\ Faultless'
  BY <1>1, <1>8 DEF StreamInv, BookInv, OpenToolIndices, DropInv, Faultless
<1>18. ThinkInv'
  <2>1. thinkingEnabled => upstreamDone
    BY <1>10 DEF StreamInv, MessageInv
  <2> QED
    BY <1>1, <1>8, <1>9, <1>10, <2>1 DEF StreamInv, ThinkInv
<1> QED
  BY <1>12, <1>13, <1>14, <1>15, <1>16, <1>17, <1>18 DEF StreamInv

\* The ending closes what is open.
LEMMA CloseAllStream ==
    ASSUME StreamInv, CloseAll, PipelineInv'
    PROVE  StreamInv'
<1> USE MaxIndexFacts
<1>0. /\ queue # <<>> /\ Processed
      /\ UNCHANGED <<toolUseIdByBlockIndex, completedToolUseIds, stopReason, dropped>>
  BY DEF CloseAll, IsNext, processorVars
<1>1. PICK e \in Event : e = queue[1]
  BY <1>0, NextEvent
<1>2. e.type = "close_open_blocks" /\ Follows(queue, 1)
  BY <1>0, <1>1, NextEvent DEF CloseAll, IsNext
<1>3. EndQueued
  BY <1>0, <1>1, <1>2 DEF EndQueued, Follows
<1>4. /\ activeBlocks' = ssm!Stopped(ssm!Unclosed) /\ client' = ssm!ReceiveBlockStops(client, ssm!Unclosed)
      /\ UNCHANGED <<messageStarted, messageDeltaSent, messageEnded>>
  <2>1. ssm!Unclosed \cap ssm!Unclosed = ssm!Unclosed
    OBVIOUS
  <2> QED
    BY <2>1 DEF CloseAll, ssm!StopBlocks
<1>5. /\ UNCHANGED <<activeTools, blockIndexMap, Assigned, thinkingEnabled, thinkingState,
                    buffered, saidText, upstreamDone>>
      /\ \A i : TypeAt(i)' = TypeAt(i)
      /\ ShapeInv'
  BY <1>0, NextEvent
<1>6. \A j \in ssm!Index : /\ activeBlocks'[j].type = activeBlocks[j].type
                          /\ activeBlocks'[j].stopped =
                                IF j \in ssm!Unclosed THEN TRUE ELSE activeBlocks[j].stopped
  <2>1. activeBlocks \in [ssm!Index -> ssm!BlockState]
    BY ManagerFacts DEF StreamInv, PipelineInv
  <2> QED
    BY <1>4, <2>1 DEF ssm!Stopped, ssm!BlockState
<1>7. ssm!Unclosed' = {} /\ \A j \in ssm!Index : ssm!Exists(j)' <=> ssm!Exists(j)
  BY <1>6 DEF ssm!Unclosed, ssm!Exists
<1>8. Streaming \/ (messageDeltaSent /\ ssm!Unclosed = {})
  BY <1>0, <1>1, <1>2, NextEvent DEF StreamInv, MessageInv, Streaming
<1>9. client'.faults = client.faults /\ client'.seen = client.seen
  <2>1. ssm!Unclosed \in SUBSET ssm!Unclosed /\ ssm!IInv /\ (Streaming \/ ssm!Unclosed = {})
    BY <1>8 DEF StreamInv, PipelineInv
  <2> QED
    BY <1>4, <2>1, StopsQuiet
<1>10. MessageInv' /\ (Ending' <=> Ending)
  BY <1>0, <1>1, <1>2, <1>4, <1>7, <1>9, BlockEventStream
<1>11. EventsInv' /\ HeadInv'
  BY <1>0, <1>1, <1>2, <1>4, <1>7, <1>9, RestEvents, NextHead
<1>12. BlocksInv'
  BY <1>5, <1>6, <1>7 DEF StreamInv, BlocksInv, ssm!Unclosed
<1>13. ToolInv'
  <2>1. \A id : Pending(id)' <=> Pending(id)
    BY <1>0, <1>1, <1>2, RestPending
  <2>2. \A id : Booked(id)' <=> Booked(id)
    BY <1>0, <1>5 DEF Booked
  <2>3. \A id \in Assigned : blockIndexMap[id] \in ssm!Index
    BY AssignedCount DEF StreamInv, PipelineInv, Assigned
  <2>4. Ending'
    BY <1>3, <1>10 DEF Ending
  <2> QED
    BY <1>5, <1>7, <2>1, <2>2, <2>3, <2>4 DEF StreamInv, ToolInv
<1>14. BookInv' /\ DropInv' /\ Faultless'
  BY <1>0, <1>5, <1>9 DEF StreamInv, BookInv, OpenToolIndices, DropInv, Faultless
<1>15. ThinkInv'
  <2>1. Ending' /\ queue[1].type # "message_start"
    BY <1>1, <1>2, <1>3, <1>10 DEF Ending
  <2> QED
    BY <1>0, <1>5, <1>6, <1>7, <2>1 DEF StreamInv, ThinkInv
<1> QED
  BY <1>5, <1>10, <1>11, <1>12, <1>13, <1>14, <1>15 DEF StreamInv

\* A message event that leaves the blocks and the tools alone.
LEMMA MessageEventStream ==
    ASSUME StreamInv, queue # <<>>, Processed, PipelineInv', Ending, Ending',
           queue[1].type \in {"message_delta", "message_stop"},
           UNCHANGED <<toolUseIdByBlockIndex, completedToolUseIds, dropped>>,
           \A j \in ssm!Index : activeBlocks'[j].type = activeBlocks[j].type
                               /\ activeBlocks'[j].stopped = activeBlocks[j].stopped,
           client'.seen = client.seen, client'.faults = client.faults,
           EventsInv', HeadInv', MessageInv'
    PROVE  StreamInv'
<1>1. /\ UNCHANGED <<activeTools, blockIndexMap, Assigned, thinkingEnabled, thinkingState,
                    buffered, saidText, upstreamDone>>
      /\ \A i : TypeAt(i)' = TypeAt(i)
      /\ ShapeInv'
  BY NextEvent
<1>2. UNCHANGED ssm!Unclosed /\ \A j \in ssm!Index : ssm!Exists(j)' <=> ssm!Exists(j)
  BY DEF ssm!Unclosed, ssm!Exists
<1>3. BlocksInv'
  BY <1>1, <1>2 DEF StreamInv, BlocksInv
<1>4. ToolInv'
  <2>1. \A id : Pending(id)' <=> Pending(id)
    BY RestPending
  <2>2. \A id : Booked(id)' <=> Booked(id)
    BY <1>1 DEF Booked
  <2>3. \A id \in Assigned : blockIndexMap[id] \in ssm!Index
    BY AssignedCount DEF StreamInv, PipelineInv, Assigned
  <2> QED
    BY <1>1, <1>2, <2>1, <2>2, <2>3 DEF StreamInv, ToolInv
<1>5. BookInv' /\ DropInv' /\ Faultless'
  BY <1>1 DEF StreamInv, BookInv, OpenToolIndices, DropInv, Faultless
<1>6. ThinkInv'
  BY <1>1, <1>2, MaxIndexFacts DEF StreamInv, ThinkInv
<1> QED
  BY <1>1, <1>3, <1>4, <1>5, <1>6 DEF StreamInv

\* message_delta finds every block closed and has the reason that fits.
LEMMA MessageDeltaStream ==
    ASSUME StreamInv, SendMessageDelta, PipelineInv'
    PROVE  StreamInv'
<1> USE MaxIndexFacts
<1>0. queue # <<>> /\ Processed /\ UNCHANGED <<toolUseIdByBlockIndex, completedToolUseIds, dropped>>
  BY DEF SendMessageDelta, IsNext, processorVars
<1>1. PICK e \in Event : e = queue[1]
  BY <1>0, NextEvent
<1>2. e.type = "message_delta" /\ Follows(queue, 1) /\ EventOK(e) /\ HeadOK(e)
  BY <1>0, <1>1, NextEvent DEF SendMessageDelta, IsNext
<1>3. /\ Len(queue) = 2 /\ queue[2].type = "message_stop" /\ queue' # <<>> /\ Len(queue') = 1
      /\ queue'[1] = queue[2]
  BY <1>0, <1>1, <1>2, NextEvent DEF Follows
<1>4. ssm!Unclosed = {} /\ messageStarted
  BY <1>0, <1>1, <1>2, NextEvent DEF HeadOK
<1>5. /\ messageDeltaSent'
      /\ UNCHANGED <<messageStarted, messageEnded>>
      /\ client'.seen = client.seen /\ client'.faults = client.faults
      /\ \A j \in ssm!Index : activeBlocks'[j].type = activeBlocks[j].type
                              /\ activeBlocks'[j].stopped = activeBlocks[j].stopped
      /\ stopReason' = IF messageDeltaSent THEN stopReason ELSE e.kind
  <2>1. stopReason' = IF messageDeltaSent THEN stopReason ELSE e.kind
    BY <1>0, <1>1, NextEvent DEF SendMessageDelta
  <2>2. CASE messageDeltaSent
    BY <2>1, <2>2 DEF SendMessageDelta, ssm!HandleMessageDelta, ssm!ssmVars
  <2>3. CASE ~messageDeltaSent
    <3>1. /\ messageDeltaSent' = TRUE /\ UNCHANGED <<messageStarted, messageEnded>>
          /\ activeBlocks' = ssm!Stopped({})
          /\ client' = ssm!ReceiveMessageDelta(ssm!ReceiveBlockStops(client, {}))
      BY <1>4, <2>3 DEF SendMessageDelta, ssm!HandleMessageDelta, ssm!ClosedByMessageDelta
    <3>2. PICK c : c = ssm!ReceiveBlockStops(client, {})
      OBVIOUS
    <3>3. /\ c \in ssm!ClientType /\ c.faults = client.faults /\ c.seen = client.seen
          /\ c.started = client.started /\ c.deltaSent = client.deltaSent
          /\ c.ended = client.ended
          /\ c.block = [i \in ssm!Index |-> IF i \in {} THEN "closed" ELSE client.block[i]]
      <4>1. {} \in SUBSET ssm!Unclosed /\ ssm!IInv
        BY DEF StreamInv, PipelineInv
      <4> QED
        BY <3>2, <4>1, StopsQuiet
    <3>4. /\ client.started = messageStarted /\ client.deltaSent = messageDeltaSent
          /\ client.ended = messageEnded /\ ssm!OpenAt(client) = {}
      BY <1>4, ManagerFacts DEF StreamInv, PipelineInv
    <3>5. ssm!OpenAt(c) = {}
      BY <3>3, <3>4 DEF ssm!OpenAt, ssm!IsOpen
    <3>6. ~messageEnded
      BY <2>3 DEF StreamInv, MessageInv
    <3>7. client'.seen = client.seen /\ client'.faults = client.faults
      <4>1. /\ ssm!ReceiveMessageDelta(c).seen = c.seen
            /\ ssm!ReceiveMessageDelta(c).faults = c.faults
        BY <1>4, <2>3, <3>3, <3>4, <3>5, <3>6 DEF ssm!ReceiveMessageDelta, ssm!ClientType
      <4> QED
        BY <3>1, <3>2, <3>3, <4>1
    <3>8. \A j \in ssm!Index : activeBlocks'[j] = activeBlocks[j]
      BY <3>1 DEF ssm!Stopped
    <3> QED
      BY <2>1, <3>1, <3>7, <3>8
  <2> QED
    BY <2>2, <2>3
<1>6. EndQueued /\ EndQueued' /\ Ending /\ Ending'
  BY <1>0, <1>3, <1>5 DEF EndQueued, Ending
<1>7. ssm!Unclosed' = {}
  BY <1>4, <1>5 DEF ssm!Unclosed, ssm!Exists
<1>8. UNCHANGED <<thinkingEnabled, thinkingState, upstreamDone>>
  BY <1>0, NextEvent
<1>9. EventsInv'
  <2>1. PICK f \in Event : f = queue[2]
    BY <1>3 DEF StreamInv, PipelineInv
  <2>2. EventOK(f)
    BY <1>0, <1>3, <2>1, NextEvent
  <2>3. EventOK(f)'
    BY <1>3, <1>8, <2>1, <2>2 DEF EventOK, BlockEvents
  <2> QED
    BY <1>3, <2>1, <2>3 DEF EventsInv
<1>10. HeadInv'
  BY <1>0, <1>1, <1>2, <1>5, NextHead
<1>11. MessageInv'
  <2>1. stopReason' # "max_tokens" => (stopReason' = "tool_use" <=> "tool_use" \in client'.seen)
    BY <1>2, <1>5 DEF StreamInv, MessageInv, EventOK
  <2> QED
    BY <1>3, <1>4, <1>5, <1>6, <1>7, <1>8, <2>1 DEF StreamInv, MessageInv
<1> QED
  BY <1>0, <1>1, <1>2, <1>5, <1>6, <1>9, <1>10, <1>11, MessageEventStream

\* message_stop is the last event.
LEMMA MessageStopStream ==
    ASSUME StreamInv, SendMessageStop, PipelineInv'
    PROVE  StreamInv'
<1>0. queue # <<>> /\ Processed
      /\ UNCHANGED <<toolUseIdByBlockIndex, completedToolUseIds, dropped, stopReason>>
  BY DEF SendMessageStop, IsNext, processorVars
<1>1. PICK e \in Event : e = queue[1]
  BY <1>0, NextEvent
<1>2. e.type = "message_stop" /\ Follows(queue, 1) /\ HeadOK(e)
  BY <1>0, <1>1, NextEvent DEF SendMessageStop, IsNext
<1>3. Len(queue) = 1 /\ queue' = <<>>
  BY <1>0, <1>1, <1>2, NextEvent DEF Follows
<1>4. messageDeltaSent /\ messageStarted
  BY <1>0, <1>1, <1>2, NextEvent DEF HeadOK
<1>5. /\ messageEnded' /\ UNCHANGED <<messageStarted, messageDeltaSent, activeBlocks>>
      /\ client'.seen = client.seen /\ client'.faults = client.faults
  <2>1. client \in ssm!ClientType /\ client.started = messageStarted
        /\ client.ended = messageEnded /\ messageEnded \in BOOLEAN
    BY ManagerFacts DEF StreamInv, PipelineInv, ssm!TypeOK
  <2>2. CASE messageEnded
    BY <2>2 DEF SendMessageStop, ssm!HandleMessageStop, ssm!ssmVars
  <2>3. CASE ~messageEnded
    <3>1. /\ messageEnded' = TRUE /\ client' = ssm!ReceiveMessageStop(client)
          /\ UNCHANGED <<messageStarted, messageDeltaSent, activeBlocks>>
      BY <2>3 DEF SendMessageStop, ssm!HandleMessageStop
    <3>2. client'.seen = client.seen /\ client'.faults = client.faults
      BY <1>4, <2>1, <2>3, <3>1 DEF ssm!ReceiveMessageStop, ssm!ClientType
    <3> QED
      BY <3>1, <3>2
  <2> QED
    BY <2>2, <2>3
<1>6. Ending /\ Ending'
  BY <1>4, <1>5 DEF Ending
<1>7. EventsInv' /\ HeadInv'
  BY <1>3 DEF EventsInv, HeadInv
<1>8. MessageInv'
  <2>1. UNCHANGED <<thinkingEnabled, upstreamDone, ssm!Unclosed>>
    BY <1>0, <1>5, NextEvent DEF ssm!Unclosed, ssm!Exists
  <2> QED
    BY <1>0, <1>3, <1>4, <1>5, <1>6, <2>1 DEF StreamInv, MessageInv
<1> QED
  BY <1>0, <1>1, <1>2, <1>5, <1>6, <1>7, <1>8, MessageEventStream

-----------------------------------------------------------------------------
\* A step that changes nothing keeps the invariant.
LEMMA StreamUnchanged == StreamInv /\ UNCHANGED vars => StreamInv'
<1> SUFFICES ASSUME StreamInv, UNCHANGED vars PROVE StreamInv'
  OBVIOUS
<1>1. PipelineInv'
  BY PipelineUnchanged DEF StreamInv
<1>2. UNCHANGED <<activeTools, completedTools, blockIndexMap, nextToolBlock, messageStarted,
                  messageDeltaSent, messageEnded, activeBlocks, nextBlockIndex, client, queue,
                  toolUseIdByBlockIndex, completedToolUseIds, thinkingEnabled, thinkingState,
                  buffered, saidText, upstreamDone, stopReason, dropped>>
  BY DEF vars, toolVars, ssmState, processorVars, thinkingVars
<1>3. /\ UNCHANGED <<ssm!Unclosed, Assigned>> /\ \A i : ssm!Exists(i)' <=> ssm!Exists(i)
      /\ \A i : TypeAt(i)' = TypeAt(i)
  BY <1>2 DEF ssm!Unclosed, ssm!Exists, TypeAt, Assigned
<1>4. (EndQueued' <=> EndQueued) /\ (Ending' <=> Ending)
  BY <1>2 DEF Ending, EndQueued
<1>5. \A e : (EventOK(e)' <=> EventOK(e)) /\ (HeadOK(e)' <=> HeadOK(e))
  BY <1>2, <1>3 DEF EventOK, StartOK, HeadOK, DeltaReady
<1>6. EventsInv' /\ HeadInv' /\ ShapeInv'
  BY <1>2, <1>5 DEF StreamInv, EventsInv, HeadInv, ShapeInv
<1>7. MessageInv'
  BY <1>2, <1>3, <1>4 DEF StreamInv, MessageInv
<1>8. BlocksInv'
  BY <1>2, <1>3 DEF StreamInv, BlocksInv
<1>9. ToolInv'
  BY <1>2, <1>3, <1>4 DEF StreamInv, ToolInv, Pending, Booked
<1>10. BookInv' /\ DropInv' /\ Faultless'
  BY <1>2 DEF StreamInv, BookInv, OpenToolIndices, DropInv, Faultless
<1>11. ThinkInv'
  BY <1>2, <1>3, <1>4 DEF StreamInv, ThinkInv
<1> QED
  BY <1>1, <1>6, <1>7, <1>8, <1>9, <1>10, <1>11 DEF StreamInv

-----------------------------------------------------------------------------
\* It holds at first.
LEMMA StreamInit == Init => StreamInv
<1> SUFFICES ASSUME Init PROVE StreamInv
  OBVIOUS
<1> USE MaxIndexFacts, KindFacts
<1>1. PipelineInv
  BY PipelineInit
<1>2. PICK e \in Event : e = MessageStart
  BY EventConstructors
<1>3. e.type = "message_start" /\ e.index = 0 /\ e.kind = "none" /\ e.id = NoToolId
  BY <1>2 DEF MessageStart, BlockEvent
<1>4. queue = <<e>> /\ Len(queue) = 1 /\ queue[1] = e /\ queue # <<>>
  BY <1>2 DEF Init
<1>5. ~messageStarted /\ ~messageDeltaSent /\ ~messageEnded
  BY DEF Init, ssm!Init
<1>6. \A i \in ssm!Index : ~ssm!Exists(i) /\ ~activeBlocks[i].stopped
  BY DEF Init, ssm!Init, ssm!Exists, ssm!NoBlock
<1>7. ssm!Unclosed = {}
  BY <1>6 DEF ssm!Unclosed
<1>8. client.seen = {} /\ client.faults = {}
  BY DEF Init, ssm!Init, ssm!NewClient
<1>9. Assigned = {}
  BY DEF Init, ToolInit, Assigned
<1>10. completedToolUseIds = {} /\ OpenToolIndices = {} /\ dropped = {}
  BY DEF Init, OpenToolIndices
<1>11. thinkingState = "not_in_thinking" /\ ~buffered /\ ~upstreamDone
  BY DEF Init
<1>12. ~EndQueued /\ ~Ending
  BY <1>3, <1>4, <1>5 DEF Ending, EndQueued
<1>13. ShapeInv
  BY <1>3, <1>4, ShapeOne DEF ShapeInv
<1>14. EventOK(e) /\ HeadOK(e)
  BY <1>3 DEF EventOK, HeadOK, BlockEvents
<1>15. EventsInv /\ HeadInv
  BY <1>4, <1>14 DEF EventsInv, HeadInv
<1>16. MessageInv
  BY <1>2, <1>4, <1>5, <1>7, <1>11, <1>12 DEF MessageInv
<1>17. BlocksInv
  BY <1>6 DEF BlocksInv
<1>18. ToolInv
  BY <1>9 DEF ToolInv
<1>19. BookInv /\ DropInv /\ Faultless
  BY <1>8, <1>10 DEF BookInv, DropInv, Faultless
<1>20. ThinkInv
  BY <1>3, <1>4, <1>6, <1>11 DEF ThinkInv
<1> QED
  BY <1>1, <1>13, <1>15, <1>16, <1>17, <1>18, <1>19, <1>20 DEF StreamInv

\* Every event the processor handles keeps it.
LEMMA ProcessStream ==
    ASSUME StreamInv, ProcessEvent
    PROVE  StreamInv'
<1>1. PipelineInv'
  BY ProcessKeeps DEF StreamInv
<1>2. CASE SendMessageStart
  BY <1>1, <1>2, MessageStartStream
<1>3. CASE ProcessStart
  BY <1>1, <1>3, StartStream
<1>4. CASE ProcessDelta
  BY <1>1, <1>4, DeltaStream
<1>5. CASE ProcessStop
  BY <1>1, <1>5, StopStream
<1>6. CASE ProcessOverflow
  BY <1>1, <1>6, OverflowProcessed
<1>7. CASE CloseAll
  BY <1>1, <1>7, CloseAllStream
<1>8. CASE SendMessageDelta
  BY <1>1, <1>8, MessageDeltaStream
<1>9. CASE SendMessageStop
  BY <1>1, <1>9, MessageStopStream
<1> QED
  BY <1>2, <1>3, <1>4, <1>5, <1>6, <1>7, <1>8, <1>9 DEF ProcessEvent

\* So it is inductive when the upstream is the well-behaved one.
LEMMA StreamStep == Liberties = {} => (StreamInv /\ [Next]_vars => StreamInv')
<1> SUFFICES ASSUME Liberties = {}, StreamInv, [Next]_vars PROVE StreamInv'
  OBVIOUS
<1>1. CASE Upstream
  BY <1>1, UpstreamStream
<1>2. CASE EndOfStream
  BY <1>2, EndStream
<1>3. CASE ProcessEvent
  BY <1>3, ProcessStream
<1>4. CASE UNCHANGED vars
  BY <1>4, StreamUnchanged
<1> QED
  BY <1>1, <1>2, <1>3, <1>4 DEF Next, Finished

\* A well-behaved upstream gives a legal stream: no event the client receives
\* breaks a rule of the event sequence (sse_state_manager.go:20), for every
\* set of tools and every number of messages.
THEOREM FaultlessHolds == Liberties = {} => (Spec => []Faultless)
<1>1. StreamInv => Faultless
  BY DEF StreamInv
<1>2. CASE Liberties = {}
  <2>1. StreamInv /\ [Next]_vars => StreamInv'
    BY <1>2, StreamStep
  <2> QED
    BY <1>1, <2>1, StreamInit, PTL DEF Spec
<1> QED
  BY <1>2

\* Nothing of a thinking response is lost between the thinking block and the
\* text block (message_event_handlers.go:439-474).
THEOREM ThinkingDeliveredHolds == Liberties = {} => (Spec => []ThinkingDelivered)
<1>1. StreamInv => ThinkingDelivered
  BY DEF StreamInv, DropInv, ThinkingDelivered
<1>2. CASE Liberties = {}
  <2>1. StreamInv /\ [Next]_vars => StreamInv'
    BY <1>2, StreamStep
  <2> QED
    BY <1>1, <2>1, StreamInit, PTL DEF Spec
<1> QED
  BY <1>2

\* The stop reason, decided from the processor's own record, fits the blocks
\* the client saw (stop_reason_manager.go:36-41).  The run
\* stream_thinking_tools shows that an upstream that calls tools in a thinking
\* response breaks it.
THEOREM StopReasonHonestHolds == Liberties = {} => (Spec => []StopReasonHonest)
<1>1. StreamInv => StopReasonHonest
  BY ManagerFacts DEF StreamInv, PipelineInv, MessageInv, StopReasonHonest
<1>2. CASE Liberties = {}
  <2>1. StreamInv /\ [Next]_vars => StreamInv'
    BY <1>2, StreamStep
  <2> QED
    BY <1>1, <2>1, StreamInit, PTL DEF Spec
<1> QED
  BY <1>2

\* When the response is over no start is queued and no block is open.
LEMMA Delivered == StreamInv => ToolsDelivered
<1> SUFFICES ASSUME StreamInv PROVE ToolsDelivered
  OBVIOUS
<1>1. "input_json_delta" \notin dropped
  BY DEF StreamInv, DropInv
<1>2. ASSUME upstreamDone, queue = <<>>, NEW id \in activeTools \cup completedTools
      PROVE  /\ client.block[blockIndexMap[id]] = "closed"
             /\ toolUseIdByBlockIndex[blockIndexMap[id]] = id \/ id \in completedToolUseIds
  <2>1. id \in Assigned /\ blockIndexMap[id] \in ssm!Index
    BY AssignedCount DEF StreamInv, PipelineInv, ToolsInv, ToolTypeOK, RegisteredHaveBlocks,
       Assigned
  <2>2. ssm!Unclosed = {}
    BY <1>2 DEF StreamInv, MessageInv, Ending, EndQueued
  <2>3. ~Pending(id)
    BY <1>2 DEF Pending
  <2>4. ssm!Exists(blockIndexMap[id]) /\ Booked(id)
    BY <2>1, <2>3 DEF StreamInv, ToolInv
  <2>5. activeBlocks[blockIndexMap[id]].stopped
    BY <2>1, <2>2, <2>4 DEF ssm!Unclosed
  <2>6. client.block[blockIndexMap[id]] = "closed"
    BY <2>1, <2>4, <2>5, ManagerFacts
       DEF StreamInv, PipelineInv, ssm!Agreement, ssm!ViewOf, ssm!Exists
  <2> QED
    BY <2>4, <2>6 DEF Booked
<1> QED
  BY <1>1, <1>2 DEF ToolsDelivered

\* Every tool call the parser took on is shown, booked and closed when the
\* response is over, and no fragment of its input is dropped
\* (tool_lifecycle_manager.go:98-135, message_event_handlers.go:754-766).
THEOREM ToolsDeliveredHolds == Liberties = {} => (Spec => []ToolsDelivered)
<1>1. CASE Liberties = {}
  <2>1. StreamInv /\ [Next]_vars => StreamInv'
    BY <1>1, StreamStep
  <2> QED
    BY <2>1, Delivered, StreamInit, PTL DEF Spec
<1> QED
  BY <1>1

-----------------------------------------------------------------------------
(* The stream implements what ClaudeStream promises, as far as safety goes.  *)
LEMMA ClaudeView ==
    ASSUME StreamInv
    PROVE  /\ claude!Index = ssm!Index /\ claude!BlockTypes = ssm!BlockTypes
           /\ claude!OpenBlocks = ssm!Unclosed
           /\ messageEnded => ClaudePhase = "ended"
           /\ messageDeltaSent /\ ~messageEnded => ClaudePhase = "finished"
           /\ Streaming => ClaudePhase = "streaming"
           /\ ~messageStarted => ClaudePhase = "idle"
<1>1. claude!Index = ssm!Index /\ claude!BlockTypes = ssm!BlockTypes
  BY DEF claude!Index, ssm!Index, claude!BlockTypes, ssm!BlockTypes
<1>2. /\ ssm!OpenAt(client) = ssm!Unclosed
      /\ client.started = messageStarted /\ client.deltaSent = messageDeltaSent
      /\ client.ended = messageEnded
  BY ManagerFacts DEF StreamInv, PipelineInv
<1>3. claude!OpenBlocks = ssm!Unclosed
  BY <1>1, <1>2 DEF claude!OpenBlocks, ssm!OpenAt, ssm!IsOpen
<1>4. ~messageStarted => ~messageDeltaSent /\ ~messageEnded
  BY DEF StreamInv, MessageInv
<1> QED
  BY <1>1, <1>2, <1>3, <1>4 DEF ClaudePhase, Streaming

\* The phase after the step.
LEMMA ClaudeViewNext ==
    ASSUME PipelineInv'
    PROVE  ClaudePhase' = IF messageEnded' THEN "ended"
                          ELSE IF messageDeltaSent' THEN "finished"
                          ELSE IF messageStarted' THEN "streaming" ELSE "idle"
<1>1. /\ client'.started = messageStarted' /\ client'.deltaSent = messageDeltaSent'
      /\ client'.ended = messageEnded'
  BY DEF PipelineInv, ssm!IInv, ssm!Agreement
<1> QED
  BY <1>1 DEF ClaudePhase

\* A step that leaves the client alone is no step of the promise.
LEMMA ClaudeQuiet ==
    ASSUME UNCHANGED <<client, stopReason>>
    PROVE  UNCHANGED claude!claudeVars
  BY DEF claude!claudeVars, ClaudePhase

\* Stops, and starts of a block that is not open.
LEMMA ClaudeStops ==
    ASSUME StreamInv, PipelineInv', NEW S \in SUBSET ssm!Unclosed, Streaming \/ S = {},
           client' = ssm!ReceiveBlockStops(client, S),
           UNCHANGED <<messageStarted, messageDeltaSent, messageEnded, stopReason>>
    PROVE  [claude!Next]_(claude!claudeVars)
<1>1. /\ client'.seen = client.seen
      /\ client'.started = client.started /\ client'.deltaSent = client.deltaSent
      /\ client'.ended = client.ended
      /\ client'.block = [i \in ssm!Index |-> IF i \in S THEN "closed" ELSE client.block[i]]
  <2>1. ssm!IInv
    BY DEF StreamInv, PipelineInv
  <2> QED
    BY <2>1, StopsQuiet
<1>2. ClaudePhase' = ClaudePhase
  BY <1>1 DEF ClaudePhase
<1>3. CASE S = {}
  <2>1. client.block \in [ssm!Index -> ssm!BlockView]
    BY ManagerFacts DEF StreamInv, PipelineInv, ssm!ClientType
  <2>2. client'.block = client.block
    BY <1>1, <1>3, <2>1
  <2> QED
    BY <1>1, <1>2, <2>2 DEF claude!claudeVars
<1>4. CASE Streaming
  <2>1. S \in SUBSET claude!OpenBlocks /\ ClaudePhase = "streaming"
    BY <1>4, ClaudeView
  <2>2. client'.block = claude!Closed(S)
    BY <1>1, ClaudeView DEF claude!Closed
  <2>3. claude!Close(S)
    BY <1>1, <1>2, <2>1, <2>2 DEF claude!Close
  <2> QED
    BY <2>1, <2>3 DEF claude!Next
<1> QED
  BY <1>3, <1>4

\* A start of a block that is not open, with the text blocks it closes.
LEMMA ClaudeStart ==
    ASSUME StreamInv, Streaming, NEW i \in ssm!Index, NEW t \in ssm!BlockTypes,
           i \notin ssm!Unclosed, UNCHANGED stopReason,
           NEW c, c = ssm!ClientAfterStart(i, t),
           client'.block = c.block, client'.seen = c.seen,
           PipelineInv', UNCHANGED <<messageStarted, messageDeltaSent, messageEnded>>
    PROVE  [claude!Next]_(claude!claudeVars)
<1>1. /\ c.seen = client.seen \cup {t}
      /\ c.block = [[j \in ssm!Index |-> IF j \in ssm!ClosedByStart(t) THEN "closed"
                                         ELSE client.block[j]] EXCEPT ![i] = t]
  <2>1. ssm!IInv
    BY DEF StreamInv, PipelineInv
  <2> QED
    BY <2>1, StartQuiet
<1>2. ClaudePhase' = "streaming" /\ ClaudePhase = "streaming"
  BY ClaudeView, ClaudeViewNext DEF Streaming
<1>3. ssm!ClosedByStart(t) \in SUBSET claude!OpenBlocks /\ i \notin claude!OpenBlocks
  BY ClaudeView, ManagerFacts DEF StreamInv, PipelineInv
<1>4. c.block = [claude!Closed(ssm!ClosedByStart(t)) EXCEPT ![i] = t]
  BY <1>1, ClaudeView DEF claude!Closed
<1>5. claude!Open(i, t, ssm!ClosedByStart(t))
  BY <1>1, <1>2, <1>3, <1>4 DEF claude!Open
<1>6. i \in claude!Index /\ t \in claude!BlockTypes
  BY ClaudeView
<1> QED
  BY <1>3, <1>5, <1>6 DEF claude!Next

\* message_start begins the message, once.
LEMMA ClaudeBegins ==
    ASSUME StreamInv, PipelineInv', SendMessageStart
    PROVE  [claude!Next]_(claude!claudeVars)
<1>1. UNCHANGED stopReason
  BY DEF SendMessageStart
<1>2. CASE messageStarted
  BY <1>1, <1>2, ClaudeQuiet DEF SendMessageStart, ssm!HandleMessageStart, ssm!ssmVars
<1>3. CASE ~messageStarted
  <2>1. /\ messageStarted' = TRUE /\ client' = ssm!ReceiveMessageStart(client)
        /\ UNCHANGED <<messageDeltaSent, messageEnded>>
    BY <1>3 DEF SendMessageStart, ssm!HandleMessageStart
  <2>2. ~messageDeltaSent /\ ~messageEnded
    BY <1>3 DEF StreamInv, MessageInv
  <2>3. ClaudePhase = "idle" /\ ClaudePhase' = "streaming"
    BY <1>3, <2>1, <2>2, ClaudeView, ClaudeViewNext
  <2>4. client'.block = client.block /\ client'.seen = client.seen
    <3>1. client \in ssm!ClientType
      BY ManagerFacts DEF StreamInv, PipelineInv
    <3> QED
      BY <2>1, <3>1 DEF ssm!ReceiveMessageStart, ssm!ClientType
  <2> QED
    BY <1>1, <2>3, <2>4 DEF claude!Begin, claude!Next
<1> QED
  BY <1>2, <1>3

\* A start the processor handles opens a block.
LEMMA ClaudeOpens ==
    ASSUME StreamInv, PipelineInv', ProcessStart
    PROVE  [claude!Next]_(claude!claudeVars)
<1> USE MaxIndexFacts
<1>0. queue # <<>> /\ Processed /\ UNCHANGED stopReason
  BY DEF ProcessStart, IsNext
<1>1. PICK e \in Event : e = queue[1]
  BY <1>0, NextEvent
<1>2. /\ e.type = "content_block_start" /\ e.index \in ssm!Index /\ e.kind \in ssm!BlockTypes
      /\ ssm!HandleContentBlockStart(e.index, e.kind)
  BY <1>0, <1>1, NextEvent, EventFacts DEF ProcessStart, IsNext
<1>3. ~messageDeltaSent /\ e.index \notin ssm!Unclosed
  BY <1>0, <1>1, <1>2, NextEvent DEF EventOK, StartOK, BlockEvents
<1>4. Streaming
  BY <1>0, <1>1, <1>2, <1>3, NextEvent DEF StreamInv, MessageInv, Streaming
<1>5. /\ client' = ssm!ClientAfterStart(e.index, e.kind)
      /\ UNCHANGED <<messageStarted, messageDeltaSent, messageEnded>>
  BY <1>2, <1>3, <1>4
     DEF ssm!HandleContentBlockStart, ssm!StartRefused, ssm!AcceptStart, Streaming
<1>6. PICK c : c = ssm!ClientAfterStart(e.index, e.kind)
  OBVIOUS
<1>7. client'.block = c.block /\ client'.seen = c.seen
  BY <1>5, <1>6
<1> QED
  BY <1>0, <1>2, <1>3, <1>4, <1>5, <1>6, <1>7, ClaudeStart

\* A delta shows the client a block at most when it starts it.
LEMMA ClaudeDeltas ==
    ASSUME StreamInv, PipelineInv', ProcessDelta
    PROVE  [claude!Next]_(claude!claudeVars)
<1> USE MaxIndexFacts
<1>0. queue # <<>> /\ Processed /\ UNCHANGED stopReason
  BY DEF ProcessDelta, IsNext
<1>1. PICK e \in Event : e = queue[1]
  BY <1>0, NextEvent
<1>2. /\ e.index \in ssm!Index /\ e.kind \in DeltaKinds /\ Streaming
      /\ UNCHANGED <<messageStarted, messageDeltaSent, messageEnded>>
  BY <1>1, DeltaCases
<1>3. ssm!HandleContentBlockDelta(e.index, e.kind)
  BY <1>0, <1>1, NextEvent DEF ProcessDelta
<1>4. CASE ssm!Exists(e.index)
  <2>1. \/ UNCHANGED client
        \/ client' = ssm!ReceiveBlockDelta(client, e.index, e.kind)
    BY <1>3, <1>4 DEF ssm!HandleContentBlockDelta, ssm!ssmVars
  <2>2. client'.block = client.block /\ client'.seen = client.seen
    <3>1. client \in ssm!ClientType
      BY ManagerFacts DEF StreamInv, PipelineInv
    <3> QED
      BY <2>1, <3>1 DEF ssm!ReceiveBlockDelta, ssm!ClientType
  <2>3. ClaudePhase' = ClaudePhase
    BY <1>2, ClaudeView, ClaudeViewNext DEF Streaming
  <2> QED
    BY <1>0, <2>2, <2>3 DEF claude!claudeVars
<1>5. CASE ~ssm!Exists(e.index)
  <2>1. e.index \notin ssm!Unclosed
    BY <1>5 DEF ssm!Unclosed
  <2>2. PICK t \in ssm!BlockTypes : t = ssm!InferredType(e.kind)
    BY DEF ssm!InferredType, ssm!BlockTypes
  <2>3. PICK c : c = ssm!ClientAfterStart(e.index, t)
    OBVIOUS
  <2>4. client' = ssm!ReceiveBlockDelta(c, e.index, e.kind)
    BY <1>2, <1>3, <1>5, <2>1, <2>2, <2>3
       DEF ssm!HandleContentBlockDelta, ssm!StartRefused, Streaming
  <2>5. c \in ssm!ClientType
    <3>1. ssm!IInv
      BY DEF StreamInv, PipelineInv
    <3> QED
      BY <1>2, <2>1, <2>3, <3>1, StartQuiet
  <2>6. client'.block = c.block /\ client'.seen = c.seen
    BY <2>4, <2>5 DEF ssm!ReceiveBlockDelta, ssm!ClientType
  <2> QED
    BY <1>0, <1>2, <2>1, <2>2, <2>3, <2>6, ClaudeStart
<1> QED
  BY <1>4, <1>5

\* A stop, and the ending, close blocks that are open.
LEMMA ClaudeCloses ==
    ASSUME StreamInv, PipelineInv', ProcessStop \/ CloseAll
    PROVE  [claude!Next]_(claude!claudeVars)
<1> USE MaxIndexFacts
<1>0. queue # <<>> /\ Processed /\ UNCHANGED stopReason
  BY DEF ProcessStop, CloseAll, IsNext
<1>1. PICK e \in Event : e = queue[1]
  BY <1>0, NextEvent
<1>2. e.type \in {"content_block_stop", "close_open_blocks"}
  BY <1>0, <1>1, NextEvent DEF ProcessStop, CloseAll, IsNext
<1>3. \E S \in SUBSET ssm!Unclosed :
         /\ client' = ssm!ReceiveBlockStops(client, S)
         /\ UNCHANGED <<messageStarted, messageDeltaSent, messageEnded>>
  <2>1. CASE ProcessStop
    <3>1. ssm!StopBlocks({Head(queue).index})
      BY <2>1 DEF ProcessStop, ssm!HandleContentBlockStop
    <3>2. {Head(queue).index} \cap ssm!Unclosed \in SUBSET ssm!Unclosed
      OBVIOUS
    <3> QED
      BY <3>1, <3>2 DEF ssm!StopBlocks
  <2>2. CASE CloseAll
    <3>1. ssm!Unclosed \cap ssm!Unclosed \in SUBSET ssm!Unclosed
      OBVIOUS
    <3> QED
      BY <2>2, <3>1 DEF CloseAll, ssm!StopBlocks
  <2> QED
    BY <2>1, <2>2
<1>4. messageStarted
  BY <1>0, <1>1, <1>2, NextEvent
<1>5. Streaming \/ ssm!Unclosed = {}
  BY <1>4 DEF StreamInv, MessageInv, Streaming
<1> QED
  BY <1>0, <1>3, <1>5, ClaudeStops

\* message_delta finishes it, with no block open and a truthful reason.
LEMMA ClaudeFinishes ==
    ASSUME StreamInv, PipelineInv', SendMessageDelta
    PROVE  [claude!Next]_(claude!claudeVars)
<1>0. queue # <<>> /\ Processed
  BY DEF SendMessageDelta, IsNext
<1>1. PICK e \in Event : e = queue[1]
  BY <1>0, NextEvent
<1>2. e.type = "message_delta" /\ e.kind \in Reasons \ {"none"} /\ EventOK(e) /\ HeadOK(e)
  BY <1>0, <1>1, NextEvent, EventFacts DEF SendMessageDelta, IsNext
<1>3. ssm!Unclosed = {} /\ messageStarted
  BY <1>0, <1>1, <1>2, NextEvent DEF HeadOK
<1>4. CASE messageDeltaSent
  BY <1>4, ClaudeQuiet DEF SendMessageDelta, ssm!HandleMessageDelta, ssm!ssmVars
<1>5. CASE ~messageDeltaSent
  <2>1. /\ messageDeltaSent' = TRUE /\ UNCHANGED <<messageStarted, messageEnded>>
        /\ client' = ssm!ReceiveMessageDelta(ssm!ReceiveBlockStops(client, {}))
        /\ stopReason' = e.kind
    BY <1>0, <1>1, <1>3, <1>5, NextEvent
       DEF SendMessageDelta, ssm!HandleMessageDelta, ssm!ClosedByMessageDelta
  <2>2. ~messageEnded
    BY <1>5 DEF StreamInv, MessageInv
  <2>3. ClaudePhase = "streaming" /\ ClaudePhase' = "finished"
    BY <1>3, <1>5, <2>1, <2>2, ClaudeView, ClaudeViewNext DEF Streaming
  <2>4. PICK c : c = ssm!ReceiveBlockStops(client, {})
    OBVIOUS
  <2>5. c \in ssm!ClientType /\ c.seen = client.seen
        /\ c.block = [i \in ssm!Index |-> IF i \in {} THEN "closed" ELSE client.block[i]]
    <3>1. {} \in SUBSET ssm!Unclosed /\ ssm!IInv
      BY DEF StreamInv, PipelineInv
    <3> QED
      BY <2>4, <3>1, StopsQuiet
  <2>6. client.block \in [ssm!Index -> ssm!BlockView]
    BY ManagerFacts DEF StreamInv, PipelineInv, ssm!ClientType
  <2>7. client' = ssm!ReceiveMessageDelta(c)
    BY <2>1, <2>4
  <2>8. client'.block = client.block /\ client'.seen = client.seen
    BY <2>5, <2>6, <2>7 DEF ssm!ReceiveMessageDelta, ssm!ClientType
  <2>9. claude!OpenBlocks = {}
    BY <1>3, ClaudeView
  <2>10. claude!Truthful(e.kind)
    BY <1>2 DEF claude!Truthful, EventOK, Reasons
  <2>11. claude!Finish(e.kind)
    BY <2>1, <2>3, <2>8, <2>9, <2>10 DEF claude!Finish
  <2> QED
    BY <1>2, <2>11 DEF claude!Next, Reasons
<1> QED
  BY <1>4, <1>5

\* message_stop ends it.
LEMMA ClaudeEnds ==
    ASSUME StreamInv, PipelineInv', SendMessageStop
    PROVE  [claude!Next]_(claude!claudeVars)
<1>0. queue # <<>> /\ Processed /\ UNCHANGED stopReason
  BY DEF SendMessageStop, IsNext
<1>1. PICK e \in Event : e = queue[1]
  BY <1>0, NextEvent
<1>2. e.type = "message_stop" /\ HeadOK(e)
  BY <1>0, <1>1, NextEvent DEF SendMessageStop, IsNext
<1>3. messageDeltaSent /\ messageStarted
  BY <1>0, <1>1, <1>2, NextEvent DEF HeadOK
<1>4. CASE messageEnded
  BY <1>0, <1>4, ClaudeQuiet DEF SendMessageStop, ssm!HandleMessageStop, ssm!ssmVars
<1>5. CASE ~messageEnded
  <2>1. messageEnded' = TRUE /\ client' = ssm!ReceiveMessageStop(client)
    BY <1>5 DEF SendMessageStop, ssm!HandleMessageStop
  <2>2. ClaudePhase = "finished" /\ ClaudePhase' = "ended"
    BY <1>3, <1>5, <2>1, ClaudeView, ClaudeViewNext
  <2>3. client'.block = client.block /\ client'.seen = client.seen
    <3>1. client \in ssm!ClientType
      BY ManagerFacts DEF StreamInv, PipelineInv
    <3> QED
      BY <2>1, <3>1 DEF ssm!ReceiveMessageStop, ssm!ClientType
  <2> QED
    BY <1>0, <2>2, <2>3 DEF claude!End, claude!Next
<1> QED
  BY <1>4, <1>5

\* Every step of the pipeline is a step of the promise, or leaves it alone.
LEMMA ClaudeStep ==
    Liberties = {} => (StreamInv /\ StreamInv' /\ [Next]_vars => [claude!Next]_(claude!claudeVars))
<1> SUFFICES ASSUME Liberties = {}, StreamInv, StreamInv', [Next]_vars
             PROVE  [claude!Next]_(claude!claudeVars)
  OBVIOUS
<1>1. PipelineInv'
  BY DEF StreamInv
<1>2. CASE Upstream
  <2>1. \A events : Receive(events) => UNCHANGED <<client, stopReason>>
    BY DEF Receive, ssmState
  <2>2. UNCHANGED <<client, stopReason>>
    BY <1>2, <2>1 DEF Upstream, Text, CompletionChunk, ThinkingChunk, BeforeThinking,
       EnterThinking, InThinking, LeaveThinking, AfterThinking, ToolRequest,
       ToolFragment, ToolStop, ToolError, ContentLengthExceeded
  <2> QED
    BY <2>2, ClaudeQuiet
<1>3. CASE EndOfStream
  BY <1>3, ClaudeQuiet DEF EndOfStream, ssmState
<1>4. CASE UNCHANGED vars
  BY <1>4, ClaudeQuiet DEF vars, ssmState
<1>5. CASE SendMessageStart
  BY <1>1, <1>5, ClaudeBegins
<1>6. CASE ProcessStart
  BY <1>1, <1>6, ClaudeOpens
<1>7. CASE ProcessDelta
  BY <1>1, <1>7, ClaudeDeltas
<1>8. CASE ProcessStop \/ CloseAll
  BY <1>1, <1>8, ClaudeCloses
<1>9. CASE ProcessOverflow
  BY <1>9, ClaudeQuiet DEF ProcessOverflow, ssmState
<1>10. CASE SendMessageDelta
  BY <1>1, <1>10, ClaudeFinishes
<1>11. CASE SendMessageStop
  BY <1>1, <1>11, ClaudeEnds
<1> QED
  BY <1>2, <1>3, <1>4, <1>5, <1>6, <1>7, <1>8, <1>9, <1>10, <1>11
     DEF Next, ProcessEvent, Finished

\* Every behaviour of the pipeline is one ClaudeStream allows: one message that
\* opens and closes blocks, finishes with a truthful reason when none is open,
\* and ends.  That it does end is the part TLC checks.
THEOREM ImplementsClaudeSafety ==
    Liberties = {} => (Spec => claude!Init /\ [][claude!Next]_(claude!claudeVars))
<1>1. Init => claude!Init
  BY DEF Init, ssm!Init, ssm!NewClient, claude!Init, ClaudePhase, claude!Index, ssm!Index
<1>2. CASE Liberties = {}
  <2>1. StreamInv /\ [Next]_vars => StreamInv'
    BY <1>2, StreamStep
  <2>2. StreamInv /\ StreamInv' /\ [Next]_vars => [claude!Next]_(claude!claudeVars)
    BY <1>2, ClaudeStep
  <2> QED
    BY <1>1, <2>1, <2>2, StreamInit, PTL DEF Spec
<1> QED
  BY <1>2
=============================================================================
