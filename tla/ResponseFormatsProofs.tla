----------------------- MODULE ResponseFormatsProofs -----------------------
(***************************************************************************)
(* Tool calls, for every set of tool ids and every way to cut the          *)
(* arguments of a call into pieces.  First what ToolLifecycle and          *)
(* ToolArguments promise, whoever reads their events.  Then the consumers  *)
(* of ResponseFormats: the OpenAI stream is well-formed and agrees with    *)
(* the answers that are made when the body was read to its end.            *)
(***************************************************************************)
EXTENDS ResponseFormats, Integers, FiniteSetTheorems, TLAPS

(***************************************************************************)
(* The lifecycle on its own.                                               *)
(***************************************************************************)
LifecycleInv == ToolTypeOK /\ DistinctBlocks /\ RegisteredHaveBlocks

LEMMA LifecycleInit == ToolInit => LifecycleInv
<1> SUFFICES ASSUME ToolInit PROVE LifecycleInv
  OBVIOUS
<1>1. blockIndexMap \in [ToolIds -> Nat]
  BY DEF ToolInit, Unassigned
<1>2. ToolTypeOK
  <2>1. nextToolBlock \in Nat \ {0}
    BY DEF ToolInit
  <2>2. textIntroGenerated \in BOOLEAN
    BY DEF ToolInit
  <2>3. activeTools \subseteq ToolIds /\ completedTools \subseteq ToolIds
    BY DEF ToolInit
  <2> QED
    BY <1>1, <2>1, <2>2, <2>3 DEF ToolTypeOK
<1>3. DistinctBlocks
  BY DEF ToolInit, DistinctBlocks, Unassigned
<1>4. RegisteredHaveBlocks
  BY DEF ToolInit, RegisteredHaveBlocks, Unassigned
<1> QED
  BY <1>2, <1>3, <1>4 DEF LifecycleInv

\* A result or an error moves one id and touches no block.
LEMMA ResultKeepsInv ==
    ASSUME LifecycleInv, NEW id \in ToolIds, HandleToolCallResult(id)
    PROVE  LifecycleInv'
BY DEF LifecycleInv, ToolTypeOK, DistinctBlocks, RegisteredHaveBlocks, HandleToolCallResult

\* A request for an id that has a block changes no block; a request for one
\* that has none gives it the block above all others.
LEMMA RequestEffect ==
    ASSUME LifecycleInv, NEW id \in ToolIds, HandleToolCallRequest(id)
    PROVE  \/ blockIndexMap[id] # Unassigned /\ UNCHANGED <<blockIndexMap, nextToolBlock>>
           \/ /\ blockIndexMap[id] = Unassigned
              /\ blockIndexMap' = [blockIndexMap EXCEPT ![id] = nextToolBlock]
              /\ nextToolBlock' = nextToolBlock + 1
<1> USE DEF LifecycleInv, ToolTypeOK, DistinctBlocks, RegisteredHaveBlocks,
            HandleToolCallRequest, BlockFor, Unassigned
<1>1. CASE id \in activeTools
  BY <1>1
<1>2. CASE id \notin activeTools /\ blockIndexMap[id] # Unassigned
  BY <1>2
<1>3. CASE id \notin activeTools /\ blockIndexMap[id] = Unassigned
  BY <1>3
<1> QED
  BY <1>1, <1>2, <1>3

LEMMA RequestKeepsInv ==
    ASSUME LifecycleInv, NEW id \in ToolIds, HandleToolCallRequest(id)
    PROVE  LifecycleInv'
<1> USE DEF LifecycleInv, ToolTypeOK, DistinctBlocks, RegisteredHaveBlocks, Unassigned
<1>1. UNCHANGED completedTools /\ activeTools' = activeTools \cup {id}
  BY DEF HandleToolCallRequest
<1>2. textIntroGenerated' \in BOOLEAN
  BY DEF HandleToolCallRequest
<1>3. CASE blockIndexMap[id] # Unassigned /\ UNCHANGED <<blockIndexMap, nextToolBlock>>
  BY <1>1, <1>2, <1>3
<1>4. CASE /\ blockIndexMap[id] = Unassigned
           /\ blockIndexMap' = [blockIndexMap EXCEPT ![id] = nextToolBlock]
           /\ nextToolBlock' = nextToolBlock + 1
  BY <1>1, <1>2, <1>4
<1> QED
  BY <1>3, <1>4, RequestEffect

\* The three calls, in the form the theorems below need.
LEMMA LifecycleStep ==
    ASSUME LifecycleInv, [ToolNext]_toolVars
    PROVE  LifecycleInv'
<1>1. CASE UNCHANGED toolVars
  BY <1>1 DEF toolVars, LifecycleInv, ToolTypeOK, DistinctBlocks, RegisteredHaveBlocks
<1>2. ASSUME NEW id \in ToolIds,
             HandleToolCallRequest(id) \/ HandleToolCallResult(id) \/ HandleToolCallError(id)
      PROVE  LifecycleInv'
  BY <1>2, RequestKeepsInv, ResultKeepsInv DEF HandleToolCallError
<1> QED
  BY <1>1, <1>2 DEF ToolNext

\* Two tools never share a block and no tool gets the text block, whatever
\* calls are made in whatever order (tool_lifecycle_manager.go:24, 301-310).
THEOREM DistinctBlocksHold == ToolSpec => []DistinctBlocks
<1>1. ToolInit => LifecycleInv
  BY LifecycleInit
<1>2. LifecycleInv /\ [ToolNext]_toolVars => LifecycleInv'
  BY LifecycleStep
<1>3. LifecycleInv => DistinctBlocks
  BY DEF LifecycleInv
<1> QED
  BY <1>1, <1>2, <1>3, PTL DEF ToolSpec

\* The ids with a block are exactly those the manager has registered
\* (tool_lifecycle_manager.go:98, 180, 265).
THEOREM RegisteredHaveBlocksHolds == ToolSpec => []RegisteredHaveBlocks
<1>1. ToolInit => LifecycleInv
  BY LifecycleInit
<1>2. LifecycleInv /\ [ToolNext]_toolVars => LifecycleInv'
  BY LifecycleStep
<1>3. LifecycleInv => RegisteredHaveBlocks
  BY DEF LifecycleInv
<1> QED
  BY <1>1, <1>2, <1>3, PTL DEF ToolSpec

\* A tool keeps its block for the whole response
\* (tool_lifecycle_manager.go:301-304).
THEOREM StableBlocksHold == ToolSpec => StableBlocks
<1>1. LifecycleInv /\ [ToolNext]_toolVars
        => [\A id \in ToolIds : blockIndexMap[id] # Unassigned
               => blockIndexMap'[id] = blockIndexMap[id]]_toolVars
  <2> SUFFICES ASSUME LifecycleInv, ToolNext, NEW i \in ToolIds,
                      blockIndexMap[i] # Unassigned
               PROVE  blockIndexMap'[i] = blockIndexMap[i]
    OBVIOUS
  <2>1. PICK id \in ToolIds : \/ HandleToolCallRequest(id)
                              \/ HandleToolCallResult(id)
                              \/ HandleToolCallError(id)
    BY DEF ToolNext
  <2>2. CASE HandleToolCallRequest(id)
    BY <2>2, RequestEffect DEF LifecycleInv, ToolTypeOK
  <2>3. CASE HandleToolCallResult(id) \/ HandleToolCallError(id)
    BY <2>3 DEF HandleToolCallResult, HandleToolCallError
  <2> QED
    BY <2>1, <2>2, <2>3
<1>2. ToolInit => LifecycleInv
  BY LifecycleInit
<1>3. LifecycleInv /\ [ToolNext]_toolVars => LifecycleInv'
  BY LifecycleStep
<1> QED
  BY <1>1, <1>2, <1>3, PTL DEF ToolSpec, StableBlocks

(***************************************************************************)
(* The arguments.  CallInv says where the pieces of one call are at each   *)
(* point of its life: a call in fragments has them in the aggregator and   *)
(* at the client, a whole object is at once in the execution and at the    *)
(* client, and a finished call has in its execution what parses.  It says  *)
(* so of calls whose id was new, or free again with an empty aggregator;   *)
(* of what the client has, only of an id's first call.                     *)
(***************************************************************************)
Json == Seq(1 .. Pieces)
UpstreamCall == [times: Nat, clean: BOOLEAN, sent: Json, object: BOOLEAN,
                 end: {"none", "once", "stop", "error"}]

ArgTypeOK ==
    /\ activeTools \subseteq ToolIds
    /\ arguments \in [ToolIds -> {<<>>, Whole}]
    /\ buffer \in [ToolIds -> Json]
    /\ sent \in [ToolIds -> Json]
    /\ upstream \in [ToolIds -> UpstreamCall]

Unseen(id) ==
    /\ id \notin activeTools
    /\ buffer[id] = <<>> /\ sent[id] = <<>>
    /\ upstream[id].sent = <<>> /\ upstream[id].end = "none"

InFragments(id) ==
    /\ buffer[id] = upstream[id].sent
    /\ upstream[id].times = 1 /\ id # NoToolId => sent[id] = upstream[id].sent

AsObject(id) ==
    /\ upstream[id].sent = Whole /\ arguments[id] = Whole
    /\ upstream[id].times = 1 => sent[id] = Whole

Stopped(id) == id \notin activeTools /\ buffer[id] = <<>>

\* Only an upstream that never sends a whole object and its stop apart.
Done(id) == ~ObjectThenStop =>
    /\ arguments[id] = Parsed(upstream[id].sent)
    /\ upstream[id].times = 1 /\ id # NoToolId => Parsed(sent[id]) = arguments[id]

\* The pieces come in order wherever they are.
Prefixes == {[k \in 1 .. n |-> k] : n \in 0 .. Pieces}

CleanInv(id) ==
    /\ Running(id) /\ ~upstream[id].object => InFragments(id)
    /\ Running(id) /\ upstream[id].object => AsObject(id)
    /\ upstream[id].end = "stop" => Stopped(id)
    /\ upstream[id].end \in {"stop", "once"} => Done(id)

CallInv(id) ==
    /\ upstream[id].sent \in Prefixes
    /\ upstream[id].times = 0 => Unseen(id)
    /\ upstream[id].times <= 1 => upstream[id].clean
    /\ Running(id) => id \in activeTools
    /\ upstream[id].clean => CleanInv(id)

ArgInv == ArgTypeOK /\ \A id \in ToolIds : CallInv(id)

LEMMA WholeFacts ==
    /\ Whole \in Json /\ Len(Whole) = Pieces /\ Whole # <<>>
    /\ \A k : <<k>> # Whole
    /\ \A json : Parsed(json) \in {<<>>, Whole}
    /\ Parsed(<<>>) = <<>> /\ Parsed(Whole) = Whole
    /\ <<>> \in Json
    /\ \A s \in Json : s \o <<>> = s /\ <<>> \o s = s
<1>1. Whole \in Json /\ Len(Whole) = Pieces
  BY ArgumentsAssumption DEF Whole, Json
<1>2. Whole # <<>>
  BY <1>1, ArgumentsAssumption
<1>3. ASSUME NEW k PROVE <<k>> # Whole
  BY <1>1, ArgumentsAssumption
<1>4. <<>> \in Json /\ \A s \in Json : s \o <<>> = s /\ <<>> \o s = s
  BY DEF Json
<1>5. /\ \A json : Parsed(json) \in {<<>>, Whole}
      /\ Parsed(<<>>) = <<>> /\ Parsed(Whole) = Whole
  BY DEF Parsed
<1> QED
  BY <1>1, <1>2, <1>3, <1>4, <1>5

\* Every place holds pieces and nothing else, however often they are joined.
LEMMA JsonFacts ==
    /\ \A s, t \in Json : s \o t \in Json
    /\ \A s \in Json : s \in Seq(Nat) /\ Len(s) \in Nat
    /\ \A k \in 1 .. Pieces : <<k>> \in Json
  BY ArgumentsAssumption DEF Json

LEMMA PrefixFacts ==
    /\ <<>> \in Prefixes /\ Whole \in Prefixes
    /\ \A s \in Prefixes : /\ s \in Json /\ s \in PieceSeqs
                           /\ Len(s) < Pieces => /\ s \o <<Len(s) + 1>> \in Prefixes
                                                 /\ <<Len(s) + 1>> \in Json
<1>1. Pieces \in Nat
  BY ArgumentsAssumption
<1>2. <<>> \in Prefixes
  <2>1. <<>> = [k \in 1 .. 0 |-> k]
    OBVIOUS
  <2> QED
    BY <1>1, <2>1 DEF Prefixes
<1>3. Whole \in Prefixes
  BY <1>1 DEF Whole, Prefixes
<1>4. ASSUME NEW s \in Prefixes
      PROVE  /\ s \in Json /\ s \in PieceSeqs
             /\ Len(s) < Pieces => /\ s \o <<Len(s) + 1>> \in Prefixes
                                   /\ <<Len(s) + 1>> \in Json
  <2>1. PICK n \in 0 .. Pieces : s = [k \in 1 .. n |-> k]
    BY DEF Prefixes
  <2>2. n \in Nat /\ s \in Seq(Nat) /\ Len(s) = n
    BY <1>1, <2>1
  <2>3. s \in [1 .. n -> 1 .. Pieces] /\ s \in Json
    BY <1>1, <2>1 DEF Json
  <2>4. ASSUME n < Pieces PROVE s \o <<n + 1>> \in Prefixes /\ <<n + 1>> \in Json
    <3>1. s \o <<n + 1>> = [k \in 1 .. n + 1 |-> k]
      BY <2>1, <2>2
    <3>2. n + 1 \in 0 .. Pieces /\ n + 1 \in 1 .. Pieces
      BY <1>1, <2>2, <2>4
    <3> QED
      BY <3>1, <3>2, JsonFacts DEF Prefixes
  <2> QED
    BY <2>2, <2>3, <2>4 DEF PieceSeqs
<1> QED
  BY <1>2, <1>3, <1>4

LEMMA ArgInit == Init => ArgInv
<1> SUFFICES ASSUME Init PROVE ArgInv
  OBVIOUS
<1>1. ArgTypeOK
  BY WholeFacts DEF Init, ToolInit, ArgTypeOK, NoCall, UpstreamCall
<1>2. ASSUME NEW id \in ToolIds PROVE CallInv(id)
  BY PrefixFacts DEF Init, ToolInit, CallInv, CleanInv, Unseen, Running, NoCall
<1> QED
  BY <1>1, <1>2 DEF ArgInv

\* A step about one call leaves every other call as it is.
OnlyTouches(id) ==
    \A j \in ToolIds \ {id} :
        /\ j \in activeTools' <=> j \in activeTools
        /\ arguments'[j] = arguments[j]
        /\ buffer'[j] = buffer[j]
        /\ sent'[j] = sent[j]
        /\ upstream'[j] = upstream[j]

LEMMA OthersKeepInv ==
    ASSUME ArgInv, NEW id \in ToolIds, OnlyTouches(id), NEW j \in ToolIds \ {id}
    PROVE  CallInv(j)'
<1>1. CallInv(j)
  BY DEF ArgInv
<1>2. /\ j \in activeTools' <=> j \in activeTools
      /\ arguments'[j] = arguments[j]
      /\ buffer'[j] = buffer[j]
      /\ sent'[j] = sent[j]
      /\ upstream'[j] = upstream[j]
  BY DEF OnlyTouches
<1> QED
  BY <1>1, <1>2 DEF CallInv, CleanInv, Unseen, Running, InFragments, AsObject, Stopped, Done

\* What the upstream has said of a call after one more message.
LEMMA SayEffect ==
    ASSUME ArgTypeOK, NEW id \in ToolIds, NEW json \in Json,
           NEW end \in {"none", "once", "stop", "error"}, Say(id, json, end)
    PROVE  /\ upstream' \in [ToolIds -> UpstreamCall]
           /\ upstream'[id].times = upstream[id].times
           /\ upstream'[id].clean = upstream[id].clean
           /\ upstream'[id].sent = upstream[id].sent \o json
           /\ upstream'[id].object = upstream[id].object
           /\ upstream'[id].end = end
           /\ \A j \in ToolIds \ {id} : upstream'[j] = upstream[j]
<1> DEFINE said == [upstream[id] EXCEPT !.sent = @ \o json, !.end = end]
<1>1. upstream[id] \in UpstreamCall /\ upstream[id].sent \o json \in Json
  BY JsonFacts DEF ArgTypeOK, UpstreamCall
<1>2. said \in UpstreamCall
  BY <1>1 DEF UpstreamCall
<1>3. /\ said.times = upstream[id].times /\ said.clean = upstream[id].clean
      /\ said.sent = upstream[id].sent \o json
      /\ said.object = upstream[id].object /\ said.end = end
  BY <1>1 DEF UpstreamCall
<1>4. upstream' = [upstream EXCEPT ![id] = said]
  BY DEF Say, ArgTypeOK
<1> HIDE DEF said
<1>5. upstream'[id] = said /\ upstream' \in [ToolIds -> UpstreamCall]
  BY <1>2, <1>4 DEF ArgTypeOK
<1>6. \A j \in ToolIds \ {id} : upstream'[j] = upstream[j]
  BY <1>4 DEF ArgTypeOK
<1> QED
  BY <1>3, <1>5, <1>6

\* What it has said of a call that it begins.
LEMMA BeginEffect ==
    ASSUME ArgTypeOK, NEW id \in ToolIds, NEW json \in Json,
           NEW end \in {"none", "once"}, Begin(id, json, end)
    PROVE  /\ upstream' \in [ToolIds -> UpstreamCall]
           /\ upstream'[id].times = upstream[id].times + 1
           /\ upstream'[id].clean
                <=> upstream[id].times = 0 \/ (upstream[id].clean /\ upstream[id].end = "stop")
           /\ upstream'[id].sent = json
           /\ upstream'[id].object <=> json = Whole
           /\ upstream'[id].end = end
           /\ \A j \in ToolIds \ {id} : upstream'[j] = upstream[j]
<1> DEFINE clean == upstream[id].times = 0 \/ (upstream[id].clean /\ upstream[id].end = "stop")
           begun == [times |-> upstream[id].times + 1, clean |-> clean, sent |-> json,
                     object |-> json = Whole, end |-> end]
<1>1. upstream[id] \in UpstreamCall
  BY DEF ArgTypeOK
<1>2. upstream[id].times \in Nat /\ upstream[id].clean \in BOOLEAN
  BY <1>1 DEF UpstreamCall
<1>3. upstream' = [upstream EXCEPT ![id] = begun]
  BY DEF Begin, ArgTypeOK
<1>4. clean \in BOOLEAN /\ (json = Whole) \in BOOLEAN
  BY <1>2
<1> HIDE DEF clean
<1>5. begun \in UpstreamCall
  BY <1>2, <1>4 DEF UpstreamCall
<1>6. /\ begun.times = upstream[id].times + 1 /\ begun.clean = clean
      /\ begun.sent = json /\ begun.object = (json = Whole) /\ begun.end = end
  OBVIOUS
<1> HIDE DEF begun
<1>7. upstream'[id] = begun /\ upstream' \in [ToolIds -> UpstreamCall]
  BY <1>3, <1>5 DEF ArgTypeOK
<1>8. \A j \in ToolIds \ {id} : upstream'[j] = upstream[j]
  BY <1>3 DEF ArgTypeOK
<1>9. upstream'[id].clean = clean
  BY <1>6, <1>7
<1> QED
  BY <1>6, <1>7, <1>8, <1>9 DEF clean

LEMMA JsonOfFirst ==
    ASSUME NEW json \in {<<>>, Whole}
    PROVE  json \in Json /\ json \in Prefixes /\ Parsed(json) = json
<1>1. CASE json = <<>>
  BY <1>1, WholeFacts, PrefixFacts
<1>2. CASE json = Whole
  BY <1>2, WholeFacts, PrefixFacts
<1> QED
  BY <1>1, <1>2

\* The handlers change what they hold of one call.
LEMMA RequestChanges ==
    ASSUME ArgTypeOK, NEW id \in ToolIds, NEW json \in {<<>>, Whole}, Request(id, json)
    PROVE  /\ activeTools' = activeTools \cup {id}
           /\ arguments' \in [ToolIds -> {<<>>, Whole}]
           /\ arguments'[id] = IF id \in activeTools /\ json = <<>> THEN arguments[id] ELSE json
           /\ sent' \in [ToolIds -> Json]
           /\ sent'[id] = IF id \in activeTools THEN sent[id] ELSE sent[id] \o json
           /\ buffer' = buffer
           /\ \A j \in ToolIds \ {id} : arguments'[j] = arguments[j] /\ sent'[j] = sent[j]
<1>1. json \in Json /\ Parsed(json) = json
  BY JsonOfFirst
<1>2. sent[id] \in Json /\ sent[id] \o json \in Json
  BY <1>1, JsonFacts DEF ArgTypeOK
<1>3. /\ activeTools' = activeTools \cup {id} /\ buffer' = buffer
      /\ arguments' = IF id \in activeTools /\ json = <<>> THEN arguments
                      ELSE [arguments EXCEPT ![id] = json]
      /\ sent' = IF id \in activeTools THEN sent ELSE [sent EXCEPT ![id] = sent[id] \o json]
  BY <1>1 DEF Request, HandleToolCallRequest
<1> QED
  BY <1>2, <1>3 DEF ArgTypeOK

LEMMA CompleteChanges ==
    ASSUME ArgTypeOK, NEW id \in ToolIds, Complete(id)
    PROVE  /\ activeTools' = activeTools \ {id}
           /\ arguments' \in [ToolIds -> {<<>>, Whole}]
           /\ arguments'[id] = Parsed(buffer[id])
           /\ buffer' \in [ToolIds -> Json]
           /\ buffer'[id] = <<>>
           /\ sent' = sent
           /\ \A j \in ToolIds \ {id} : arguments'[j] = arguments[j] /\ buffer'[j] = buffer[j]
<1>1. Parsed(buffer[id]) \in {<<>>, Whole} /\ <<>> \in Json
  BY WholeFacts
<1>2. /\ activeTools' = activeTools \ {id} /\ sent' = sent
      /\ arguments' = [arguments EXCEPT ![id] = Parsed(buffer[id])]
      /\ buffer' = [buffer EXCEPT ![id] = <<>>]
  BY DEF Complete, HandleToolCallResult
<1> QED
  BY <1>1, <1>2 DEF ArgTypeOK

LEMMA AppendChanges ==
    ASSUME ArgTypeOK, NEW id \in ToolIds, NEW json \in Json, AppendFragment(id, json)
    PROVE  /\ activeTools' = activeTools /\ arguments' = arguments
           /\ buffer' \in [ToolIds -> Json]
           /\ buffer'[id] = buffer[id] \o json
           /\ sent' \in [ToolIds -> Json]
           /\ id # NoToolId => sent'[id] = sent[id] \o json
           /\ \A j \in ToolIds \ {id} : sent'[j] = sent[j] /\ buffer'[j] = buffer[j]
<1>1. /\ buffer[id] \in Json /\ sent[id] \in Json
      /\ buffer[id] \o json \in Json /\ sent[id] \o json \in Json
  BY JsonFacts DEF ArgTypeOK
<1>2. /\ activeTools' = activeTools /\ arguments' = arguments
      /\ buffer' = [buffer EXCEPT ![id] = buffer[id] \o json]
      /\ sent' = IF id = NoToolId THEN sent ELSE [sent EXCEPT ![id] = sent[id] \o json]
  BY DEF AppendFragment, toolVars
<1> QED
  BY <1>1, <1>2 DEF ArgTypeOK

\* What is held of calls is pieces, and other calls are not touched, whatever
\* a tool-use message finds.
LEMMA ToolUseChanges ==
    ASSUME ArgTypeOK, NEW id \in ToolIds, NEW json \in Json, NEW stop \in BOOLEAN,
           id \in activeTools \/ json \in {<<>>, Whole}, HandleToolUseEvent(id, json, stop)
    PROVE  /\ activeTools' \subseteq ToolIds
           /\ arguments' \in [ToolIds -> {<<>>, Whole}]
           /\ buffer' \in [ToolIds -> Json]
           /\ sent' \in [ToolIds -> Json]
           /\ ~stop => id \in activeTools'
           /\ \A j \in ToolIds \ {id} :
                 /\ j \in activeTools' <=> j \in activeTools
                 /\ arguments'[j] = arguments[j] /\ buffer'[j] = buffer[j] /\ sent'[j] = sent[j]
<1>0. activeTools \subseteq ToolIds
  BY DEF ArgTypeOK
<1>1. CASE id \notin activeTools /\ Request(id, json)
  BY <1>0, <1>1, RequestChanges DEF ArgTypeOK
<1>2. CASE id \in activeTools /\ stop /\ Complete(id)
  BY <1>0, <1>2, CompleteChanges DEF ArgTypeOK
<1>3. CASE id \in activeTools /\ ~stop /\ AppendFragment(id, json)
  BY <1>0, <1>3, AppendChanges DEF ArgTypeOK
<1>4. CASE id \in activeTools /\ ~stop /\ UNCHANGED <<toolVars, arguments, buffer, sent>>
  BY <1>4 DEF toolVars, ArgTypeOK
<1> QED
  BY <1>1, <1>2, <1>3, <1>4 DEF HandleToolUseEvent

\* A call that begins while its id is new, or is free and has nothing in the
\* aggregator.
LEMMA FreshCall ==
    ASSUME ArgInv, NEW id \in ToolIds,
           upstream[id].times = 0 \/ (upstream[id].clean /\ upstream[id].end = "stop"),
           NEW json \in {<<>>, Whole}, Request(id, json),
           NEW end \in {"none", "once"}, Begin(id, json, end)
    PROVE  CallInv(id)'
<1>1. ArgTypeOK /\ CallInv(id)
  BY DEF ArgInv
<1>2. id \notin activeTools /\ buffer[id] = <<>>
  BY <1>1 DEF CallInv, CleanInv, Unseen, Stopped
<1>3. json \in Json /\ json \in Prefixes /\ Parsed(json) = json
  BY JsonOfFirst
<1>4. upstream[id].times \in Nat /\ sent[id] \in Json
  BY <1>1 DEF ArgTypeOK, UpstreamCall
<1>5. /\ id \in activeTools' /\ arguments'[id] = json /\ buffer'[id] = <<>>
      /\ sent'[id] = sent[id] \o json
  BY <1>1, <1>2, RequestChanges
<1>6. /\ upstream'[id].times = upstream[id].times + 1 /\ upstream'[id].clean
      /\ upstream'[id].sent = json /\ upstream'[id].end = end
      /\ upstream'[id].object <=> json = Whole
  BY <1>1, <1>3, BeginEffect
<1>7. ASSUME upstream'[id].times = 1 PROVE sent'[id] = json
  <2>1. upstream[id].times = 0
    BY <1>4, <1>6, <1>7
  <2>2. sent[id] = <<>>
    BY <1>1, <2>1 DEF CallInv, Unseen
  <2> QED
    BY <1>3, <1>5, <2>2, WholeFacts
<1>8. upstream'[id].times # 0
  BY <1>4, <1>6
<1>9. CleanInv(id)'
  BY <1>3, <1>5, <1>6, <1>7, WholeFacts
     DEF CleanInv, Running, InFragments, AsObject, Done
<1> QED
  BY <1>3, <1>5, <1>6, <1>8, <1>9 DEF CallInv

\* One that begins while the call before it is active or has left something.
LEMMA StaleCall ==
    ASSUME ArgInv, NEW id \in ToolIds,
           ~(upstream[id].times = 0 \/ (upstream[id].clean /\ upstream[id].end = "stop")),
           NEW json \in {<<>>, Whole}, NEW end \in {"none", "once"}, Begin(id, json, end),
           end = "none" => id \in activeTools'
    PROVE  CallInv(id)'
<1>1. ArgTypeOK
  BY DEF ArgInv
<1>2. json \in Json /\ json \in Prefixes
  BY JsonOfFirst
<1>3. upstream[id].times \in Nat
  BY <1>1 DEF ArgTypeOK, UpstreamCall
<1>4. /\ upstream'[id].times = upstream[id].times + 1 /\ ~upstream'[id].clean
      /\ upstream'[id].sent = json /\ upstream'[id].end = end
  BY <1>1, <1>2, BeginEffect
<1>5. ~(upstream'[id].times <= 1) /\ upstream'[id].times # 0
  BY <1>3, <1>4
<1> QED
  BY <1>2, <1>4, <1>5 DEF CallInv, Running

LEMMA FirstStep ==
    ASSUME ArgInv, NEW id \in ToolIds, NEW json \in {<<>>, Whole}, NEW stop \in BOOLEAN,
           FirstMessage(id, json, stop)
    PROVE  ArgTypeOK' /\ CallInv(id)' /\ OnlyTouches(id)
<1> DEFINE end == IF stop THEN "once" ELSE "none"
<1>1. /\ ArgTypeOK /\ CallInv(id) /\ json \in Json /\ end \in {"none", "once"}
      /\ HandleToolUseEvent(id, json, stop) /\ Begin(id, json, end)
  BY JsonOfFirst DEF ArgInv, FirstMessage
<1> DEFINE clean == upstream[id].times = 0 \/ (upstream[id].clean /\ upstream[id].end = "stop")
<1>2. ArgTypeOK'
  BY <1>1, ToolUseChanges, BeginEffect DEF ArgTypeOK
<1>3. OnlyTouches(id)
  BY <1>1, ToolUseChanges, BeginEffect DEF OnlyTouches
<1>4. CASE clean
  <2>1. id \notin activeTools
    BY <1>1, <1>4 DEF CallInv, CleanInv, Unseen, Stopped
  <2>2. Request(id, json)
    BY <1>1, <2>1 DEF HandleToolUseEvent
  <2> HIDE DEF end
  <2> QED
    BY <1>1, <1>2, <1>3, <1>4, <2>2, FreshCall
<1>5. CASE ~clean
  <2>1. end = "none" => id \in activeTools'
    BY <1>1, ToolUseChanges
  <2> HIDE DEF end
  <2> QED
    BY <1>1, <1>2, <1>3, <1>5, <2>1, StaleCall
<1> QED
  BY <1>4, <1>5

LEMMA ToolRequestStep ==
    ASSUME ArgInv, NEW id \in ToolIds, NEW json \in {<<>>, Whole}, ToolRequest(id, json)
    PROVE  ArgTypeOK' /\ CallInv(id)' /\ OnlyTouches(id)
<1>1. ArgTypeOK /\ CallInv(id) /\ Request(id, json) /\ json \in Json
  BY JsonOfFirst DEF ArgInv, ToolRequest
<1>2. activeTools' \subseteq ToolIds /\ id \in activeTools'
  BY <1>1, RequestChanges DEF ArgTypeOK
<1> DEFINE clean == upstream[id].times = 0 \/ (upstream[id].clean /\ upstream[id].end = "stop")
<1>3. CASE Begin(id, json, "none")
  <2>1. ArgTypeOK'
    BY <1>1, <1>2, <1>3, RequestChanges, BeginEffect DEF ArgTypeOK
  <2>2. OnlyTouches(id)
    BY <1>1, <1>3, RequestChanges, BeginEffect DEF OnlyTouches
  <2>3. CASE clean
    BY <1>1, <1>3, <2>1, <2>2, <2>3, FreshCall
  <2>4. CASE ~clean
    BY <1>1, <1>2, <1>3, <2>1, <2>2, <2>4, StaleCall
  <2> QED
    BY <2>3, <2>4
<1>4. CASE Running(id) /\ UNCHANGED upstream
  <2>1. id \in activeTools
    BY <1>1, <1>4 DEF CallInv
  <2>2. /\ activeTools' = activeTools /\ buffer' = buffer /\ sent'[id] = sent[id]
        /\ arguments'[id] = IF json = <<>> THEN arguments[id] ELSE json
    BY <1>1, <2>1, RequestChanges
  <2>3. arguments[id] = Whole => arguments'[id] = Whole
    BY <2>2
  <2>4. ArgTypeOK' /\ OnlyTouches(id)
    BY <1>1, <1>2, <1>4, RequestChanges DEF ArgTypeOK, OnlyTouches
  <2>5. CallInv(id)'
    <3>1. Running(id)' /\ upstream[id].end = "none"
      BY <1>4 DEF Running
    <3>2. CleanInv(id) => CleanInv(id)'
      BY <1>4, <2>2, <2>3, <3>1 DEF CleanInv, InFragments, AsObject
    <3> QED
      BY <1>1, <1>2, <1>4, <2>1, <3>1, <3>2 DEF CallInv, Unseen, Running
  <2> QED
    BY <2>4, <2>5
<1> QED
  BY <1>3, <1>4 DEF ToolRequest

LEMMA FragmentStep ==
    ASSUME ArgInv, NEW id \in ToolIds, Fragment(id)
    PROVE  ArgTypeOK' /\ CallInv(id)' /\ OnlyTouches(id)
<1> DEFINE piece == NextPiece(id)
<1>1. /\ ArgTypeOK /\ CallInv(id) /\ Running(id) /\ Len(upstream[id].sent) < Pieces
      /\ HandleToolUseEvent(id, piece, FALSE) /\ Say(id, piece, "none")
  BY DEF ArgInv, Fragment
<1>2. /\ piece \in Json /\ piece # <<>>
      /\ upstream[id].sent \in Prefixes /\ upstream[id].sent \o piece \in Prefixes
  BY <1>1, PrefixFacts DEF NextPiece, CallInv
<1>3. id \in activeTools
  BY <1>1 DEF CallInv
<1> HIDE DEF piece
<1>4. AppendFragment(id, piece)
  BY <1>1, <1>2, <1>3 DEF HandleToolUseEvent
<1>5. ArgTypeOK'
  BY <1>1, <1>2, <1>4, AppendChanges, SayEffect DEF ArgTypeOK
<1>6. OnlyTouches(id)
  BY <1>1, <1>2, <1>4, AppendChanges, SayEffect DEF OnlyTouches
<1>7. /\ upstream'[id].times = upstream[id].times /\ upstream'[id].clean = upstream[id].clean
      /\ upstream'[id].sent = upstream[id].sent \o piece
      /\ upstream'[id].object = upstream[id].object /\ upstream'[id].end = "none"
  BY <1>1, <1>2, SayEffect
<1>8. /\ id \in activeTools' /\ buffer'[id] = buffer[id] \o piece
      /\ id # NoToolId => sent'[id] = sent[id] \o piece
  BY <1>1, <1>2, <1>3, <1>4, AppendChanges
<1>9. ASSUME upstream[id].clean PROVE CleanInv(id)'
  <2>1. ~upstream[id].object
    BY <1>1, <1>9, WholeFacts, ArgumentsAssumption DEF CallInv, CleanInv, AsObject
  <2>2. InFragments(id)
    BY <1>1, <1>9, <2>1 DEF CallInv, CleanInv
  <2> QED
    BY <1>7, <1>8, <2>1, <2>2 DEF CleanInv, InFragments, Running
<1>10. CallInv(id)'
  BY <1>1, <1>2, <1>7, <1>8, <1>9 DEF CallInv, Running
<1> QED
  BY <1>5, <1>6, <1>10

LEMMA StopStep ==
    ASSUME ArgInv, NEW id \in ToolIds, Stop(id)
    PROVE  ArgTypeOK' /\ CallInv(id)' /\ OnlyTouches(id)
<1>1. /\ ArgTypeOK /\ CallInv(id) /\ Running(id) /\ (upstream[id].object => ObjectThenStop)
      /\ HandleToolUseEvent(id, <<>>, TRUE) /\ Say(id, <<>>, "stop") /\ <<>> \in Json
  BY WholeFacts DEF ArgInv, Stop
<1>2. id \in activeTools
  BY <1>1 DEF CallInv
<1>3. Complete(id)
  BY <1>1, <1>2 DEF HandleToolUseEvent
<1>4. ArgTypeOK'
  BY <1>1, <1>3, CompleteChanges, SayEffect DEF ArgTypeOK
<1>5. OnlyTouches(id)
  BY <1>1, <1>3, CompleteChanges, SayEffect DEF OnlyTouches
<1>6. /\ upstream'[id].times = upstream[id].times /\ upstream'[id].clean = upstream[id].clean
      /\ upstream'[id].sent = upstream[id].sent /\ upstream'[id].end = "stop"
  <2>1. upstream[id].sent \o <<>> = upstream[id].sent
    BY <1>1, WholeFacts DEF ArgTypeOK, UpstreamCall
  <2> QED
    BY <1>1, <2>1, SayEffect
<1>7. /\ id \notin activeTools' /\ arguments'[id] = Parsed(buffer[id])
      /\ buffer'[id] = <<>> /\ sent'[id] = sent[id]
  BY <1>1, <1>3, CompleteChanges
<1>8. ASSUME upstream[id].clean PROVE CleanInv(id)'
  <2>1. ASSUME ~ObjectThenStop PROVE InFragments(id)
    BY <1>1, <1>8, <2>1 DEF CallInv, CleanInv
  <2>2. Done(id)'
    BY <1>6, <1>7, <2>1 DEF Done, InFragments
  <2> QED
    BY <1>6, <1>7, <2>2 DEF CleanInv, Stopped, Running
<1>9. CallInv(id)'
  BY <1>1, <1>6, <1>8 DEF CallInv, Running
<1> QED
  BY <1>4, <1>5, <1>9

LEMMA RepeatStep ==
    ASSUME ArgInv, NEW id \in ToolIds, Repeat(id)
    PROVE  ArgTypeOK' /\ CallInv(id)' /\ OnlyTouches(id)
<1>1. /\ ArgTypeOK /\ Running(id) /\ CallInv(id) /\ <<>> \in Json
      /\ HandleToolUseEvent(id, <<>>, FALSE) /\ Say(id, <<>>, "none")
  BY WholeFacts DEF ArgInv, Repeat
<1>2. id \in activeTools
  BY <1>1 DEF CallInv
<1>3. UNCHANGED <<activeTools, arguments, buffer, sent>>
  BY <1>1, <1>2 DEF HandleToolUseEvent, toolVars
<1>4. ArgTypeOK'
  BY <1>1, <1>3, SayEffect DEF ArgTypeOK
<1>5. OnlyTouches(id)
  BY <1>1, <1>3, SayEffect DEF OnlyTouches
<1>6. /\ upstream'[id].times = upstream[id].times /\ upstream'[id].clean = upstream[id].clean
      /\ upstream'[id].sent = upstream[id].sent
      /\ upstream'[id].object = upstream[id].object /\ upstream'[id].end = "none"
  <2>1. upstream[id].sent \o <<>> = upstream[id].sent
    BY <1>1, WholeFacts DEF ArgTypeOK, UpstreamCall
  <2> QED
    BY <1>1, <2>1, SayEffect
<1>7. CleanInv(id) => CleanInv(id)'
  BY <1>1, <1>3, <1>6 DEF CleanInv, Running, InFragments, AsObject
<1>8. CallInv(id)'
  BY <1>1, <1>2, <1>3, <1>6, <1>7 DEF CallInv, Running
<1> QED
  BY <1>4, <1>5, <1>8

\* An error for a call that has ended, or never was, finds it active at most
\* when its only message ended it.
LEMMA ErrorStep ==
    ASSUME ArgInv, NEW id \in ToolIds, ToolError(id)
    PROVE  ArgTypeOK' /\ CallInv(id)' /\ OnlyTouches(id)
<1>1. /\ ArgTypeOK /\ CallInv(id) /\ <<>> \in Json
      /\ activeTools' = activeTools \ {id}
      /\ UNCHANGED <<arguments, buffer, sent>>
  BY WholeFacts DEF ArgInv, ToolError, HandleToolCallError, HandleToolCallResult
<1>2. CASE Running(id) /\ Say(id, <<>>, "error")
  <2>1. ArgTypeOK'
    BY <1>1, <1>2, SayEffect DEF ArgTypeOK
  <2>2. OnlyTouches(id)
    BY <1>1, <1>2, SayEffect DEF OnlyTouches
  <2>3. /\ upstream'[id].times = upstream[id].times /\ upstream'[id].clean = upstream[id].clean
        /\ upstream'[id].sent = upstream[id].sent /\ upstream'[id].end = "error"
    BY <1>1, <1>2, SayEffect, WholeFacts DEF ArgTypeOK, UpstreamCall
  <2>4. CallInv(id)'
    BY <1>1, <1>2, <2>3 DEF CallInv, CleanInv, Running
  <2> QED
    BY <2>1, <2>2, <2>4
<1>3. CASE ~Running(id) /\ UNCHANGED upstream
  <2>1. ArgTypeOK' /\ OnlyTouches(id)
    BY <1>1, <1>3 DEF ArgTypeOK, OnlyTouches
  <2>2. CleanInv(id) => CleanInv(id)'
    BY <1>1, <1>3 DEF CleanInv, Running, Stopped, Done
  <2>3. CallInv(id)'
    BY <1>1, <1>3, <2>2 DEF CallInv, Running, Unseen
  <2> QED
    BY <2>1, <2>3
<1> QED
  BY <1>2, <1>3 DEF ToolError

LEMMA ArgStep ==
    ASSUME ArgInv, [Next]_argVars
    PROVE  ArgInv'
<1>1. CASE UNCHANGED argVars
  <2>1. UNCHANGED <<activeTools, arguments, buffer, sent, upstream>>
    BY <1>1 DEF argVars, toolVars
  <2>2. ArgTypeOK'
    BY <2>1 DEF ArgInv, ArgTypeOK
  <2>3. ASSUME NEW id \in ToolIds PROVE CallInv(id)'
    BY <2>1 DEF ArgInv, CallInv, CleanInv, Unseen, Running, InFragments, AsObject,
                Stopped, Done
  <2> QED
    BY <2>2, <2>3 DEF ArgInv
<1>2. CASE Next
  <2>1. PICK id \in ToolIds :
            \/ \E json \in {<<>>, Whole}, stop \in BOOLEAN : FirstMessage(id, json, stop)
            \/ Fragment(id)
            \/ Stop(id)
            \/ Repeat(id)
            \/ \E json \in {<<>>, Whole} : ToolRequest(id, json)
            \/ ToolError(id)
    BY <1>2 DEF Next
  <2>2. ArgTypeOK' /\ CallInv(id)' /\ OnlyTouches(id)
    BY <2>1, FirstStep, ToolRequestStep, FragmentStep, StopStep, RepeatStep, ErrorStep
  <2>3. ASSUME NEW j \in ToolIds PROVE CallInv(j)'
    BY <2>2, OthersKeepInv
  <2> QED
    BY <2>2, <2>3 DEF ArgInv
<1> QED
  BY <1>1, <1>2

\* An upstream that does not send a whole object and its stop apart gets the
\* same call to both kinds of client (message_event_handlers.go:653-732).
THEOREM SameCallHolds == ~ObjectThenStop => (Spec => []SameCall)
<1> SUFFICES ASSUME ~ObjectThenStop PROVE Spec => []SameCall
  OBVIOUS
<1>1. Init => ArgInv
  BY ArgInit
<1>2. ArgInv /\ [Next]_argVars => ArgInv'
  BY ArgStep
<1>3. ArgInv => SameCall
  BY DEF ArgInv, CallInv, CleanInv, Done, SameCall
<1> QED
  BY <1>1, <1>2, <1>3, PTL DEF Spec

\* Under the same condition, what such an upstream sent whole is what the
\* execution ends with, also of an id that was used before by calls that were
\* stopped (sonic_streaming_aggregator.go:88-136).
THEOREM JoinedArgumentsHolds == ~ObjectThenStop => (Spec => []JoinedArguments)
<1> SUFFICES ASSUME ~ObjectThenStop PROVE Spec => []JoinedArguments
  OBVIOUS
<1>1. Init => ArgInv
  BY ArgInit
<1>2. ArgInv /\ [Next]_argVars => ArgInv'
  BY ArgStep
<1>3. ArgInv => JoinedArguments
  BY WholeFacts DEF ArgInv, CallInv, CleanInv, Done, JoinedArguments
<1> QED
  BY <1>1, <1>2, <1>3, PTL DEF Spec

LEMMA ArgumentStepIsLifecycleStep == [Next]_argVars => [ToolNext]_toolVars
<1>1. CASE UNCHANGED argVars
  BY <1>1 DEF argVars
<1>2. ASSUME NEW id \in ToolIds, NEW json, NEW stop, HandleToolUseEvent(id, json, stop)
      PROVE  [ToolNext]_toolVars
  BY <1>2 DEF HandleToolUseEvent, Request, Complete, AppendFragment, ToolNext
<1>3. CASE Next
  BY <1>2, <1>3 DEF Next, FirstMessage, Fragment, Stop, Repeat, ToolRequest, Request,
                    ToolError, ToolNext
<1> QED
  BY <1>1, <1>3

\* Whatever the upstream does, the composition only takes lifecycle steps, so
\* the three theorems about ToolLifecycle hold of it too.
THEOREM ArgumentsImplementLifecycle == Spec => ToolSpec
<1>1. Init => ToolInit
  BY DEF Init
<1>2. [Next]_argVars => [ToolNext]_toolVars
  BY ArgumentStepIsLifecycleStep
<1> QED
  BY <1>1, <1>2, PTL DEF Spec, ToolSpec

LEMMA InvTyped == ArgInv /\ LifecycleInv => TypeOK
<1> SUFFICES ASSUME ArgInv, LifecycleInv PROVE TypeOK
  OBVIOUS
<1>1. \A id \in ToolIds : upstream[id].sent \in PieceSeqs
  BY PrefixFacts DEF ArgInv, CallInv
<1>2. upstream \in [ToolIds -> [times: Nat, clean: BOOLEAN, sent: PieceSeqs, object: BOOLEAN,
                                end: {"none", "once", "stop", "error"}]]
  BY <1>1 DEF ArgInv, ArgTypeOK, UpstreamCall
<1> QED
  BY <1>2 DEF ArgInv, ArgTypeOK, LifecycleInv, TypeOK, Json

\* The state stays well-typed: every place holds pieces of calls, whatever the
\* upstream sends.
THEOREM TypeCorrect == Spec => []TypeOK
<1>1. Init => ArgInv /\ LifecycleInv
  BY ArgInit, LifecycleInit DEF Init
<1>2. (ArgInv /\ LifecycleInv) /\ [Next]_argVars => (ArgInv /\ LifecycleInv)'
  BY ArgStep, ArgumentStepIsLifecycleStep, LifecycleStep
<1>3. ArgInv /\ LifecycleInv => TypeOK
  BY InvTyped
<1> QED
  BY <1>1, <1>2, <1>3, PTL DEF Spec

-----------------------------------------------------------------------------
(* The client.                                                              *)
Call == [id: ToolIds \ {NoToolId}, json: Json]
Faults == {"text", "open", "thought", "close", "call", "arguments", "finish"}
Client == [calls: Seq(Call), thinking: BOOLEAN, finish: {"none", "stop", "tool_calls"},
           done: BOOLEAN, faults: SUBSET Faults]

LEMMA PieceSeqsTyped == \A s \in PieceSeqs : s \in Json
<1> SUFFICES ASSUME NEW n \in 0 .. Pieces, NEW s \in [1 .. n -> 1 .. Pieces]
             PROVE  s \in Json
  BY DEF PieceSeqs
<1>1. Pieces \in Nat
  BY ArgumentsAssumption
<1> QED
  BY <1>1 DEF Json

\* What becomes of a client when one of its fields changes.
LEMMA CallsChanged ==
    ASSUME NEW c \in Client, NEW s \in Seq(Call)
    PROVE  LET d == [c EXCEPT !.calls = s] IN
           /\ d \in Client /\ d.calls = s
           /\ d.thinking = c.thinking /\ d.faults = c.faults
           /\ d.finish = c.finish /\ d.done = c.done
  BY Zenon DEF Client

LEMMA DoneChanged ==
    ASSUME NEW c \in Client
    PROVE  LET d == [c EXCEPT !.done = TRUE] IN
           /\ d \in Client /\ d.done /\ d.calls = c.calls
           /\ d.thinking = c.thinking /\ d.faults = c.faults /\ d.finish = c.finish
  BY Zenon DEF Client

LEMMA NoFault ==
    ASSUME NEW c \in Client, NEW f, f = c.faults PROVE [c EXCEPT !.faults = f] = c
  BY Zenon DEF Client

\* What it makes of a chunk that it can read.
LEMMA ContentRead ==
    ASSUME NEW c \in Client, c.faults = {}, c.finish = "none",
           NEW kind \in {"text", "open", "thought", "close"},
           kind \in {"text", "open"} <=> ~c.thinking
    PROVE  LET d == ReadContent(c, kind) IN
           /\ d \in Client /\ d.thinking = (kind \in {"open", "thought"})
           /\ d.faults = {} /\ d.calls = c.calls /\ d.finish = "none" /\ d.done = c.done
<1> DEFINE t == kind \in {"open", "thought"}
           f == c.faults \cup {k \in {kind} : \/ (k \in {"text", "open"}) = c.thinking
                                             \/ c.finish # "none"}
<1>1. c.thinking \in BOOLEAN
  BY DEF Client
<1>2. f = {}
  <2>1. (kind \in {"text", "open"}) # c.thinking
    BY <1>1, Zenon
  <2> QED
    BY <2>1
<1>3. t \in BOOLEAN /\ f \in SUBSET Faults
  BY <1>2
<1> DEFINE g == [c EXCEPT !.thinking = t, !.faults = f]
<1>4. ReadContent(c, kind) = g
  BY Zenon DEF ReadContent
<1> HIDE DEF f, t
<1>5. /\ g \in Client /\ g.thinking = t /\ g.faults = f
      /\ g.calls = c.calls /\ g.finish = c.finish /\ g.done = c.done
  BY <1>3, Zenon DEF Client
<1> HIDE DEF g
<1> QED
  BY <1>2, <1>4, <1>5 DEF t

LEMMA NewCallRead ==
    ASSUME NEW c \in Client, NEW id \in ToolIds \ {NoToolId},
           \A k \in DOMAIN c.calls : c.calls[k].id # id
    PROVE  LET d == ReadCall(c, Len(c.calls), id) IN
           /\ d \in Client /\ d.faults = c.faults /\ d.thinking = c.thinking
           /\ d.finish = c.finish /\ d.done = c.done
           /\ d.calls = Append(c.calls, [id |-> id, json |-> <<>>])
<1> DEFINE s == Append(c.calls, [id |-> id, json |-> <<>>])
<1> DEFINE g == [c EXCEPT !.calls = s]
<1>1. ReadCall(c, Len(c.calls), id) = g
  <2>1. {k \in DOMAIN c.calls : c.calls[k].id = id} = {}
    OBVIOUS
  <2> QED
    BY <2>1, Zenon DEF ReadCall
<1>2. s \in Seq(Call)
  BY WholeFacts DEF Client, Call
<1> HIDE DEF s
<1>3. /\ g \in Client /\ g.calls = s
      /\ g.thinking = c.thinking /\ g.faults = c.faults
      /\ g.finish = c.finish /\ g.done = c.done
  BY <1>2, CallsChanged, Zenon
<1> HIDE DEF g
<1> QED
  BY <1>1, <1>3 DEF s

LEMMA KnownCallRead ==
    ASSUME NEW c \in Client, NEW i \in Nat, i + 1 \in DOMAIN c.calls, NEW id,
           c.calls[i + 1].id = id,
           \A k \in DOMAIN c.calls : c.calls[k].id = id => k = i + 1
    PROVE  ReadCall(c, i, id) = c
<1> DEFINE known == {k \in DOMAIN c.calls : c.calls[k].id = id}
           f == c.faults \cup {k \in {"call"} : known # {i + 1}}
<1>1. known = {i + 1}
  OBVIOUS
<1>2. f = c.faults
  BY <1>1
<1>3. known # {}
  BY <1>1
<1>4. ReadCall(c, i, id) = [c EXCEPT !.faults = f]
  BY <1>3, Zenon DEF ReadCall
<1> HIDE DEF f
<1> QED
  BY <1>2, <1>4, NoFault, Zenon

\* What the client d is that was c before it was sent arguments.
ArgumentsAdded(c, d, i, json) ==
    /\ d \in Client /\ d.faults = c.faults /\ d.thinking = c.thinking
    /\ d.finish = c.finish /\ d.done = c.done
    /\ Len(d.calls) = Len(c.calls)
    /\ \A k \in DOMAIN c.calls : d.calls[k].id = c.calls[k].id
    /\ \A k \in DOMAIN c.calls \ {i + 1} : d.calls[k] = c.calls[k]
    /\ d.calls[i + 1].json = c.calls[i + 1].json \o json

LEMMA ArgumentsRead ==
    ASSUME NEW c \in Client, NEW i \in Nat, i + 1 \in DOMAIN c.calls, NEW json \in Json
    PROVE  ArgumentsAdded(c, ReadArguments(c, i, json), i, json)
<1> DEFINE call == c.calls[i + 1]
           e == [call EXCEPT !.json = call.json \o json]
           s == [c.calls EXCEPT ![i + 1] = e]
<1>1. c.calls \in Seq(Call) /\ call \in Call /\ i < Len(c.calls)
  BY DEF Client
<1>2. e \in Call /\ e.id = call.id /\ e.json = call.json \o json
  <2>1. call.json \o json \in Json
    BY <1>1, JsonFacts DEF Call
  <2> HIDE DEF call
  <2> QED
    BY <1>1, <2>1, Zenon DEF Call, e
<1> DEFINE g == [c EXCEPT !.calls = s]
<1>3. ReadArguments(c, i, json) = g
  BY <1>1, Zenon DEF ReadArguments
<1> HIDE DEF e
<1>4. /\ s \in Seq(Call) /\ Len(s) = Len(c.calls) /\ s[i + 1] = e
      /\ \A k \in DOMAIN c.calls \ {i + 1} : s[k] = c.calls[k]
  BY <1>1, <1>2
<1> HIDE DEF s
<1>5. /\ g \in Client /\ g.calls = s
      /\ g.thinking = c.thinking /\ g.faults = c.faults
      /\ g.finish = c.finish /\ g.done = c.done
  BY <1>4, CallsChanged, Zenon
<1> HIDE DEF g
<1>6. \A k \in DOMAIN c.calls : s[k].id = c.calls[k].id
  BY <1>2, <1>4
<1> QED
  BY <1>2, <1>3, <1>4, <1>5, <1>6 DEF ArgumentsAdded

LEMMA FinishRead ==
    ASSUME NEW c \in Client, c.faults = {}, c.finish = "none", ~c.thinking,
           NEW reason \in {"stop", "tool_calls"}
    PROVE  LET d == ReadFinish(c, reason) IN
           /\ d \in Client /\ d.faults = {} /\ ~d.thinking
           /\ d.finish = reason /\ d.done = c.done /\ d.calls = c.calls
<1> DEFINE f == c.faults \cup {k \in {"finish"} : c.thinking \/ c.finish # "none"}
<1>1. f = {}
  OBVIOUS
<1>2. f \in SUBSET Faults /\ reason \in {"none", "stop", "tool_calls"}
  BY <1>1
<1> DEFINE g == [c EXCEPT !.finish = reason, !.faults = f]
<1>3. ReadFinish(c, reason) = g
  BY Zenon DEF ReadFinish
<1> HIDE DEF f
<1>4. /\ g \in Client /\ g.finish = reason /\ g.faults = f
      /\ g.calls = c.calls /\ g.thinking = c.thinking /\ g.done = c.done
  BY <1>2, Zenon DEF Client
<1> HIDE DEF g
<1> QED
  BY <1>1, <1>3, <1>4

-----------------------------------------------------------------------------
(* The parser: what is known of its tools, and that blocks stay in range.   *)
Owners == {id \in ToolIds : blockIndexMap[id] # Unassigned}

\* Blocks are handed out without gaps.
Counted == nextToolBlock = Cardinality(Owners) + 1

\* A tool that ended only runs when the upstream has used its id again.
Ended == \A id \in completedTools :
            upstream[id].times > 0 /\ (id \in activeTools => upstream[id].times > 1)

ParserInv == ArgInv /\ LifecycleInv /\ Counted /\ Ended

LEMMA OwnersFinite ==
    /\ IsFiniteSet(Owners) /\ Cardinality(Owners) \in Nat
    /\ Cardinality(Owners) <= MaxIndex
<1>1. Owners \subseteq ToolIds
  BY DEF Owners
<1>2. IsFiniteSet(ToolIds) /\ MaxIndex \in Nat /\ Cardinality(ToolIds) <= MaxIndex
  BY FormatsAssumption
<1>3. IsFiniteSet(Owners) /\ Cardinality(Owners) <= Cardinality(ToolIds)
  BY <1>1, <1>2, FS_Subset
<1>4. Cardinality(Owners) \in Nat /\ Cardinality(ToolIds) \in Nat
  BY <1>2, <1>3, FS_CardinalityType
<1> QED
  BY <1>2, <1>3, <1>4

InRange == \A id \in ToolIds : blockIndexMap[id] \in Index

LEMMA BlocksInRange == LifecycleInv /\ Counted => InRange
<1> SUFFICES ASSUME LifecycleInv, Counted PROVE InRange
  OBVIOUS
<1>1. MaxIndex \in Nat
  BY FormatsAssumption
<1>2. nextToolBlock <= MaxIndex + 1
  BY <1>1, OwnersFinite DEF Counted
<1> QED
  BY <1>1, <1>2 DEF InRange, LifecycleInv, ToolTypeOK, DistinctBlocks, Index

LEMMA CountedStep ==
    ASSUME LifecycleInv, Counted, [ToolNext]_toolVars
    PROVE  Counted'
<1>1. CASE UNCHANGED <<blockIndexMap, nextToolBlock>>
  BY <1>1 DEF Counted, Owners
<1>2. ASSUME NEW id \in ToolIds, HandleToolCallRequest(id)
      PROVE  Counted'
  <2>1. CASE /\ blockIndexMap[id] = Unassigned
             /\ blockIndexMap' = [blockIndexMap EXCEPT ![id] = nextToolBlock]
             /\ nextToolBlock' = nextToolBlock + 1
    <3>1. nextToolBlock # Unassigned /\ blockIndexMap \in [ToolIds -> Nat]
      BY DEF LifecycleInv, ToolTypeOK, Unassigned
    <3>2. Owners' = Owners \cup {id} /\ id \notin Owners
      BY <2>1, <3>1 DEF Owners
    <3>3. Cardinality(Owners') = Cardinality(Owners) + 1
      BY <3>2, OwnersFinite, FS_AddElement
    <3> QED
      BY <2>1, <3>3, OwnersFinite DEF Counted
  <2> QED
    BY <1>1, <1>2, <2>1, RequestEffect
<1>3. ASSUME NEW id \in ToolIds, HandleToolCallResult(id) \/ HandleToolCallError(id)
      PROVE  Counted'
  BY <1>1, <1>3 DEF HandleToolCallResult, HandleToolCallError
<1>4. CASE UNCHANGED toolVars
  BY <1>1, <1>4 DEF toolVars
<1> QED
  BY <1>2, <1>3, <1>4 DEF ToolNext

LEMMA ParserInit == Init => ParserInv
<1> SUFFICES ASSUME Init PROVE ParserInv
  OBVIOUS
<1>1. Owners = {}
  BY DEF Init, ToolInit, Owners
<1>2. Counted
  BY <1>1, FS_EmptySet DEF Init, ToolInit, Counted
<1> QED
  BY <1>2, ArgInit, LifecycleInit DEF Init, ToolInit, ParserInv, Ended

-----------------------------------------------------------------------------
(* The events of one message.                                               *)
Types == {"content_block_start", "content_block_delta", "content_block_stop"}
Kinds == {"tool_use", "thinking", "text_delta", "thinking_delta", "input_json_delta", "none"}
Item == [event: [type: Types, index: Index, kind: Kinds, id: ToolIds \cup {NoToolId}],
         json: PieceSeqs]

IsStart(x) == x.event.kind = "tool_use"
IsDelta(x) == x.event.kind = "input_json_delta"

\* Starts name the block of their tool; the piece of JSON comes last and is
\* for the block of a tool.
WellFormed(q, map) ==
    /\ q \in Seq(Item)
    /\ \A k \in DOMAIN q :
          /\ IsStart(q[k]) => /\ q[k].event.id \in ToolIds
                              /\ q[k].event.index = map[q[k].event.id]
                              /\ q[k].event.index # Unassigned
          /\ IsDelta(q[k]) => /\ k = Len(q)
                              /\ \E id \in ToolIds : q[k].event.index = map[id]
                              /\ q[k].event.index # Unassigned

\* The start of a tool is still to be processed.
Starting(q, id) == \E k \in DOMAIN q : IsStart(q[k]) /\ q[k].event.id = id

\* The piece of JSON that is still to be processed at a block.
Pending(q, b) ==
    IF q # <<>> /\ IsDelta(q[Len(q)]) /\ q[Len(q)].event.index = b THEN q[Len(q)].json
                                                                  ELSE <<>>

LEMMA NoEvents ==
    ASSUME NEW map, NEW b
    PROVE  WellFormed(<<>>, map) /\ Pending(<<>>, b) = <<>>
BY DEF WellFormed, Pending

\* Events without a start or a piece of JSON.
LEMMA PlainEvents ==
    ASSUME NEW q \in Seq(Item), NEW map, NEW b,
           \A k \in DOMAIN q : ~IsStart(q[k]) /\ ~IsDelta(q[k])
    PROVE  WellFormed(q, map) /\ Pending(q, b) = <<>>
BY DEF WellFormed, Pending

LEMMA CarryingOne ==
    ASSUME NEW e, NEW json PROVE Carrying(<<e>>, json) = <<[event |-> e, json |-> json]>>
  BY DEF Carrying

\* A piece of JSON alone.
LEMMA DeltaEvents ==
    ASSUME NEW id \in ToolIds, NEW map, NEW b \in Index, map[id] = b, b # Unassigned,
           NEW d \in Item, IsDelta(d), ~IsStart(d), d.event.index = b
    PROVE  LET q == <<d>> IN
           /\ WellFormed(q, map)
           /\ Pending(q, b) = d.json
           /\ \A k \in DOMAIN q : IsDelta(q[k]) => q[k].event.index = b
<1> DEFINE q == <<d>>
<1>1. Len(q) = 1 /\ DOMAIN q = {1} /\ q[1] = d /\ q # <<>> /\ q \in Seq(Item)
  OBVIOUS
<1> QED
  BY <1>1 DEF WellFormed, Pending

LEMMA Two ==
    ASSUME NEW S, NEW x \in S, NEW y \in S
    PROVE  LET q == <<x, y>> IN
           q \in Seq(S) /\ q # <<>> /\ Len(q) = 2 /\ DOMAIN q = {1, 2} /\ q[1] = x /\ q[2] = y
  OBVIOUS

LEMMA Three ==
    ASSUME NEW S, NEW x \in S, NEW y \in S, NEW z \in S
    PROVE  LET q == <<x, y, z>> IN
           /\ q \in Seq(S) /\ q # <<>> /\ Len(q) = 3 /\ DOMAIN q = {1, 2, 3}
           /\ q[1] = x /\ q[2] = y /\ q[3] = z
  OBVIOUS

\* The start of a tool, after the introduction and before its arguments.
LEMMA StartEvents ==
    ASSUME NEW id \in ToolIds, NEW map, map[id] \in Index, map[id] # Unassigned,
           map[id] = BlockFor(id), id \notin activeTools, NEW json \in PieceSeqs,
           Parsed(json) \in PieceSeqs
    PROVE  LET q == RequestEvents(id, json) IN
           /\ WellFormed(q, map)
           /\ Starting(q, id)
           /\ Pending(q, map[id]) = Parsed(json)
           /\ \A k \in DOMAIN q : IsDelta(q[k]) => q[k].event.index = map[id]
<1> DEFINE piece == Parsed(json)
           q == RequestEvents(id, json)
           i == [event |-> BlockDelta(0, "text_delta"), json |-> piece]
           t == [event |-> ToolStart(BlockFor(id), id), json |-> piece]
           d == [event |-> BlockDelta(BlockFor(id), "input_json_delta"), json |-> piece]
<1>1. /\ piece = <<>> => q = <<t>> \/ q = <<i, t>>
      /\ piece # <<>> => q = <<t, d>> \/ q = <<i, t, d>>
  <2> DEFINE e0 == IF textIntroGenerated THEN <<>> ELSE <<BlockDelta(0, "text_delta")>>
             e1 == <<ToolStart(BlockFor(id), id)>>
             e2 == IF piece # <<>> THEN <<BlockDelta(BlockFor(id), "input_json_delta")>> ELSE <<>>
  <2>1. q = Carrying(e0 \o (e1 \o e2), piece)
    BY DEF RequestEvents, ToolCallRequestEvents, IntroEvents, NewToolEvents
  <2>2. ASSUME textIntroGenerated, piece # <<>> PROVE q = <<t, d>>
    BY <2>1, <2>2 DEF Carrying
  <2>3. ASSUME textIntroGenerated, piece = <<>> PROVE q = <<t>>
    BY <2>1, <2>3 DEF Carrying
  <2>4. ASSUME ~textIntroGenerated, piece # <<>> PROVE q = <<i, t, d>>
    BY <2>1, <2>4 DEF Carrying
  <2>5. ASSUME ~textIntroGenerated, piece = <<>> PROVE q = <<i, t>>
    BY <2>1, <2>5 DEF Carrying
  <2> QED
    BY <2>2, <2>3, <2>4, <2>5
<1>2. MaxIndex \in Nat
  BY FormatsAssumption
<1>3. i \in Item /\ ~IsStart(i) /\ ~IsDelta(i)
  BY <1>2 DEF Item, Types, Kinds, Index, BlockDelta, BlockEvent, IsDelta, IsStart
<1>4. /\ t \in Item /\ IsStart(t) /\ ~IsDelta(t)
      /\ t.event.id = id /\ t.event.index = map[id]
  BY DEF Item, Types, Kinds, ToolStart, BlockEvent, IsDelta, IsStart
<1>5. /\ d \in Item /\ ~IsStart(d) /\ IsDelta(d) /\ d.event.index = map[id]
      /\ d.json = piece
  BY DEF Item, Types, Kinds, BlockDelta, BlockEvent, IsDelta, IsStart
<1> HIDE DEF i, t, d, q, piece
<1>6. CASE piece = <<>>
  <2>1. q = <<t>> \/ q = <<i, t>>
    BY <1>1, <1>6
  <2>2. /\ q \in Seq(Item) /\ q # <<>> /\ q[Len(q)] = t /\ Len(q) \in DOMAIN q
        /\ \A k \in DOMAIN q : q[k] \in {i, t}
    <3>1. CASE q = <<t>>
      BY <1>4, <3>1
    <3>2. CASE q = <<i, t>>
      BY <1>3, <1>4, <3>2, Two
    <3> QED
      BY <2>1, <3>1, <3>2
  <2>3. WellFormed(q, map)
    BY <1>3, <1>4, <2>2 DEF WellFormed
  <2>4. Starting(q, id)
    BY <1>4, <2>2 DEF Starting
  <2>5. Pending(q, map[id]) = piece
    BY <1>4, <1>6, <2>2 DEF Pending
  <2> QED
    BY <1>3, <1>4, <2>2, <2>3, <2>4, <2>5 DEF q, piece
<1>7. CASE piece # <<>>
  <2>1. q = <<t, d>> \/ q = <<i, t, d>>
    BY <1>1, <1>7
  <2>2. /\ q \in Seq(Item) /\ q # <<>> /\ q[Len(q)] = d
        /\ \A k \in DOMAIN q : q[k] \in {i, t, d}
        /\ \A k \in DOMAIN q : IsDelta(q[k]) => k = Len(q)
        /\ \E k \in DOMAIN q : q[k] = t
    <3>1. t # d
      BY <1>4, <1>5
    <3>2. CASE q = <<t, d>>
      BY <1>4, <1>5, <3>1, <3>2, Two
    <3>3. CASE q = <<i, t, d>>
      BY <1>3, <1>4, <1>5, <3>1, <3>3, Three
    <3> QED
      BY <2>1, <3>2, <3>3
  <2>3. WellFormed(q, map)
    BY <1>3, <1>4, <1>5, <2>2 DEF WellFormed
  <2>4. Starting(q, id)
    BY <1>4, <2>2 DEF Starting
  <2>5. Pending(q, map[id]) = piece
    BY <1>5, <2>2 DEF Pending
  <2> QED
    BY <1>3, <1>4, <1>5, <2>2, <2>3, <2>4, <2>5 DEF q, piece
<1> QED
  BY <1>6, <1>7

-----------------------------------------------------------------------------
(* What a message about the tool id changes.                                *)
MessageEffect(id) ==
    /\ WellFormed(queue', blockIndexMap')
    /\ \A j \in ToolIds \ {id} : blockIndexMap'[j] = blockIndexMap[j] /\ sent'[j] = sent[j]
    /\ \/ blockIndexMap'[id] = blockIndexMap[id]
       \/ blockIndexMap[id] = Unassigned /\ Starting(queue', id)
    /\ \A k \in DOMAIN queue' : IsDelta(queue'[k])
                                   => queue'[k].event.index = blockIndexMap'[id]
    /\ id # NoToolId => sent'[id] = sent[id] \o Pending(queue', blockIndexMap'[id])
    /\ Ended'

\* A tool is only taken as done when it was running, and only starts to run
\* with a call the upstream begins.
LEMMA EndedStep ==
    ASSUME ParserInv, NEW id \in ToolIds, upstream'[id].times \in Nat,
           completedTools' \subseteq completedTools \cup ({id} \cap activeTools),
           activeTools' \subseteq activeTools \cup {id},
           \A j \in ToolIds \ {id} : upstream'[j] = upstream[j],
           \/ upstream'[id].times = upstream[id].times + 1
           \/ /\ upstream'[id].times = upstream[id].times
              /\ activeTools' \subseteq activeTools
              /\ id \in completedTools' \ completedTools => id \notin activeTools'
    PROVE  Ended'
<1>1. /\ completedTools \subseteq ToolIds /\ activeTools \subseteq ToolIds
      /\ upstream[id].times \in Nat
  BY DEF ParserInv, LifecycleInv, ToolTypeOK, ArgInv, ArgTypeOK, UpstreamCall
<1>2. id \in activeTools => upstream[id].times > 0
  BY <1>1 DEF ParserInv, ArgInv, CallInv, Unseen
<1>3. ASSUME NEW j \in completedTools', j # id
      PROVE  upstream'[j].times > 0 /\ (j \in activeTools' => upstream'[j].times > 1)
  BY <1>1, <1>3 DEF ParserInv, Ended
<1>4. ASSUME id \in completedTools'
      PROVE  upstream'[id].times > 0 /\ (id \in activeTools' => upstream'[id].times > 1)
  BY <1>1, <1>2, <1>4 DEF ParserInv, Ended
<1> QED
  BY <1>3, <1>4 DEF Ended

\* Every message about a tool leaves it so.
LEMMA EndedHolds ==
    ASSUME ParserInv, NEW id \in ToolIds, ReceiveToolMessage(id)
    PROVE  Ended'
<1>1. ArgTypeOK /\ CallInv(id) /\ <<>> \in Json
  BY WholeFacts DEF ParserInv, ArgInv
<1>2. Running(id) => id \in activeTools
  BY <1>1 DEF CallInv
<1>3. upstream[id].times \in Nat
  BY <1>1 DEF ArgTypeOK, UpstreamCall
<1>4. ASSUME NEW json \in {<<>>, Whole}, NEW end \in {"none", "once"}, Begin(id, json, end),
             NEW stop, HandleToolUseEvent(id, json, stop) \/ Request(id, json)
      PROVE  Ended'
  <2>1. /\ upstream'[id].times = upstream[id].times + 1
        /\ \A j \in ToolIds \ {id} : upstream'[j] = upstream[j]
    BY <1>1, <1>4, JsonOfFirst, BeginEffect
  <2>2. /\ completedTools' \subseteq completedTools \cup ({id} \cap activeTools)
        /\ activeTools' \subseteq activeTools \cup {id}
    BY <1>4 DEF HandleToolUseEvent, Request, Complete, AppendFragment, HandleToolCallRequest,
                HandleToolCallResult, toolVars
  <2> QED
    BY <1>3, <2>1, <2>2, EndedStep
<1>5. ASSUME NEW json \in Json, NEW end \in {"none", "stop", "error"}, Say(id, json, end),
             Running(id), NEW stop,
             HandleToolUseEvent(id, json, stop) \/ HandleToolCallResult(id)
      PROVE  Ended'
  <2>1. /\ upstream'[id].times = upstream[id].times
        /\ \A j \in ToolIds \ {id} : upstream'[j] = upstream[j]
    BY <1>1, <1>5, SayEffect
  <2>2. /\ completedTools' \subseteq completedTools \cup ({id} \cap activeTools)
        /\ activeTools' \subseteq activeTools
        /\ id \in completedTools' \ completedTools => id \notin activeTools'
    BY <1>2, <1>5 DEF HandleToolUseEvent, Complete, AppendFragment, HandleToolCallResult,
                      toolVars
  <2> QED
    BY <1>3, <2>1, <2>2, EndedStep
<1>6. ASSUME NEW json, Request(id, json), Running(id), UNCHANGED upstream
      PROVE  Ended'
  <2>1. completedTools' = completedTools /\ activeTools' \subseteq activeTools
    BY <1>2, <1>6 DEF Request, HandleToolCallRequest
  <2> QED
    BY <1>3, <1>6, <2>1, EndedStep
<1>7. ASSUME HandleToolCallResult(id), UNCHANGED upstream
      PROVE  Ended'
  <2>1. /\ completedTools' \subseteq completedTools \cup ({id} \cap activeTools)
        /\ activeTools' \subseteq activeTools /\ id \notin activeTools'
    BY <1>7 DEF HandleToolCallResult
  <2> QED
    BY <1>3, <1>7, <2>1, EndedStep
<1>8. ASSUME NEW json \in {<<>>, Whole}, NEW stop \in BOOLEAN, FirstMessage(id, json, stop)
      PROVE  Ended'
  <2>1. (IF stop THEN "once" ELSE "none") \in {"none", "once"}
    OBVIOUS
  <2> QED
    BY <1>4, <1>8, <2>1 DEF FirstMessage
<1>9. ASSUME Fragment(id) PROVE Ended'
  <2>1. NextPiece(id) \in Json
    BY <1>1, <1>9, PrefixFacts DEF Fragment, NextPiece, CallInv
  <2> QED
    BY <1>5, <1>9, <2>1 DEF Fragment
<1>10. ASSUME Stop(id) \/ Repeat(id) PROVE Ended'
  BY <1>1, <1>5, <1>10 DEF Stop, Repeat
<1>11. ASSUME NEW json \in {<<>>, Whole}, ToolRequest(id, json) PROVE Ended'
  BY <1>4, <1>6, <1>11 DEF ToolRequest
<1>12. ASSUME ToolError(id) PROVE Ended'
  BY <1>1, <1>5, <1>7, <1>12 DEF ToolError, HandleToolCallError
<1> QED
  BY <1>8, <1>9, <1>10, <1>11, <1>12 DEF ReceiveToolMessage

\* A call that is registered, for the first time or again.
LEMMA StartEffect ==
    ASSUME ParserInv, LifecycleInv', Counted', Ended', NEW id \in ToolIds \ activeTools,
           NEW json \in {<<>>, Whole}, Request(id, json), queue' = RequestEvents(id, json)
    PROVE  MessageEffect(id)
<1>1. ArgTypeOK /\ sent[id] \in Json
  BY DEF ParserInv, ArgInv, ArgTypeOK
<1>2. /\ blockIndexMap' = [blockIndexMap EXCEPT ![id] = BlockFor(id)]
      /\ blockIndexMap \in [ToolIds -> Nat] /\ nextToolBlock \in Nat \ {0}
  BY DEF Request, HandleToolCallRequest, ParserInv, LifecycleInv, ToolTypeOK
<1>3. /\ blockIndexMap'[id] = BlockFor(id) /\ BlockFor(id) # Unassigned
      /\ blockIndexMap[id] # Unassigned => blockIndexMap'[id] = blockIndexMap[id]
      /\ \A j \in ToolIds \ {id} : blockIndexMap'[j] = blockIndexMap[j]
  BY <1>2 DEF BlockFor, Unassigned
<1>4. blockIndexMap'[id] \in Index
  <2>1. InRange'
    BY BlocksInRange, PTL
  <2> QED
    BY <2>1 DEF InRange
<1>5. json \in PieceSeqs /\ Parsed(json) \in PieceSeqs /\ Parsed(json) = json
  BY JsonOfFirst, PrefixFacts
<1>6. /\ WellFormed(queue', blockIndexMap') /\ Starting(queue', id)
      /\ Pending(queue', blockIndexMap'[id]) = json
      /\ \A k \in DOMAIN queue' : IsDelta(queue'[k])
                                     => queue'[k].event.index = blockIndexMap'[id]
  BY <1>3, <1>4, <1>5, StartEvents
<1>7. /\ sent'[id] = sent[id] \o json
      /\ \A j \in ToolIds \ {id} : sent'[j] = sent[j]
  BY <1>1, RequestChanges
<1> QED
  BY <1>3, <1>6, <1>7 DEF MessageEffect

\* A message that brings no event.
LEMMA NothingHeard ==
    ASSUME NEW id \in ToolIds, queue' = <<>>, blockIndexMap' = blockIndexMap, sent' = sent,
           sent[id] \in Json, Ended'
    PROVE  MessageEffect(id)
<1>1. WellFormed(queue', blockIndexMap') /\ Pending(queue', blockIndexMap'[id]) = <<>>
  BY NoEvents
<1>2. DOMAIN queue' = {}
  OBVIOUS
<1>3. sent[id] = sent[id] \o <<>>
  BY WholeFacts
<1> QED
  BY <1>1, <1>2, <1>3 DEF MessageEffect

\* One that brings an event no call is told by.
LEMMA PlainHeard ==
    ASSUME NEW id \in ToolIds, NEW x \in Item, ~IsStart(x), ~IsDelta(x), queue' = <<x>>,
           blockIndexMap' = blockIndexMap, sent' = sent, sent[id] \in Json, Ended'
    PROVE  MessageEffect(id)
<1>1. queue' \in Seq(Item) /\ \A k \in DOMAIN queue' : queue'[k] = x
  OBVIOUS
<1>2. WellFormed(queue', blockIndexMap') /\ Pending(queue', blockIndexMap'[id]) = <<>>
  BY <1>1, PlainEvents
<1>3. sent[id] = sent[id] \o <<>>
  BY WholeFacts
<1> QED
  BY <1>1, <1>2, <1>3 DEF MessageEffect

\* A request for a call that is running.
LEMMA AgainEffect ==
    ASSUME ParserInv, Ended', NEW id \in activeTools, NEW json \in {<<>>, Whole},
           Request(id, json), queue' = RequestEvents(id, json)
    PROVE  MessageEffect(id)
<1>1. /\ id \in ToolIds /\ sent[id] \in Json /\ blockIndexMap' = blockIndexMap /\ sent' = sent
  BY DEF ParserInv, ArgInv, ArgTypeOK, Request, HandleToolCallRequest
<1>2. 0 \in Index /\ Parsed(json) \in PieceSeqs
  <2>1. 0 \in Index
    BY FormatsAssumption DEF Index
  <2>2. Parsed(json) \in PieceSeqs
    BY JsonOfFirst, PrefixFacts
  <2> QED
    BY <2>1, <2>2
<1> DEFINE e == BlockDelta(0, "text_delta")
           x == [event |-> e, json |-> Parsed(json)]
<1>3. ToolCallRequestEvents(id, Parsed(json) # <<>>) = IF textIntroGenerated THEN <<>> ELSE <<e>>
  BY DEF ToolCallRequestEvents, IntroEvents
<1>4. x \in Item /\ ~IsStart(x) /\ ~IsDelta(x)
  BY <1>2 DEF Item, Types, Kinds, BlockDelta, BlockEvent, IsStart, IsDelta
<1> HIDE DEF e
<1>5. CASE textIntroGenerated
  <2>1. queue' = <<>>
    BY <1>3, <1>5 DEF RequestEvents, Carrying
  <2> QED
    BY <1>1, <2>1, NothingHeard
<1>6. CASE ~textIntroGenerated
  <2>1. queue' = <<x>>
    BY <1>3, <1>6, CarryingOne DEF RequestEvents
  <2> HIDE DEF x
  <2> QED
    BY <1>1, <1>4, <2>1, PlainHeard
<1> QED
  BY <1>5, <1>6

LEMMA AppendEffect ==
    ASSUME ParserInv, Ended', NEW id \in activeTools, NEW piece \in PieceSeqs \ {<<>>},
           AppendFragment(id, piece), queue' = FragmentEvents(id, piece)
    PROVE  MessageEffect(id)
<1>1. /\ ArgTypeOK /\ id \in ToolIds /\ sent[id] \in Json /\ piece \in Json
  BY PieceSeqsTyped DEF ParserInv, ArgInv, ArgTypeOK
<1>2. /\ blockIndexMap' = blockIndexMap
      /\ id # NoToolId => sent'[id] = sent[id] \o piece
      /\ id = NoToolId => sent' = sent
      /\ \A j \in ToolIds \ {id} : sent'[j] = sent[j]
  BY <1>1, AppendChanges DEF AppendFragment, toolVars
<1>3. blockIndexMap[id] \in Index /\ blockIndexMap[id] # Unassigned
  BY <1>1, BlocksInRange DEF ParserInv, LifecycleInv, RegisteredHaveBlocks, InRange
<1>4. CASE id = NoToolId
  <2>1. queue' = <<>>
    BY <1>4 DEF FragmentEvents
  <2> QED
    BY <1>1, <1>2, <1>4, <2>1, NothingHeard
<1>5. CASE id # NoToolId
  <2> DEFINE b == blockIndexMap[id]
             d == [event |-> BlockDelta(b, "input_json_delta"), json |-> piece]
  <2>1. queue' = Carrying(<<BlockDelta(b, "input_json_delta")>>, piece)
    BY <1>5 DEF FragmentEvents
  <2>2. queue' = <<d>>
    BY <2>1, CarryingOne
  <2>3. b \in Index /\ b # Unassigned /\ blockIndexMap'[id] = b
    BY <1>2, <1>3
  <2> HIDE DEF b
  <2>4. /\ d \in Item /\ IsDelta(d) /\ ~IsStart(d) /\ d.event.index = b
        /\ d.json = piece
    BY <2>3 DEF Item, Types, Kinds, BlockDelta, BlockEvent, IsDelta, IsStart
  <2> HIDE DEF d
  <2>5. /\ WellFormed(<<d>>, blockIndexMap') /\ Pending(<<d>>, b) = piece
        /\ \A k \in DOMAIN <<d>> : IsDelta(<<d>>[k]) => <<d>>[k].event.index = b
    BY <1>1, <2>3, <2>4, DeltaEvents
  <2>6. /\ WellFormed(queue', blockIndexMap')
        /\ Pending(queue', blockIndexMap'[id]) = piece
        /\ \A k \in DOMAIN queue' : IsDelta(queue'[k])
                                       => queue'[k].event.index = blockIndexMap'[id]
    BY <2>2, <2>3, <2>5
  <2> QED
    BY <1>2, <1>5, <2>6 DEF MessageEffect
<1> QED
  BY <1>4, <1>5

\* The end of a call, well or not.
LEMMA EndEffect ==
    ASSUME ParserInv, Ended', NEW id \in ToolIds, HandleToolCallResult(id), sent' = sent,
           queue' = Carrying(ToolCallResultEvents(id), <<>>)
    PROVE  MessageEffect(id)
<1>1. sent[id] \in Json /\ blockIndexMap' = blockIndexMap
  BY DEF ParserInv, ArgInv, ArgTypeOK, HandleToolCallResult
<1>2. CASE id \notin activeTools
  <2>1. queue' = <<>>
    BY <1>2 DEF ToolCallResultEvents, Carrying
  <2> QED
    BY <1>1, <2>1, NothingHeard
<1>3. CASE id \in activeTools
  <2> DEFINE x == [event |-> BlockStop(blockIndexMap[id]), json |-> <<>>]
  <2>1. queue' = <<x>>
    BY <1>3, CarryingOne DEF ToolCallResultEvents
  <2>2. <<>> \in PieceSeqs /\ blockIndexMap[id] \in Index
    BY PrefixFacts, BlocksInRange DEF ParserInv, InRange
  <2>3. x \in Item /\ ~IsStart(x) /\ ~IsDelta(x)
    BY <2>2 DEF Item, Types, Kinds, BlockStop, BlockEvent, IsStart, IsDelta
  <2> HIDE DEF x
  <2> QED
    BY <1>1, <2>1, <2>3, PlainHeard
<1> QED
  BY <1>2, <1>3

\* A tool-use message, whatever it says and however it finds the call.
LEMMA ToolUseEffect ==
    ASSUME ParserInv, LifecycleInv', Counted', Ended', NEW id \in ToolIds,
           NEW json \in PieceSeqs, NEW stop \in BOOLEAN,
           id \in activeTools \/ json \in {<<>>, Whole},
           HandleToolUseEvent(id, json, stop), queue' = ToolUseEvents(id, json, stop)
    PROVE  MessageEffect(id)
<1>1. CASE id \notin activeTools /\ Request(id, json)
  BY <1>1, StartEffect DEF ToolUseEvents
<1>2. CASE id \in activeTools /\ stop /\ Complete(id)
  BY <1>2, EndEffect DEF ToolUseEvents, Complete
<1>3. CASE id \in activeTools /\ ~stop /\ json # <<>> /\ AppendFragment(id, json)
  BY <1>3, AppendEffect DEF ToolUseEvents
<1>4. CASE /\ id \in activeTools /\ ~stop /\ json = <<>>
           /\ UNCHANGED <<toolVars, arguments, buffer, sent>>
  <2>1. queue' = <<>> /\ blockIndexMap' = blockIndexMap /\ sent' = sent /\ sent[id] \in Json
    BY <1>4 DEF ToolUseEvents, FragmentEvents, toolVars, ParserInv, ArgInv, ArgTypeOK
  <2> QED
    BY <2>1, NothingHeard
<1> QED
  BY <1>1, <1>2, <1>3, <1>4 DEF HandleToolUseEvent

-----------------------------------------------------------------------------
(* The invariant of the handler.                                            *)
Known(id) == toolIndexByToolUseId[id] # NoIndex

\* The arguments the client has of a call.
Got(id) == IF Known(id) THEN openai.calls[toolIndexByToolUseId[id] + 1].json ELSE <<>>

ReadInv ==
    /\ hasEvents \in BOOLEAN /\ hasMoreData \in BOOLEAN
    /\ sawToolUse \in BOOLEAN /\ inThinking \in BOOLEAN
    /\ consecutiveErrors \in 0 .. maxConsecutiveErrors
    /\ hasMoreData => consecutiveErrors < maxConsecutiveErrors

ClientInv ==
    /\ openai \in Client /\ openai.faults = {} /\ openai.thinking = inThinking
    /\ openai.finish # "none" => openai.done
    /\ openai.done => queue = <<>> /\ ~hasMoreData
    /\ openai.done /\ hasEvents => openai.finish = IF sawToolUse THEN "tool_calls" ELSE "stop"

\* Each call has the place that is noted for its id.
IndexInv ==
    /\ toolIndexByToolUseId \in [ToolIds -> Nat \cup {NoIndex}]
    /\ nextToolIndex = Len(openai.calls)
    /\ \A k \in DOMAIN openai.calls : toolIndexByToolUseId[openai.calls[k].id] = k - 1
    /\ \A id \in ToolIds : Known(id) =>
          /\ toolIndexByToolUseId[id] + 1 \in DOMAIN openai.calls
          /\ openai.calls[toolIndexByToolUseId[id] + 1].id = id
          /\ blockIndexMap[id] # Unassigned
    /\ sawToolUse <=> openai.calls # <<>>

\* The blocks that are noted are those the parser gave the tools.
BlockInv ==
    /\ toolUseIdByBlockIndex \in [Index -> ToolIds \cup {NoToolId}]
    /\ \A b \in Index : toolUseIdByBlockIndex[b] # NoToolId =>
          Known(toolUseIdByBlockIndex[b]) /\ blockIndexMap[toolUseIdByBlockIndex[b]] = b
    /\ \A id \in ToolIds \ {NoToolId} : blockIndexMap[id] # Unassigned =>
          toolUseIdByBlockIndex[blockIndexMap[id]] = id \/ Starting(queue, id)

\* What the client has, with what is on its way, is what was sent.
QueueInv ==
    /\ WellFormed(queue, blockIndexMap)
    /\ queue # <<>> => hasEvents
    /\ \A id \in ToolIds \ {NoToolId} :
          sent[id] = Got(id) \o Pending(queue, blockIndexMap[id])

FInv == ParserInv /\ ReadInv /\ ClientInv /\ IndexInv /\ BlockInv /\ QueueInv

LEMMA FormatsInitInv == FormatsInit => FInv
<1> SUFFICES ASSUME FormatsInit PROVE FInv
  OBVIOUS
<1>1. ParserInv
  BY ParserInit DEF FormatsInit
<1>2. ReadInv
  <2>1. /\ hasEvents \in BOOLEAN /\ hasMoreData \in BOOLEAN
        /\ sawToolUse \in BOOLEAN /\ inThinking \in BOOLEAN
    BY DEF FormatsInit
  <2>2. consecutiveErrors \in 0 .. maxConsecutiveErrors /\ consecutiveErrors < maxConsecutiveErrors
    BY DEF FormatsInit, maxConsecutiveErrors
  <2> QED
    BY <2>1, <2>2 DEF ReadInv
<1>3. openai \in Client /\ openai = NewClient
  BY DEF FormatsInit, NewClient, Client
<1>4. ClientInv
  <2>1. /\ openai.faults = {} /\ openai.finish = "none" /\ ~openai.done
        /\ openai.thinking = FALSE
    BY <1>3 DEF NewClient
  <2>2. openai.thinking = inThinking
    BY <2>1, Zenon DEF FormatsInit
  <2> QED
    BY <1>3, <2>1, <2>2 DEF ClientInv
<1>5. \A id \in ToolIds : ~Known(id) /\ blockIndexMap[id] = Unassigned /\ sent[id] = <<>>
  BY DEF FormatsInit, Known, Init, ToolInit
<1>6. IndexInv
  BY <1>3, <1>5 DEF FormatsInit, IndexInv, NewClient
<1>7. BlockInv
  BY <1>5 DEF FormatsInit, BlockInv
<1>8. QueueInv
  <2>1. \A id \in ToolIds : Got(id) = <<>>
    BY <1>5 DEF Got
  <2>2. queue = <<>>
    BY DEF FormatsInit
  <2>3. WellFormed(queue, blockIndexMap) /\ \A b : Pending(queue, b) = <<>>
    BY <2>2, NoEvents
  <2>4. <<>> \o <<>> = <<>>
    BY WholeFacts
  <2> QED
    BY <1>5, <2>1, <2>2, <2>3, <2>4 DEF QueueInv
<1> QED
  BY <1>1, <1>2, <1>4, <1>6, <1>7, <1>8 DEF FInv

\* One event less in the queue.
LEMMA TailFacts ==
    ASSUME NEW q, NEW map, WellFormed(q, map), q # <<>>
    PROVE  /\ WellFormed(Tail(q), map)
           /\ Head(q) \in Item /\ Head(q) = q[1] /\ 1 \in DOMAIN q
           /\ \A id : Starting(q, id) => \/ Starting(Tail(q), id)
                                         \/ IsStart(Head(q)) /\ Head(q).event.id = id
           /\ IsDelta(Head(q)) => Tail(q) = <<>> /\ Len(q) = 1
           /\ ~IsDelta(Head(q)) => \A b : Pending(Tail(q), b) = Pending(q, b)
<1> DEFINE t == Tail(q)
<1>1. /\ q \in Seq(Item) /\ t \in Seq(Item) /\ Len(q) \in Nat \ {0}
      /\ Head(q) = q[1] /\ Head(q) \in Item
      /\ DOMAIN q = 1 .. Len(q) /\ DOMAIN t = 1 .. Len(q) - 1 /\ Len(t) = Len(q) - 1
      /\ \A k \in DOMAIN t : t[k] = q[k + 1]
  BY DEF WellFormed
<1> HIDE DEF t
<1>2. WellFormed(t, map)
  <2>1. ASSUME NEW k \in DOMAIN t
        PROVE  /\ k + 1 \in DOMAIN q /\ t[k] = q[k + 1]
               /\ k + 1 = Len(q) <=> k = Len(t)
    BY <1>1
  <2> QED
    BY <1>1, <2>1 DEF WellFormed
<1>3. ASSUME NEW id, Starting(q, id), ~(IsStart(Head(q)) /\ Head(q).event.id = id)
      PROVE  Starting(t, id)
  <2>1. PICK k \in DOMAIN q : IsStart(q[k]) /\ q[k].event.id = id
    BY <1>3 DEF Starting
  <2>2. k # 1
    BY <1>1, <1>3, <2>1
  <2>3. k - 1 \in DOMAIN t /\ t[k - 1] = q[k]
    BY <1>1, <2>2
  <2> QED
    BY <2>1, <2>3 DEF Starting
<1>4. IsDelta(Head(q)) => Len(q) = 1 /\ t = <<>>
  <2>1. IsDelta(Head(q)) => Len(q) = 1
    BY <1>1 DEF WellFormed
  <2> QED
    BY <1>1, <2>1
<1>5. ASSUME ~IsDelta(Head(q)), NEW b PROVE Pending(t, b) = Pending(q, b)
  <2>1. CASE Len(q) = 1
    <3>1. t = <<>> /\ q[Len(q)] = Head(q)
      BY <1>1, <2>1
    <3> QED
      BY <1>5, <3>1 DEF Pending
  <2>2. CASE Len(q) # 1
    <3>1. t # <<>> /\ Len(t) \in DOMAIN t /\ Len(t) + 1 = Len(q)
      BY <1>1, <2>2
    <3>2. t[Len(t)] = q[Len(q)]
      BY <1>1, <3>1
    <3> QED
      BY <3>1, <3>2 DEF Pending
  <2> QED
    BY <2>1, <2>2
<1> QED
  BY <1>1, <1>2, <1>3, <1>4, <1>5 DEF t

-----------------------------------------------------------------------------
(* A message of the upstream.                                               *)
LEMMA GotTyped ==
    ASSUME FInv, NEW id \in ToolIds
    PROVE  Got(id) \in Json
<1>1. CASE Known(id)
  <2>1. openai.calls[toolIndexByToolUseId[id] + 1] \in Call
    BY <1>1 DEF FInv, ClientInv, IndexInv, Client
  <2> QED
    BY <1>1, <2>1 DEF Got, Call
<1>2. CASE ~Known(id)
  BY <1>2, WholeFacts DEF Got
<1> QED
  BY <1>1, <1>2

\* Every message is a step of ToolArguments.
LEMMA ParserStep ==
    ASSUME ParserInv, [Next]_argVars
    PROVE  ArgInv' /\ LifecycleInv' /\ Counted'
  BY ArgStep, ArgumentStepIsLifecycleStep, LifecycleStep, CountedStep DEF ParserInv

LEMMA MessageIsStep ==
    ASSUME NEW id \in ToolIds, ReceiveToolMessage(id)
    PROVE  Next
  BY DEF ReceiveToolMessage, Next

LEMMA ToolMessageEffect ==
    ASSUME ParserInv, NEW id \in ToolIds, ReceiveToolMessage(id)
    PROVE  MessageEffect(id)
<1>1. ArgInv' /\ LifecycleInv' /\ Counted' /\ Ended'
  BY ParserStep, MessageIsStep, EndedHolds
<1>2. /\ CallInv(id) /\ (Running(id) => id \in activeTools)
      /\ \A json \in {<<>>, Whole} : json \in PieceSeqs
  BY PrefixFacts DEF ParserInv, ArgInv, CallInv
<1>3. ASSUME NEW json \in {<<>>, Whole}, NEW stop \in BOOLEAN,
             FirstMessage(id, json, stop), Receive(ToolUseEvents(id, json, stop))
      PROVE  MessageEffect(id)
  BY <1>1, <1>2, <1>3, ToolUseEffect DEF FirstMessage, Receive
<1>4. ASSUME Fragment(id), Receive(ToolUseEvents(id, NextPiece(id), FALSE))
      PROVE  MessageEffect(id)
  <2>1. NextPiece(id) \in PieceSeqs
    <3>1. upstream[id].sent \in Json /\ Len(upstream[id].sent) < Pieces
      BY <1>2, <1>4, PrefixFacts DEF CallInv, Fragment
    <3>2. Len(upstream[id].sent) \in Nat /\ Pieces \in Nat
      BY <3>1, JsonFacts, ArgumentsAssumption
    <3>3. 1 \in 0 .. Pieces /\ Len(upstream[id].sent) + 1 \in 1 .. Pieces
      BY <3>1, <3>2
    <3>4. NextPiece(id) \in [1 .. 1 -> 1 .. Pieces]
      BY <3>3 DEF NextPiece
    <3> QED
      BY <3>3, <3>4 DEF PieceSeqs
  <2> QED
    BY <1>1, <1>2, <1>4, <2>1, ToolUseEffect DEF Fragment, Receive
<1>5. ASSUME Stop(id), Receive(ToolUseEvents(id, <<>>, TRUE))
      PROVE  MessageEffect(id)
  BY <1>1, <1>2, <1>5, ToolUseEffect DEF Stop, Receive
<1>6. ASSUME Repeat(id), Receive(ToolUseEvents(id, <<>>, FALSE))
      PROVE  MessageEffect(id)
  BY <1>1, <1>2, <1>6, ToolUseEffect DEF Repeat, Receive
<1>7. ASSUME NEW json \in {<<>>, Whole}, ToolRequest(id, json),
             Receive(RequestEvents(id, json))
      PROVE  MessageEffect(id)
  BY <1>1, <1>7, StartEffect, AgainEffect DEF ToolRequest, Receive
<1>8. ASSUME ToolError(id), Receive(Carrying(ToolCallErrorEvents(id), <<>>))
      PROVE  MessageEffect(id)
  BY <1>1, <1>8, EndEffect DEF ToolError, HandleToolCallError, ToolCallErrorEvents, Receive
<1> QED
  BY <1>3, <1>4, <1>5, <1>6, <1>7, <1>8 DEF ReceiveToolMessage

\* What a message leaves alone.
LEMMA Received ==
    ASSUME FInv, NEW events, Receive(events)
    PROVE  /\ queue = <<>> /\ hasMoreData /\ ~openai.done
           /\ UNCHANGED <<toolIndexByToolUseId, toolUseIdByBlockIndex, nextToolIndex,
                          sawToolUse, inThinking, openai, hasMoreData>>
           /\ ReadInv' /\ ClientInv' /\ (queue' # <<>> => hasEvents')
<1>1. /\ queue = <<>> /\ hasMoreData /\ ~openai.done
      /\ UNCHANGED <<toolIndexByToolUseId, toolUseIdByBlockIndex, nextToolIndex,
                     sawToolUse, inThinking, openai, hasMoreData>>
      /\ consecutiveErrors' = 0 /\ queue' = events
  BY DEF Receive, handlerVars, FInv, ClientInv
<1>2. hasEvents' \in BOOLEAN /\ (queue' # <<>> => hasEvents')
  BY DEF Receive, FInv, ReadInv
<1>3. ReadInv'
  <2>1. 0 \in 0 .. maxConsecutiveErrors /\ 0 < maxConsecutiveErrors
    BY DEF maxConsecutiveErrors
  <2>2. /\ hasMoreData' \in BOOLEAN /\ sawToolUse' \in BOOLEAN /\ inThinking' \in BOOLEAN
    BY <1>1, Zenon DEF FInv, ReadInv
  <2> QED
    BY <1>1, <1>2, <2>1, <2>2, Zenon DEF ReadInv, maxConsecutiveErrors
<1>4. ClientInv'
  BY <1>1 DEF FInv, ClientInv
<1> QED
  BY <1>1, <1>2, <1>3, <1>4

LEMMA ToolMessageKeeps ==
    ASSUME FInv, NEW id \in ToolIds, ReceiveToolMessage(id)
    PROVE  FInv'
<1>1. ArgInv' /\ LifecycleInv' /\ Counted'
  BY ParserStep, MessageIsStep DEF FInv
<1>2. MessageEffect(id)
  BY ToolMessageEffect DEF FInv
<1>3. /\ queue = <<>>
      /\ UNCHANGED <<toolIndexByToolUseId, toolUseIdByBlockIndex, nextToolIndex,
                     sawToolUse, openai>>
      /\ ReadInv' /\ ClientInv' /\ (queue' # <<>> => hasEvents')
  BY Received DEF ReceiveToolMessage
<1>4. ParserInv'
  BY <1>1, <1>2 DEF ParserInv, MessageEffect
<1>5. \A j \in ToolIds : /\ Known(j)' <=> Known(j)
                         /\ Got(j)' = Got(j)
                         /\ blockIndexMap[j] # Unassigned => blockIndexMap'[j] = blockIndexMap[j]
  BY <1>2, <1>3 DEF Known, Got, MessageEffect
<1>6. IndexInv'
  BY <1>3, <1>5 DEF FInv, IndexInv, Known
<1>7. BlockInv'
  <2>1. ASSUME NEW b \in Index, toolUseIdByBlockIndex[b] # NoToolId
        PROVE  /\ Known(toolUseIdByBlockIndex[b])'
               /\ blockIndexMap'[toolUseIdByBlockIndex[b]] = b
    <3> PICK j : j = toolUseIdByBlockIndex[b]
      OBVIOUS
    <3>1. j \in ToolIds /\ Known(j) /\ blockIndexMap[j] = b
      BY <2>1 DEF FInv, BlockInv
    <3>2. blockIndexMap[j] # Unassigned
      BY <3>1 DEF FInv, IndexInv
    <3>3. toolUseIdByBlockIndex'[b] = j
      BY <1>3
    <3>4. Known(j)' /\ blockIndexMap'[j] = b
      BY <1>5, <3>1, <3>2
    <3> QED
      BY <1>3, <3>3, <3>4 DEF Known
  <2>2. ASSUME NEW j \in ToolIds \ {NoToolId}, blockIndexMap'[j] # Unassigned
        PROVE  toolUseIdByBlockIndex[blockIndexMap'[j]] = j \/ Starting(queue', j)
    <3>1. CASE blockIndexMap[j] # Unassigned
      <4>1. ~Starting(queue, j)
        BY <1>3 DEF Starting
      <4> QED
        BY <1>5, <3>1, <4>1 DEF FInv, BlockInv
    <3>2. CASE blockIndexMap[j] = Unassigned
      BY <1>2, <2>2, <3>2 DEF MessageEffect
    <3> QED
      BY <3>1, <3>2
  <2>3. toolUseIdByBlockIndex' = toolUseIdByBlockIndex
    BY <1>3
  <2> QED
    BY <2>1, <2>2, <2>3 DEF FInv, BlockInv, Known
<1>8. QueueInv'
  <2>1. \A j \in ToolIds \ {NoToolId} : sent[j] = Got(j)
    <3>1. \A b : Pending(queue, b) = <<>>
      BY <1>3, NoEvents
    <3>2. ASSUME NEW j \in ToolIds \ {NoToolId} PROVE sent[j] = Got(j)
      <4>1. sent[j] = Got(j) \o <<>>
        <5>1. sent[j] = Got(j) \o Pending(queue, blockIndexMap[j])
          BY DEF FInv, QueueInv
        <5> QED
          BY <3>1, <5>1, Zenon
      <4>2. Got(j) \in Json
        BY GotTyped
      <4> QED
        BY <4>1, <4>2, WholeFacts
    <3> QED
      BY <3>2
  <2>2. ASSUME NEW j \in ToolIds \ {NoToolId}
        PROVE  sent'[j] = Got(j)' \o Pending(queue', blockIndexMap'[j])
    <3>1. CASE j = id
      BY <1>2, <1>5, <2>1, <3>1 DEF MessageEffect
    <3>2. CASE j # id
      <4>1. sent'[j] = Got(j)'
        BY <1>2, <1>5, <2>1, <3>2 DEF MessageEffect
      <4>2. Pending(queue', blockIndexMap'[j]) = <<>>
        <5>1. CASE queue' = <<>>
          BY <5>1, NoEvents
        <5>2. CASE queue' # <<>> /\ IsDelta(queue'[Len(queue')])
          <6>1. Len(queue') \in DOMAIN queue'
            BY <1>2, <5>2 DEF MessageEffect, WellFormed
          <6>2. /\ queue'[Len(queue')].event.index = blockIndexMap'[id]
                /\ blockIndexMap'[id] # Unassigned
            BY <1>2, <5>2, <6>1 DEF MessageEffect, WellFormed
          <6>3. blockIndexMap'[j] # blockIndexMap'[id]
            BY <1>1, <3>2, <6>2 DEF LifecycleInv, DistinctBlocks
          <6> QED
            BY <6>2, <6>3 DEF Pending
        <5>3. CASE ~IsDelta(queue'[Len(queue')])
          BY <5>3 DEF Pending
        <5> QED
          BY <5>1, <5>2, <5>3
      <4>3. Got(j)' \in Json
        BY <1>5, GotTyped
      <4> QED
        BY <4>1, <4>2, <4>3, WholeFacts
    <3> QED
      BY <3>1, <3>2
  <2> QED
    BY <1>2, <1>3, <2>2 DEF QueueInv, MessageEffect
<1> QED
  BY <1>3, <1>4, <1>6, <1>7, <1>8 DEF FInv

\* Events of a message that is not about a tool.
LEMMA PlainMessageKeeps ==
    ASSUME FInv, NEW events \in Seq(Item), Receive(events), UNCHANGED argVars,
           \A k \in DOMAIN events : ~IsStart(events[k]) /\ ~IsDelta(events[k])
    PROVE  FInv'
<1>1. /\ queue = <<>>
      /\ UNCHANGED <<toolIndexByToolUseId, toolUseIdByBlockIndex, nextToolIndex,
                     sawToolUse, openai>>
      /\ ReadInv' /\ ClientInv' /\ (queue' # <<>> => hasEvents')
  BY Received
<1>2. UNCHANGED <<blockIndexMap, sent>>
  BY DEF argVars, toolVars
<1>3. ParserInv'
  <2>1. ArgInv' /\ LifecycleInv' /\ Counted'
    BY ParserStep DEF FInv
  <2>2. Ended'
    BY DEF FInv, ParserInv, Ended, argVars, toolVars
  <2> QED
    BY <2>1, <2>2 DEF ParserInv
<1>4. IndexInv'
  BY <1>1, <1>2 DEF FInv, IndexInv, Known
<1>5. BlockInv'
  <2>1. \A j : ~Starting(queue, j)
    BY <1>1 DEF Starting
  <2> QED
    BY <1>1, <1>2, <2>1 DEF FInv, BlockInv, Known
<1>6. QueueInv'
  <2>1. queue' = events
    BY DEF Receive
  <2>2. WellFormed(queue', blockIndexMap') /\ \A b : Pending(queue', b) = <<>>
    BY <2>1, PlainEvents
  <2>3. \A b : Pending(queue, b) = <<>>
    BY <1>1, NoEvents
  <2>4. \A j \in ToolIds : Got(j)' = Got(j)
    BY <1>1 DEF Got, Known
  <2> QED
    BY <1>1, <1>2, <2>2, <2>3, <2>4 DEF FInv, QueueInv
<1> QED
  BY <1>1, <1>3, <1>4, <1>5, <1>6 DEF FInv

LEMMA Zeros == 0 \in Index /\ <<>> \in PieceSeqs
<1>1. 0 \in Index
  BY FormatsAssumption DEF Index
<1>2. <<>> \in PieceSeqs
  BY PrefixFacts
<1> QED
  BY <1>1, <1>2

LEMMA TextKeeps == FInv /\ ReceiveText => FInv'
<1> SUFFICES ASSUME FInv, ReceiveText PROVE FInv'
  OBVIOUS
<1> DEFINE x == [event |-> BlockDelta(0, "text_delta"), json |-> <<>>]
           events == Carrying(<<BlockDelta(0, "text_delta")>>, <<>>)
<1>1. events = <<x>>
  BY CarryingOne
<1>2. 0 \in Index /\ <<>> \in PieceSeqs
  BY Zeros
<1>3. x \in Item /\ ~IsStart(x) /\ ~IsDelta(x)
  BY <1>2 DEF Item, Types, Kinds, BlockDelta, BlockEvent, IsStart, IsDelta
<1>4. Receive(events) /\ UNCHANGED argVars
  BY DEF ReceiveText
<1> HIDE DEF x, events
<1>5. events \in Seq(Item) /\ \A k \in DOMAIN events : events[k] = x
  BY <1>1, <1>3
<1> QED
  BY <1>3, <1>4, <1>5, PlainMessageKeeps

LEMMA ThoughtKeeps == FInv /\ ReceiveThought => FInv'
<1> SUFFICES ASSUME FInv, ReceiveThought PROVE FInv'
  OBVIOUS
<1> DEFINE b == BlockStart(0, "thinking")
           d == BlockDelta(0, "thinking_delta")
           e == BlockStop(0)
           x == [event |-> b, json |-> <<>>]
           y == [event |-> d, json |-> <<>>]
           z == [event |-> e, json |-> <<>>]
           events == Carrying(<<b, d, e>>, <<>>)
<1>1. events = <<x, y, z>>
  <2> HIDE DEF b, d, e
  <2> QED
    BY DEF Carrying
<1>2. 0 \in Index /\ <<>> \in PieceSeqs
  BY Zeros
<1>3. /\ x \in Item /\ ~IsStart(x) /\ ~IsDelta(x)
      /\ y \in Item /\ ~IsStart(y) /\ ~IsDelta(y)
      /\ z \in Item /\ ~IsStart(z) /\ ~IsDelta(z)
  BY <1>2 DEF Item, Types, Kinds, BlockDelta, BlockStart, BlockStop, BlockEvent, IsStart,
             IsDelta
<1>4. Receive(events) /\ UNCHANGED argVars
  BY DEF ReceiveThought
<1> HIDE DEF x, y, z, events
<1>5. events \in Seq(Item) /\ \A k \in DOMAIN events : events[k] \in {x, y, z}
  BY <1>1, <1>3, Three
<1> QED
  BY <1>3, <1>4, <1>5, PlainMessageKeeps

-----------------------------------------------------------------------------
(* The read loop.                                                           *)
\* A step that only changes how the loop goes on.
LEMMA ReadKeeps ==
    ASSUME FInv, queue = <<>>, ReadInv', hasMoreData,
           UNCHANGED <<argVars, queue, handlerVars, hasEvents, openai>>
    PROVE  FInv'
<1>1. ~openai.done
  BY DEF FInv, ClientInv
<1>2. ParserInv'
  <2>1. ArgInv' /\ LifecycleInv' /\ Counted'
    BY ParserStep DEF FInv
  <2>2. Ended'
    BY DEF FInv, ParserInv, Ended, argVars, toolVars
  <2> QED
    BY <2>1, <2>2 DEF ParserInv
<1>3. ClientInv'
  BY <1>1 DEF FInv, ClientInv, handlerVars
<1>4. IndexInv'
  BY DEF FInv, IndexInv, Known, handlerVars, argVars, toolVars
<1>5. BlockInv'
  BY DEF FInv, BlockInv, Known, handlerVars, argVars, toolVars
<1>6. QueueInv'
  BY DEF FInv, QueueInv, Known, Got, handlerVars, argVars, toolVars
<1> QED
  BY <1>2, <1>3, <1>4, <1>5, <1>6 DEF FInv

LEMMA ReadErrorKeeps == FInv /\ ReadError => FInv'
<1> SUFFICES ASSUME FInv, ReadError PROVE FInv'
  OBVIOUS
<1>1. /\ queue = <<>> /\ hasMoreData
      /\ consecutiveErrors' = consecutiveErrors + 1
      /\ hasMoreData' \in {consecutiveErrors' < maxConsecutiveErrors, FALSE}
      /\ UNCHANGED <<argVars, queue, handlerVars, hasEvents, openai>>
  BY DEF ReadError
<1>2. consecutiveErrors \in 0 .. 3 /\ consecutiveErrors < 3
  BY <1>1 DEF FInv, ReadInv, maxConsecutiveErrors
<1>3. consecutiveErrors' \in 0 .. 3
  BY <1>1, <1>2
<1>4. (hasMoreData' <=> consecutiveErrors' < maxConsecutiveErrors) \/ ~hasMoreData'
  BY <1>1, Zenon
<1>5. hasMoreData' \in BOOLEAN
  <2>1. (consecutiveErrors' < maxConsecutiveErrors) \in BOOLEAN
    BY <1>3 DEF maxConsecutiveErrors
  <2> QED
    BY <1>1, <2>1, Zenon
<1>6. hasMoreData' => consecutiveErrors' < maxConsecutiveErrors
  BY <1>4, Zenon
<1>7. /\ hasEvents' \in BOOLEAN /\ sawToolUse' \in BOOLEAN /\ inThinking' \in BOOLEAN
  BY <1>1, Zenon DEF FInv, ReadInv, handlerVars
<1>8. ReadInv'
  BY <1>3, <1>5, <1>6, <1>7, Zenon DEF ReadInv, maxConsecutiveErrors
<1> QED
  BY <1>1, <1>8, ReadKeeps

LEMMA EndOfBodyKeeps == FInv /\ EndOfBody => FInv'
<1> SUFFICES ASSUME FInv, EndOfBody PROVE FInv'
  OBVIOUS
<1>1. /\ queue = <<>> /\ hasMoreData /\ hasMoreData' = FALSE
      /\ UNCHANGED <<argVars, queue, handlerVars, hasEvents, consecutiveErrors, openai>>
  BY DEF EndOfBody
<1>2. ReadInv'
  BY <1>1, Zenon DEF FInv, ReadInv, handlerVars, maxConsecutiveErrors
<1> QED
  BY <1>1, <1>2, ReadKeeps

-----------------------------------------------------------------------------
(* The loop over the events.                                                *)
\* What one event less in the queue changes.
LEMMA ProcessedFacts ==
    ASSUME FInv, queue # <<>>, Processed, sawToolUse' \in BOOLEAN, inThinking' \in BOOLEAN
    PROVE  /\ ParserInv' /\ ReadInv' /\ WellFormed(queue', blockIndexMap')
           /\ hasEvents' /\ ~openai.done /\ openai.finish = "none"
           /\ queue' = Tail(queue)
           /\ UNCHANGED <<blockIndexMap, sent>>
<1>1. /\ queue' = Tail(queue)
      /\ UNCHANGED <<argVars, hasEvents, consecutiveErrors, hasMoreData>>
  BY DEF Processed, readVars
<1>2. ParserInv'
  <2>1. ArgInv' /\ LifecycleInv' /\ Counted'
    BY <1>1, ParserStep DEF FInv
  <2>2. Ended'
    BY <1>1 DEF FInv, ParserInv, Ended, argVars, toolVars
  <2> QED
    BY <2>1, <2>2 DEF ParserInv
<1>3. ReadInv'
  BY <1>1, Zenon DEF FInv, ReadInv, maxConsecutiveErrors
<1>4. ~openai.done /\ openai.finish = "none"
  BY DEF FInv, ClientInv
<1>5. hasEvents'
  BY <1>1 DEF FInv, QueueInv
<1>6. blockIndexMap' = blockIndexMap /\ sent' = sent
  BY <1>1 DEF argVars, toolVars
<1>7. WellFormed(queue', blockIndexMap')
  BY <1>1, <1>6, TailFacts DEF FInv, QueueInv
<1> QED
  BY <1>1, <1>2, <1>3, <1>4, <1>5, <1>6, <1>7

\* What a client that is sent content, and no call, still has.
Content(c) ==
    /\ c \in Client /\ c.faults = {} /\ c.calls = openai.calls
    /\ c.finish = "none" /\ ~c.done

LEMMA OutsideRead ==
    ASSUME NEW c, Content(c), ~c.thinking, NEW kind \in {"text", "open"}
    PROVE  /\ Content(ReadContent(c, kind))
           /\ ReadContent(c, kind).thinking = (kind = "open")
<1>1. /\ kind \in {"text", "open", "thought", "close"}
      /\ kind \in {"text", "open"} <=> ~c.thinking
      /\ (kind \in {"open", "thought"}) = (kind = "open")
  OBVIOUS
<1>2. c \in Client /\ c.faults = {} /\ c.finish = "none"
  BY DEF Content
<1> DEFINE d == ReadContent(c, kind)
<1>3. /\ d \in Client /\ d.thinking = (kind \in {"open", "thought"})
      /\ d.faults = {} /\ d.calls = c.calls /\ d.finish = "none" /\ d.done = c.done
  BY <1>1, <1>2, ContentRead, Zenon
<1> HIDE DEF d
<1> QED
  BY <1>1, <1>3 DEF Content, d

LEMMA InsideRead ==
    ASSUME NEW c, Content(c), c.thinking, NEW kind \in {"thought", "close"}
    PROVE  /\ Content(ReadContent(c, kind))
           /\ ReadContent(c, kind).thinking = (kind = "thought")
<1>1. /\ kind \in {"text", "open", "thought", "close"}
      /\ kind \in {"text", "open"} <=> ~c.thinking
      /\ (kind \in {"open", "thought"}) = (kind = "thought")
  OBVIOUS
<1>2. c \in Client /\ c.faults = {} /\ c.finish = "none"
  BY DEF Content
<1> DEFINE d == ReadContent(c, kind)
<1>3. /\ d \in Client /\ d.thinking = (kind \in {"open", "thought"})
      /\ d.faults = {} /\ d.calls = c.calls /\ d.finish = "none" /\ d.done = c.done
  BY <1>1, <1>2, ContentRead, Zenon
<1> HIDE DEF d
<1> QED
  BY <1>1, <1>3 DEF Content, d

\* An event that is not about a call the client is told of.
LEMMA ContentKeeps ==
    ASSUME FInv, queue # <<>>, Processed,
           IsStart(Head(queue)) => Head(queue).event.id = NoToolId,
           ~IsDelta(Head(queue)),
           UNCHANGED <<toolIndexByToolUseId, toolUseIdByBlockIndex, nextToolIndex, sawToolUse>>,
           Content(openai'), inThinking' \in BOOLEAN, openai'.thinking = inThinking'
    PROVE  FInv'
<1>1. sawToolUse' \in BOOLEAN
  BY Zenon DEF FInv, ReadInv
<1>2. /\ ParserInv' /\ ReadInv' /\ WellFormed(queue', blockIndexMap') /\ hasEvents'
      /\ queue' = Tail(queue) /\ UNCHANGED <<blockIndexMap, sent>>
  BY <1>1, ProcessedFacts
<1>3. /\ \A id : Starting(queue, id) =>
            Starting(queue', id) \/ (IsStart(Head(queue)) /\ Head(queue).event.id = id)
      /\ \A b : Pending(queue', b) = Pending(queue, b)
  BY <1>2, TailFacts DEF FInv, QueueInv
<1>4. openai'.calls = openai.calls
  BY DEF Content
<1>5. ClientInv'
  BY DEF ClientInv, Content
<1>6. IndexInv'
  BY <1>2, <1>4 DEF FInv, IndexInv, Known
<1>7. BlockInv'
  BY <1>2, <1>3 DEF FInv, BlockInv, Known
<1>8. QueueInv'
  <2>1. \A j \in ToolIds : Got(j)' = Got(j)
    BY <1>4 DEF Got, Known
  <2>2. ASSUME NEW j \in ToolIds \ {NoToolId}
        PROVE  sent'[j] = Got(j)' \o Pending(queue', blockIndexMap'[j])
    <3>1. sent[j] = Got(j) \o Pending(queue, blockIndexMap[j])
      BY DEF FInv, QueueInv
    <3> QED
      BY <1>2, <1>3, <2>1, <3>1
  <2> QED
    BY <1>2, <2>2 DEF QueueInv
<1> QED
  BY <1>2, <1>5, <1>6, <1>7, <1>8 DEF FInv

LEMMA ProcessTextKeeps == FInv /\ ProcessText => FInv'
<1> SUFFICES ASSUME FInv, ProcessText PROVE FInv'
  OBVIOUS
<1>1. /\ queue # <<>> /\ Processed /\ ~IsStart(Head(queue)) /\ ~IsDelta(Head(queue))
      /\ openai' = ReadContent(CloseTag(openai), "text") /\ inThinking' = FALSE
      /\ UNCHANGED <<toolIndexByToolUseId, toolUseIdByBlockIndex, nextToolIndex, sawToolUse>>
  BY DEF ProcessText, IsNext, IsStart, IsDelta
<1>2. /\ openai \in Client /\ openai.faults = {} /\ openai.thinking = inThinking
      /\ openai.finish = "none" /\ ~openai.done /\ inThinking \in BOOLEAN
  BY <1>1 DEF FInv, ClientInv, ReadInv
<1> DEFINE c == CloseTag(openai)
<1>3. Content(c) /\ c.thinking = FALSE
  <2>1. CASE inThinking
    <3>1. Content(openai) /\ openai.thinking = inThinking
      BY <1>2 DEF Content
    <3>2. c = ReadContent(openai, "close")
      BY <2>1 DEF CloseTag
    <3> QED
      BY <2>1, <3>1, <3>2, InsideRead
  <2>2. CASE ~inThinking
    <3>1. c = openai
      BY <2>2 DEF CloseTag
    <3> QED
      BY <1>2, <2>2, <3>1 DEF Content
  <2> QED
    BY <2>1, <2>2
<1> HIDE DEF c
<1>4. Content(ReadContent(c, "text")) /\ ReadContent(c, "text").thinking = FALSE
  BY <1>3, OutsideRead
<1>5. Content(openai') /\ openai'.thinking = inThinking' /\ inThinking' \in BOOLEAN
  BY <1>1, <1>4 DEF c
<1> QED
  BY <1>1, <1>5, ContentKeeps

LEMMA ProcessThoughtKeeps == FInv /\ ProcessThought => FInv'
<1> SUFFICES ASSUME FInv, ProcessThought PROVE FInv'
  OBVIOUS
<1>1. /\ queue # <<>> /\ Processed /\ ~IsStart(Head(queue)) /\ ~IsDelta(Head(queue))
      /\ openai' = ReadContent(OpenTag(openai), "thought") /\ inThinking' = TRUE
      /\ UNCHANGED <<toolIndexByToolUseId, toolUseIdByBlockIndex, nextToolIndex, sawToolUse>>
  BY DEF ProcessThought, IsNext, IsStart, IsDelta
<1>2. /\ openai \in Client /\ openai.faults = {} /\ openai.thinking = inThinking
      /\ openai.finish = "none" /\ ~openai.done /\ inThinking \in BOOLEAN
  BY <1>1 DEF FInv, ClientInv, ReadInv
<1> DEFINE c == OpenTag(openai)
<1>3. Content(c) /\ c.thinking = TRUE
  <2>1. CASE ~inThinking
    <3>1. Content(openai) /\ openai.thinking = inThinking
      BY <1>2 DEF Content
    <3>2. c = ReadContent(openai, "open")
      BY <2>1 DEF OpenTag
    <3> QED
      BY <2>1, <3>1, <3>2, OutsideRead
  <2>2. CASE inThinking
    <3>1. c = openai
      BY <2>2 DEF OpenTag
    <3> QED
      BY <1>2, <2>2, <3>1 DEF Content
  <2> QED
    BY <2>1, <2>2
<1> HIDE DEF c
<1>4. Content(ReadContent(c, "thought")) /\ ReadContent(c, "thought").thinking = TRUE
  BY <1>3, InsideRead
<1>5. Content(openai') /\ openai'.thinking = inThinking' /\ inThinking' \in BOOLEAN
  BY <1>1, <1>4 DEF c
<1> QED
  BY <1>1, <1>5, ContentKeeps

LEMMA ProcessOtherKeeps == FInv /\ ProcessOther => FInv'
<1> SUFFICES ASSUME FInv, ProcessOther PROVE FInv'
  OBVIOUS
<1>1. /\ queue # <<>> /\ Processed /\ ~IsStart(Head(queue)) /\ ~IsDelta(Head(queue))
      /\ openai' = openai /\ inThinking' = inThinking
      /\ UNCHANGED <<toolIndexByToolUseId, toolUseIdByBlockIndex, nextToolIndex, sawToolUse>>
  BY DEF ProcessOther, IsNext, IsStart, IsDelta, handlerVars
<1>2. Content(openai') /\ openai'.thinking = inThinking' /\ inThinking' \in BOOLEAN
  BY <1>1 DEF FInv, ClientInv, ReadInv, Content
<1> QED
  BY <1>1, <1>2, ContentKeeps

LEMMA ProcessToolStartKeeps == FInv /\ ProcessToolStart => FInv'
<1> SUFFICES ASSUME FInv, ProcessToolStart PROVE FInv'
  OBVIOUS
<1> DEFINE h == Head(queue)
<1>1. queue # <<>> /\ Processed /\ IsStart(h) /\ ~IsDelta(h)
  BY DEF ProcessToolStart, IsNext, IsStart, IsDelta
<1>2. CASE h.event.id = NoToolId
  <2>1. /\ openai' = openai /\ inThinking' = inThinking
        /\ UNCHANGED <<toolIndexByToolUseId, toolUseIdByBlockIndex, nextToolIndex, sawToolUse>>
    BY <1>2 DEF ProcessToolStart, handlerVars
  <2>2. Content(openai') /\ openai'.thinking = inThinking' /\ inThinking' \in BOOLEAN
    BY <1>1, <2>1 DEF FInv, ClientInv, ReadInv, Content
  <2> QED
    BY <1>1, <1>2, <2>1, <2>2, ContentKeeps
<1>3. CASE h.event.id # NoToolId
  <2> PICK id : id = h.event.id
    OBVIOUS
  <2> PICK b : b = h.event.index
    OBVIOUS
  <2> HIDE DEF h
  <2>1. /\ id \in ToolIds \ {NoToolId} /\ b = blockIndexMap[id] /\ b # Unassigned
        /\ b \in Index
    <3>1. WellFormed(queue, blockIndexMap) /\ h = queue[1] /\ 1 \in DOMAIN queue /\ h \in Item
      BY <1>1, TailFacts DEF FInv, QueueInv, h
    <3> QED
      BY <1>1, <1>3, <3>1 DEF WellFormed, Item
  <2>2. /\ toolIndexByToolUseId' = [toolIndexByToolUseId EXCEPT ![id] = IndexOf(id)]
        /\ nextToolIndex' = IF IndexOf(id) = nextToolIndex
                            THEN nextToolIndex + 1 ELSE nextToolIndex
        /\ toolUseIdByBlockIndex' = [toolUseIdByBlockIndex EXCEPT ![b] = id]
        /\ sawToolUse' = TRUE
        /\ openai' = ReadCall(openai, IndexOf(id), id)
        /\ inThinking' = inThinking
    BY <1>3 DEF ProcessToolStart, h
  <2>3. /\ ParserInv' /\ ReadInv' /\ WellFormed(queue', blockIndexMap') /\ hasEvents'
        /\ queue' = Tail(queue) /\ UNCHANGED <<blockIndexMap, sent>>
        /\ ~openai.done /\ openai.finish = "none"
    <3>1. sawToolUse' \in BOOLEAN /\ inThinking' \in BOOLEAN
      BY <2>2, Zenon DEF FInv, ReadInv
    <3> QED
      BY <1>1, <3>1, ProcessedFacts
  <2>4. /\ \A j : Starting(queue, j) => Starting(queue', j) \/ j = id
        /\ \A c : Pending(queue', c) = Pending(queue, c)
    <3>1. WellFormed(queue, blockIndexMap)
      BY DEF FInv, QueueInv
    <3> QED
      BY <1>1, <2>3, <3>1, TailFacts DEF h
  \* The client.
  <2>5. /\ openai' \in Client /\ openai'.faults = {} /\ openai'.thinking = inThinking
        /\ openai'.finish = "none" /\ ~openai'.done
        /\ \/ /\ Known(id) /\ openai'.calls = openai.calls
              /\ IndexOf(id) = toolIndexByToolUseId[id] /\ IndexOf(id) # nextToolIndex
           \/ /\ ~Known(id) /\ openai'.calls = Append(openai.calls, [id |-> id, json |-> <<>>])
              /\ IndexOf(id) = nextToolIndex
    <3>1. /\ openai \in Client /\ openai.faults = {} /\ openai.thinking = inThinking
          /\ openai.calls \in Seq(Call) /\ nextToolIndex = Len(openai.calls)
      BY DEF FInv, ClientInv, IndexInv, Client
    <3>2. CASE Known(id)
      <4> DEFINE i == toolIndexByToolUseId[id]
      <4>1. /\ i \in Nat /\ i + 1 \in DOMAIN openai.calls /\ openai.calls[i + 1].id = id
            /\ \A k \in DOMAIN openai.calls : openai.calls[k].id = id => k = i + 1
        BY <2>1, <3>2 DEF FInv, IndexInv, Known
      <4>2. IndexOf(id) = i
        BY <3>2 DEF IndexOf, Known
      <4> HIDE DEF i
      <4>3. openai' = openai
        BY <2>2, <3>1, <4>1, <4>2, KnownCallRead
      <4>4. i # nextToolIndex
        BY <3>1, <4>1
      <4> QED
        BY <2>3, <3>1, <3>2, <4>2, <4>3, <4>4 DEF i
    <3>3. CASE ~Known(id)
      <4>1. \A k \in DOMAIN openai.calls : openai.calls[k].id # id
        BY <2>1, <3>1, <3>3 DEF FInv, IndexInv, Known, NoIndex
      <4>2. IndexOf(id) = nextToolIndex
        BY <3>3 DEF IndexOf, Known
      <4>3. openai' = ReadCall(openai, Len(openai.calls), id)
        BY <2>2, <3>1, <4>2
      <4>4. /\ openai' \in Client /\ openai'.faults = openai.faults
            /\ openai'.thinking = openai.thinking
            /\ openai'.finish = openai.finish /\ openai'.done = openai.done
            /\ openai'.calls = Append(openai.calls, [id |-> id, json |-> <<>>])
        BY <2>1, <3>1, <4>1, <4>3, NewCallRead
      <4> QED
        BY <2>3, <3>1, <3>3, <4>2, <4>4
    <3> QED
      BY <3>2, <3>3
  <2>6. ClientInv'
    BY <2>2, <2>5 DEF ClientInv
  <2>7. /\ openai.calls \in Seq(Call) /\ nextToolIndex = Len(openai.calls)
        /\ toolIndexByToolUseId \in [ToolIds -> Nat \cup {NoIndex}]
        /\ toolUseIdByBlockIndex \in [Index -> ToolIds \cup {NoToolId}]
    BY DEF FInv, ClientInv, IndexInv, BlockInv, Client
  <2>8. IndexOf(id) \in Nat /\ IndexOf(id) # NoIndex
    BY <2>1, <2>5, <2>7 DEF Known, NoIndex
  <2>9. /\ Known(id)'
        /\ \A j \in ToolIds \ {id} : /\ Known(j)' <=> Known(j)
                                     /\ toolIndexByToolUseId'[j] = toolIndexByToolUseId[j]
        /\ toolIndexByToolUseId'[id] = IndexOf(id)
    BY <2>1, <2>2, <2>7, <2>8 DEF Known
  <2>10. IndexInv'
    <3>1. CASE Known(id)
      <4>1. toolIndexByToolUseId' = toolIndexByToolUseId
        BY <2>2, <2>5, <2>7, <3>1
      <4>2. openai'.calls = openai.calls /\ nextToolIndex' = nextToolIndex
        BY <2>2, <2>5, <3>1
      <4>3. openai.calls # <<>>
        BY <2>1, <3>1 DEF FInv, IndexInv
      <4> QED
        BY <2>2, <2>3, <4>1, <4>2, <4>3 DEF FInv, IndexInv, Known
    <3>2. CASE ~Known(id)
      <4> DEFINE call == [id |-> id, json |-> <<>>]
      <4>1. /\ openai'.calls = Append(openai.calls, call)
            /\ nextToolIndex' = nextToolIndex + 1 /\ IndexOf(id) = nextToolIndex
        BY <2>2, <2>5, <3>2
      <4>2. /\ Len(openai'.calls) = nextToolIndex' /\ openai'.calls # <<>>
            /\ DOMAIN openai'.calls = DOMAIN openai.calls \cup {nextToolIndex + 1}
            /\ nextToolIndex + 1 \notin DOMAIN openai.calls
            /\ openai'.calls[nextToolIndex + 1] = call /\ call.id = id
            /\ \A k \in DOMAIN openai.calls : openai'.calls[k] = openai.calls[k]
        BY <2>7, <4>1
      <4> HIDE DEF call
      <4>3. toolIndexByToolUseId' \in [ToolIds -> Nat \cup {NoIndex}]
        BY <2>1, <2>2, <2>7, <2>8
      <4>4. ASSUME NEW k \in DOMAIN openai'.calls
            PROVE  toolIndexByToolUseId'[openai'.calls[k].id] = k - 1
        <5>1. CASE k = nextToolIndex + 1
          BY <2>7, <2>9, <4>1, <4>2, <5>1
        <5>2. CASE k \in DOMAIN openai.calls
          <6>1. /\ openai'.calls[k] = openai.calls[k] /\ openai.calls[k] \in Call
                /\ toolIndexByToolUseId[openai.calls[k].id] = k - 1
            BY <2>7, <4>2, <5>2 DEF FInv, IndexInv
          <6>2. openai.calls[k].id \in ToolIds
            BY <6>1 DEF Call
          <6>3. openai.calls[k].id # id
            <7>1. k \in Nat \ {0}
              BY <2>7, <5>2
            <7>2. k - 1 # NoIndex
              BY <7>1 DEF NoIndex
            <7> QED
              BY <3>2, <6>1, <7>2 DEF Known
          <6> QED
            BY <2>9, <6>1, <6>2, <6>3
        <5> QED
          BY <4>2, <5>1, <5>2
      <4>5. ASSUME NEW j \in ToolIds, Known(j)'
            PROVE  /\ toolIndexByToolUseId'[j] + 1 \in DOMAIN openai'.calls
                   /\ openai'.calls[toolIndexByToolUseId'[j] + 1].id = j
                   /\ blockIndexMap'[j] # Unassigned
        <5>1. CASE j = id
          BY <2>1, <2>3, <2>9, <4>1, <4>2, <5>1
        <5>2. CASE j # id
          <6>1. Known(j) /\ toolIndexByToolUseId'[j] = toolIndexByToolUseId[j]
            BY <2>9, <4>5, <5>2
          <6> QED
            BY <2>3, <4>2, <6>1 DEF FInv, IndexInv
        <5> QED
          BY <5>1, <5>2
      <4> QED
        BY <2>2, <4>2, <4>3, <4>4, <4>5 DEF IndexInv
    <3> QED
      BY <3>1, <3>2
  <2>11. BlockInv'
    <3>1. ASSUME NEW c \in Index, toolUseIdByBlockIndex'[c] # NoToolId
          PROVE  /\ toolIndexByToolUseId'[toolUseIdByBlockIndex'[c]] # NoIndex
                 /\ blockIndexMap'[toolUseIdByBlockIndex'[c]] = c
      <4>1. CASE c = b
        <5>1. toolUseIdByBlockIndex'[c] = id
          BY <2>1, <2>2, <2>7, <4>1
        <5> QED
          BY <2>1, <2>3, <2>9, <4>1, <5>1 DEF Known
      <4>2. CASE c # b
        <5> PICK j : j = toolUseIdByBlockIndex[c]
          OBVIOUS
        <5>1. toolUseIdByBlockIndex'[c] = j
          BY <2>2, <2>7, <4>2
        <5>2. j \in ToolIds /\ Known(j) /\ blockIndexMap[j] = c
          BY <2>7, <3>1, <5>1 DEF FInv, BlockInv
        <5>3. Known(j)'
          BY <2>9, <5>2
        <5> QED
          BY <2>3, <5>1, <5>2, <5>3 DEF Known
      <4> QED
        BY <4>1, <4>2
    <3>2. ASSUME NEW j \in ToolIds \ {NoToolId}, blockIndexMap'[j] # Unassigned
          PROVE  toolUseIdByBlockIndex'[blockIndexMap'[j]] = j \/ Starting(queue', j)
      <4>1. CASE j = id
        BY <2>1, <2>2, <2>3, <2>7, <4>1
      <4>2. CASE j # id
        <5>1. blockIndexMap[j] # b
          BY <2>1, <4>2 DEF FInv, ParserInv, LifecycleInv, DistinctBlocks
        <5>2. toolUseIdByBlockIndex[blockIndexMap[j]] = j \/ Starting(queue', j)
          BY <2>3, <2>4, <3>2, <4>2 DEF FInv, BlockInv
        <5>3. blockIndexMap[j] \in Index
          BY BlocksInRange DEF FInv, ParserInv, InRange
        <5> QED
          BY <2>2, <2>3, <2>7, <5>1, <5>2, <5>3
      <4> QED
        BY <4>1, <4>2
    <3>3. toolUseIdByBlockIndex' \in [Index -> ToolIds \cup {NoToolId}]
      BY <2>1, <2>2, <2>7
    <3> QED
      BY <3>1, <3>2, <3>3 DEF BlockInv, Known
  <2>12. QueueInv'
    <3>1. ASSUME NEW j \in ToolIds PROVE Got(j)' = Got(j)
      <4>1. CASE Known(id)
        BY <2>2, <2>5, <2>7, <4>1 DEF Got, Known
      <4>2. CASE ~Known(id) /\ j = id
        BY <2>5, <2>7, <2>9, <4>2 DEF Got, Known
      <4>3. CASE ~Known(id) /\ j # id
        <5>1. openai'.calls = Append(openai.calls, [id |-> id, json |-> <<>>])
          BY <2>5, <4>3
        <5>2. \A k \in DOMAIN openai.calls : openai'.calls[k] = openai.calls[k]
          BY <2>7, <5>1
        <5>3. /\ Known(j)' <=> Known(j)
              /\ toolIndexByToolUseId'[j] = toolIndexByToolUseId[j]
          BY <2>9, <4>3
        <5>4. Known(j) => toolIndexByToolUseId[j] + 1 \in DOMAIN openai.calls
          BY DEF FInv, IndexInv
        <5> QED
          BY <5>2, <5>3, <5>4 DEF Got, Known
      <4> QED
        BY <4>1, <4>2, <4>3
    <3>2. ASSUME NEW j \in ToolIds \ {NoToolId}
          PROVE  sent'[j] = Got(j)' \o Pending(queue', blockIndexMap'[j])
      <4>1. sent[j] = Got(j) \o Pending(queue, blockIndexMap[j])
        BY DEF FInv, QueueInv
      <4> QED
        BY <2>3, <2>4, <3>1, <4>1
    <3> QED
      BY <2>3, <3>2 DEF QueueInv
  <2> QED
    BY <2>3, <2>6, <2>10, <2>11, <2>12 DEF FInv
<1> QED
  BY <1>2, <1>3

LEMMA ProcessArgumentsKeeps == FInv /\ ProcessArguments => FInv'
<1> SUFFICES ASSUME FInv, ProcessArguments PROVE FInv'
  OBVIOUS
<1> PICK h : h = Head(queue)
  OBVIOUS
<1>1. queue # <<>> /\ Processed /\ IsDelta(h) /\ ~IsStart(h)
  BY DEF ProcessArguments, IsNext, IsDelta, IsStart
<1> PICK b : b = h.event.index
  OBVIOUS
<1> PICK json : json = h.json
  OBVIOUS
<1> PICK id : id = toolUseIdByBlockIndex[b]
  OBVIOUS
<1>2. /\ openai' = IF id = NoToolId THEN openai
                   ELSE ReadArguments(openai, toolIndexByToolUseId[id], json)
      /\ UNCHANGED <<toolIndexByToolUseId, toolUseIdByBlockIndex, nextToolIndex,
                     sawToolUse, inThinking>>
  BY DEF ProcessArguments, handlerVars
<1>3. /\ ParserInv' /\ ReadInv' /\ WellFormed(queue', blockIndexMap') /\ hasEvents'
      /\ queue' = Tail(queue) /\ UNCHANGED <<blockIndexMap, sent>>
      /\ ~openai.done /\ openai.finish = "none"
  <2>1. sawToolUse' \in BOOLEAN /\ inThinking' \in BOOLEAN
    BY <1>2, Zenon DEF FInv, ReadInv
  <2> QED
    BY <1>1, <1>2, <2>1, ProcessedFacts
\* The piece is the only event, and it is for the block of one tool.
<1>4. /\ WellFormed(queue, blockIndexMap) /\ h \in Item /\ h = queue[1]
      /\ Len(queue) = 1 /\ queue' = <<>> /\ DOMAIN queue = {1}
  <2>1. WellFormed(queue, blockIndexMap)
    BY DEF FInv, QueueInv
  <2>2. h \in Item /\ h = queue[1] /\ Len(queue) = 1 /\ Tail(queue) = <<>>
    BY <1>1, <2>1, TailFacts
  <2>3. DOMAIN queue = {1}
    BY <2>1, <2>2 DEF WellFormed
  <2> QED
    BY <1>3, <2>1, <2>2, <2>3
<1>5. b \in Index /\ json \in Json
  BY <1>4, PieceSeqsTyped DEF Item
<1>6. b # Unassigned /\ \E j \in ToolIds : b = blockIndexMap[j]
  BY <1>1, <1>4 DEF WellFormed
<1>7. \A c : /\ Pending(queue', c) = <<>>
             /\ Pending(queue, c) = IF c = b THEN json ELSE <<>>
  BY <1>1, <1>4 DEF Pending
<1>8. \A j : ~Starting(queue, j)
  BY <1>1, <1>4 DEF Starting
<1>9. /\ openai \in Client /\ openai.faults = {} /\ openai.thinking = inThinking
      /\ openai.calls \in Seq(Call)
  BY DEF FInv, ClientInv, Client
<1>10. \A j \in ToolIds \ {NoToolId} : blockIndexMap[j] = b <=> j = id
  <2>1. \A j \in ToolIds \ {NoToolId} : blockIndexMap[j] = b => j = id
    BY <1>6, <1>8 DEF FInv, BlockInv
  <2>2. id # NoToolId => blockIndexMap[id] = b
    BY <1>5 DEF FInv, BlockInv
  <2> QED
    BY <2>1, <2>2
<1>11. CASE id = NoToolId
  <2>1. openai' = openai
    BY <1>2, <1>11
  <2>2. ClientInv'
    BY <1>2, <1>3, <2>1, <1>9 DEF ClientInv
  <2>3. IndexInv'
    BY <1>2, <1>3, <2>1 DEF FInv, IndexInv, Known
  <2>4. BlockInv'
    BY <1>2, <1>3, <1>8, <2>1 DEF FInv, BlockInv, Known
  <2>5. QueueInv'
    <3>1. ASSUME NEW j \in ToolIds \ {NoToolId}
          PROVE  sent'[j] = Got(j)' \o Pending(queue', blockIndexMap'[j])
      <4>1. Pending(queue, blockIndexMap[j]) = <<>>
        BY <1>7, <1>10, <1>11
      <4>2. sent[j] = Got(j) \o Pending(queue, blockIndexMap[j])
        BY DEF FInv, QueueInv
      <4>3. Got(j)' = Got(j)
        BY <1>2, <2>1 DEF Got, Known
      <4> QED
        BY <1>3, <1>7, <4>1, <4>2, <4>3
    <3> QED
      BY <1>3, <3>1 DEF QueueInv
  <2> QED
    BY <1>3, <2>2, <2>3, <2>4, <2>5 DEF FInv
<1>12. CASE id # NoToolId
  <2> PICK i : i = toolIndexByToolUseId[id]
    OBVIOUS
  <2>1. id \in ToolIds \ {NoToolId} /\ Known(id)
    BY <1>5, <1>12 DEF FInv, BlockInv
  <2>2. i \in Nat /\ i + 1 \in DOMAIN openai.calls /\ openai.calls[i + 1].id = id
    BY <2>1 DEF FInv, IndexInv, Known
  <2>3. openai' = ReadArguments(openai, i, json)
    BY <1>2, <1>12
  <2>4. /\ openai' \in Client /\ openai'.faults = openai.faults
        /\ openai'.thinking = openai.thinking
        /\ openai'.finish = openai.finish /\ openai'.done = openai.done
        /\ Len(openai'.calls) = Len(openai.calls)
        /\ \A k \in DOMAIN openai.calls : openai'.calls[k].id = openai.calls[k].id
        /\ \A k \in DOMAIN openai.calls \ {i + 1} : openai'.calls[k] = openai.calls[k]
        /\ openai'.calls[i + 1].json = openai.calls[i + 1].json \o json
    <3>1. ArgumentsAdded(openai, openai', i, json)
      BY <1>5, <1>9, <2>2, <2>3, ArgumentsRead
    <3> QED
      BY <3>1 DEF ArgumentsAdded
  <2>5. /\ openai'.calls \in Seq(Call) /\ DOMAIN openai'.calls = DOMAIN openai.calls
        /\ (openai'.calls # <<>> <=> openai.calls # <<>>)
    <3>1. openai'.calls \in Seq(Call)
      BY <2>4 DEF Client
    <3>2. Len(openai'.calls) = Len(openai.calls)
      BY <2>4
    <3>3. \A s \in Seq(Call) : DOMAIN s = 1 .. Len(s) /\ (s # <<>> <=> Len(s) # 0)
      OBVIOUS
    <3> QED
      BY <1>9, <3>1, <3>2, <3>3
  <2>6. ClientInv'
    BY <1>2, <1>3, <1>9, <2>4 DEF ClientInv
  <2>7. IndexInv'
    <3>1. nextToolIndex = Len(openai.calls) /\ (sawToolUse <=> openai.calls # <<>>)
      BY DEF FInv, IndexInv
    <3>2. nextToolIndex' = Len(openai'.calls) /\ (sawToolUse' <=> openai'.calls # <<>>)
      BY <1>2, <2>4, <2>5, <3>1
    <3>3. ASSUME NEW k \in DOMAIN openai'.calls
          PROVE  toolIndexByToolUseId'[openai'.calls[k].id] = k - 1
      <4>1. k \in DOMAIN openai.calls /\ openai'.calls[k].id = openai.calls[k].id
        BY <2>4, <2>5
      <4>2. toolIndexByToolUseId[openai.calls[k].id] = k - 1
        BY <4>1 DEF FInv, IndexInv
      <4> QED
        BY <1>2, <4>1, <4>2
    <3>4. ASSUME NEW j \in ToolIds, Known(j)'
          PROVE  /\ toolIndexByToolUseId'[j] + 1 \in DOMAIN openai'.calls
                 /\ openai'.calls[toolIndexByToolUseId'[j] + 1].id = j
                 /\ blockIndexMap'[j] # Unassigned
      BY <1>2, <1>3, <2>4, <2>5, <3>4 DEF FInv, IndexInv, Known
    <3>5. toolIndexByToolUseId' \in [ToolIds -> Nat \cup {NoIndex}]
      BY <1>2 DEF FInv, IndexInv
    <3> QED
      BY <3>2, <3>3, <3>4, <3>5 DEF IndexInv
  <2>8. BlockInv'
    BY <1>2, <1>3, <1>8 DEF FInv, BlockInv, Known
  <2>9. QueueInv'
    <3>1. ASSUME NEW j \in ToolIds \ {NoToolId}
          PROVE  sent'[j] = Got(j)' \o Pending(queue', blockIndexMap'[j])
      <4>1. sent[j] = Got(j) \o Pending(queue, blockIndexMap[j])
        BY DEF FInv, QueueInv
      <4>2. CASE j = id
        <5>1. Pending(queue, blockIndexMap[j]) = json
          BY <1>7, <1>10, <4>2
        <5>2. Got(j) = openai.calls[i + 1].json /\ Got(j)' = openai'.calls[i + 1].json
          BY <1>2, <2>1, <4>2 DEF Got, Known
        <5>3. sent'[j] = Got(j)'
          BY <1>3, <2>4, <4>1, <5>1, <5>2
        <5>4. Got(j)' \in Json
          <6>1. openai.calls[i + 1].json \in Json
            BY <5>2, GotTyped
          <6>2. Got(j)' = openai.calls[i + 1].json \o json
            BY <2>4, <5>2
          <6>3. \A u \in Json, v \in Json : u \o v \in Json
            BY JsonFacts
          <6> QED
            BY <1>5, <6>1, <6>2, <6>3, Zenon
        <5> QED
          BY <1>7, <5>3, <5>4, WholeFacts
      <4>3. CASE j # id
        <5>1. Pending(queue, blockIndexMap[j]) = <<>>
          BY <1>7, <1>10, <4>3
        <5>2. Got(j)' = Got(j)
          <6>1. Known(j) => /\ toolIndexByToolUseId[j] + 1 \in DOMAIN openai.calls
                            /\ toolIndexByToolUseId[j] + 1 # i + 1
            BY <2>2, <4>3 DEF FInv, IndexInv
          <6> QED
            BY <1>2, <2>4, <6>1 DEF Got, Known
        <5> QED
          BY <1>3, <1>7, <4>1, <5>1, <5>2
      <4> QED
        BY <4>2, <4>3
    <3> QED
      BY <1>3, <3>1 DEF QueueInv
  <2> QED
    BY <1>3, <2>6, <2>7, <2>8, <2>9 DEF FInv
<1> QED
  BY <1>11, <1>12

-----------------------------------------------------------------------------
\* The end of the answer.
LEMMA FinishKeeps == FInv /\ Finish => FInv'
<1> SUFFICES ASSUME FInv, Finish PROVE FInv'
  OBVIOUS
<1> DEFINE reason == IF sawToolUse THEN "tool_calls" ELSE "stop"
           c == CloseTag(openai)
           d == IF hasEvents THEN ReadFinish(c, reason) ELSE openai
<1>1. /\ ~hasMoreData /\ queue = <<>> /\ ~openai.done
      /\ openai' = [d EXCEPT !.done = TRUE]
      /\ inThinking' = (inThinking /\ ~hasEvents)
      /\ UNCHANGED <<argVars, queue, hasEvents, consecutiveErrors, hasMoreData>>
      /\ UNCHANGED <<toolIndexByToolUseId, toolUseIdByBlockIndex, nextToolIndex, sawToolUse>>
  BY DEF Finish, readVars
<1>2. /\ openai \in Client /\ openai.faults = {} /\ openai.thinking = inThinking
      /\ openai.finish = "none" /\ inThinking \in BOOLEAN /\ hasEvents \in BOOLEAN
  BY <1>1 DEF FInv, ClientInv, ReadInv
<1>3. Content(openai)
  BY <1>1, <1>2 DEF Content
<1>4. Content(c) /\ ~c.thinking
  <2>1. CASE inThinking
    <3>1. openai.thinking /\ c = ReadContent(openai, "close")
      BY <1>2, <2>1 DEF CloseTag
    <3> QED
      BY <1>3, <3>1, InsideRead
  <2>2. CASE ~inThinking
    <3>1. c = openai
      BY <2>2 DEF CloseTag
    <3> QED
      BY <1>2, <1>3, <2>2, <3>1
  <2> QED
    BY <2>1, <2>2
<1> HIDE DEF c
<1>5. /\ d \in Client /\ d.faults = {} /\ d.calls = openai.calls
      /\ hasEvents => ~d.thinking /\ d.finish = reason
      /\ ~hasEvents => d = openai
  <2>1. CASE hasEvents
    <3>1. reason \in {"stop", "tool_calls"}
      OBVIOUS
    <3>2. d = ReadFinish(c, reason)
      BY <2>1
    <3> HIDE DEF d, reason
    <3> QED
      BY <1>4, <2>1, <3>1, <3>2, FinishRead DEF Content
  <2>2. CASE ~hasEvents
    BY <1>2, <2>2
  <2> QED
    BY <2>1, <2>2
<1> HIDE DEF d
<1>6. /\ openai' \in Client /\ openai'.done /\ openai'.faults = {}
      /\ openai'.calls = openai.calls
      /\ openai'.thinking = d.thinking /\ openai'.finish = d.finish
  BY <1>1, <1>5, DoneChanged
<1>7. openai'.thinking = inThinking'
  <2>1. CASE hasEvents
    <3>1. openai'.thinking \in BOOLEAN /\ ~openai'.thinking
      BY <1>5, <1>6, <2>1 DEF Client
    <3> QED
      BY <1>1, <2>1, <3>1, Zenon
  <2>2. CASE ~hasEvents
    BY <1>1, <1>2, <1>5, <1>6, <2>2, Zenon
  <2> QED
    BY <2>1, <2>2
<1>8. ClientInv'
  <2>1. hasEvents' => openai'.finish = IF sawToolUse' THEN "tool_calls" ELSE "stop"
    BY <1>1, <1>5, <1>6
  <2> QED
    BY <1>1, <1>6, <1>7, <2>1 DEF ClientInv
<1>9. ParserInv'
  <2>1. ArgInv' /\ LifecycleInv' /\ Counted'
    BY <1>1, ParserStep DEF FInv
  <2>2. Ended'
    BY <1>1 DEF FInv, ParserInv, Ended, argVars, toolVars
  <2> QED
    BY <2>1, <2>2 DEF ParserInv
<1>10. ReadInv'
  <2>1. (inThinking /\ ~hasEvents) \in BOOLEAN
    OBVIOUS
  <2>2. inThinking' \in BOOLEAN
    BY <1>1, <2>1, Zenon
  <2> QED
    BY <1>1, <2>2, Zenon DEF FInv, ReadInv, maxConsecutiveErrors
<1>11. blockIndexMap' = blockIndexMap /\ sent' = sent
  BY <1>1 DEF argVars, toolVars
<1>12. IndexInv'
  BY <1>1, <1>6, <1>11 DEF FInv, IndexInv, Known
<1>13. BlockInv'
  BY <1>1, <1>11 DEF FInv, BlockInv, Known
<1>14. QueueInv'
  BY <1>1, <1>6, <1>11 DEF FInv, QueueInv, Known, Got
<1> QED
  BY <1>8, <1>9, <1>10, <1>12, <1>13, <1>14 DEF FInv

LEMMA FormatsStep == FInv /\ [FormatsNext]_formatVars => FInv'
<1> SUFFICES ASSUME FInv, [FormatsNext]_formatVars PROVE FInv'
  OBVIOUS
<1>1. CASE \E id \in ToolIds : ReceiveToolMessage(id)
  BY <1>1, ToolMessageKeeps
<1>2. CASE Process
  BY <1>2, ProcessTextKeeps, ProcessThoughtKeeps, ProcessToolStartKeeps,
     ProcessArgumentsKeeps, ProcessOtherKeeps DEF Process
<1>3. CASE UNCHANGED formatVars
  <2>1. /\ UNCHANGED <<argVars, queue, hasEvents, consecutiveErrors, hasMoreData, openai>>
        /\ UNCHANGED <<toolIndexByToolUseId, toolUseIdByBlockIndex, nextToolIndex,
                       sawToolUse, inThinking>>
        /\ UNCHANGED <<blockIndexMap, sent>>
    BY <1>3 DEF formatVars, handlerVars, readVars, argVars, toolVars
  <2>2. ParserInv'
    <3>1. ArgInv' /\ LifecycleInv' /\ Counted'
      BY <2>1, ParserStep DEF FInv
    <3>2. Ended'
      BY <2>1 DEF FInv, ParserInv, Ended, argVars, toolVars
    <3> QED
      BY <3>1, <3>2 DEF ParserInv
  <2>3. ReadInv'
    BY <2>1, Zenon DEF FInv, ReadInv, maxConsecutiveErrors
  <2>4. ClientInv'
    BY <2>1 DEF FInv, ClientInv
  <2>5. IndexInv' /\ BlockInv'
    BY <2>1 DEF FInv, IndexInv, BlockInv, Known
  <2>6. QueueInv'
    BY <2>1 DEF FInv, QueueInv, Known, Got
  <2> QED
    BY <2>2, <2>3, <2>4, <2>5, <2>6 DEF FInv
<1> QED
  BY <1>1, <1>2, <1>3, TextKeeps, ThoughtKeeps, ReadErrorKeeps, EndOfBodyKeeps,
     FinishKeeps DEF FormatsNext

-----------------------------------------------------------------------------
(* What follows from the invariant.                                         *)
LEMMA FaultlessFollows == FInv => OpenAIFaultless
  BY DEF FInv, ClientInv, OpenAIFaultless

\* Each call of the client is the one that is noted for its id.
LEMMA CallsAreKnown ==
    ASSUME FInv, NEW k \in DOMAIN openai.calls
    PROVE  /\ openai.calls[k].id \in ToolIds \ {NoToolId}
           /\ Known(openai.calls[k].id)
           /\ Got(openai.calls[k].id) = openai.calls[k].json
<1>1. openai.calls \in Seq(Call)
  BY DEF FInv, ClientInv, Client
<1>2. k \in Nat \ {0} /\ openai.calls[k] \in Call
  BY <1>1
<1>3. toolIndexByToolUseId[openai.calls[k].id] = k - 1
  BY DEF FInv, IndexInv
<1>4. k - 1 # NoIndex /\ k - 1 + 1 = k
  BY <1>2 DEF NoIndex
<1> QED
  BY <1>2, <1>3, <1>4 DEF Call, Known, Got

LEMMA ArgumentsFollow == FInv => OpenAIArguments
<1> SUFFICES ASSUME FInv, queue = <<>>, NEW k \in DOMAIN openai.calls
             PROVE  openai.calls[k].json = sent[openai.calls[k].id]
  BY DEF OpenAIArguments
<1> PICK id : id = openai.calls[k].id
  OBVIOUS
<1>1. id \in ToolIds \ {NoToolId} /\ Got(id) = openai.calls[k].json
  BY CallsAreKnown
<1>2. sent[id] = Got(id) \o Pending(queue, blockIndexMap[id])
  BY <1>1 DEF FInv, QueueInv
<1>3. Pending(queue, blockIndexMap[id]) = <<>>
  BY NoEvents
<1>4. Got(id) \o <<>> = Got(id)
  BY <1>1, GotTyped, WholeFacts
<1> QED
  BY <1>1, <1>2, <1>3, <1>4, Zenon

LEMMA TypesFollow == FInv => FormatsTypeOK
<1> SUFFICES ASSUME FInv PROVE FormatsTypeOK
  OBVIOUS
<1>1. TypeOK
  BY InvTyped DEF FInv, ParserInv
<1>2. ASSUME NEW k \in DOMAIN queue
      PROVE  /\ queue[k].event.index \in Index
             /\ queue[k].event.id \in ToolIds \cup {NoToolId}
             /\ queue[k].json \in PieceSeqs
  <2>1. queue[k] \in Item
    BY DEF FInv, QueueInv, WellFormed
  <2> QED
    BY <2>1 DEF Item
<1>3. \A s \in Seq(Call) : s \in Seq([id: ToolIds, json: Seq(1 .. Pieces)])
  <2> DEFINE T == [id: ToolIds, json: Seq(1 .. Pieces)]
  <2>1. Call \subseteq T
    BY DEF Call, Json
  <2> HIDE DEF T
  <2>2. ASSUME NEW s \in Seq(Call) PROVE s \in Seq(T)
    <3>1. Len(s) \in Nat /\ s \in [1 .. Len(s) -> Call]
      OBVIOUS
    <3>2. s \in [1 .. Len(s) -> T]
      BY <2>1, <3>1
    <3> QED
      BY <3>1, <3>2
  <2> QED
    BY <2>2 DEF T
<1>4. openai.calls \in Seq(Call) /\ openai.calls \in Seq([id: ToolIds, json: Seq(1 .. Pieces)])
  BY <1>3 DEF FInv, ClientInv, Client
<1>5. openai \in [calls: Seq([id: ToolIds, json: Seq(1 .. Pieces)]), thinking: BOOLEAN,
                  finish: {"none", "stop", "tool_calls"}, done: BOOLEAN,
                  faults: SUBSET {"text", "open", "thought", "close", "call",
                                  "arguments", "finish"}]
  BY <1>4, Zenon DEF FInv, ClientInv, Client, Faults
<1>6. nextToolIndex \in Nat
  BY <1>4 DEF FInv, IndexInv
<1>7. /\ toolIndexByToolUseId \in [ToolIds -> Nat \cup {NoIndex}]
      /\ toolUseIdByBlockIndex \in [Index -> ToolIds \cup {NoToolId}]
  BY DEF FInv, IndexInv, BlockInv
<1>8. /\ sawToolUse \in BOOLEAN /\ inThinking \in BOOLEAN /\ hasEvents \in BOOLEAN
      /\ consecutiveErrors \in 0 .. maxConsecutiveErrors /\ hasMoreData \in BOOLEAN
  BY Zenon DEF FInv, ReadInv
<1> QED
  BY <1>1, <1>2, <1>5, <1>6, <1>7, <1>8, Zenon DEF FormatsTypeOK

LEMMA AgreementFollows == ~ObjectThenStop /\ FInv => FormatsAgree
<1> DEFINE called == {openai.calls[k].id : k \in DOMAIN openai.calls}
           registered == activeTools \cup completedTools
<1> SUFFICES ASSUME ~ObjectThenStop, FInv, openai.done
             PROVE  /\ \A id \in activeTools \cap completedTools : upstream[id].times > 1
                    /\ called = {tool[2] : tool \in AllTools} \ {NoToolId}
                    /\ NoToolId \notin registered /\ hasEvents =>
                          /\ openai.finish = WholeFinishReason
                          /\ openai.finish = "tool_calls" <=> WholeStopReason = "tool_use"
                    /\ \A k \in DOMAIN openai.calls :
                          LET id == openai.calls[k].id IN
                          upstream[id].times = 1 /\ upstream[id].end \in {"stop", "once"}
                              => Parsed(openai.calls[k].json) = arguments[id]
  BY DEF FormatsAgree
<1>1. queue = <<>>
  BY DEF FInv, ClientInv
<1>2. registered \subseteq ToolIds
  BY DEF FInv, ParserInv, LifecycleInv, ToolTypeOK
<1>3. \A id \in activeTools \cap completedTools : upstream[id].times > 1
  BY DEF FInv, ParserInv, Ended
<1>4. {tool[2] : tool \in AllTools} = registered /\ (AllTools # {} <=> registered # {})
  <2>1. \A id \in activeTools : <<"active", id>> \in AllTools /\ <<"active", id>>[2] = id
    BY DEF AllTools
  <2>2. \A id \in completedTools : /\ <<"completed", id>> \in AllTools
                                   /\ <<"completed", id>>[2] = id
    BY DEF AllTools
  <2>3. \A tool \in AllTools : tool[2] \in registered
    BY DEF AllTools
  <2> QED
    BY <2>1, <2>2, <2>3
<1>5. called = registered \ {NoToolId}
  <2>1. ASSUME NEW id \in called PROVE id \in registered \ {NoToolId}
    <3>1. id \in ToolIds \ {NoToolId} /\ Known(id)
      BY <2>1, CallsAreKnown
    <3>2. blockIndexMap[id] # Unassigned
      BY <3>1 DEF FInv, IndexInv
    <3> QED
      BY <3>1, <3>2 DEF FInv, ParserInv, LifecycleInv, RegisteredHaveBlocks
  <2>2. ASSUME NEW id \in registered \ {NoToolId} PROVE id \in called
    <3>1. id \in ToolIds \ {NoToolId}
      BY <1>2
    <3> PICK b : b = blockIndexMap[id]
      OBVIOUS
    <3>2. b # Unassigned
      BY <2>2, <3>1 DEF FInv, ParserInv, LifecycleInv, RegisteredHaveBlocks
    <3>3. b \in Index
      BY <3>1, BlocksInRange DEF FInv, ParserInv, InRange
    <3>4. ~Starting(queue, id)
      BY <1>1 DEF Starting
    <3>5. toolUseIdByBlockIndex[b] = id
      BY <3>1, <3>2, <3>4 DEF FInv, BlockInv
    <3>6. Known(id)
      BY <3>1, <3>3, <3>5 DEF FInv, BlockInv
    <3>7. /\ toolIndexByToolUseId[id] + 1 \in DOMAIN openai.calls
          /\ openai.calls[toolIndexByToolUseId[id] + 1].id = id
      BY <3>1, <3>6 DEF FInv, IndexInv
    <3> QED
      BY <3>7
  <2> QED
    BY <2>1, <2>2
<1>6. ASSUME NoToolId \notin registered, hasEvents
      PROVE  /\ openai.finish = WholeFinishReason
             /\ openai.finish = "tool_calls" <=> WholeStopReason = "tool_use"
  <2>1. openai.finish = IF sawToolUse THEN "tool_calls" ELSE "stop"
    BY <1>6 DEF FInv, ClientInv
  <2>2. sawToolUse <=> openai.calls # <<>>
    BY DEF FInv, IndexInv
  <2>3. openai.calls # <<>> <=> called # {}
    <3>1. openai.calls \in Seq(Call)
      BY DEF FInv, ClientInv, Client
    <3>2. \A s \in Seq(Call) : s # <<>> => 1 \in DOMAIN s
      OBVIOUS
    <3>3. openai.calls # <<>> <=> DOMAIN openai.calls # {}
      BY <3>1, <3>2
    <3> QED
      BY <3>3
  <2>4. called # {} <=> AllTools # {}
    BY <1>4, <1>5, <1>6
  <2> QED
    BY <2>1, <2>2, <2>3, <2>4 DEF WholeFinishReason, WholeStopReason
<1>7. ASSUME NEW k \in DOMAIN openai.calls, NEW id, id = openai.calls[k].id,
             upstream[id].times = 1, upstream[id].end \in {"stop", "once"}
      PROVE  Parsed(openai.calls[k].json) = arguments[id]
  <2>1. id \in ToolIds \ {NoToolId}
    BY <1>7, CallsAreKnown
  <2>2. openai.calls[k].json = sent[id]
    BY <1>1, <1>7, ArgumentsFollow DEF OpenAIArguments
  <2>3. Parsed(sent[id]) = arguments[id]
    BY <1>7, <2>1 DEF FInv, ParserInv, ArgInv, CallInv, CleanInv, Done
  <2> QED
    BY <2>2, <2>3
<1> QED
  BY <1>3, <1>4, <1>5, <1>6, <1>7

-----------------------------------------------------------------------------
(* The theorems.                                                            *)
LEMMA FormatsInvariant == FormatsSpec => []FInv
<1>1. FormatsInit => FInv
  BY FormatsInitInv
<1>2. FInv /\ [FormatsNext]_formatVars => FInv'
  BY FormatsStep
<1> QED
  BY <1>1, <1>2, PTL DEF FormatsSpec

\* The state of the handler and of the OpenAI client stays well-typed, and a
\* block of the parser is always within the range of the table, however many
\* calls there are and in whatever order (openai_handlers.go:106-120, 290-346).
THEOREM FormatsTypeCorrect == FormatsSpec => []FormatsTypeOK
  BY FormatsInvariant, TypesFollow, PTL

\* The OpenAI client is never sent what it cannot assemble
\* (openai_handlers.go:200-289, 370-377, 475-516).
THEOREM OpenAIFaultlessHolds == FormatsSpec => []OpenAIFaultless
  BY FormatsInvariant, FaultlessFollows, PTL

\* The calls of the OpenAI stream have, call by call, the arguments of the
\* Claude stream (openai_handlers.go:290-346).
THEOREM OpenAIArgumentsHolds == FormatsSpec => []OpenAIArguments
  BY FormatsInvariant, ArgumentsFollow, PTL

\* An upstream that does not send a whole object and its stop apart gets the
\* same answer to a client whichever of the formats it asks for, except that an
\* id it used again may be listed twice (openai_handlers.go:44-63, 370, 496-499, handlers.go:284-299).
THEOREM FormatsAgreeHolds == ~ObjectThenStop => (FormatsSpec => []FormatsAgree)
<1> SUFFICES ASSUME ~ObjectThenStop PROVE FormatsSpec => []FormatsAgree
  OBVIOUS
<1>1. FInv => FormatsAgree
  BY AgreementFollows
<1> QED
  BY <1>1, FormatsInvariant, PTL

\* With the handler after it the parser does nothing it would not do alone,
\* so every theorem about ToolArguments and, by ArgumentsImplementLifecycle,
\* about ToolLifecycle holds of the composition.
THEOREM FormatsImplementArguments == FormatsSpec => Spec
<1>1. FormatsInit => Init
  BY DEF FormatsInit
<1>2. [FormatsNext]_formatVars => [Next]_argVars
  <2>1. CASE \E id \in ToolIds : ReceiveToolMessage(id)
    BY <2>1, MessageIsStep
  <2>2. CASE Process
    BY <2>2 DEF Process, ProcessText, ProcessThought, ProcessToolStart, ProcessArguments,
               ProcessOther, Processed
  <2>3. CASE ReceiveText \/ ReceiveThought \/ ReadError \/ EndOfBody \/ Finish
    <3>1. CASE ReceiveText \/ ReceiveThought
      BY <3>1 DEF ReceiveText, ReceiveThought
    <3>2. CASE ReadError \/ EndOfBody
      BY <3>2 DEF ReadError, EndOfBody
    <3>3. CASE Finish
      <4>1. UNCHANGED argVars
        BY <3>3, Zenon DEF Finish
      <4> QED
        BY <4>1
    <3> QED
      BY <2>3, <3>1, <3>2, <3>3
  <2>4. CASE UNCHANGED formatVars
    BY <2>4 DEF formatVars
  <2> QED
    BY <2>1, <2>2, <2>3, <2>4 DEF FormatsNext
<1> QED
  BY <1>1, <1>2, PTL DEF FormatsSpec, Spec
=============================================================================
