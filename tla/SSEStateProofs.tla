--------------------------- MODULE SSEStateProofs ---------------------------
(***************************************************************************)
(* What SSEState promises for every number of block indices, in both       *)
(* modes.                                                                  *)
(***************************************************************************)
EXTENDS SSEState, Integers, TLAPS

LEMMA InitType == Init => TypeOK
<1> SUFFICES ASSUME Init PROVE TypeOK
  OBVIOUS
<1>1. activeBlocks \in [Index -> BlockState]
  BY DEF Init, NoBlock, BlockState
<1>2. nextBlockIndex \in 0 .. MaxIndex + 1
  BY MaxIndexAssumption DEF Init
<1>3. client \in ClientType
  BY DEF Init, NewClient, ClientType, BlockView
<1> QED
  BY <1>1, <1>2, <1>3 DEF Init, TypeOK

\* Every Receive operator returns a client.
LEMMA ReceiveType ==
    ASSUME NEW c \in ClientType
    PROVE  /\ ReceiveMessageStart(c) \in ClientType
           /\ \A i \in Index, t \in BlockTypes : ReceiveBlockStart(c, i, t) \in ClientType
           /\ \A i \in Index, d \in DeltaTypes : ReceiveBlockDelta(c, i, d) \in ClientType
           /\ \A S \in SUBSET Index : ReceiveBlockStops(c, S) \in ClientType
           /\ ReceiveMessageDelta(c) \in ClientType
           /\ ReceiveMessageStop(c) \in ClientType
<1> USE DEF ClientType, BlockView, Faults
<1>0. BlockEventFaults(c) \subseteq Faults
  BY DEF BlockEventFaults
<1>1. ReceiveMessageStart(c) \in ClientType
  BY DEF ReceiveMessageStart
<1>2. ASSUME NEW i \in Index, NEW t \in BlockTypes
      PROVE  ReceiveBlockStart(c, i, t) \in ClientType
  BY <1>0 DEF ReceiveBlockStart
<1>3. ASSUME NEW i \in Index, NEW d \in DeltaTypes
      PROVE  ReceiveBlockDelta(c, i, d) \in ClientType
  BY <1>0 DEF ReceiveBlockDelta
<1>4. ASSUME NEW S \in SUBSET Index
      PROVE  ReceiveBlockStops(c, S) \in ClientType
  BY <1>0 DEF ReceiveBlockStops
<1>5. ReceiveMessageDelta(c) \in ClientType
  BY DEF ReceiveMessageDelta
<1>6. ReceiveMessageStop(c) \in ClientType
  BY DEF ReceiveMessageStop
<1> QED
  BY <1>1, <1>2, <1>3, <1>4, <1>5, <1>6

\* The helpers of the handlers, by what they return.
LEMMA HelperType ==
    ASSUME TypeOK
    PROVE  /\ Unclosed \subseteq Index
           /\ UnclosedText \subseteq Unclosed
           /\ \A t : ClosedByStart(t) \subseteq Unclosed
           /\ ClosedByMessageDelta \subseteq Unclosed
           /\ \A S \in SUBSET Index : Stopped(S) \in [Index -> BlockState]
           /\ \A d \in DeltaTypes : InferredType(d) \in BlockTypes
<1>1. Unclosed \subseteq Index /\ UnclosedText \subseteq Unclosed
  BY DEF Unclosed, UnclosedText
<1>2. ASSUME NEW S \in SUBSET Index
      PROVE  Stopped(S) \in [Index -> BlockState]
  BY DEF Stopped, TypeOK, BlockState
<1>3. \A d \in DeltaTypes : InferredType(d) \in BlockTypes
  BY DEF InferredType, DeltaTypes, BlockTypes
<1> QED
  BY <1>1, <1>2, <1>3 DEF ClosedByStart, ClosedByMessageDelta

LEMMA AcceptStartType ==
    ASSUME TypeOK, NEW i \in Index, NEW t \in BlockTypes, AcceptStart(i, t)
    PROVE  /\ activeBlocks' \in [Index -> BlockState]
           /\ nextBlockIndex' \in 0 .. MaxIndex + 1
           /\ UNCHANGED <<messageStarted, messageDeltaSent, messageEnded>>
           /\ ClientAfterStart(i, t) \in ClientType
<1>1. ClosedByStart(t) \in SUBSET Index
  BY HelperType
<1>2. Stopped(ClosedByStart(t)) \in [Index -> BlockState]
  BY <1>1, HelperType
<1>3. activeBlocks' \in [Index -> BlockState]
  BY <1>2 DEF AcceptStart, BlockState
<1>4. nextBlockIndex' \in 0 .. MaxIndex + 1
  BY MaxIndexAssumption DEF AcceptStart, TypeOK, Index
<1>5. ReceiveBlockStops(client, ClosedByStart(t)) \in ClientType
  BY <1>1, ReceiveType DEF TypeOK
<1>6. ClientAfterStart(i, t) \in ClientType
  BY <1>5, ReceiveType DEF ClientAfterStart
<1> QED
  BY <1>3, <1>4, <1>6 DEF AcceptStart

\* A batch of stops, for any set of blocks: the end of a stream sends one for
\* everything that is open.
LEMMA StopBlocksType ==
    ASSUME TypeOK, NEW S \in SUBSET Index, StopBlocks(S)
    PROVE  TypeOK'
BY ReceiveType, HelperType DEF StopBlocks, TypeOK

LEMMA StepType == TypeOK /\ [Next]_ssmVars => TypeOK'
<1> SUFFICES ASSUME TypeOK, [Next]_ssmVars PROVE TypeOK'
  OBVIOUS
<1>1. ASSUME UNCHANGED ssmVars PROVE TypeOK'
  BY <1>1 DEF ssmVars, TypeOK
<1>2. CASE HandleMessageStart
  BY <1>1, <1>2, ReceiveType DEF HandleMessageStart, TypeOK
<1>3. ASSUME NEW i \in Index, NEW t \in BlockTypes, HandleContentBlockStart(i, t)
      PROVE  TypeOK'
  <2>1. CASE StartRefused(i)
    BY <1>1, <1>3, <2>1 DEF HandleContentBlockStart
  <2>2. CASE AcceptStart(i, t) /\ client' = ClientAfterStart(i, t)
    BY <2>2, AcceptStartType DEF TypeOK
  <2> QED
    BY <1>1, <1>3, <2>1, <2>2 DEF HandleContentBlockStart
<1>4. ASSUME NEW t \in BlockTypes, HandleContentBlockStartNoIndex(t)
      PROVE  TypeOK'
  BY <1>3, <1>4 DEF HandleContentBlockStartNoIndex
<1>5. ASSUME NEW i \in Index, NEW d \in DeltaTypes, HandleContentBlockDelta(i, d)
      PROVE  TypeOK'
  <2>1. ReceiveBlockDelta(client, i, d) \in ClientType
    BY ReceiveType DEF TypeOK
  <2>2. CASE AcceptStart(i, InferredType(d))
    <3>1. ClientAfterStart(i, InferredType(d)) \in ClientType
      BY <2>2, AcceptStartType, HelperType
    <3>2. ReceiveBlockDelta(ClientAfterStart(i, InferredType(d)), i, d) \in ClientType
      BY <3>1, ReceiveType
    <3> QED
      BY <1>1, <1>5, <2>1, <2>2, <3>2, AcceptStartType, HelperType
         DEF HandleContentBlockDelta, TypeOK
  <2>3. CASE ~AcceptStart(i, InferredType(d))
    BY <1>1, <1>5, <2>1, <2>3 DEF HandleContentBlockDelta, TypeOK
  <2> QED
    BY <2>2, <2>3
<1>6. ASSUME NEW S \in SUBSET Index, StopBlocks(S)
      PROVE  TypeOK'
  BY <1>6, StopBlocksType
<1>7. CASE HandleMessageDelta
  <2>1. ReceiveBlockStops(client, ClosedByMessageDelta) \in ClientType
    BY ReceiveType, HelperType DEF TypeOK
  <2>2. ReceiveMessageDelta(ReceiveBlockStops(client, ClosedByMessageDelta)) \in ClientType
    BY <2>1, ReceiveType
  <2> QED
    BY <1>1, <1>7, <2>2, HelperType DEF HandleMessageDelta, TypeOK
<1>8. CASE HandleMessageStop
  BY <1>1, <1>8, ReceiveType DEF HandleMessageStop, TypeOK
<1> QED
  BY <1>1, <1>2, <1>3, <1>4, <1>5, <1>6, <1>7, <1>8 DEF Next, HandleContentBlockStop

\* The manager's variables and the client's record keep their types, for
\* every number of block indices and in both modes.
THEOREM TypeCorrect == Spec => []TypeOK
  BY InitType, StepType, PTL DEF Spec

-----------------------------------------------------------------------------
\* The inductive invariant: the manager agrees with the client, and the
\* client has not yet seen one of the faults the handlers prevent.
IInv == TypeOK /\ Agreement /\ NeverRepeated /\ ClosedBeforeMessageDelta

\* Agreement makes the two notions of an open block the same set.
LEMMA OpenIsUnclosed ==
    ASSUME TypeOK, Agreement
    PROVE  /\ OpenAt(client) = Unclosed
           /\ \A i \in Index : IsOpen(client, i) <=> i \in Unclosed
           /\ \A i \in Index : ~Exists(i) => ~IsOpen(client, i)
<1>1. \A i \in Index : IsOpen(client, i) <=> i \in Unclosed
  BY DEF TypeOK, Agreement, ViewOf, IsOpen, Unclosed, Exists, BlockState, BlockTypes
<1> QED
  BY <1>1 DEF OpenAt, Unclosed

\* The effect of a batch of stops for open blocks on the client.
LEMMA StopsEffect ==
    ASSUME TypeOK, Agreement, NEW S \in SUBSET Unclosed,
           NEW c, c = ReceiveBlockStops(client, S)
    PROVE  /\ c.started = client.started
           /\ c.deltaSent = client.deltaSent
           /\ c.ended = client.ended
           /\ \A i \in Index : c.block[i] = ViewOf(Stopped(S)[i])
           /\ c.faults \subseteq client.faults \cup {"early", "late"}
           /\ client.faults \subseteq c.faults
<1>1. \A i \in Index : i \in S => IsOpen(client, i)
  BY OpenIsUnclosed
<1>2. c.faults \subseteq client.faults \cup {"early", "late"}
  BY <1>1 DEF ReceiveBlockStops, BlockEventFaults, TypeOK, ClientType, Unclosed
<1>3. ASSUME NEW i \in Index
      PROVE  c.block[i] = ViewOf(Stopped(S)[i])
  BY DEF ReceiveBlockStops, Stopped, ViewOf, Agreement, TypeOK, ClientType,
         BlockState, Unclosed, Exists
<1> QED
  BY <1>2, <1>3 DEF ReceiveBlockStops, TypeOK, ClientType

\* An accepted start, alone: agreement is kept and no prevented fault occurs.
LEMMA AcceptStartEffect ==
    ASSUME TypeOK, Agreement, NEW i \in Index, NEW t \in BlockTypes,
           ~StartRefused(i), AcceptStart(i, t),
           NEW c, c = ClientAfterStart(i, t)
    PROVE  /\ c.started = client.started
           /\ c.deltaSent = client.deltaSent
           /\ c.ended = client.ended
           /\ \A j \in Index : c.block[j] = ViewOf(activeBlocks'[j])
           /\ c.block[i] = t
           /\ c.faults \subseteq client.faults \cup {"early", "late"}
<1> DEFINE S == ClosedByStart(t)
           d == ReceiveBlockStops(client, S)
<1>1. S \in SUBSET Unclosed /\ S \in SUBSET Index
  BY HelperType
<1>2. /\ d.started = client.started
      /\ d.deltaSent = client.deltaSent
      /\ d.ended = client.ended
      /\ \A j \in Index : d.block[j] = ViewOf(Stopped(S)[j])
      /\ d.faults \subseteq client.faults \cup {"early", "late"}
  BY <1>1, StopsEffect
<1>3. d \in ClientType /\ Stopped(S) \in [Index -> BlockState]
  BY <1>1, ReceiveType, HelperType DEF TypeOK
<1>4. c = ReceiveBlockStart(d, i, t)
  BY DEF ClientAfterStart
<1>5. ~IsOpen(d, i)
  <2>1. ~IsOpen(client, i)
    BY OpenIsUnclosed DEF StartRefused
  <2> QED
    BY <2>1 DEF IsOpen, ReceiveBlockStops, TypeOK, ClientType, BlockTypes
<1>6. c.faults \subseteq client.faults \cup {"early", "late"}
  BY <1>2, <1>3, <1>4, <1>5 DEF ReceiveBlockStart, BlockEventFaults, ClientType
<1>7. c.block = [d.block EXCEPT ![i] = t]
  BY <1>3, <1>4 DEF ReceiveBlockStart, ClientType
<1>8. ASSUME NEW j \in Index
      PROVE  c.block[j] = ViewOf(activeBlocks'[j])
  <2>1. activeBlocks' = [Stopped(S) EXCEPT ![i] = [type |-> t, stopped |-> FALSE]]
    BY DEF AcceptStart
  <2>2. CASE j = i
    BY <1>3, <1>7, <2>1, <2>2 DEF ViewOf, BlockTypes, ClientType
  <2>3. CASE j # i
    BY <1>2, <1>3, <1>7, <2>1, <2>3 DEF ClientType
  <2> QED
    BY <2>2, <2>3
<1>9. c.started = d.started /\ c.deltaSent = d.deltaSent /\ c.ended = d.ended /\ c.block[i] = t
  BY <1>3, <1>4, <1>7 DEF ReceiveBlockStart, ClientType
<1> QED
  BY <1>2, <1>6, <1>8, <1>9

LEMMA InitInv == Init => IInv
<1>1. Init => Agreement
  <2>1. ViewOf(NoBlock) = "absent"
    BY DEF ViewOf, NoBlock
  <2>2. ASSUME Init, NEW i \in Index
        PROVE  client.block[i] = "absent" /\ activeBlocks[i] = NoBlock
    BY <2>2 DEF Init, NewClient
  <2>3. ASSUME Init
        PROVE  /\ client.started = messageStarted
               /\ client.deltaSent = messageDeltaSent
               /\ client.ended = messageEnded
    BY <2>3 DEF Init, NewClient
  <2> QED
    BY <2>1, <2>2, <2>3 DEF Agreement
<1>2. Init => NeverRepeated /\ ClosedBeforeMessageDelta
  BY DEF Init, NewClient, NeverRepeated, ClosedBeforeMessageDelta
<1> QED
  BY <1>1, <1>2, InitType DEF IInv

LEMMA StopBlocksInv ==
    ASSUME IInv, NEW S \in SUBSET Index, StopBlocks(S)
    PROVE  IInv'
<1>1. S \cap Unclosed \in SUBSET Unclosed
  OBVIOUS
<1>2. /\ client' = ReceiveBlockStops(client, S \cap Unclosed)
      /\ activeBlocks' = Stopped(S \cap Unclosed)
      /\ UNCHANGED <<messageStarted, messageDeltaSent, messageEnded>>
  BY DEF StopBlocks
<1>3. client'.faults \subseteq client.faults \cup {"early", "late"}
  BY <1>1, <1>2, StopsEffect DEF IInv
<1>4. NeverRepeated' /\ ClosedBeforeMessageDelta'
  BY <1>3 DEF IInv, NeverRepeated, ClosedBeforeMessageDelta
<1>5. Agreement'
  BY <1>1, <1>2, StopsEffect DEF IInv, Agreement
<1> QED
  BY <1>4, <1>5, StopBlocksType DEF IInv

LEMMA StepInv == IInv /\ [Next]_ssmVars => IInv'
<1> SUFFICES ASSUME IInv, [Next]_ssmVars
             PROVE  Agreement' /\ NeverRepeated' /\ ClosedBeforeMessageDelta'
  BY StepType DEF IInv
<1> USE DEF IInv
<1>1. ASSUME UNCHANGED ssmVars
      PROVE  Agreement' /\ NeverRepeated' /\ ClosedBeforeMessageDelta'
  BY <1>1 DEF ssmVars, Agreement, NeverRepeated, ClosedBeforeMessageDelta
\* What is left to show of a step: the new faults are among the harmless ones.
<1>2. ASSUME client'.faults \subseteq client.faults \cup {"early", "late", "orphan_delta", "mismatch"}
      PROVE  NeverRepeated' /\ ClosedBeforeMessageDelta'
  BY <1>2 DEF NeverRepeated, ClosedBeforeMessageDelta
<1>3. CASE HandleMessageStart
  <2>1. CASE messageStarted
    BY <1>1, <1>3, <2>1 DEF HandleMessageStart
  <2>2. CASE ~messageStarted
    <3>1. /\ client' = ReceiveMessageStart(client)
          /\ messageStarted' = TRUE
          /\ UNCHANGED <<messageDeltaSent, messageEnded, activeBlocks>>
      BY <1>3, <2>2 DEF HandleMessageStart
    <3>2. client'.faults \subseteq client.faults
      BY <2>2, <3>1 DEF ReceiveMessageStart, Agreement, TypeOK, ClientType
    <3>3. Agreement'
      BY <3>1 DEF Agreement, ReceiveMessageStart, TypeOK, ClientType, ViewOf
    <3> QED
      BY <1>2, <3>2, <3>3
  <2> QED
    BY <2>1, <2>2
<1>4. ASSUME NEW i \in Index, NEW t \in BlockTypes, HandleContentBlockStart(i, t)
      PROVE  Agreement' /\ NeverRepeated' /\ ClosedBeforeMessageDelta'
  <2>1. CASE StartRefused(i)
    BY <1>1, <1>4, <2>1 DEF HandleContentBlockStart
  <2>2. CASE ~StartRefused(i)
    <3>1. AcceptStart(i, t) /\ client' = ClientAfterStart(i, t)
      BY <1>4, <2>2 DEF HandleContentBlockStart
    <3>2. UNCHANGED <<messageStarted, messageDeltaSent, messageEnded>>
      BY <3>1 DEF AcceptStart
    <3> QED
      BY <1>2, <2>2, <3>1, <3>2, AcceptStartEffect DEF Agreement
  <2> QED
    BY <2>1, <2>2
<1>5. ASSUME NEW t \in BlockTypes, HandleContentBlockStartNoIndex(t)
      PROVE  Agreement' /\ NeverRepeated' /\ ClosedBeforeMessageDelta'
  BY <1>4, <1>5 DEF HandleContentBlockStartNoIndex
<1>6. ASSUME NEW i \in Index, NEW d \in DeltaTypes, HandleContentBlockDelta(i, d)
      PROVE  Agreement' /\ NeverRepeated' /\ ClosedBeforeMessageDelta'
  \* A delta changes nothing of the client but its faults.
  <2>1. ASSUME NEW c \in ClientType
        PROVE  /\ ReceiveBlockDelta(c, i, d).started = c.started
               /\ ReceiveBlockDelta(c, i, d).deltaSent = c.deltaSent
               /\ ReceiveBlockDelta(c, i, d).ended = c.ended
               /\ ReceiveBlockDelta(c, i, d).block = c.block
               /\ ReceiveBlockDelta(c, i, d).faults \subseteq
                    c.faults \cup {"early", "late", "orphan_delta", "mismatch"}
    BY DEF ReceiveBlockDelta, BlockEventFaults, ClientType
  <2>2. CASE UNCHANGED ssmVars
    BY <1>1, <2>2
  <2>3. CASE /\ client' = ReceiveBlockDelta(client, i, d)
             /\ UNCHANGED <<messageStarted, messageDeltaSent, messageEnded, activeBlocks>>
    <3>1. client'.faults \subseteq client.faults \cup {"early", "late", "orphan_delta", "mismatch"}
      BY <2>1, <2>3 DEF TypeOK
    <3>2. Agreement'
      BY <2>1, <2>3 DEF TypeOK, Agreement, ViewOf
    <3> QED
      BY <1>2, <3>1, <3>2
  <2>4. CASE /\ ~StartRefused(i)
             /\ AcceptStart(i, InferredType(d))
             /\ client' = ReceiveBlockDelta(ClientAfterStart(i, InferredType(d)), i, d)
    <3> DEFINE c == ClientAfterStart(i, InferredType(d))
    <3>1. c \in ClientType /\ InferredType(d) \in BlockTypes
      BY <2>4, AcceptStartType, HelperType
    <3>2. /\ c.started = client.started
          /\ c.deltaSent = client.deltaSent
          /\ c.ended = client.ended
          /\ \A j \in Index : c.block[j] = ViewOf(activeBlocks'[j])
          /\ c.faults \subseteq client.faults \cup {"early", "late"}
      BY <2>4, <3>1, AcceptStartEffect
    <3>3. UNCHANGED <<messageStarted, messageDeltaSent, messageEnded>>
      BY <2>4 DEF AcceptStart
    <3>4. client' = ReceiveBlockDelta(c, i, d)
      BY <2>4
    <3>5. client'.faults \subseteq client.faults \cup {"early", "late", "orphan_delta", "mismatch"}
      BY <2>1, <3>1, <3>2, <3>4
    <3>6. Agreement'
      BY <2>1, <3>1, <3>2, <3>3, <3>4 DEF Agreement
    <3> QED
      BY <1>2, <3>5, <3>6
  <2> QED
    BY <1>6, <2>2, <2>3, <2>4 DEF HandleContentBlockDelta, ssmVars
<1>7. ASSUME NEW S \in SUBSET Index, StopBlocks(S)
      PROVE  Agreement' /\ NeverRepeated' /\ ClosedBeforeMessageDelta'
  BY <1>7, StopBlocksInv DEF IInv
<1>8. CASE HandleMessageDelta
  <2>1. CASE UNCHANGED ssmVars
    BY <1>1, <2>1
  <2>2. CASE ~UNCHANGED ssmVars
    <3> DEFINE c == ReceiveBlockStops(client, ClosedByMessageDelta)
    <3>1. /\ ~messageDeltaSent
          /\ messageDeltaSent' = TRUE
          /\ activeBlocks' = Stopped(ClosedByMessageDelta)
          /\ client' = ReceiveMessageDelta(c)
          /\ UNCHANGED <<messageStarted, messageEnded>>
      BY <1>8, <2>2 DEF HandleMessageDelta
    <3>2. ClosedByMessageDelta \in SUBSET Unclosed
      BY HelperType
    <3>3. /\ c.started = client.started
          /\ c.deltaSent = client.deltaSent
          /\ c.ended = client.ended
          /\ \A i \in Index : c.block[i] = ViewOf(activeBlocks'[i])
          /\ c.faults \subseteq client.faults \cup {"early", "late"}
      BY <3>1, <3>2, StopsEffect
    <3>4. c \in ClientType
      BY <3>2, HelperType, ReceiveType DEF TypeOK
    <3>5. Agreement'
      BY <3>1, <3>3, <3>4 DEF Agreement, ReceiveMessageDelta, ClientType
    \* In the production mode every block is closed by now.
    <3>6. ~StrictMode => OpenAt(c) = {}
      <4>1. SUFFICES ASSUME ~StrictMode, NEW i \in Index
                     PROVE  ~IsOpen(c, i)
        BY DEF OpenAt
      <4>2. c.block[i] = IF i \in Unclosed THEN "closed" ELSE client.block[i]
        BY <4>1 DEF ReceiveBlockStops, ClosedByMessageDelta, TypeOK, ClientType
      <4>3. i \in Unclosed \/ ~IsOpen(client, i)
        BY OpenIsUnclosed
      <4> QED
        BY <4>2, <4>3 DEF IsOpen, BlockTypes
    <3>7. client'.faults \subseteq c.faults \cup {"early", "late"}
                                   \cup {f \in {"unclosed"} : OpenAt(c) # {}}
      BY <3>1, <3>3, <3>4 DEF ReceiveMessageDelta, ClientType, Agreement
    <3>8. NeverRepeated'
      BY <3>3, <3>7 DEF NeverRepeated
    <3>9. ClosedBeforeMessageDelta'
      BY <3>3, <3>6, <3>7 DEF ClosedBeforeMessageDelta
    <3> QED
      BY <3>5, <3>8, <3>9
  <2> QED
    BY <2>1, <2>2
<1>9. CASE HandleMessageStop
  <2>1. CASE UNCHANGED ssmVars
    BY <1>1, <2>1
  <2>2. CASE ~UNCHANGED ssmVars
    <3>1. /\ ~messageEnded
          /\ messageEnded' = TRUE
          /\ client' = ReceiveMessageStop(client)
          /\ UNCHANGED <<messageStarted, messageDeltaSent, activeBlocks>>
      BY <1>9, <2>2 DEF HandleMessageStop
    <3>2. client'.faults \subseteq client.faults \cup {"early"}
      BY <3>1 DEF ReceiveMessageStop, Agreement, TypeOK, ClientType
    <3>3. Agreement'
      BY <3>1 DEF Agreement, ReceiveMessageStop, TypeOK, ClientType, ViewOf
    <3> QED
      BY <1>2, <3>2, <3>3
  <2> QED
    BY <2>1, <2>2
<1> QED
  BY <1>1, <1>3, <1>4, <1>5, <1>6, <1>7, <1>8, <1>9 DEF Next, HandleContentBlockStop

\* A start without an index never collides with a block in use.
LEMMA StepFresh == TypeOK /\ FreshIndex /\ [Next]_ssmVars => FreshIndex'
<1> SUFFICES ASSUME TypeOK, FreshIndex, [Next]_ssmVars PROVE FreshIndex'
  OBVIOUS
\* Stops change no type and no index.
<1>1. ASSUME NEW S \in SUBSET Index, activeBlocks' = Stopped(S), UNCHANGED nextBlockIndex
      PROVE  FreshIndex'
  BY <1>1 DEF FreshIndex, Exists, Stopped, TypeOK, BlockState
<1>2. ASSUME UNCHANGED <<activeBlocks, nextBlockIndex>> PROVE FreshIndex'
  BY <1>2 DEF FreshIndex, Exists
<1>3. ASSUME NEW i \in Index, NEW t \in BlockTypes, AcceptStart(i, t)
      PROVE  FreshIndex'
  <2>1. ClosedByStart(t) \in SUBSET Index
    BY HelperType
  <2>2. ASSUME NEW j \in Index, Exists(j)', j # i
        PROVE  Exists(j)
    BY <1>3, <2>1, <2>2 DEF AcceptStart, Exists, Stopped, TypeOK, BlockState
  <2>3. nextBlockIndex' = IF i >= nextBlockIndex THEN i + 1 ELSE nextBlockIndex
    BY <1>3 DEF AcceptStart
  <2>4. nextBlockIndex \in Int /\ Index \subseteq Int
    BY MaxIndexAssumption DEF TypeOK, Index
  <2> QED
    BY <2>2, <2>3, <2>4 DEF FreshIndex
<1>4. \A d \in DeltaTypes : InferredType(d) \in BlockTypes
  BY HelperType
<1>5. ClosedByMessageDelta \in SUBSET Index /\ \A i \in Index : {i} \cap Unclosed \in SUBSET Index
  BY HelperType
<1>6. ASSUME NEW i \in Index, NEW t \in BlockTypes, HandleContentBlockStart(i, t)
      PROVE  FreshIndex'
  BY <1>2, <1>3, <1>6 DEF HandleContentBlockStart, ssmVars
<1> QED
  BY <1>1, <1>2, <1>3, <1>4, <1>5, <1>6
     DEF Next, HandleMessageStart, HandleContentBlockStartNoIndex,
         HandleContentBlockDelta, HandleContentBlockStop, StopBlocks,
         HandleMessageDelta, HandleMessageStop, ssmVars

\* The index given to a start that names none is above every index in use.
THEOREM FreshIndexHolds == Spec => []FreshIndex
<1>1. Init => FreshIndex
  BY DEF Init, FreshIndex, Exists, NoBlock
<1> QED
  BY <1>1, InitType, StepType, StepFresh, PTL DEF Spec

\* What the manager believes of the message and of every block is what the
\* client has seen, whatever the caller sends.
THEOREM AgreementHolds == Spec => []Agreement
<1>1. IInv => Agreement
  BY DEF IInv
<1> QED
  BY <1>1, InitInv, StepInv, PTL DEF Spec

\* No caller can make the client see a message event twice, a second start
\* of an open block, or a stop of a block that is not open.
THEOREM NeverRepeatedHolds == Spec => []NeverRepeated
<1>1. IInv => NeverRepeated
  BY DEF IInv
<1> QED
  BY <1>1, InitInv, StepInv, PTL DEF Spec

\* In the production mode every block is closed when message_delta is sent.
THEOREM ClosedBeforeMessageDeltaHolds == Spec => []ClosedBeforeMessageDelta
<1>1. IInv => ClosedBeforeMessageDelta
  BY DEF IInv
<1> QED
  BY <1>1, InitInv, StepInv, PTL DEF Spec
=============================================================================
