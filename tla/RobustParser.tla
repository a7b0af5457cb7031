----------------------------- MODULE RobustParser -----------------------------
(***************************************************************************)
(* RobustEventStreamParser (parser/robust_parser.go): from the bytes of    *)
(* the response body, in whatever chunks the network delivers them, to the *)
(* messages of the event stream.                                           *)
(*                                                                         *)
(* Units stand for the fields of a frame, <<total, header length>>, its    *)
(* headers, its payload; the two checksums are not looked at by the code   *)
(* and are left out.  A total length that is read at a place where none    *)
(* was written is whatever stands there, as in the code.  bytes.Buffer is  *)
(* the part of the body between two positions: read and received.          *)
(***************************************************************************)
EXTENDS HeaderParser

CONSTANTS
    Frames,            (* frames the upstream sends, see Encoding          *)
    MaxFrames,         (* bound: frames of one body                        *)
    MaxSize,           (* EventStreamMaxMessageSize                        *)
    Units              (* what a damaged unit may turn into                *)

MinSize == 2           (* EventStreamMinMessageSize: an empty frame        *)

ASSUME SizeAssumption ==
    /\ MaxFrames \in Nat
    /\ MaxSize \in Nat /\ MaxSize >= MinSize
    /\ Units \subseteq Nat

LOCAL INSTANCE SequencesExt

VARIABLES
    sent,              (* the frames the upstream sends                    *)
    damaged,           (* position of the unit damaged on the way, or 0    *)
    body,              (* the units of the response body                   *)
    received,          (* units written to the buffer                      *)
    read,              (* units taken from it                              *)
    parsing,           (* inside ParseStream                               *)
    headerState,       (* the state of the header parser                   *)
    messages,          (* all the messages returned so far                 *)
    errorCount
framingVars == <<sent, damaged, body, received, read, parsing, headerState,
                 messages, errorCount>>

-----------------------------------------------------------------------------
(* What the upstream sends: frames with their headers and payload, encoded, *)
(* with at most one unit of the body damaged.                               *)
HeaderType == [name: Nat \ {0}, type: Nat, value: Seq(Nat)]
FrameType == [headers: Seq(HeaderType), payload: Seq(Nat)]

EncodedHeaders(f) ==
    FlattenSeq([k \in 1 .. Len(f.headers) |->
        <<f.headers[k].name, f.headers[k].type, Len(f.headers[k].value)>>
        \o f.headers[k].value])
Encoding(f) ==
    <<2 + Len(EncodedHeaders(f)) + Len(f.payload), Len(EncodedHeaders(f))>>
    \o EncodedHeaders(f) \o f.payload
Encoded(frames) == FlattenSeq([k \in 1 .. Len(frames) |-> Encoding(frames[k])])

\* A frame is not longer than the limit, neither of the names the parser looks
\* for comes twice, and the last header is not an empty value.
ASSUME FramesAssumption ==
    /\ Frames \subseteq FrameType
    /\ \A f \in Frames :
        /\ Len(Encoding(f)) <= MaxSize
        /\ \A j, k \in 1 .. Len(f.headers) :
              j # k /\ f.headers[j].name = f.headers[k].name => f.headers[j].name >= Other
        /\ f.headers # <<>> => f.headers[Len(f.headers)].value # <<>>

FramingInit ==
    /\ sent \in SeqOf(Frames, MaxFrames)
    /\ \/ damaged = 0 /\ body = Encoded(sent)
       \/ /\ damaged \in 1 .. Len(Encoded(sent))
          /\ \E u \in Units \ {Encoded(sent)[damaged]} :
                body = [Encoded(sent) EXCEPT ![damaged] = u]
    /\ received = 0
    /\ read = 0
    /\ parsing = FALSE
    /\ headerState = Fresh
    /\ messages = <<>>
    /\ errorCount = 0

-----------------------------------------------------------------------------
Available == received - read
TotalLength == body[read + 1]

\* ParseStream: a chunk is written to the buffer.
ParseStream(n) ==
    /\ ~parsing
    /\ received + n <= Len(body)
    /\ received' = received + n
    /\ parsing' = TRUE
    /\ UNCHANGED <<sent, damaged, body, read, headerState, messages, errorCount>>

\* Broken: a length above the limit is waited for.
LengthBelowMin(total) == total < MinSize
LengthInvalid(total) == total < MinSize \/ total > MaxSize

\* An impossible length: one unit is dropped.
SkipInvalid ==
    /\ parsing /\ Available >= MinSize
    /\ LengthInvalid(TotalLength)
    /\ read' = read + 1
    /\ errorCount' = errorCount + 1
    /\ UNCHANGED <<sent, damaged, body, received, parsing, headerState, messages>>

\* Broken: what is left of the chunk is thrown away.
WaitForMoreDiscarding ==
    /\ parsing
    /\ \/ Available < MinSize
       \/ /\ Available >= MinSize
          /\ ~LengthInvalid(TotalLength) /\ Available < TotalLength
    /\ parsing' = FALSE
    /\ read' = received
    /\ UNCHANGED <<sent, damaged, body, received, headerState, messages, errorCount>>

\* The loop ends: the next message is not complete.
WaitForMore ==
    /\ parsing
    /\ \/ Available < MinSize
       \/ /\ Available >= MinSize
          /\ ~LengthInvalid(TotalLength) /\ Available < TotalLength
    /\ parsing' = FALSE
    /\ UNCHANGED <<sent, damaged, body, received, read, headerState, messages,
                   errorCount>>

\* parseSingleMessageWithValidation, on the units of one message.
HeaderTooLong(data) == data[2] > Len(data) - MinSize
HeaderData(data) == SubSeq(data, 3, 2 + data[2])
Payload(data) == SubSeq(data, 3 + data[2], Len(data))

\* Broken: goes on from what the message before left behind.
HeaderStateLeaking(data) == ParseHeaders(headerState, HeaderData(data))
HeaderStateAfter(data) == ParseHeaders(Fresh, HeaderData(data))

Message(data, s) ==
    LET headers == HeadersOf(HeaderData(data), s)
    IN  [type |-> MessageTypeOf(headers), event |-> EventTypeOf(headers),
         payload |-> Payload(data)]

TakeMessage ==
    /\ parsing /\ Available >= MinSize
    /\ ~LengthInvalid(TotalLength) /\ Available >= TotalLength
    /\ read' = read + TotalLength
    /\ LET data == SubSeq(body, read + 1, read + TotalLength) IN
       \/ /\ HeaderTooLong(data)
          /\ headerState' = Fresh
          /\ errorCount' = errorCount + 1
          /\ UNCHANGED messages
       \/ /\ ~HeaderTooLong(data)
          /\ headerState' = Kept(HeaderStateAfter(data))
          /\ messages' = Append(messages, Message(data, HeaderStateAfter(data)))
          /\ UNCHANGED errorCount
    /\ UNCHANGED <<sent, damaged, body, received, parsing>>

FramingNext ==
    \/ \E n \in 1 .. Len(body) : ParseStream(n)
    \/ SkipInvalid \/ WaitForMore \/ TakeMessage

FramingSpec == FramingInit /\ [][FramingNext]_framingVars

-----------------------------------------------------------------------------
MessageType == [type: Seq(Nat), event: Seq(Nat), payload: Seq(Nat)]

FramingTypeOK ==
    /\ body \in Seq(Nat)
    /\ damaged \in 0 .. Len(body)
    /\ received \in 0 .. Len(body)
    /\ read \in 0 .. received
    /\ parsing \in BOOLEAN
    /\ headerState.phase \in {"name", "type", "size", "value"}
    /\ messages \in Seq(MessageType)
    /\ errorCount \in Nat

(* Between two calls the buffer holds less than the longest message: the   *)
(* parser never waits for a message that it would refuse, and no body can  *)
(* make the buffer grow (robust_parser.go:376-389).                        *)
BufferBounded == ~parsing => Available < MaxSize

(* Where the network cuts the body makes no difference: between two calls  *)
(* the messages returned so far are those of one parse of everything       *)
(* received so far (robust_parser.go:349-416).                             *)
ParsedFrom(b, n, p, later) ==
    IF n - p < MinSize THEN <<>>
    ELSE LET total == b[p + 1] IN
         IF total < MinSize \/ total > MaxSize THEN later[p + 1]
         ELSE IF n - p < total THEN <<>>
         ELSE LET data == SubSeq(b, p + 1, p + total)
                  s == ParseHeaders(Fresh, HeaderData(data))
              IN  IF HeaderTooLong(data) THEN later[p + total]
                  ELSE <<Message(data, s)>> \o later[p + total]
ParsedAtOnce(b, n) == LET from[p \in 0 .. n] == ParsedFrom(b, n, p, from) IN from
ChunkingInvisible == ~parsing => messages = ParsedAtOnce(body, received)[0]

\* What a frame says, read off its own headers.
Said(f, name) ==
    {f.headers[k].value : k \in {j \in 1 .. Len(f.headers) :
        f.headers[j].name = name /\ f.headers[j].type = String}}
Meaning(f) ==
    [type |-> IF Said(f, MessageTypeName) = {} THEN Default.text
              ELSE CHOOSE v \in Said(f, MessageTypeName) : TRUE,
     event |-> IF f.headers = <<>> THEN Default.text
               ELSE IF Said(f, EventTypeName) = {} THEN <<>>
               ELSE CHOOSE v \in Said(f, EventTypeName) : TRUE,
     payload |-> f.payload]
Meanings == [k \in 1 .. Len(sent) |-> Meaning(sent[k])]

Start(k) == Len(Encoded(SubSeq(sent, 1, k - 1)))
Arrived == {k \in 1 .. Len(sent) : Start(k + 1) <= received}
DamagedFrame == {k \in 1 .. Len(sent) : damaged > Start(k) /\ damaged <= Start(k + 1)}
FramingIntact == \A k \in 1 .. Len(sent) : damaged # Start(k) + 1

(* Damage that spares the total lengths stays in its own frame: every      *)
(* other frame that has arrived is returned, once, in order, as it was     *)
(* sent, and the damaged one is returned or left out.  A body that is not  *)
(* damaged is returned whole, and no error is counted for it               *)
(* (robust_parser.go:64-68, 118-187, 401-406).                             *)
DamageContained ==
    ~parsing /\ FramingIntact =>
        \E n \in 0 .. Len(sent) :
            /\ Arrived = 1 .. n
            /\ \/ /\ Len(messages) = n
                  /\ \A k \in (1 .. n) \ DamagedFrame : messages[k] = Meanings[k]
                  /\ damaged = 0 => errorCount = 0
               \/ \E d \in DamagedFrame \cap Arrived :
                     messages = RemoveAt(SubSeq(Meanings, 1, n), d)
=============================================================================
