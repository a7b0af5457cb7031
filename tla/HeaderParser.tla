----------------------------- MODULE HeaderParser -----------------------------
(***************************************************************************)
(* HeaderParser (parser/header_parser.go): the phases in which it reads    *)
(* the headers of one event-stream message, and what a message gets when   *)
(* they are cut short or broken.                                           *)
(*                                                                         *)
(* A header is <<name, type, size>> \o value.  The name stands for its     *)
(* length byte and its text, the size for its two bytes; headers that are  *)
(* cut short inside one of these are not told apart from headers cut short *)
(* before it.  0 is the empty name, which the parser refuses, and the names *)
(* from Other on are all the same to it.  A value is a string, or a        *)
(* fixed-size number, which is one unit long here, or raw bytes.           *)
(***************************************************************************)
EXTENDS Integers, Sequences

MessageTypeName == 1     (* :message-type                                  *)
EventTypeName == 2       (* :event-type                                    *)
Other == 3               (* any other name                                 *)
Names == {MessageTypeName, EventTypeName, Other}

String == 1              (* ValueType_STRING                               *)
Number == 2              (* ValueType_BYTE and its like                    *)

Missing == [kind |-> "missing", text |-> <<>>]
\* The values the parser makes up: event, assistantResponseEvent, JSON.
Default == [kind |-> "string", text |-> <<1>>]

\* HeaderParseState as Reset leaves it.
Fresh == [phase |-> "name", name |-> Other, type |-> String, size |-> 0,
          value |-> <<>>, parsed |-> [n \in Names |-> Missing]]

-----------------------------------------------------------------------------
\* The value is complete: it is kept under its name, unless it is a number of
\* the wrong size, and the next header begins.
Store(s) ==
    [s EXCEPT
        !.phase = "name",
        !.parsed = IF s.type = Number /\ s.size # 1 THEN @
                   ELSE [@ EXCEPT ![s.name] =
                            [kind |-> IF s.type = String THEN "string" ELSE "raw",
                             text |-> s.value]]]

ReadName(s, u) ==
    IF u = 0 THEN [s EXCEPT !.phase = "failed"]
    ELSE [s EXCEPT !.phase = "type", !.name = IF u < Other THEN u ELSE Other]
ReadType(s, u) == [s EXCEPT !.phase = "size", !.type = u]
ReadSize(s, u) == [s EXCEPT !.phase = "value", !.size = u, !.value = <<>>]
ReadValue(s, u) ==
    LET t == [s EXCEPT !.value = Append(@, u)]
    IN  IF Len(t.value) = t.size THEN Store(t) ELSE t

\* One unit of header data.  An empty value is stored only when more data
\* follows: the loop does not run again at the end of the data.
Read(s, u) ==
    LET t == IF s.phase = "value" /\ s.size = 0 THEN Store(s) ELSE s
    IN  CASE t.phase = "name"  -> ReadName(t, u)
          [] t.phase = "type"  -> ReadType(t, u)
          [] t.phase = "size"  -> ReadSize(t, u)
          [] t.phase = "value" -> ReadValue(t, u)
          [] OTHER             -> t

\* ParseHeaders, continuing from the state s.
ParseHeaders(s, data) ==
    LET after[k \in 0 .. Len(data)] ==
            IF k = 0 THEN s ELSE Read(after[k - 1], data[k])
    IN  after[Len(data)]

-----------------------------------------------------------------------------
NoneParsed(s) == \A n \in Names : s.parsed[n] = Missing

\* The headers the message gets.  Parsing that ended anywhere but between two
\* headers is completed by force with the values the parser makes up.
HeadersOf(data, s) ==
    IF s.phase = "name" /\ data # <<>> THEN s.parsed
    ELSE [n \in Names |-> IF s.parsed[n] = Missing THEN Default ELSE s.parsed[n]]

\* Broken: an error does not clear the state.
KeptAnyway(s) == s

\* What the parser keeps until the next message: an error clears the state, a
\* value cut short is an error, and headers cut short between two of their
\* parts are one when nothing was parsed before.
CutShort(s) ==
    \/ s.phase = "value" /\ s.value # <<>>
    \/ s.phase # "name" /\ NoneParsed(s)
Kept(s) == IF s.phase = "failed" \/ CutShort(s) THEN Fresh ELSE s

MessageTypeOf(headers) ==
    IF headers[MessageTypeName].kind = "string" THEN headers[MessageTypeName].text
    ELSE Default.text
EventTypeOf(headers) ==
    IF headers[EventTypeName].kind = "string" THEN headers[EventTypeName].text ELSE <<>>
=============================================================================
