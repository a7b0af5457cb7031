---------------------------- MODULE MCRobustParser ----------------------------
(* A response body of up to three small frames for TLC.                     *)
EXTENDS RobustParser

Header(name, type, value) == [name |-> name, type |-> type, value |-> value]

\* An event, one whose first header has no value, an exception with a number
\* among its headers, and a frame without headers.
MCFrames ==
    { [headers |-> <<Header(EventTypeName, String, <<2>>)>>, payload |-> <<2, 1>>],
      [headers |-> <<Header(Other, String, <<>>), Header(EventTypeName, String, <<1>>)>>,
       payload |-> <<>>],
      [headers |-> <<Header(MessageTypeName, String, <<2>>), Header(Other, Number, <<3>>)>>,
       payload |-> <<4>>],
      [headers |-> <<>>, payload |-> <<3>>] }
MCUnits == {0, 1, 2, 3, 5, 14}
=============================================================================
