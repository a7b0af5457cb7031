-------------------------- MODULE MCRequestHistory --------------------------
(* Messages for TLC: every kind of block, alone and in the combinations the  *)
(* properties tell apart; the call w is one of the filtered tools.           *)
EXTENDS RequestHistory

CONSTANTS a, w

Says(role) == [role |-> role, text |-> TRUE, image |-> "none", uses |-> {},
               results |-> {}, silent |-> FALSE]
Empty == [Says("user") EXCEPT !.text = FALSE]
Calls(t) == [Says("assistant") EXCEPT !.text = FALSE, !.uses = t]

MCShapes ==
    {Says("user"), Says("assistant"), Says("system"), Empty}
    \cup {[Says("user") EXCEPT !.image = "invalid", !.results = {a}]}
    \cup {[Empty EXCEPT !.image = img] : img \in {"valid", "foreign"}}
    \cup {Calls(t) : t \in {{a}, {a, w}}}
    \cup {[Empty EXCEPT !.results = {a}],
          [Empty EXCEPT !.results = {w}, !.silent = TRUE],
          [Says("user") EXCEPT !.results = {a, w}]}
=============================================================================
