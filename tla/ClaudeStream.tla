---------------------------- MODULE ClaudeStream ----------------------------
(***************************************************************************)
(* What a response on the /v1/messages stream promises the client, with no *)
(* word on how it is produced: one message that begins, opens and closes   *)
(* blocks, finishes with a truthful stop reason when no block is open, and *)
(* ends.  The rules are those the code names in its comments               *)
(* (server/sse_state_manager.go, server/stop_reason_manager.go:36-41).     *)
(***************************************************************************)
EXTENDS ClientView

VARIABLES
    phase,             (* "idle", "streaming", "finished" or "ended"       *)
    blocks,            (* the blocks as the client sees them               *)
    seen,              (* types of the blocks opened so far                *)
    reason             (* stop reason, "none" before the message finishes  *)

claudeVars == <<phase, blocks, seen, reason>>

Init ==
    /\ phase = "idle"
    /\ blocks = [i \in Index |-> "absent"]
    /\ seen = {}
    /\ reason = "none"

OpenBlocks == {i \in Index : blocks[i] \in BlockTypes}

Closed(S) == [i \in Index |-> IF i \in S THEN "closed" ELSE blocks[i]]

Begin ==
    /\ phase = "idle"
    /\ phase' = "streaming"
    /\ UNCHANGED <<blocks, seen, reason>>

\* A block opens, possibly in place of some that close.
Open(i, t, S) ==
    /\ phase = "streaming"
    /\ i \notin OpenBlocks
    /\ blocks' = [Closed(S) EXCEPT ![i] = t]
    /\ seen' = seen \cup {t}
    /\ UNCHANGED <<phase, reason>>

Close(S) ==
    /\ phase = "streaming"
    /\ blocks' = Closed(S)
    /\ UNCHANGED <<phase, seen, reason>>

Truthful(r) ==
    \/ r = "max_tokens"
    \/ r = "tool_use" /\ "tool_use" \in seen
    \/ r = "end_turn" /\ "tool_use" \notin seen

Finish(r) ==
    /\ phase = "streaming"
    /\ OpenBlocks = {}
    /\ Truthful(r)
    /\ phase' = "finished"
    /\ reason' = r
    /\ UNCHANGED <<blocks, seen>>

End ==
    /\ phase = "finished"
    /\ phase' = "ended"
    /\ UNCHANGED <<blocks, seen, reason>>

Next ==
    \/ Begin
    \/ \E i \in Index, t \in BlockTypes, S \in SUBSET OpenBlocks : Open(i, t, S)
    \/ \E S \in SUBSET OpenBlocks : Close(S)
    \/ \E r \in {"max_tokens", "tool_use", "end_turn"} : Finish(r)
    \/ End

\* A message that has begun is brought to its end.
Spec == Init /\ [][Next]_claudeVars /\ <>(phase = "ended")
=============================================================================
