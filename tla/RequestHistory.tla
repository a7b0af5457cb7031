--------------------------- MODULE RequestHistory ---------------------------
(***************************************************************************)
(* From a client's conversation to the request sent upstream: the checks   *)
(* of the endpoint (server/server.go), the OpenAI conversion               *)
(* (converter/openai.go, tools.go) and BuildCodeWhispererRequest           *)
(* (converter/codewhisperer.go), which turns all messages but the last     *)
(* into a history in which a user entry and an assistant entry alternate.  *)
(*                                                                         *)
(* Texts are told apart by the message they come from, and are blank or    *)
(* not.  A message whose blocks are text, an image, tool calls and tool    *)
(* results is a record; a plain string is a message with only text.        *)
(***************************************************************************)
EXTENDS Integers, Sequences

CONSTANTS
    ToolIds,           (* ids of tool calls                                *)
    WebSearch,         (* those that call a tool upstream does not have    *)
    Shapes,            (* messages a client may send, see Message          *)
    MaxMessages        (* bound: messages of a conversation                *)

\* An image is valid, fails its validation, or is a URL that cannot be
\* converted.  Results without content are silent.
Message == [role: {"user", "assistant", "system", "tool"}, text: BOOLEAN,
            image: {"none", "valid", "invalid", "foreign"},
            uses: SUBSET ToolIds, results: SUBSET ToolIds, silent: BOOLEAN]

ASSUME HistoryAssumption ==
    /\ WebSearch \subseteq ToolIds
    /\ Shapes \subseteq Message
    /\ MaxMessages \in Nat

VARIABLES
    endpoint,          (* "anthropic" or "openai"                          *)
    messages,          (* of the request                                   *)
    phase,             (* where the request is                             *)
    i,                 (* the message the history loop is at               *)
    userMessagesBuffer,(* user messages that wait for an assistant message *)
    history,           (* entries of the history                           *)
    current            (* UserInputMessage of currentMessage               *)
vars == <<endpoint, messages, phase, i, userMessagesBuffer, history, current>>

N == Len(messages)

\* Texts that are no message's: the system text, the placeholders.
Own == 0

\* An entry, with the messages it is made from.
UserMessage(from, texts, images, results) ==
    [role |-> "user", from |-> from, texts |-> texts, images |-> images,
     uses |-> {}, results |-> results]
AssistantMessage(from, texts, uses) ==
    [role |-> "assistant", from |-> from, texts |-> texts, images |-> {},
     uses |-> uses, results |-> {}]

NoEntry == UserMessage({}, {}, {}, {})

Init ==
    /\ endpoint \in {"anthropic", "openai"}
    /\ messages \in UNION {[1 .. n -> Shapes] : n \in 0 .. MaxMessages}
    /\ phase = "received"
    /\ i = 1
    /\ userMessagesBuffer = {}
    /\ history = <<>>
    /\ current = NoEntry

-----------------------------------------------------------------------------
\* GetMessageContent finds something: an image has a text of its own there.
HasContent(m) ==
    m.text \/ m.image \in {"valid", "invalid"} \/ (m.results # {} /\ ~m.silent)

\* processMessageContent: the text, that of tool results included; an invalid
\* image is an error, a foreign one is passed over.
HasText(m)  == m.text \/ (m.results # {} /\ ~m.silent)
Fails(m)    == m.image = "invalid"

\* convertOpenAIContentToAnthropic; tool_calls of a message are not converted.
Converted(m) == [m EXCEPT !.uses = @ \ WebSearch,
                          !.image = IF @ = "foreign" THEN "none" ELSE @]

\* extractToolResultsFromMessage and extractToolUsesFromMessage: only the calls
\* are filtered.
ToolResults(m) == m.results
ToolUses(m)    == m.uses \ WebSearch

-----------------------------------------------------------------------------
Refuse ==
    /\ phase' = "refused"
    /\ UNCHANGED <<endpoint, messages, i, userMessagesBuffer, history, current>>

\* The handler of /v1/messages looks at the last message.
CheckLastMessage ==
    /\ phase = "received"
    /\ endpoint = "anthropic"
    /\ IF N = 0 \/ ~HasContent(messages[N]) THEN Refuse
       ELSE /\ phase' = "checked"
            /\ UNCHANGED <<endpoint, messages, i, userMessagesBuffer, history, current>>

\* That of /v1/chat/completions converts the messages instead.
ConvertOpenAIToAnthropic ==
    /\ phase = "received"
    /\ endpoint = "openai"
    /\ messages' = [k \in 1 .. N |-> Converted(messages[k])]
    /\ phase' = "checked"
    /\ UNCHANGED <<endpoint, i, userMessagesBuffer, history, current>>

-----------------------------------------------------------------------------
\* Entries.  Tool results take the place of the text.
CurrentEntry(m) ==
    LET results == IF m.role = "user" THEN ToolResults(m) ELSE {} IN
    UserMessage({N}, IF HasText(m) /\ results = {} THEN {N} ELSE {},
                IF m.image = "valid" THEN {N} ELSE {}, results)

\* Broken: what is merged is only the last of the messages.
MergedLast(from) ==
    LET k == CHOOSE a \in from : \A b \in from : b <= a IN
    UserMessage({k}, {}, {}, ToolResults(messages[k]))

\* A message that fails, or has no text, brings no image either.
Merged(from) ==
    LET readable == {k \in from : HasText(messages[k]) /\ ~Fails(messages[k])}
        results == UNION {ToolResults(messages[k]) : k \in from}
    IN UserMessage(from, IF results = {} THEN readable ELSE {},
                   {k \in readable : messages[k].image = "valid"}, results)

AssistantEntry(k) == AssistantMessage({k}, {k}, ToolUses(messages[k]))

SystemEntry == UserMessage({}, {Own}, {}, {})

OK == AssistantMessage({}, {Own}, {})

\* currentMessage, and the pair that carries the system messages and the
\* thinking prefix; an OpenAI request has neither.
BuildCurrentMessage ==
    /\ phase = "checked"
    /\ IF N = 0 \/ Fails(messages[N]) THEN Refuse
       ELSE /\ current' = CurrentEntry(messages[N])
            /\ history' \in {<<>>} \cup (IF endpoint = "anthropic"
                                         THEN {<<SystemEntry, OK>>} ELSE {})
            /\ phase' = "history"
            /\ UNCHANGED <<endpoint, messages, i, userMessagesBuffer>>

ModelNotFound == phase = "checked" /\ N > 0 /\ Refuse

-----------------------------------------------------------------------------
(* The loop over the messages before the last.                              *)
\* Broken: the last message is taken for history too.
IsNextOrLast(roles) ==
    /\ phase = "history"
    /\ i <= N
    /\ messages[i].role \in roles

IsNext(roles) ==
    /\ phase = "history"
    /\ i < N
    /\ messages[i].role \in roles

CollectUser ==
    /\ IsNext({"user"})
    /\ userMessagesBuffer' = userMessagesBuffer \cup {i}
    /\ i' = i + 1
    /\ UNCHANGED <<endpoint, messages, phase, history, current>>

BufferedEntry == IF userMessagesBuffer # {} THEN <<Merged(userMessagesBuffer)>> ELSE <<>>

\* Broken: the buffer is not cleared.
PairAssistantKeeping ==
    /\ IsNext({"assistant"})
    /\ history' = history \o BufferedEntry \o <<AssistantEntry(i)>>
    /\ i' = i + 1
    /\ UNCHANGED <<endpoint, messages, phase, userMessagesBuffer, current>>

PairAssistant ==
    /\ IsNext({"assistant"})
    /\ history' = history \o BufferedEntry \o <<AssistantEntry(i)>>
    /\ userMessagesBuffer' = {}
    /\ i' = i + 1
    /\ UNCHANGED <<endpoint, messages, phase, current>>

\* Messages of any other role are passed over.
SkipMessage ==
    /\ IsNext({"system", "tool"})
    /\ i' = i + 1
    /\ UNCHANGED <<endpoint, messages, phase, userMessagesBuffer, history, current>>

\* Broken: the user messages that are left get no answer.
AnswerOrphansUnpaired ==
    /\ phase = "history"
    /\ i >= N
    /\ history' = history \o BufferedEntry
    /\ userMessagesBuffer' = {}
    /\ phase' = "validating"
    /\ UNCHANGED <<endpoint, messages, i, current>>

\* User messages that are left are answered with the placeholder.
AnswerOrphans ==
    /\ phase = "history"
    /\ i >= N
    /\ history' = history \o BufferedEntry
                  \o IF userMessagesBuffer # {} THEN <<OK>> ELSE <<>>
    /\ userMessagesBuffer' = {}
    /\ phase' = "validating"
    /\ UNCHANGED <<endpoint, messages, i, current>>

-----------------------------------------------------------------------------
\* A thinking configuration that does not fit the model or the tool choice.
RefuseThinking ==
    /\ phase = "validating"
    /\ endpoint = "anthropic"
    /\ Refuse

\* validateCodeWhispererRequest; a request with tools gets a placeholder text.
Validate(hasTools) ==
    /\ phase = "validating"
    /\ LET empty == current.results = {} /\ current.texts = {} /\ current.images = {} IN
       IF empty /\ ~hasTools THEN Refuse
       ELSE /\ current' = IF empty THEN [current EXCEPT !.texts = {Own}] ELSE current
            /\ phase' = "sent"
            /\ UNCHANGED <<endpoint, messages, i, userMessagesBuffer, history>>

Next ==
    \/ CheckLastMessage
    \/ ConvertOpenAIToAnthropic
    \/ BuildCurrentMessage
    \/ ModelNotFound
    \/ CollectUser
    \/ PairAssistant
    \/ SkipMessage
    \/ AnswerOrphans
    \/ RefuseThinking
    \/ \E hasTools \in BOOLEAN : Validate(hasTools)

Spec == Init /\ [][Next]_vars

-----------------------------------------------------------------------------
Entry == [role: {"user", "assistant"}, from: SUBSET (1 .. N), texts: SUBSET (0 .. N),
          images: SUBSET (1 .. N), uses: SUBSET ToolIds, results: SUBSET ToolIds]

TypeOK ==
    /\ endpoint \in {"anthropic", "openai"}
    /\ messages \in Seq(Message)
    /\ phase \in {"received", "checked", "history", "validating", "sent", "refused"}
    /\ i \in 1 .. N \cup {1}
    /\ userMessagesBuffer \subseteq 1 .. N - 1
    /\ history \in Seq(Entry)
    /\ current \in Entry

\* Every user and assistant message before the loop's position is in one
\* entry of its role or waits in the buffer, the order of the conversation is
\* kept, and an entry has all the tool results of its messages: none is lost
\* with an image that is refused (codewhisperer.go:422-497, 499-543).
Carried ==
    /\ (UNION {history[k].from : k \in DOMAIN history}) \cup userMessagesBuffer
          = {j \in 1 .. i - 1 : messages[j].role \in {"user", "assistant"}}
    /\ \A k, l \in DOMAIN history : k < l =>
          \A a \in history[k].from, b \in history[l].from : a < b
    /\ \A k \in DOMAIN history : \A a \in history[k].from :
          /\ messages[a].role = history[k].role
          /\ \A b \in userMessagesBuffer : a < b
          /\ history[k].role = "user" => messages[a].results \subseteq history[k].results

\* User and assistant alternate: no user entry follows another, the current
\* message always comes after an assistant entry, and an assistant entry only
\* comes first or follows another where the client sent no user message
\* before it (codewhisperer.go:418-419, "merge consecutive user messages, then
\* pair them with the assistant", and 499-500).
Paired ==
    /\ history # <<>> => history[Len(history)].role = "assistant"
    /\ \A k \in 1 .. Len(history) - 1 :
          history[k].role = "user" => history[k + 1].role = "assistant"
    /\ \A k \in DOMAIN history : \A a \in history[k].from :
          history[k].role = "assistant" =>
             \/ k > 1 /\ history[k - 1].role = "user"
             \/ \A j \in 1 .. a - 1 : messages[j].role = "user" =>
                   k > 1 /\ \E b \in history[k - 1].from : j < b

\* Message a is the last assistant message before message j.
IsTurnOf(a, j) ==
    /\ a \in 1 .. j - 1
    /\ messages[a].role = "assistant"
    /\ \A b \in a + 1 .. j - 1 : messages[b].role # "assistant"

\* The protocol of tool calls: a result is for a call of the assistant message
\* before it, and every call has its result before the next.
ResultsHaveCalls ==
    \A j \in 1 .. N : messages[j].role = "user" =>
        \A t \in messages[j].results \ WebSearch :
            \E a \in 1 .. N : IsTurnOf(a, j) /\ t \in messages[a].uses
CallsHaveResults ==
    \A a \in 1 .. N : messages[a].role = "assistant" =>
        \A t \in messages[a].uses \ WebSearch :
            \E j \in 1 .. N : /\ messages[j].role = "user"
                             /\ IsTurnOf(a, j) /\ t \in messages[j].results

\* User messages wait for the current one at the end of the loop.
Split == \E j \in 1 .. N - 1 : /\ messages[j].role = "user"
                               /\ \A b \in j + 1 .. N - 1 : messages[b].role # "assistant"

\* The tools of a conversation that keeps the protocol arrive in turns as
\* upstream wants them: the results of a user entry are those of the calls of
\* the assistant entry right before it, the current message included.  A
\* conversation that ends with two user messages, which the code takes for
\* impossible (codewhisperer.go:499), keeps only what came before, and
\* results of the filtered web_search calls have no call
\* (codewhisperer.go:90-203, 616-697, tools.go:289).
ToolTurns ==
    ResultsHaveCalls =>
        /\ \A k \in DOMAIN history :
              k = 1 => history[k].results \subseteq WebSearch
        /\ \A k \in 1 .. Len(history) - 1 :
              history[k + 1].results \ WebSearch \subseteq history[k].uses
        /\ phase = "sent" /\ ~Split /\ history # <<>> =>
              current.results \ WebSearch \subseteq history[Len(history)].uses
        /\ CallsHaveResults /\ phase = "sent" /\ ~Split =>
              \A k \in DOMAIN history :
                  history[k].uses \subseteq IF k < Len(history) THEN history[k + 1].results
                                                               ELSE current.results
=============================================================================
