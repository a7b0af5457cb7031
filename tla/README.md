# Verification of k2a

k2a is an HTTP server that offers the Anthropic Messages API (and an OpenAI
compatible one) on top of the AWS CodeWhisperer / Kiro upstream. A request is
given an access token from a pool of accounts, translated, sent upstream, and the
binary event stream that comes back is translated into server-sent events.

This directory holds TLA+ models of the parts of that program that keep state,
the TLC configurations that check them on small instances, and theorems about them
that TLAPS proves for every value of the constants. Source locations are given as
`file:line` relative to the repository.

## 1. Inventory

| Component | Source | State | Operations | Talks to | Modelled in |
|---|---|---|---|---|---|
| SSE state manager | `server/sse_state_manager.go` | flags of the message, a map of blocks, the next index | one handler per event type | the client | `SSEState`, `ClientView` |
| Stream processor, stop reason | `server/stream_processor.go`, `server/stop_reason_manager.go` | open and completed tools | event loop, exception, end of stream | parser (pull), SSE state manager (call) | `StreamPipeline` |
| Thinking context | `parser/thinking_state_machine.go` | state, buffer, indices | a chunk, a flush | called by the message handlers and at the end of the stream | `StreamPipeline` |
| Upstream message handlers | `parser/message_event_handlers.go` | none of their own | one per message type | tool manager, aggregator, thinking context | `StreamPipeline`, `ToolArguments` |
| Tool lifecycle manager | `parser/tool_lifecycle_manager.go` | active and completed calls, block indices | request, result, error, new arguments | called by the handlers; read by the non-streaming response | `ToolLifecycle`, `ToolArguments` |
| Argument aggregator | `parser/sonic_streaming_aggregator.go` | a buffer per call | a fragment, a stop | calls back into the tool manager | `ToolArguments` |
| Event-stream framing | `parser/robust_parser.go`, `parser/header_parser.go` | buffer, header phase, error count | a chunk of the body | the network, the message handlers | `RobustParser`, `HeaderParser` |
| Token pool | `auth/token_manager.go`, `auth/rate_limiter.go`, `auth/auth.go` | cache, position, counters, cooldowns | selection, recording, rotation, charging, failure, refresh | every request goroutine, two mutexes | `TokenPool` |
| Write-back of refresh tokens | `auth/token_manager.go`, `auth/config.go` | configs, cache, config file | refresh, persisting goroutine, start | upstream, store, file system | `CredentialRotation` |
| Admin store | `store/store.go`, `server/admin_handlers.go` | tokens, sessions, password; one JSON file | add, update, delete, toggle, batch, import, clear, sessions, password | admin handlers, file system | `CredentialStore` |
| User token cache | `auth/user_token_cache.go` | entries, LRU order | lookup or refresh, touch, evict | requests of users with their own refresh token | `UserTokenCache` |
| Response formats | `server/openai_handlers.go`, `server/handlers.go`, `converter/openai.go` | places of the calls, the open tag, errors in a row | read loop, event loop, end; whole answers | parser, tool manager, the client | `ResponseFormats` |
| Request conversion | `server/server.go`, `converter/` | a history, a buffer of user messages | checks, conversion, one step per message, validation | handlers, upstream | `RequestHistory` |
| Proxy pool, fingerprints, refresh manager, conversation ids, session manager | `auth/proxy_pool.go`, `auth/fingerprint.go`, `utils/`, `parser/session_manager.go` | small maps | lookups | — | no, section 8 |
| Server, configuration, logging | `server/`, `config/`, `logger/` | none that operations share | routing and I/O | — | no, section 8 |

How they interact. A request goroutine asks the token pool for an access token
(shared state under `tm.mutex` and `rl.mutex`, several critical sections), sends
the request, and then runs the whole streaming pipeline by itself: network read,
framing, message handlers, thinking context or tool manager, stream processor, SSE
state manager, client. Before that it turns the client's conversation into the one upstream
takes; instead of the last three steps an OpenAI client gets its own event loop, and a
client that does not stream the calls the tool manager has kept. Nothing in the
pipeline is shared with other requests. A
refresh of the pool's cache may start a goroutine that writes rotated refresh
tokens back to the file or to the store, while requests and later refreshes go on.

What is hard here:

* **agreement of several bookkeepers**: the tool manager, the stream processor
  and the SSE state manager each keep their own record of blocks, and three
  places hand out block indices (thinking context, tool manager, state manager);
* **repairs**: the state manager drops, inserts and reorders events, so that
  what the client sees is the sum of what was sent and what was repaired;
* **check, wait, act**: the token pool reads a quota, waits, and charges it
  later, and rotates in three critical sections;
* **write-back beside refreshes**: a goroutine compares, copies and assigns
  while refreshes change the same data, two of them share one temporary file,
  and the process may end anywhere;
* **one answer in four formats**: the calls and arguments a client gets are
  collected by block index in one format, by place in another, and by the tool
  manager in the last two;
* **rearranging a conversation**: turns are merged, paired, padded and filtered in
  different places, and tool results must stay behind their calls;
* **arbitrary chunking and damage** of a length-prefixed format whose checksums
  are not looked at.

What makes each component correct is the list of properties in section 4;
`PROJECT.json` lists the hazards line by line.

## 2. The modules

```
ClientView ── SSEState ──────────────┐
StreamEvents ── ToolLifecycle ───────┼── StreamPipeline ── implements ClaudeStream
                     └── ToolArguments ── ResponseFormats
HeaderParser ── RobustParser ── MCRobustParser
RequestHistory ── MCRequestHistory
TokenPool ── MCTokenPool
CredentialStore      CredentialRotation      UserTokenCache
proofs: SSEStateProofs StreamPipelineProofs ResponseFormatsProofs RequestHistoryProofs
        TokenPoolProofs CredentialRotationProofs UserTokenCacheProofs
        DamageProofs (RobustParser, CredentialStore)
```

**`SSEState`** has one action per handler of `SSEStateManager.SendEvent`. The
handlers are total, as in the code: refuse, repair, or let through. `client`,
defined in **`ClientView`**, is what the receiving end has seen; it records the
rules of the Claude event sequence that were broken (`faults`). A missing map
entry is a block of type `none`. The alone-standing `Spec` lets the caller send any
event at any time, since the manager's promise holds for any caller.

**`ToolLifecycle`** models the three handlers of the tool manager. The events each
returns are given by an operator of the same name, so that the pipeline can queue
them in the step that changes the manager. **`ToolArguments`** composes it with
`LegacyToolUseEventHandler` and the aggregator and follows the JSON text of a call,
cut into `Pieces`, to its two destinations: the `input_json_delta` events and
`Arguments` of the execution. Parsing succeeds exactly on the whole text and
falls back to `{}` otherwise, as in the code. Its upstream begins calls, with a first
message of the one kind or a request of the other, also under an id whose call
has ended: the handlers look at active calls only
(`parser/message_event_handlers.go:655-696`), so the id is registered again beside its
completed entry. `upstream` notes how often an id was used (`times`) and whether each
call before was stopped (`clean`); `MaxCalls` bounds the calls begun. A late piece of a
call that has ended, being no JSON object by itself, begins a call with an empty input.

**`StreamPipeline`** is one request: the state manager in production mode (by way of
`INSTANCE SSEStateProofs`, which brings its lemmas along), the tool manager, the thinking context, and a queue of events between the parser and
the stream processor. `Upstream` actions are the message handlers, `ProcessEvent`
the event loop, `EndOfStream` is `sendFinalEvents`. The abstract promise is
**`ClaudeStream`**: a message is started, blocks open and close, one message_delta
comes with no block open and with a reason that fits the blocks, message_stop
follows, and this happens.

**`ResponseFormats`** extends `ToolArguments` by the other consumers of its events.
`Receive...` actions are the message handlers with the events they return,
`Process...` the cases of the OpenAI event loop, `ReadError` and `EndOfBody` the read
loop, `Finish` what is sent after it. `openai` is what the OpenAI client has put
together; `AllTools`, `WholeStopReason` and `WholeFinishReason` are the two answers
that are sent whole, at the end of the same body. Its specification implements that of
`ToolArguments`, so what is proved there is true here.

**`RequestHistory`** follows one conversation from either endpoint to the request for
upstream: the check of the last message or the OpenAI conversion, the current message,
one step of the history loop per message, the placeholder for user messages that
are left, and the validation. An entry remembers the messages it was made `from`.
`MCRequestHistory` gives the kinds of messages.

**`HeaderParser`** has the phases of the header parser, one unit of data at a
time; **`RobustParser`** the buffer, the impossible and the incomplete lengths, and
the forced completion of broken headers. Units stand for fields, not bytes:
`<<total, header length>>`, headers, payload. A length read at a place where none was
written is whatever stands there.

**`TokenPool`** has one action per critical section of a request (`Select`,
`RecordRequest`, `ShouldRotate`, `ResetTokenCount`, `Rotate`, `Charge`,
`ReadCurrentKey`, `MarkTokenCooldown`, `FailOver`), and time as actions (entries
expire, the TTL passes, cooldowns end, midnight). `quota`, `drawn` and `streak`
are history kept for the properties. The warm-up at `NewAuthService`, which selects a
token and makes no call, is a request that finishes.

**`CredentialRotation`** numbers the refresh tokens of an account in the order of
issue. `RefreshCache` is `refreshCacheUnlocked`; `Persist` is the goroutine, with
`os.WriteFile` split into create and write, and rename and remove apart; `Restart`
ends the process at any point. `shared` is history: a goroutine opened the temporary
file while another one used it. **`CredentialStore`** has the operations of the
store, each followed by the three system calls of `saveUnsafe`, each of which may
fail, and by the end of the process at any point. **`UserTokenCache`** splits
`GetOrRefresh` at its locks; `TouchKey` is the search and the move under the write
lock, `Store` the eviction, the entry and its place in the order.

## 3. Assumptions about the outside

They are constants or named operators, never silent.

* **Upstream of `StreamPipeline`** (`Liberties`): nothing follows a content-length
  exception; a thinking response has no such exception, no tool call, no text before the
  tag, and no text that bypasses the scan for the tag. Each is a thing the code does not
  handle well: with `plain_text_in_thinking`, completion chunks and
  assistantResponseEvents in the old format (`parser/message_event_handlers.go:117-179`,
  520-568) come in a thinking response too; their text_delta goes to index 0 whatever
  the mode, so it lands in the thinking block while that is open, which TLC reports as
  `Faultless` violated, and is dropped once it is closed, which violates
  `ThinkingDelivered`. With `overflow_in_thinking` TLC finds a delta sent after
  message_stop (`sendFinalEvents` flushes the thinking buffer of a message that has
  ended, `server/stream_processor.go:217-228`), and `tools_with_thinking` is the run
  `stream_thinking_tools` below.
* **Upstream of `ToolArguments` and `ResponseFormats`** (`ObjectThenStop = FALSE`): a call whose whole
  object came at once gets no separate stop without data. With `TRUE`, `SameCall`
  fails: the aggregator has collected nothing and its callback sets the arguments to
  `{}` although the comment at `parser/message_event_handlers.go:702-706` expects
  the complete data to be kept.
* **Ids that come back**: nothing is assumed about them, but what the formats do with one
  bounds what is true. A call whose id returns while its first call is completed is
  listed twice in the whole message (`server/handlers.go:284-299`), and the stream joins
  the pieces of both under one block. So the clauses of `FormatsAgree` and `SameCall`
  about one call are about ids that were used once, `FormatsAgree` says that only
  an id used again is listed twice, and `JoinedArguments` holds of an id whose earlier
  calls were all stopped: a call left without its stop leaves pieces in the buffer that
  the next one's are appended to.
* **Clients**: `ToolTurns` is about conversations that keep the tool protocol themselves
  (`ResultsHaveCalls`, `CallsHaveResults`) and do not end with two user messages
  (`Split`), which the code takes for impossible (`converter/codewhisperer.go:499`) and
  answers with a placeholder that parts a call from its result. The other properties
  of `RequestHistory` hold of any conversation.
* **Refresh**: upstream answers with a new refresh token or the same one, and a
  replaced one is void. `MaxOvertaken = 1`: at most one refresh happens
  between the start and the end of a write-back goroutine. Refreshes are at least the
  cache's TTL (5 minutes) apart and a goroutine only writes two small files, so this
  is a statement about time. With 2, TLC shows `NeverBack` failing: a goroutine that
  read the cache before a refresh assigns what it read after it.
* **User cache**: `SizeBounded` and `OrderOfEntries` are stated relative to
  `outdated`, the number of stores whose lookup was no longer true. Without that
  term they are false: `maxSize` (`auth/user_token_cache.go:11`) can be exceeded
  for good by two requests of one user that both miss.
* **Damage**: at most one unit of a body is changed on the way.
* **Frames** (`FramesAssumption`): a message is not longer than the limit, none of the
  two headers the parser looks for comes twice in it, and its last header has a value.
  The last is a real limit of the code: a message that ends with an empty value loses
  that header, and gets the ones it lacks made up (`parser/header_parser.go:93`).
  The other headers, their number, order, types and values, are free. Only
  `DamageContained` rests on this; the other properties of the parser hold of any body.
* **The sender** ignores write errors, as `AnthropicStreamSender` does: a client
  that goes away just stops receiving.

## 4. What is checked

| Run | Instance | Properties | What it shows |
|---|---|---|---|
| `sse` | 3 block indices, any events | `Agreement`, `NeverRepeated`, `ClosedBeforeMessageDelta`, `FreshIndex` | the manager's record is what the client saw, through every auto-start and auto-close |
| `responses` | 3 calls under 2 ids and the malformed id "", 2 pieces, 3 failed reads in a row; texts and thoughts anywhere | `DistinctBlocks`, `RegisteredHaveBlocks`, `JoinedArguments`, `SameCall`, `OpenAIFaultless`, `OpenAIArguments`, `FormatsAgree` | interleaved calls keep apart; every format gives the same calls, arguments and reason, and an id used again is the only one listed twice |
| `history` | up to 5 messages of 12 kinds, both endpoints | `Carried`, `Paired`, `ToolTurns` | no message or result is lost or out of order, turns alternate, results follow their calls |
| `stream` | 3 tools, 7 messages | `Faultless`, `ToolsDelivered`, `ThinkingDelivered`, `StableBlocks`, `ImplementsClaudeStream` | a legal and complete sequence that ends, with a fitting stop reason |
| `pool` | 2 requests, 2 tokens, limits of 1 | `OverdraftBounded`, `DailyLimitKept`, `UseBounded` | by how much interleaving can exceed each limit |
| `framing` | up to 3 frames of 4 kinds, all chunkings, any one unit damaged | `BufferBounded`, `ChunkingInvisible`, `DamageContained` | cutting makes no difference; damage stays in its frame |
| `store` | up to 2 accounts, 2 passwords, 1 session; every operation, every failure point | `PromiseKept` | what was promised survives |
| `rotation` | 2 accounts (file, store), 2 goroutines, 3 refresh tokens, 1 restart | `FilePersisted`, `NeverBack`, `WritesCurrent` | write-back to the file works beside refreshes; only goroutines that share the temporary file can leave the file torn |
| `user_cache` | 4 keys, 2 requests, size 2, 2 outdated stores | `SizeBounded`, `OrderOfEntries` | size and order are wrong only by outdated stores |

Every run also checks the type invariant of its module (`FormatsTypeOK` in `responses`,
`FramingTypeOK` in `framing`).

Three runs check a claim of the repository that the code does not keep; TLC finds a
counterexample, and `PROJECT.json` quotes the claim.

* `stream_thinking_tools` / `StopReasonHonest`: text after thinking and the first
  tool both take index 1. The tool's start is refused while the text block is open,
  the processor books it anyway, and the message ends with stop reason `tool_use`
  and no tool_use block.
* `pool_wrong_token` / `FailedTokenCools`: on a 403 or 429 the token at the pool's
  current position is cooled. One request is enough: when its selection triggers
  the rotation, the pool has moved on before the call is made.
* `store_rotation` / `RotationPersisted`: refresh notes the new token in `configs`
  before the goroutine compares the cache with `configs`, so `persistToStore` is
  never reached. The file is written in any case, which is why `FilePersisted`
  holds.

Bounds. `MaxIndex` is one more than what two text or thinking blocks and a tool need
to collide; `MaxMessages = 7` is enough for three calls to be requested, fed and
ended, with an error or an exception among them. `responses` needs two ids, as places
and blocks can only be mixed up between two, three calls so that one of them comes back
beside another, and two pieces for a call that is cut short and one that is whole; the
proofs cover every number of each. Five messages in `history` are two turns with their answers and a current
message, or three messages to merge; its kinds have every block alone and with each other
block a guard tells apart. In `pool` limits of one make every
limit bind at once; two requests are the smallest number for which each bound differs
from its sequential value, and the proofs cover every number. `framing` needs two frames for a
cut or a damaged header to matter to another frame, and three for one in the middle;
`MaxSize = 11` lies above the longest frame and below a damaged length. `rotation`
needs two goroutines on one temporary file and three numbers to go back by one.
`user_cache` needs more keys than entries and two requests. `Pool_wrong_token` uses one
request: the disagreement is not about concurrency.

Symmetry is used in `pool` only, over requests; no liveness is checked there.
`CHECK_DEADLOCK FALSE` is set where the system really stops: `responses` (the
answer is complete), `history` (the request is sent or refused), `framing` (the body has ended), `rotation` (the bounds on refresh tokens and
restarts are reached).

Fairness is stated in `StreamPipeline` only: `WF(ProcessEvent)`, the goroutine of the
request keeps working through its queue, and `WF(EndOfStream)`, the body ends. The
first is Go's scheduler; the second is an assumption, as the shared client has no
timeout for reading a body (`utils/client.go:75-78`): an upstream that neither sends
nor closes keeps the request open. No fairness is assumed of the upstream's messages.

## 5. What is proved

All theorems hold for every value of the constants allowed by the named assumptions
in the modules (`StrictModeAssumption`, `PipelineAssumption`, `ArgumentsAssumption`, `PoolAssumption`,
`SizeAssumption`, `FramesAssumption`, `StoreAssumption`, ...). They restrict constants
only, and TLC evaluates them in the runs.

* `SSEStateProofs`: `TypeCorrect`, then `FreshIndex`, `Agreement`, `NeverRepeated` and
  `ClosedBeforeMessageDelta`. The invariant `IInv` is the conjunction of the
  type invariant with the last three, and `Agreement` is what the other two rest on: the client's faults can be read off what the manager
  believes only because the beliefs are right.
* `StreamPipelineProofs`, in two parts. Whatever the upstream sends, `TypeCorrect` and
  `StableBlocks` hold; their invariant is `PipelineInv`: the tool manager's books, the
  state manager's `IInv`, a queue of events. With an upstream that takes none of the
  `Liberties` (the assumption of the run `stream`; section 3 says what each liberty
  breaks), `Faultless`, `ToolsDelivered`, `ThinkingDelivered` and `StopReasonHonest` hold
  for any number of tools, blocks and messages, and every step of the pipeline is one
  `ClaudeStream` allows or leaves its view of the client alone: the safety half of
  `ImplementsClaudeStream`. None of this is inductive as it stands. The parser has run
  ahead of the processor, so `StreamInv` has to say what the queue can still hold:
  in which orders its events come (`ShapeInv`), what each may be about (`EventsInv`),
  and that the one processed next finds the block it needs (`HeadInv`, `MessageInv`). It
  ties the bookkeepers together: an index stands for one type of block and a tool's
  block belongs to a call (`BlocksInv`); a call the parser took on is still queued, or
  shown to the client and booked by the processor (`ToolInv`), which has booked one
  exactly when the client has seen one (`BookInv`); only text is dropped, and nothing of
  a thinking response (`DropInv`), whose machine knows which block is open
  (`ThinkInv`). TLC accepts
  `StreamInv` as an invariant of the instance of the run `stream`. `StopReasonHonest`,
  proved here, is what the run `stream_thinking_tools` violates once the liberty is
  taken.
* `ResponseFormatsProofs`, first about `ToolArguments`: `DistinctBlocks` and
  `RegisteredHaveBlocks` from an invariant on the lifecycle alone (indices are below the
  next one, registered calls have one, no two share one); `StableBlocks` as an action property; `SameCall` and
  `JoinedArguments` from an invariant that ties the aggregator's buffer and the
  joined stream to what upstream has sent so far (`CallInv` while an id is used for the
  first time, `CleanInv` while all its calls were stopped); and that `ToolArguments` implements
  `ToolLifecycle`.
  Its `TypeCorrect` says that every buffer and stream holds pieces of calls and the
  arguments are the whole text or `{}`.
  Then about its consumers: `FormatsTypeOK`, `OpenAIFaultless`, `OpenAIArguments`,
  `FormatsAgree` (under `~ObjectThenStop`) and that `ResponseFormats` implements
  `ToolArguments`, which brings its invariants here. The strengthening is `FInv`: blocks
  are handed out without gaps and a call that ended is active again only when its id was
  used again (`ParserInv`), the
  place noted for a block is that of its call and the blocks noted are the parser's, or
  their start is still queued (`IndexInv`, `BlockInv`), and what the client has put
  together with what is still queued for it is what was sent (`QueueInv`).
* `RequestHistoryProofs`: `TypeOK`, `Carried`, `Paired` and `ToolTurns` for every
  number and kind of messages. The invariant says where the loop is and what waits in
  the buffer (`PhaseInv`, `Waiting`), that the entries hold every message that was
  converted, once and in order (`AllThere`, `InOrder`), with its own role and results
  (`Truthful`), that roles alternate, that an assistant entry comes right after the user
  messages it answers (`Answers`), and that entries without messages come first, or are
  the placeholder at the end (`ShapeInv`). `ToolTurns` is argued from these and from the
  protocol the client keeps.
* `UserTokenCacheProofs`: `TypeOK`, `SizeBounded` and `OrderOfEntries` for any number
  of keys and requests. The two bounds are not inductive. The invariant adds that the
  entries the order has lost and its length together are at most `MaxSize + outdated`:
  an eviction may hit a place that stands for no entry, and makes no room then.
* `TokenPoolProofs`: `TypeCorrect`; `DailyLimitKept` from `DailyInv` (the requests of a
  token that are past the test and not counted yet are part of the sum);
  `OverdraftBounded` from `OverdraftInv`, which adds to the calls drawn those whose
  charge is still to come and is in the cache or lost with a replaced object;
  `UseBounded` from `CountInv` and `StreakInv`, where the sum
  `C(C-1)/2` counts the uses that requests stopped between reset and rotation wipe
  out. The bounds are not the obvious ones; each was found with TLC, and holds for any
  number of requests and tokens.
* `CredentialRotationProofs`: `TypeOK`, `FilePersisted` and `WritesCurrent` for any
  number of accounts, goroutines, refreshes and restarts, and `NeverBack` under
  `MaxOvertaken <= 1`. Goroutines that share a temporary file take it from each other,
  so the invariant says of each what may have become of it: while one is under the
  read lock the file at that name is current, gone, or being written (`TmpInv`), and a
  goroutine that lost its file lost it to a rename, after which the config file is
  current or being written (`RobbedInv`). What is assigned to `configs` was in the
  cache, and an account in the cache was loaded at the start (`LoadedInv`).
  `WritesCurrent` adds that a goroutine which opened the temporary file while nobody
  used it has it to itself until another opens it (`AloneInv`): what it renames is whole
  and current, whatever fails and wherever the process ends. The comment in the code
  says the write is atomic (`auth/token_manager.go:550`); that is true of such a
  goroutine only. Two that share the file name, which the read lock allows, can rename
  what the other has emptied, and if the other fails or the process ends before it
  writes, the config file stays torn. `WritesCurrent` allows exactly that case by name,
  and that the file then is torn or current, never out of date. `NeverBack`
  adds that what a goroutine assigns already is there (`AssignInv`): it only gets that
  far when a refresh has overtaken it, and a second one does not.
* `DamageProofs`, about two components that share nothing.
  The parser of the event stream, for bodies of any length: `BufferBounded` from
  `BufferInv` (the parser waits only for lengths it would accept); `FramingTypeOK`;
  `ChunkingInvisible` from `ChunkInv`: however much more of the body is looked at, one
  parse of it returns what was returned so far, followed by what it finds from `read`
  on; so cutting makes no difference whatever the bytes are. `DamageContained` from
  `PlaceInv`: when the total lengths are intact, the parser stands at the start of a
  frame, and of the frames before it each was returned as it was sent, except the
  damaged one, which was returned or left out. That a frame that is not damaged is read
  as it was meant (`FrameMeant`) is an argument of its own: every prefix of its headers
  leaves the header parser between two headers, holding what those headers say, or in
  front of one empty value that the next unit completes.
  These facts are inductions over data, and the definitions are recursive functions. The
  provers have neither, so the module starts with both: induction over a set of numbers
  (`SetInduction`, from the pigeonhole theorem on finite sets) and with it that a
  function defined by recursion exists and satisfies its equation (`Recursion`), which
  is then used for the folds over sequences, the header loop and the parse.
  The admin store: `PromiseKept` from `SaveInv`, which says what the temporary
  file holds at each step of a save; and `TypeOK`, for which `SaveInv` gives that only a
  whole file is renamed, and lemmas say what each operation leaves: one token of many
  changed or removed, a batch without the entries that have no credential, and the
  three modes of an import.

## 6. What is only model-checked

The liveness half of `ImplementsClaudeStream`, that a message that was started is
ended: fairness and `ENABLED` are out of the prover's reach. Every invariant and every
action property that a passing run checks is also a theorem. Some of these theorems
have the assumption of their run as a premise: `Faultless`, `ToolsDelivered`,
`ThinkingDelivered` and the steps of `ImplementsClaudeStream` suppose that `Liberties` is
empty, `SameCall`, `JoinedArguments` and `FormatsAgree` that `ObjectThenStop` is false, and `NeverBack`
that `MaxOvertaken` is at most one; section 3 says what happens otherwise.

## 7. What the models leave out

* Waiting times of the rate limiter: they delay and decide nothing (`WaitForToken`). The
  length of a cooldown is left out with them; the scan that finds a cooldown over sets
  the count of failures to zero (`auth/rate_limiter.go`), so a token that fails again
  after its cooldown waits as long as the first time.
* The 10 seconds a response that is not streamed may take to parse: the body is in memory
  by then. The goroutine that parses goes on after the limit and writes variables the
  handler reads (`server/handlers.go:229-262`).
* A content-length exception in the OpenAI formats: neither maps it to `length`, so the
  models end with the reason of a normal end, as the code does.
* What a request has beside messages: schemas of tools, the tool choice, model names,
  the number of tokens. `ModelNotFound` may refuse any request.
* Contents the request conversion drops, which the model has and no property denies: the
  text of a message that also has tool results, images of history messages without
  text, `system` and `tool` messages of the OpenAI endpoint and `tool_calls` of its
  assistant messages (`converter/openai.go:13-74`). Results of `web_search` calls are sent
  without their call, which is filtered out.
* Events the manager only forwards (ping, error, completion, session), thinking
  events that upstream marks as such (they use index 0 whatever else does), and the
  assistant event with a complete answer, whose start, delta and stop of block 0 come at
  once (`parser/message_event_handlers.go:478-518`).
* Bytes: UTF-8 sequences cut between fragments, backquotes and quotes around tags.
* Suspension: `auth/usage_checker.go` records it under a key that no selection asks
  for, so it changes nothing.
* Text that comes after a tool call in a response without thinking is dropped:
  `tool_lifecycle_manager.go:332-339` expects block 0 to stay open, and
  `sse_state_manager.go:145-170` closes it. The model has it (`dropped`); no
  property claims otherwise.
* Disabled entries of the config file, which a write-back removes from the file. Nor is
  the flag in the store part of the write-back: `persistToStore` calls `UpdateToken` with
  a `TokenConfig` that has nothing but the refresh token, which enables an account that
  an administrator has disabled since it was loaded (`store/store.go:362`); the call is
  not reached in the first place, as `store_rotation` shows.
* Where inside a header's name or its size headers are cut short: the parser treats such
  a cut as an error, and the model knows cuts between these parts and inside values.

## 8. Plan

Done, in this order: SSE state manager, tools, streaming pipeline with its abstract
specification, token pool, framing, store, write-back, user cache, response formats,
request history; proofs of all of them.

What would come next:

1. A module for the scan for thinking tags in chunks, compared with a parse of the
   whole text, and for UTF-8 fragments.

Not modelled, as they keep no state, none that operations share, or none that a
request depends on: routing and middleware, token estimation, configuration, logging,
fingerprints, conversation ids, the session manager, the proxy pool (only its status is
shown to administrators and its health check run, no request goes through it), and the
refresh manager that only its test uses.
