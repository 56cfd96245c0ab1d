# A TLA+ model of over/ACP

over/ACP runs coding agents behind WebSocket tunnels. An operator pushes
messages to an agent over REST; a broker (`server`) routes them to the agent's
tunnel or buffers them; on the agent's side a supervisor (`agent`) bridges the
tunnel to the stdio of `overloop` (`loop`), which runs the turns: it calls an
LLM, executes tools, compacts its context and reports back. This directory
models that system in TLA+, checks the models with TLC and proves every safety
invariant the runs check with TLAPS. Line numbers refer to the files
under `src/`.

## 1. Inventory

| Component | State | Operations | Talks to |
|---|---|---|---|
| Agent registry, in memory (`server/src/registry/agent.rs`) | `connected` map, `recent` disconnect log (two locks) | register, unregister, get/deliver, disconnect, list, describe, touch | tunnels, REST handlers |
| Message queue, in memory (`server/src/registry/queue.rs`) | one bounded FIFO per agent | push, drain | REST handlers, tunnels |
| WebSocket tunnel (`server/src/tunnel/run.rs`) | mpsc channel, socket, lease; main, write and ping task | acquire, drain, read loop, write loop, teardown | registry, queue, dispatch, SSE broker |
| Tunnel dispatch (`server/src/tunnel/dispatch.rs`) | none | answers the agent's requests through the operator's hooks | hooks |
| SSE broker (`server/src/tunnel/broker.rs`) | one broadcast channel of 128 frames per agent | subscribe, publish | tunnels, `stream_events` |
| REST API (`server/src/api`) | none of its own | push message, cancel, delete, list, describe, events, mint token | registry, queue, SSE broker |
| Authentication (`server/src/auth.rs`, `routes.rs`) | signing key | validate, mint, role and agent checks | REST API, tunnels |
| Redis backend (`server/src/redis_backend`) | owner lease, connected set, recent set, inbox stream and consumer group, offline buffer, control channel | acquire, takeover, heartbeat, release, deliver, inbox consumer, autoclaim | all of the above, on several instances |
| Supervisor (`agent/src`) | child process, WebSocket | connect with retry, bridge both directions, reap | broker, overloop |
| overloop ACP client (`loop/src/acp.rs`) | pending notifications, request id | requests with notifications interleaved, next push | supervisor |
| overloop turn loop (`loop/src/main.rs`, `agentic_loop.rs`) | message list, per-turn counters | boot, turn iterations, tools, wind-down, silence, turn end | ACP client, LLM client, compaction |
| Compaction (`loop/src/compaction.rs`) | none | split and rebuild of the message list | LLM client |
| LLM client and retry (`loop/src/llm`) | attempt, budget and backoff of a call | stream, complete, classify, escalate | LLM provider |
| Streamed responses (`loop/src/llm/client.rs`) | line buffer, partial tool calls | take a chunk, take a line, apply a delta | LLM client |
| Message content (`loop/src/llm/types.rs`, `resolve.rs`, `observability/preview.rs`) | the blocks of the message list | type, resolve file URLs, convert tool results, snapshot | turn loop, tracing |
| Tools (`loop/src/tools`, `loop/src/mcp`) | tool tables, MCP clients and their sessions | register, list, dispatch by name, MCP requests, builtin tools | ACP client, MCP servers, workspace |
| Observability (`loop/src/observability/langfuse.rs`) | per turn: trace id, counts | create, record, finalize, each a spawned post | Langfuse |
| Local compute provider (`compute/src/providers/local.rs`) | node table, child processes, log channels | create, list, describe, delete, exec, stream logs | child processes |
| Compute configuration (`compute/src/config`) | cache of parsed secret files | parse references, resolve, load | environment, files |
| Error-report rate limit (`common/src/sentry_rate_limit.rs`) | time of the last report per key | should_send, prune | sentry |

What is hard in this system is the timing. A tunnel's main task, its write task
and every REST handler run concurrently on tokio's threads and share two
separately locked stores; sockets fail at any point; an agent reconnects while
its old tunnel is still there; pushes arrive while overloop waits for the answer
to a request on the same pipe; a compaction may strike in the middle of a tool
exchange; LLM calls fail half way through their output. With Redis, several
instances race for the ownership of one agent. The properties that make the
components correct:

* broker: a push that was accepted is in exactly one place (buffer, channel,
  socket, or lost with a socket) and in one that belongs to its agent; a cancel
  never outlives the tunnel it was meant for; buffered pushes reach the next
  tunnel; the registry never names a dead tunnel.
* ACP client: an answer belongs to the request that waits for it; pushes are
  taken once each and in order.
* turn loop and compaction: whatever happened before, the LLM gets a history in
  which every tool call has its result, led by the system prompt; turns end.
* LLM client: the caller sees the output of one attempt; the retry budget is the
  one of the failure at hand.
* supervisor and SSE: nothing is lost between the child and the broker while the
  bridge runs, nor when the child's output ends; a subscriber misses frames only
  by lagging; the supervisor ends, but for two ways to hang that are named, and
  the workspace goes after the child.
* Redis backend: the latest tunnel holds the lease and is listed; an accepted
  frame is handed to a tunnel or dead-lettered, never forgotten; an SSE client
  gets one stretch of what was published.
* agent's parts: a response is put together from chunks as it was sent; the tool
  the LLM was shown is the one that runs; an image's file URL is inlined before
  it reaches the LLM; what is read page by page fits together; tracing
  never holds a turn up and files every event under its own turn; equal error
  reports are spaced, and one is dropped only on account of one that was sent.
* services: an id in the node table is the pid of that node's own process; a
  workspace goes only after its process; a configuration is resolved from one
  version of each file; nobody opens anything without a grant for that agent.

## 2. Modules

| Module | Models | Uses |
|---|---|---|
| `AgentRegistry` | the two maps of the in-memory registry, each lock region an operator | |
| `MessageQueue` | the bounded per-agent buffer | |
| `TunnelBroker` | tunnels and REST handlers as concurrent tasks over both stores | `AgentRegistry`, `MessageQueue` |
| `RegistryView` | list and describe, two reads each, racing the broker | `TunnelBroker` |
| `MessageDelivery` | abstract specification: what happens to a push | |
| `BrokerDelivery` | refinement mapping from `TunnelBroker` to `MessageDelivery` | `TunnelBroker`, `MessageDelivery` |
| `BrokerProofs` | types, registry entries, the disconnect log, routing, cancels, the order of pushes, the registry's views; every push in one place, the refinement | `RegistryView`, `BrokerDelivery` |
| `AcpClient` | one request in flight, notifications interleaved, failing pipes | |
| `Compaction` | pure operators: where to split a history, what is rebuilt | |
| `AgentLoop` | overloop from boot to exit | `AcpClient`, `Compaction` |
| `LlmClient` | one LLM call: attempts, escalation, backoff, streamed output | |
| `RedisLease` | the owner lease of one agent: takeover, heartbeat, expiry, release, control channel | |
| `RedisInbox` | the inbox stream, its consumer group, autoclaim, dead letters | `RedisLease` |
| `RedisBroker` | tunnels on several instances and pushes over both, crashes and lost replies | `RedisInbox` |
| `RedisViews` | list and describe over the connected and recent sets, against leases taken and released command by command | `RedisLease` |
| `RedisStream` | the Redis SSE broker: PUBLISH, one task and connection per subscriber | |
| `Supervisor` | overacp-agent: connect, spawn, the two bridge directions, reap, push back | |
| `StreamFanout` | the SSE broadcast channel of one agent, with lagging subscribers | |
| `AgentSession` | child, supervisor, tunnel read loop and subscribers end to end | `Supervisor`, `StreamFanout` |
| `StreamParser` | the reader of a streamed completion | |
| `Content` | message blocks, file URLs, tool results, the tracing snapshot | |
| `ToolRegistry` | the table of tools, MCP servers and sessions, dispatch of calls | |
| `BuiltinTools` | read, write, exec, search and media on one file, commands left running | |
| `Tracing` | Langfuse events as spawned posts | |
| `RateLimit` | the limiter of error reports under several threads | |
| `ConfigReference` | the parser of configuration values, against its documented grammar | |
| `LocalProvider` | the node table, its futures and the operating system's pids | |
| `FileConfig` | concurrent resolve() calls over the cached file provider | |
| `Access` | tokens, their claims and checks, every route, open connections | |
| `CompactionProofs` | where a history is split; recursion over the naturals | `MCCompaction` |
| `TextProofs` | message content, streamed responses, configuration values | `Content`, `StreamParser`, `ConfigReference`, `CompactionProofs` |
| `AgentLoopProofs` | the ACP client inside the loop, the working context | `AgentLoop`, `CompactionProofs` |
| `AgentPartsProofs` | rate limit, retries, tracing, tools, builtins | `RateLimit`, `LlmClient`, `Tracing`, `ToolRegistry`, `BuiltinTools` |
| `AgentSessionProofs` | bridge, workspace, fan-out | `AgentSession` |
| `RedisProofs` | lease, pushes, directory, notifications | `RedisBroker`, `RedisViews`, `RedisStream` |
| `ServicesProofs` | configuration, tokens, node table | `FileConfig`, `Access`, `LocalProvider` |
| `MCAgentParts`, `MCServices`, `MCRedisBroker` | parts without common state in one specification each, one part per behaviour | the modules above |
| other `MC*` | symmetry sets, boot histories, enumerated inputs | |

### How state and actions correspond to the code

**`TunnelBroker`.** A tunnel's main task has a program counter `tpc` that stops
wherever another task can observe shared state: `Connect` is the insert of
`register()` and `FinishRegister` its purge of `recent` (two locks); `Drain`
takes the buffer; `SendBuffered` puts one drained frame on the channel; the read
loop is `ReadRequest`/`ReadEnd`; `DropLease` and `LogDisconnect` are the two
halves of `unregister()`; `Abort` ends the task. The write task has actions of
its own (`WriteFrame`, `WriteIntoVoid` for a peer that is gone but whose socket
still accepts bytes, `WriteBreak` for a failed send or ping, `WriteAborted`).
`Lookup` is the `get()` inside `deliver()`, which returns a clone of the entry
(`view`), `SendLive` the send on that clone, `FallBack` what the handler does
with `NoTunnel`: a message goes to the buffer or is refused, a cancel is
dropped. `DeleteCheck`/`DeleteRemove`/`DeleteLog` are `disconnect_agent`.
`DropLease` removes the agent's entry whichever tunnel it belongs to, because
`unregister` looks it up by agent id only. The history variables are `received`,
`prior` and `lost`.

**`RegistryView`** follows one agent through a query, since list() treats agents
independently of each other.

**`MessageDelivery`** knows, per push, only whether it is new, buffered, in
flight, received, lost or refused; **`BrokerDelivery`** computes that from the
broker's state.

**`AcpClient`** has one request in flight. A response is matched by being a
response, not by its id, as in the code; ids are kept modulo `IdSpan` to state
that the answer nevertheless belongs to the request. Notifications read while a
request waits go to `pending` and are taken before stdin.

**`AgentLoop`** has one program counter; every exit of `run()` is an action, and
every request of the ACP client is two (send, await). The LLM's answers and
failures, the outcome of a tool, the token estimate and the quota answer are
choices. A pushed message has the role it was pushed with (`RoleOf`); one of role
"tool" is a "stray", a tool message without a tool_call_id. Tool calls are numbered the same way in every response, so that ids
repeat across responses, as some providers do.

**`Compaction`** translates `find_safe_split` and `has_straddling_pair` with
recursive functions of the position; a message is its kind, its tool calls, or
the call it answers.

**`LlmClient`** represents a failure by its classification. Its budget, attempt
counter and backoff exponent are those of `retry.rs`; escalation replaces the
budget by that of the new class.

**`RedisLease`, `RedisInbox`, `RedisBroker`** follow one agent on several
instances. Every Redis command or Lua script is one step, and a step may fail
before or after it took effect (`Fault`, at most `MaxFaults` times). A tunnel's
main task (`tpc`) goes through GET, PUBLISH takeover, SET, the directory
pipeline, the consumer group, the drain; its heartbeat (`hb`), release task
(`release`), control subscriber (`control`) and inbox consumer (`cpc`) run
beside it. Redis itself is modelled from how the code uses it: the owner key
expires when nobody renews it, XREADGROUP makes an entry pending under the
consumer's name and counts a delivery, XAUTOCLAIM moves it. Consumers are named
after their instance, and `consumer_handles` has one slot per instance and
agent (`handle`), so that `Close` aborts whichever consumer is in it. A sweep
claims one entry at a time. The tunnel directory is written and never read; it is
left out. **`RedisViews`** takes the same lease steps (`TakeKey`,
`ReleaseOwner`, ...) and adds the pipelines around them one command at a time,
since a pipeline is not a transaction; the readers' two reads are
`ReadConnected` and `ReadRecent`, with `Hydrate` for the claims snapshot, which
expires on its own. **`RedisStream`** starts a subscriber's task after the
response has begun (`SubscribeStream`, `Subscribed`), forwards what Redis has
sent it, and ends the response with its connection.

**`Supervisor`.** `spc` is where `run_with` is. The two futures of the bridge's
`select!` are `WsToStdin` and `StdoutToWs`; each stops with at most one frame in
hand (`inHand`, `outHand`), which `EndBridge` drops together with the pipes and
the socket. Closing a socket on which frames wait unread resets the connection,
so that `up` may be lost too. A connection that breaks is "lost" until this side
learns of it, which it need not (`LossNoticed`). A child that exits first closes
its pipes ("leaving") and only then can be waited for, so `reap_child` may find
it running after its output ended; or a process it has started has inherited the
pipes ("heir"), and they stay open although the child can be waited for.
`ReapChild` is the `match` of `reap_child`: a kill that failed leads to
`WaitChild`, where the code waits for a child it could not kill, and errors of
`try_wait()` and `wait()` (`WaitFails`) let the push go ahead. Failed connection attempts only lengthen the next delay
and are stuttering steps. A frame cut in the middle of a line counts as lost.

**`StreamFanout`** keeps the whole channel in `bus` and a `cursor` per
subscriber; more than `StreamBuffer` frames behind it, `Receive` jumps to the
oldest frame that is left, and the error that says so is dropped
(`broker.rs` 76). **`AgentSession`** adds the read loop's `TunnelReads`, which
publishes the frames whose text contains one of four names (`Streamed`).

**`StreamParser`** cuts a body of lines into pieces smaller than a line and
hands them over in chunks of any size; `Chunk` appends to the buffer and drains
it line by line, as process_stream does, and `StreamEnds` builds the result;
`CallIndexes`, `CachedCounts` and `MaxLines` say which bodies there are.
**`Content`** keeps a text as the lengths of its characters in bytes, which is
what truncation depends on, with its origin where that matters (the JSON of an
operator's answer), and a block as its type and URL, in the shapes the resolver
tells apart; `Texts` is what may be said.
**`ToolRegistry`** goes through start-up server by server; a failed connect adds
no client, so that indexes shift. A restarted server has forgotten its sessions
and may list something else than before; any response may name another session,
which the client keeps. **`BuiltinTools`** has one file with a
version, `UsizeMax` for the arithmetic of paging, and the processes that outlive
the tool that started them: commands that timed out, and what a command left in
the background with its output redirected. An error of write leaves the file as
it was or with a part of the text. **`Tracing`** has a set of posts that end in any order or never;
Langfuse is external and merges events by id. **`RateLimit`** separates the
clock's reading from the lock. **`ConfigReference`** works on bytes, one step of
`ParseAt` per position as in the parser's loop, and is compared with `Render`,
the grammar at the head of `reference.rs`; `PlainBytes` are the bytes that mean
nothing to the parser, `Segments` what a value may be written from.

**`LocalProvider`** is create, delete and exec as futures with a program counter
each, any of which may be dropped at an await; the operating system's part
(fork, exit, reap, reuse of pids; tokio's kill_on_drop) is external. What a child
starts by itself is followed only as far as something here depends on it: `piped`
says whose pipes such a process has inherited and keeps open (overloop inherits
the agent's stderr, `agent/src/process.rs` 25), be the child alive or not.
**`FileConfig`** holds the cache's lock across the read, as the code does.
**`Access`** represents a token by its claims; mint computes `exp` in i64, and
tunnels and streams stay open once granted.

## 3. Runs

All runs but `agent_session`, whose subscribers come and go for ever, switch
deadlock checking off: a broker whose agents and operators stay
away, and an agent that has exited, may stop.

| Run | Instance | Shows |
|---|---|---|
| `broker_push` | 2 agents, 2 tunnels, 2 messages, buffer and log of 1 | `TypeOK`, with both bounds; `ExactlyOnce`; `NoMisdelivery` by handlers that hold stale entries; `OvertakesOnlyBuffered`: the only reordering is the drain's; `ImplementsDelivery`: the refinement |
| `broker_live` | 1 agent, 2 tunnels, 1 message, 1 request, fairness | `BrokerSettles` (`PushesSettle`, `BrokenTunnelEnds`), `BufferedReachesNextTunnel` |
| `registry_views` | 2 agents, 2 tunnels, a cancel, a DELETE, a query, log of 2 | `NoDanglingEntry`, `RecentLogOK`, `ConnectedIsReportedOnce`; `CancelNotReplayed` |
| `agent_parts` | each part of the agent process by itself, fairness | see below |
| `loop_context` | 2 turns of 2 iterations, one of them for a message of role tool, 2 parallel calls, a compaction each, histories with and without a prompt | `ContextOK` (`LoopTypeOK`, `ContextIsValid`, `PromptAndOneSummary`) |
| `loop_pushes` | 2 messages, one that does not parse, a cancel, fairness | `OwnAnswer`, `PushesInOrder`, `TurnsTerminate` |
| `ha_delivery` | 2 instances, 2 tunnels, 1 message, a directory reader, 2 subscribers, any 2 failures | `LatestHolderOwns`, `NothingForgotten`; `DirectoryOK` (`OwnerIsListed`, `ReportedOnce`); `OneStretch` |
| `ha_live` | 2 instances, 2 tunnels, 1 message, a crash, fairness | `RedisTypeOK`, `RedisSettles` (`InboxSettles`, `DeadLeaseEnds`) |
| `agent_session` | 3 pushes, 4 lines of which 3 are streamed, pipe of 1, buffer of 2, a subscriber, fairness | `BridgeOK` (`SessionTypeOK`, `BridgeConserves`, `CleanExitLosesNothing`), `GapOnlyByLag`, `WorkspacePushedAfterChild`, `SupervisorEnds` |
| `services` | provider, configuration and access each by itself, fairness | see below |
| `broker_reconnect` | 1 agent, 2 tunnels, 1 message | violated: `NoTunnelMeansNoTunnel` |
| `loop_turn_end` | one turn | violated: `EveryTurnIsEnded` |

A property of a part is often the conjunction of named ones, given in brackets;
each of those has a plausible change of the code that breaks it.

`agent_parts`, part by part:

* LLM calls, a streaming and a plain one, every failure sequence:
  `RetriesAreSound` (`OutputOfOneAttempt`, `UsesItsBudget`, `BackoffDoubles`).
* Bodies of up to three lines in every sequence of chunks: `ResponseIsFaithful`
  (`ParsedIsWhatWasSent`; `OutputIsFlagged`, on which the retry policy relies).
* Every history of up to seven messages and every `keep_recent`: `SplitIsBest`
  (`CompactedIsValid`: no tool exchange is cut; `CompactsAsMuchAsPossible`: no
  later safe split was passed over).
* Content: `ContentOK` (`NoFileUrlSent`, `SnapshotIsWhole`, `NoMediaInSnapshot`,
  `CutsBetweenCharacters`, `AcpErrorsAreErrors`).
* Two MCP servers, a builtin, operator tools, a restart: `ToolsOK`
  (`ToolsTypeOK`, `RunsWhatWasShown`, `SessionHolds`, `ShownOnce`).
* Builtin tools, four in a row, beside processes that were left running:
  `BuiltinsOK` (`PagesFitTogether`, `ReadingIsWhole`).
* Two turns of tracing: `TracesOK` (`FiledUnderItsTurn`, `TotalsCoverSpans`).
* Three reports of two threads: `ReportsAreLimited` (`ReportsAreSpaced`,
  `DroppedForASentOne`).
* Values of up to three segments: `ValueRoundTrips`.
* Under fairness: `PartsSettle` (`CallReturns`, `TracingNeverBlocks`).

`services`, part by part:

* Two nodes, two deletes, an exec, two pids and descendants that keep pipes open:
  `NodesOK` (`ProviderTypeOK`, `IdIsOwnProcess`, `ExitedIsReaped`,
  `DeleteTakesItsNode`, `ExecReturnsWhole`).
* Two resolvers of two references over two files that are edited and broken:
  `ResolvedOK` (`ConfigTypeOK`, `OneVersionOfAFile`).
* An operator, a client, two agents, tokens that expire and overflow: `AccessOK`
  (`OpenedWithAGrant`, `NoEscalation`) and, of every step, `TokensOK`
  (`MintedIsAccepted`, `ExpiryIsFinal`).
* Under fairness: `ServicesSettle` (`LogStreamsEnd`, `ResolvesReturn`).

**Bounds.** Two tunnels are the least with which an agent reconnects while its
old tunnel is still ending, which is where the registry's races are; a third
only repeats the second's role. Two messages and a buffer of one reach a full
buffer, a buffered and a live push in either order, and two live ones; that two
buffered pushes leave in their order needs a larger buffer and is shown by the
theorem `OvertakingIsBounded` alone. A second agent is
there so that something can be misdelivered, and with a log of one, two agents
that disconnect evict; in `registry_views` the log holds both, so that a
duplicate would stay in it. `BufferedReachesNextTunnel` excuses only a tunnel
that broke with the message in hand: with two tunnels of one agent, of which the
first may break before the push, the second must take it. In the loop, two iterations and two
turns reach every exit of a turn, compaction before and after a tool exchange
and a summary that is itself compacted; two parallel calls are the least that can
be split; `WindDownIters`, `SilenceLimit`, `MaxCompactions` and `KeepRecent` are
the code's parameters at small values. `IdSpan` distinguishes a request from its
predecessor. `MaxDeltas` bounds the chunks streamed per attempt. `MaxRequests`
bounds the agent's requests, whose replies share the channel with the pushes.
On Redis, two instances and two tunnels are a takeover or a reconnect to the same
instance; `MaxFaults` of two lets a reply get lost and an instance crash in one
behaviour; `MaxDeliveries` is 2, the least with which an entry is read again
before it is dead-lettered, and for liveness the buffer has no capacity, so that
every push is refused or live: of the buffer's bound `RedisTypeOK` meets only the
refusal there, the rest is the theorem `RedisTypeCorrect`. The failures of
`ha_live` are crashes; a consumer group that could not be created is not among
them, and its inbox then waits for a tunnel that creates it. `MaxFrames` of three is one before, one during
and one after a failure.
In the loop, one of two messages has the role of a tool, so that such a message
is in the context before, between and behind tool exchanges and compactions.
In `agent_session`, `MaxIn` of three is a frame in the pipe, one in hand and one
on the socket, and three streamed lines overrun a buffer of two.
In `agent_parts` and `services` the parts share no variable, so checking one per
behaviour loses no interleaving. Two servers are the least of which the first
can fail; `UsizeMax`, `MaxI64`, the snapshot's limits, `GrepLimit` and `MaxMedia`
are the code's at the scale of the inputs. Three lines with two call indexes are
two calls whose deltas interleave; three segments put a reference between
literals and beside another, with `$` and braces in literals and paths and
colons in literals and keys. `MaxClock` lets a window pass twice
and an entry be pruned; two pids for two nodes and an exec make pids come back.
`Symmetry` permutes model values that the specification treats alike; the runs
that check temporal formulas with fairness do not use it.

**Fairness.** Weak fairness of each tunnel's main task, write task and of each
handler: tokio schedules every ready task. Nothing is assumed of sockets, of
clients connecting, or of pushes arriving. In the loop: the process runs, the
broker answers what it has received, and the LLM client and tools return, which
`CallReturns` shows for the LLM client. On Redis: consumers poll and sweep, and a
key that nobody renews expires; release tasks are not assumed to run, since a
process may shut down first (`lease.rs` 81-82). In `agent_session`: `run_with`
and both directions of the `select!` run, and the tunnel's read loop and the SSE
responses are driven. The child need not read, write or exit, no lost connection
need be noticed, and a failed kill need not be followed by the child's exit;
`SupervisorEnds` therefore names the two ways to hang that this leaves
(`Blocked`, `Waiting`) and starts where the tunnel's end has been seen. In `agent_parts`: the calling task runs, and so does the turn
whose events are traced; posts need not end. In `services`: futures that are
polled go on; processes need not exit or close the pipes they inherited, and
nobody has to act on a file.

## 4. Where text and code disagree

Two runs are expected to be violated:

* `broker_reconnect`: an old tunnel that ends after its successor registered
  removes the successor's entry (`agent.rs` 333), so pushes are buffered while
  the agent is connected.
* `loop_turn_end`: a failing summarising call leaves the turn with `?`
  (`agentic_loop.rs` 96) and no `turn/end` is sent.

Other disagreements, and behaviours worth knowing, met while modelling; none is
a run of its own, and a property that meets one names it as its exception:

* session/cancel "asks the agent to abandon its current turn" (`protocol.md`
  187-188): a cancel read during a turn is only buffered (`acp.rs` 142); the turn
  goes on, and afterwards the cancel ends the session.
* A claimed inbox entry "will be picked up on the next XREADGROUP with ID ">" or
  "0"" (`inbox.rs` 226-227): a consumer that has switched to ">" never reads its
  pending entries again, and its own later sweeps count as deliveries, so the
  entry is dead-lettered at MAX_DELIVERIES having been read once.
* On Redis, a reconnect to the same instance: the old tunnel's lease aborts the
  new tunnel's consumer (`registry.rs` 118) and, the key's value being the
  instance id, deletes its lease (`lease.rs` 224). `LatestHolderOwns` is stated
  for tunnels that share no instance for this reason.
* One failed renewal ends the heartbeat task for good (`lease.rs` 190); the
  tunnel stays open while the key expires, and its frames go to the buffer.
* The supervisor is said to have "retry-forever semantics on dropped connections"
  (`agent/src/tunnel.rs` 3) and to reconnect on drop (`SPEC.md` 133):
  `connect_with_retry` is called once,
  and `run_with` ends when the bridge does (`agent/src/run.rs` 60-72).
* On a half-open connection an idle supervisor waits for ever: `bridge.rs` 68
  reads without a timeout, and there is no ping or keepalive on its side.
  `SupervisorEnds` is about a close that this side has seen.
* A push that does not fit into the pipe of a child that does not read blocks the
  bridge, and the tunnel's close behind it is not seen (`bridge.rs` 74).
* "we always want the supervisor to proceed to the workspace push even on a reap
  failure" (`agent/src/run.rs` 88-90): errors of try_wait() and wait() do let it
  proceed, while the child may still write (the exception of
  `WorkspacePushedAfterChild`). But a kill that fails is followed by a wait for a
  child that was not killed (`run.rs` 99-102), and the push waits with it.
* A push to a child that has exited ends the bridge by the failing write
  (`bridge.rs` 74) before the child's last output is read; `CleanExitLosesNothing`
  speaks of bridges that end with the child's output.
* deliver() may answer NoTunnel, the agent connect and drain its empty buffer, and
  only then the message be pushed (`api/agents.rs` 171): it waits in the buffer of
  a connected agent until the next reconnect. `MessageDelivery` allows that stage.
* DELETE is said to make `run_tunnel` exit (`api/agents.rs` 127-130); the tunnel
  keeps a sender of its own channel (`run.rs` 54), so it stays open.
* "the agent sees the buffered frames first" (`run.rs` 67-70): the entry is
  registered before the drain, so a live push can come first. That nothing else
  is overtaken is `OvertakesOnlyBuffered`.
* "never in neither" (`agent.rs` 235-240): describe() reads `connected`, then
  `recent`; a register() between the two hides an agent that was known throughout.
* A pushed message of role tool enters the context as it is, without a
  tool_call_id (`acp.rs` 351-374, `main.rs` 207): the next LLM call carries a tool
  result that answers nothing. This is the exception of `ContextIsValid`, which
  says that such a message has no other origin than a push or the boot history.
* "Maximum number of compaction rounds per session" (`agentic_loop.rs` 41): the
  counter is a local of run(), so the cap is per turn.
* Wind-down warnings and silence nudges "never flow to the operator"
  (`context-management.md` 125-134), and `canonical_messages` are "clean"
  (`compaction.rs` 22); they are the tail of the context, with the warnings and
  nudges that earlier iterations pushed into it. `ContextIsValid` shows that the
  tail is a valid history all the same.
* "Prepend system prompt if not already present" (`main.rs` 163) asks only for the
  role of the first message. A boot history that a summary leads, as
  `context-management.md` 118-121 has it, or a nudge, as a compaction may have
  left it with the operator, keeps the prompt out of the context. This is the
  exception of `PromptAndOneSummary`.
* `context/compacted` is not sent when the summary is the empty string
  (`agentic_loop.rs` 97), although the context was replaced.
* "the TTL will clean up" (`lease.rs` 81-82): the key expires, the agent's entry
  in the connected set does not, so an agent whose instance died stays listed.
* A release that has deleted the key runs its SREM later; a tunnel that
  registers in between is connected and not listed (`lease.rs` 224-235). This is
  the exception of `OwnerIsListed`.
* On Redis, the SSE response starts before the task has subscribed
  (`redis_backend/broker.rs` 45-71); frames published before that are lost.
* "the LLM sees each name exactly once" (`registry.rs` 169-170): the operator's
  own list is not filtered for duplicates. And of a builtin and an MCP tool of
  one name the LLM is shown the MCP tool while execute() runs the builtin
  (`registry.rs` 197). `ShownOnce` and `RunsWhatWasShown` say exactly this.
* An MCP session that a server has forgotten is not opened again; its tools work
  again only if the server answers without one or names a new one in a response,
  which send() keeps (`mcp/client.rs` 110-159).
* The resolver sees an image_url that holds a string "url"; an image_url that is
  itself a string, and file URLs in blocks of other or unknown types, are passed on
  (`resolve.rs` 31-38). `NoFileUrlSent` is about the former.
* An operator's answer without a text is given to the LLM as its JSON, the data of
  its images included (`agentic_loop.rs` 461-466), and the tracing snapshot shows
  the first bytes of that, up to the limit for tool messages: the exception of
  `NoMediaInSnapshot`.
* A command that timed out is not killed (`builtin.rs` 66-75, no kill_on_drop)
  and may change the workspace afterwards; so may what a command left in the
  background with its output redirected, for which output() does not wait.
* A write that fails may have truncated the file already (`builtin.rs` 51).
* tool_read computes `start + limit` (`builtin.rs` 29), which overflows for an
  offset above 0 and a limit near usize::MAX: the task panics either way, on the
  addition or on the slice.
* process_stream decodes each chunk by itself (`llm/client.rs` 207), so that a
  character cut by the end of a chunk is replaced; a last line without a newline
  is dropped; after [DONE] only the lines of that chunk are skipped.
* A literal's bytes are pushed `as char` (`reference.rs` 54), so text outside
  ASCII comes out garbled; `ValueRoundTrips` compares under that conversion.
* `stream_logs` "replays captured stdout/stderr" (`local.rs` 7): a subscriber
  gets what is broadcast after it subscribed.
* The provider sets OVERACP_AGENT_JWT (`local.rs` 138); the agent reads
  OVERACP_TOKEN (`agent/src/config.rs` 73).
* kill_on_drop and kill() act on the direct child (`local.rs` 213, 242): what an
  exec or a node has started goes on after the timeout or the delete, and if it
  has inherited the output, it delays an exec's answer (`ExecReturnsWhole`) and
  keeps a deleted node's log streams from ending (`LogStreamsEnd` names it as its
  exception). One that was started with its output redirected is not noticed.
* A node whose process has exited stays Running until it is deleted (`local.rs`
  175, 217); a create or delete that is dropped half way leaves its workspace.
* delete is "Idempotent" (`provider.rs` 62) up to the reuse of the pid: a
  repeated delete may take a later node (`DeleteTakesItsNode`).
* `exp` is `now + ttl_secs` in i64 (`auth.rs` 70): a huge ttl overflows, which
  `MintedIsAccepted` excepts.
* `ReportsAreSpaced` needs `Window + MaxDelay <= PruneAfter` (60 and 600 seconds
  in the code): a report whose clock was read long before it got the lock would
  otherwise meet a map from which its predecessor has been pruned
  (`sentry_rate_limit.rs` 36-51).

## 5. Proofs

The theorems below hold for every value of the constants that satisfies the
named assumptions: any number of agents, tunnels, requests, subscribers,
threads, files, servers and messages, and any capacities. Each states a
property that a run of section 3 checks on a small instance; where a run
combines several parts in one MC module, the theorem is about the part's own
specification (`LimitSpec`, `AccessSpec`, ...), whose steps are those of the MC
module. The larger inductive invariants were checked with TLC before they were
proved.

| Module | Theorem | States | Inductive invariant |
|---|---|---|---|
| `BrokerProofs` | `TypeCorrect` | `[]TypeOK` | `TypeInv` |
| | `EntriesAreLive` | `[]NoDanglingEntry` | with `TypeInv` |
| | `RecentLogCorrect` | `[]RecentLogOK` | itself |
| | `RoutingCorrect`, `CancelCorrect` | `[]NoMisdelivery`, `[]CancelNotReplayed` | `RouteInv` |
| | `OvertakingIsBounded` | `[]OvertakesOnlyBuffered` | `OrderInv` |
| | `ConnectedReportedOnce` | `[]ConnectedIsReportedOnce` | `ViewInv` |
| | `DeliveredOnce` | `[]ExactlyOnce` | `SettledInv` |
| | `DeliveryRefined` | `Spec => ImplementsDelivery` | `DeliveryInv` |
| `AgentLoopProofs` | `OwnAnswers` | `[]OwnAnswer` | with `AcpTypeOK` |
| | `PushesKeepOrder` | `[]PushesInOrder` | `HandedInv` |
| | `ContextIsOK` | `[]ContextOK` | `ContextInv` |
| `CompactionProofs` | `SplitsAreBest` | `[]SplitIsBest` | `HistoryOK` |
| `TextProofs` | `ContentCorrect` | `[]ContentOK` | `ContentInv` |
| | `ResponsesFaithful` | `[]ResponseIsFaithful` | `StreamInv` |
| | `ValuesRoundTrip` | `[]ValueRoundTrips` | `ReferenceInv` |
| `AgentSessionProofs` | `PushedAfterChild`, `BridgeFaithful` | `[]WorkspacePushedAfterChild`, `[]BridgeOK` | `BridgeInv` |
| | `GapsOnlyByLag` | `[]GapOnlyByLag` | `SessionInv` |
| `AgentPartsProofs` | `ReportsLimited` | `[]ReportsAreLimited` | `LimitInv` |
| | `RetriesSound` | `[]RetriesAreSound` | `ClientInv` |
| | `TracesCorrect` | `[]TracesOK` | `TraceInv` |
| | `ToolsCorrect` | `[]ToolsOK` | `ToolsInv` |
| | `BuiltinsCorrect` | `[]BuiltinsOK` | `BuiltinInv` |
| `RedisProofs` | `LatestKeepsLease` | `[]LatestHolderOwns` | `LeaseInv` |
| | `RedisTypeCorrect`, `PushesRemembered` | `[]RedisTypeOK`, `[]NothingForgotten` | `PushInv` |
| | `DirectoryCorrect` | `[]DirectoryOK` | `DirectoryInv` |
| | `StreamsUnbroken` | `[]OneStretch` | `StreamInv` |
| `ServicesProofs` | `ConfigsAgree` | `[]ResolvedOK` | `ConfigInv` |
| | `NobodyEscalates`, `TokensLiveOnce` | `[]AccessOK`, `TokensOK` | `AccessInv` |
| | `NodesCorrect` | `[]NodesOK` | `ProviderInv` |

### Why the invariants are what they are

**Broker.** `TypeOK` is not inductive: that a tunnel's drained frames are what
`SendBuffered` takes needs `TaskState` (a tunnel past "idle" has an agent, and
"buffered" means a non-empty buffer), so `TypeInv == TypeOK /\ TaskState`.
`NoMisdelivery` and `CancelNotReplayed` follow from `RouteInv`, which says of
every place a frame can be that the frame belongs there; a handler's stale entry
is harmless because a tunnel never changes its agent, whatever the registry says
meanwhile. `OvertakesOnlyBuffered` speaks of what was received; `OrderInv` says
the same of the whole path of a tunnel (received, channel, drained batch), of
every buffer, and that a push drained later than another may only have been
accepted later. `ExactlyOnce` counts occurrences over all places at once:
`SettledInv` names, for every accepted push, the one line and position where it
is, and the proof moves that position step by step. With it, each action of the
broker is a `MessageDelivery` action for at most one agent's pushes and leaves
the stage of every other push alone, which is `DeliveryRefined`. The
queue's limit in the abstract specification needs that the buffer's length is
the number of pushes in it (`QueuedOnce`), hence `DeliveryInv`.

**Agent loop.** `LoopStepIsAcpStep` reduces a step of the loop to an operation
of the client. `OwnAnswer` distinguishes idle, sent and answered, and is
inductive given the types of the lines; `PushesInOrder` needs that no
notification arrives twice, and is proved in the form `HandedInv`: what was
taken and buffered is the beginning of what arrived (`Handed`), and stdin holds
the rest in its order (`OnStdin`). `ContextOK` speaks of the calls to the LLM,
between which the context is not valid: while tools run, results are missing.
`ContextInv` therefore says that the context, completed with a result for each
call in `todo`, is a valid history (`Completed`). Giving a result moves it from
the completion into the context; a compaction happens when nothing is left to
complete, and `SplitsAreBest` is what makes its tail valid by itself.

**Recursion.** What a recursive function returns for an input of any length is
proved by its least counterexample: the library's induction theorems take an
operator as a parameter, but that every non-empty set of naturals has a least
element (`LeastNat`) needs none. If `f[n]` were wrong for some `n`, it would be
for a least one, and one unfolding of the recursion from the value before
contradicts that. That the functions exist in the first place (`f[n]` is defined
by CHOOSE) is proved the same way (`RecursionExists`). `WalkBackStops` finds the
split with it, `UnansweredIs` what a prefix of a history leaves unanswered,
`WalkIs` where truncate_str stops, `DrainIs` what a chunk's lines do, `ReadingIs`
where the configuration parser is.

**Texts.** `StreamInv`: the buffer is the part of the body behind the last
complete line, piece by piece (`PiecesFrom`), whatever chunks it came in, and the
result is what the complete lines say (`Says`), described by which lines have
which part in it rather than by a fold, so that one more line extends it.
`ReferenceInv` says where the parser is once it has read the segments written so
far, and for every continuation: what is settled, what is still in its buffer.
It must hold whatever follows, because a value is extended at its end while the
parser looks ahead for the closing brace. `ContentInv` says of every message in
the context that it has no file URL; the rest of `ContentOK` are facts about
Snapshot, truncate_str and the answers of operator tools.

**Session.** While the socket is open, each direction is one sequence cut into
five pieces (`PathsInv`: read, pipe, in hand, pipe); `RunInv` ties the socket to
`spc`. For the subscribers, `NumbersInv` says that what the broker reads is the
beginning of what the child numbered, `BusInv` that the channel is its stream
notifications (by `Rank`, the number of stream notifications up to a frame), and
`SeenInv` that a subscriber that never lagged has the channel's segment from
where it joined. No subscriber is ever behind by more than the buffer without
being marked.

**Agent's parts.** `LimitInv` adds that every table entry is a report that was
sent and that a sent report is covered by an entry or older than the pruning
age; that is where `Window + MaxDelay <= PruneAfter` is needed (the code: 60
and 600 seconds). `ClientInv` ties the exponent of the next delay to the last
one slept. `TraceInv` bounds the spans of a turn, wherever they are, by its tool
count. `ToolsInv` says that a table entry's client index names the server that
listed the tool, which the failed connects would break if indexes were
positions in the configuration. `BuiltinInv` adds that no page is of a later
version than the file and that a reading of the file as it is stays within it;
that a sum which wraps is smaller than its first term, and the slice panics
instead of showing other lines, is `PageShows`.

**Redis.** `LeaseInv` says which tasks of a tunnel can still write the key, and
that the key is the latest tunnel's while its heartbeat runs; a release compares
the value, so that only a tunnel of the same instance can take it away. `PushInv`
adds that an aborted consumer leaves what it took pending. `DirectoryInv` says
that every cleanup that could still remove the agent from the set is one that
`ahead` records. `StreamInv` joins what a client has to what is on its wire, and
while the subscription holds also to what was published last.

**Services.** `ConfigInv`: a version that was handed out is the one in the
cache. `AccessOK` is inductive with its types. `ProviderInv` ties the table, the
futures and the operating system's pids: a pid in the table cannot be reused
before its process is reaped, and it is reaped only through the table.

### Assumptions

They are the `ASSUME`s of the modules and say no more than that capacities and
bounds are natural numbers, and positive where the code's default or type makes
them so (`RecentCap`, `StreamBuffer`, `IdSpan`, `MaxDeliveries`, `Window`), that
"no value" is not a value, that a pushed message has one of the four roles
(`RoleAssumption`), for `RateLimit` that an entry is pruned later than it can
still matter, and for `BuiltinTools` that the lines of a file and the
argument limit fit a usize. `Access` assumes a clock that starts after 0 and that
lifetimes fit an i64, as the request type does; that `now + ttl` may overflow is
part of the model. The characters of a text have one to four bytes
(`ContentAssumption`); the indexes and counts of a response are natural numbers
(`StreamAssumption`); a segment is one the grammar can write, with no colon or
brace where it would end early (`ReferenceAssumption`: `Writable`). The history an
agent boots with comes from the operator's store, which is outside this code:
`BootAssumption` says that its tool calls are answered, since the LLM took it
before, and that a summary in it is its first message. It does not say that the
prompt or no scaffolding leads it (section 4), and `PromptAndOneSummary` is stated
accordingly.

### Only model-checked

All liveness properties (`BrokerSettles`, `BufferedReachesNextTunnel`,
`TurnsTerminate`, `RedisSettles`, `SupervisorEnds`, `PartsSettle`,
`ServicesSettle`): the prover does not handle fairness or ENABLED. Every safety
invariant and action property of the passing runs is stated by a theorem.

## 6. Not modelled

Partly modelled: the tunnel's dispatch (`server/src/tunnel/dispatch.rs`) keeps no
state; what the agent can be answered is a choice of `AcpClient`, and which
hook computes the answer is left out.

Left out: the operator's hooks, which are traits with stateless defaults; server
start-up and state, which construct the stores and do nothing after; overloop's
configuration, read from the environment before anything runs; the wire types.
Inside the modelled parts, logging, JSON layout, base64, the wording of errors
and the text of tool results and logs are left out, since no property depends on
them.
