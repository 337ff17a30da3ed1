# A TLA+ model of Invoke

Invoke is a self-hosted API client: a React UI that keeps its data in the
browser, a TypeScript server that relays what a browser cannot do itself, and a
Go executor that talks to the network. This directory holds TLA+ modules that
model the program, TLC configurations that check them on small instances, and
TLAPS proofs of the most important results for every value of the constants.

## The system

| Part | Where | State it keeps | What is hard |
| --- | --- | --- | --- |
| WebSocket service | `executor/internal/executor/websocket.go` | a registry of connections under a mutex; per connection a buffer and flags under its own; a reader and a ping goroutine | five kinds of goroutines on one connection, flags read under a mutex and used after it |
| Managed gRPC streams | `grpc_stream.go` | three maps under a mutex; per stream a buffer, a reader goroutine | a close that waits for the target while the ticker sweeps; error paths that must release the connection |
| gRPC calls and reflection | `grpc.go`, `grpc_wellknown.go` | none across calls | three ways of finding descriptors, with fallbacks and imports to follow |
| HTTP execution | `service.go`, `packages/server/src/{api/handlers,features}/execute*` | a cache of transports | concurrent calls on the cache, redirects, limits, every failure to be answered, hooks in any order |
| Event relays | `packages/server/src/api/handlers/{sse,websocket,grpc}.ts` | one polling loop per event stream | it must stop neither too early nor never |
| Rate limiter | `services/rate-limiter.ts` | a token bucket per client | stale clock readings, rounding |
| OAuth2 code flow | `services/oauth2-store.ts`, `api/raw/oauth2-callback.ts` | pending authorisations | an entry read, a token awaited, the entry written back |
| Mock servers, proxy recorder, webhooks | `services/{mock,proxy,webhook}*.ts`, the panels in `packages/ui/src/features/mock` | routes, sequences, logs, configurations, on the server and in the page | two copies, overlapping calls, latency, restarts |
| Flow, collection and batch runners | `packages/core/src/{flow,runner}`, their dialogs | one run: results, variables, cancellation | nested control flow, retries and timeouts, cancellation in flight |
| Local storage | `packages/core/src/storage` | collections, folders, requests, history, cookies, environments in IndexedDB | read, change and write back over awaits, in several tabs |
| Pure logic | `packages/core/src/{variables,request,assertions,codegen,flow,mock,import-export}` | none | what two functions, or a function and a document, must agree on |
| Scripts | `packages/core/src/scripting` | one run of a script | a timeout that races the script's answer |
| The page | `packages/ui/src/features/{execution,websocket,grpc,graphql,flows}` | status, controllers, timers, what is shown | answers and timers that arrive after the state they belong to is gone |

The browser calls the server over HTTP; the server calls the executor over gRPC
and turns the executor's buffers into server-sent events by polling; the
executor holds the only connections to the outside.

## Modules

| Module | Models |
| --- | --- |
| `WebSocketRegistry` | the buffer of one WebSocket connection; the WebSocket service of the executor |
| `LossyMailbox` | what a buffer promises to a poller: the abstract specification that the registry implements |
| `WebSocketEvents` | the server's event stream, composed with the registry |
| `GrpcStreams` | the managed gRPC streams of the executor |
| `GrpcCalls` | one gRPC call of the executor up to the target's method: reflection, protosets, well-known services |
| `GrpcSession` | the calls of the gRPC page, with relays, deadlines, cancels and closes |
| `RateLimiter` | the token buckets and the fibers that update them |
| `OAuth2Flow` | the authorization-code flow: start, callback, result |
| `WebSocketSession` | a WebSocket session of the page: connect, reconnect, disconnect, close events |
| `GraphQLSubscription` | a GraphQL subscription of the page over a connection that it polls |
| `GraphQLSchema` | the schema of the GraphQL editor: import, refresh, cache |
| `RequestExecution` | Send in the page; the payload on its way through server and executor, or out of the browser |
| `HttpExecutor` | one HTTP request in server and executor, up to the last event |
| `Runners` | the collection and the batch runner with their dialogs |
| `ScriptSandbox` | one run of a script, in a worker or inline |
| `FlowRunner`, `FlowPage` | one run of a flow; the page that edits and runs flows |
| `FlowValidation` | `validateFlow`, and what conditions say at run time |
| `CollectionTree`, `StorageTables` | the local database under several tabs: the tree of collections; history, cookies, environments and examples |
| `MockServer`, `MockRoutes` | the mock HTTP server with its panel and the proxy recorder, the mock gRPC server and its recorder; validation and matching of routes |
| `Webhooks` | webhook endpoints on server and page |
| `RequestResolution` | what becomes of a request between the editor and the wire: variables and their completion, scopes, the four kinds of request, the GraphQL editor, OAuth2 tokens, body modes, AWS and digest signatures |
| `ResponseChecks` | what is done with a response: extraction, assertions, drafts, comparison, cookies, history, answers in parts, timings |
| `CodeGen` | the code generators |
| `InvokeYaml`, `Importers` | the project's file format; the importers, OpenAPI both ways, and the upgrades of stored requests to the schemas 2 and 6 |
| `WebSocketProofs`, `GrpcProofs`, `SessionProofs`, `ExecutionProofs`, `FlowProofs`, `PanelProofs`, `MockProofs`, `StorageProofs` | theorems about the modules of these parts (`PanelProofs`: the GraphQL schema, the runners and the rate limiter) |
| `MC...` | instances for TLC, and the properties that relate several modules |

`PROJECT.json` maps every definition to the lines of the source it stands for.
An operator whose name has a suffix after an underscore (`Drain_SkipsOne`) is a
mutated form of the definition it is named after; no specification uses it. It
shows which bug a property would catch.

### How the modules follow the code

One action is what runs without giving way: in Go, a section under a mutex or one
call on a socket; in TypeScript, the code between two awaits. A function that
awaits is therefore several actions, and what it read before is in its state.
History variables (named so in the declarations) record what a property needs and
no action looks at.

- **WebSocketRegistry.** `WebSocketConnect` is `Dial`, `ConnectLock`, the sweep,
  `ConnectRegister`; `WebSocketSend` is `SendLookup`, `SendCheck`, `SendWrite`
  (without a mutex), `SendRecord`; `WebSocketPoll` is `PollLookup`, `PollDrain`;
  `WebSocketClose` is `CloseRemove`, `CloseMark`, `CloseSocket`; the goroutines
  are `Reader...`, `Ping...` and `Sweep...`. gorilla's panic on concurrent writes
  is `ConcurrentWrite`, after which nothing happens. A body is its length,
  `lastUsed` the Boolean `expired`.
- **WebSocketEvents.** `RelayAsk` and `RelayDrain` are the halves of one round of
  `pollingSse`; `RelayFails` and `RelayAnswerLost` a call that fails before and
  after the executor drained the buffer, which the browser is told as a close;
  `RelayLost` a browser that is cut off and asks again.
- **GrpcStreams.** The three maps change together, so they are one set. Open is
  `OpenDial`, then `OpenFail` for any error return, or `OpenStream` and
  `OpenRegister`; close is `CloseRemove`, `CloseSend`, `CloseReceive` and
  `CloseCancel`.
- **GrpcCalls.** A handler looks up a protoset, asks the reflection service,
  first v1, then v1alpha, follows imports round by round, and refuses or calls.
  The target (files, imports, which versions, what an answer brings along) is
  arbitrary.
- **GrpcSession.** A call of the page is a pre-request script and a fetch; managed
  streams add an open, an event stream, a deadline timer of the page and closes.
  A fetch that is aborted rejects before anything else runs.
- **RateLimiter.** `check` reads the clock and then updates the bucket in one
  `Ref.modify`. Tokens are fractions of `1/Unit`, exact where the code has
  floating point. An observer opens windows.
- **OAuth2Flow.** `CallbackCode` reads the entry, and an `Exchange...` writes the
  outcome, with anything in between. The provider redeems a code at most once.
- **RequestExecution.** `handleSend` is one action up to its first await; script,
  token, APQ probe, fetch, backoff, filing and showing are steps of `Progress`.
  The payload is a chain of functions: `injectCookies`, `buildExecutePayload`,
  `executePayload`, `extractInvokeHeaders`, and `browserFetch` beside it.
- **HttpExecutor.** `transportFor` and `StoreTransport` are the two locked
  sections; `RoundTrip`, `ReadAll`, `ReadChunk` and `ReadFails` are arbitrary
  targets, redirects and failures; the error answers and the digest round are the
  server's.
- **Timings** (in `ResponseChecks`). The hooks of `net/http` come in any order, and some never;
  what is computed from them is a function of the trace.
- **Runners, ScriptSandbox, FlowRunner.** A run and its dialog; a script as any
  sequence of calls of its API, which returns, throws, waits or loops; a flow as a
  stack of calls of `stepsEffect` and `loopEffect`, with `running` counting
  executions that outlive their attempt.
- **FlowPage, GraphQLSchema.** The dialogs, the store they write to, and calls
  that return after the dialog is gone. `switchPanel` is the command palette, which
  lies over a modal and unmounts it with its panel.
- **Storage.** A call of `InvokeStore` is one transaction; an operation of a tab
  is a sequence of calls, and those of several tabs interleave. A tab works with
  the records it had rendered.
- **MockServer, Webhooks.** A call of the page waits until the server
  takes it or it fails, and is answered until the page sees the answer; requests
  to a mock sleep through their latency; the server may be restarted, the database
  may refuse a write, and the panel may be left (`leavePanel`, `leaveSection`),
  after which its calls go on without it (`watched`).
- **Editors and viewers** (in `RequestResolution`, `ResponseChecks`). Effects of the
  GraphQL editor run until nothing changes; the choices of the gRPC viewer are a
  function of the steps that led to them.
- **Pure logic.** One operator per function. A text is a sequence of tokens, or a
  value of which only what the code asks is known; parsers of JSON, YAML, URLs and
  regular expressions are constants.

## Runs

`MC` modules put modules that share no state side by side: a behaviour picks an
*area*, and the others stand still. What such a run shows of one area is what a
run of that module alone would show.

| Run | Instance | Shows |
| --- | --- | --- |
| `ws` | a buffer area with 1 connection and room for 2 messages and 1 byte, and a registry area with 2 connections; 2 handlers | no socket is orphaned (`NoOrphanSocket`), no dead connection passes for connected, a sweep is alone; the buffer is the run of the newest messages, and the registry implements `LossyMailbox` (`MailboxDelivery`) |
| `ws_events` | 1 connection, 1 handler and the relay, 2 inputs | a close that the executor reported is true; a closed connection ends its relay and is shut, its goroutines end, blocked handlers return |
| `grpc` | 1 stream with 3 handlers; every target with 5 files and 2 services; 2 calls of the page | no connection leaks, one owner closes, nothing is lost, everything is released; reflection is complete and what is listed can be called; the page's controls are live, a deadline ends its call |
| `rate_limit` | 1 client, 2 groups, 2 requests in flight, 5 ticks | no window admits more than a bucket and its refill; `retryAfterMs` is long enough |
| `sessions` | 2 OAuth2 flows with 2 callbacks; 3 attempts, 2 mounts of the WebSocket bar; 2 subscriptions with 1 poll at a time | outcomes are read once, tokens granted once, one callback is final; a connected session is watched, a peer's close is noticed, data shown is of the current subscription |
| `execution` | 2 sends; 2 calls of the executor with 2 settings; 2 runs of 3 requests; scripts of 2 calls; every small payload | the page is ready when nothing is under way, what is shown is filed, cancels hold, sends, runs and scripts end; transports fit their calls, truncation is told, the final event is last; headers arrive as resolved, in both modes |
| `flow_runner` | one flow of 8 steps; a page with 2 modals, 2 runs and drafts of 2 steps | a failure ends its list of steps, results are complete and in order, a passed flow is clean, runs end; a run can be stopped, what is shown is of its modal (but for runs that outlive it), the selection follows its step |
| `storage` | 2 tabs, 2 collections, folders and requests, 3 operations; history of 3 with limit 2; 3 cookies; 2 environments | what the tables keep under any interleaving, and what as long as operations do not overlap |
| `mocks` | 2 clients, 2 calls of the page in flight, caps of 2; every pair of small routes and every short fixture | what the panel calls active is served, sequences and logs are in order under overlap, status (if routes can be stored) and dialogs settle; a warning means that a route is dead, replay is faithful; shown validations are enforced |
| `core` | every input of a grammar: templates over 2 scopes, requests of each protocol, snippets of each generator, GraphQL documents of 2 definitions, OAuth2 answers, JSON values, cookies, history entries, 4 steps of a viewer; hooks over 3 ticks and 2 round trips | what is sent is what is shown, whatever the protocol, the body mode and the scopes; signatures match what is sent, tokens are current, tooltips are true; snippets carry the request; what is extracted satisfies an assertion of it, differences are reported, cookies go where they belong, history entries are found and restored, phases fit in their attempt |
| `documents` | every flow of up to 3 steps, collections of 3 folders, files of each format, schemas of 3 nodes, stored tables; 2 calls, 2 mounts and 2 endpoints of the GraphQL panel | valid flows run, conditions are questions, exports come back (but for folders whose file a request overwrites, and two body modes), importers agree, examples are complete, upgrades are idempotent; the schema is of its endpoint and in the cache |
| `flow_warnings` | the flows of `documents` | a violation: a condition that validation does not warn about may see no response, because a delay, loop or condition came between (`findings` quotes the lines) |

### The properties and their parts

A run checks few properties; most are conjunctions of parts that have names and
comments of their own, in the module they are about. An invariant also contains
the type invariants of its modules.

| Property | Parts |
| --- | --- |
| `ClosingSettles` (ws_events) | `RelayEnds`, `ClosedIsShut`, `GoroutinesEnd`, `CallsOnClosedReturn` |
| `RunIsReported` (flow_runner) | `FailureEndsItsSteps`, `MainStepsReported`, `CleanWhenPassed` |
| `ModalIsOfItsRun` | `FlowCanBeStopped`, `ShownIsOfItsModal` |
| `FlowProgress` | `FlowRunEnds`, `SelectionFollows` |
| `TreeIsSound` (storage) | `OrderlyIsIntact`, `NoFolderCycle` |
| `TablesAreSound` | `HistoryBounded`, `OneCookiePerKey`, `ActiveIsRemembered`, `ExamplesKept` |
| `DeletesWhatItMust` | `DeleteReachesAll`, `TrimsOldestOnly` |
| `SentAsShown` (core) | `TemplatesResolved`, `RequestSentAsShown`, `SignatureMatches`, `DigestAccepted`, `ProtocolsAgree`, `InnermostWins`, `VariablesAreTold`, `EnvTextKept`, `BodySurvivesItsMode`, `GraphQLSentAsShown`, `CompletionsFit`, `TokensAreCurrent` |
| `SnippetsAreFaithful` | `SnippetsCarryTheRequest`, `WsSnippetsAuthorized`, `GrpcSnippetsAgree` |
| `ResponseIsJudged` | `ExtractedValueAsserts`, `DraftsHold`, `DifferencesReported`, `ComparedAsSeen`, `ViewIsKept`, `PhasesFit`, `BodyIsTimed`, `CookiesReturn`, `HistoryFinds`, `HistoryRestores`, `DeferredIsWhole` |
| `ExecutionIsInControl` (execution) | `ReadyWhenSettled`, `ShownIsFiled`, `AloneIsSafe`, `WorkerReleased`, `TransportFits`, `TransportShared`, `NothingLostSilently`, `FinalIsLast`, `RequestsBounded` |
| `RequestIsFaithful` | `PayloadArrives`, `ModesAgree`, `ScriptHeaderIsSent` |
| `RunsAccount` | `VariablesFlow`, `BatchAccounted`, `RunCanBeCancelled` |
| `WorkEnds` | `CancelHolds`, `CancelStopsRun`, `CallerKept`, `SendsEnd`, `RunsEnd`, `ScriptSettles` |
| `MocksServe` (mocks) | `ActiveIsServed`, `ServedApart`, `ItemsInOrder`, `ResponsesInOrder`, `LogIsNewest`, `NewestRecordAnswers`, `WarnedIsDead`, `TemplatesFilled`, `ReplayIsFaithful` |
| `WebhooksHold` | `ShownIsEnforced`, `DeletedIsForgotten`, `NewestDeliveriesKept` |
| `MocksSettle` | `StatusSettles`, `CallsAnswered`, `ApplyIsFreed` |
| `ValidFlowsAreSafe` (documents) | `ValidFlowsRun`, `UnwarnedFollowRequests`, `ValidConditionsAsk` |
| `DocumentsComeBack` | `ExportedTreeComesBack`, `ExportedContentComesBack`, `OpenApiComesBack`, `ImportersKeepTheTree`, `SavedAsImported`, `ImportersAgree`, `CommandsReadBack`, `ExamplesAreComplete`, `UpgradedOnce`, `LegacyIsKept` |
| `SchemaIsCurrent` | `SchemaIsOfEndpoint`, `ShownIsCached`, `BusyWaits` |
| `OffersAreCallable` (grpc) | `ReflectionIsComplete`, `ListedIsCallable`, `HealthIsKnown`, `ControlsAreLive`, `AloneCanBeStopped` |
| `GrpcEnds` | `ConnReleased`, `BidiReleased`, `ReaderEnds`, `CallEnds`, `DeadlineEnforced` |
| `SessionsAreFollowed` (sessions) | `ConnectedIsWatched`, `ConnectingIsPending`, `ShownDataIsCurrent` |
| `EndsAreSeen` | `OneCallbackIsFinal`, `FlowEnds`, `PeerCloseNoticed`, `SubscriptionEndNoticed` |

### Bounds

The races are between two parties and a third that sweeps or closes, so two or
three of each produce them; the theorems cover every number. Limits are small
enough to be met: buffers trim and overflow, logs and history exceed their caps, a
sequence wraps around, `RedirectLimits` are reached, a body is larger than
`BodyLimit` by a chunk and by more. A refill of 2 fractions does not divide a token
of 3, so the rounding of `retryAfterMs` matters. `MaxDepth` 2 stands for the 8
nested references of the code. `MaxAppends`, `MaxReceived`, `MaxTime`,
`MaxCallbacks`, `MaxOps`, `Bounds` and the like only stop new input: they are
tested before an input, and what was begun is finished. Leaving the mock panel
counts as an edit, and one import of its recordings is under way at a time. The grammars of the pure
areas contain, for each branch of the functions, inputs on both sides of it, and
pairs of rows, names or steps that collide. `documents` reduces by symmetry over
the introspection calls (`CallSymmetry`), which no definition tells apart.

`CHECK_DEADLOCK FALSE` stands where the system may really stop: a process that
panicked, flows, sessions and runs that are over and, with the bounds, no new
input.

### Fairness

- Go schedules runnable goroutines and handlers, tickers fire, and a mutex that
  is free again and again is taken at last, since Go's mutexes are starvation
  free: weak fairness of each step, strong fairness of lock acquisition
  (`ConnectLock`, `OpenRegister`, `RelayAsk`). Nothing makes a WebSocket peer
  send, read or hang up: a read or a write on an open socket may block for ever,
  and only one on a socket that was shut on this side is fair.
- A gRPC stream has a context of 30 minutes, so its `RecvMsg` and `SendMsg`
  return; a call of the executor ends within its timeout (`CallStep`).
- The relay polls while its browser listens.
- In the page, timers fire and calls are answered or fail: `fetch` settles, the
  server's handlers have timeouts, and scripts in a worker are cut off. For polls of
  a subscription strong fairness says that they do not fail for ever. No user is
  assumed to do anything, and no target to send or close.
- The fiber of a flow is scheduled, its timers fire and its hooks settle. Nothing
  is assumed of the executions of requests: the timeout of an attempt gets the
  fiber on.
- In a run of several areas the fairness is that of the area (`area = "streams" =>
  Fairness`), or it is stated of actions that no other area enables.

## Proofs

The theorems hold for every value of the constants that satisfies the assumption
named in the module. Most assumptions say that sentinels are no members and that
limits and bounds are numbers. Those that say more:

- `BufferAssumption`, `StreamsAssumption`, `LimiterAssumption`, `SseAssumption`,
  `WebhookAssumption`: limits that are constants of the code are positive.
- `ExecutorAssumption`: redirect limits are positive, because the executor reads
  `maxRedirects <= 0` as 10.
- `ConcurrencyAssumption`: at least one request, and one in flight: `BatchSetup`
  keeps both at 1 or more, and no run of an empty collection is started.
- `TreeAssumption`: what is stored at the beginning is a tree, and the tables and
  every file agree on an acyclic nesting of folders: no operation of the page puts a
  folder into another one.
- `HistoryAssumption`, `CookieAssumption`, `FlowsAssumption`: finitely many
  writers, cookies and codes, and a greatest limit `MostKept` a user may set.
- `FlowAssumption`: steps have the shape that `FlowStep` declares.
- `MockAssumption`: routes have the fields of `MockRoute`, and the ids of a user's
  routes differ from those that `crypto.randomUUID` makes, which are numbers beyond
  them. `GrpcMockAssumption`: a gRPC route has a response (`minItems` 1).
- `HeaderAssumption`: the headers of a caller are rows of a name, a value and a
  switch; a name is blank in lower case only if it is blank as written.
- `TargetsAssumption`: what a gRPC target lists it has files for. Which files it
  serves, and whether an answer brings imports along, is open.

| Module | Theorems |
| --- | --- |
| `WebSocketProofs` | `TypeCorrect`, `BufferOrdered`, `SocketsOwned`, `DeadMarked`, `SweepAlone`, `BufferIsMailbox`, `ClosesAreTrue` |
| `GrpcProofs` | `TypeCorrect`, `ConnsOwned`, `StreamOwned`, `BufferLossless`, `OffersStayCallable` |
| `SessionProofs` | `TypeCorrect`, `ReadOnce`, `TokensGranted`, `OneCallbackDecides`, `ShownIsFollowed` |
| `ExecutionProofs` | `ExecutionStaysInControl`, `CutsAreFinal`, `CallersAreKept`, `RequestsArrive`, `ModesSendAlike`, `RequestsAreFaithful` |
| `FlowProofs` | `ReportsAreTrue`, `ModalsAreOfTheirRuns` |
| `PanelProofs` | `SchemasAreCurrent`, `RunsAreAccounted`, `CancelsAreObeyed`, `TypeCorrect`, `LimitEnforced`, `RetryAfterKept` |
| `MockProofs` | `WebhooksAreHeld`, `LogsAreNewest`, `ActiveRoutesAreServed`, `RoutesAreApart`, `ItemsComeInOrder`, `NewestRecordIsAnswered`, `ResponsesComeInOrder`, `MocksServeTheUser` |
| `StorageProofs` | `TreesAreSound`, `DeletionsReachAll`, `CookiesAreUnique`, `HistoryIsBounded`, `TrimsTheOldest`, `ChoicesAreRemembered`, `TablesStaySound`, `DeletionsAreRight` |

`BufferIsMailbox` is the refinement: every step of the registry is a step of
`LossyMailbox` or none. Each of the others rests on an inductive invariant:

- **WebSocket registry.** Two invariants that do not need each other. `BufferInv`
  (types and `BufferIsNewestRun`) rests on lemmas about sequences: appending,
  trimming and cutting at the front keep a run of consecutive numbers.
  `ControlInv` adds to the three control properties that a handler that sweeps
  holds `wsMu` (`SweepMutex`); without it two sweeps could share `todo`, and a
  connection could be registered and removed under a sweep. `EventsInv` adds for the
  relay that a connection is registered once (`OnceRegistered`): one that was
  removed stays so, which is why "not found" means closed.
- **gRPC streams.** The properties are not inductive alone. `Inv` adds that a stream
  that was not dialed is untouched, that a registered stream is open, that a
  reader starts after its stream was opened, and that the ticker looks at
  registered streams only. With them a close is the only owner of what it
  removed, because the ticker holds `grpcStreamMu` while it has work to do.
- **gRPC calls.** `CallInv` follows one search: what was found has all its imports
  at hand or still to ask for, so that a search that ends is complete. Missing
  imports are asked for in any order, of which the code's walk is one. `PagesInv`
  says for the page that a call and what the page holds of it fit (`PageFits`), and
  that calls that are made one after another are (`OneAtATime`).
- **Rate limiter.** The line of a bucket is what it would hold at a time if it were
  never full. A check never lifts the line, also when its clock reading is older
  than the bucket's, and an admission lowers it by one token. `WindowInv` bounds
  what a window has admitted together with the line at its beginning;
  `PromiseInv` says that the line reaches a token when `retryAfterMs` is over.
- **Sessions.** In `OAuth2Flow` both counting properties are inductive together with
  the types; the step that redeems a code uses the cardinality theorems of the
  library. `SessionInv` and `GqlInv` tie attempts, references and event sources of
  the bar, and subscriptions, polls and frames, to the state that is shown.
- **Execution.** `ExecutionInv`: a busy page has a send that will settle it
  (`BusyIsTrue`), an answer is shown only after it was filed (`FiledIsTrue`), and
  `AloneIsAlone` for sends that do not overlap. `ScriptInv` ties the timer, the
  worker and its URL to each other. `ExecutorInv` says what a call knows at each
  point (`CallOK`) and that a transport is kept under the key of its settings
  (`CacheIsKeyed`), from which a transport that was stored by another call fits.
- **Requests.** What goes out is a composition of list operations, none of them
  recursive: keeping the elements at some places (`Kept`, for Array.filter), appending
  and joining. A lemma for each says that it leaves every name but its own `Alike`:
  the same values, and not more often. `ServerSends` puts them in the order of the
  code (page, server, executor), `BrowserAuthorization` those of client mode; from
  them follow `RequestsArrive` and `ModesSendAlike`, about any request of the right
  shape, however many headers it has. The first needs that no header of the user's is
  named like the option for the HTTP version (`IsResolved`), the second that a key for
  a header is among the headers, where `resolveRequest` puts it (`IsCarried`).
  For scripts, `HeadersFollow` is inductive: the copy has a name no oftener than the
  caller's request, and a row with what was asked last of each name.
- **Flow runner.** `Report`: the frames on the stack carry increasing numbers, a loop
  shares that of the call it is in, the frame of a failure has no steps left, and
  results account for the frames. `FiberInv` and `RunningInv` say who may still run
  when the fiber was interrupted. The page's `PageInv` needs that a run of a closed
  modal is known as late (`KnownAsLate`) or was left under the palette (`left`).
- **Panels.** `SchemaInv`: the cache holds under an endpoint a schema of that
  endpoint (`CacheIsOfEndpoint`). `RunnersInv`: a run that can be cancelled is the
  only one, with a bound for what a batch has in flight; `StartedFirst` that only a
  run that was started is marked as cancelled.
- **Mock servers.** `MocksServeTheUser` puts together an invariant for each part.
  `LogInv`: the log is a tail of what was answered (`IsTail`). `ActiveInv`: while
  nothing was edited, overlapped or lost, the one call under way carries the routes
  that are saved, or their answer (`CalmHolds`). `HeldInv` is about ids: all lists,
  those under way included, hold ids of users and made ids that differ from any still
  to be made (they are above `Horizon`), and one import is under way at most; so the
  routes of an import differ from any that are there. `OrderInv`: the index of a
  route counts what it has given, and the route is served. `ImportInv`: an import
  stands at the end of the list, newest record first, and no route without conditions
  before it has a method and path of it. `GrpcInv` is the like of `OrderInv` for the
  gRPC server. What validation promises is proved of any list of routes
  (`WarnedNeverAnswers`, `ParametersFilled`), and of any fixture that its replay
  repeats it (`ReplayRepeats`). Array.filter is a recursive function; `OnlyPicks` says
  by induction over the length that it keeps the elements that fit, in order.
- **Webhooks.** `WebhookInv`: logs are the newest deliveries (`LogsAreKept`), and an
  endpoint whose calls neither overlapped nor failed, and that was not deleted under
  a modal, shows what the server has (`UndisturbedAgree`).
- **Storage.** `TreeInv`: the calls an operation has still to make find what they
  refer to as long as no operation overlaps it (`Fits`). `HistoryInv`: any set of
  writers that have counted have few enough entries, or the one that counted last
  trims enough of them (`Trimmed`); this is what bounds the history although every
  writer acts on an old count. `CookieInv`: keys differ from version 7 on. The
  environments' `PageInv`: the shapes of the calls a tab has pending (`Follows`).

Only model-checked are

- liveness, and whatever speaks of fairness or `ENABLED`, which the prover does not
  support: the runs' temporal properties, and `PeerCloseNoticed` and the like;
- the pure logic: what recursive definitions compute for every input needs
  induction over data, and the modules that declare `RECURSIVE` operators
  (`FlowValidation`, `Importers`, `InvokeYaml`, `RequestResolution`,
  `ResponseChecks`, and `MCCore`, `MCDocuments` with them) are out of the prover's
  reach. So `SentAsShown`, `SnippetsAreFaithful`, `ResponseIsJudged`,
  `ValidFlowsAreSafe` and `DocumentsComeBack` stay with TLC.

## What the models say about the code

Where the code does not keep what one would expect of it, a property states what
it does keep and its comment names the exception; a model has the behaviour. The
following were met on the way. `flow_warnings` is a run of its own.

**Executor and server**
- Sent and system messages are not counted but are deducted, so a WebSocket buffer
  can hold more than `maxBufferBytes`.
- The relay stops at the first poll that reports a close, although the buffer may
  hold more than the 50 messages of one poll; a poll whose answer is lost takes its
  messages with it. A poll that fails is sent to the browser as a `close` event
  (`websocket.ts:69`), and the page takes the session for disconnected, although the
  connection may be open and registered; nobody polls or closes it then but the
  sweep. `CloseIsTrue` is therefore about closes that the executor reported.
- A reply can be logged before the send that caused it. Every received message
  renews `lastUsed`, so a talkative peer keeps an abandoned connection. Two sends
  on one socket may write at once, which gorilla answers with a panic, and
  `SendMsg` and `CloseSend` may meet on one stream.
- The groups of the rate limiter share one bucket per client.
- Closing a bidi stream cancels the call right after `CloseSend`.
- `grpc.go:529` says that a file that cannot be resolved is skipped gracefully;
  `protodesc.NewFiles` fails on it. Imports are asked for again in every round.
- Two addresses dialled at once, or a response that begins before the request was
  written, make the phases of a timing overlap or count from the start.
- The callback of the OAuth2 flow parses the token endpoint's answer outside the
  promise that it guards (`ExchangeUnreadable`); the entry stays pending.
- The recorder of the mock gRPC server has no caller that records (`recordEntry`):
  recordings are empty. The webhook receiver accepts any id, and configurations
  are lost with a restart.

**Requests**
- In client mode a urlencoded body is sent as its JSON text; digest is ignored in
  stream mode; body mode none is given text/plain; a Cookie header that is switched
  off swallows the jar's cookies; path variables are not resolved themselves.
- A failed request in a branch or a loop body ends only that list of steps.
- The gRPC Auth panel has no effect, and the `inherit` authorization of
  `docs/PRD.md` 6.4.2 does not exist.
- A generated Apollo snippet with variables is no JavaScript.
- GraphQL: adding missing variables replaces a text that is half typed and no JSON;
  JSON `null` or a scalar makes the effect throw; a required `Upload!` must be given
  a value before its file is; a batch drops the fragments; files and batches are
  ignored for GET; several named operations keep the name that was set before. A
  completed argument is chosen by what its type's name contains (`Point` is a
  number), and a type of more than four levels loses its name.
- OAuth2: an answer in order without a token is silent; `expires_in` 0 is never
  renewed. Variables of collections, folders and requests are `unresolved` in the
  tooltip of a field, though they are sent. A request taken out of its folder keeps
  the folder's variables until it is opened again.
- Body modes: from JSON to a form and back, an array becomes an object; from and to
  a file the body is emptied.
- The AWS query is sorted by locale, not by code point. Any digest algorithm but
  SHA-256 is taken for MD5, and a challenge that offers only `auth-int` is answered
  without a `qop`.
- Two sends may be under way at once, because the guards are passed before the
  script and the token are awaited; the controller of a stream is never aborted.
- An inline script that loops never times out. `setHeader` on a name that occurs
  twice changes the first row while the last is sent. `skip()` is not looked at.

**Storage and documents**
- `updateFolder` takes any parent, but no caller moves a folder, so no cycle of
  folders comes about (`NoFolderCycle`); imports and backups can rehome records;
  overlapping retentions delete more than the surplus.
- A request whose slug is `collection` or `folder` overwrites
  `collection.invoke.yaml` or `folder.invoke.yaml`: the collection loses its name,
  or the folder is lost, its folders come back at the root and its requests refer to
  none. `ExportedTreeComesBack` says that this is all that is lost. The body modes
  file and graphql-multipart come back as none; assertions, scripts and options are
  not exported, WebSocket requests come out as rest.
- OpenAPI: one path and method, one operation (the last). Postman: disabled
  parameters are enabled. Insomnia: parameters are dropped, and a folder listed
  before its parent is saved at the root. Imported environments are not saved
  (`docs/FEATURES.md:207`). A GET with a body reads back from curl as a POST.
- The validator trims names that the runner does not, and a header assertion
  without an expression never passes.

**Mocks**
- The page does not push its routes again after the server was restarted
  (`docs/PRD.md:412`), and may show Inactive while imported routes are served;
  overlapping syncs and edits are lost; a sync whose routes the database does not
  store stays at "Syncing..." (`MockPanel.tsx:46`, excepted in `StatusSettles`); the
  bodies of sequences are not checked as JSON; padded patterns never match; `/A` and
  `/a` shadow each other unwarned.
- A webhook's modal that is opened while its endpoint is being deleted stays open
  (`removeEndpoint` compares with the modal of its click), and Apply stores a
  configuration that nothing will delete. `DeletedIsForgotten` excepts it.

**The page**
- WebSocket: reconnect timers are not cancelled and wait a fixed time
  (`docs/FEATURES.md:54` says exponential backoff); closing a tab that reconnects
  opens a connection nobody sees; an old event source may disconnect a newer
  session; after a remount a connected session is not watched.
- gRPC: the deadline timer of a managed stream survives Close and ends a later
  stream; an answer to Close drops whichever stream is shown; initial metadata
  counts as an empty message.
- GraphQL subscriptions: unsubscribing while connecting is undone; a late
  `sendSubscribeFrame` shows subscribed without a connection; a stale ack subscribes
  on an old connection.
- GraphQL schema: after a successful import of SDL text the dialog stays busy and
  cannot be closed once it is opened again; a refresh uses the request's URL
  unresolved; a schema stays when the URL goes to another endpoint.
- Responses: redaction leaves `awsSessionToken` and `ntlmPassword` in the history;
  a restored request has `[redacted]` for the authorization and the metadata of
  gRPC; searching does not look at labels. An answer in parts needs a first part
  that can be read. An item that is null hides the errors of a whole GraphQL batch.
- gRPC viewer: messages chosen for a comparison are kept by position when another
  call begins (`ComparedAsSeen` excepts it); a message of a transcript that is
  titled Deselect is chosen a second time when clicked. A mock made from a GraphQL
  response answers GET.
- Flows: a new flow that is saved twice is two flows; a run that returns after its
  modal was closed shows its result in the next; a run that is started before a
  stopped one returned is lost to Stop. A modal that the command palette unmounts
  asks no run to stop: the run goes on, no Stop reaches it, and the next modal shows
  its log and offers a Stop without effect.
- OAuth2 panel: the state of a flow is in a ref, and setting it does not render;
  polling starts with the next render that something else causes.

## What is not modelled

- **SSRF filters**: predicates over addresses; what matters is name resolution,
  outside the code.
- **Server plumbing, generated code**: no state or logic of their own.
- **Poll of the OAuth2 panel**: whether it runs again is the query library's
  business; what starts it and what is done with a result is in `RequestResolution`.
- **Formatting** of bodies, sizes and times: conversions of text with no second
  function to agree with.
- **Rendering and forms** (`packages/ui/src/components`, most of `features`): what
  they change is in the modules of the page and of the storage; the rest is layout.
- What `ModesAgree` does not compare: the query, which `buildUrl` of the browser may
  write twice, headers that a browser does not let a page set (Cookie), and bodies
  other than JSON and raw.
- An `EventSource` that fails for good because its request is refused: the page does
  not listen to its errors, and no relay is there to end.
- Overlapping polls of a subscription are in the model and in `ShownIsFollowed`, which
  holds for any set of polls; the `sessions` run has one, so `EndsAreSeen` is checked
  for polls that do not overlap. Overlapping sends are in `execution`, overlapping
  syncs of the mock panel in `mocks`.
- Reflect, health and the stress panel of the gRPC
  page; conversion between JSON and protobuf; TLS and NTLM themselves.

Bodies, tokens and texts are abstract. Expiry is one Boolean, so nothing is said
about how long something takes.

## Plan

The components above are modelled, and the invariants that the prover can reach are
proved. What is left, in order:

1. `PhasesFit` and `BodyIsTimed`: the timings take no recursion, but their module
   does. Apart from it, `PhasesFit` is induction over steps with linear arithmetic.
2. Action properties: that a close, a cancel or a deadline is never undone by a
   later step of the same call (`CutsAreFinal` and `CancelsAreObeyed` are of this
   kind), for the calls of the gRPC page and for webhooks.
