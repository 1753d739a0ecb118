# porthook in TLA+

porthook is a self-hosted reverse tunnel. An **agent** beside a local service
keeps one WebSocket to a **gateway**; the gateway takes public HTTP requests for
`<subdomain>.<domain>` (or a custom domain), carries each one as a *stream* over
that WebSocket, and writes the agent's answer back. A **control plane** holds
tokens, reserved subdomains, access policies and custom domains, which the
gateway asks about.

This directory holds TLA+ modules translated from the Go code under `src/`,
TLC configurations that check them on small instances, and proofs for TLAPS of
the results that should hold for every size. `PROJECT.json` maps each definition
to the lines it stands for.

## 1. The system and what can go wrong in it

| Part | State | Operations | Who runs concurrently |
|---|---|---|---|
| tunnel registry, sessions (`gateway/server.go`, `registry/`) | two maps of the registry, sessions map, two locks | register, unregister, look up, close all | one goroutine per agent connection, one per public request, the shutdown of `Run` |
| streams (`gateway/session.go`, `agent/runner.go`, `agent/forward.go`) | slots, pending channels, active streams, chunk channels, the two directions of the socket | start, body, end, cancel, deliver, time out | read loop and one goroutine per stream at each end, keepalive |
| stream deadlines (`gateway/streamdeadline.go`) | two timers, a context | start, touch, stop, expire | handler, timer goroutines |
| rate limiter, guess throttle (`ratelimit.go`, `auth_throttle.go`) | tokens, last clock reading, map of limiters | allow, peek, record, evict | public requests |
| request pipeline (`server.go`, `handlePublicRequest`) | what each request holds | route, limit, throttle, ask for the policy, round trip, log | public requests |
| request log, audit events (`request_log.go`, `audit_events.go`, their PostgreSQL stores) | ring, index, last ID; a table | add, prune, list a page | requests, pruner, operators |
| domain cache (`custom_domain_resolver.go`) | answer and expiry | read, ask, store | public requests, changes in the control plane |
| agent connection (`runner.go`, `reconnect.go`) | attempt, delay, connection | dial, authenticate, register, serve, wait | agent, gateway handler, network, control plane |
| websocket relay (`websocket.go`, `wsstream.go`, `wsforward.go`) | two pumps per end | open, relay, close, cancel | four pumps per stream |
| control plane (`control-plane/internal`) | stores of tokens, reservations, policies, domains | create, update, revoke, verify, evaluate | one goroutine per API request |
| database (`*/postgres_store.go`, `migrations/`, the two `main.go`) | tables, `schema_migrations`, one transaction per process | migrate, verify the schema, every statement that writes | control planes and gateways on one database, crashing and restarting |

The hard behaviours: two-step lookups under two locks; a read loop shared by
all streams that blocks on one stream's full channel; `select` statements that
pick any ready case when a session ends; timers that fire while they are being
stopped; clock readings taken before a lock and used after it; a reconnecting
agent that meets its own stale session; slow lookups that overwrite newer
answers; handlers of the control plane that read one store and then read or write
another, while other requests delete, revoke and recreate; pumps that end one
another; rows listed in another order than they were inserted in; processes that
migrate one database at the same time and crash on the way. `PROJECT.json` lists
each hazard at its line with the properties that would catch it.

## 2. Modules

| Module | Stands for | Checked by |
|---|---|---|
| `TunnelRegistry` | `handleAgentWebSocket` step by step, `registry.Registry`, the sessions map with its mutex, `sessionBySubdomain`, `closeSessions` and the end of `Run` | run `registry`, proofs |
| `StreamMux` | `streamRoundTrip`, `readLoop`, `deliver`, keepalive on the gateway; `serve`, `handleHTTPStream`, the body pump on the agent; two bounded FIFO links | runs `streams`, `streams_truncated`, proofs |
| `WebSocketRelay` | `handlePublicWebSocket`, `openWSStream`, `relayPublicWebSocket` and its pumps on the gateway; `handleWSStream`, `relayWSStream` and its pumps on the agent; both read loops | run `wsrelay`, proofs |
| `StreamDeadline` | the three timers of a stream in discrete time, and the calls of its handler that they interrupt or do not | run `deadline`, proofs |
| `TokenBucket` | `rateLimiter` as pure operators, exact arithmetic | through the next three |
| `RateLimiter` | concurrent public requests on one limiter | through `PublicRequest`, proofs |
| `AuthThrottle` | `authAttemptThrottle`: its map of limiters, `blocked`, `recordFailure`, eviction | through `PublicRequest`, proofs |
| `PublicRequest` | `handlePublicRequest`, which composes the two with the policy, the round trip and the log entry | run `pipeline`, proofs |
| `BoundedLog` | what a bounded log promises (abstract) | refined by the next two |
| `RequestLog` | the gateway's ring and its durable table: record, prune, list | through `AuditLog` |
| `AuditLog` | the audit events of the control plane, in memory or in a table; a client that pages through either log | run `requestlog` |
| `DomainCache` | `cachedCustomDomainResolver` for one hostname | run `domaincache`, proofs |
| `AgentReconnect` | the agent's `Run` loop composed with the gateway's handler, the network and the control plane | runs `reconnect`, `reconnect_drop`, proofs |
| `IndexedStore` | the in-memory stores of reservations, policies and domains: records by id and an index of a unique key | through `ControlPlane` |
| `Tokens` | tokens, their use and revocation | through `ControlPlane` |
| `AccessPolicy` | policy records and what credentials match them | through `ControlPlane` |
| `ControlPlane` | the API handlers composed over the four stores and the DNS | run `controlplane`, proofs |
| `SqlStores` | the statements of the PostgreSQL stores, with keys, foreign keys and cascades | through `Database`, proofs |
| `Database` | `applyMigrations` and `verifySchema` of all seven stores, the start of both programs, crashes | run `database`, proofs |

`MC*` modules instantiate them and add at most a symmetry set and the configurations
to start from. Definitions whose
comment begins with *Mutant* are deliberately wrong versions of the definition
that follows them: substituted for it, each makes the named property fail.

How state and actions correspond:

- **TunnelRegistry.** `pc[c]` is the place of connection `c`'s goroutine; each
  action runs from one point that other goroutines can observe to the next. A
  `*Session` is the connection that built it. `removeSession` is two steps
  because it takes the registry's lock while it holds `sessionsMu`. Ids are drawn
  at random; without `ReuseIDs` an id that was given out comes up again only while
  its tunnel is still registered.
- **StreamMux.** Chunks are counted, not carried. A write blocks on a full link
  until there is room, its context ends or the write timeout closes the
  connection. The handler's write to the public client (place `write`) ends when the
  client reads or goes away, and is not ended by the context. A chunk that the
  agent's `serve` refuses as too large cancels its stream. `deliver` and
  `deliverActiveStreamChunk` are separate from the read that preceded them, so the loops can be seen blocked. Ended streams reset the
  locals nobody can read any more.
- **StreamDeadline.** `time.AfterFunc` runs its function in a goroutine: an expired
  timer is in `firing` until that function ran. `call` is where the handler is: sending
  the request (`send`), in the `select` of `readStreamResponse`, in `w.Write` to the
  client (`client`), or on its way out (`leave`, entered at `since`), which ends with a
  last cancellation to the agent. Time moves only when nothing
  expired is pending and the handler is not in the `select` with its context done
  (`Urgent`). Reading the public body is interrupted by `http.Server.ReadTimeout`
  (constant `ReadTimeout`), the last write by its own timeout (`LeaveTimeout`, in which
  the wait for the connection's write lock is not counted), and a write to the client
  by nothing, since the public server has no `WriteTimeout`.
- **WebSocketRelay.** Both programs have the same relay, so the pumps are written once
  for an end `e`; the handlers around them differ and are written twice. Messages are
  counted (`owed`: read from one peer, not yet given to the other). A peer's frame
  appears when `Read` returns it. `errs` is `errCh`: the first entry is what the relay
  reports, the second is the drain.
- **PublicRequest.** `req[r]` is the place of a request with its key and first clock
  reading; the second reading is `reading[r]` of `RateLimiter`. `config` is chosen once:
  a tunnel with a rate limit, or one without and more clients than the throttle's map
  holds. What the control plane answers is any of its outcomes. A request that is done has the status
  the client was `sent`, the implicit one of `net/http` included, and the one that was
  `logged`; they differ where the code records another (499 and 500, see §5).
- **RateLimiter, AuthThrottle, DomainCache.** Requests sample the clock in one step
  and use the reading in later ones. `mark`, `failed`, `since` and `past` are history
  variables: they record what happened and are never read by an operation.
- **RequestLog, AuditLog.** A ring operation holds the lock, a table operation is one
  statement; each is one step. An entry's relation to the client's filter is the bit
  `hit`. `server` and `durable` choose which of the four stores is listed. An insert
  into the table may fail after the ring has the entry. The control plane records an
  event for every page it serves, in the same step.
- **AgentReconnect.** The handshake messages are `reply[c]`; each side notices a lost
  connection in its own time. `protocol` says whose version the other end refuses: the
  gateway that of the agent, or the agent that of the gateway. A link that is `normal`
  was closed by the gateway with the status of a normal closure, on which `serve`
  returns nil and `Run` ends.
- **ControlPlane.** `req[q]` is the place of a request's goroutine and its locals; it
  can be overtaken at every call of a store or of the resolver. `IndexedStore` is
  instantiated three times, for reservations by name, policies by reservation and
  domains by hostname. Ids are random, so they are never issued twice (`issued`).
  `dns` holds the domains whose token was in their TXT record at some time: a
  resolver may answer with an old record, never with one that was not published.
  User name, password, bearer token and addresses are one secret; a hash is that
  secret with the scheme that hashed it. Init is empty stores, or a store left by an
  older version with a hash to upgrade (`LegacyStore`). `seen[q]` is a history: the
  grants that would have been right, had all been read at one moment since `q` began.
- **SqlStores, Database.** A version of `schema_migrations` stands for the SQL of its
  file; `objects` are the versions whose SQL has taken effect, `recorded` those with a
  row. A transaction sees what was recorded when it began (`seen`) and waits for an
  uncommitted object of another (`Held`). `store[p]` counts the stores that process
  `p` has brought up; an error ends the process and `Start` is its supervisor. A statement may
  name any id that was ever issued, since handlers act on what they read earlier. The
  foreign keys are those of policies and domains to their reservation; `token_id` of a
  reservation is a plain column, right because tokens are never deleted.

## 3. Runs

| Run | Instance | Shows |
|---|---|---|
| `registry` | 2 connections, 2 names, 3 ids, 1 request, 2 attempts | consistent maps, exact ownership, correct routing, no stolen name; names of lost connections are released, shutdown ends the copied sessions |
| `streams` | 1 stream, 2 request chunks, 1 response chunk, channels and links of size 1 | whole bodies; slots, pending entries and goroutines accounted for; no lasting circular wait; every stream ends at both ends, unless its client neither reads nor goes away |
| `streams_truncated` | 1 stream | a truncated response reported complete (violation) |
| `deadline` | timeouts 3/2/7, read timeout 5, last write 1, horizon 10 | timers fire for their cause only and bound the stream, but for calls they do not interrupt |
| `wsrelay` | 1 message under way, channels and links of size 1 | nothing left behind by any exit; completed means a peer closed; a close follows every message before it; both halves end |
| `pipeline` | 2 requests; rate 2, burst 2 tokens of 3 units; 3 keys, 2 throttle entries of 2 tokens; time to 3 | window bound, no undue refusal by either limiter, guesses bounded, the log tells what was sent |
| `requestlog` | ring of 3, 4 entries, pages of 1 to 3, the four stores | refinement of `BoundedLog`; complete paging through pruning, late entries and restarts |
| `domaincache` | 2 lookups, TTLs 2 and 1, time to 5 | bounded staleness |
| `reconnect` | 2 connections, delays 2, 4, 5 with jitter 1 | backoff, agreement of both ends, giving up only for a cause, settling |
| `reconnect_drop` | 3 connections | the agent gives up on its own stale session (violation) |
| `controlplane` | 2 requests, 1 token, 2 reservations, 1 policy, 2 domains, 1 name, 1 hostname, 2 modes, 2 secrets | indexes agree; what is deleted or revoked stays so; a domain is active only if proven; answers put together from several reads were right at some moment |
| `database` | 2 control planes, or a control plane and a gateway; three releases to start from; 2 crashes; 4 ids issued | what serves is migrated; rows stay consistent and active domains verified; what is deleted or revoked stays so; everyone serves in the end |

**Bounds.** They are the smallest that make the cases meet: channels of size 1 so
that a body of two chunks fills them while a third message waits; two connections
and two names so that a name can be released and taken between the two lookups of
one request; a ring of three with four entries so that it wraps and is pruned while
wrapped; a map smaller by one than the set of keys; two
ids for one name and one hostname, so that each is given up and taken again while
a request that read the old record is under way. Where the code
retries without limit, the counter saturates (`AttemptCap`) or the clock stops
(`MaxTime`, `Horizon`), in the guard of the action. `MaxCrashes` bounds crashes,
without which nobody need ever serve. The `streams` run has one stream; that the
accounting is right and bodies are whole for any number of streams on one connection
is proved. Symmetry is used only in
runs without liveness.

**Deadlock** is not checked where the system may really stop: `registry` (all
connections done, gateway returned), the `streams`, `wsrelay` and `deadline` runs (every
stream over), `database` (everyone serves and the bounds are used up). Elsewhere it is.

**Fairness.** Weak fairness on goroutines that can take a step: handshake steps,
which `HandshakeTimeout` bounds; the read loops; the stream handlers, whose local
call ends at the client's timeout; timers and keepalive (`wsrelay` needs neither the keepalive nor the gateway's read
loop, and does not assume them); processes that their
supervisor starts again (`restart: unless-stopped` in the compose files). Strong
fairness is assumed of two `select`s, since Go picks among ready cases at random: a
relay pump, and the handler in `readStreamResponse` (`HandlerReturns`), that meet a
done context again and again take that case in the end. Nothing is assumed of the
network, of the public client reading its response, of an agent connecting or leaving,
of the local service reading its input, of the control plane or of restarts.

**Form of the liveness properties.** Where what must end does not start again, *P leads
to Q* is written as `<>[]Q` or `[]<>Q`, which TLC checks together. Triggers that come
and go (`AgentRelayEnds`, `StaleTunnelReleased`) keep `~>`.

## 4. Proofs

TLAPS checks, for every value of the constants allowed by the `ASSUME`s:

- **`TunnelRegistryProofs`**: `TypeCorrect`, `RegistryStaysConsistent`,
  `HeldOnlyByLiveHandlers`, `NamesAreNotStolen`, `RoutedCorrectly`. None of the
  invariants is inductive alone: a map can be right only because the goroutine that
  put an entry there is at the right place. `Linked` says that for every connection
  (holding steps own exactly their id and name; serving ones exactly their session)
  and `Inv` adds the types and the attempt bound. Each action's lemma shows that it
  keeps `Linked`. Routing needs `RouteInv`: ids are never shared by two
  connections (`OwnIDs`) and what a lookup found is what that id's tunnel was
  (`LookupsTrue`). It is proved for ids that are not reused; with reuse TLC finds a
  counterexample, which is how the mutant of `newTunnelID` fails.
- **`PublicRequestProofs`**: `BudgetHolds`, `WindowBoundHolds`, `RefinesRateLimiter`,
  `PipelineWindowBound`, `RefusedOnlyWhenSpentHolds`, `LogTellsTheTruth`. `WindowBound`
  forgets the tokens left, so `Budget` adds them, together with the order of the clocks
  that makes every refill count elapsed time once. The arithmetic is nonlinear:
  products are hidden behind definitions and related by two distributivity lemmas.
  Every step of the pipeline is a step of `RateLimiter` or leaves it alone, so the
  pipeline implements it and inherits the window bound. What is logged is what was
  sent, but for the two exceptions that `LoggedAsAnswered` names: `Truthful` adds that a
  request under way has a place, which the steps that only move it need.
  The throttle (`GuessesBoundedHolds`, `BlockedOnlyAfterBudgetHolds`) is proved for any
  number of requests and keys. Requests check the throttle, ask for the verdict
  without the lock and charge it afterwards, so the tokens left do not say how many
  failures may still come. `Worth` does: a whole token is taken by one failure and
  missed by all the others that had passed the check, while a fraction of a token may
  be topped up by the clock reading of each. `ThrottleInv` says for every entry that the
  failures so far and its worth are within the bound (`GuessBudget`), and that it was
  charged for nothing else. A refill that comes late adds tokens and takes requests
  out of `Late`; `ChargeKeeps`, `LateStays` and `FewerLate` are about that.
- **`StreamMuxProofs`**: `AccountedHolds`, `SlotsMatchRoundTripsHolds`,
  `NoStreamOutlivesConnectionHolds`, `RequestBodyIntactHolds`,
  `CompletedWhileUpIsIntactHolds`, for any finite set of streams and any channel and link
  sizes (the run has one stream). `Accounted` is inductive; its proof splits into the
  gateway's half (`Slots`: the slot counter is the cardinality of the round trips between
  `acquireStream` and their defers) and the agent's (`Goroutines`: `activeStreams` are
  the goroutines at work, and the link carries messages of known streams only, or
  `serve` could start one that nobody counts). The bodies need `Flow`, which follows the
  chunks of one stream among those of the others, from the link over the hand of the
  loop that reads it to the channel of the stream: the start comes once and first
  (`StartIsFirst`), nothing of a body comes after its end (`EndIsLast`), and what was
  sent is what arrived and what is on its way (`Whole`) until the stream is told to
  drop the rest. The queue lemmas (`QueueAppend`, `QueueTail`, `QueueOrder`) say what
  the two ends of a channel do to counts and order; that a body is whole is put as an
  enumeration of its chunks that keeps their order (`Counts`), which needs no
  induction over the channel.
- **`WebSocketRelayProofs`**: `RelayInvHolds`, `NothingLeftBehindHolds`,
  `CompletedMeansClosedHolds`, `CleanCloseIsCompleteHolds`, for any number of messages
  and any capacity of channels and link. `RelayInv` joins what the four pumps, the two
  handlers and the two read loops know of one another. `Slots` and `Pumps` tie the
  registrations, the slot and `errCh` to the place of each handler: the second result
  is there only when both pumps are done. `NoClose` says that until a peer has closed
  there is no close frame anywhere and no pump has returned nil. That a close never
  overtakes a message needs a count: `Complete` says that, while an end still receives,
  the frames on its wire, in the hand of its loop, in its channel and with the sending
  pump are exactly those `Coming` to it, and that a close frame has all of them ahead of
  it. The count starts at zero because of `Handshake` (an end that has not answered has
  sent nothing), and stays right after a close because of `LastSent` (who has sent
  a close sends nothing more). The frame lemmas (`ReadFrame`, `TookClose`, `PumpMoved`)
  move one frame along that way; each action then needs one of a few shared lemmas
  on what it leaves alone.
- **`ExpiryProofs`**: `AnswersAreDated`, `StalenessIsBounded` for the domain cache, and
  `EndsInTimeHolds`, `TimersJustifiedHolds` for the deadlines of a stream. `Dated` follows
  each answer from the control plane through the cache to the lookup that
  returns it. `DeadlineInv` says which of the two uses the phase timer has and what its
  expiry was computed from, and that the timer which is to end a stream is armed, or
  its function runs, or the context is done, however `Touch`, `MarkResponseStarted` and
  the expiry of a timer race. `EndsInTime` is about the passing of time: `TimeIsBounded`
  shows that past a deadline the timer has fired and its function has run, so the
  context is done and time can move only while the handler is in a call that the
  context does not interrupt. The two share a
  module and nothing else.
- **`ControlPlaneProofs`**: `TypeCorrect`, `IndexesStayRight`, `ActiveOnlyIfProven`,
  `GoneForGood`, `GrantsAreExplained`. It says once what any step does to each store
  (`Moves`) and how a request can have come to its place (`Came`); the rest uses that
  and not the actions. An update writes a whole record that was read earlier, so it
  is harmless only because of what is still true of that copy: its id was issued, its
  key is the record's key if the record is still there, and it says *active* only
  with proof. `LocalsTrue` states this for every request and is part of `Inv`;
  `LocalsAge` shows that it survives the steps of others, `LocalsRead` that it holds
  when a record is read. For the answers, a request that holds a reservation either
  still holds that of its name, or has seen the name free (`Explained`); a step that
  deletes the reservation frees the name while the request looks on
  (`DeletedNameFree`), which turns the first case into the second.
- **`DatabaseProofs`**: `ServesMigratedHolds`, `RowsConsistentHolds`,
  `DeadRowsStayDeadHolds`, for any number of processes and crashes. What the rows
  promise each other (`RowInv`) is kept by every SQL statement by itself. That an
  active domain was verified is not: an old row is made right by a migration.
  `SchemaInv` says what a process that has brought up its first stores has found or
  made, whoever else migrates and crashes meanwhile, and `Verified` that the
  migration has left no unverified domain behind.
- **`AgentReconnectProofs`**: `BackoffBoundedHolds`, `ServesWhatIsRegisteredHolds`,
  `GivesUpOnlyForCauseHolds`, for any number of connections. What the agent believes
  comes from a reply that was under way while the gateway moved on, so `ReconnectInv`
  says of every reply in flight that, its connection being up, the gateway still
  serves the tunnel it tells of (`Agreed`), and that a refusal has the cause it
  names (`Caused`): an invalid token, versions that do not match, a requested name. `Backoff` is a recursive
  function that doubles a duration until it reaches the maximum; that its value lies
  between the first delay and the maximum for every attempt is shown by looking at the
  first turn of the loop for which it would not (`LeastNat`).

The assumptions are on constants only, and TLC evaluates them in the runs: sizes and
rates are natural numbers, `Cost` and capacities are positive where the code makes them
so; `Streams` and `Requests` are finite; the throttle's budget is a whole number of
attempts, as the code makes it from a count of them; the keys of a configuration are
keys; gateways and control planes are different processes, and there is an id and a name
to insert; `None` is no row, reply, connection or version; the cap on counted attempts is past the
first.

Only model-checked: liveness (fairness is beyond the prover), and with it
`ShutdownEndsSessions`, `NameReleased`, `RoundTripsEnd`, `LoopsUnblock`,
`AgentLeavesDeadConnection`, `StreamEnds`, `SettlesWhenCalm`, `StaleTunnelReleased`,
`RelayEnds` (`PublicWebSocketEnds` and `AgentRelayEnds`) and `EveryoneServes`; and the two properties of the logs, `PagesComplete`
and `ImplementsBoundedLog`. Pruning and listing are made of `SelectSeq` and
`SetToSortSeq`, which the provers do not unfold: what they return for every sequence
would need induction over it. Every other property of a passing run is a theorem.

## 5. Disagreements between code and documents

With a run: `streams_truncated`, `reconnect_drop`; see
`findings` in `PROJECT.json`. Met while modelling and not given a run of their own:

- `registerTunnel` writes `tunnel.registered` before `addSession` (`server.go:744`,
  `:322`); TECHNICAL_SPEC.md:228 says it is sent "when the tunnel is active".
- A request cancelled while `http.request.end` is written is not cancelled on the
  agent (`session.go:146`); TECHNICAL_SPEC.md:428 asks for a cancellation message.
- An ended stream may keep the read loop blocked on its full channel until the
  keepalive closes the session (`session.go:523`); THREAT_MODEL.md:70 says resources
  are released promptly.
- `Touch` before `MarkResponseStarted` re-arms the request timer
  (`streamdeadline.go:107`), which its comment calls a no-op; no caller does it.
- The throttle is asked before the credentials are looked at (`server.go:999`), so a
  client over budget is refused with good ones; `auth_throttle.go:17-19` says it
  cannot block normal traffic.
- `subdomain_authorization_unavailable` makes an agent that asked for a name exit
  (`runner.go:284`), though `auth_unavailable` is retried (`runner.go:232-236`);
  RELIABILITY.md:69 says agents retry in a control-plane outage. `GivesUpOnlyForCause`
  shows that it ends no other agent.
- When the gateway's `readLoop` returns on an open connection, the handler closes it
  normally (`server.go:297`), and the agent's `Run` returns nil instead of
  reconnecting (`runner.go:320`).
- The agent's HTTP client has a timeout for the whole exchange (`runner.go:98`), which
  also ends a stream that stays active; `streamdeadline.go:25-27` says that
  active streams "are not killed on a fixed schedule".
- The upgrade of a password hash, like any update, writes back the record it read
  (`access/service.go:421`), so a change made in between is undone;
  RELIABILITY.md:79 says changes of access policies must take effect immediately.
- A relay that ends because a write to the public client failed tells the agent
  nothing: the pump returns the error, its return cancels the other pump, and
  `ws.cancel` is sent for context errors only (`websocket.go:184`). The comment at
  `websocket.go:182-183` says every other exit "already notified it via ws.close or
  ws.cancel". The agent does the same when a local write fails, and `openWSStream`
  when its context ends while it waits for the accept (`wsstream.go`). The other half
  then ends with its peer, its deadline or the connection.
- Close frames are relayed with their code, without the reason; `websocket.go:283-284`
  and `wsforward.go:210-211` say "with the same code and reason".
- RELIABILITY.md:112 and COMPATIBILITY.md:44 give each store "its own
  `schema_migrations` table". All stores of a database share one table, and the
  production compose file puts gateway and control plane on one database. The version
  numbers do not overlap, so nothing breaks; processes that start together may fail
  once and come up at their next start (`EveryoneServes`). That section advises
  against starting replicas together on a fresh database; the run includes it.
- A deadline that ends a request while it writes gives `context.Canceled`
  (`streamDeadline` uses `WithCancelCause`) and is logged as 499, the status of a
  client that went away, while the client gets the implicit 200 of `net/http`.
- A websocket upgrade that `websocket.Accept` refuses is answered 403 by the library
  and logged as 500 (`server.go:928-931`).
- A handler blocked in `w.Write` to a client that does not read is not ended by its
  deadline (`server.go:1086`); the comment at `server.go:132-137` says that response
  duration is bounded by the stream policy, `streamdeadline.go:35-36` that the absolute cap
  is always enforced. `StreamEnds` and `RoundTripsEnd` except such a client.
- With `PORTHOOK_REQUEST_LOG_LIMIT=0` and a durable store, a listing without a limit
  is an empty page (`request_log.go:264`); the gateway's README:64 says zero disables
  the in-memory endpoint only. With a durable store the ring is not pruned by age.
- The SQL filters match `%` and `_` as wildcards, the in-memory ones literally.

## 6. Abstractions

Payloads, headers, encodings, log lines and metrics are left out; message kinds
and their order are kept. Tokens of the limiter are exact integers, not `float64`. A
hostname's cache entry is independent of the others, so one is modelled. A filter of a
listing is any set of entries. A SQL statement is one step and sees the latest
committed rows; a constraint that refuses it makes it no step. Locks are modelled where
transactions wait for one another, which is only while they migrate.

## 7. Not modelled

- The agent's `handleHTTPRequest` and the session's `roundTrip`, the older exchange of
  whole messages: the gateway no longer calls it.
- Gateway clients of the control plane, configuration, metrics, the management API and
  its proxy, telemetry, health checks, request ids: single calls, values read at start,
  or reports, with no state that decides anything. The outcomes of the clients, errors
  included, are choices of the modules that use them.
- Encodings, what versions and capabilities match (that they do not is an outcome of the
  handshake), client addresses, validation of names and hostnames: pure functions, which the repository tests by tables and
  nothing runs concurrently with.
- The service of admin tokens and the table of roles in front of the handlers; its
  PostgreSQL store is in `SqlStores`.
- The agent's command line: one-shot clients and output.

`components` in `PROJECT.json` gives status and reason for each part.
