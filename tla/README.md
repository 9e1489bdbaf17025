# ServerDeck: TLA+ models, checks and proofs

ServerDeck manages Linux servers from a browser.  A FastAPI backend
(`src/Backend`) talks to browsers over REST and `/ws/client`, and to one agent
per managed server (`src/agent`) over `/ws/agent`.  Agents connect outbound,
push telemetry, and carry out commands; the backend keeps everything that ties
browsers to agents in process-global dictionaries, changed by coroutines of one
event loop that interleave at every `await`.  These dictionaries, and the
database flags that must agree with them, are the core of the system.  Around
it lie requests that read rows, decide, and commit later (accounts, teams,
organizations, tickets, alerts), and the agent, whose terminals and log streams
outlive its connections.

## 1. Inventory

| Component | State it keeps | Operations | Hard because |
|---|---|---|---|
| Agent registry, `ws/agent_handler.py` | `connected_agents`, `agent_by_server_id`, `server_token_map`; `Server.is_online` | handshake, register, message loop, cleanup, mark offline; create and delete servers | connections of one agent overlap; cleanup is by key; a crash leaves the flag |
| Command bridge, `services/command_bridge.py`, `command` of `ws/client_handler.py` | `pending_commands`, audit records | send, resolve, time out, reply, audit | timeouts race answers; ids chosen by browsers; websocket used after an await |
| Watchers, `ws/client_handler.py` | `server_watchers`, `client_watches`, and the same for tickets | watch, unwatch, broadcast, cleanup | a live set is iterated across awaits |
| Streams, `ws/client_handler.py` | `stream_subscribers`, `client_streams` | open, close, forward, cleanup | subscriptions are popped by id |
| Agent connection, `connection.py` | socket, `connected`, backoff, loops | connect, listen, telemetry, scan | what ends `gather`, and whether the agent reconnects |
| Agent terminals and log streams | `terminal_sessions`, `active_streams`, executor threads | open, close, read, send, stop | processes end by themselves; reads block threads; entries are removed by id |
| Alerting and diagnosis | alert records, diagnosis records, tasks | periodic check, acknowledge, resolve, diagnose | check-then-insert, long-running tasks, crashes |
| Organizations, `api/admin.py`, `services/tenant.py` | `organizations`, schemas, `_individual_schema_ready`, `platform_users` | create, migrate, undo, drop, set up the owner | several commits, one of which fails or is the last before a restart |
| Credentials, `api/auth.py`, `api/users.py` | password hash, second factor, one-time code, reset tokens | login, 2FA setup and removal, reset | requests merge column by column |
| Membership, `api/users.py`, `api/admin.py` | accounts, teams, invitations, waitlist | register, invite, accept, approve, delete | checks before, constraints at the commit |
| Tickets, `api/tickets.py` | ticket rows, what watchers were told | create, update, answer | watchers are told before the commit |
| Folders, SQL, logs, sites, audit REST | rows | CRUD, calls to agents | little: single statements |
| Agent command handlers | the managed machine | systemd, pm2, nginx, ... | mostly shell commands; nginx rolls back |

Components interact as follows.  A browser's command is authorized, looked up
in `agent_by_server_id`, sent on that websocket and answered through a future
in `pending_commands`; the agent's handler receives all messages of the agent,
resolves futures, forwards stream output to the one subscriber of the stream
and broadcasts telemetry and scans to the watchers of the server.  The alert
task, diagnoses and ticket endpoints broadcast too.  An exception raised by a
broadcast ends whatever called it: an agent's handler, an alert pass, a ticket
request.

`PROJECT.json` lists every component, including those not modelled, and the
hazards of the code with the properties that cover them.

## 2. Modules

One action is the code between two awaits at which other coroutines can see a
difference.  Payloads, texts, columns without control, and logging are left
out.

### AgentRegistry

`agent_websocket`, its maps and the `is_online` column.  A token belongs to one
server and is represented by it.  `handler[c]` is where the coroutine of
websocket `c` is:

| `handler[c]` | in the code | leaves by |
|---|---|---|
| `accepted` | before the select of `AgentTokenMapping` | `LookupMapping`, `Refuse`, `HandshakeFails` |
| `mapped` | before the select of `Server` | `SelectServer`, `Refuse`, `HandshakeFails` |
| `selected` | before the commit of `is_online = True` | `CommitOnline`, `HandshakeFails` |
| `online` | before the three assignments | `Register` |
| `loop` | receiving messages | `Disconnected`, `HandlerError` (both `Pop`) |
| `popped` | before the commit of `is_online = False` | `MarkOffline`, `MarkOfflineFails` |

`link[s]` is the connection as the agent sees it; the backend's handler lags
behind.  `CreateServer` and `DeleteServer` are the REST operations (a row and
its token mapping are written in one transaction), `BackendRestart` forgets
everything but the table.  `stale` is a history variable: servers whose handler
was cut short while they were online.

An agent may connect again while the backend still serves its previous
connection: it gives up a connection after its own ping timeout, when the
backend need not have noticed, and nothing in the code tells the two handlers
apart.  The history variable `overlapped` holds the servers whose latest
connection was accepted while an earlier one still had a handler.
`ConnectedAgentRegistered` and `ConnectedServerOnline` speak of the other
servers and hold.  For the servers in `overlapped` they do not (section 3,
"Where the code gives less").

### CommandBridge and RpcService

`CommandBridge` extends `AgentRegistry` and composes the callers, the bridge,
the connection and the agent.  A call is one run of `send_command_to_agent`
together with its future.  `WsCalls` come from browsers and write an audit
record, `LogCalls` come through `execute_on_server` and check `is_online`, the
others (SQL explorer, diagnosis) call the bridge without a check.  A response is
identified by the call whose command was carried out.

`SendText` needs the link of the websocket that `Dispatch` looked up, which may
have gone meanwhile; `SendFails` is the raise outside the `try`; `TimerFires`
and `TimeoutRaised` are the two halves of a timeout (cancel, then resume), and
a response may arrive between them; `ResolveCommand` is the agent handler's
branch for responses; `Lose` drops what was on a dead connection.  A response
that arrives on a new connection of the agent does not exist in the code: the
agent's listen loop ends with its connection.

`FreshIds` says whether browsers choose ids that no other call uses.  The
backend's own ids are uuids and always fresh; the ids of browsers are taken as
they come (`client_handler.py:213`), and two pending calls with one id share a
future, so `WaiterIsPending`, `AnsweredByOwnCommand`, `AuditIsTrue` and the
refinement assume `FreshIds`.  The other properties do not.

`RpcService` is the abstract specification of the bridge: a call fails or is
answered once and for all, a command is carried out at most once and only if
sent, and an answered call has been carried out.  `ImplementsRpc` is the
refinement: status from `outcome`, sent from `cid`, ran from `executed`.

### WatcherBroadcast

Watching servers and watching tickets is the same code over two pairs of maps;
a topic is either.  A broadcast is a task that iterates over the Python set
itself.  `IteratedSet` is that set as it is now: the one in the map or, once
cleanup has deleted it from the map, an empty one.  CPython compares the size
of the set with the size at the start whenever the iterator advances
(`SizeUnchanged`) and raises if they differ.  If one client left and another
came, the size is the same; the newcomer may or may not be visited, and after
an addition the table may have been laid out anew, so that members may be
missed: `grown` records that.

### StreamRouting

The subscriptions of terminals and log streams.  Opening subscribes first and
then waits for the agent (`OpenStream`, then `OpenSucceeds` or `OpenFails`; a
handler whose browser went away meanwhile is left `closing`);
`ForwardTo` and `Forwarded` are the lookup and the outcome of a send, between
which anything may happen.  `originator` is a history variable: the websocket
that opened the stream last, until that fails or the stream is closed.
A stream id may be opened on a second websocket; the agent expects it
("Reopening a session id is treated as success").  The history variable `users`
holds the websockets that have used an id: `OriginatorIsSubscribed` speaks of
ids with one user and holds.

### Alerting

`check_alerts`, `run_diagnosis` and the endpoints of `api/alerts.py`, one
action per statement or commit.  A pass of the loop is `ListSchemas`, then per
schema `SelectServers`, per server `SelectRules`, per rule `CheckRule` and
perhaps `CreateRecord`, `Refresh`, `Broadcast` or `ResolveRecord`; the
variables `tenantsLeft`, `serversLeft`, `rulesLeft` are what its three loops
have left, `snapshot` and `breaching` the rows it read earlier and still works
on.  An exception, from a row that is gone, a statement that fails or a
broadcast that raises, abandons the rest of the schema (`AbandonTenant`).
`acknowledge_alert` and `resolve_alert` read a row (`Get`) and later write what
differs from it (`Commit`): an acknowledgement may reopen a resolved record,
and the history variable `reopened` says of which rules.  A diagnosis is
inserted as `loading` outside the `try` (`InsertDiagnosis`) and then completed,
failed, or left alone by a session that can no longer commit
(`DiagnosisBreaks`); `cut` records the alerts of which a fault is to blame.
`evaluate_rule` is a comparison of a reading with a threshold, the clock of two
metrics a choice (`TimedRules`).  `BrokenTenants` fail as often as they like;
elsewhere failures and restarts are bounded by `MaxOutages`, ids of records by
`Records`.

### AgentSessions

The agent's process: `connect`, `_listen`, the terminals and the log streams.
`link` is the connection, `lost` and `ended` one that is gone and not noticed
yet, `listen` where `_listen` is.  `send` does nothing without a connection and
raises on one that is gone (`SendRaises`); in `_listen` that exception ends the
connection (`Reply`), in a terminal the session (`Break`), in a stream the task
(`EndStream`).  A terminal reads in a thread of the executor, of which there are
`Threads`; `terminal.close` waits for a thread too, inside `_listen`
(`listen = "close"`, `CloseReturns`), and closing the descriptor does not end a
read that blocks.  A stream task is answered first, created, started and then
registered (`logs_stream`, `StreamBoots`); its `finally` removes the entry of the
id, whosever it is.  The history variables `reused`, `stopped` and `missed` name
the ids opened while in use, those stopped, and those stopped too early.

### Credentials, Organizations, Membership

These three model requests on the database.  A request is a step that reads and
decides, and one step per commit; a failure in between is `Rollback` or
`RequestFails`.  PostgreSQL runs at READ COMMITTED and SQLAlchemy writes only
the columns that the request has changed, so overlapping requests are merged
(`Merge` of `Credentials`); unique and foreign keys are checked at the commit
(`Constraints` of `Membership`, `InsertOrganization`).  An UPDATE that finds no
row raises, a DELETE that finds none does not.

`Credentials` is one account: every endpoint that changes the password, the
second factor, the one-time code, which login, setup and disable share, or the
reset tokens.  Hashes, codes and tokens are numbered, so that none repeats.

`Organizations` is the way from a request to a tenant: row, schema, migration,
owner, each its own commit (`InsertOrganization`, `create_tenant_schema`,
`run_tenant_migrations`, `AddOwner`), `UndoOrganization` in the exception
handler, deletion, the shared schema `tenant_individual` with the flag that
spares its migration, and the setup of the platform owner.  The handler undoes
failed migrations only: after a failed CREATE SCHEMA its transaction is aborted,
for a name in `BadKeys` it raises again, and the row stays
(`create_tenant_schema`).  A deletion reads a row and later drops the schema by
name and deletes the row by id (`delete_organization`, in two steps), so it may
meet a newer organization of the key.  The key "individual" is accepted for an
organization (`Individual`), whose schema is then the shared one.  `KeyOf` is
the key made from an address.  Two history variables name what the code leaves
broken: `cut` the keys whose provisioning was given up half way or overtaken by
a deletion, until a later deletion clears them, `spoilt` a shared schema that was
left empty, or dropped while the flag was set or about to be, until a restart
or a drop under an unset flag makes it be made anew.

`Membership` is the shared schema: who has an account, in which team, who is
invited, who waits.  A unit of work is a record of inserts and deletes that
`Commit` applies if the constraints allow.  `crossed` and `doubled` are the
teams and addresses for which two deletions or two invitations by the platform
owner overlapped.

### Tickets

`Tickets` extends `WatcherBroadcast`: each broadcast is made by a request that
has read a ticket, has flushed its changes and thereby holds the lock of the
row, and commits or rolls back when the broadcast has returned or raised.
`told` is what each browser was last told.  `misled` holds the browsers that were
told what is not so for one of three reasons: the update was rolled back, the
request had read an older row, or the broadcast left them out because its set
grew.

Module dependencies: `CommandBridge` extends `AgentRegistry` and instantiates
`RpcService`; `Tickets` extends `WatcherBroadcast`; each `XProofs` extends `X`.
`CommandBridgeProofs` holds the proofs about `AgentRegistry` too, and
`TicketsProofs` those about `WatcherBroadcast`, since each builds on them.  Each
`MCX` extends `X` and adds, where needed, symmetry sets and constant functions.

## 3. Model checking

| Run | Instance | Shows |
|---|---|---|
| `Registry` | 2 servers, 2 connections, fair handlers | `RoutesToServingHandler`, `OnlineHasHandler`, `ConnectedAgentRegistered`, `ConnectedServerOnline`: the maps name only handlers that serve that very server; `DeadLinkUnregistered`, `OfflineEventually`: what is gone is noticed |
| `BridgeFresh` | 2 servers, 1 connection object, a browser's and a REST call, 2 fresh ids | `DeliveredToNamedServer`, `PendingHasCaller`, `AuditIsTrue`; `ImplementsRpc`, the refinement of `RpcService` |
| `BridgeLive` | 1 server, 1 connection, 2 calls of browsers with the same id, fair callers | `CallsEnd`: every call is answered or fails |
| `Watchers` | 1 topic, 2 browsers, 2 broadcasts, fair tasks | `CompletedReachesAudience`; `BroadcastEnds`, `LostBrowserForgotten` |
| `Tickets` | 1 ticket, 2 requests, 2 browsers, 2 contents | `TicketsTypeOK` (with: who broadcasts has flushed); `ShownIsCommitted` |
| `Streams` | 2 browsers, 2 ids, fair handlers | `OriginatorIsSubscribed`; `LostSubscriberForgotten` |
| `Alerts` | a tenant with 1 server and 1 rule, a broken tenant, 2 records, 1 request, 1 outage | `OneOpenRecord`, `AlertIsAttended` |
| `AlertsLive` | the same with 1 record, fair tasks | `DiagnosisEnds`, `BreachIsReported`, `ClearedIsResolved` |
| `Accounts` | 2 requests at a time, 2 secrets, 2 hashes, 2 codes, 2 reset tokens | `TypeOK`; `TwoFactorUsable`: no overlap leaves a second factor nobody can pass; `CodeDiesWithUse`; `OneResetLink` |
| `Provisioning` | 2 requests at a time, 3 keys of which one is refused and one that of the shared schema, 3 domains of which two share a key, 2 organizations | `TypeOK`; `ProvisionedTogether`: row, schema and owner go together; `IndividualReady`: the flag says the truth; `OnePlatformOwner` |
| `Members` | 2 requests at a time, 2 addresses, 2 teams, 2 invitations, roles owner and member | `TypeOK` (with the foreign keys); `TeamIsLed`; `OnePlatformInvite` |
| `AgentSessions` | 1 session id and 2 sessions, 1 stream id and 2 tasks, 2 threads, fair event loop | `TypeOK`; `ShellCanBeClosed`, `StreamCanBeStopped`, `StopIsEffective`; `AgentReturns`, `StoppedStreamEnds` |

Bounds.  Identities of connections, browsers, sessions, stream tasks, teams and
invitations are reused once nothing refers to them, so their number over time is
not bounded, only how many coexist.  `Registry` has two connections, which may
be of one agent or serve a server each; `BridgeFresh` has one, so that two
servers and two calls fit, and the case of overlapping connections is covered
by the theorems, which hold for any number.  Two calls are what a race for an id
or a future takes.  Of two browsers
one is served or ahead of the iterator while the other joins or leaves, and two
broadcasts discard from the same set.  Each call happens once; a caller that
sends another command is another call.  Two records are what a second open
record of a rule takes; the liveness run has one, so several open records that
are resolved one a pass are not in it.  Two requests under way, any number one
after another, are what a lost update, a check that is stale at the commit, or a
deletion during provisioning takes; two codes, hashes or tokens let an old one
meet a new one.  `MaxOrgs` bounds the rows ever inserted: two organizations race
for a key or a domain, or one is made, read by a deletion, and replaced before
that deletion goes on.  `admin` and
`owner` are alike but for `create_user_direct`, and `Members` leaves `admin`
out.  Two sessions under one session id are the one that is closed and the one
opened while the first still ends; two threads can both be taken.  Symmetry is
used in runs without liveness only.

Deadlock is checked in every run.

Fairness.  Handlers and callers are coroutines that the event loop resumes when
they are ready, timers fire, an awaited send returns or raises, and a websocket
server reports a closed connection: weak fairness of `HandlerStep`,
`CallerStep`, `BroadcastStep`, `LoopStep`, `DiagnosisStep` and of the cleanup of
lost browsers.  On the agent, weak fairness of `Connect` (the portal can be
reached), of the listener, of read loops that have or can get a thread, and of
stream tasks that start or whose process has ended.  Shells, log processes,
agents as the backend sees them, browsers, users, faults and restarts are never
assumed to do anything.

Every property of a passing run has a mutant: an operator named after a
plausible slip in the code (`PopKeepsSocket`, `TimeoutSwallowed`,
`MergeWholeRow`, ...), defined before the operation it would replace, with which
TLC finds the property violated.

### Where the code gives less

The properties name their exceptions, with history variables, so that what
remains is exact.  Dropping an exception gives a counterexample; these are what
the models showed of the code.

1. An agent that reconnects before its old handler has ended is unregistered by
   the old handler's cleanup (`agent_handler.py:143`) and marked offline by its
   last update (`agent_handler.py:148`), until it reconnects again
   (`overlapped`).
2. A command whose answer comes late, whose browser has gone or whose audit
   insert fails is carried out without a record (`client_handler.py:296`):
   `AuditIsTrue` says that records are true, not that there is one for every
   command.
3. A broadcast raises when its set changes during an await; the other watchers
   get nothing (`client_handler.py:469`), and a ticket request is rolled back
   after some were told (`tickets.py:160`, `misled`).
4. A failed or timed-out open of a stream drops the subscription of a second
   websocket that opened the same id (`client_handler.py:382`, `users`).
5. A connection that the portal closes normally is not made again: `_listen`
   returns, `gather` waits for the other loops (`connection.py:49`);
   `AgentReturns` speaks of lost connections.
6. With all threads of the executor in reads, `terminal.close` waits for a thread
   inside `_listen` (`terminal.py:136`), and the agent answers nothing
   (`Exhausted`).
7. A session whose shell has exited stays registered and is reported as reused
   when it is opened again (`connection.py:212`).  `logs.stop_stream` before the
   stream is registered stops nothing (`missed`).
8. A refused schema name raises again in the exception handler, and so does the
   DROP after a failed CREATE SCHEMA, in a transaction that is aborted: the
   organization's row stays (`auth.py:146`, `admin.py:163`, `admin.py:691`).  A
   deletion that has read a row drops the schema of the organization that
   replaced it (`admin.py:201` and `208`).  Both are in `cut`.  A shared schema
   that was created and not migrated is taken for ready (`tenant.py:129`), and
   the deletion of an organization named "individual" drops it under the flag
   (`admin.py:208`), with all personal accounts; both are in `spoilt`.
9. Two overlapping requests for a reset link leave two links (`auth.py:543`),
   two setups two platform owners (`admin.py:81`), two invitations of one address
   make `scalar_one_or_none` raise afterwards (`admin.py:299`), two overlapping
   deletions can empty a team (`users.py:254`).
10. A browser that sends one TOTP secret to `verify_2fa` twice while a removal is
   under way can leave TOTP enabled without a secret (`users.py:389`): the column
   that already holds the value is not written.

## 4. Proofs

TLAPS checks `CommandBridgeProofs` (with `AgentRegistry`), `TicketsProofs` (with
`WatcherBroadcast`), `StreamRoutingProofs`, `AlertingProofs`,
`CredentialsProofs`, `OrganizationsProofs`, `MembershipProofs` and
`AgentSessionsProofs`.  Every safety property of every run is a theorem, for
every number of servers, connections, calls, ids, browsers, topics, streams,
rules, records, outages, requests, secrets, codes, tokens, organizations, teams,
invitations, tickets, terminals and threads.  The only assumptions are those on
the constants stated in the modules:

* `None` is none of the identities and no record (`RecordsAssumption` and the
  like), and `NewTeam`, the team that a unit of work will insert, is none of the
  teams;
* the bounds are natural numbers, `FreshIds` is a Boolean, `WsCalls` and
  `LogCalls` are disjoint sets of calls;
* the set of browsers of `WatcherBroadcast` is finite, since sizes are compared;
* every domain has a key (`KeyOf`), the refused keys are keys and the key of the
  shared schema is one that is not refused; `owner` is a role.

The inductive invariants, and what they add:

* **Registry.**  `RegistryInv` strengthens `TypeOK`, `MapsAgree`,
  `RoutesToServingHandler` and `OnlineHasHandler` with what the handler's state
  says of `srv` and `link`: a websocket that does not exist has no server, and
  the link of a server is a connection that presented its token.  Without it a
  cleanup could pop the entry of another server.  For a
  server that is not in `overlapped` it also says that there is at most one
  handler (`SerialHandlers`), from which `SerialAgentsRegistered` and
  `SerialServersOnline` follow.
* **Bridge.**  `BridgeRefinesRegistry` shows that the composition takes only
  steps of the registry, so its invariant is inherited.  `BridgeInv` relates
  the phase of a call to its id, websocket, message and future.  The key to
  `DeliveredToNamedServer` is that a websocket in use by a call is never
  reused, so that the server it serves stays the server the call named.  With
  fresh ids, an id has one call and thus a future can only be resolved by its
  own response.  `BridgeImplementsRpc` proves the refinement step by step from
  the same invariant.
* **Watchers.**  `WatcherInv` accounts for every client of the audience: sent
  to, being sent to, or ahead of the iterator and still in the set.  It needs
  that sets with members are in the map, so that cleanup finds them, and that a
  broadcast discards only clients that are not connected.
* **Tickets.**  `TicketsStepsAreWatcherSteps` shows that a request broadcasts as
  any task does, so `WatcherInv` is inherited, and `TicketsImplementBroadcasts`
  that the composition implements `WatcherBroadcast`.  `ShownIsCommitted` speaks
  of tickets that nobody is telling of; in between, `TicketsInv` places every
  connected watcher: it got the update and was last told the new content, it is
  owed the update and was last told the committed one (`UntoldKnowsCommitted`),
  or it came later and was told nothing (`UpdateIsKnown`).  The lock of the row
  makes the teller unique (`OneTeller`), so no other request disturbs this.  The
  commit is where the broadcast's own theorem is used:
  `CompletedReachesAudience` leaves nobody in the second place.
* **Streams.**  `StreamInv` ties every subscription to a running handler that
  lists it; every trace of an id (subscription, list, open under way) leads to
  one of its users (`TracesAreUsers`), so an id with one user has one trace.
* **Alerting.**  `AlertingInv` adds to the two properties what the position of
  the loop and of each task says of the rows: between the check and the insert
  no record of the rule is open unless one was reopened (`CreateInv`), an unused
  id has no row and no task, a working task has a row that is loading.
* **Credentials.**  Overlapping requests merge column by column, so the invariant
  (`CredentialsInv`) says of every request under way which columns it will write
  together: enabled and method (`PairWritten`); a secret with the method TOTP, and
  another method with the removal of the secret (`SecretWritten`).  The second
  fails when a request would write the value the column has, which is why the
  property excepts secrets sent twice.  For codes it says that a code about to be
  stored has not been stored, accepted or used by anybody (`CodeWritten`,
  `CodesApart`), for reset links that a request that overlaps no other deletes
  every token there is (`LinkInv`).  Every endpoint but the one that enables TOTP
  is an instance of one lemma (`AdmitPlain`); `CommitInv` is the merge.
* **Organizations.**  `ProvisionedTogether` speaks of keys that nobody is
  provisioning.  `OrganizationsInv` says how far row, schema and accounts may
  disagree in between: a request past its first commit holds the id of the row
  of its key, ids are never used twice (`IdsDiffer`), so there is one such
  request and its progress tells what the schema holds (`InStep`, `Provisioned`).
  A deletion that goes on while a request is at work, or after the row was
  replaced, would break this, which is why it puts the key in `cut`; any other
  leaves the key at rest (`DeletionPreserves`).  The shared schema may be made,
  migrated and dropped by several requests at once: `SharedSchema` says that,
  unless `spoilt`, an empty one has a request that will migrate it or fail, and
  that the flag and every request that will set it have a schema.
* **Membership.**  A unit of work was decided on rows that others may have
  changed.  `MembershipInv` says what is still so at its commit: the accounts it
  deletes are there, its invitations are gone or those it read (`ReadRows`), the
  team it adds somebody to is gone or has members, unless it adds the owner
  (`JoinsOthers`), and a deletion spares a manager who is still there
  (`DeletionsSpare`).  `TeamIsLed` alone is not inductive: a member could accept
  an invitation to a team whose owner has never come, which
  `EmptyTeamsAwaitOwner` excludes.  `TeamsNeverEmptied` is the action property
  that follows: outside `crossed`, no step takes the last member out of a team.
* **Agent sessions.**  `SessionsInv` adds that an entry of `terminal_sessions` or
  `active_streams` is a session or a started task of that very id, and that an id
  that was not opened while in use has one task (`OneTask`): the `finally` clause,
  which removes the entry of an id, then removes its own.

The theorems also cover invariants that the runs no longer repeat: type
correctness of five modules (`RegistryTypeCorrect`, `BridgeTypeCorrect`,
`WatchersTypeCorrect`, `StreamsTypeCorrect`, `AlertingTypeCorrect`), `MapsAgree`,
`WaiterIsPending`, `AnsweredByOwnCommand`, `WatcherIsIndexed` and
`SubscriberIsIndexed`.

Only model-checked: the liveness properties (`DeadLinkUnregistered`,
`OfflineEventually`, `CallsEnd`, `BroadcastEnds`, `LostBrowserForgotten`,
`LostSubscriberForgotten`, `DiagnosisEnds`, `BreachIsReported`,
`ClearedIsResolved`, `AgentReturns`, `StoppedStreamEnds`), since fairness is out
of the prover's reach.

## 5. Not modelled

* The order in which an agent takes the commands of one connection, and the
  contents of telemetry, scans and responses.
* Several backend processes: the dictionaries are per process and the code
  assumes one.
* Sessions, the connection pool and `search_path` (`database.py:62`): which schema
  the statement after a commit meets depends on the pool and on every commit of
  every endpoint.
* Accounts in several schemas: `Credentials` and `Membership` are about one
  schema each, and `Organizations` counts the owners of organizations only, so
  that an organization named "individual" has its owner among the personal
  accounts is not modelled; an owner whose address does not begin with the
  organization's key is not found at login (`auth.py:282`).
* Expiry of invitations: `accept_invite` refuses an expired one, while
  `create_individual_user` counts it as present.
* Module permissions, folders, sites, audit lists and dashboards: single
  statements on single rows.
* The agent's command handlers, nginx, telemetry and scans, email, agent
  distribution: files, shell commands, mail and reads of the machine.

Components without a module are listed in `PROJECT.json` with the reason.

## 6. Plan

1. One incident per breach as an abstract specification of `Alerting`.
2. `TenantSessions`: connection pool, sessions and commits; in which schema does
   the statement after a commit run?
3. `NginxSites`: write, test, roll back, reload.
