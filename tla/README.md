# Mosona Manager: formal models

TLA+ models of the hub of Mosona Manager (`src/`), the TLC runs that check
them and the TLAPS proofs about them. The models follow the Go source: one
action per operation, or per step of a goroutine between two accesses to shared
state. `PROJECT.json` maps every definition to the lines it models.

## 1. The system and its parts

The hub is one Go process. It keeps its configuration in PostgreSQL, sessions
and rate limits in Redis, and statuses and audit logs in InfluxDB. It reaches
servers in three ways: SSH (type 0), a connection to an *active* agent (type 1),
and connections that a *passive* agent opens to the hub (type 2).

| Part (source) | State | Operations | What must hold |
|---|---|---|---|
| Status queue (`internal/influx/status_writer.go`) | ring buffer, in-flight count, `accepting`, wake channel, context, counters | enqueue, take, fill, write with retries, shutdown, abort | bounded, drop-oldest, in order, nothing twice, counters balance, drains before the client is closed, no lost wake-up |
| Outbound lifecycle (`internal/connect/conn`, `internal/connect/init.go`) | 64 lifecycle locks, `connectPool`, `reconcileRetries`, one goroutine per worker or retry | `ReconcileServer`, `StopServer`, retry, boot | one worker per server, stops wait, the pool agrees with the database once all is quiet |
| Server handlers (`internal/app/api/server`, `internal/app/api/keys/edit.go`, `internal/db/server.go`) | `servers`, `agents`, `enroll_tokens` rows | add, edit, del, reinstall, key edit | the lifecycle follows what was committed, also on error paths |
| Active agent client (`internal/connect/active`) | pinned `public_key`, protocol version, one websocket | connect, handshake, pin, read statuses and logins | an identity is pinned once and belongs to the current installation |
| Passive connections (`internal/app/agent`) | `mainConnections`, `ManagedConn.closed`, `stateMu` | enroll, authenticate, register, read, remove, close | one registered connection, revoked access ends connections |
| Terminal sessions (`internal/app/agent/connection/user.go`, `terminal.go`, `internal/app/api/server/terminal`) | session slots by id, two websockets | set, take, remove, close | a session is taken once, both ends close |
| Websocket client (`pkg/ws`, `agent/passive`) | connection, reconnecting flag, closed flag | connect, reconnect, send, read, close | no connection after Close, no write on a stale one |
| Audit log queue (`internal/influx/log_add.go`) | channel, pending count | add, write, shutdown | drained before the client is closed |
| Alert rules (`internal/task/alerts`, `internal/db/alert.go`) | rules with their last state, channels, the running round | edit, periodic round, delivery, commit | a recorded alarm was given, a lasting one is given in the end |
| Logins (`internal/loginnotify`, `internal/connect/ssh/login.go`, `agent/logins`) | snapshot and cursor of the prober; offset, inode and seen keys of the watcher; the hub's queue | probe, diff, scan, submit, notify | each login is notified at most once, none from before the start |
| External sign-in (`internal/oauth`, `internal/db/oauth.go`, `internal/app/auth/oauth.go`, `internal/app/api/user/oauth.go`) | provider and identity rows, the hub's copy, issued states | begin, callback, link, unlink, change or remove a provider | an authorization ends with the account it proved; the copy follows the row |
| Team configuration (`internal/app/api/team/export_import.go`, categories, keys) | `categories`, `keys`, `servers` rows, workers | edits, export, import | servers keep categories, keys, readable secrets and workers |
| Users and teams (`internal/db/team.go`, `internal/db/user.go`, `internal/app/api/team`, `internal/app/api/admin/user`) | `users`, `teams`, `m_team_user` rows and their locks | edit, leave and create a team; delete, promote and demote users; register; rehash | a team's owner administers it, an administrator remains, changes are authorised when they commit |
| Sessions (`internal/redis/sessions.go`, `internal/app/auth`, `internal/app/middleware`, `internal/access`) | session keys and the index of ids in Redis, `users_config` | sign-in, second factor, sign-out, list, revoke, active team, team access, streams | a live session can be found and revoked, the id changes at sign-in, lost teams are revoked |
| Snapshot streams (`internal/app/api/server/monitor`, `internal/app/api/public`) | sources per team, subscribers, limits | subscribe, load, broadcast, stop | a subscriber is served by a running source |
| Agent update (`agent/update`) | files, lock, service | check, download, verify, replace, restart | a crash leaves a runnable agent |
| Renewal task, telemetry, install, notifications, public page | see `PROJECT.json` | | |

How they interact: an API handler commits to PostgreSQL and then calls
`conn.StopServer` and `conn.ReconcileServer`, synchronously. Those stop the
outbound worker and, through the registered inbound stopper
`connection.MainClose`, the passive agent's connection. Workers and passive
connections call `influx.AddServerStatusContext`, which enqueues into the status
queue. `del` calls `influx.RemoveServerStatus` after the stop. `app.Start`'s
shutdown stops both InfluxDB queues and closes their client last.

What is hard to test, each with its line and its properties, is the `hazards`
list of `PROJECT.json`: reads that are stale when they are used, a stop that is
overtaken, retries that act late, a swap whose second half runs outside the
lock, a restart between commit and reconciliation, a shutdown deadline that
passes during a write, a wake-up that is lost.

## 2. Modules

| Module | Models | Proved or checked |
|---|---|---|
| `StatusFeed` | what the status queue promises: a bounded drop-oldest feed with ordered delivery | abstract specification |
| `StatusQueue` | the status queue: producers, worker, shutdown | `MCStatuses`, `StatusQueueProofs` |
| `Lifecycle` | outbound lifecycle and the handlers that drive it, boot, restart, pinning | `MCLifecycle`, four configurations; `LifecycleProofs` |
| `PassiveConn` | the connections of one passive server, enrollment, and the handlers that revoke access | `MCPassiveConn`, two configurations; `PassiveConnProofs` |
| `Teams` | accounts, administrators, teams and members under concurrent transactions | `MCTeams`, `TeamsProofs` |
| `Sessions` | the sessions of a user under concurrent requests and Redis failures | `MCSessions`, `SessionsProofs` |
| `Snapshots` | sources of a team's snapshots, their readers and polling loops | `MCStatuses`, `SnapshotsProofs` |
| `WsClient` | the agent's reconnecting websocket client and its callers | `MCServices`, `ServicesProofs` |
| `TerminalSession` | web terminals of the three kinds of servers, to the shell | `MCServices`, `ServicesProofs` |
| `AlertRules` | alert rules, their edits and the periodic round | `MCServices`, `ServicesProofs` |
| `SshLogins` | the login prober of an SSH server | `MCRequests`, two configurations, `MCSshLogins`; `RequestsProofs` |
| `AgentLogins` | the agent's login watcher and the hub's reporter | `MCRequests`, `RequestsProofs` |
| `OAuthProviders` | a provider, its copy in memory, sign-in and linking | `MCRequests`, `RequestsProofs` |
| `TeamConfig` | categories, keys and servers of teams, export and import | `MCRequests`, `RequestsProofs` |

`MCStatuses`, `MCServices` and `MCRequests` each hold several components that
share no state. A behaviour explores one of them, chosen in the initial state,
and the others rest, so the state spaces add up instead of multiplying; a resting
component owes no fair step.

**StatusQueue.** Variables are the fields of `serverStatusProcessor` under their
own names. `ppc`, `wpc` and `spc` say what a producer, the worker and the
goroutine in `shutdown` do next. A critical section of `p.mu` is one step;
`recordDrop` and `notify`, which run after the unlock, are steps of their own.
A point is named by its acceptance number. `delivered` is a history of what the
writer acknowledged. `abort`, used when a processor is replaced, takes the steps
of a shutdown whose deadline has passed.

**Lifecycle.** `exists`, `allow`, `cfg` and `pinned` are the rows; `cfg` counts
changes of the connection settings and, for an active server, its installations,
so an agent is identified with the installation number and `pinned` holds the
installation whose key is in `agents.public_key`. `lock`, `pool`, `retryOf` are
`lifecycleLocks`, `connectPool`, `reconcileRetries`. A handler is the list of
calls it still has to make (`todo`): `del` is stop, delete, stop, purge. The
steps of `reconcileServer` (read, readKey, take, wait, load, take again,
register, finish) are separate, because other goroutines commit rows between
them. A worker's identity is reused once it has ended. `excused` records why a
server may lack an up-to-date worker for a reason the code accepts: the worker
ended by itself, an edit failed after its stop, the goroutine of a key edit
could not list its servers.

**PassiveConn.** One server, as passive servers share nothing but the lifecycle
locks. A connection is one goroutine in `passiveWS`; `main` and `closed` are the
registry; `write` is the time a status is added under `stateMu`, for which
`ManagedConn.Close` waits after it has set `closed`: a closed connection that is
still in `write` still adds its status, and counts as collecting. An agent is named by the token it was enrolled with.
`Enroll` lets a token in that was valid when the request looked it up, as the
lookup is outside the transaction. The retry of a failed reconciliation is taken
over by any idle caller.

**Teams.** Each handler is a request, which the middleware has checked against
the state at its arrival, and one READ COMMITTED transaction. A statement that
locks a row is a step that waits for the row; the writes of a transaction are
one step, its commit. `FOR UPDATE` and deletes lock exclusively, a foreign key
takes a key share lock on the row it refers to, the rows of one statement are
locked in the order of their ids. A deadlock is a set of handlers each waiting
for another of the set, and any of them may be the one PostgreSQL aborts. A
password hash is a number, so that "the hash that was verified" can be stale.
Locks on `users_config` rows are left out.

**Sessions.** The sessions of one user. A request loads its session once and
works on the copy, and `sess.Save` writes the copy back without asking whether
the key still exists; every Redis command and every SQL statement or transaction
is a step, and `RedisError` says where each command's failure leads. Membership
changes by others are the commit of an edit followed by the revocation that the
edit makes. Three histories name the exceptions of the properties: `revived`
(a deleted session was written back by a request that had loaded it, or could
not be taken back), `late` (a session got its team, or was listed, after the
loss), `missed` (the revocation itself failed, which the code only logs).

**Snapshots.** The public page and the monitor have near copies of one design;
`kind` says which copy a behaviour runs. The differences are kept: the public
source remembers failures, is never dropped and is asked before the stream
subscribes; the monitor's drops an idle source, cancels its query, passes the
cache by in its loop and looks at the stop channel twice. Requests and loops are
goroutines that call the same `get`.

**WsClient.** `client` holds the fields of `Client`, `caller` what each of four
goroutines does, `net` the connections that are open, broken, silent or refused.
Only the hub's client of an active agent sets a read deadline (`pongWait`), so
only it notices a peer that hangs while TCP is alive; the agent's own clients keep
reading, and a write to such a peer may never end. Every
section under `c.mu` is a step, and so is every dial, read, write and close, as
they happen outside of it. A connection is an identity. Delays between two dials
take any time.

**TerminalSession.** `term` is the hub's side with the handler, the relay and the
timer, `slot` the sessions that wait for a passive agent, `remote` the agent's or
sshd's side with its shell. The goroutines of one side that copy data end together.
The hub's cleanup is taken apart, as its handler does not wait for all of it:
`ConnectShell` closes `done`, then the link, then the browser, and its handler
returns with the first of them; `terminalSSH` closes `done` last. The three
requests that set up an SSH session run before the context is watched and have no
deadline.

**AlertRules.** A round goes through its stages (read, load batch by batch and
slice by slice, evaluate and deliver, commit) with edits, failures and a restart
between them. What a server reports is a level against the rule's threshold. Rows
have identities, so that a rule deleted and added again is another rule. `told`
is a history of what each row last said and whether its recorded state lags; a
rule that is recorded as over its alarm starts anew, so that an earlier episode
neither counts as the announcement of a later one nor hides that it was lost.

**SshLogins, AgentLogins.** Logins are numbered in the order they happen, and the
number stands for the key that the code builds from user, terminal, address and
time. The record file is a run of numbers; a record may be half written. In
`AgentLogins` the layout of the records is known once enough of them are complete,
and the set of seen keys is bounded and evicts. `news.evicted` names the only
logins that may be notified again.

**OAuthProviders.** One provider. Its endpoints, client and subject field are one
value, the namespace. Handlers of administrators commit, then build the provider,
install it and revoke older states, in separate steps and in any order among
them. `done` is a history of the authorizations that succeeded, with the account
that was proved and the one that was used.

**TeamConfig.** Rows with ids that are never reused. An export reads table after
table; an import checks its file, lists the servers it will replace, waits for
the rows it deletes, replaces everything in one step (its transaction), or fails,
and then stops and starts workers. `seal` is the row id a secret was encrypted
for, `wants` the key a server was configured with. A reconciliation starts a worker
if the server can be reached (an active agent without its row cannot) and its
secrets can be read; if they cannot, a retry stays behind (`retry`). That a worker
may also end by itself is in Lifecycle.

Operators named "Variant for mutation" are not part of a specification: each is
a plausible slip in the operation that follows it, used to show that a property
can fail.

## 3. Runs

| Run | Instance | Distinct states | Shows |
|---|---|---|---|
| `statuses` | 2 producers, ring 2, batch 2, 2 attempts, 4 points; 2 readers, 2 sources, 2 loops | 97 thousand | `TypeOK`, `Ledger`, `NothingStranded`, `ClientOutlivesWriter`, refinement of `StatusFeed`, `WaitingPointLeaves`, `ShutdownReturns`; `SourceIsShared`, `SubscribersAreServed` |
| `lifecycle` | an active and an SSH server on one lock, 2 requests, 1 failing read, 2 workers | 2.2 million (with symmetry) | `OneWorkerPerServer`, `StopWaitsForWorker`, `StaleRetryNeverActs`, `DeletedStaysDown`, `Settled` |
| `lifecycle_live` | one active server, 2 requests, 1 failing read, 1 restart | 308 thousand | `Converges`, across a restart |
| `passive` | 2 connections, 2 requests, 1 failing read | 1.2 million | `NoUnmanagedConnection`, `RevokedMeansClosed`, `DeletedCollectsNothing`, `RevokedConnectionsEnd` |
| `teams` | 4 users, 2 teams, 2 handlers at a time, 2 requests | 290 thousand | `OwnerAdministers`, `AdministratorRemains`, `ChangesAreAuthorised`, `TransactionsEnd` |
| `sessions` | 3 session ids, 1 team, 2 requests at a time, 3 in all, 2 failing commands | 532 thousand | `LiveSessionsAreListed`, `TeamSessionsRevoked`, `SignInRotates`, `StreamsFollowAccess` |
| `services` | 4 connections and 4 callers; 1 terminal of each kind; 3 servers with rules of 3 items, up to 3 rows, 3 edits, 1 failure | 298 thousand | `ConnectionsOwned`, `ReconnectSettles`, `TerminalOwned`, `TerminalEnds`, `RecordedWasTold`, `AlarmAnnounced` |
| `requests` | 4 logins, overlap 2; 3 logins, 2 seen keys; 1 provider with 2 administrators, 2 revisions and 2 requests of 2 users; 2 teams with 2 imports and 7 rows | 1.9 million (with symmetry) | `SshLoginOnce`, `AgentLoginOnce`, `AccountsAreProved`, `MemoryFollowsRow`, `TeamStaysWhole` |
| `ssh_login_repeats` | 4 logins, overlap 2 | violation | logins reported again after a probe with `last` |
| `lifecycle_pairing` | one active server, 1 request | violation | a failed edit ends background pairing |
| `lifecycle_reinstall` | one active server, 1 request | violation | the old agent is pinned after a reinstall |
| `passive_reinstall` | 2 connections, 1 request | violation | the old agent keeps collecting after a reinstall |

The four violations are described under `findings`, each with the line of the
changelog or the comment it contradicts.

*Bounds.* `MaxPoints` 4 with a ring of 2 overflows twice and wraps `head`;
batches of 2 are filled in one and in two takes; 2 attempts reach the retry and
the final failure. `MaxOps` 2 lets any two requests interleave, with boot
goroutines in addition; a further request meets a lifecycle that is either idle
or busy with at most those. `MaxFaults` 1 makes a retry exist; `MaxCrashes` 1
suffices since a restart forgets everything but the rows. All servers of an
instance hash to one lock, the worse case for waiting. Two connections replace
each other; a third would only queue behind the second. Worker, retry and
connection identities are reused, so their number bounds how many are alive at
one time and not how many there have been. Two transactions conflict on any pair
of rows, in both orders, and can deadlock; three users with a row and a fourth
id to add let an owner leave to a successor, be removed and be deleted. Three
session ids are the one at the start and two more sign-ins; two failing commands
make both the listing of a session and its taking back fail; one team suffices,
as sessions of other teams are told apart only by not matching.
Two readers let one leave while the other comes, and a source of the monitor be
dropped while the loop of the one before it still queries; `StreamLimit` is not
reached. Four connections are more than the client and its callers hold at one
time. Terminals share nothing but the map of slots, so one at a time suffices. The
alert rules are explored with one row of each sort, and with the rows of a metric
of three servers: batches of two servers and slices of one duration give a round
two batches and two slices, and any one step of them may fail. The sizes of the login monitors keep the order of the real
ones (overlap below the tail that is read first, one listing shorter than the
other). A provider has two namespaces and two revisions, so that it is added, changed
and removed by handlers that overtake each other while two users sign in; a
namespace that is changed and changed back needs a third revision and is left to
the proof. Seven row ids let both imports commit. An import replaces at most the servers, keys and
categories of a file with one of each, next to the team's own.

*Deadlock* is checked in `requests`, whose components can
always go on, and not in the other runs: with all bounds used up, an idle hub has nothing to do. That nobody waits for ever is a liveness property instead (`ShutdownReturns`,
`Converges`, `RevokedConnectionsEnd`, `TransactionsEnd`, `ReconnectSettles`,
`TerminalEnds`, `SubscribersAreServed`).

*Fairness.* Goroutines run (weak fairness of each one's steps). A lock that is
free again and again is obtained (strong fairness of the acquisition:
`sync.Mutex` is starvation-free). Timers fire. A canceled worker ends, because
every wait of its connection is bounded by its context or a deadline; a closed
websocket makes its read fail. The handlers of a passive server do not all stand
still. PostgreSQL grants a lock that stays free and finds every deadlock.
Requests are served to their end and the ticker of a stream ticks. A query ends,
as its context has a timeout; `select` chooses at random and so does not pass a
closed channel by for ever. A server that can be reached again and again is
reached (strong fairness of a dial that succeeds). A write to a peer that hangs owes
no end. sshd answers the requests that set up a terminal: this is assumed, since
`terminalSSH` gives them no deadline. Alert rounds go on and an hour
passes; a query or delivery fails a bounded number of times. Nothing obliges a request to arrive, an agent to
connect or leave, an online worker to fail, the shutdown deadline to pass or the
hub to restart.

## 4. What the properties say

* `Ledger`: `ServerStatusQueueStats` balances at every instant, up to three
  named differences that last for one step of one goroutine.
* `ImplementsFeed`: every step of the queue is a step of the feed or changes
  nothing of it.
* `Settled`: whenever no goroutine or retry has a server in hand, the pool
  agrees with the committed rows, settings included. Transiently it need not.
* `DeletedStaysDown`, `DeletedCollectsNothing`: what `del` removed is not written
  again; `del` has also waited for the status that a closed connection was adding.
  For passive servers one window remains and the property names it: a connection
  that was replaced is in no registry, only its successor waits for it, and until
  then it may add the status in hand. The changelog's "wait for old connections to
  stop on edit/delete/reinstall" does not hold for it.
* `Converges`: requests, failures and a restart end with every server quiet and
  the pool settled for good.
* `StaleRetryNeverActs`: the check a retry makes under the lock is enough,
  although `cancelReconcileRetry` does not wait for it.

* `OwnerAdministers`: the lock on the team row, taken first by edit and leave,
  orders them; deletion of an owner is refused by a check and, when an ownership
  changes after that check, by the foreign key.
* `ChangesAreAuthorised`: who edits a team administers it when the edit commits,
  not only when the request came; for changes of users, the password verified before the transaction is
  compared again under the lock on all administrators.
* `LiveSessionsAreListed`, `TeamSessionsRevoked`: revocation works through the
  index. The histories list every way around it; the properties say there is no
  other. A session written back after its revocation is one of them: the code
  has no guard against it, and it lives until its own expiry.
* `SourceIsShared`: the deferred restart in `run` and the flag that `unsubscribe`
  leaves alone keep one loop per source, although its last subscriber may leave
  and another come while the loop queries. In the monitor, whoever subscribes
  after a query was canceled gets a new source.
* `ConnectionsOwned`, `ReconnectSettles`: a connection dialled across a `Close` is
  closed by the goroutine that dialled it, and a reconnect wakes everyone who
  waits for it, whichever way it ends. A broken connection is replaced or given up;
  a peer that hangs on a live connection is noticed only with a pong deadline.
* `TerminalOwned`, `TerminalEnds`: the timer of a slot closes the browser only if
  the session still waits, and every way for one end to vanish reaches the others.
  The handler of an active terminal may return while the browser is still
  connected; then the cleanup is on its way to close it.
* `RecordedWasTold`, `AlarmAnnounced`: a failed delivery leaves the state for the
  next round. A status rule whose notification went out while the commit failed
  is the exception: it is announced again.
* `SshLoginOnce` holds as long as a monitor lists logins in one way;
  `SessionKeysDiscardRepeats`, without that condition, is violated (findings).
* `AccountsAreProved`: the version and revision that a browser took along are
  compared under a lock when it returns. `MemoryFollowsRow`: revisions order the
  installations of handlers that overtake each other.
* `TeamStaysWhole`: a server that has a connection has a worker or a pending retry,
  never both, or somebody is about to reconcile it; a worker runs only for a server
  whose secrets can be read, and a server that is gone has neither. It has one
  exemption, `lost.srv`: an import lists the servers it
  will replace before it locks anything. A server that another request adds (or
  another import makes) between the listing and the deletion loses its row, while
  its worker is in no list and goes on until the hub restarts. Nothing in the
  repository speaks of this case.

The histories that exempt something record what the code does and has no defence
against: `revived`, `late` and `missed` of Sessions, `lost.srv` of TeamConfig, the
replaced connection of PassiveConn and the failed edit in `excused` of Lifecycle
that had read its server as unmonitored. A
property with such a history does not catch the race its history names; it says
that there is no other way to the bad state. The notes of the hazards in
`PROJECT.json` repeat this where it applies. With one failing read, `lifecycle`
reaches retries that are canceled and none that is replaced by another;
`RetriesAreCurrent` covers both.

## 5. Proofs

A proof module extends the module it is about. Each defines an inductive
invariant, shows that the initial states satisfy it, has a lemma per action or
group of actions that a step keeps it, and derives the properties. All theorems
hold for every value of the constants that the named assumptions allow; the
bounds on requests, faults and rows are arbitrary numbers in them.

| Module | Theorem | States | Assumptions |
|---|---|---|---|
| `StatusQueueProofs` | `TypeCorrect`, `LedgerBalances`, `WorkerStrandsNothing`, `ClientClosedLast` | `TypeOK`, `Ledger`, `NothingStranded`, `ClientOutlivesWriter` | `ConfigAssumption`: the sizes that `newServerStatusProcessor` accepts |
| | `QueueImplementsFeed` | `ImplementsFeed`: refinement of `StatusFeed` | the same |
| `LifecycleProofs` | `TypeCorrect`, `OneWorker`, `StopsWait`, `RetriesAreCurrent`, `DeletedServersStayDown`, `PoolSettles` | `TypeOK`, `OneWorkerPerServer`, `StopWaitsForWorker`, `StaleRetryNeverActs`, `DeletedStaysDown`, `Settled` | `LifecycleAssumption`: goroutines, workers, servers and "nobody" are told apart |
| `PassiveConnProofs` | `TypeCorrect`, `ConnectionsManaged`, `RevocationCloses`, `DeletionCollectsNothing` | `TypeOK`, `NoUnmanagedConnection`, `RevokedMeansClosed`, `DeletedCollectsNothing` | `PassiveAssumption`: the same for connections and handlers |
| `TeamsProofs` | `TypeCorrect`, `OwnersAdminister`, `AdministratorsRemain`, `ChangesNeedRights` | `TypeOK`, `OwnerAdministers`, `AdministratorRemains`, the action property `ChangesAreAuthorised` | ids and roles are numbers, the first database has an administrator and owners who administer |
| `SessionsProofs` | `TypeCorrect`, `SessionsListed`, `TeamSessionsAreRevoked`, `SignInRotatesAlways` | `TypeOK`, `LiveSessionsAreListed`, `TeamSessionsRevoked`, the action property `SignInRotates` | there is a session id, "no session" is not one, team ids are positive |
| `ServicesProofs` | `ConnectionsAreOwned`, `TerminalsAreOwned`, `RecordedWasToldAlways` | `ConnectionsOwned`, `TerminalOwned`, `RecordedWasTold`, each of its component's own specification | `KindsAssumption`, `FiniteAssumption` |
| | `ServicesSound` | all three of `MCServices`, whose steps are steps of the components | the same |
| `SnapshotsProofs` | `SourcesAreShared`, `StatusesShareSources` | `SourceIsShared`, of `Snapshots` and of `MCStatuses` | `SnapshotsAssumption`: finitely many readers, told apart from loops and from "nobody" |
| `RequestsProofs` | `SshLoginsOnce` | `SshLoginOnce` | `SshAssumption`: the overlap is no longer than the tail that is read first (128 and 256 records) |
| | `AgentLoginsOnce` | `AgentLoginOnce` | `AgentAssumption`: an eviction takes no more keys than the window holds (a quarter of 4096) |
| | `AccountsProved`, `MemoryFollows` | `AccountsAreProved`, `MemoryFollowsRow` | `OAuthAssumption`: there is a namespace |
| | `TeamsStayWhole` | `TeamStaysWhole` | `TeamAssumption`: teams are numbered from 1 |
| | `RequestsSound` | all five of `MCRequests`, whose steps are steps of the components | the four above |

**StatusQueueProofs.** The invariant is `TypeOK /\ BatchInv /\ StopInv /\
Ledger`. `Ledger` alone is not inductive: `completeBatch` subtracts the length of
the batch from `inFlight`, so `BatchInv` ties the two together and bounds the
batch; the worker that leaves because the queue is empty must know that nothing
can be enqueued any more, and shutdown that the worker is gone, which is
`StopInv`. A lemma about `pushLocked` and one about `take` carry the modular
arithmetic of the ring, and the cardinality of the set of unrecorded overflows is
handled by the library's finite-set theorems. For the refinement, the waiting
points are the sequence of ring slots from `head` on: pushing appends to it or
replaces its oldest element, taking a batch splits it, and neither depends on
where `head` is. One more invariant is needed, `FlightInv`: what is being filled
or written is not empty, since the feed acknowledges and drops at least one point
at a time.

**LifecycleProofs.** `LockInv`: whoever is inside the lifecycle of a server holds
its stripe. `WorkerInv`: a worker that has not ended is in the pool, or the
goroutine that took it out is waiting for it; while somebody waits, or is about to
register, the pool has no entry. From these two follow `OneWorkerPerServer` and
`StopWaitsForWorker`. `RetryInv`: a registered retry is alive, of that server and
not canceled, and one that acts is registered. `PurgeInv` reaches from the second
stop of `del` to the removal of the statuses: the row is gone for good, the pool is
empty, and nobody aims at a start: during its stop `del` holds the lock, so nobody
else is inside, and whoever enters later reads that the row is gone. `PlaceInv` says which
goroutine may be where with which calls left. None of this relates the pool to the
rows, which `Settled` does: `SettleInv` therefore says for every server that a
reconciliation is still owed to it, by a goroutine that has yet to read the rows or
by a retry, or else that its pool entry suits the row unless somebody is about to
take it out or a delete has its stop still before it, and that a server which should
have a worker has one, is being stopped by a request whose outcome is open, or is
about to get one. `Local` says of each goroutine inside the lifecycle that what it
read is still so, since changes of the row are followed by a reconciliation that
has to wait for the same lock. A step touches one server: for the others a frame lemma
suffices, for its own the lock excludes everybody else inside.

**PassiveConnProofs.** `OpenIsManaged` spans the time from `mainSetManaged` to the
deferred `MainRemove`; `MainIsLive` keeps an ended connection from staying
registered. A connection inside `WhileOpen` collects even when it is closed, so both
say that somebody has not returned from waiting for it. `StopIsPending` is the argument for revocation: while the server is
off and its registered connection has passed the check of `passiveWS`, some handler
has the stop still before it, or a retry stands for one. The check and the commit
of the change may come in either order; in both one of them sees the other.

**TeamsProofs.** `Keeps` says, for each place of each handler, what its
transaction has read and under which locks, and that it is still so: an edit that
has locked the team row and found its actor an administrator of the team still has
that. `Exclusion` is the meaning of the locks and `References` that of the foreign
keys. Every lock that a handler takes and later relies on appears in one conjunct,
so the proof shows which locks matter: the team row for `OwnerAdministers`, all
administrator rows for `AdministratorRemains`. Rows are locked in the order of
their ids, which needs the least element of a set of numbers.

**SessionsProofs.** `LiveSessionsAreListed` is part of the invariant, with
`ReqOK`, which says what a request knows at its place. `TeamInv` strengthens
`TeamSessionsRevoked` to states in which requests are under way: a session of a lost
team that no history excuses is about to be revoked by somebody, or its sign-in is
not over.

**ServicesProofs.** *Terminals:* `Sound` describes one terminal; before the agent
is asked the browser is open and nothing is relayed, a session that waits in a slot
is open and its handler is there, whoever closes `done` has emptied the slot and has
closed the browser or is on its way to (`clean` says how far), and the context of a running one ends only by
revocation. *Client:* `WsInv`; only one goroutine can be inside `reconnect` and then
`call` is set, before the first connection is installed nobody uses one, a dialled
connection that is discarded belongs to a client that is closed or canceled, and
every open connection is installed or gripped by a goroutine that still has to
install or close it. The lemma `WsMove` reduces a step of one goroutine to what it
does to that grip. *Alerts:* row ids are distinct and never used again, a row that a
round has read and not evaluated still has the state it was read with, and the state
queued for a row will be right once it is recorded. `RecordedWasTold` itself says
nothing of status rules in the unknown state and so is not inductive; `Right` covers
them.

**SnapshotsProofs.** The subscribers of a source are exactly the streams that have
subscribed and not left (`SubsInv`). `loopRunning` says whether a loop of the source
lives, stopped or not; `loopStop` is the stop channel of that loop until it is
closed, and is empty while nobody subscribes (`LoopsInv`). So a subscriber that
arrives while a stopped loop is still on its way out starts none, and the deferred
restart of `run` finds it. `LoadsInv`: whoever queries is entered as the one who
does, and only a source that the monitor has forgotten has its query canceled, so
its result reaches no reader. `PlacesInv` counts the streams of an address. The
predicate `Ready` and the lemma `Arrives` carry the subscription: what a source
must be like to take a subscriber, and what it is like after, with and without a
new loop.

**RequestsProofs.** *Providers:* every configuration that is in memory, in a
handler's hand or in a saved state was committed with its revision (`Committed`);
memory never goes back behind a revision it has seen, and a handler that has
committed still has its installation or removal to do, or a later one was there
(`ConfigInv`); states of older revisions are gone or about to be revoked
(`RevokeInv`). So a state that is consumed is of the provider that proved the
account. *SSH logins:* `WtmpInv` says which logins the next listing can contain:
all that were reported lie before the cursor's overlap or in the snapshot, also
when the cursor belongs to a file that was rotated away; `LastInv` is the same for
`last`, whose listing is short. *Agent logins:* `FlightInv` follows a login through
wire, queue and batch to its notification: it is in at most one of them, at most
once, and has been seen. `BaseInv` is the argument for logins from before the first
scan: they were seen, are not in the file, or are too old for the time that
`scanPath` checks after a rotation; while the layout is unknown they are in the
baseline, unless the file was replaced, which the next scan notices. What `ingest`
does to a whole slice is shown by induction over its records (`IngestFacts`): the
least index at which the claim fails does not exist; the same argument shows that
the recursive function exists. *Teams:* ids are given once; what an export has
read and what a file says about keys agrees with rows that were there; the servers
an import has listed stay the team's until it deletes them; a server that connects
has a worker, a retry or a pending start, and only a server that can be started, is
about to be stopped or was lost has a worker (`WorkersInv`, which the lemmas about
`Reconciled` and `Stopped` carry through); and the renumbering of
an import is a bijection between finite sets, so every reference follows its row.
`PartsInv` puts the four invariants together for the specification that the runs
explore.

*Only model-checked.* Liveness and what needs ENABLED are out of the prover's
reach: `WaitingPointLeaves`, `ShutdownReturns`, `SubscribersAreServed`,
`Converges`, `RevokedConnectionsEnd`, `TransactionsEnd`, `ReconnectSettles`,
`TerminalEnds`, `AlarmAnnounced`, `StreamsFollowAccess`. Every invariant and every
safety property of an action that a passing run checks has a theorem. The four
violations are counterexamples and have no theorem.

## 6. Not modelled

Parsing, validation and formatting of requests, metrics and messages; the text of
InfluxDB queries; the cryptography of the agent channels and of secrets; the
contents of statuses; reads that change nothing. Of what has state:

* the audit log queue, which repeats the pattern of the status queue with a
  channel instead of a ring;
* rate limits, and the windows of `publicRequestLimiter`: counters with an expiry;
* the listening side of an active agent and the messages of its handshake;
* self-update, installation and service control: files and service managers, one
  branch per operating system;
* the renewal task, the credential migration and the first-run initialization,
  each a loop or a transaction of its own.

A reading of the import and export handlers that no run states: the checks
`requireTeamOwnerAndTOTP` and `requireTOTPCode` (`export_import.go:427-468`) answer
the request with `c.JSON` and return its error, which is nil when the answer could be
written, so their callers go on after a refusal. TeamConfig takes requests as
admitted and leaves who may send them out.

Every part is in `PROJECT.json` with its status and the reason. Three hazards
have no property: an enrollment whose token is replaced after its lookup (allowed
by the model, and nothing in the repository excludes it), points of a deleted
server that still wait in the status queue (it would need the queue and the
lifecycle composed), and the expiry of a rate limit's counter.

## 7. Plan

The safety properties of the runs are proved and the liveness properties checked,
as far as the prover and the size of the runs allow. What would extend the project
is listed in section 6; first among it the status queue and the lifecycle composed,
for the points of a deleted server, and the audit log queue as a second refinement
of a bounded feed.
