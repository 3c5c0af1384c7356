# Binboi, specified

Binboi is a self-hosted tunnel: a daemon (`binboid`) gives a client behind a NAT a
public host name and forwards HTTP requests for that host, multiplexed on one control
connection, to a service next to the client. This directory holds TLA+ modules for the
daemon, the client's end of a connection and the dispatcher both use, the TLC
configurations that check them, and proofs, for every value of the constants, of all that
the runs check and that is not liveness.

Every definition is written from the Go source; `PROJECT.json` maps each to its lines.
Paths below are under `src/`.

## 1. The system

| component | state | operations | talks to |
|---|---|---|---|
| session manager `internal/session` | sessions by id, index of all hosts, index of live hosts | Create, RegisterTunnel (fresh and resume), TouchHeartbeat, DetachConnection, LookupByHost | registry, for every change |
| tunnel registry `internal/tunnel` | JSON file of tunnels | Upsert, FindBySubdomain | disk |
| control server `internal/control/protocol_server.go` | one goroutine per connection, the peer table | register or resume, read loop, deferred cleanup, ForwardRequest | manager, usage tracker, peers |
| peer and streams `internal/control/protocol_peer.go` | pending requests, slots, per-request channels, pipe and timer | forwardHTTP, finish, cancel, the read loop's handlers, failPending | dispatcher, usage tracker |
| public HTTP server `internal/control/server.go`, `upgrade.go` | none | tunnelled requests, upgrades, session creation | ForwardRequest, pending requests |
| usage tracker `internal/usage` | active and reserved tunnels, buckets by user and period, JSON file | reserve/confirm/restore/close tunnel, reserve/release/complete request, flush | disk |
| dispatcher `pkg/api/dispatcher.go` | a bounded queue per stream, a ready list, control messages | EnqueueControl, EnqueueStream, Close, the sending goroutine | connection |
| tunnel client `pkg/client` | active requests and their workers; reconnect loop | read loop, executeRequest, cancel, reconnect with resume | dispatcher, local service |
| tokens `internal/auth` | token file, validation cache | validate, touch, create, revoke | disk, remote validator |
| wire protocol, config, CLI, logging, route planning | none that changes | parsing and formatting | — |

What is hard in it:

* **Connections that overlap.** A client whose network broke resumes on a new
  connection while the handler of the old one has not run its deferred cleanup yet. Both
  handlers touch the session, the peer table and the user's count, by session id.
* **Six ways to end a request.** The read loop, the HTTP handler, the body goroutine, the
  context watcher, the idle timer and a replacing connection may all finish one request.
* **Check, unlock, act.** `ensureSubdomainAvailable` and `storeSession`; the two lookups of
  `ForwardRequest`; `writeResponseBody`, which sends after it unlocks; `EnqueueStream`,
  which pushes between two critical sections; `Flush`, which writes between two.
* **Two ends that disagree.** Daemon and client end a request at different times, and what
  one still says about it is an error to the other.
* **Restarts and failing writes.** Sessions are forgotten but their registry records are
  not; usage totals are on disk but never read back.
* **A client that tries again.** Its answer may have been lost, the daemon may still hold
  its old connection or may have forgotten it, and which answers are final is decided by a
  code in the message.
* **Processes that share a file.** The daemon and the token commands load and rewrite the
  token file with no lock between them, and the daemon believes its cache meanwhile.

What makes each component correct, in short: the manager is one directory of hosts whose
live holder is never displaced; a connected session always has a handler that will detach
it, and a place in a plan a holder that gives it back; a request is finished once, its
handler answers and its body is not reordered; a limit is not exceeded and what is counted
reaches the disk; an accepted message is sent, in order and in turn; whoever waits for a
request's end will be told; a client keeps its tunnel while the daemon knows it and serves
again once faults cease; a revoked token stops being accepted.

## 2. The modules

`SessionManager` has the manager and the part of the registry it uses. Each exported
method is one action, because each holds the manager's mutex for its whole body.
`RegisterTunnel` is the exception: `allocateSubdomain` runs before the lock, so
`StoreSession` is an action with any candidate and the check made earlier is the caller's.
Failing registry writes are the parameter `saved`. `route` and `activeRoute` are the two
host indexes, `store` the registry by session, `issued` the ids drawn so far. `Sids` is
large enough never to run out of ids (ids are random; collisions are left out).

`HostDirectory` is the abstract specification: one map from hosts to holders, a set of
live hosts, and no way to take a live host. `SessionManager` implements it with
`holder[d] = LookupByHost(d)` (`Directory`, `ImplementsDirectory`).

`TunnelQuota` has the five tunnel operations of the usage tracker. `ControlServer` EXTENDS `SessionManager` and INSTANCEs `TunnelQuota`: `pc` names the
call a handler makes next, one action per call, and the deferred functions are stages of
their own. `ForwardRequest` is two actions with anything in between; it serves only the sessions whose
shape is in `HTTPShapes`. The token validator is
an input (`Principals`, `UserOf`); it is always configured in `main.go`, so the user is
always known.

`UsageTracker` has the tracker's buckets, request reservations, the flush in its two halves,
the turn of the period and crashes. The tunnel operations only touch a bucket there. A bucket
not yet made is a zero bucket: buckets are never deleted. Who gives a reservation back is
modelled as the callers have it. `requests[r].at` is where `forwardHTTP` is with the request:
`ReleaseRequest` follows when it has failed, and asks nothing else; `CompleteRequest` is the one
end of `finish`, which a timer or a failing connection may reach as soon as the pending request
exists, before or after the release. Both counters of a bucket stop at zero, as in the code, so
a second return takes the place of another request, if there is one. The bytes of a completion
are not bounded by the estimate: an undeclared body is estimated as 0, and an upgraded request
counts its stream. A request is not sized before it is admitted, so the next one is always
`NextRequest`, and one that finds no room leaves nothing behind.

`RequestStream` is one request inside the daemon at the grain of the mutexes and channel
operations: seven goroutines with a program counter each, `finish` and `cancel` as code that
several of them run. Frames are counted.

`MessageDispatcher` is the dispatcher. A `dispatchStream` is an object with an identity,
because a writer keeps one that the dispatcher may have deleted from the map meanwhile.

`TunnelProtocol` composes the two ends of one connection over the messages between them:
`forwardHTTP`, the body goroutine, cancellation and the read loop on the daemon's side; the
read loop, the map of active requests and their workers on the client's. A request's end is
one step on the daemon's side (`RequestStream` has the detail), and the dispatcher is reduced
to what a peer may observe: messages of one request in order, messages of different requests
in any order, errors ahead of frames that are not yet written. A request of the
constant `Upgrades` has the same frames, but its upload begins when the response has started,
and a write of its input to the local connection may fail. That cancels the request's context
and tells nobody, as the deadline does: `ctx` is then `stopped`. The idle timer cancels
it too (`idle`) and tells the daemon in a step of its own.

`TunnelClient` EXTENDS `ControlServer` with the reconnecting client of `pkg/client`: `Connect`
is a dial and one of the answers it may read, `Run` the choice between running, trying again
at once, sleeping and giving up, with the tunnel id and the resume token it keeps. The
server's actions are used as they are, except that a register message is the one of the
client at the other end and that what a handler writes before it serves reaches `answer`.
Which steps cost a fault is said action by action (`Fault`): a lost answer, a failed dial, a
cut connection, a refused token, a failed registry write. The order in which new ids and
labels are drawn is fixed (`DrawInOrder`), because nothing depends on their names; a label
another handler has allocated and not yet stored may be drawn as well. A connection's
register message is read before the client hangs up or not at all: a handler that reads it
late differs from one that reads it and is then delayed only in what it has not done yet.

`TokenValidator` has the token file, the processes that open it (the daemon, and one process
per token command) and the daemon's validations with their cache. `Store.mu` orders the
operations of one process and is `mu`; between processes there is nothing, so every operation
that writes is a load and a save with anything in between. Times are kept as ages, which
`Tick` increases up to a cap; a call of `Validate` is bounded by `MaxDelay`. `remote` chooses
the validator: `Validator` over the file or `RemoteValidator` over the frontend's tokens.

The modules named `*_proofs` hold the theorems (section 6). `MC*` modules give TLC its
constant values and symmetry sets.

| source | module, and how they correspond |
|---|---|
| `Manager.sessions`, `byHost`, `activeByHost` | `sessions`, `route`, `activeRoute` |
| `handleConnection` | `Handle(c)` of `ControlServer`, program order in `pc[c]` |
| `protocolServer.peers` | `peers` |
| `Tracker.active`, `reserved` | `activeTunnels`, `reservedTunnels` |
| `Tracker.buckets`, `Store` | `buckets`, `db` |
| `pendingRequest` and its goroutines | the variables of `RequestStream` |
| `peer.pending`, `TunnelSession.active` | `server[r]`, `active` of `TunnelProtocol` |
| `MessageDispatcher.streams`, `ready`, `wakeCh` | `streams`, `ready`, `wake` |
| `resumeTunnelID`, `resumeToken` of `Run` | `resume` of `TunnelClient` |
| the error codes of `sendProtocolError` | `answer[c].code` |
| `Validator.cache`, `Store.mu`, the token file | `cache`, `mu`, `file` of `TokenValidator` |
| `db` between `loadLocked` and `saveLocked` | `loaded[p]` |

## 3. The runs

| run | module | asks | bounds |
|---|---|---|---|
| SessionManager | MCSessionManager | do the indexes, the table and the registry agree, and is it a `HostDirectory`? | 3 ids, 2 labels, 2 principals, 1 restart |
| ControlSessions | MCControlServer | what do racing, failing and resuming connections leave behind, and where does a request go? | 3 connections, 1 request, 2 places, 1 restart |
| TunnelClient | MCTunnelClient | does a client keep its tunnel, does it serve again, what do its earlier connections leave? | 6 connections of 1 client, 1 HTTP call, 1 fault, 1 restart, a plan of 1 |
| UsageTracker | MCUsageTracker | by how much can limits and reservations be out, and are totals not lost? | 3 requests of 1 user, 2 periods, a plan of 2 requests, 2 bytes in and 1 out, bodies of at most 1, 1 crash |
| RequestStream | MCRequestStream | is a request ended once, its slot returned, its body ordered; does the handler return, does the stream end? | 2 frames, 1 if a resumed connection takes over, a channel of 1 |
| DispatcherShared | MCMessageDispatcher | two writers of one stream: is anything stranded, lost, reordered? | 3 calls each, queue of 2, 1 control message |
| DispatcherLiveness | MCMessageDispatcher | are turns fair, messages sent, streams freed, writers released? | 2 streams, 2 calls each, queue of 1, 1 control message |
| TunnelProtocol | MCTunnelProtocol | does each request end or have someone who owes an answer? | 2 requests, one upgraded, 1 stream, 1 frame of each request and 1 error in each direction |
| TokenValidator | MCTokenValidator | how stale may an acceptance be, and which updates of the file can be undone? | 1 token, 2 commands, 2 validations, a lifetime of 2 ticks, touched every 1 or 4, calls of 1 tick, 1 restart |
| ControlStaleCount | MCControlServer | *violated*: is a served tunnel counted? | 2 connections |
| StreamPanic | MCRequestStream | *violated*: does a late body frame leave the daemon alive? | 2 frames |
| ProtocolTeardown | MCTunnelProtocol | *violated*: is a cancellation scoped to its request? | 2 requests, 2 streams |

**Why the bounds are enough.** A takeover needs an old and a new holder of a label and one
session of somebody else: 3 ids and 2 labels. Cleanup against resume needs two connections,
two resumes that race for one session a third; a plan of 2 places lets two tunnels live while
the third connection is refused. The pipe, `responseChunks` and the pump hold three frames
between them, but a channel of capacity one with two frames already has every
full/empty/closed combination with a frame in the pump's hands. A client needs a connection
for its first registration, one that is lost, one whose resume is refused, one after the
restart, and one for its fault in each of these: six; one fault before and one restart after
is enough for an answer to a registration that the daemon has forgotten. One token
suffices to undo a change of it; two commands revoke against create, and two validations let
one fill the cache from what it read before the other renewed it. A touch interval of 1 is
shorter than the lifetime of 2 and one of 4 longer than lifetime and delay together. Two requests and one stream
slot make the client's limit bite while the daemon believes a slot is free; two frames in
flight in each direction would add nothing to the order, as bodies are alike. One error at a
time is on its way in each direction; the next waits for the reader, as it would for a full
control queue, so two errors in flight for one end are not explored (the proofs allow any number). In the flush,
one request before and one after the snapshot distinguish what was copied from what was not;
a second period makes a reservation outlive its bucket. In the plan, one request that is given
back twice, one whose place that takes and one that is then admitted above the limit are three,
for two places. Each bound is a CONSTANT and
(`MaxRestarts`, `MaxCrashes`, `MaxPeriods`, `MaxSize`, `MaxFrames`, `MaxResume`, `MaxCalls`,
`MaxControl`, `MaxErrors`, `MaxFaults`, `MaxDelay`, `Capacity`) is named in the guard it limits. `Sids` is at least the number of
registrations a run can make, so a registration never fails for want of an id.

**Deadlock** is checked for `SessionManager`. Everywhere else the system may rightly stop:
all connections closed, all requests over, all writers done, the client stopped.

**Symmetry** is used where ids are interchangeable and only invariants are checked; not in
`TunnelProtocol`, whose two requests differ, nor in `UsageTracker`, which has a liveness property
and `NextRequest` instead.

**Fairness.** `TunnelClient`: a handler that is not waiting for the client goes on, and so
does the client's own loop (goroutines are scheduled); a sleep ends; a closed connection is
noticed at both ends, because a read on it returns an error once buffered messages are used
up; while a connection is open and its handler stays in the read loop, pings are read, because
the client's heartbeat loop sends them and without them the read deadline of two heartbeats
and five seconds ends the loop. Nothing is assumed of faults, of restarts or of the user who
quits: the bounds make faults and restarts finitely many. `UsageTracker`: the flush ticker is
scheduled, a write returns, and writes do not fail for ever (strong fairness of
`FlushWritten`). `RequestStream`: each goroutine is scheduled and the stream's deadline passes
(`context.WithTimeout`); nothing is assumed of the client's frames, nor of the HTTP client: the
handler is fair in every step but `WriteDownstream`, because the server sets no write timeout
(`server.go:73-77`) and a write to a client that does not read need not return. `MessageDispatcher`: the
dispatcher and `Close` are scheduled, a writer past its push takes the lock. Writers need not
call at all.

## 4. The properties

*Manager.* `RouteIndex` and `ActiveIffConnected` relate the three maps after takeovers and
failed saves; `DurableBacked` that a label in use is always backed by a record, so no restart
gives it away; `IdentityStable` that no sequence of resumes moves a session;
`ImplementsDirectory` that no registration, however stale its availability check, displaces a
connected holder.

*Control server.* `NoGhostSession`, `PeerTable`, `PlacesHeld` and
`FreshTunnelsWithinPlan` each say that what one handler leaves in
shared state has somebody who will take it away, through every race of resume and cleanup.
`RequestReachesOwner` covers the gap between ForwardRequest's lookups; ids drawn again would
break it. The liveness side is `Settles`.

*Client.* `ServesItsTunnel`: what `Run` keeps of an answer agrees with the session the handler
at the other end holds. `TunnelKept`: it lets go of a tunnel only when the daemon does not know
it any more. `Settles`: after the last fault client and daemon agree, whatever was lost,
detached late or counted twice on the way: the client serves, its session is connected and
routed, and nothing else of it is connected, peered or counted.

*Tokens.* `AcceptedWasActive`: an accepted token was active within the lifetime of a cache
entry plus the duration of two validations, one that read it and one that used what that
cached; the bound is tight. `UndoneOnlyInOverlap`: a token or a revocation is lost only to a
process whose load preceded it and whose save followed, never to a later touch.

*Usage.* `ReservationsAreHeld` and `RequestCap` say how far reservations and the plan of requests
can be out: never by more than the requests that were both released and counted (`TwiceIn`), and
in the one direction only. A reservation is never left behind by a request that is over, nor in
another period's bucket. `CountedOrDirty` and `FlushKeepsTotals` are about completions and failing
writes between the two halves of a flush, `EventuallyDurable` about what they leave in the end.

*Stream.* `EndedOnce`: of six goroutines one runs the end of `finish`. `SlotFollowsRequest`: the
slot goes back after the request has left `peer.pending`, once. `CleanEndIsDrained`: the pipe is
closed cleanly after the queued frames. `AllOver`: the handler returns or stays in a write the
HTTP client does not read (`Stalled`), and in both cases the slot is free and nobody is left in
`finish`, except a read loop that waits for a pump whose frame nobody takes (`Abandoned`).

*Dispatcher.* `NothingStranded`, `LostAfterFinal`, `InOrder`, `EventuallySent`,
`StreamFreed`, `CloseReleases`; and `RoundRobin`, which is about streams with one writer each,
as a client's responses are (section 5 says what two writers of a stream do to it).

*Protocol.* `PendingIsServed`: while both ends are up, each request the daemon waits for is on
its way, being worked on, or its end is on the way back or about to be sent, unless the client's
own deadline has passed or its write to an upgraded local connection has failed. `NoOrphanWork`: work the client has dropped from its map has a context that is done.

Each property has a mutant of a mapped definition, written next to it (`Reserve_Unchecked`,
`GetInvalidResume_Insists`, ...), that breaks it.

## 5. What the code does that its documentation does not say

Checked by a run that is expected to fail:

* **ControlStaleCount** — the late cleanup of a replaced connection takes the tunnel that was
  just resumed out of its user's count (`protocol_server.go:169` after `tracker.go:148`).
* **StreamPanic** — a body frame whose checks passed before `finish` closed the channel is
  sent on a closed channel (`protocol_peer.go:168`): the daemon panics.
* **ProtocolTeardown** — a frame the client sent before it read a `request_cancel` is answered
  with an error, and either end leaves the whole session on such an error
  (`pkg/client/tunnel.go:342`, `protocol_server.go:488`).

Seen while modelling and stated so that the properties above are read correctly:

* The same late cleanup marks the resumed session disconnected until the next heartbeat
  (`protocol_server.go:167`); `Settles` says it is repaired.
* A resume checks no limit (`tracker.go:148`), so it can exceed the plan when the place was
  given away: hence *Fresh*`TunnelsWithinPlan`.
* A restart in mid-period restarts the totals from zero and the next flush overwrites the
  larger ones on disk (`tracker.go:365`): hence `FlushKeepsTotals` within one run of the
  process only.
* A body of undeclared length is admitted as empty, and the stream of an upgraded request is
  counted whatever length it declared (`upgrade.go:87`), so completed bytes can exceed the plan.
  But for reservations given back twice nothing else makes them exceed it (`OnlyOverrunExceeds`).
* `finish(nil)` in the read loop waits for a pump that may wait for a handler that has left
  (`protocol_peer.go:203`): the connection's read loop is then stuck, which is the `Abandoned`
  case of `AllOver`.
* The daemon's HTTP server has no write timeout (`server.go:73-77`): the handler of a request
  whose HTTP client stops reading stays in its write (`server.go:294`, `upgrade.go:92`) past the
  stream's deadline. The stream ends and frees its slot all the
  same, unless the read loop waits as above: the `Stalled` case.
* When `request_start` cannot be queued its reservation is released, and a timer or a failing
  connection may count the request as well (`protocol_server.go:142`, `protocol_peer.go:214-216`).
  The second return takes the place of another request that still runs, and one more than the
  plan allows is admitted: the `TwiceIn` of `ReservationsAreHeld` and `RequestCap`.
* When the client's write to an upgraded local connection fails, it cancels the request's context
  and says nothing (`pkg/client/upgrade.go:239`); a response reader that is then refused in
  `sendStream` leaves without a word, and the daemon's request lasts until its own timers end it.
  The client's own deadline has the same effect: the `stopped` case of `PendingIsServed`.
* A resume compares the protocol as it was asked for with the normalized one that is stored
  (`session.go:171`). The client sends it normalized; a caller of the library that registers as
  `HTTP` could not resume. The models compare shapes by identity.
* A frame dropped at the stream's deadline may be followed by a clean end of the body
  (`protocol_peer.go:170`): hence `CleanEndIsDrained` speaks of the frames that were queued.
* A `request_cancel` pushed while the dispatcher deletes the finished stream is accepted and
  never sent (`dispatcher.go:217`): the exception in `LostAfterFinal`.
* A stream with two writers, as a request body and its cancellation are, can get two places in
  the line: the cancellation's final message deletes the stream, the body's push on the old
  object still appends the stream's id, and the body's next message makes a new stream and
  appends the id again (`dispatcher.go:112`). It keeps both until its queue is found empty, and
  another stream is passed twice in a round meanwhile.
* A client stream that ends with an error and no final frame stays in the dispatcher's map
  until the connection ends. So does one on the daemon's side whose body is pushed after its
  cancellation's final message has been sent and its queue deleted: `StreamFreed` is about one
  writer.
* Renewing a cached token reads nothing (`validator.go:149`). With the default configuration,
  entries that live 30 seconds and are touched every 60, a renewal is rare; configured the
  other way round, a revoked token that is used often enough is accepted until the daemon
  restarts: the last case of `AcceptedWasActive`, which TLC finds to be needed.
* A revocation by `binboid token revoke` can be undone by a touch the daemon began just before
  it, and a new token by two processes that both find no file (`store.go:150`, `store.go:43`):
  hence `UndoneOnlyInOverlap`.
* The client's `Run` gives up for good on some answers (`pkg/client/tunnel.go:221`), and two of
  them need not be final. When the answer to a fresh registration is lost, the client registers
  afresh while the daemon still counts the tunnel of the first, and at its plan's limit is
  answered `usage_limit_exceeded`. And a validator that fails for a moment is reported as
  `invalid_token` (`protocol_server.go:216`). `Settles` therefore counts a client that was given
  a fatal answer as settled, although `Run` "maintains a tunnel session across disconnects".

## 6. What is proved

`SessionManager_proofs` proves, for any sets of ids, labels, principals, shapes and
connections and any number of restarts, from `ManagerAssumption` only (`None` is not an id, a
session or a registry record; sets need not be finite):

* `TypeCorrect`, `RouteIndexHolds`, `ActiveIffConnectedHolds`, `DurableBackedHolds`: the four
  invariants of the run `SessionManager`;
* `IdentityStableHolds`, the action property;
* `DirectoryImplemented`: `ManagerSpec` implements `HostDirectory`.

None of the invariants is inductive alone. `StoreSession` draws an id and evicts the old
holder of the label: that the new entry does not overwrite another session needs
`KnownIssued` (an id in use has been drawn), that the evicted session had no other index
entry needs `RouteIndex`, and `ActiveIffConnected` needs both. `ManagerInv` is their
conjunction. The proof has one lemma per operation, for whatever arguments it is called with,
so that a module whose handlers call the operations (`ControlServer`) can cite them; the theorem
`Inductive` puts them together with one case per disjunct of `ManagerNext`. `DirectoryImplemented` uses `ManagerInv` before and
after a step and shows of each operation which step of `HostDirectory` it is.

`TokenValidator_proofs` proves, for any sets of tokens, validations and commands and any
times and numbers of restarts, from `TokenAssumption` and `NoFileAssumption` (a process is
one thing, and "no file" is not a database):

* `TokensTyped`: the type invariant of the run `TokenValidator`, with what makes it inductive
  (`Clocks`: a clock reading is younger than the call; `Held`: who writes has loaded);
* `UndoneOnlyInOverlapHolds`, the action property. It rests on `FileInv`: what a process has
  loaded agrees with the file on every token it is not behind (`UpToDate`), which makes the
  three writes that copy it harmless. `CreateToken` also overwrites one record: it must be
  shown that its new id is not in the file (`UnwrittenAbsent`), and for this that no other
  command creates the same id (`OneCreator`) or revokes it (`RevokesWritten`).

The other action property, `AcceptedWasActiveHolds`, is proved under the assumption `MaxDelay <= CacheTTL` (a validation takes no longer than an entry lives: that is 30 seconds by default, against
one small file read and written twice, or a request that times out after 5). The invariant `AgeInv` bounds, for each validation by
where it is and for each cache entry by its age, how long ago the source called the token
active. An entry that was renewed has no bound of its own: it rests on the acceptance that
ends the renewal and, until then, on the validation that renewed it (`Renewing`), and a second validation
may use it in between. The lemmas `*KeepsAlive` show that nothing but time
makes a token older, whoever writes the file.

`TunnelProtocol_proofs` proves `ProtocolTyped`, `PendingIsServedHolds` and
`NoOrphanWorkHolds` for any finite set of requests on a connection, any limit of streams and queues of any length. The
invariant `ProtocolInv` adds to `PendingIsServed` that a request_start is the first the client
hears of a request and on its way once (`StartIsFirst`), so that a new worker has a context
that is alive; that a cancellation follows the daemon's own end (`CancelIsLast`), so that
nobody misses what it stops; and that a worker that stops without a word has a context that the
daemon has cancelled, or whose end has been told or is about to be, or one of the two that nobody
is told of (`Served`). An error may overtake the other messages of its request, so the
proof speaks of what a queue holds and not of its order.

`UsageTracker_proofs` proves `UsageTyped`, `RequestCapHolds`, `CountedOrDirtyHolds` and
`FlushKeepsTotalsHolds` for any users (there is one), any finite set of requests, and any
periods, limits and crashes. `RequestCap` is not inductive without `Reserved`: a bucket reserves no
more places than there are requests that hold one in it (`HeldIn`), and together with those that
have given theirs back twice (`TwiceIn`) no fewer. Every return takes one request out of the first
set or puts one into the second (`ReturnBalances`), whichever of the release and the completion
comes first and whether or not the counter was at zero, so both inequalities survive it. The two
about the flush rest on an order, `Behind`: the database is never ahead of the copy being written, nor
the copy of the bucket, and only a dirty bucket is ahead of both (`Counted`). A crash is the
one step that breaks the order with the disk, and `FlushKeepsTotals` is stated up to it.

`ReservationsAreHeldHolds` adds the same for a bucket's reserved bytes and the sums of the
estimates of these requests. What such a sum does when a request joins or leaves needs induction
over sets. The bytes are therefore counted, as pairs of a request and the number of one of its
bytes (`BytePairs`), with the library's facts about cardinality; that the sum is this count
(`SumIsCount`) is proved from the well-foundedness of set inclusion: there would be a smallest
set on which the two differ. With it, `OnlyOverrunExceeds` says what becomes of the byte plan: up to
what was given back twice, no step takes a period's counted and reserved bytes over it but the end
of a request that still held its reservation and has used more than it (`Overrun`). Nobody checks
this at the completion, which adds what was used: it holds because the reservation was checked
when the request was admitted, and its place is only taken by those that `TwiceIn` counts.

`RequestStream_proofs` proves `StreamTyped`, `EndedOnceHolds`, `SlotFollowsRequestHolds` and
`CleanEndIsDrainedHolds` for a response of any length and a channel of any capacity, from
`StreamAssumption` alone. `StreamInv` says that at most one goroutine is at the end of
`finish`, and none before `completed` is set or after the request is counted (`OneEnd`); that
whoever removes a request after losing the race in `cancel` lost it to somebody who is still
going to finish it (`OnTheWay`); where each frame is (`Flow`); and that the pump, while the
pipe has not failed, stops only at the end of the channel (`CleanEnd`).

`MessageDispatcher_proofs` proves `DispatcherTyped` and `NothingStrandedHolds` for any finite
set of goroutines, any streams, number of calls and capacities, from `DispatcherAssumption`
and `NothingAssumption` ("nothing in hand" is not a message). `DispatcherInv` says what everyone has in
hand (`InHand`, `OwnMessages`), and that a scheduled stream is in line (`ScheduledInLine`); a lemma
shows, by counting, that an object is free when a stream needs one. `InOrderHolds` rests on `OrderInv`: a writer's messages on the connection, in
the dispatcher's hand and in the queue follow each other in the order of its calls (`InTurn`),
and the one of the call under way is in none of them before it is pushed (`Numbered`).
`LostAfterFinalHolds` rests on `LossInv`: a stream drains only after an accepted final message
(`DrainingIsFinal`), its writer does nothing more (`FinalStops`), and the object a call holds
is the one in the map unless another writer's final message was accepted (`HeldIsMapped`).
`RoundRobinHolds` is for streams with one writer each (`OwnStreams`) and finitely many of them.
`passed` cannot be bounded by itself: `TurnInv` bounds the turns others have had together with
the place in line (`TurnComes`), which needs that nobody has two places (`OnePlace`) and so that
a stream whose id is still in line is not made anew (`NotAgain`). The last follows from
`LossInv`: only a final message deletes a stream, and its one writer has stopped.

The dispatcher's liveness is out of the prover's reach, but not the invariants it stands on.
`SleepsOnNothing` says, for shared streams too, that no wake-up is lost: a dispatcher that waits
with nothing in `wakeCh` has no control message, and no accepted message that only it could
send. `FinishedLeaves`, for streams with one writer each, says that a finished stream which is
still in the map has a turn to come. The interesting step is `afterEmptyStream`: the queue it
finds filled again was filled by a call that has scheduled the stream since.

`ControlServer_proofs` EXTENDS `SessionManager_proofs` and proves, for any number of
connections, HTTP calls, public requests, users and restarts and any plan, from
`ControlAssumption` and what `SessionManager` assumes, all five invariants of the run
`ControlSessions`, and that the server's behaviours are behaviours of the manager
(`ManagerImplemented`), whence `ServerDirectory`: what the HTTP side looks up is one directory,
and no tunnel changes hands, also when it is racing handlers that call the manager.
`ControlInv` adds to the invariants what a handler has at each stage: its message
(`HasMessage`), its session, which is the one it drew or the one it resumed (`HasSession`), and
its reservation as long as it owes one (`HasPlace`). `PlacesHeld` compares counters with the
number of handlers that will give back, so the proof needs the library's facts on cardinality.
It says of each counted tunnel that it has a handler, and not the converse, which fails
(`ControlStaleCount`). `RequestReachesOwner` needs `Forwarding`: what the first
lookup found stays true of the session it found, because ids are not drawn twice. The steps are
proved for any environment (`AnyStep`): any set of connections may close at once, and a restart
may leave any of those that nothing was read from.

`TunnelClient_proofs` uses that, because there the clients close the connections and a restart
cuts them. It proves, for any number of clients, connections, faults and restarts, `ClientTyped`,
`ServesItsTunnelHolds` and `TunnelKeptHolds`, and of the daemon with such clients everything
that was proved of it alone (`DaemonHolds`, `DaemonDirectory`). Client and handler share no
state, so `ClientInv` follows a tunnel from the session to the answer (`Hears`), to what `Run`
keeps (`KeepsTunnel`) and into the next register message (`Asks`). Each of these may be read
after takeovers, detachments and restarts; what survives them is `Tunnel`: the id has been
drawn, and *if* a session of that id is left, it is this client's and has this token. That a
session once gone does not come back under a drawn id (`GoneStays`) makes it stable, and makes
an `invalid_resume` still true when it is read.

| theorem | where | for every |
|---|---|---|
| `TypeCorrect`, `RouteIndexHolds`, `ActiveIffConnectedHolds`, `DurableBackedHolds`, `IdentityStableHolds`, `DirectoryImplemented` | `SessionManager_proofs` | sets of ids, labels, principals, shapes, connections |
| `ControlTyped`, `ManagerImplemented`, `NoGhostSessionHolds`, `PeerTableHolds`, `PlacesHeldHolds`, `FreshTunnelsWithinPlanHolds`, `RequestReachesOwnerHolds`, `ServerDirectory` | `ControlServer_proofs` | connections, calls, requests, users, plans |
| `ClientTyped`, `ServesItsTunnelHolds`, `TunnelKeptHolds`, `DaemonHolds`, `DaemonDirectory` | `TunnelClient_proofs` | clients, connections, faults, restarts |
| `TokensTyped`, `UndoneOnlyInOverlapHolds`, `AcceptedWasActiveHolds` | `TokenValidator_proofs` | tokens, validations, commands, times |
| `ProtocolTyped`, `PendingIsServedHolds`, `NoOrphanWorkHolds` | `TunnelProtocol_proofs` | requests, limits, queues |
| `UsageTyped`, `RequestCapHolds`, `CountedOrDirtyHolds`, `FlushKeepsTotalsHolds`, `ReservationsAreHeldHolds`, `OnlyOverrunExceeds` | `UsageTracker_proofs` | users, requests, periods, limits |
| `StreamTyped`, `EndedOnceHolds`, `SlotFollowsRequestHolds`, `CleanEndIsDrainedHolds` | `RequestStream_proofs` | lengths and capacities |
| `DispatcherTyped`, `NothingStrandedHolds`, `InOrderHolds`, `LostAfterFinalHolds`, `RoundRobinHolds`, `SleepsOnNothing`, `FinishedLeaves` | `MessageDispatcher_proofs` | goroutines, streams, calls, capacities |

Only model-checked: liveness, that is `EventuallyDurable`, `EventuallySent`, `StreamFreed`,
`CloseReleases`, `AllOver` and `Settles` (TLAPS does not prove formulas with ENABLED or
fairness).

## 7. What is not modelled

Token hashing and the client's credentials file, `SetInFlight` and the waiters for a stream
slot, the byte copying of an upgraded connection, messages that fail to decode, the JSON files'
atomic replacement (a write happens or fails), TLS, configuration, CLI, logging, and the pure
functions of `transport` and `proxy`. Except in `TokenValidator` time
is not modelled: a timeout may happen whenever the timer is set.

## 8. Plan

Next module:

1. `PeerStreams`: the daemon's peer with several requests: slots and their waiters,
   `SetInFlight` outside the lock, `closedCh`, `failPending` against `forwardHTTP`. It is to show
   that slots in use never exceed the limit, that none is leaked or returned twice, and how
   far behind the counter shown may stay.

Proof:

2. More of the safety halves of the liveness properties, as `SleepsOnNothing` is of
   `EventuallySent`: for `AllOver`, that a goroutine of `RequestStream` which waits for a channel
   has another that will close it or send to it; for `Settles`, that a client which waits for an
   answer has a handler that owes it one, or a connection that is closed.
