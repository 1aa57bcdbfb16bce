# ReticulumAPI in TLA+

`rnsapid` (`src/rnsapi`) puts a REST and WebSocket API in front of one Reticulum
(RNS) instance. This directory holds TLA+ models of its core, the TLC
configurations that check them on small instances, and proofs about them. Paths
of source files below are relative to `src/rnsapi/`, paths of documents to the
root of the repository.

## 1. The system

### How it runs

One process, one asyncio loop. HTTP handlers, WebSocket handlers, the session
reaper, the retention sweep and the continuations of `link.open` are coroutines
on that loop; they interleave only at an `await`. RNS has threads of its own.
They call back (link established, link closed, request answered, resource
concluded, packet received) between any two Python statements of the loop,
change Python objects directly, and hand coroutines to the loop with
`AsyncBridge.run_async`. These two kinds of interleaving, await by await and
statement by statement, are where this program is hard, and every module states
which of the two a step stands for.

### Components

| component | state | operations | talks to |
|---|---|---|---|
| session registry (`auth/session.py`) | `_by_token`, `_by_id`, `_anon`, per session: times, owned objects, `ws_connections` | create, anonymous, get_by_token, revoke, sweep_once, reaper loop | cleanup hooks of all services, hub, connections |
| REST gate, login, logout (`auth/middleware.py`, `handlers/auth.py`) | none | admit, login, logout (REST and WS) | registry |
| WebSocket (`server.py`, `ws/*`) | connection, its session, the hub's set of connections | handshake, auth frame, frame loop, close, fan-out | registry, handlers through the router |
| links (`rns/links.py`, `handlers/links.py`) | `session.open_links`, `_LinkEntry` | open (REST, WS), reuse, identify, close, callbacks, cleanup | RNS.Link, identities, resources (attach), hub |
| requests over a link (`rns/links.py`) | one future per request | request, response and failure callbacks, watchdog | RNS.Link.request, hub |
| resource transfers (`rns/resources.py`, `handlers/resources.py`) | `session.active_transfers`, files in `resources_dir` | upload, send, receive, delete, cancel, download, sweep, cleanup | RNS.Resource, hub |
| identity and destinations (`rns/destinations.py`, `handlers/identity.py`) | `active_identity_hash`, `owned_destinations` | set, clear, create inbound and outbound, remove, cleanup | RNS.Transport (one registry for all sessions) |
| packet listeners (`rns/packets.py`) | `packet_listeners`, the callback on a destination | listen, unlisten, cleanup | RNS.Destination, hub |
| packet sending (`rns/packets.py`) | `pending_receipts` | send, receipt callbacks, cleanup | RNS.Packet, hub |
| bridge (`async_bridge.py`) | main loop, buffer of 256 coroutines | set_main_loop, clear_main_loop, run_async | every callback |
| paths, announces (`rns/paths.py`, `rns/announces.py`) | the handler registered with RNS | request_path, list, send, start, stop | RNS.Transport, hub |
| identity store (`rns/identities.py`) | `.rid` files | create, list, load, default identity | file system |
| service, configuration, TLS, CLI | process-wide settings | start, shutdown | everything |

### What is hard, and what makes each part correct

* **Sessions.** A teardown awaits (its event, then one close per connection)
  while connections attach, log out and close, and while the reaper works through
  a list it computed earlier. Correct means: no connection is left open on a dead
  session, lifetimes are enforced, every teardown ends, every closed connection is let
  go, and only an expired session is reaped.
* **Links.** An open is suspended several times before the `RNS.Link` exists, and
  the cache is per destination, while closes, timeouts, evictions by RNS threads
  and the end of the session go on. Correct means: the live link is the cached
  one, events come in the promised order with the promised id, whoever gives up
  leaves nothing behind.
* **Requests.** RNS may answer, fail, or stay silent; the service keeps a deadline
  of its own. Correct means: everybody hears, once where that is possible, and no
  reply overtakes its event.
* **Transfers.** RNS may conclude a resource before its constructor has returned,
  and cancelled ones as well. Correct means: files are removed, what is announced
  can be downloaded, deleted means deleted, every conclusion is reported.
* **Endpoints.** RNS has one registry of destinations for the daemon, sessions
  have their own books, and REST handlers await their body between check and use;
  the book does not tell an outbound destination, which RNS does not register,
  from an inbound one. Correct means: what a session owns is registered, what is
  registered is owned, packets go to listeners only.
* **Bridge, packets, daemon.** RNS may prove a packet before `send` has set the
  callbacks of its receipt, threads hand coroutines to a loop that starts, stops
  and is closed beside them, and one slow connection holds up its own events.
  Correct means: a receipt does not overtake `packet.sent`, open receipts are
  found by the cleanup, no event is kept back, every call ends.
* **The end of a session** is what all of these share. The registry pops the
  session and runs the cleanup hooks; handlers and callbacks that still hold the
  session object go on. Correct means: the books are empty at that moment, and
  afterwards only what was under way, or comes in over a connection that is not
  closed yet, can fill them again.

`PROJECT.json` lists the hazards one by one, each at its line.

## 2. The modules

| module | models | state ↔ code | steps |
|---|---|---|---|
| `SessionLife` | what the end of a session means to all services: the abstract specification | `life`, `heard` (a frame may begin), `held` (a handler or callback has the session), `booked` (a service holds something for it) | create, serve, end, wind down |
| `OpenCall` | what one open of a link promises its caller: abstract | `call`, `defers` (`link.established` waits for `identify`), `link`, `announced` | begin, dial, confirm, end, announce |
| `Exchange` | what one request over a link promises its client: abstract | `phase`, `owed` (the answer on its way), `told` (how often of what), `reply` | begin, owe, tell, silence, expire, retire, reply |
| `Shipment` | what the transfer of one resource promises its session: abstract | `cargo`, `listed`, `shown` (with a status that says it is under way), `started`, `told`, `upload` | upload, depart, arrive, start, conclude, report, cancel, forget, relabel |
| `ClientFeed` | what clients may expect of the events they are sent: abstract | `told[c]` (what client `c` was told, in order), `gone` | tell, leave |
| `Sessions` | registry, gate, WebSocket handler | `registered` = `_by_token`; `wsSession[c]` = `conn.session` and, inverted, `ws_connections`; `background` = a task or a callback of RNS holds the session object; `tdState/tdSession/tdLeft` = the frame of a running `_teardown`; `expired` = the list of `sweep_once` | loop, await to await |
| `Links` | the links of one session | `openLinks` = `session.open_links`; `link[o]`, `openClientId`, `suppress`, `identified` = `_LinkEntry`; `pc[o]` = where the coroutine of call `o` is | loop, await to await, cut further where a callback can see the gap; RNS threads |
| `Requests` | `LinksService.request` | `future`, `ready[r]` = the handles asyncio has queued for the request, `callback` = an RNS thread between its event and its `set_result` | handles of the loop; RNS threads |
| `Transfers` | transfers of one session over the links of one destination, and the policy that accepts them | `slot`, `policy` = the entries of `open_links` and `link_resource_policy`; `reachable` = something still holds the session object; `stray` = a link without a place in the cache may be up; `active` = keys of `active_transfers`; `xfer[t]` = `TransferState` with its `RNS.Resource` and files | loop, cut further around `RNS.Link()` and `RNS.Resource()`; RNS threads |
| `Endpoints` | identities, destinations, listeners of all sessions | `owned`, `outbound` = `owned_destinations` by direction; `listeners`, `activeIdentity` per session; `registered`, `callback` = RNS's registry | requests, REST bodies awaited |
| `Bridge` | `AsyncBridge`, the loop's queue, hub and connections | `mainLoop`, `buffer` = `main_loop`, `_pending_coroutines`; `ready` = the loop's queue; `at[x]` = where the RNS thread that reports `x` is; `sending[c]` = holder and waiters of `_send_lock` | parts of actions, used by the next two |
| `Packets` | sending packets and their receipts, for one session | `receipt[p]`, `callbacks[p]` = `RNS.PacketReceipt`; `pending` = `pending_receipts`; `pc[x]` = where the call about `x` is | loop, cut around the sending of the packet; RNS threads |
| `Daemon` | the process from the start of the loop to its close: `Packets` over `Bridge`, with announces, path requests, startup and shutdown | `stage` = how far `_on_startup`, the shutdown and `main` have come | all of the above |
| `MCLinks`, `MCEndpoints`, `MCDaemon` | instances for TLC: symmetry, small constant functions | | |
| `SessionsProofs`, `LinksProofs`, `RequestsProofs`, `TransfersProofs`, `ShipmentProofs`, `EndpointsProofs`, `DaemonProofs`, `DeliveryProofs` | theorems | | |

The modules share the session's end. `Sessions` pops the session and runs the
cleanup hooks in one step (they contain no `await` that suspends), which is the
action `EndSession` of the other modules; closing its connections follows. Between
the two, frames of that session are still handled, in all modules. `SessionLife`
states this once, and every module but `Requests` implements it with a refinement
mapping of its own (`INSTANCE SessionLife WITH`): `Sessions` for each session it
registers (`SessionsWindDown`), `Links` with `open_links` as the book
(`LinksWindDown`), `Transfers` with `active_transfers` (`TransfersWindDown`),
`Endpoints` with `owned_destinations` and `packet_listeners` (`EndpointsWindDown`),
`Daemon` with `pending_receipts` (`PacketsWindDown`). `held` is where the modules
differ: open calls in `Links`, requests that await their body in `Endpoints`, in
`Transfers` a link of the session that is not torn down, in its cache or out of it
(`stray`), or a resource RNS is receiving. `Sessions` reduces what the other
modules do to two bits: `owned`, and `background` for what outlives the handler that
started it, the tasks of `link.open` and the callbacks on RNS threads.

The other abstract specifications say what one actor of a module is promised, and
the module implements them once per actor. In `Links`, `OpensAnswerTruly` says that
every call implements `OpenCall`: it ends once, its outcome agrees with what it did
to its link, and no `link.established` of a link to be identified goes out for a
call that fails. In `Requests`, `RequestsAnswerTruly` says that every request
implements `Exchange`: an answer of RNS is told once, and the watchdog goes away
without a word only when an answer was told or is owed, which is the safety part of
`ClientHears`. `Reporting` and `Owed` read off the loop's queue which answer is on
its way. In `Transfers`, `TransfersKeepBooks` says that every transfer implements
`Shipment`: its end is told at most once, as what it was, and what is deleted while
the session shows it as under way is stopped; what is shown as something else is
forgotten (`Forget`), under way or not. The code sends the same `resource.failed` for a transfer that
failed and for one that is deleted, so `EndTold` counts as deletions the failures
beyond the one of the end. In `Daemon`, `ClientsAreToldInOrder` says that the connections
together implement `ClientFeed`, with `packet.sent` before the report of the same
packet. The instances have a parameter (`Call(o)`, `Exchanged(r)`, `Shipped(t)`), and
the property is the conjunction over the actors of the initial condition and the
steps.

`Daemon` is a composition by conjunction: `Bridge` and `Packets` define parts of
actions over their own variables, `Daemon` adds `stage` and says when they may be
taken.

A definition named `X_Suffix` after the comment "Mutation:" is `X` with a
plausible mistake. It is used by no specification; substituted for `X` it makes
a property of a run fail, which shows that the property can.

### Choices worth knowing

* *Sessions.* Time is a counter per session that saturates one tick past its
  limit: the code compares only with the limits. A token stands for its session;
  both are fresh random values. The four cleanup hooks are coroutines without a
  suspending await, so revocation and cleanup are one step (`EnterTeardown`).
  `Leaves` is all that is known of a handler: it may enter something in the books,
  and leave a task or a callback behind that does so later (`BackgroundCreates`).
* *Links.* A call, its entry, its link and its client id share one name, since a
  call creates at most one of each. `WsOpen` writes the placeholder whatever the
  cache holds, as `reserve_link_slot` does; `TimedOut` pops whatever the cache
  holds, as `_wait_for_active` does. `OnClosed` and `OnClosedEvict` are the two
  statements of the RNS thread that evicts; `OnEstablished` and
  `OnEstablishedSend` are the read of `open_client_id` and its reset, between
  which a reusing call can write an id that is then lost. REST callers pass no
  `on_phase`, so their pipeline does not suspend before the link is created and
  before `identify` (`InStep`). `Failures` are the reasons of `link_error_reason`;
  `Refusals` end a call in its pre-flight, and RNS may raise in the lookup, in the
  constructor (`LinkRefused`) and in `identify`, which is "internal".
* *Requests.* RNS makes at most one of the two callbacks of a request.
  `RestTimesOut` may also win against a result the caller has not yet seen,
  because the versions of Python the package supports differ there.
* *Transfers.* `RnsConclude` may come at any time after the constructor has begun.
  `SendAssign` and `SendStore` are the read and the write of one assignment.
  RNS makes the callbacks of one resource one after the other, so one thread per
  transfer is enough. `SlotChanges` and `CreateLink` are what module `Links` does
  to the cache entry, reduced to whether there is a placeholder, a link at one of
  the statements of `attach_link` (`created`, `accepting`, `started`), or a link that
  is wired. Links are made for an ended session as long as something holds it
  (`reachable`). A link that accepts resources and loses its place may stay up
  (`stray`), and what comes in over it is booked all the same. `FRESH` is a
  resource that is not queued yet, with a status in which `delete` does not cancel;
  `TRANSFERRING` stands for all those in which it does. RNS takes the callback for the end of a
  resource when it accepts it or later (`RnsWatch`); without it the end is `lost`. A policy stays with its destination when the link
  closes: `link_resource_policy` is never cleared.
* *Endpoints.* `LinksChange` stands for module `Links`: only the emptiness of
  `open_links` matters here. An outbound destination is not in RNS's registry but
  in the same book as the inbound ones. `Ownerless` is a registered destination in
  nobody's book; `Stray` is one that no session which still hears its clients has in
  its book. A request that finds no identity at its second look ends as `failed`.
* *Bridge.* The loop runs what it is handed in order. The writes of one fan-out
  are queued together by `gather`, so one handle stands for all of them.
  `run_async` is cut between its look at the loop and the hand-over, since the
  loop may be closed in between.
* *Packets.* `Transmit`, `Wire` and `Emit` are the statements of `send` between
  which RNS can prove the packet. `refused` is the receipt `False` of a
  packet no interface took: it is booked, and `Wire` raises. `LoopFree` keeps other coroutines out of the
  gaps; RNS threads run in them.
* *Daemon.* A client's call is not tied to the connection it came over: the
  handler goes on while it awaits, whether the connection is still there or not.
  aiohttp's shutdown (handlers cancelled, connections closed) is one step.

## 3. What the runs check

State counts are those of TLC with two workers. `Endpoints_safety`,
`Links_contended` and `Sessions_all` take about two minutes, the other runs a few
seconds to half a minute.

| run | instance | distinct states | shows |
|---|---|---|---|
| `Sessions_all` | sessions s1, s2 and the anonymous one, one connection, one REST request; both limits 0 ticks; fairness | 364 327 | `NoOrphanConnection`, `SessionsWindDown`, `LifetimeEnforced`, `EndedSessionDrains`, `ClosedIsLetGo` |
| `Sessions_stale_sweep` | the same, no REST request; limits 1 and 2 ticks | counterexample | `ReapsOnlyExpired` is not true of the code |
| `Links_contended` | two calls, one destination, symmetry | 2 667 264 | `IdentifyBeforeEstablished`, `EchoOnce`, `OpensAnswerTruly`, `LiveLinkIsCached`, `CleanupClosesAll`, `LinksWindDown` |
| `Links_alone` | one call, fairness | 3 774 | `OpenEnds`, `EstablishedIsReported` |
| `Links_ended_session` | one call | counterexample | `EndedSessionHasNoLink` is not true of the code |
| `Links_shared_destination` | two calls, one destination | counterexample | `OneLinkPerDestination` is not true of the code |
| `Requests_all` | two requests, fairness | 9 409 | `ReplyFollowsEvent`, `RequestsAnswerTruly`, `ClientHears` |
| `Transfers_all` | one transfer, fairness | 120 384 | `UploadsAreRemoved`, `AnnouncedIsDownloadable`, `PolicyIsObeyed`, `TransfersKeepBooks`, `TransfersWindDown`, `ConclusionIsReported`, `PollerStops` |
| `Transfers_deleted` | one transfer | counterexample | `DeletedStaysDeleted` is not true of the code |
| `Endpoints_safety` | two sessions, two identities, two hashes, one REST request, symmetry | 3 532 272 | `OwnersAreRegistered`, `OnlyListenersHear`, `RemovalsAndEndsFree`, `EndpointsWindDown` |
| `Endpoints_stale_listener` | one session | counterexample | `ListedIsAttached` is not true of the code |
| `Daemon_all` | one connection, one packet, one announcement, one path request, a buffer of one, one call; fairness | 99 038 | `OpenReceiptIsBooked`, `NothingStranded`, `ClientsAreToldInOrder`, `PacketsWindDown`, `ReportsArrive`, `CallsEnd`, `BookIsCleared` |

Each passing module is checked for its type invariant too. Deadlock is not
checked: every session ends, every call finishes, every connection is used once
and the daemon shuts down, so all models may stop.

`TimedOutIsClosed`, `WatchdogYields`, `StartedComesFirst` and `ReceiptAfterSent`
are stated in the modules and proved, but no run lists them: `OpensAnswerTruly`,
`RequestsAnswerTruly`, `TransfersKeepBooks` and `ClientsAreToldInOrder` say more
about the same steps.

### Why the bounds are enough

* Two named sessions let one be torn down while the other expires, logs out or
  takes a new connection; a third adds no new pair. One connection meets the
  teardown of either while it attaches, is answered or closes; that the invariant
  does not depend on the number of connections is proved (`NoOrphans`). With limits
  of 0 ticks a session that is used at every tick is too old while it is active,
  which is what `LifetimeEnforced` turns on; for the other properties it only
  counts that the session is past one of the limits. Limits of 1 and 2 let it be
  inactive before it is too old (`Sessions_stale_sweep`).
* Two open calls are enough for every race over one cache entry: each rule of the
  code looks at one call and one entry. Calls to different destinations share
  nothing but the end of the session. `LiveLinkIsCached` and `CleanupClosesAll`
  are stated for calls no other call for the same destination has disturbed
  (`Undisturbed`); for the others they fail, as `Links_shared_destination` shows.
  The end of a call depends on that call, RNS and the session, so the liveness
  properties are checked for one call.
* Transfers of a session share nothing but the state of the link, the end of the
  session and the loop, so one transfer shows what two would; a transfer has at
  most one sender, one conclusion and one poller at a time. One transfer still
  sees any number of links, one after the other, and any sequence of policies.
* Requests are independent; two are checked so that the loop's queues interleave.
* Two sessions and two hashes of two identities let sessions contend for a hash,
  switch identity, and create again what the other has removed. One request at a
  time awaits its body; frames and requests without a body, of both sessions, run
  in between, and a second suspended request could do no more than they do.
* `Capacity = 1` makes the second report the one that overflows the buffer: what
  counts is whether it is full, not how many it holds. `MaxCalls = 1` lets one of
  the three kinds of call be under way, with the reports of the packet and of the
  announcement, the life of a connection and the shutdown around it; calls meet
  only in the loop's queue and in the lock of the connection, where the report
  already contends with the call.

### Fairness

Fairness is stated only for what the code makes happen by itself. Weak fairness of
a loop step: asyncio runs every handle that is ready, and every await of these
handlers but that of a body has a deadline (`wait_for`, the polling deadlines,
aiohttp's heartbeat and close timeout). Timeouts that clients name are taken to be
finite: Python's JSON parser reads `Infinity`, and nothing in the handlers refuses it.
The step out of `admitted`, where a REST request waits for its body, is not fair:
`OpenEnds` and `CallsEnd` begin once the request is there. Weak fairness of the reaper: `_reap_loop` catches every
exception of a sweep and goes on. Weak fairness of a callback that RNS has begun.
In `Transfers` a loop step is strongly fair: other coroutines may be in the middle
of theirs again and again, which disables it for a moment, but the loop's queue is
first in, first out, so it is not overtaken for ever. In `Daemon` RNS ends every
receipt, by a proof or by its timeout, as long as it is up.
Never assumed: that a peer answers, that a handshake completes, that a resource
concludes, that a client sends anything, the rest of a request included, that a
signal stops the daemon. `ClosedIsLetGo` begins with a closed connection: that a
silent peer is rejected after `ws_auth_frame_timeout` is one deadline and no
property.

## 4. What is proved

For every value of the constants, by TLAPS:

* `SessionsProofs`: `TypeCorrect`, `NoOrphans` (`NoOrphanConnection`),
  `AnonymousSessionStays` and `SessionsImplementLife` (`SessionsWindDown`).
  `NoOrphanConnection` is not inductive: it says that some teardown of the session
  is under way, not that this teardown will still get to the connection. The
  invariant says so (`CoverInv`: the teardown has yet to take its list, or the
  connection is on the rest of it), and that needs to know which handlers are
  attached to which session (`HandlerInv`) and that the slot of a logout is used
  once, after the session was popped (`LogoutInv`). `SessionsWindDown` counts the
  tasks and callbacks in the background among what may still fill the books. `AnonymousSessionStays` also
  covers authentication switched off, which no run instantiates.
* `EndpointsProofs`: `TypeCorrect`, `BooksAgree` (`OwnersAreRegistered`),
  `ListenersHear` (`OnlyListenersHear`), `RemovalsFree`
  (`RemovalsAndEndsFree`) and `EndpointsImplementLife` (`EndpointsWindDown`).
  The invariants are inductive together with the types once it is known that a
  request under way has a session (`RequestInv`); that no two sessions own the
  same inbound hash is what keeps an `unlisten` of one session away from the
  callback of another.
* `LinksProofs`: `TypeCorrect`, `IdentifyComesFirst` (`IdentifyBeforeEstablished`),
  `IdsEchoOnce` (`EchoOnce`) and `TimeoutsClose` (`TimedOutIsClosed`), for any
  number of calls that share destinations in any way. The invariant adds: a call
  that has not created its link has left no trace on it (`PhaseInv`);
  `suppress_initial_established` is set from the constructor until `identify` was
  called, and a thread on its way to send `link.established` has read it as clear
  (`DeferInv`); an id is held by one entry, or by the thread that read it, and by
  nobody once echoed (`IdInv`). `DeferInv` is why the thread and
  `_emit_established` never hold the same id. `OwnLinkIsCached`
  (`LiveLinkIsCached`) and `CleanupIsComplete` (`CleanupClosesAll`) hold for every
  call that is the only one so far for its destination, whatever the others do;
  `Links_shared_destination` shows what happens to the others.
  `LinksImplementLife` is `LinksWindDown`. `CallsAnswerTruly` (`OpensAnswerTruly`)
  is the refinement of `OpenCall`; it adds that a call has an outcome exactly when
  it is over (`OutcomeInv`). The steps of `Next` are sorted into those of the call itself,
  those of RNS about its link, and all others, which leave what the mapping reads
  alone but for an end of the session or a close that brings the link down (`Aside`).
* `RequestsProofs`: `TypeCorrect`, `RepliesFollowEvents` (`ReplyFollowsEvent`) and
  `WatchdogIsQuiet` (`WatchdogYields`), for any number of requests. The invariant
  lists the nine queues the loop can have for a request (`Queue`) and, among them,
  those in which the event is still to be sent (`Untold`): in none of these is the
  caller woken before the event. The numbers of events then follow from the receipt,
  the queue and the future alone (`RequestInv`). `RequestsExchange`
  (`RequestsAnswerTruly`) is the refinement of `Exchange`: what is owed is read off
  the queue and the thread, each of the loop's handles is one abstract step or
  none, and the state of the future says which of the caller's endings is open to it
  (`CallerInv`).
* `TransfersProofs`: `TypeCorrect`, `UploadsGo` (`UploadsAreRemoved`),
  `StartIsToldFirst` (`StartedComesFirst`), `CompleteIsDownloadable`
  (`AnnouncedIsDownloadable`), `PolicyHolds` (`PolicyIsObeyed`) and
  `TransfersImplementLife` (`TransfersWindDown`), for any number of transfers. The
  invariant is about one record at a time (`RecordInv`): how far the end of the
  transfer has been told, and that until then it was reported neither as a success
  nor, except by its deletion, as a failure (`Counted`); which fields a transfer of
  each direction never uses (`Directed`). `StartedComesFirst` needs that the
  end of a resource is reported only when `send` is not between the constructor and
  its own event. `PolicyHolds` follows the strategy through the statements of
  `attach_link`, for links of ended sessions too (`StrategyInv`).
* `ShipmentProofs`: `TransfersShip` (`TransfersKeepBooks`), the refinement of
  `Shipment`. Beyond the invariant of `TransfersProofs` it needs the exact number
  of events for every stage of a transfer (`Booked`); that a transfer that is listed
  and under way can be stopped, except in the gap behind the constructor where
  nothing else runs on the loop (`Cancellable`); and what a transfer whose `send` is
  at a given statement looks like (`Staged`).
* `DaemonProofs`: `TypeCorrect`, `ReceiptsAreBooked` (`OpenReceiptIsBooked`),
  `BufferIsEmpty` (`NothingStranded`) and `PacketsImplementLife`
  (`PacketsWindDown`), for any number of connections, packets, announcements and
  path requests and any capacity. A receipt that can call back is in the book
  because `send` books it together with its sending and sets the callbacks later,
  in the same step of the loop, so that the hook cannot come in between, and a
  thread takes it out only once the receipt has ended (`PhaseInv`). The buffer is
  empty while there is a loop because nothing calls `run_async` before
  `set_main_loop` is over, and whoever looks at the loop later finds it running
  until `clear_main_loop` (`StartInv`).
* `DeliveryProofs`: `SentComesFirst` (`ReceiptAfterSent`) and `FeedsAreOrdered`
  (`ClientsAreToldInOrder`), the refinement of `ClientFeed`, on top of the invariants
  of `DaemonProofs`. The invariant follows events through the loop's queue, the locks
  of the connections and what was delivered. An event is in one stage at a time and
  at most once in each queue, and whoever reports it is then past reporting it again
  (`OneCopy`). In every place `packet.sent` precedes the report of the same packet,
  and where one is ahead of the other by a stage it is `packet.sent` (`SentFirst`):
  RNS may report a packet before `send` has handed its own event over, but that
  report has one turn of the loop more to go, and the loop does not turn while
  `send` is in the gap.
* Each `...ImplementLife` shows that initial states of the module map to initial
  states of `SessionLife`, and every step to a step of it or to a stutter.

The proofs assume only the named assumptions on constants in the modules
(`ConstantsAssumption`): the null values are not sessions or calls, limits are
natural numbers, and so on. No set is assumed finite.

Checked by TLC only: the counterexamples, and the liveness properties, since the
prover handles neither fairness nor `ENABLED`: `LifetimeEnforced`,
`EndedSessionDrains`, `ClosedIsLetGo`, `OpenEnds`, `EstablishedIsReported`,
`ClientHears`, `ConclusionIsReported`, `PollerStops`, `ReportsArrive`, `CallsEnd`,
`BookIsCleared`. Every invariant and action property of a passing run, and every
refinement, is a theorem. The modules declare no `RECURSIVE` operator and no
property depends on induction over data, which the installed provers cannot do.

## 5. Where the code and the documents disagree

Thirteen disagreements are stated as properties in the modules and refuted by TLC.
Five have a run that shows the counterexample:

1. A link created by an open that was suspended when its session ended stays up
   (`Links_ended_session`; `README.md:31-34`).
2. Opens of one destination that overlap before the first link is ACTIVE, or while
   it is STALE, create a second link (`Links_shared_destination`;
   `docs/api-reference.md:812-815`).
3. The reaper tears down a session that is no longer expired
   (`Sessions_stale_sweep`; `docs/config.md:55`).
4. A deleted transfer comes back (`Transfers_deleted`;
   `docs/api-reference.md:1121-1124`).
5. A listener outlives its destination and then stands in the way of a new one
   (`Endpoints_stale_listener`; `docs/api-reference.md:660-664`).

The other eight have no run of their own; the counterexample appears when the property
named here is checked on the instance of the run named here:

6. An open that gives up evicts the entry another open has stored by then
   (`GivesUpOwnEntry`, `Links_contended`; docstring of
   `_wait_for_active`, `rns/links.py:530-531`).
7. A closed link evicts an entry that was stored between the look at the cache and
   the pop (`EvictsOwnEntry`, `Links_contended`; comment at `rns/links.py:763`).
8. A handshake that completes between the constructor and `_wire_callbacks` is
   reported by nobody, though the open goes well (`OkIsAnnounced`, `Links_alone`;
   `docs/api-reference.md:968-969`).
9. A transfer whose resource was not queued yet when `send` looked is deleted
   without being cancelled or reported (`DeletedIsStopped`, `Transfers_all`;
   `docs/api-reference.md:1123-1124`).
10. A resource accepted before the callbacks of its link are set ends unheard
    (`EveryEndIsReported`, `Transfers_all`; `docs/api-reference.md:1141-1145`).
11. A request under way when its session ends creates a destination that stays
    registered (`EndedSessionsOwnNothing`, `Endpoints_safety`;
    `docs/api-reference.md:407-408`).
12. The identity of a dirty session is switched by a PUT whose check came before its
    body (`DirtyKeepsIdentity`, `Endpoints_safety`; `docs/api-reference.md:391`).
13. A POST of a destination whose identity is cleared while its body is awaited is
    answered with 500 (`NoIdentityIsRefused`, `Endpoints_safety`;
    `docs/api-reference.md:428-429`).

Others met while modelling, without a run of their own; the models contain the
behaviour:

* `docs/api-reference.md:968-974`: an open ends with `link.established` or with
  `link.open.failed`. Both can be sent, when the handshake completes while
  `_wait_for_active` gives up (`rns/links.py:541-554`).
* The same section says that the events echo the client's id: a reusing open
  overwrites the id of an open that is not answered yet
  (`handlers/links.py:254`, `rns/links.py:595`).
* `docs/api-reference.md:976-981`: `link.established` after `auto_identify` means
  that the link is up. `_emit_established` does not look (`rns/links.py:508-513`).
* The comment at `handlers/links.py:291-292` says `link.list` is truthful; the
  placeholder of an open that failed before the link existed stays.
* `docs/api-reference.md:1141`: `resource.completed` means the transfer finished
  successfully; it is also sent when the copy failed (`rns/resources.py:409-415`).
* `docs/api-reference.md:1121-1124`, `1141-1145`: a transfer in flight is cancelled, and
  `resource.failed` stands for a failed or cancelled one. `send` reads the status of the
  resource and stores it (`rns/resources.py:576`); a callback that concludes in
  between is overwritten, the finished transfer looks in flight, and deleting it
  reports `resource.failed` after `resource.sent`.
* `docs/api-reference.md:1035-1039`: the end of the session removes all transfers;
  `_on_receive_concluded` adds one afterwards.
* An upload that cannot be opened again when it is to be sent
  (`rns/resources.py:493`) leaves its file and a PENDING transfer behind, which no
  event reports (`SendOpenFails`). They stay until the transfer is deleted or the
  session ends; the file may go earlier, by the retention sweep.
* `docs/api-reference.md:1109`, `1117-1119`: `download_url` while COMPLETE;
  `_on_receive_started` may store COMPLETE before there is a file.
* `docs/api-reference.md:407-408`, and `DELETE` of a destination: an outbound
  destination takes the place of an inbound one of the same hash in
  `owned_destinations`, and the inbound one stays registered with RNS for good (`rns/destinations.py:118-128`).
* A packet that RNS proves before its callbacks are set is never reported, and its
  receipt stays in `pending_receipts` as long as the session
  (`rns/packets.py:296-306`); a send that straddles the end of its session books a
  receipt whose callbacks nobody takes away.
* `RNS.Packet.send` returns `False` when no interface took the packet. `send` books
  that as a receipt and sets a callback on it, which raises (`rns/packets.py:296-297`):
  the request fails with a 500 or an error, no `packet.sent` goes out, and the entry
  stays until the session ends, when the hook's attempt to clear its callbacks is
  logged and ignored.
* A thread that found the loop running hands its coroutine to a loop that is
  closed by then; `run_coroutine_threadsafe` raises in the RNS thread
  (`async_bridge.py`), and the rest of the callback is not executed.
* Shutdown does not tear sessions down (`server.py:280`): their links and
  destinations end with the process.

## 6. Not modelled

The identity store writes a file once, under the hash of its content, and never
removes it, without an await anywhere: no interleaving tells two orders apart, and
`Endpoints` takes the stored identities as a constant (a load that fails is the
failing branch of its actions). Configuration, TLS, passwords, logging and the CLI
are sequential input and output. The start of the sites and signal handling belong
to aiohttp and the operating system; the reaper and the retention sweep are in
`Sessions` and `Transfers` and not repeated in `Daemon`.

Payloads, sizes, metadata, progress figures with their throttle, and the
formatting of events are abstracted from everywhere, as is the list of futures
that `run_async` keeps: nothing reads it. RNS itself is external: `RnsActive`,
`RnsStale`, `RnsRecover`, `RnsClose`, `RnsConclude`, `RnsLinkChanges`, `StrayCloses`,
`RnsAdvertise`, `RnsWatch`, `RnsBegin`, `RnsAnnounce` and `CallBack` do what the code and its comments
expect of RNS, at any time.

## 7. Plan

Done: `Sessions`, `Links`, `Requests`, `Transfers`, `Endpoints`, `Bridge`,
`Packets`, `Daemon`; `SessionLife` and its five refinements; `OpenCall`, `Exchange`,
`Shipment` and `ClientFeed`, each with its refinement; theorems for every safety
property of a passing run.

To come:

1. A composition of `Sessions` with `Links`, so that the end of a session seen by a
   suspended open is the one of the registry; its theorems belong into
   `SessionsProofs`.
2. The safety part of further liveness properties: that whatever `ReportsArrive`
   waits for is in the loop's queue or in a lock, and that a stopped poller has
   nothing left to report.
