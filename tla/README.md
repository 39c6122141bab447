# TLA+ models of ACENetwork

ACENetwork is a C++ framework for network clients and servers on top of ACE. A program that uses
it chooses an event dispatch (the *reactor*, which reports that a socket is ready, or the
*proactor*, which reports that an operation has been completed), creates connections with
connectors and listeners, and pushes what it receives through a processing stream. Connections are
reference counted objects that several threads use at once; the framework has no garbage
collector, no ownership types and few unit tests for what happens while a connection goes away.
That part is what this project is about.

Contents: [inventory](#1-inventory), [modules](#2-modules), [runs](#3-runs), [fairness](#4-fairness),
[proofs](#5-proofs), [findings](#6-findings), [not modelled](#7-what-is-not-modelled),
[plan](#8-plan). Paths are relative to the repository; files without a directory are in `src/`.

## 1. Inventory

| component | files | state | operations | correct when |
|---|---|---|---|---|
| connection manager | `net_connection_manager.*` | `isActive_`, list `connections_`, recursive `connectionsLock_`, condition | `start`, `stop`, `wait`, `wait_2`, `register_`, `deregister`, `abort` (4 forms), `get` (3 forms), `operator[]` | the list is bounded and its members alive; waiters wake up; `abort(true)` ends |
| connection base | `net_connection_base.*` | `isRegistered_` (unprotected), configuration, connector/listener | `register_`, `deregister` | registered exactly while in the list |
| reactor stream connection | `net_streamconnection_base.*` (first half) | `state_.status`, `state_.closed`, `notify_`, stream | `open`, `close`, `handle_close`, `abort`, `notify`, `waitForCompletion` | each reference is released once; every closed connection is reclaimed |
| proactor TCP connection | `net_streamconnection_base.*` (second half), `net_tcpconnection_base.*`, `net_asynch_tcpsockethandler.*` | as above, plus `counter_` (outstanding writes), the pending read | `open`, `handle_read_stream`, `handle_write_stream`, `handle_output`, `handle_close`, `abort`, `waitForIdleState` | one reference per operation; the read chain never breaks; waiting ends; CONNECT and DISCONNECT are paired |
| reactor TCP connection | `net_tcpconnection_base.*`, `net_tcpsockethandler.*` | `writeBuffer_`, `sendLock_` | `handle_input`, `handle_output` | references of notifications add up |
| UDP, netlink, SSL handlers | `net_udp*`, `net_asynch_udp*`, `net_netlink*`, `net_asynch_ssl*` | socket options, buffers | as TCP | as TCP; a write-only UDP connection is closed by whoever aborts it |
| connectors | `client_server/net_client_*connector.*` | `handles_` (attempt to result), condition | `connect`, `wait`, `abort`, `validate_connection`, `handle_connect` | `wait()` reports the result of its own attempt |
| listeners | `client_server/net_server_*` | `isListening_`, the acceptor's handle, pending accept operations | `start`, `stop`, `open`, `accept`, `handle_accept` | the number of accept operations does not decay; an accepted socket always has an owner |
| session base | `net_session_base.*` | `state_.connections`, lock, condition | `connect`, `disconnect`, `close`, `wait` | `close(true)` ends, with no connection left |
| stream sockets | `net_stream_*socket_base.*` | an earlier form of stream connection | | |
| WLAN monitor | `wlan/` | association state machine, SSID caches, timers | scan, associate, DHCP | no forbidden transition; reconnects |
| BitTorrent session | `protocol/p2p/bittorrent/bittorrent_session.*`, `bittorrent_streamhandler.*`, `bittorrent_tools.*` | `state_.peerState` (per address), `state_.pieces`, `state_.connections`, `state_.connecting` | `connect`, `disconnect`, `notify` (per message type), `requestNextPiece`, `have` | every piece is saved, announced and reported once; the request loop does not run dry |
| other application protocols | `protocol/` (DHCP, FTP, HTTP, IRC, PPSPP, PCP, POP, SMTP, SSDP, WebSocket) | parser state | stream modules, generated scanners and parsers | |
| tools, tests, GUIs | `net_common_tools.cpp`, `net_os_tools.cpp`, `test_i/`, `test_u/` | none | wrappers of system calls, demonstrations | |
| external | ACE, libCommon, libACEStream | reference counter, event loop, streams | | |

**How the components interact.** A connector or listener creates a handler (count 1) and calls
`open()`. `open()` registers the connection with the manager (a singleton per address type, +1),
starts the stream and then the reading. The reactor or the proactor calls the handler back.
Other threads obtain the connection from the manager (+1 each) to send on it or to `abort()` it.
`abort()` shuts the socket down and closes it; the event loop then runs `handle_close()`, which closes the
descriptor once more, deregisters the connection and leads to the release of the initial reference. The exception is a *write-only*
UDP connection, which no event loop watches: there the aborting thread runs `handle_close()`.
When the count reaches 0 the object deletes itself. `doc/test_cases.txt` describes the intended
balance of references.

**What is hard.** Two threads run `handle_close()` or `deregister()` of one connection; flags such as
`isRegistered_` are read and written outside of any lock; `open()` fails half way, or is overtaken by the
events it has just enabled; completions arrive after the connection has been closed; a caller
sleeps until others have deregistered. Descriptors, which serve as ids of connections, are used
again as soon as they are closed; timeouts are followed by retries while the first attempt is still
pending; callbacks of several connections meet in one session. The list of hazards, each with its line, is in
`PROJECT.json`; the ones without a property say why.

## 2. Modules

| module | contents |
|---|---|
| `ConnectionManager` | manager, registration, reference-counted life of reactor connections |
| `Registry` | what the manager promises: a bounded register of live objects that are lent and given back |
| `ConnectionRegistry` | the refinement mapping from `ConnectionManager` to `Registry` |
| `StreamConnection` | one reactor TCP connection: status, session messages, write path |
| `AsynchConnection` | one proactor TCP connection |
| `AsynchConnector` | `Net_Client_Common_Tools::connect()` on the proactor's connector |
| `AsynchListener` | the proactor's listener and its accept operations |
| `Session` | the session base with the connections it opens and their configurations |
| `BitTorrentSession` | the download side of the BitTorrent session |
| `MC...` | instances for TLC of the module after which they are named |
| `...Proofs` | theorems about the module after which they are named, for any constants; those of `ConnectionRegistryProofs` are about the refinement |

The definitions keep the names of the methods they stand for. Definitions marked `(mutant)` are
wrong variants of the definition that follows them; nothing uses them, except a check that the
properties notice the difference.

### ConnectionManager

*Actors* are the threads that call the manager and, for each connection, the thread that opens
and then dispatches it (a connection is its own actor). `pc` is the actor's position between two
critical sections.

| state | code |
|---|---|
| `isActive_`, `connections_` | the members of that name (the list oldest first) |
| `count` | `Common_ReferenceCounter_T` / `ACE_Event_Handler` counter; 0 means (not yet) alive |
| `isRegistered_`, `closed` | `Net_ConnectionBase_T::isRegistered_`, `state_.closed` |
| `down` | the socket was shut down and closed by `abort()` |
| `decrease_b`, `deregister_b` | locals of `handle_close()` |
| `held`, `cur`, `again`, `waitFor` | locals and arguments of the manager's methods |
| `operation`, `opener` | history: is the initial reference still owned; how far `open()` got |

One step is one critical section, or one access to unprotected shared state. `register_`,
`deregister` (with its `broadcast`), `gather` (one round of `abort(bool)`), `get_*` and `wait_test`
are critical sections of the manager. `handle_close()` is split into `close_state` (under the
state's lock), `close_flag` (reads `isRegistered_`), `close_count` (reads `count() > 1`),
`deregister_test`/`deregister_clear`/`deregister`, and `close_release`. The error path of
`open()` has the same three deregistration steps. The processing stream, timers and the
statistics have no influence on these variables and are left out.

### AsynchConnection

`Dispatcher` are the proactor's threads, `User` the threads that obtained the connection from the
manager. The manager is reduced to `listed` and to a refusal or acceptance of `register_()`, as
`ConnectionManager` shows it.

| state | code |
|---|---|
| `status`, `closed`, `notify_`, `isRegistered_`, `counter_` | the members of that name |
| `read` | the pending read operation; "dead" when it can only fail |
| `writes` | write operations that the kernel has not completed |
| `socket` | closed locally or not |
| `connects`, `disconnects`, `life` | history: session messages, progress of `open()` |
| `owner` | history: the dispatcher that carries the initial reference while no read operation does |
| `taken`, `stuck` | history: references released by who did not own them; rests of partial writes that were not started |
| `parts` | partial writes so far (a bound) |

`open()` is `open`, `register_`, `setRegistered`, `open_start`, `open_status`, `open_connect`,
`open_check` (the test in `Net_AsynchTCPConnectionBase_T::open()`), and on failure the deregistration
and `open_fail`. A read completion is `handle_read_stream`, then `read_next` (the stream takes the data
and another read is started) or `handle_close`, whose last step, `close_release`, is the
`decrease()` of the caller. A write is `handle_output`, `write_start` (`write_unsent` if it fails),
`handle_write_stream` or `handle_write_part`, `write_release`. `abort()` has two steps, the status and the socket.
Retries after `EAGAIN` are part of `write_start` and `initiate_read`; the blocks of a chained
message are sends one after the other.

The connection can be closed at any time after its first read has been started, also while `open()` still
runs: a completion dispatched by another thread, or an `abort()` between the assignment and the test of
the status. Two paths then, or with a partial write, release a reference they do not own: the error path of
`open()` after the first read has been started, and the completion of a partial write, whose rest is
another operation (or none, if it cannot be started: the code does not test it). The model takes these
paths like any other; `taken` and `stuck` count what they do, so that the properties can say exactly what is
true of all the others. A thread that works on a reclaimed object finds its members as they were.

### Registry and ConnectionRegistry

`Registry` knows neither counters nor lists nor the steps of `open()` and `handle_close()`: an
object is new, live or reclaimed; members are entered up to a limit and leave; threads borrow members
and give them back; whoever gives up the last way to reach an object may reclaim it.
`ConnectionRegistry` maps `stage` to the reference counter, `members` to the list and `lent` to
`held`; every step of `ConnectionManager` is a step of `Registry` or a stutter.

### StreamConnection

One connection after its registration with the manager: `Opener` runs the rest of `open()`, `Dispatcher` are the
reactor's threads, `User` the threads that send and `abort()`. `open()` is `registerWithReactor`,
`open_status`, `open_connect`, `open_return`; when the registration fails, `fail_stop`, `fail_deregister`, `fail_status`,
`fail_release`, and then the `close()` of the connector or acceptor, in which the opener runs `handle_close()`.
A send puts a message into the stream's `queue` and `notify`
takes a reference and schedules a notification; `dispatch_output`, `output_lock`, `output_get`, `output_write` and
`output_unlock` (the guard's destructor) are `handle_output()` with its `sendLock_` and `writeBuffer_`. A partial write
leaves the rest in `writeBuffer_` and returns 1, which makes the reactor call `handle_output()` again, without a
reference of its own (`again`, `taken`). `handle_close()` flushes the queue (`close_flush`), waits without limit until the
stream is idle (`close_idle`), stops it (`close_stop`), closes the socket, deregisters, releases; a failed
`handle_input()` and a failed `handle_output()` run it in two threads at once. `wire`, `connects` and `disconnects` are
histories of what reached the socket and the stream; `leaked` counts the references which the
error returns of `handle_output()` keep.

### AsynchConnector

Callers share one connector and its map `handles_` of results. A caller's attempt is `connect`
(the descriptor, its options, the start of the operation, and the error path that closes first
and erases the map entry later), `wait` (one sleep on a shared condition, with a timeout), the search for
the connection in the manager and the poll of its status, with `retries` attempts. Dispatchers run
`handle_connect()`: `validate_connection()` stores the result and broadcasts, `make_svc_handler()`
and `open()` follow. `status` is the poll of the connection's status, `stream_wait` the wait, without a limit, for
its stream to run. `open` is the set of descriptors in use; the operating system hands out any free number. A
connection closes its descriptor in `abort()` and again in every `handle_close()`, and keeps the number: `shut` is
the set of those that have closed it, `stolen` records that a second close has hit the socket of somebody else.

### AsynchListener

`start()` and `open()` are one thread (`apc`), because the interface "is NOT re-entrant"; the
dispatchers of the proactor run `handle_accept()`. Every `start()` makes a new listening socket.

| state | code |
|---|---|
| `isListening_` | the member of that name |
| `handle_`, `accept_` | the handle the acceptor remembers, and the one `asynch_accept ()` works on: `stop()` closes the second and keeps the first |
| `pending`, `results`, `listening` | ACE's accept operations and completions, the kernel's sockets (external) |
| `listen`, `error`, `result` | locals and argument of `handle_accept()` |
| `client`, `heard` | the peers, and what the subscribers were told of their connections |
| `lost`, `failed`, `faults` | history: operations that could not be started again, handlers whose `open()` failed; the bound |

`open()` is `open_socket`, `open_listen`, the loop `open_accept`, `open_done`, or the error path
`open_cancel`, `open_close`. `handle_accept()` is `handle_accept` (evaluation of the completion,
the handler is made), `handle_accept_open`, `handle_accept_reissue`, `handle_accept_notify`. Closing or
cancelling lets ACE complete the pending operations with `ECANCELED`, which a dispatcher may handle only
after the listener has been started again.

### Session

Connections are reduced to what the session sees of them: the phase of their stream (`begin`, `in` once
`connect(id)` has been called, `ended` after `disconnect(id)`, `stopped`), their descriptor, and whether the
manager lists them. The session works with either dispatch (`isAsynch_`), whose orders differ:

| | reactor | proactor |
|---|---|---|
| `abort()` | shuts the socket down (`abort`), then closes the number it has read (`abort_close`), unless it was reset | the same; not for a write-only connection |
| `handle_close()` | stop the stream, close the number and reset the handle (`shutdown`), deregister; a second one does not wait for the stream | stop the stream, deregister, close the number (`shutdown`) |
| `get(id)` | finds a connection until its handle has been reset | until it is deregistered |

Closing a number closes whichever socket has it (`closesocket`), and `connect()` gets the lowest free one.
`early` is a history of the connections that lost their socket before their stream had told the session of its end.
Users call `connect(address)`, `disconnect(address)`, `close()` and `wait()`. `lock_` is explicit, because `close()` holds it while it
calls `abort()`. `conf` and `stored` follow the configurations that `connect()` allocates and `close()`
deletes. The parameter of `close()` is chosen where it is first read, in `close_unlock`.

### BitTorrentSession

The stream of every peer connection calls the session in a thread of its own. A step is a lock
scope, or a message that is sent outside of one.

| state | code |
|---|---|
| `connections`, `connecting` | `state_.connections`, `state_.connecting` |
| `conns`, `peer` | `state_.peerState`, per address; an address without connections has no entry |
| `chunks`, `saved` | `state_.pieces`: blocks received (good or corrupt), `onDisk` |
| `local` | locals of the running handler |
| `shaken`, `told`, `completions`, `no_more` | history: handshakes and announcements sent, events for the controller |
| `unsent` | history: the connections on which a message could not be sent |
| `choking`, `delivered`, `interested`, `pending`, `heard`, `dropped` | the remote peers (external), and the requests they will never answer |

`connect(id)` is `connect_inherited` (the base class's lock scope), `connect_state`,
`populatePeerPiecesBitfield`, `connect_handshake`, `connect_bitfield`, `connect_send_bitfield`;
`disconnect(id)` is `disconnect_inherited`, `disconnect_state`, `disconnect_notify`. There is one action for the
first lock scope of each message type (`notify_*`); `requestNextPiece`, `request` and `count` are shared by
the handlers that request a block. Every message may fail to be sent (`Fail`: `getConnectionAndMessage()` finds
no connection or no memory): a handshake then ends `connect(id)`, a request is counted all the same, `have()` goes on with
the next connection or gives up. A block is what one request asks for: offsets and lengths
are abstracted, `sanitizeChunks()` keeps one of two blocks at the same offset, whichever sorts first.

## 3. Runs

| run | instance | shows |
|---|---|---|
| `manager` | 2 connections (one write-only), 2 threads, list limit 1 | exact reference counts, the one use after free there is, bounded list, no lost wake-up, no resurrection |
| `manager_live` | 2 connections, 1 thread, limit 2 | `abort(true)` ends, `wait()` returns, closed connections are reclaimed |
| `failed_open_leaks` | 1 thread, the smallest instance that shows it | finding 1 |
| `asynch` | 2 dispatchers, 1 user, 2 sends, 2 partial writes | exact counts of references and of outstanding writes, where the object can be used after free, unbroken read chain, session messages paired up to two named orders; `waitForIdleState()` returns unless the rest of a write is lost, closed connections are reclaimed |
| `listener` | 2 peers, 2 dispatchers, 2 accept operations, 2 starts, 1 failing call | no error, and no restart, costs an accept operation; accepted sockets have one owner; waiting peers are served |
| `stream` | 2 reactor threads, 1 user, 2 messages, 1 partial write | exact references, where the object can be used after free, order on the wire, when session messages are paired; messages get written, a closed connection keeps the references of errors and no others |
| `connector` | 2 callers, 1 dispatcher, 1 connection, 2 descriptors, 1 retry | no socket is leaked, each has one owner unless a connection closes its number again; calls return unless the stream they wait for has ended |
| `connector_missed_wakeup` | 1 caller, 1 dispatcher | finding 2 |
| `session` | 1 opener, 1 closer, 2 connections (one write-only), 2 ids, reactor and proactor | when the assertions on the set of ids hold; `close()` and `wait()` return |
| `session_release` | as small as possible | finding 3 |
| `bittorrent` | 3 connections, two of them to one address, 2 pieces, 1 fault (a CHOKE, a corrupt block or a message that cannot be sent) | entries of peers outlive their handlers, requests are accounted for, pieces are announced on every connection that works, completion is reported once, what a steady peer has is downloaded |
| `bittorrent_handshake` | the same | finding 4 |

*Why the bounds are enough.* Two connections suffice for one to be refused at the limit and for one to
be deregistered while a waiter waits for another; one of them is write-only, as the two kinds are closed by
different threads. Two callers plus the dispatchers give every pair of methods the chance
to overlap on one connection. Connections are not reused after they have been reclaimed, as
objects are not. The theorems of section 5 remove the bounds for the safety properties.
In `AsynchConnection` two dispatchers let two completions overlap, or one overtake `open()`; the user's send overlaps
with both, and its `abort()` and its wait with any completion; two sends and two partial writes allow a write to be split twice, or two to be split
while the other one is being started or released. In `StreamConnection` two reactor threads let
`handle_input()` and `handle_output()` fail at the same time, two messages let one be
written, in parts by two threads, while the other is queued. In `AsynchConnector` two descriptors for two callers and one
retry make the second attempt meet the descriptor, and the map entry, of the first one; one connection object,
which is used again, suffices to close the descriptor of the next attempt. In `Session` two ids for two
connections let an id be used again while the manager still lists its former owner, whose socket was closed by `abort()`. In
`BitTorrentSession` the third connection shares the entry of the first one, and both peers have a piece in
common, so that a block arrives twice; one piece is announced late, by HAVE, when the peer has been
found to have nothing of interest. In `AsynchListener` two starts let a completion of the first socket
be handled after the second one listens, two operations let one be pending while another is
completed, and one failing call stands for any of `listen()`, an accept, the allocation, the
handler or its `open()`. The bounds on counters are `MaxSends`, `MaxParts`, `MaxCalls`, `MaxHandle`, `Retries`, `MaxStarts` and `MaxFaults`.

*What `session` assumes.* `CloseReturns` is conditional: from the call on, no connection begins,
ids are unique in the manager's list, and no write-only connection is met (`Calm`). Each of the
three is needed; see the observations in section 6. *What `bittorrent` assumes.* `Downloaded` is
about a peer with a single connection that has dropped no request and on which every message was sent (`Steady`); all are needed as well.

Every module has a type invariant `TypeOK`; those of `AsynchConnector` and `AsynchListener` are
proved, and their runs leave them out.

*Symmetry*: the threads are interchangeable in `manager`, which checks no liveness; the other
runs use none. *Deadlock* is not checked: once every connection has
been reclaimed nothing is left to do, and a thread may wait on a manager that nobody stops.

## 4. Fairness

`ConnectionManager`: a thread that has entered a method, and the thread inside `open()` or
`handle_close()`, go on (weak fairness of `ConnectionStep` and `ThreadStep`); the reactor dispatches the
close of a socket that was closed locally, because the descriptor in its set is reported as readable or, once it is
closed, as bad ("select failed (EBADF ...)", net_streamconnection_base.inl:568), until the handler is removed. No fairness is assumed of new calls, of the peer, or of data.

`AsynchConnection`: handlers and calls go on (weak). The kernel completes every write, and
every read once the socket was shut down or the read cancelled, and the proactor's queue is served
in order; a completion in the queue competes with the others for a dispatcher, hence strong
fairness. A user gives its reference back eventually (strong, because it may do other
things in between): without this no reclamation could be expected. A read on an open socket need
never complete.

`StreamConnection`: the steps of `open()`, running handlers and started calls go on, notifications
are dispatched, and a socket that was closed locally is reported (weak). Nothing is assumed of
new sends or of `abort()`; in particular a thread in `close_idle` relies on others to write what is queued.

`AsynchConnector`: callers go on, which includes the timeout of `wait()`, and so does a dispatcher
that has begun `handle_connect()` (weak). A connection attempt need never complete, a connection never close.

`AsynchListener`: `open()` and running handlers go on, the kernel completes a pending accept
while a peer waits, completions are dispatched (weak). Nothing is assumed of the peers or of
`start()` and `stop()`.

`Session`: the callbacks of connections and the started calls of users compete for `lock_`,
hence strong fairness: nobody is passed over for ever. Nothing is assumed of new calls.

`BitTorrentSession`: threads that set up a connection, and the thread of each connection, go on; a
peer sends the messages it owes (handshake, bitfield, the blocks requested of it) and unchokes a
session that is interested (weak). Nothing is assumed of HAVE, CHOKE or the end of a connection.

## 5. Proofs

Every invariant that a run checks is also a theorem, for every value of the constants
that meets the assumption of its module; so are one action property (`NoResurrection`) and the refinement
`ImplementsRegistry`. In each module the theorems rest on an inductive invariant `IInv`, which is part of the
module and which TLC has checked on the instances
of the runs before it was proved. `Invariance` is `Spec => []IInv`. Its proof
has one lemma or step per action, with the invariant split into its named parts.

| proofs about | assumed | theorems |
|---|---|---|
| `ConnectionManager` | finitely many threads | `TypeCorrect`, `ReferencesAreExact`, `MemorySafety`, `WakeupsAreNotLost`, `ReclaimedIsFinal`, `ListIsBounded` |
| `ConnectionRegistry` | the same | `Refinement` |
| `AsynchConnection` | finitely many dispatchers and users | `TypeCorrect`, `ReferencesAreExact`, `CounterIsExact`, `MemorySafety`, `ReaderStaysAlive`, `SessionsArePaired` |
| `StreamConnection` | finitely many dispatchers and users | `TypeCorrect`, `ReferencesAreExact`, `MemorySafety`, `SessionsArePaired`, `MessagesInOrder` |
| `AsynchConnector` | finitely many callers and dispatchers | `TypeCorrect`, `SocketsHaveOneOwner` |
| `AsynchListener` | finitely many clients and dispatchers, `Backlog` not 0 | `TypeCorrect`, `PoolIsKept`, `SocketsHaveOneOwner` |
| `Session` | nothing but that `None` is none of them | `TypeCorrect`, `CallbacksAssertionsConfined`, `WakeupsAreNotLost` |
| `BitTorrentSession` | finitely many connections, peers, pieces, blocks | `TypeCorrect`, `AssertionsAreMet`, `RequestsAreCounted`, `PiecesAreAnnounced`, `CompletionIsToldOnce` |

Finiteness is needed for cardinalities, and is what a program has. The bounds on counters (`MaxSends`,
`MaxParts`, `Retries`, `MaxStarts`, `MaxFaults` and so on) are any natural numbers in the proofs.

*ConnectionManager.* `ReferencesExact` is not inductive by itself: `close_release` decreases the counter, and
keeps the equation only if the initial reference is still owned and nobody else is about
to release it. `ClosingInv` says so: the actor with `decrease_b` set is unique for its connection,
and `operation` holds until it releases. That in turn needs to know who can be in `handle_close()`:
for a connection with a reader only its dispatcher, and once (`ReaderInv`); for a write-only one
any thread that holds a reference (`ThreadInv`), where `state_.closed` arbitrates. `OpeningInv`
says what nobody can know about a connection that is not yet in the list. `ListBounded` (its second half: no
duplicates) makes the removal of one element remove the connection from the set. There is one lemma
per action (`MakeInv`, ..., `ReleaseInv`),
and lemmas on the list operations (`AppendElements`, `WithoutElements`) and on the cardinality of
the set of holders (`HoldersAdd`, `HoldersRemove`). Memory safety then follows from exactness:
somebody who owns a reference makes the sum positive (`OwnedIsAlive`). `UseAfterFreeConfined` names the one exception:
nobody owns a reference for the connector that calls `close()` on a write-only connection after its `open()` has
failed, and an `abort()` may have released the last one (`FinalReferenceIsClosed` in section 6).

*Refinement.* One lemma per step that the register sees (`make_Create`, `register_Enter`, `open_Retire`,
`deregister_Leave`, `take_Borrow`, `release_GiveBack`), named for the action and the one it
becomes; the others stutter. The invariant is needed in both states: whether a release lets
`Registry` reclaim the object depends on who else can reach it, which is what exact
counters know.

*AsynchConnection.* The initial reference belongs to the chain of reads. `OwnerInv` says where it is: with the thread
inside `open()` until the first read has been started, with a read operation, or with the one dispatcher that handles its
completion; whoever runs `handle_close()` without it got there through the failed test at the end of `open()`. `OpenInv`
follows the thread inside `open()`, which no longer owns anything once the first read is pending, `ChainInv` says that the
chain does not break from there on, and `NoteInv` counts the announcements that were made and may still be made, by
`open()` and by a completion that overtakes it. `ReferencesExact` and `CounterExact` are part of the invariant, with the
terms `taken` and `stuck`: nothing is assumed of the order of completions, `open()` and `abort()`.

*StreamConnection.* `ClosingInv` is the argument of the manager (one owner of `decrease_b`). Here a thread
may also be in `handle_close()` without it, when a write notification failed to release its reference:
`CloserInv` says that such a thread relies on the reference that is thereby kept (`leaked`), and that without
such a failure the reactor lets only one thread in, be it a dispatcher or the opener whose `open()` has failed. `NoteInv`
has the announcements. `LockInv` and `QueueInv` give the order on the wire: what has
been written precedes `writeBuffer_`, which precedes the queue.

*AsynchConnector.* `SocketsOwned` is inductive once `HandlesInv` says that callers and dispatchers in the middle of an
attempt know the handle they work on, and that a connection has closed its handle when `handle_close()` is done. That no
socket is leaked holds always; that it is not taken away, until `stolen`.

*AsynchListener.* `PoolKept` counts the operations on the present listening socket, in the kernel, in the queue
of completions and in the hands of dispatchers. `MadeInv` (nothing refers to a socket that a later `start()` makes) lets the
count begin at zero; `DispatchInv` says that a dispatcher with a completion of the present socket has read
a valid handle, so that it issues the next operation; `PoolInv` has the loop of `start()`.

*Session.* `MembersInv` (the ids in the set are those of connections that are in the session, and include all that are not
`Shared`) is inductive with `HandlesInv`
(no two open sockets have the same number, and until its stream has ended a connection has its socket or has lost it
`early`). Neither depends on the order in which the reactor or the proactor closes; `CurrentInv` has the connection whose number
`abort()` is about to close.
`WakeupsAreNotLost` has no property of a run: it is the safety half of `WaitReturns` and `CloseReturns`.

*BitTorrentSession.* `AssertionsHold` follows from `MembersInv`, which fixes both sets of connections by the control
states. That `requesting_piece` stays natural is the hardest: a reply is counted down in a later
lock scope than its request is counted up, and on the way the request may be dropped. `Counted(p)`, the
equation, does not exclude a reply that is counted before its request; the third part of `CountedAt(p)` does: the connections
that have not counted yet and have nothing under way (`Lapsed`) are at most as many as the requests that have
been dropped. Lemmas count queues (`PlacesGrow`, `PlacesClear`, `PlacesMany`) and threads at a
control state (`AtJoin`, `AtLeave`). A request that could not be sent is one that was dropped. `AnnounceInv` extends `AnnouncedToAll` to the bitfield that `connect()` has read
and not yet sent; `ChunksInv` and `CompleteInv` say that a piece is saved once, hence the last one by
one connection.

*Only model-checked*: the liveness properties (`AbortCompletes`, `WaitCompletes`, `IdleReturns`, `OnlyStreamWaitBlocks`,
`CloseReturns`, `WaitReturns`, `Downloaded`, `PeersServed`, `Written`, `OnlyErrorsKeep` and the `ClosedIsReclaimed` ones), which are about
fairness and out of the proof system's reach. The four findings are counterexamples, which TLC
finds.

## 6. Findings

Each is a run that violates what a comment, an assertion or a document of the repository says.

1. `failed_open_leaks`: the `close()` after a failed `open()` does not release the last
   reference, because `handle_close()` requires `count () > 1`.
2. `connector_missed_wakeup`: `wait()` begins to sleep without a look at the result; an attempt that
   has ended before is waited for until the timeout.
3. `session_release`: `connect(address)` has opened a connection and stored its configuration, but its stream has not called
   `connect(id)` yet; `close(true)` finds no id, so it aborts and waits for nothing, and deletes the configuration that the
   stream uses.
4. `bittorrent_handshake`: a connection is in `state_.connections` before its handshake has been sent, and
   `have()` of another connection's thread sends HAVE on all of them: HAVE may be the first message.

*Further observations.* The modules state, below their properties, what one would expect and
the code does not do. TLC refutes each when a configuration names it.

- `ConnectionManager`: `FinalReferenceIsClosed` (a write-only connection whose `open()` fails can be
  reclaimed by an aborting thread before its connector calls `close()` on it), `WriteOnlyIsReclaimed`
  (one that is aborted between its insertion into the list and the assignment of `isRegistered_`
  stays in the list for ever).
- `AsynchConnection`: `OpenAssertion` (with several proactor threads `open()` can violate its own
  assertion), `ReleasedByOwners` (an `abort()` between the assignment of the status and its test lets
  both `open()` and the read completion release the read's reference; every completion of a write that is
  continued releases a reference, only one was taken). `UseAfterFreeConfined`, `SessionPaired` and `IdleReturns`
  name what follows from these: a use after free, CONNECT after DISCONNECT or a second DISCONNECT, and a
  `waitForIdleState()` that never returns because the rest of a partial write was not started.
- `StreamConnection`: `NotificationsReleased` (error returns of `handle_output()` keep the reference of
  the notification), `OutputIsAlive` (the guard on `sendLock_` is destroyed after the last release), `ConnectInSession` (`open()` may announce
  the connection to a stream that has been stopped), `DisconnectOnce` (two threads in `handle_close()`). After a partial
  write `handle_output()` is repeated and releases a reference it does not own (`taken`). The wait in `close_idle` has no limit: with
  a single reactor thread, a user that sends between the flush and the wait is enough for it never to end, as nobody is left to write.
- `AsynchConnector`: `ClosedInVain` (the second close of a descriptor hits the socket of somebody else). The wait for the stream
  never ends if the connection is closed and its stream stopped between the test of the status and the wait; `OnlyStreamWaitBlocks`
  names this as the only case.
- `AsynchListener`: `FailedOpenIsSilent` (`handle_accept()` calls the subscribers' `connect()` also when the
  handler's `open()` has failed), `BeginsBeforeItEnds` (with two dispatchers a connection's `disconnect()` can come
  before its `connect()`), `PoolBounded` (a completion that is handled across `stop()` and `start()` adds an
  operation to the new socket).
- `Session`: `AssertionsHold` (`abort()` closes the descriptor while the stream still runs: the next connection gets the same id
  before the first one has called `disconnect(id)`, which then removes the id of both), `CloseCompletes` (a new connection, an id in use again or a write-only connection can keep
  `close()` from returning), `KeptUntilClose`.
- `BitTorrentSession`: `PopulatedOnce` (when two initial connections lead to one address). Without `Steady`, a
  request that was dropped, or could not be sent and was counted, leaves `requesting_piece` too high, and a later HAVE requests nothing; an
  INTERESTED that could not be sent is not repeated, because `am_interested` is set first; and
  a BITFIELD that was read before a piece completes may be sent after its HAVE.

## 7. What is not modelled

- Contents of messages and the processing stream (libACEStream). A stream may refuse data or be shut
  down at any time, which is how the models see it.
- In the models of connections, descriptor numbers: `abort()` and `handle_close()` close the same
  number, tolerating `EBADF`. `AsynchConnector` and `Session` have them, and show what happens when the number has been handed out
  again in between; what a reactor does with a handler whose descriptor number belongs to another one by then is ACE's.
- In `ConnectionManager`: the destructor and statistics; writes and session messages of
  reactor connections are in `StreamConnection`. A connector's use of the handler after `open()`.
- In `AsynchConnection`: data that arrives together with an accepted connection, delayed reading,
  datagrams, the SSL handshake. Completions of a reclaimed handler are dropped by
  ACE's handler proxy (external).
- UDP, netlink and SSL connections; the reactor's listener and the SSL ones. They repeat what is modelled, with
  other sockets.
- In `BitTorrentSession`: uploading, the connection to the tracker, the controller, errors of files.
- The WLAN monitor: most of what it does depends on the kernel's nl80211 events and on the
  state machine thread of libCommon, both external.
- FTP control and the other application protocols: mostly generated scanners and parsers.
- GUIs, system call wrappers, vendored code.

Of the more than half a million lines of the implementation, the generated scanners and
parsers, GUIs and wrappers are by far the most; what is modelled here are the few thousand that
coordinate threads and the lives of objects.

## 8. Plan

What is left, in this order:

1. Action properties that follow from the invariants proved: that a listener's socket, a session's id or a
   saved piece is never taken back by somebody else.
2. The safety half of the liveness properties of `AsynchConnection` and `StreamConnection`, in the way of
   `WakeupsAreNotLost`: whoever sleeps in `waitForIdleState()` sleeps while a write is under way.
3. Modules: the FTP control connection, the reactor's listener, the WLAN monitor.
