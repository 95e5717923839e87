# A TLA+ model of mlnsdk

mlnsdk is a C++ server library on Boost.Asio: TCP and websocket sessions that
exchange JSON packets, the services that accept or open them, a user table, a
lock-free list, timers and an HTTP server.  This directory models it in TLA+,
checks the models with TLC on small instances and proves the central
properties with TLAPS.  Paths below are relative to the repository.

## The system

| Part | State | Operations | What is hard about it |
|---|---|---|---|
| `Session` (`include/net/session.hpp`) | status, socket, read in progress, writes, close timer, dispatch and retry counters | startAccept/startConnect, handleRead, dispatch, handleWrite, tryCloseByFailed, closeReserve, onCloseReserveTime, onClose, send* | started on the service's strand while its handlers already run on its own; three ways to start a close; handlers that outlive the session |
| `ByteStream` (`include/net/byteStream.hpp`) | vector, read and write position | write, read, advancePos*, setHeaderSize, clear | growth and reuse of the space before the read position |
| Receive path (`packetJson/packetParser.hpp`, `packetJson/handler.hpp`, `packetProcedure.hpp`) | receive stream | parse loop, handlers, noHandler | packets cut into reads at any byte; early exits of the loop; websocket messages |
| Acceptor, connector, `NetService`, `NetCommonObjects` | accept and connect chains, worker threads, update timer | acceptWait, handleAccept, handleWebsocketLayer, connectAsync, handleConnectAsync, runService | a failed step ends its chain |
| `UserManagerBase`, `UserSessionPair`, `UserBase` | session table under a shared mutex; a list of user/session pairs | addUserBase, deleteUserBase, closedUser, functionTarget, functionForeach | callbacks under the lock; sessions that are never erased; users deleted while their session closes |
| `LockFreeLinkedList`, `Reclaimer` | sorted list, hazard pointers, retired nodes | Emplace, Delete, Find; MarkHazard, ReclaimLater, ReclaimNoHazardPointer, ~Reclaimer | every interleaving of atomic operations; memory reuse |
| `RentalItemPool` | free items | getItem, releaseItem | an item reused twice |
| `SimpleScheduler`, `SimpleSchedulerES` | jobs, timer | TimerStart, TimerStop, AddJobInterval, UpdateHandler | restart racing a queued handler; table size |
| `HttpServer`, `HttpServerCoro` | registered urls, connections, accept and worker threads | registerURL, start*, accept loops, session loops, response senders | lifetime of an asynchronous response; handlers that send twice, never, or throw; a table without a lock; threads that are not joined |
| MySQL clients, logger, exception handler, gzip, object pool, JSON adapters | none of its own | calls of external libraries | outside the models |

A service owns a strand.  Its accept or connect handler creates a `Session`,
which owns another strand, starts its first read and marks it OPEN.  From then
on every handler of the session (reads, writes, timer, dispatch, close) runs on
the session's strand, on any worker thread, one at a time.  A read that
succeeds is copied to the receive stream and a dispatch is posted; the dispatch
parses packets out of the stream and calls the application's handlers, which
may send or reserve a close.

All services share one `io_context` and its worker threads
(`NetService::runService`).  The application's receiver adds an accepted session
to the user manager, whose table any thread may read.  The HTTP servers have
listeners and sessions of their own, on an `io_context` they are given.

## Modules

### Session

One session with both parties that drive it.  The strand is the sequence
`strand` of queued handlers; a handler is one action, taken from the head, so
`handleReadData`, `handleReadRetry` and `handleReadFail` are the three branches
of `handleRead`, and the five actions `dispatch...` the outcomes of
`PacketProcedure::dispatch`: dropped because the session is not OPEN; every
packet handled; some refused with `closeReserve(0)`; stopped without a close, at
a size that parse does not accept or, on the client side, whose `noHandler` is
empty, at an unknown code; or never ending, at a packet of size 0.  The start
sequence runs elsewhere and is split where it can be overtaken: `StartRead` (the
read is issued), `StartOpen` (OPEN is set), `OnConnect` (the client's user is
attached).  Asynchronous operations complete at any time (`ReadComplete`,
`WriteComplete`, `TimerExpired`); a cancelled wait reaches the strand later
(`aborting`, `TimerAborted`).  `Alive` lists the strong references of the code;
`Destruct` is what `~Session` does to the timer.  `onClose` closes a TCP socket
at once.  A websocket it closes only while `isOpen`, by a call that waits for
the peer's close frame (`busy = "close"`); the call returns (`WebsocketClosed`)
when the peer answers or the connection breaks, which a silent peer need not let
happen.  `seen` and `dropped` are history variables that the properties use to
name the exceptional races.

Abstractions: packet contents are counted (`unparsed`), socket errors are one
of eof, error and aborted, `_socketStatus` is read and written atomically, and
the keep-alive timer is absent because `Session::create` does not pass its time
on and `renewExpireTime` returns at once.

### ByteStream and ByteQueue

`ByteStream` follows the class operation by operation, with the vector's size
and both positions.  `overrun` becomes true when a copy goes past the end of
the vector; nothing is defined after that, so no step follows.  `ByteQueue` is
the promise: put at the end, take from the front, stamp a header, empty.
`FIFO` says that every step that stays inside the vector is a step of the queue
under the mapping `queue <- data`.

### RecvPath

The receive stream of one session (an instance of `ByteStream`) between the
reads that fill it and the parser that empties it.  The peer sends one of
`Streams`: packets that are handled, malformed or of an unknown code, with any
integer as their size; reads cut the bytes anywhere.  Each turn of the loop of
`PacketJsonParser::parse` is one action.  A packet that is malformed, too short
or unknown reserves a close, whose handler (`onCloseReserveTime`) ends the
dispatching at some later moment.  A size that is negative or too large stops
the loop, a size of 0 keeps it going for ever (`phase = "loop"`), and one
between 0 and the header's leaves parse in the middle of a packet, where it can
find anything (`headers`).  That reading and parsing alternate is
`SingleDispatch` of `Session`.

### LockFreeList

`LockFreeLinkedList` with its `Reclaimer`, one action per load, store or
exchange of shared memory.  `pc[t]` says where in `Emplace`, `Delete`, `Find`
or the search thread `t` is; the other variables are the fields and locals of
the code under their names.  Node addresses are a finite set and are reused
after a free, so a pointer can come back with other contents.  `hp` holds the
hazard slots in the order they were added, `hpList[t]` the ones of a thread,
`prevHp` and `curHp` the indices the two `HazardPointer`s hold; `UnMark`
empties a slot and keeps the index, as the code does.  `Touches(t)` is the set
of nodes the next step of `t` reads or writes: a use after free is a state in
which one of them is not allocated, and no step follows it.

Threads start new, or used: with both slots and a number of nodes retired by
earlier calls (`earlier`), so that the threshold of four nodes per slot is
reached without modelling those calls.  `net` and `was` are history variables.
Memory is sequentially consistent (the code uses acquire and release orders,
which allow more), a weak exchange does not fail without a reason, and the list
of slots and its counter grow in one step.

A reference is a pointer with a mark.  `get_marked_reference` and
`get_unmarked_reference` pass the pointer through `unsigned long`, which holds it
with gcc on linux and cuts it with msvc for x64, both of which the repository's
README names.  The constant `ULong` says what is left of an address; the runs
are for builds in which that is the address (`MCULong`).  Where addresses are
cut, `NoLostUpdate` and `HazardsProtect` do not hold: a deletion makes its
successors unreachable until it has unlinked its node, and a search that unlinks
goes on at an address that is no node (`Elsewhere`).

### SendPath

The sending side of the same session: `send`, `sendFixedBuffer` and `sendRaw`
start a write at once, `write_some` is the share of a packet the socket takes at
a time, `wire` what the peer receives.  On TCP any number of writes may run at a
time; a websocket stream holds one more back, unless assertions are compiled
in, and the model stops at a third, or at the second with assertions
(`tooMany`).  What a failed write leads to is in `Session`.  The three ways to
send differ in who owns the buffer: `send` and `sendRaw` bind it to the handler,
`sendFixedBuffer` relies on its caller, and nothing in the repository calls it.

### NetCommonObjects, Acceptor, Connector

`NetCommonObjects` is what both kinds of service share: the service strand as a
sequence of queued handlers, and the update timer, whose arming is the two calls
`expires_from_now` and `async_wait`.  `handleUpdate` makes them in two steps
(`handleUpdate`, `handleUpdateWait`), between which the timer can be armed by
somebody else but no other handler of the strand runs (`rearming`).

`Acceptor` has `acceptWait` in its three stages, the accepts and handshakes in
progress (`ops`), and one action per handler and outcome (`handleAccept`,
`handleAcceptFailed`, `handleAcceptThrows`, the same for
`handleWebsocketLayer`).  Clients connect, leave and fail their handshakes at
any time.  `Connector` has the application's calls (`connectWait`, `connect`,
`setTargetServer`), the resolver that is kept between them, and the chain of
connects on the strand.  The application's thread and the strand both arm the
update timer, and the two calls of each interleave.  A session appears by its
`onAccept` or `onConnect` only; `Session` has the rest.

### NetService

`NetService` extends `Acceptor` with the threads that run it.  Completions and
handlers are steps only while some thread is inside `io_context::run`; the
thread that ends the last work stops the `io_context`, after which `run` returns
everywhere.  The main thread does what `main.cpp` does.  It may first have
started an `HttpServer` on the same `io_context` (`http`): the threads of that
server (`AcceptAsync`) enter `run` at any time, also before the acceptor is
armed, and give it work for good.  Then come `createTcpAcceptor`,
`addWorkerThreads`, `runService` with a callback on a thread of its own, `run`,
`join`.  `setWork` gives one handler of work and no more, because its timer is
destroyed when it returns.

### UserManager

The table of sessions under its `shared_mutex`, at the granularity of taking and
releasing the lock.  `Begin` are calls, `Step` what a thread does inside one,
`SessionStrand` what happens on a session's own strand: `closedUser`, called by
`onClose`.  `callback` may delete the user it is called for.  The mutex lets in
whoever it likes: readers do not wait for a writer that waits.  `deleted` is a
history variable.  The pairs of user and session key are a list of their own
(`LockFreeList`); nothing in the repository inserts a pair or sets the user id
that `closedUser` deletes by, so the table has nothing to agree with there.

### RentalPool, SimpleScheduler

`RentalPool` has one action per operation of the pool and of a handle; its mutex
makes them atomic.  `SimpleScheduler` has both classes of the header in one
module (`kind`): the application's thread starts, stops, adds jobs and lets go
of the scheduler while `UpdateHandler` runs in steps on a worker thread, and
`AddJobInterval` counts an entry in one step and fills it in another.  A null
entry, a write or read behind the array and a use after the destructor are
outcomes (`misuse`) after which there is no step.  Jobs count ticks down; what
they do is the application's.

### HttpRequest, HttpSession, HttpListener

`HttpRequest` is the decision `handle_request` makes for a request, which
differs between the two servers.  `HttpSession` is one connection of one of
three kinds: a thread (`HttpServer::do_session`), an asynchronous session
(`HttpServer::session`) or a coroutine (`HttpServerCoro::do_session`).  A
handler sends any number of responses up to a bound, returns or throws; `res_`
is the owner of an asynchronous response, `writes` the messages being written.
Two writes at a time, or an exception that nothing catches, end the behaviour
(`fault`).  `HttpListener` is the accepting side of the three: registration,
the detached accept thread, accepts that fail, the threads of the `io_context`
and the table of handlers, which the synchronous server copies for each
connection and the others share.  The table has no lock: registration after
the start may run while it is read (`race`), and what is read then is any table.

## Runs

| Run | Shows | Bounds |
|---|---|---|
| `session_safety` | close once, one read, one dispatch, no idle or leaked session, no stranded or lost packet, early close only by replacement | 2 retries, 2 outstanding dispatches, 2 packets, 1 write beyond the client's first, 2 reserved closes |
| `session_live` | a failed read closes, a reserved close happens, the read chain ends | 1 retry, 1 dispatch, 1 packet, 1 write, 2 reserved closes |
| `session_lost_user` | violation: a packet can be dispatched before onConnect attaches the user | 1 of each |
| `recv_path` | packets whole, once, in order; nothing held back; all taken up or the session closed | 1 or 2 packets of sizes -1, 0, 1, 2, 3 or 5, or 3 of 2, 3 or 5; header 2, largest size 4, reads up to 3, stream of 6 |
| `recv_overrun` | violation: the receive stream is written past its end | stream and reads of 3, as the code gives both the same size |
| `recv_websocket` | violation: a second websocket message is refused | 2 messages |
| `list_safety` | no lost update, results that were true at some moment of the call, hazard pointers protect what a thread uses (outside the search that ends a Delete), exact size and a clean list at rest, no leak after the exits | 2 threads that exit, one after 1 call on the second key, one after up to 3 updates; 3 nodes, 2 keys; 10 nodes retired earlier |
| `list_live` | calls return, exits end | 2 new threads, 1 call each; 2 nodes, 2 keys |
| `list_freed` | violation: the search that ends a Delete reads a freed node | 1 and 2 calls, updates only, none retired earlier |
| `net_service` | one chain of accepts per port, clients accepted in order, the io_context stops only when everything has ended, the callback of runService is called and served | 1 worker thread beside the main thread and the HTTP server's; 2 clients without updates, 1 client with |
| `users` | table, users and callbacks agree; once no new calls come all return, unless a callback under the lock deletes | 2 threads that call everything, 1 that sends to all; 2 sessions |
| `standalone` | the parts that do not call each other, one per behaviour (`MCStandalone`) | see below |

`standalone` lets `part` choose one of seven modules whose behaviour is explored
while the others stay where they began:

| Part | Shows | Bounds |
|---|---|---|
| `ByteStream` | queue behaviour (`FIFO`, a refinement of `ByteQueue`), when an overrun can happen | vector of 3, chunks up to 2, up to 4 bytes held, 2 byte values |
| `HttpSession` | lifetime of responses, their order, exceptions answered, silent clients leave | 2 requests of 6 kinds, 2 responses of a handler to each and one of the catch block, all three servers |
| `HttpListener` | one accept goes on, whatever fails | 2 clients, the empty url and another, 1 handler, 3 threads |
| `Connector` | the sessions of a call add up; every call is settled; updates go on | 2 calls, up to 2 sessions, 2 targets, with updates |
| `SimpleScheduler` | ticks go on however stops and starts race the handler | an array of 1, intervals of 2 ticks, 2 handlers queued at a start or stop, all three kinds |
| `SendPath` | which packets can be mixed | 3 packets of 2 parts, both session types |
| `RentalPool` | fires every action; its properties are proved | 3 items |

Why the bounds are enough: two reserved closes are what a replaced wait needs,
two retries show both branches of the retry limit, one write is enough to fail
before, during and after every other event, and two packets per read let one be
refused with another behind it.  In `recv_path` sizes below zero and above the
largest accepted, of 0 and below the header's, a header cut in two, a packet
longer than one read and several packets in one read all occur; the stream of 6
leaves room beyond one read (the size is a build option,
`MLNNET_BYTE_STREAM_BUFFER_SIZE`) so that behaviours go on past the overrun that
`recv_overrun` isolates.  A byte stream of 3 grows, is read in part and
overruns.  In `list_safety` ten earlier nodes put the first node a thread
retires below the threshold and the second on it, so nodes are freed by a scan
and by an exit, and with three calls a freed node is inserted again while the
other thread is still in its call; addresses are symmetric.

Two clients let one fail or leave while the other waits behind it on the same
port or is served on the other one, and the worker, the main thread and those of
the HTTP server let one find no work while another is still to start.  Two calls
of the connector let the second find the timer, the resolver and the target of
the first.  Three threads let two readers overlap while a writer waits.  An
array of one entry is filled, read while it is being filled, and exceeded.  Two
pipelined requests let a response that is missing, doubled or closing meet a
later one.  Three packets let one overlap, one wait and one be refused by a
websocket stream.

Deadlock is not checked: a closed session, a peer that has sent everything, an
overrun stream, threads that have exited, a terminated process, a stopped
`io_context` and an empty pool of fresh items really stop.

Fairness: worker threads run queued handlers and the service's handler
(`io_context::run` in `NetService::addWorkerThreads` and `run`), an operation on
a closed socket completes, and timers expire.  Nothing is assumed of the peer,
which need not answer a websocket's close frame, of reads on an open socket, of
writes or of the application.  `RecvPath` assumes in addition that the bytes
sent arrive.  `LockFreeList` assumes that a thread inside a call, or exiting, is
scheduled; which calls are made is left open, and their number is bounded, as a
search may start over once for every change of the list.  `NetService` assumes
that its threads are scheduled, that the handler of setWork's timer is run and
that the connect of the callback ends; nothing is assumed of clients.
`Connector` assumes that a connect ends one way or the other, if only by the
kernel's timeout, and that the application's thread finishes the call it is in.
`UserManager` assumes that threads are scheduled and nothing of the order in
which the mutex lets them in: a writer may wait for ever behind readers that
overlap, so `EveryCallReturns` there speaks of behaviours in which no new calls
are made from some time on.  `HttpSession` assumes that handlers return and that
`tcp_stream` closes a socket whose expiry has passed, and nothing of the client,
which need not read what is written to it.  The other modules state no fairness.

The four violations are recorded as findings, each against a line of the
repository that says otherwise.

Some behaviours of the code are part of the models without a property that
forbids them, and a reader should know them:

- a failed accept or websocket handshake ends the accepts of its port
  (`AcceptChainEnds`), and `saveEndPoint` of a peer that has left ends the
  process (`handleAcceptThrows`);
- `createTcpAcceptor` returns the service also after a failure, when its TCP
  port may already accept;
- the callback of `runService` can be called when the `io_context` has stopped
  since `waitServiceStart` looked at it;
- a connector whose first `resolve` threw asserts in the next call, and a target
  set after the first call is ignored (`EndPointFails`, `EndPointSet`);
- a packet of size 0 keeps parse, and the session's strand, in its loop for ever
  (`dispatchLoops`), a size that parse does not accept holds up all that follows
  it in an OPEN session (`dispatchStopped`), and on the client side so does an
  unknown code until the next read;
- the close of a websocket waits for the peer in a worker thread, and a websocket
  that failed before is not closed (`CloseSocket`);
- urls registered after the start race the connections that read the table
  (`race`);
- a closed session stays in the table of users (`closedUser`), and a callback
  that deletes a user under the shared lock blocks all threads (`EveryCallReturns`
  excepts it);
- the size of the list is below zero while a deletion is counted before the
  insertion it undoes;
- an item of the rental pool is not returned after its second rental;
- a job more than `MAX_SCHEDULES` is written behind the array (`AddJobFill`);
- a second response for a request frees the message being written
  (`AliveUnlessSentTwice` excepts it), and `AcceptAsync` ends the process when
  its `io_context` stops, because it does not join its threads
  (`AcceptAsyncReturns`).

## Theorems

Eight modules hold proofs, each for every value of the constants.

`SessionProofs` proves every invariant of `session_safety` (`CloseOnce`,
`SingleRead`, `SingleDispatch`, `NoIdleSession`, `DestroyedAfterClose`,
`NoStrandedPacket`, `PeerCloseLosesNothing`, `AbortedWaitClosesOnlyIfReplaced`),
`TypeOK` and `StatusForward`.  The only assumption is that the bounds are natural
numbers.  The inductive invariant is

    IInv == TypeOK /\ CloseOnce /\ SingleRead /\ NoIdleSession /\ Progress

`CloseOnce` is not inductive alone: that `onClose` is not called twice needs
to know that a PENDING_CLOSE session has its onClose queued (`NoIdleSession`),
and that an OPEN session is still reading needs `SingleRead` and `Progress`,
which ties the start sequence to the first read.  Lemmas `AppendHas`, `TailHas`,
`AppendAtMostOne` and `TailAtMostOne` say what queueing and taking a handler do
to the strand; `StrandInv` goes through the handlers one by one.
`SingleDispatch` is then proved on top of `IInv` with the order lemmas.
The three properties about what happens to packets and waits follow from

    HInv == IInv /\ SingleDispatch /\ StartInv /\ CloseInv
            /\ PeerCloseLosesNothing /\ NoStrandedPacket

They speak of an OPEN session and of history, so `StartInv` says what the start
sequence lets happen before OPEN (nothing closes the session, a packet is behind
its dispatch or was dropped, a read that fails ends the read chain), and
`CloseInv` what explains a close afterwards: a failed write, a reserved wait, or
a read chain that is over.

`PartsProofs` has three parts.  The first proves of `ByteStream`, for every
buffer size, chunk size and set of bytes, that the positions stay in bounds
until an overrun (`InBoundsHolds`), that only a partly read stream can be
overrun (`OverrunNeedsPartialRead`), and that the stream implements `ByteQueue`
(`ByteStreamIsQueue`: `Init` maps to `Q!Init` and each step maps to a step of
the queue, a stutter or an overrun).  `AddedBehind` and `DroppedFirst` relate
the two positions to the sequence of bytes held.  For `SendPath` it proves
`TornOnlyIfOverlapped` for any packets and parts.  The invariant says who may be
writing at a time (`OneWriter`), that what an undisturbed writer has written is
the end of the wire (`AtTheEnd`), and that packets not begun are not on it
(`NotYet`).  For `RentalPool` it proves `OneOwner` and `LostOnlyAfterReuse` for
every set of items, without assumptions.  The invariant adds that items not made
yet are neither rented nor in the pool, so that a new item cannot have an owner
(`PoolPlaces`), that a handle without a release function holds an item taken
from the pool (`NoRelease`), and that every item is somewhere or was dropped for
one of the two reasons (`Accounted`).

`RecvProofs` proves `InOrder` and `NothingHeldBack` of `RecvPath` for any
packets and sizes in their headers, any sizes of the buffers and any way the
bytes are cut into reads.  The invariant says what the stream of a TCP session
that has not overrun holds (`Held`), as long as the sizes taken up were not
below the header's: the bytes that have arrived, from the end of the last packet
handed on.  The byte at its front is then the first of the next packet, so that
what parse reads there is that packet's header and the bytes it cuts out are the
packet (`HeaderFacts`, `TakeFacts`); a read adds its bytes where the others end
(`WriteFacts`, `ReadKeeps`).  Where a packet begins is the recursive function
`sizeOf`.  That it is defined, grows, and gives every byte one packet
(`SumsExist`, `SizeOfGrows`, `WireFacts`) is shown by least counterexamples,
which take the place of induction.

`UserManagerProofs` proves `TypeOK`, `TableAgrees`, `VisitedRegistered` and
`CrashOnlyAfterDelete` for any number of threads and sessions; the only
assumption is that `Nobody` is none of them.  The inductive invariant is

    IInv == TypeOK /\ LockInv /\ AddInv /\ DeleteInv /\ KnownInv
            /\ TableAgrees /\ VisitedRegistered /\ CrashOnlyAfterDelete

`LockInv` says who holds the lock at which step: an erase under the exclusive
lock then cannot take a session from under a callback, which shares it.
`AddInv` and `DeleteInv` keep the session being added apart from those being
deleted, by `KnownInv`: only a session that has been started can be found or be
deleted.  There is one lemma per action, with a step for each
conjunct the action can disturb.

`TimerProofs` has two parts.  The first proves `ConnectsAddUp` and `UpdatesGoOn`
of `Connector` for any number of calls, sessions and targets (the bounds are
natural numbers).  The invariant follows the one connect of a call through the
kernel and the strand: a call has at most one (`OneConnect`), it knows what is
still to be made (`Pending`), and a call without one has made all or has ended
(`Over`).  `UpdatesGoOn` has a proof of its own, on types and on where the
timer's handlers are: whichever of the four calls of the application and of
`handleUpdate` cancels a wait, one that arms it follows.
For `SimpleScheduler` it proves `TicksGoOn`, `NullOnlyDuringAdd` and
`UsedOnlyIfBusy` for any size of the array, positive intervals and any number of
starts and stops.  The invariant adds that a scheduler let go of with nothing
due stays quiet (`Quiet`) and that what is counted is filled, except the entry
being added (`Filled`).

`NetServiceProofs` proves `OneChainPerPort`, `AcceptedInOrder` and
`StoppedMeansServed` of `NetService`, for any clients, any number of worker
threads and updates.  `Chain` says that a port that listens has one operation or
one handler, never both, and one that does not, or whose chain has ended, has
neither; it needs the types, that only websocket sessions go through
`handleWebsocketLayer`, and which ports `acceptWait` has still to arm
(`Unarmed`).  `Order` follows the clients of a port: those who arrived are those
handed to `onAccept`, then the one in the chain if an accept has taken one, then
the backlog (`Split`).  The operation in progress and the handler queued for it
say which of the two it is, so that the order is lost neither when a handshake
takes its time nor when the other port's handlers are queued between them.
`SInv` says that no thread runs the `io_context` before the acceptor is armed,
but those of an HTTP server, which keep it from stopping, and that a stopped one
has no work; that both ports are then closed for good is `Chain` without
operations and handlers.

`HttpProofs` has two parts.  The first proves `AliveUnlessSentTwice`,
`AnswersMatch` and `ExceptionsAnswered` of `HttpSession` for any requests, urls
and bounds.  The invariant says who owns the message of a write (`Owned` for an
asynchronous session, where `res_` holds the only message until a handler sends
twice; `Single` for a thread or a coroutine, which goes on after its write), that
every request but the one being handled has been answered (`Counted`, for as long
as handlers send once), and where the server error of a request whose handler
threw is: written, lost with the connection, or being written (`Caught`).
The second proves `OneAcceptGoesOn`, `SessionsAgree` and
`ReturnedMeansQuiet` of `HttpListener` for any clients, urls and handlers and at
least one thread (`None` is no client).  The invariant says that nothing is
accepted before the start (`Started`), that an open port has one accept
or its handler until the server stops (`Accepting`), that a url being inserted
is new (`New`), who has copies of the table (`Copies`) and how many threads there
are (`ThreadsCounted`).

`StandaloneProofs` brings the results about `HttpSession`, `HttpListener`,
`Connector`, `SimpleScheduler` and `SendPath` to the specification that the run
`standalone` checks, where they are together: a behaviour of the parts begins
like one of each part, and each of its steps is a step of the part or leaves it
alone.  The proof modules are instances there, and the steps that say that an
instance has the definitions of `MCStandalone`'s expand both.  The assumptions are
those `MCStandalone` states about its constants.

Only model-checked: the liveness properties (`ReadFailureCloses`,
`ReservedCloseHappens`, `ReadChainEnds`, `AllHanded`, `EveryCallReturns`,
`EveryExitEnds`, `CallbackServed`, `SilentOnesLeave`, `EveryCallSettled`), which
depend on fairness; and the safety properties of `LockFreeList`, for which no
proof has been written.

## Not modelled

The logger, exception handler, gzip, string helpers, JSON adapters and the
object pool only pass calls to external libraries and keep no state of a
protocol.  The MySQL clients are such wrappers too, are included by nothing, and
one of them does not compile (its namespace `mysql-legacy` is not an
identifier).  `Scheduler` (`time/scheduler.h`) does not compile either, for a
stray brace, and is used by nothing.  `PacketProcedure` has cipher tables that
nothing reads.  The table of `EventReceiver` is filled by constructors before
anything runs; its calls are part of the handlers that make them.

Of what is modelled, left out are: what a program does after undefined
behaviour (memory read after a session or scheduler has been destroyed, a stream
or array written past its end, two overlapping HTTP writes, a timer changed by
two threads at a time); several services with different indices, which repeat
one; a handler of the HTTP server that keeps its `SendFunc` and sends after it
has returned; the lifetime of a rental pool that is destroyed before its
handles; and memory orders weaker than sequential consistency.
