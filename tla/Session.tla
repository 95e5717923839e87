------------------------------- MODULE Session -------------------------------
(***************************************************************************)
(* One connection of the library (include/net/session.hpp) with the two    *)
(* parties that drive it: the service strand of the acceptor or connector  *)
(* that starts it, and the io_context's worker threads that run its own    *)
(* strand.  A strand is a FIFO of handlers of which one runs at a time, so *)
(* a handler is one action; the start sequence runs on another strand and  *)
(* interleaves with the handlers, so it is split at the point where the    *)
(* first read is already in progress and the status is not yet OPEN.       *)
(*                                                                         *)
(* Asynchronous operations (read, writes, the closeReserve wait) complete  *)
(* at any moment and then queue their handler.  A read completes any       *)
(* number of packets, none included; framing is the subject of RecvPath.   *)
(***************************************************************************)
EXTENDS Integers, Sequences, FiniteSets

CONSTANTS
  HANDLE_READ_RETRY_MAX,  \* Session::HANDLE_READ_RETRY_MAX
  MaxPending,             \* bound: reads posted for dispatch and not yet counted down
  MaxPackets,             \* bound: packets in the receive stream
  MaxWrites,              \* bound: writes in progress or completed and not yet handled
  MaxReserves             \* bound: closeReserve waits armed, cancelled or completed

ASSUME BoundsAssumption ==
  /\ HANDLE_READ_RETRY_MAX \in Nat
  /\ MaxPending \in Nat
  /\ MaxPackets \in Nat
  /\ MaxWrites \in Nat
  /\ MaxReserves \in Nat

VARIABLES
  role,         \* "acceptor" (server side) or "connector" (client side)
  sessionType,  \* SessionType
  starter,      \* progress of the service handler that starts the session
  status,       \* _socketStatus
  socketOpen,   \* the connection has not been closed by onClose
  isOpen,       \* socket().is_open(), or websocket().is_open()
  busy,         \* what the handler at the head does not return from: "no" (nothing),
                \* "parse" (its loop) or "close" (the websocket's closing handshake)
  shut,         \* directions shut down by tryCloseByFailed
  readOp,       \* an asynchronous read is in progress
  writes,       \* asynchronous writes in progress
  timer,        \* a wait on _closeReserveTimer is armed
  aborting,     \* cancelled waits whose handler has not reached the strand
  strand,       \* handlers queued on _strand
  pending,      \* _readHandlerPending
  retry,        \* _postRetryCount
  unparsed,     \* whole packets in _recvStream that no dispatch has got past
  stoppedAt,    \* where the last parse stopped without reserving a close: at the "end"
                \* of the stream, at a "size" it does not accept, at an unknown "code"
  closes,       \* calls of EventReceiver::onClose
  dropped,      \* history: dispatches that found the session not OPEN
  seen          \* history: what has happened, for the properties

ops == <<readOp, writes, timer, aborting>>
recv == <<pending, retry, unparsed, stoppedAt, dropped>>
sock == <<socketOpen, isOpen, busy, shut>>
fixed == <<role, sessionType>>
vars == <<fixed, starter, status, sock, ops, strand, recv, closes, seen>>

Status == {"OPEN", "PENDING_CLOSE", "CLOSED"}
Functions == {"handleRead", "dispatch", "handleWrite", "onClose", "onCloseReserveTime"}
\* "eof" stands for eof and shut_down, "error" for every other failure.
Codes == {"success", "eof", "error", "aborted"}
Handler == [fn : Functions, ec : Codes]

Events == {"droppedBeforeOpen", "readFailedBeforeOpen", "writeFailed",
           "reserved", "reReserved", "lostUser"}

Call(fn, ec) == [fn |-> fn, ec |-> ec]

Has(queue, fn) == \E i \in 1..Len(queue) : queue[i].fn = fn
AtMostOne(queue, fn) ==
  \A i, j \in 1..Len(queue) : queue[i].fn = fn /\ queue[j].fn = fn => i = j
DispatchBeforeRead(queue) ==
  \A i, j \in 1..Len(queue) : queue[i].fn = "handleRead" /\ queue[j].fn = "dispatch" => j < i
InStrand(fn) == Has(strand, fn)
Queued(fn) == Cardinality({i \in 1..Len(strand) : strand[i].fn = fn})
Reserves == aborting + Queued("onCloseReserveTime") + (IF timer THEN 1 ELSE 0)

\* The user object is attached in onAccept, before the session starts, or in
\* onConnect, after it has started.
HasUser == role = "acceptor" \/ starter = "done"

\* Strong references: UserManagerBase::_users (server side, never erased), the
\* service handler that starts the session, and every operation or handler
\* bound with shared_from_this().  The timer's handler is bound to a raw this.
Alive ==
  \/ role = "acceptor" \/ starter # "done"
  \/ readOp \/ writes > 0
  \/ \E i \in 1..Len(strand) : strand[i].fn # "onCloseReserveTime"

Init ==
  /\ role \in {"acceptor", "connector"}
  /\ sessionType \in {"TCP", "WEBSOCKET"}
  /\ role = "connector" => sessionType = "TCP"
  /\ starter = "created"
  /\ status = "CLOSED"
  /\ socketOpen = TRUE /\ isOpen = TRUE /\ busy = "no" /\ shut = {}
  /\ readOp = FALSE /\ writes = 0 /\ timer = FALSE /\ aborting = 0
  /\ strand = <<>>
  /\ pending = 0 /\ retry = 0 /\ unparsed = 0 /\ stoppedAt = "end" /\ dropped = 0
  /\ closes = 0
  /\ seen = {}

-----------------------------------------------------------------------------
(* The service strand: startAccept after onAccept, or startConnect and then *)
(* onConnect.                                                               *)

StartRead ==
  /\ starter = "created"
  /\ starter' = "reading"
  /\ readOp' = TRUE
  /\ UNCHANGED <<fixed, status, sock, writes, timer, aborting, strand, recv, closes, seen>>

StartOpen ==
  /\ starter = "reading"
  /\ status' = "OPEN"
  /\ starter' = IF role = "acceptor" THEN "done" ELSE "opened"
  /\ UNCHANGED <<fixed, sock, ops, strand, recv, closes, seen>>

\* The sample client's onConnect attaches the user and sends its first packet.
OnConnect ==
  /\ starter = "opened"
  /\ starter' = "done"
  /\ writes' = writes + 1
  /\ UNCHANGED <<fixed, status, sock, readOp, timer, aborting, strand, recv, closes, seen>>

-----------------------------------------------------------------------------
(* Completion of asynchronous operations. *)

\* A websocket stream is not open any more once one of its operations failed.
StillOpen(ec) == isOpen' = (isOpen /\ (sessionType = "TCP" \/ ec = "success"))

ReadComplete(ec) ==
  /\ readOp
  /\ ec = "success" => isOpen /\ pending < MaxPending
  /\ ec = "eof" => socketOpen
  /\ readOp' = FALSE
  /\ strand' = Append(strand, Call("handleRead", ec))
  /\ StillOpen(ec)
  /\ UNCHANGED <<fixed, starter, status, socketOpen, busy, shut, writes, timer, aborting, recv,
                 closes, seen>>

WriteComplete(ec) ==
  /\ writes > 0
  /\ ec = "success" => isOpen /\ "send" \notin shut
  /\ writes' = writes - 1
  /\ strand' = Append(strand, Call("handleWrite", ec))
  /\ StillOpen(ec)
  /\ UNCHANGED <<fixed, starter, status, socketOpen, busy, shut, readOp, timer, aborting, recv,
                 closes, seen>>

TimerExpired ==
  /\ timer /\ Alive
  /\ timer' = FALSE
  /\ strand' = Append(strand, Call("onCloseReserveTime", "success"))
  /\ UNCHANGED <<fixed, starter, status, sock, readOp, writes, aborting, recv, closes, seen>>

\* A cancelled wait passes through the scheduler before its handler reaches
\* the strand, so it may arrive behind handlers posted after the cancel.
TimerAborted ==
  /\ aborting > 0
  /\ aborting' = aborting - 1
  /\ strand' = Append(strand, Call("onCloseReserveTime", "aborted"))
  /\ UNCHANGED <<fixed, starter, status, sock, readOp, writes, timer, recv, closes, seen>>

\* websocket().close() returns: the peer answered the close frame and closed its
\* side, or the connection broke.
WebsocketClosed ==
  /\ busy = "close"
  /\ busy' = "no"
  /\ socketOpen' = FALSE
  /\ UNCHANGED <<fixed, starter, status, isOpen, shut, ops, strand, recv, closes, seen>>

\* ~Session destroys the timer, which cancels a wait still armed.
Destruct ==
  /\ ~Alive /\ timer
  /\ timer' = FALSE
  /\ aborting' = aborting + 1
  /\ UNCHANGED <<fixed, starter, status, sock, readOp, writes, strand, recv, closes, seen>>

-----------------------------------------------------------------------------
(* Functions the handlers and the application call. *)

\* timer.cancel(ec)
CancelTimer ==
  /\ timer' = FALSE
  /\ aborting' = aborting + (IF timer THEN 1 ELSE 0)

\* n calls in a row: each one cancels the wait of the one before.
closeReserve(n, what) ==
  /\ timer' = TRUE
  /\ aborting' = aborting + (n - 1) + (IF timer THEN 1 ELSE 0)
  /\ seen' = seen \cup what \cup {"reserved"}
                  \cup (IF timer \/ n > 1 THEN {"reReserved"} ELSE {})

\* Mutant: the status changes but onClose is not posted.
tryCloseByFailed_NoPost(what, queue) ==
  /\ shut' = IF sessionType = "TCP" THEN shut \cup {what} ELSE shut
  /\ strand' = queue
  /\ \/ status = "OPEN" /\ status' = "PENDING_CLOSE" /\ CancelTimer
     \/ status # "OPEN" /\ UNCHANGED <<status, timer, aborting>>

\* Mutant: the wait is cancelled before the status is compared.
tryCloseByFailed_CancelFirst(what, queue) ==
  /\ shut' = IF sessionType = "TCP" THEN shut \cup {what} ELSE shut
  /\ CancelTimer
  /\ IF status = "OPEN"
     THEN status' = "PENDING_CLOSE" /\ strand' = Append(queue, Call("onClose", "success"))
     ELSE status' = status /\ strand' = queue

\* Mutant: the status is set without being compared.
tryCloseByFailed_Store(what, queue) ==
  /\ shut' = IF sessionType = "TCP" THEN shut \cup {what} ELSE shut
  /\ status' = "PENDING_CLOSE"
  /\ CancelTimer
  /\ strand' = Append(queue, Call("onClose", "success"))

tryCloseByFailed(what, queue) ==
  /\ shut' = IF sessionType = "TCP" THEN shut \cup {what} ELSE shut
  /\ \/ /\ status = "OPEN"
        /\ status' = "PENDING_CLOSE"
        /\ CancelTimer
        /\ strand' = Append(queue, Call("onClose", "success"))
     \/ /\ status # "OPEN"
        /\ strand' = queue
        /\ UNCHANGED <<status, timer, aborting>>

\* Mutant: the socket is left open.
onClose_KeepSocket ==
  /\ status' = "CLOSED"
  /\ IF status # "CLOSED" THEN CancelTimer /\ closes' = closes + 1
     ELSE UNCHANGED <<timer, aborting, closes>>
  /\ UNCHANGED <<socketOpen, isOpen, busy>>

\* A TCP socket is closed at once.  A websocket is closed only while it is open,
\* by a call that sends a close frame and waits for the peer's.
CloseSocket ==
  /\ isOpen' = FALSE
  /\ socketOpen' = (socketOpen /\ sessionType = "WEBSOCKET")
  /\ busy' = IF sessionType = "WEBSOCKET" /\ isOpen THEN "close" ELSE busy

onClose ==
  \/ /\ status # "CLOSED"
     /\ status' = "CLOSED"
     /\ CancelTimer
     /\ closes' = closes + 1
     /\ CloseSocket
  \/ /\ status = "CLOSED"
     /\ UNCHANGED <<status, timer, aborting, closes, socketOpen, isOpen, busy>>

-----------------------------------------------------------------------------
(* Handlers, run from the head of the strand. *)

Running(fn) == busy = "no" /\ strand # <<>> /\ Head(strand).fn = fn
Code == Head(strand).ec

\* Mutant: the next read is issued only when no dispatch is outstanding.
handleReadData_ReadIfIdle ==
  /\ Running("handleRead") /\ Code = "success"
  /\ unparsed' \in unparsed..MaxPackets
  /\ pending' = pending + 1
  /\ strand' = Append(Tail(strand), Call("dispatch", "success"))
  /\ readOp' = (pending = 0)
  /\ UNCHANGED <<fixed, starter, status, sock, writes, timer, aborting, retry, stoppedAt, dropped,
                 closes, seen>>

handleReadData ==
  /\ Running("handleRead") /\ Code = "success"
  /\ unparsed' \in unparsed..MaxPackets
  /\ pending' = pending + 1
  /\ strand' = Append(Tail(strand), Call("dispatch", "success"))
  /\ readOp' = TRUE
  /\ UNCHANGED <<fixed, starter, status, sock, writes, timer, aborting, retry, stoppedAt, dropped,
                 closes, seen>>

Retriable == Code = "error" /\ pending > 0

\* Mutant: the handler re-posts itself and also issues a read.
handleReadRetry_Reads ==
  /\ Running("handleRead") /\ Retriable
  /\ HANDLE_READ_RETRY_MAX > retry
  /\ retry' = retry + 1
  /\ strand' = Append(Tail(strand), Head(strand))
  /\ readOp' = TRUE
  /\ UNCHANGED <<fixed, starter, status, sock, writes, timer, aborting, pending, unparsed,
                 stoppedAt, dropped, closes, seen>>

\* Mutant: retries are not counted.
handleReadRetry_NoCount ==
  /\ Running("handleRead") /\ Retriable
  /\ HANDLE_READ_RETRY_MAX > retry
  /\ strand' = Append(Tail(strand), Head(strand))
  /\ UNCHANGED <<fixed, starter, status, sock, ops, recv, closes, seen>>

handleReadRetry ==
  /\ Running("handleRead") /\ Retriable
  /\ HANDLE_READ_RETRY_MAX > retry
  /\ retry' = retry + 1
  /\ strand' = Append(Tail(strand), Head(strand))
  /\ UNCHANGED <<fixed, starter, status, sock, ops, pending, unparsed, stoppedAt, dropped,
                 closes, seen>>

handleReadFail ==
  /\ Running("handleRead") /\ Code # "success"
  /\ Retriable => HANDLE_READ_RETRY_MAX <= retry
  /\ retry' = retry + (IF Retriable THEN 1 ELSE 0)
  /\ seen' = seen \cup (IF starter = "reading" THEN {"readFailedBeforeOpen"} ELSE {})
  /\ tryCloseByFailed("receive", Tail(strand))
  /\ UNCHANGED <<fixed, starter, socketOpen, isOpen, busy, readOp, writes, pending, unparsed,
                 stoppedAt, dropped, closes>>

\* PacketProcedure::dispatch returns early, and does not count down.
dispatchDropped ==
  /\ Running("dispatch") /\ status # "OPEN"
  /\ strand' = Tail(strand)
  /\ dropped' = dropped + 1
  /\ seen' = seen \cup (IF starter = "reading" THEN {"droppedBeforeOpen"} ELSE {})
  /\ UNCHANGED <<fixed, starter, status, sock, ops, pending, retry, unparsed, stoppedAt, closes>>

\* Mutant: one packet is handled per dispatch, which re-posts itself for the rest.
dispatchHandled_Repost ==
  /\ Running("dispatch") /\ status = "OPEN"
  /\ unparsed > 0 => HasUser
  /\ strand' = IF unparsed > 1 THEN Append(Tail(strand), Head(strand)) ELSE Tail(strand)
  /\ unparsed' = IF unparsed > 1 THEN unparsed - 1 ELSE 0
  /\ pending' = pending - 1
  /\ UNCHANGED <<fixed, starter, status, sock, ops, retry, stoppedAt, dropped, closes, seen>>

\* Every packet finds its handler, which may send a reply.
dispatchHandled ==
  /\ Running("dispatch") /\ status = "OPEN"
  /\ unparsed > 0 => HasUser
  /\ strand' = Tail(strand)
  /\ unparsed' = 0 /\ stoppedAt' = "end"
  /\ pending' = pending - 1
  /\ \/ writes' = writes
     \/ /\ unparsed > 0 /\ writes + Queued("handleWrite") < MaxWrites
        /\ writes' = writes + 1
  /\ UNCHANGED <<fixed, starter, status, sock, readOp, timer, aborting, retry, dropped, closes, seen>>

\* Mutant: a refused packet does not reserve a close.
dispatchRefused_KeepOpen ==
  /\ Running("dispatch") /\ status = "OPEN" /\ HasUser
  /\ \E left \in 0..unparsed : left < unparsed /\ unparsed' = left
  /\ strand' = Tail(strand)
  /\ pending' = pending - 1
  /\ UNCHANGED <<fixed, starter, status, sock, ops, retry, stoppedAt, dropped, closes, seen>>

\* n packets are refused with closeReserve(0): malformed, of an unknown url, or
\* for want of a user, and on the server side of an unknown code.  An unknown
\* code and a size that is not accepted leave the packets behind them.  A
\* websocket's stream is taken as one message.
dispatchRefused ==
  /\ Running("dispatch") /\ status = "OPEN"
  /\ \E left \in 0..unparsed : \E n \in 1..(unparsed - left) :
       /\ Reserves + n <= MaxReserves
       /\ sessionType = "WEBSOCKET" => left = 0 /\ n = 1
       /\ HasUser \/ n >= unparsed - left - 1
       /\ unparsed' = left
       /\ closeReserve(n, IF HasUser THEN {} ELSE {"lostUser"})
  /\ stoppedAt' = "end"
  /\ strand' = Tail(strand)
  /\ pending' = pending - 1
  /\ UNCHANGED <<fixed, starter, status, sock, readOp, writes, retry, dropped, closes>>

\* parse returns false and nothing is reserved: at a size below zero or above
\* USHRT_MAX, which stays in the stream, or at an unknown code on the client
\* side, whose noHandler is empty.
dispatchStopped ==
  /\ Running("dispatch") /\ status = "OPEN" /\ sessionType = "TCP"
  /\ \E left \in 0..unparsed :
       /\ unparsed' = left
       /\ \/ left > 0 /\ (HasUser \/ left = unparsed) /\ stoppedAt' = "size"
          \/ /\ left < unparsed /\ role = "connector"
             /\ HasUser \/ left = unparsed - 1
             /\ stoppedAt' = "code"
  /\ strand' = Tail(strand)
  /\ pending' = pending - 1
  /\ UNCHANGED <<fixed, starter, status, sock, ops, retry, dropped, closes, seen>>

\* A packet of size 0 is refused and not taken out of the stream: parse meets it
\* again in every turn of its loop, and each turn reserves a close.
dispatchLoops ==
  /\ \/ /\ Running("dispatch") /\ status = "OPEN" /\ sessionType = "TCP"
        /\ unparsed' \in 1..unparsed
     \/ busy = "parse" /\ unparsed' = unparsed
  /\ busy' = "parse"
  /\ Reserves < MaxReserves
  /\ closeReserve(1, {})
  /\ UNCHANGED <<fixed, starter, status, socketOpen, isOpen, shut, readOp, writes, strand, pending,
                 retry, stoppedAt, dropped, closes>>

\* On success handleWrite only renews the keep-alive timer, which is never
\* armed: create() does not pass keepAliveTimeMs on, so _keepAliveTime is 0.
handleWriteDone ==
  /\ Running("handleWrite") /\ Code = "success"
  /\ strand' = Tail(strand)
  /\ UNCHANGED <<fixed, starter, status, sock, ops, recv, closes, seen>>

handleWriteFail ==
  /\ Running("handleWrite") /\ Code # "success"
  /\ seen' = seen \cup {"writeFailed"}
  /\ tryCloseByFailed("send", Tail(strand))
  /\ UNCHANGED <<fixed, starter, socketOpen, isOpen, busy, readOp, writes, recv, closes>>

onClosePosted ==
  /\ Running("onClose")
  /\ strand' = Tail(strand)
  /\ onClose
  /\ UNCHANGED <<fixed, starter, shut, readOp, writes, recv, seen>>

\* Mutant: the wrong status is compared.
onCloseReserveTime_Pending ==
  /\ Running("onCloseReserveTime")
  /\ strand' = Tail(strand)
  /\ IF status = "PENDING_CLOSE" /\ Alive THEN onClose
     ELSE UNCHANGED <<status, timer, aborting, closes, socketOpen, isOpen, busy>>
  /\ UNCHANGED <<fixed, starter, shut, readOp, writes, recv, seen>>

\* An error code is logged and otherwise ignored.  On a destroyed session there
\* is no session state left to change.
onCloseReserveTime ==
  /\ Running("onCloseReserveTime")
  /\ strand' = Tail(strand)
  /\ IF status = "OPEN" /\ Alive THEN onClose
     ELSE UNCHANGED <<status, timer, aborting, closes, socketOpen, isOpen, busy>>
  /\ UNCHANGED <<fixed, starter, shut, readOp, writes, recv, seen>>

-----------------------------------------------------------------------------
(* The application, from any thread, through the user's session. *)

Send ==
  /\ HasUser /\ Alive
  /\ writes + Queued("handleWrite") < MaxWrites
  /\ writes' = writes + 1
  /\ UNCHANGED <<fixed, starter, status, sock, readOp, timer, aborting, strand, recv, closes, seen>>

CloseReserve ==
  /\ HasUser /\ Alive
  /\ Reserves < MaxReserves
  /\ closeReserve(1, {})
  /\ UNCHANGED <<fixed, starter, status, sock, readOp, writes, strand, recv, closes>>

-----------------------------------------------------------------------------
Service == StartRead \/ StartOpen \/ OnConnect

Completion ==
  \/ \E ec \in {"success", "eof", "error"} : ReadComplete(ec)
  \/ \E ec \in {"success", "error"} : WriteComplete(ec)
  \/ TimerExpired \/ TimerAborted \/ WebsocketClosed \/ Destruct

Strand ==
  \/ handleReadData \/ handleReadRetry \/ handleReadFail
  \/ dispatchDropped \/ dispatchHandled \/ dispatchRefused \/ dispatchStopped
  \/ handleWriteDone \/ handleWriteFail
  \/ onClosePosted \/ onCloseReserveTime

Next == Service \/ Completion \/ Strand \/ dispatchLoops \/ Send \/ CloseReserve

\* The io_context's threads run what is queued; operations on a closed socket
\* and timer waits complete.  Nothing is assumed of the peer, which need not
\* answer a websocket's close frame either, or of the application.
Fairness ==
  /\ WF_vars(Service)
  /\ WF_vars(Strand)
  /\ WF_vars(~socketOpen /\ ReadComplete("error"))
  /\ WF_vars(TimerExpired)
  /\ WF_vars(TimerAborted)

Spec == Init /\ [][Next]_vars /\ Fairness

-----------------------------------------------------------------------------
(* Properties *)

TypeOK ==
  /\ role \in {"acceptor", "connector"}
  /\ sessionType \in {"TCP", "WEBSOCKET"}
  /\ starter \in {"created", "reading", "opened", "done"}
  /\ status \in Status
  /\ socketOpen \in BOOLEAN /\ isOpen \in BOOLEAN
  /\ busy \in {"no", "parse", "close"} /\ shut \subseteq {"receive", "send"}
  /\ readOp \in BOOLEAN /\ writes \in Nat
  /\ timer \in BOOLEAN /\ aborting \in Nat
  /\ strand \in Seq(Handler)
  /\ pending \in Int /\ retry \in Nat /\ unparsed \in Nat /\ dropped \in Nat
  /\ stoppedAt \in {"end", "size", "code"}
  /\ closes \in Nat
  /\ seen \subseteq Events

\* However read failures, write failures and closeReserve waits race, the
\* receiver's onClose is delivered exactly once to a session that was opened
\* and is now closed, never to one still starting, and a closed session is
\* not opened again (onClose, tryCloseByFailed, startAccept/startConnect).
CloseOnce ==
  /\ starter \in {"created", "reading"} => status = "CLOSED" /\ closes = 0
  /\ starter \in {"opened", "done"} => closes = (IF status = "CLOSED" THEN 1 ELSE 0)

\* handleRead re-posts itself or issues the next read, never both: at most one
\* read is in progress or waiting to be handled, so _recvBuffer is never
\* written while a handler has yet to copy it.
SingleRead ==
  /\ AtMostOne(strand, "handleRead")
  /\ readOp => ~InStrand("handleRead")

\* The next read is handled behind the dispatch of the one before, so at most
\* one dispatch is queued, and none behind a read: packets are parsed and
\* handled one dispatch at a time, in the order of the reads.
SingleDispatch == AtMostOne(strand, "dispatch") /\ DispatchBeforeRead(strand)

\* An OPEN session is always reading, and one that waits to be closed has its
\* onClose queued: no session is left open with nothing to wake it.  The one
\* exception is a first read that fails while startAccept/startConnect has
\* not yet set OPEN: tryCloseByFailed ignores it and the session stays OPEN.
NoIdleSession ==
  /\ status = "OPEN" => readOp \/ InStrand("handleRead") \/ "readFailedBeforeOpen" \in seen
  /\ status = "PENDING_CLOSE" => InStrand("onClose")

\* The last reference to a session is dropped only after its onClose has been
\* delivered, with the same exception.
DestroyedAfterClose ==
  Alive \/ closes = 1 \/ "readFailedBeforeOpen" \in seen

\* A packet in the receive stream of an OPEN session has a dispatch queued for
\* it, or a close is to come, or its dispatch ran before OPEN was set, or the
\* last dispatch stopped in front of it without a close.  That happens at a size
\* parse does not accept, and at an unknown code only on the client side: on a
\* server a packet of an unknown code never keeps others waiting in an OPEN
\* session.
NoStrandedPacket ==
  status = "OPEN" /\ unparsed > 0 =>
    \/ InStrand("dispatch")
    \/ timer \/ aborting > 0 \/ InStrand("onCloseReserveTime")
    \/ "droppedBeforeOpen" \in seen
    \/ stoppedAt = "size"
    \/ stoppedAt = "code" /\ role = "connector"

\* When the peer sends and then disconnects, everything it sent is dispatched:
\* after OPEN a dispatch is dropped only if a write failed or a close was
\* reserved.
PeerCloseLosesNothing ==
  dropped > 0 => seen \cap {"droppedBeforeOpen", "writeFailed", "reserved"} # {}

\* onCloseReserveTime ignores the error code, so a cancelled wait closes an
\* OPEN session at once; that happens only to a wait that a second
\* closeReserve replaced, never to one cancelled by a close in progress.
AbortedWaitClosesOnlyIfReplaced ==
  Alive /\ status = "OPEN"
    /\ (aborting > 0 \/ \E i \in 1..Len(strand) : strand[i].ec = "aborted")
  => "reReserved" \in seen

\* The status only moves forward: opened once by the start sequence, then to
\* PENDING_CLOSE or CLOSED, and closed for good.
StatusForward ==
  [][ status' # status =>
        \/ status = "CLOSED" /\ status' = "OPEN" /\ starter = "reading"
        \/ status = "OPEN" /\ status' \in {"PENDING_CLOSE", "CLOSED"}
        \/ status = "PENDING_CLOSE" /\ status' = "CLOSED" ]_vars

\* A read that fails on an OPEN session ends in onClose, whatever the retry
\* loop, the writes and the reserved close do meanwhile, unless the strand is
\* held by a dispatch that loops over a packet of size 0.
ReadFailureCloses ==
  (status = "OPEN" /\ \E i \in 1..Len(strand) :
     strand[i].fn = "handleRead" /\ strand[i].ec # "success") ~> (closes = 1 \/ busy = "parse")

\* A close reserved on an OPEN session takes effect, by its own wait, by the
\* wait it replaced, or by a failure that comes first, with the same exception
\* (and a session left OPEN by an early read failure may instead be destroyed
\* before the wait ends).
ReservedCloseHappens ==
  (status = "OPEN" /\ timer /\ "readFailedBeforeOpen" \notin seen)
    ~> (closes = 1 \/ busy = "parse")

\* After the close the read chain ends: no read stays in progress or queued to
\* hold a reference to the session.  On a websocket that is so once the closing
\* handshake is over; a silent peer keeps it, and the read, going, and a
\* websocket that is not open any more is not closed at all.
ReadChainEnds ==
  (closes = 1 /\ (sessionType = "TCP" \/ ~socketOpen))
    ~> [](~readOp /\ ~InStrand("handleRead"))

\* dispatch finds a user attached to the session whenever it runs a handler.
NoLostUser == "lostUser" \notin seen
=============================================================================
