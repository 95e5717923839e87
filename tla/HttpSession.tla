------------------------------ MODULE HttpSession ------------------------------
(***************************************************************************)
(* One connection of an HTTP server: HttpServer::do_session and SendFunc-  *)
(* Sync, HttpServer::session and SendFuncAsync, or HttpServerCoro::        *)
(* do_session and send_lambda.  The client sends requests without waiting  *)
(* for the answers, closes, disappears, or just stops.  The handler of a   *)
(* registered url may send any number of responses and may throw.          *)
(***************************************************************************)
EXTENDS HttpRequest

CONSTANTS
  Urls,         \* registered urls
  Requests,     \* requests a client may send
  MaxRequests,  \* bound: requests on the connection
  MaxSends,     \* bound: responses sent for one request
  NoMessage

VARIABLES
  mode,      \* which server
  client,    \* "open", "closed" its side, or "gone": the socket is broken or closed
  sent,      \* requests the client has sent
  nread,     \* how many of them the server has read
  pc,        \* "run", "reading", "request", "handler", "returned", "ended"
  nsends,    \* responses sent for the request being handled
  writes,    \* messages whose write is in progress
  blocking,  \* the write in progress is a blocking one
  res_,      \* session::res_, the only owner of the message being written
  ec,        \* outcome of the last write of do_session
  close,     \* close of do_session
  expires,   \* expires_after has been called
  fault,     \* "none", "overlap" of two writes, "terminated" by an exception
  responses, \* responses written
  lost,      \* request whose response could not be written, or 0
  twice,     \* a handler has led to a second response to a request
  silent,    \* a handler has returned without a response
  thrown     \* requests whose handler threw a std::exception that was caught

vars == <<mode, client, sent, nread, pc, nsends, writes, blocking, res_, ec, close,
          expires, fault, responses, lost, twice, silent, thrown>>

Message(s, c) == [req |-> nread, n |-> nsends, status |-> s, close |-> c]

Init ==
  /\ mode \in Modes
  /\ client = "open" /\ sent = <<>> /\ nread = 0
  /\ pc = "run"
  /\ nsends = 0 /\ writes = {} /\ blocking = FALSE /\ res_ = NoMessage
  /\ ec = FALSE /\ close = FALSE /\ expires = FALSE
  /\ fault = "none" /\ responses = <<>> /\ lost = 0
  /\ twice = FALSE /\ silent = FALSE /\ thrown = {}

ghosts == <<lost, twice, silent, thrown>>

-----------------------------------------------------------------------------
\* The client.

ClientVars == <<client, sent>>
ServerVars == <<mode, nread, pc, nsends, writes, blocking, res_, ec, close, expires,
                fault, responses, ghosts>>

ClientSends(r) ==
  /\ client = "open" /\ Len(sent) < MaxRequests
  /\ sent' = Append(sent, r)
  /\ UNCHANGED <<client, ServerVars>>

ClientCloses ==
  /\ client = "open"
  /\ client' = "closed"
  /\ UNCHANGED <<sent, ServerVars>>

ClientGoes ==
  /\ client # "gone"
  /\ client' = "gone"
  /\ UNCHANGED <<sent, ServerVars>>

\* tcp_stream closes its socket when an operation outlasts the expiry time.
Timeout ==
  /\ expires /\ client # "gone"
  /\ pc = "reading" \/ (writes # {} /\ ~blocking)
  /\ client' = "gone"
  /\ UNCHANGED <<sent, ServerVars>>

-----------------------------------------------------------------------------
\* Reading.

Request == sent[nread]

do_read_NoExpiry ==
  /\ pc' = "reading"
  /\ UNCHANGED expires

\* do_read of the session; the top of the loop of do_session.
do_read ==
  /\ pc' = "reading"
  /\ expires' = (mode # "sync")

run ==
  /\ pc = "run"
  /\ do_read
  /\ UNCHANGED <<ClientVars, mode, nread, nsends, writes, blocking, res_, ec, close,
                 fault, responses, ghosts>>

on_read ==
  /\ pc = "reading" /\ client # "gone" /\ nread < Len(sent)
  /\ sent[nread + 1].target # "malformed"
  /\ nread' = nread + 1 /\ nsends' = 0
  /\ pc' = "request"
  /\ UNCHANGED <<ClientVars, mode, writes, blocking, res_, ec, close, expires, fault,
                 responses, ghosts>>

\* end_of_stream, with the shutdown that follows it.
on_read_end ==
  /\ pc = "reading" /\ client = "closed" /\ nread = Len(sent)
  /\ pc' = "ended"
  /\ UNCHANGED <<ClientVars, mode, nread, nsends, writes, blocking, res_, ec, close,
                 expires, fault, responses, ghosts>>

ReadFails ==
  /\ pc = "reading"
  /\ \/ client = "gone"
     \/ nread < Len(sent) /\ sent[nread + 1].target = "malformed"

on_read_failed ==
  /\ ReadFails
  /\ pc' = "ended"
  /\ UNCHANGED <<ClientVars, mode, nread, nsends, writes, blocking, res_, ec, close,
                 expires, fault, responses, ghosts>>

-----------------------------------------------------------------------------
\* Sending.  SendFuncAsync starts the write and returns; the other two return when
\* the write is over.

SendFuncAsync_NotStored(m) ==
  /\ writes' = writes \union {m}
  /\ fault' = IF writes = {} THEN fault ELSE "overlap"
  /\ UNCHANGED <<res_, close, blocking>>

\* res_ takes over the new message and lets go of the one before.
SendFuncAsync(m) ==
  /\ res_' = m
  /\ writes' = writes \union {m}
  /\ fault' = IF writes = {} THEN fault ELSE "overlap"
  /\ UNCHANGED <<close, blocking>>

SendFuncSync(m) ==
  /\ close' = m.close
  /\ writes' = {m} /\ blocking' = TRUE
  /\ UNCHANGED <<res_, fault>>

\* With yield_, or with syncParam as a blocking write.
send_lambda(m, syncParam) ==
  /\ close' = m.close
  /\ writes' = {m} /\ blocking' = syncParam
  /\ UNCHANGED <<res_, fault>>

send(m, syncParam) ==
  /\ \/ mode = "async" /\ SendFuncAsync(m)
     \/ mode = "sync" /\ SendFuncSync(m)
     \/ mode = "coro" /\ send_lambda(m, syncParam)
  /\ nsends' = nsends + 1
  /\ twice' = (twice \/ nsends > 0)

\* The server's own responses keep the connection as the request asks for.
Response(s) == Message(s, ~Request.keepAlive)
ResponseCoro(s) == Message(s, ~Request.keepAlive)

\* The request is answered as a, or goes to its handler.
Answered(a, response) ==
  /\ pc = "request" /\ a = answer(mode, Request, Urls)
  /\ \/ /\ a = "handler" /\ pc' = "handler"
        /\ UNCHANGED <<nsends, writes, blocking, res_, close, fault, twice>>
     \/ /\ a # "handler" /\ pc' = "returned"
        /\ send(response, FALSE)
  /\ UNCHANGED <<ClientVars, mode, nread, ec, expires, responses, lost, silent, thrown>>

handle_request_NoSend(a) ==
  /\ mode # "coro"
  /\ pc = "request" /\ a = answer(mode, Request, Urls)
  /\ pc' = (IF a = "handler" THEN "handler" ELSE "returned")
  /\ UNCHANGED <<nsends, writes, blocking, res_, close, fault, ghosts, ClientVars, mode,
                 nread, ec, expires, responses>>

\* Up to the call of the handler.
handle_request(a) == mode # "coro" /\ Answered(a, Response(a))
handle_requestCoro(a) == mode = "coro" /\ Answered(a, ResponseCoro(a))

\* The handler runs: it is not waiting for a write.
Runs == pc = "handler" /\ (mode = "async" \/ writes = {})

\* operator() of SendFunc with a body, and with a status.
sendBody ==
  /\ Runs /\ mode # "coro" /\ nsends < MaxSends
  /\ send(Response("handler"), FALSE)
  /\ UNCHANGED <<ClientVars, mode, nread, pc, ec, expires, responses, lost, silent, thrown>>

sendError ==
  /\ Runs /\ mode # "coro" /\ nsends < MaxSends
  /\ send(Response("handler"), FALSE)
  /\ UNCHANGED <<ClientVars, mode, nread, pc, ec, expires, responses, lost, silent, thrown>>

\* A message of the handler's own making, which may close what the client would keep.
sendMessage(c, syncParam) ==
  /\ Runs /\ nsends < MaxSends
  /\ syncParam => mode = "coro"
  /\ send(Message("handler", c), syncParam)
  /\ UNCHANGED <<ClientVars, mode, nread, pc, ec, expires, responses, lost, silent, thrown>>

HandlerReturns ==
  /\ Runs
  /\ pc' = "returned"
  /\ silent' = (silent \/ nsends = 0)
  /\ UNCHANGED <<ClientVars, mode, nread, nsends, writes, blocking, res_, ec, close,
                 expires, fault, responses, lost, twice, thrown>>

catch_NoSend ==
  /\ pc' = "returned"
  /\ thrown' = thrown \union {nread}
  /\ UNCHANGED <<nsends, writes, blocking, res_, close, fault, twice>>

\* The catch block of HttpServer::handle_request.
catch ==
  /\ pc' = "returned"
  /\ thrown' = thrown \union {nread}
  /\ send(Response("server_error"), FALSE)

HandlerThrowsStd ==
  /\ Runs /\ mode # "coro"
  /\ catch
  /\ UNCHANGED <<ClientVars, mode, nread, ec, expires, responses, lost, silent>>

\* Nothing catches it: not std::exception, or thrown in a coroutine.
HandlerThrows ==
  /\ Runs
  /\ fault' = "terminated"
  /\ UNCHANGED <<ClientVars, mode, nread, pc, nsends, writes, blocking, res_, ec, close,
                 expires, responses, ghosts>>

-----------------------------------------------------------------------------
\* The end of a write, and what comes after.

\* The write of do_session is over.
WriteEnds(m, ok) ==
  /\ mode # "async" /\ m \in writes
  /\ ~ok <=> client = "gone"
  /\ ec' = ~ok
  /\ writes' = {} /\ blocking' = FALSE
  /\ responses' = IF ok THEN Append(responses, m) ELSE responses
  /\ lost' = IF ok THEN lost ELSE nread
  /\ UNCHANGED <<ClientVars, mode, nread, pc, nsends, res_, close, expires, fault,
                 twice, silent, thrown>>

\* A failed write or a response that closes ends the loop.
AfterRequest ==
  /\ pc = "returned" /\ writes = {}
  /\ IF ec \/ close THEN pc' = "ended" /\ UNCHANGED expires ELSE do_read
  /\ UNCHANGED <<ClientVars, mode, nread, nsends, writes, blocking, res_, ec, close,
                 fault, responses, ghosts>>

do_session == mode = "sync" /\ AfterRequest
do_sessionCoro == mode = "coro" /\ AfterRequest

on_write(m) ==
  /\ mode = "async" /\ pc = "returned" /\ m \in writes
  /\ client # "gone"
  /\ writes' = writes \ {m}
  /\ responses' = Append(responses, m)
  /\ \/ m.close /\ pc' = "ended" /\ UNCHANGED <<expires, res_>>
     \/ ~m.close /\ res_' = NoMessage /\ do_read
  /\ UNCHANGED <<ClientVars, mode, nread, nsends, blocking, ec, close, fault, ghosts>>

on_write_failed(m) ==
  /\ mode = "async" /\ pc = "returned" /\ m \in writes
  /\ client = "gone"
  /\ writes' = writes \ {m}
  /\ lost' = nread
  /\ pc' = "ended"
  /\ UNCHANGED <<ClientVars, mode, nread, nsends, blocking, res_, ec, close, expires,
                 fault, responses, twice, silent, thrown>>

\* The last reference to a session that is neither reading nor writing is dropped.
Destroyed ==
  /\ mode = "async" /\ pc = "returned" /\ writes = {}
  /\ pc' = "ended"
  /\ UNCHANGED <<ClientVars, mode, nread, nsends, writes, blocking, res_, ec, close,
                 expires, fault, responses, ghosts>>

Client ==
  \/ \E r \in Requests : ClientSends(r)
  \/ ClientCloses
  \/ ClientGoes

Reading == run \/ on_read \/ on_read_end \/ on_read_failed

Answers == {"bad_request", "not_found", "handler"}

Handling ==
  \/ \E a \in Answers : handle_request(a) \/ handle_requestCoro(a)
  \/ sendBody
  \/ sendError
  \/ \E c, syncParam \in BOOLEAN : sendMessage(c, syncParam)
  \/ HandlerReturns
  \/ HandlerThrowsStd
  \/ HandlerThrows

Writing ==
  \/ \E m \in writes, ok \in BOOLEAN : WriteEnds(m, ok)
  \/ do_session \/ do_sessionCoro
  \/ \E m \in writes : on_write(m) \/ on_write_failed(m)
  \/ Destroyed

\* What follows an overlap or an exception that nothing catches is not modelled.
Next == fault = "none" /\ (Client \/ Timeout \/ Reading \/ Handling \/ Writing)

Spec == Init /\ [][Next]_vars

\* Threads run what is ready and handlers return, operations that are over or out
\* of time complete; a client that is still there need not take what is written.
WritesFail == \E m \in writes : WriteEnds(m, FALSE) \/ on_write_failed(m)

Fairness ==
  /\ WF_vars(fault = "none" /\ Reading)
  /\ WF_vars(fault = "none" /\ \E a \in Answers : handle_request(a) \/ handle_requestCoro(a))
  /\ WF_vars(fault = "none" /\ HandlerReturns)
  /\ WF_vars(fault = "none" /\ (WritesFail \/ do_session \/ do_sessionCoro \/ Destroyed))
  /\ WF_vars(fault = "none" /\ Timeout)

-----------------------------------------------------------------------------
Over == pc = "ended" \/ fault # "none"

\* "The lifetime of the message has to extend for the duration of the async
\* operation": res_ owns the message of every write in progress.
MessageAlive == mode = "async" => writes \subseteq {res_}

\* SendFuncAsync frees a message that is being written only when a handler sends
\* twice, or throws after it has sent.
AliveUnlessSentTwice == ~twice => MessageAlive /\ fault # "overlap"

\* The client takes the k-th response for the answer to its k-th request.  Threads
\* and coroutines go on after a handler that sent nothing, or twice; an
\* asynchronous session then ends.
AnswersMatch ==
  mode = "async" \/ ~(twice \/ silent) => \A k \in 1 .. Len(responses) : responses[k].req = k

\* A handler's std::exception is answered with a server error before HttpServer
\* goes on or ends the connection, if the response can be written at all.
ExceptionsAnswered ==
  \A r \in thrown :
    \/ fault # "none" \/ lost = r
    \/ nread = r /\ pc # "ended"
    \/ \E k \in 1 .. Len(responses) : responses[k].req = r /\ responses[k].status = "server_error"

\* A client that no longer sends or reads does not hold an asynchronous session or
\* a coroutine for ever, unless the handler chose a blocking write.
SilentClientsLeave == <>(mode = "sync" \/ blocking \/ Over)
===============================================================================
