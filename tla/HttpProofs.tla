------------------------------ MODULE HttpProofs ------------------------------
(***************************************************************************)
(* Proofs about the HTTP servers: what a connection (HttpSession) promises *)
(* for any requests, handlers and bounds, who owns the message of a write, *)
(* which response answers which request and what becomes of a handler's    *)
(* exception; and what the accepting side (HttpListener) promises for any  *)
(* clients, urls, handlers and number of threads.                          *)
(***************************************************************************)
EXTENDS HttpSession, TLAPS

CONSTANTS Clients, ListenerUrls, Handlers, Threads, None   \* of HttpListener

VARIABLES
  ioc, server, setup, accepting, ready, workers, stopped, waiting, sessions, copies,
  _handlers, registering, race

Listener == INSTANCE HttpListener WITH Urls <- ListenerUrls

-----------------------------------------------------------------------------
Messages ==
  [req : Nat, n : Nat, status : Answers \union {"server_error"}, close : BOOLEAN]

TypeOK ==
  /\ nread \in Nat /\ nsends \in Nat
  /\ writes \subseteq Messages /\ responses \in Seq(Messages)
  /\ twice \in BOOLEAN /\ silent \in BOOLEAN /\ ec \in BOOLEAN

Handled == pc \in {"handler", "returned"}

\* An asynchronous session writes the message of res_, and one request has one
\* message until a handler sends twice, which overlaps.
Owned ==
  mode = "async" =>
    /\ twice => fault = "overlap"
    /\ ~twice => /\ writes \subseteq {res_} /\ fault # "overlap"
                 /\ nsends = 0 \/ ~Handled => writes = {}
                 /\ pc = "handler" /\ nsends # 0 => writes # {}

\* A thread or a coroutine has one write at a time, and goes on after it.
Single ==
  mode # "async" =>
    /\ \A x, y \in writes : x = y
    /\ ~Handled => writes = {}
    /\ fault # "overlap"

\* Sessions whose handlers send one response to each request; an asynchronous
\* session reads no more after one that does not.
Regular == mode = "async" \/ ~(twice \/ silent)

\* Every request but the one being handled has been answered.
Counted ==
  Regular =>
    /\ \A k \in 1 .. Len(responses) : responses[k].req = k
    /\ pc \in {"run", "reading"} => nread = Len(responses)
    /\ pc = "request" => nread = Len(responses) + 1 /\ nsends = 0
    /\ Handled =>
         /\ \A m \in writes : m.req = nread
         /\ nsends = 0 => /\ nread = Len(responses) + 1 /\ writes = {}
                          /\ pc = "returned" => mode = "async"
         /\ nsends # 0 => IF mode = "async" \/ writes # {}
                          THEN nread = Len(responses) + 1
                          ELSE nread = Len(responses) \/ ec

IsError(m, r) == m.req = r /\ m.status = "server_error"

\* The server error of a request whose handler threw has been written, or could
\* not be, after which nothing follows, or is being written.
ErrorWritten(r) == \E k \in 1 .. Len(responses) : IsError(responses[k], r)

ErrorLost(r) ==
  /\ lost = r
  /\ pc = "ended" \/ (pc = "returned" /\ ec /\ writes = {} /\ mode # "async")

ErrorInProgress(r) == nread = r /\ pc = "returned" /\ \E m \in writes : IsError(m, r)

Caught ==
  fault = "none" => \A r \in thrown : ErrorWritten(r) \/ ErrorLost(r) \/ ErrorInProgress(r)

HInv == TypeOK /\ Owned /\ Single /\ Counted /\ Caught

-----------------------------------------------------------------------------
\* What a send does, whichever server sends.
Sent(m) ==
  /\ m \in Messages /\ m.req = nread
  /\ IF mode = "async"
     THEN /\ res_' = m /\ writes' = writes \union {m}
          /\ fault' = IF writes = {} THEN fault ELSE "overlap"
     ELSE writes' = {m} /\ fault' = fault
  /\ nsends' = nsends + 1
  /\ twice' \in BOOLEAN /\ (twice' <=> twice \/ nsends > 0)

\* Messages say which request they answer.
LEMMA MessageFacts ==
  ASSUME TypeOK, NEW s \in Answers \union {"server_error"}, NEW c \in BOOLEAN
  PROVE  Message(s, c) \in Messages /\ Message(s, c).req = nread /\ Message(s, c).status = s
BY DEF TypeOK, Messages, Message

\* The three ways to send come to the same, but for the overlap.
LEMMA SendFacts ==
  ASSUME NEW m \in Messages, m.req = nread, NEW p \in BOOLEAN, send(m, p)
  PROVE  Sent(m)
<1>1. twice' \in BOOLEAN /\ (twice' <=> twice \/ nsends > 0)
  BY Zenon DEF send
<1>. QED BY <1>1 DEF send, SendFuncAsync, SendFuncSync, send_lambda, Sent

\* A response, or the error of a handler that throws, is sent.
LEMMA SendStep ==
  ASSUME HInv, fault = "none", NEW m, Sent(m),
         pc = "request" \/ (pc = "handler" /\ (mode = "async" \/ writes = {})),
         pc' \in {"handler", "returned"},
         \/ thrown' = thrown
         \/ thrown' = thrown \union {nread} /\ pc' = "returned" /\ IsError(m, nread),
         UNCHANGED <<mode, nread, ec, responses, lost, silent>>
  PROVE  HInv'
<1>. USE DEF HInv
<1>1. TypeOK'
  BY DEF TypeOK, Sent
<1>2. Owned'
  <2>1. CASE mode = "async" /\ twice'
    <3>1. fault' = "overlap"
      <4>1. pc = "request" => nsends = 0
        BY <2>1 DEF Counted, Regular
      <4>. QED BY <2>1, <4>1 DEF Owned, Sent, TypeOK
    <3>. QED BY <2>1, <3>1 DEF Owned
  <2>2. CASE mode = "async" /\ ~twice'
    <3>1. ~twice /\ nsends = 0 /\ writes = {}
      BY <2>2 DEF Owned, Sent, TypeOK
    <3>. QED BY <1>1, <2>2, <3>1 DEF Owned, Sent, Handled, TypeOK
  <2>. QED BY <2>1, <2>2 DEF Owned
<1>3. Single'
  BY DEF Single, Sent, Handled
<1>4. Counted'
  <2>. SUFFICES ASSUME Regular' PROVE Counted'
    BY DEF Counted
  <2>1. Regular
    BY DEF Regular, Sent, TypeOK
  <2>2. nread = Len(responses) + 1
    BY <2>1 DEF Counted, Handled, Regular, Sent, TypeOK
  <2>3. nsends' # 0 /\ \A x \in writes' : x.req = nread
    BY <2>1 DEF Counted, Handled, Sent, TypeOK, Owned, Single
  <2>. QED BY <2>1, <2>2, <2>3 DEF Counted, Handled, Sent
<1>5. Caught'
  <2>. SUFFICES ASSUME fault' = "none", NEW r \in thrown'
                PROVE  (ErrorWritten(r) \/ ErrorLost(r) \/ ErrorInProgress(r))'
    BY DEF Caught
  <2>1. CASE r \in thrown
    <3>1. ErrorWritten(r)
      BY <2>1 DEF Caught, ErrorLost, ErrorInProgress
    <3>. QED BY <3>1 DEF ErrorWritten
  <2>2. CASE r \notin thrown
    BY <2>2 DEF Sent, ErrorInProgress
  <2>. QED BY <2>1, <2>2
<1>. QED BY <1>1, <1>2, <1>3, <1>4, <1>5
\* A step that neither sends nor ends a write, and leaves the request where
\* it is, keeps the invariants.
LEMMA QuietStep ==
  ASSUME HInv, fault = "none",
         UNCHANGED <<mode, nread, nsends, writes, res_, ec, responses, lost, twice, thrown>>,
         \/ UNCHANGED <<pc, silent, fault>>
         \/ pc = "run" /\ pc' = "reading" /\ UNCHANGED <<silent, fault>>
         \/ pc = "reading" /\ pc' = "ended" /\ UNCHANGED <<silent, fault>>
         \/ pc = "request" /\ pc' = "handler" /\ UNCHANGED <<silent, fault>>
         \/ /\ pc = "handler" /\ pc' = "returned" /\ (mode = "async" \/ writes = {})
            /\ silent' \in BOOLEAN /\ (silent' <=> silent \/ nsends = 0) /\ UNCHANGED fault
         \/ fault' = "terminated" /\ UNCHANGED <<pc, silent>>
         \/ /\ mode # "async" /\ pc = "returned" /\ writes = {}
            /\ pc' = (IF ec \/ close THEN "ended" ELSE "reading") /\ UNCHANGED <<silent, fault>>
         \/ /\ mode = "async" /\ pc = "returned" /\ writes = {}
            /\ pc' = "ended" /\ UNCHANGED <<silent, fault>>
  PROVE  HInv'
<1>. USE DEF HInv
<1>1. TypeOK'
  BY DEF TypeOK
<1>2. Owned'
  <2>1. mode = "async" /\ pc = "request" => nsends = 0
    BY DEF Counted, Regular
  <2>. QED BY <2>1 DEF Owned, Handled, TypeOK
<1>3. Single'
  BY DEF Single, Handled
<1>4. Counted'
  <2>. SUFFICES ASSUME Regular' PROVE Counted'
    BY DEF Counted
  <2>1. Regular
    BY DEF Regular, TypeOK
  <2>2. /\ \A k \in 1 .. Len(responses) : responses[k].req = k
        /\ pc \notin {"handler", "returned"} => writes = {}
    BY <2>1 DEF Counted, Owned, Single, Handled
  <2>3. Handled' /\ nsends = 0 /\ pc' = "returned" => mode = "async"
    BY <2>1 DEF Counted, Handled, Regular, TypeOK
  <2>. QED BY <2>1, <2>2, <2>3 DEF Counted, Handled, TypeOK
<1>5. Caught'
  <2>. SUFFICES ASSUME fault' = "none", NEW r \in thrown
                PROVE  (ErrorWritten(r) \/ ErrorLost(r) \/ ErrorInProgress(r))'
    BY DEF Caught
  <2>1. CASE ErrorWritten(r)
    BY <2>1 DEF ErrorWritten
  <2>2. CASE ErrorLost(r)
    BY <2>2 DEF ErrorLost
  <2>3. CASE ErrorInProgress(r)
    BY <2>3 DEF ErrorInProgress
  <2>. QED BY <2>1, <2>2, <2>3 DEF Caught
<1>. QED BY <1>1, <1>2, <1>3, <1>4, <1>5

\* The next request is read when all before it have been answered.
LEMMA ReadStep ==
  ASSUME HInv, fault = "none", on_read
  PROVE  HInv'
<1>. USE DEF HInv, ghosts
<1>1. TypeOK'
  BY DEF on_read, TypeOK
<1>2. Owned' /\ Single'
  BY DEF on_read, Owned, Single, Handled
<1>3. Counted'
  BY DEF on_read, Counted, Regular, Handled, TypeOK
<1>4. Caught'
  <2>. SUFFICES ASSUME NEW r \in thrown
                PROVE  (ErrorWritten(r) \/ ErrorLost(r) \/ ErrorInProgress(r))'
    BY DEF Caught, on_read
  <2>1. ErrorWritten(r)
    BY DEF Caught, ErrorLost, ErrorInProgress, on_read
  <2>. QED BY <2>1 DEF ErrorWritten, on_read
<1>. QED BY <1>1, <1>2, <1>3, <1>4

\* What writing a response does to the responses.
LEMMA Responded ==
  ASSUME TypeOK, NEW m \in Messages
  PROVE  /\ Append(responses, m) \in Seq(Messages)
         /\ Len(Append(responses, m)) = Len(responses) + 1 /\ Len(responses) \in Nat
         /\ \A k \in 1 .. Len(responses) : Append(responses, m)[k] = responses[k]
         /\ Append(responses, m)[Len(responses) + 1] = m
BY DEF TypeOK

\* The write of a thread or of a coroutine is over.
LEMMA WriteStep ==
  ASSUME HInv, fault = "none", NEW m \in writes, NEW ok \in BOOLEAN, WriteEnds(m, ok)
  PROVE  HInv'
<1>. USE DEF HInv
<1>0. /\ mode # "async" /\ m \in Messages /\ writes = {m} /\ pc \in {"handler", "returned"}
      /\ UNCHANGED <<mode, nread, pc, nsends, res_, fault, twice, silent, thrown>>
      /\ writes' = {} /\ ec' = ~ok
      /\ responses' = IF ok THEN Append(responses, m) ELSE responses
      /\ lost' = IF ok THEN lost ELSE nread
  BY DEF WriteEnds, TypeOK, Single, Handled
<1>r. /\ responses' \in Seq(Messages)
      /\ Len(responses') = (IF ok THEN Len(responses) + 1 ELSE Len(responses))
      /\ Len(responses) \in Nat
      /\ \A k \in 1 .. Len(responses) : responses'[k] = responses[k]
      /\ ok => responses'[Len(responses) + 1] = m
  BY <1>0, Responded DEF TypeOK
<1>1. TypeOK'
  BY <1>0, <1>r DEF TypeOK
<1>2. Owned' /\ Single'
  BY <1>0 DEF Owned, Single
<1>3. Counted'
  <2>. SUFFICES ASSUME Regular PROVE Counted'
    BY <1>0 DEF Counted, Regular
  <2>1. nread = Len(responses) + 1 /\ m.req = nread /\ nsends # 0
    BY <1>0 DEF Counted, Handled
  <2>2. \A k \in 1 .. Len(responses') : responses'[k].req = k
    BY <1>0, <1>r, <2>1 DEF Counted
  <2>. QED BY Zenon, <1>0, <1>r, <2>1, <2>2 DEF Counted, Handled
<1>4. Caught'
  <2>. SUFFICES ASSUME NEW r \in thrown
                PROVE  (ErrorWritten(r) \/ ErrorLost(r) \/ ErrorInProgress(r))'
    BY <1>0 DEF Caught
  <2>1. CASE ErrorWritten(r)
    BY <1>r, <2>1 DEF ErrorWritten
  <2>2. CASE ErrorInProgress(r) /\ ok
    BY <1>0, <1>r, <2>2 DEF ErrorInProgress, ErrorWritten
  <2>3. CASE ErrorInProgress(r) /\ ~ok
    BY Zenon, <1>0, <2>3 DEF ErrorInProgress, ErrorLost
  <2>. QED BY <1>0, <2>1, <2>2, <2>3 DEF Caught, ErrorLost
<1>. QED BY <1>1, <1>2, <1>3, <1>4

\* The write of an asynchronous session is over.
LEMMA OnWriteStep ==
  ASSUME HInv, fault = "none", NEW m \in writes, on_write(m) \/ on_write_failed(m)
  PROVE  HInv'
<1>. USE DEF HInv, ghosts
<1>0. /\ mode = "async" /\ m \in Messages /\ writes = {m} /\ pc = "returned"
      /\ nsends # 0 /\ ~twice
      /\ UNCHANGED <<mode, nread, nsends, ec, fault, twice, silent, thrown>>
      /\ writes' = {}
      /\ \/ /\ responses' = Append(responses, m) /\ pc' \in {"ended", "reading"} /\ UNCHANGED lost
         \/ responses' = responses /\ pc' = "ended" /\ lost' = nread
  <2>1. mode = "async" /\ ~twice /\ writes \subseteq {res_} /\ pc = "returned"
    BY DEF on_write, on_write_failed, Owned, TypeOK
  <2>2. writes = {m} /\ nsends # 0 /\ m \in Messages
    BY <2>1 DEF Owned, TypeOK
  <2>. QED BY <2>1, <2>2 DEF on_write, on_write_failed, do_read
<1>r. /\ responses' \in Seq(Messages) /\ Len(responses) \in Nat
      /\ \A k \in 1 .. Len(responses) : responses'[k] = responses[k]
      /\ \/ pc' \in {"ended", "reading"} /\ Len(responses') = Len(responses) + 1
            /\ responses'[Len(responses) + 1] = m
         \/ pc' = "ended" /\ lost' = nread /\ Len(responses') = Len(responses)
  BY <1>0, Responded DEF TypeOK
<1>1. TypeOK'
  BY <1>0, <1>r DEF TypeOK
<1>2. Owned' /\ Single'
  BY <1>0 DEF Owned, Single, Handled
<1>3. Counted'
  <2>1. nread = Len(responses) + 1 /\ m.req = nread
    BY <1>0 DEF Counted, Handled, Regular
  <2>2. \A k \in 1 .. Len(responses') : responses'[k].req = k
    BY <1>0, <1>r, <2>1 DEF Counted, Regular
  <2>. QED BY <1>0, <1>r, <2>1, <2>2 DEF Counted, Handled
<1>4. Caught'
  <2>. SUFFICES ASSUME NEW r \in thrown
                PROVE  (ErrorWritten(r) \/ ErrorLost(r) \/ ErrorInProgress(r))'
    BY <1>0 DEF Caught
  <2>1. CASE ErrorWritten(r)
    BY <1>r, <2>1 DEF ErrorWritten
  <2>2. CASE ErrorInProgress(r)
    BY <1>0, <1>r, <2>2 DEF ErrorInProgress, ErrorWritten, ErrorLost
  <2>. QED BY <1>0, <2>1, <2>2 DEF Caught, ErrorLost
<1>. QED BY <1>1, <1>2, <1>3, <1>4
\* A new session satisfies the invariants.
LEMMA HttpStarts == Init => HInv
<1>. SUFFICES ASSUME Init PROVE HInv
  OBVIOUS
<1>1. TypeOK
  <2>1. nread = 0 /\ nsends = 0 /\ writes = {} /\ responses = <<>>
    BY DEF Init
  <2>2. twice \in BOOLEAN /\ silent \in BOOLEAN /\ ec \in BOOLEAN
    BY Zenon DEF Init
  <2>. QED BY <2>1, <2>2 DEF TypeOK
<1>2. Owned /\ Single
  BY DEF Init, Owned, Single, Handled
<1>3. Counted /\ Caught
  BY DEF Init, Counted, Handled, Caught
<1>. QED BY <1>1, <1>2, <1>3 DEF HInv

\* Every step of a session keeps them.
LEMMA HttpStep == HInv /\ [Next]_vars => HInv'
<1>. SUFFICES ASSUME HInv, [Next]_vars PROVE HInv'
  OBVIOUS
<1>. USE DEF ghosts, ClientVars, ServerVars
<1>1. CASE UNCHANGED vars
  BY Zenon, <1>1 DEF vars, HInv, TypeOK, Owned, Single, Counted, Regular, Handled, Caught,
              ErrorWritten, ErrorLost, ErrorInProgress
<1>. SUFFICES ASSUME fault = "none", Client \/ Timeout \/ Reading \/ Handling \/ Writing
              PROVE  HInv'
  BY <1>1 DEF Next
<1>t. TypeOK
  BY DEF HInv
<1>2. CASE Client \/ Timeout
  BY Zenon, <1>2, QuietStep DEF Client, ClientSends, ClientCloses, ClientGoes, Timeout
<1>3. CASE Reading
  <2>1. CASE run \/ on_read_end \/ on_read_failed
    BY Zenon, <2>1, QuietStep DEF run, do_read, on_read_end, on_read_failed, ReadFails
  <2>. QED BY <1>3, <2>1, ReadStep DEF Reading
<1>4. CASE Handling
  <2>1. ASSUME NEW a \in Answers, handle_request(a) \/ handle_requestCoro(a) PROVE HInv'
    <3>1. PICK m \in Messages : m.req = nread /\ Answered(a, m)
      <4>1. (~Request.keepAlive) \in BOOLEAN
        OBVIOUS
      <4>. QED BY Zenon, <1>t, <2>1, <4>1, MessageFacts
             DEF handle_request, handle_requestCoro, Response, ResponseCoro
    <3>2. CASE pc' = "handler"
      BY <3>1, <3>2, QuietStep DEF Answered
    <3>3. CASE pc' # "handler"
      <4>1. pc = "request" /\ pc' = "returned" /\ send(m, FALSE)
        BY Zenon, <3>1, <3>3 DEF Answered
      <4>2. Sent(m)
        BY Zenon, <3>1, <4>1, SendFacts
      <4>. QED BY <3>1, <4>1, <4>2, SendStep DEF Answered
    <3>. QED BY <3>2, <3>3
  <2>2. ASSUME NEW m \in Messages, m.req = nread, NEW p \in BOOLEAN, send(m, p), Runs,
               UNCHANGED <<mode, nread, pc, ec, responses, lost, silent, thrown>>
        PROVE  HInv'
    <3>1. Sent(m)
      BY <2>2, SendFacts
    <3>. QED BY <2>2, <3>1, SendStep DEF Runs
  <2>3. CASE sendBody \/ sendError
    <3>1. PICK m \in Messages : m.req = nread /\ send(m, FALSE)
      <4>1. (~Request.keepAlive) \in BOOLEAN /\ "handler" \in Answers
        BY DEF Answers
      <4>. QED BY Zenon, <1>t, <2>3, <4>1, MessageFacts DEF sendBody, sendError, Response
    <3>. QED BY Zenon, <2>2, <2>3, <3>1 DEF sendBody, sendError
  <2>4. ASSUME NEW c \in BOOLEAN, NEW p \in BOOLEAN, sendMessage(c, p) PROVE HInv'
    <3>1. PICK m \in Messages : m.req = nread /\ send(m, p)
      <4>1. "handler" \in Answers
        BY DEF Answers
      <4>. QED BY <1>t, <2>4, <4>1, MessageFacts DEF sendMessage
    <3>. QED BY <2>2, <2>4, <3>1 DEF sendMessage
  <2>5. CASE HandlerReturns
    <3>1. silent' \in BOOLEAN /\ (silent' <=> silent \/ nsends = 0)
      BY Zenon, <1>t, <2>5 DEF HandlerReturns, TypeOK
    <3>. QED BY <2>5, <3>1, QuietStep DEF HandlerReturns, Runs
  <2>6. CASE HandlerThrowsStd
    <3>1. PICK m \in Messages : m.req = nread /\ m.status = "server_error" /\ send(m, FALSE)
      <4>1. (~Request.keepAlive) \in BOOLEAN
        OBVIOUS
      <4>. QED BY Zenon, <1>t, <2>6, <4>1, MessageFacts DEF HandlerThrowsStd, catch, Response
    <3>2. Sent(m) /\ IsError(m, nread)
      BY Zenon, <3>1, SendFacts DEF IsError
    <3>. QED BY <2>6, <3>2, SendStep DEF HandlerThrowsStd, catch, Runs
  <2>7. CASE HandlerThrows
    BY <2>7, QuietStep DEF HandlerThrows
  <2>. QED BY <1>4, <2>1, <2>3, <2>4, <2>5, <2>6, <2>7 DEF Handling
<1>5. CASE Writing
  <2>1. CASE do_session \/ do_sessionCoro
    <3>1. mode # "async" /\ pc' = IF ec \/ close THEN "ended" ELSE "reading"
      BY <2>1 DEF do_session, do_sessionCoro, AfterRequest, do_read
    <3>. QED BY <2>1, <3>1, QuietStep DEF do_session, do_sessionCoro, AfterRequest
  <2>2. CASE Destroyed
    BY <2>2, QuietStep DEF Destroyed
  <2>. QED BY <1>5, <2>1, <2>2, WriteStep, OnWriteStep DEF Writing
<1>. QED BY <1>2, <1>3, <1>4, <1>5

\* The invariants hold in every state a session reaches.
LEMMA HttpInvariance == Spec => []HInv
BY HttpStarts, HttpStep, PTL DEF Spec

\* SendFuncAsync frees a message that is being written only when a handler
\* sends twice, or throws after it has sent.
THEOREM AliveUnlessSentTwiceHolds == Spec => []AliveUnlessSentTwice
<1>1. HInv => AliveUnlessSentTwice
  BY DEF HInv, Owned, Single, AliveUnlessSentTwice, MessageAlive
<1>. QED BY <1>1, HttpInvariance, PTL

\* The k-th response answers the k-th request, in a session whose handlers
\* answer once and in every asynchronous session.
THEOREM AnswersMatchHolds == Spec => []AnswersMatch
<1>1. HInv => AnswersMatch
  BY DEF HInv, Counted, Regular, AnswersMatch
<1>. QED BY <1>1, HttpInvariance, PTL

\* A handler's std::exception is answered with a server error before the
\* connection goes on or ends, if the response can be written at all.
THEOREM ExceptionsAnsweredHolds == Spec => []ExceptionsAnswered
<1>1. HInv => ExceptionsAnswered
  BY DEF HInv, Caught, ErrorWritten, ErrorLost, ErrorInProgress, IsError, ExceptionsAnswered
<1>. QED BY <1>1, HttpInvariance, PTL

-----------------------------------------------------------------------------
(***************************************************************************)
(* HttpListener. That one accept goes on rests on the port being opened    *)
(* once, after the start, and on every handler of an accept starting the   *)
(* next. That a synchronous connection agrees with the table rests on a    *)
(* url being looked up and inserted by one thread, so that it is still new *)
(* when it is inserted.                                                    *)
(***************************************************************************)

\* Nothing is accepted before the start, nor before the port was opened.
Started ==
  /\ server \in {"off", "started"} => setup = "none"
  /\ setup = "none" => ready = None /\ ~accepting /\ sessions = {}

\* There is one accept at most, and its handler is run before the next.
Accepting == ~(accepting /\ ready # None) /\ Listener!OneAcceptGoesOn

\* Threads are made by the asynchronous servers only, and joined by one of them.
ThreadsCounted ==
  /\ workers \in Nat /\ workers <= Threads - 1
  /\ mode = "sync" => workers = 0

\* What is inserted is new.
New == registering # None => registering[1] \notin DOMAIN _handlers

\* Only a synchronous connection has a copy of the table.
Copies ==
  /\ DOMAIN copies = Clients
  /\ sessions \subseteq Clients
  /\ mode # "sync" => \A c \in Clients : copies[c] = Listener!Empty

ListenerInv ==
  /\ Started /\ Accepting /\ ThreadsCounted /\ New /\ Copies
  /\ Listener!SessionsAgree /\ Listener!ReturnedMeansQuiet

\* The table and what refers to it are left alone by the steps of the threads.
LEMMA TableKept ==
  ASSUME ListenerInv, race => race', UNCHANGED <<mode, sessions, copies, Listener!tableVars>>
  PROVE  New' /\ Copies' /\ Listener!SessionsAgree'
BY DEF ListenerInv, New, Copies, Listener!SessionsAgree, Listener!tableVars

\* A thread that registers a url has found that it is new.
LEMMA EmplaceStep ==
  ASSUME ListenerInv, NEW u \in ListenerUrls, NEW h \in Handlers, Listener!Emplace(u, h)
  PROVE  ListenerInv'
<1>1. New'
  BY Zenon DEF Listener!Emplace, New
<1>2. Started' /\ Accepting'
  BY Zenon DEF ListenerInv, Listener!Emplace, Started, Accepting, Listener!OneAcceptGoesOn,
         Listener!listenVars, Listener!threadVars
<1>3. ThreadsCounted' /\ Listener!ReturnedMeansQuiet' /\ Copies' /\ Listener!SessionsAgree'
  BY Zenon DEF ListenerInv, Listener!Emplace, ThreadsCounted, Listener!ReturnedMeansQuiet,
         Copies, Listener!SessionsAgree, Listener!listenVars, Listener!threadVars
<1> QED
  BY <1>1, <1>2, <1>3 DEF ListenerInv

\* The insertion changes no entry that a copy may have.
LEMMA EmplacedStep ==
  ASSUME ListenerInv, Listener!Emplaced
  PROVE  ListenerInv'
<1>1. New' /\ Started' /\ Accepting'
  BY DEF ListenerInv, Listener!Emplaced, New, Started, Accepting, Listener!OneAcceptGoesOn,
         Listener!listenVars, Listener!threadVars
<1>2. ThreadsCounted' /\ Listener!ReturnedMeansQuiet' /\ Copies'
  BY DEF ListenerInv, Listener!Emplaced, ThreadsCounted, Listener!ReturnedMeansQuiet, Copies,
         Listener!listenVars, Listener!threadVars
<1>3. \A u \in DOMAIN _handlers : u \in DOMAIN _handlers' /\ _handlers'[u] = _handlers[u]
  BY DEF ListenerInv, New, Listener!Emplaced
<1>4. Listener!SessionsAgree'
  BY <1>3 DEF ListenerInv, Listener!SessionsAgree, Listener!Emplaced, Listener!listenVars
<1> QED
  BY <1>1, <1>2, <1>4 DEF ListenerInv

\* The server is started with its port still to be opened.
LEMMA DetachStep ==
  ASSUME ListenerInv, Listener!Detach
  PROVE  ListenerInv'
<1>1. /\ Started' /\ Accepting' /\ ThreadsCounted'
      /\ Listener!ReturnedMeansQuiet'
  BY DEF ListenerInv, Listener!Detach, Started, Accepting, Listener!OneAcceptGoesOn,
         ThreadsCounted, Listener!ReturnedMeansQuiet, Listener!listenVars, Listener!tableVars
<1>2. New' /\ Copies' /\ Listener!SessionsAgree'
  BY TableKept DEF Listener!Detach, Listener!listenVars
<1> QED
  BY <1>1, <1>2 DEF ListenerInv

\* The port is opened, or not, by a server that was started.
LEMMA OpenStep ==
  ASSUME ListenerInv, Threads \in Nat \ {0}, Listener!Open
  PROVE  ListenerInv'
<1>1. Started' /\ Accepting'
  BY DEF ListenerInv, Listener!Open, Listener!AcceptSyncOpen, Listener!AcceptAsync,
         Listener!do_listenOpen, Listener!acceptAsync, Listener!do_accept, Started,
         Accepting, Listener!OneAcceptGoesOn, Listener!listenVars, Listener!threadVars,
         Listener!tableVars
<1>2. ThreadsCounted' /\ Listener!ReturnedMeansQuiet'
  BY DEF ListenerInv, Listener!Open, Listener!AcceptSyncOpen, Listener!AcceptAsync,
         Listener!do_listenOpen, Listener!acceptAsync, ThreadsCounted,
         Listener!ReturnedMeansQuiet, Listener!threadVars
<1>3. New' /\ Copies' /\ Listener!SessionsAgree'
  BY TableKept DEF Listener!Open, Listener!AcceptSyncOpen, Listener!AcceptAsync,
         Listener!do_listenOpen, Listener!acceptAsync, Listener!listenVars
<1> QED
  BY <1>1, <1>2, <1>3 DEF ListenerInv

\* A copy is the table, unless the table is being changed.
LEMMA AcceptSyncStep ==
  ASSUME ListenerInv, None \notin Clients \union {"error"}, NEW c \in Clients,
         Listener!AcceptSync(c)
  PROVE  ListenerInv'
<1>1. Started' /\ Accepting'
  BY Zenon DEF ListenerInv, Listener!AcceptSync, Started, Accepting, Listener!OneAcceptGoesOn,
         Listener!Reads, Listener!threadVars, Listener!tableVars
<1>2. ThreadsCounted' /\ Listener!ReturnedMeansQuiet' /\ New'
  BY DEF ListenerInv, Listener!AcceptSync, ThreadsCounted, Listener!ReturnedMeansQuiet, New,
         Listener!threadVars, Listener!tableVars
<1>3. Copies'
  BY DEF ListenerInv, Listener!AcceptSync, Copies
<1>4. Listener!SessionsAgree'
  <2> SUFFICES ASSUME registering = None, ~race PROVE Listener!SessionsAgree'
    BY DEF Listener!AcceptSync, Listener!Reads, Listener!SessionsAgree
  <2>1. copies' = [copies EXCEPT ![c] = _handlers]
    BY DEF Listener!AcceptSync, Listener!Tables
  <2> QED
    BY <2>1 DEF ListenerInv, Listener!AcceptSync, Copies, Listener!SessionsAgree,
           Listener!tableVars
<1> QED
  BY <1>1, <1>2, <1>3, <1>4 DEF ListenerInv

\* A connection of the asynchronous servers has no copy.
LEMMA AsyncAcceptedStep ==
  ASSUME ListenerInv, None \notin Clients \union {"error"},
         \/ \E c \in Clients : Listener!on_accept(c)
         \/ Listener!on_accept_failed
         \/ Listener!do_listen
  PROVE  ListenerInv'
<1>1. /\ mode # "sync" /\ ready # None
      /\ sessions' \subseteq sessions \union Clients /\ ready' = None /\ accepting'
      /\ UNCHANGED <<mode, race, copies, setup, Listener!threadVars, Listener!tableVars>>
  <2>1. CASE \E c \in Clients : Listener!on_accept(c)
    BY <2>1 DEF Listener!on_accept, Listener!do_accept
  <2>2. CASE Listener!on_accept_failed
    BY <2>2 DEF Listener!on_accept_failed, Listener!do_accept, Started, ListenerInv
  <2>3. CASE Listener!do_listen
    BY <2>3 DEF Listener!do_listen
  <2> QED
    BY <2>1, <2>2, <2>3
<1>2. Started' /\ Accepting'
  BY <1>1 DEF ListenerInv, Started, Accepting, Listener!OneAcceptGoesOn, Listener!threadVars,
         Listener!tableVars
<1>3. ThreadsCounted' /\ Listener!ReturnedMeansQuiet' /\ New'
  BY <1>1 DEF ListenerInv, ThreadsCounted, Listener!ReturnedMeansQuiet, New,
         Listener!threadVars, Listener!tableVars
<1>4. Copies'
  BY <1>1 DEF ListenerInv, Copies
<1>5. Listener!SessionsAgree'
  <2>1. DOMAIN Listener!Empty = {}
    BY DEF Listener!Empty
  <2>2. \A c \in sessions' : copies'[c] = Listener!Empty
    BY <1>1 DEF ListenerInv, Copies
  <2> QED
    BY <2>1, <2>2 DEF Listener!SessionsAgree
<1> QED
  BY <1>2, <1>3, <1>4, <1>5 DEF ListenerInv

\* The accept thread of the synchronous server ends.
LEMMA AcceptSyncThrowsStep ==
  ASSUME ListenerInv, Listener!AcceptSyncThrows
  PROVE  ListenerInv'
<1>1. /\ Started' /\ Accepting' /\ ThreadsCounted'
      /\ Listener!ReturnedMeansQuiet'
  BY DEF ListenerInv, Listener!AcceptSyncThrows, Started, Accepting, Listener!OneAcceptGoesOn,
         ThreadsCounted, Listener!ReturnedMeansQuiet, Listener!tableVars
<1>2. New' /\ Copies' /\ Listener!SessionsAgree'
  BY TableKept DEF Listener!AcceptSyncThrows
<1> QED
  BY <1>1, <1>2 DEF ListenerInv

\* AcceptAsync returns with no thread only if it made none; acceptAsync waits for them.
LEMMA EndingStep ==
  ASSUME ListenerInv, Threads \in Nat \ {0}, Listener!Stop \/ Listener!Ending
  PROVE  ListenerInv'
<1>1. Started' /\ Accepting'
  BY DEF ListenerInv, Listener!Stop, Listener!Ending, Listener!WorkerEnds,
         Listener!AcceptAsyncReturns, Listener!acceptAsyncJoins, Listener!acceptAsyncReturns,
         Started, Accepting, Listener!OneAcceptGoesOn, Listener!listenVars, Listener!tableVars
<1>2. ThreadsCounted' /\ Listener!ReturnedMeansQuiet'
  BY DEF ListenerInv, Listener!Stop, Listener!Ending, Listener!WorkerEnds,
         Listener!AcceptAsyncReturns, Listener!acceptAsyncJoins, Listener!acceptAsyncReturns,
         ThreadsCounted, Listener!ReturnedMeansQuiet
<1>3. New' /\ Copies' /\ Listener!SessionsAgree'
  BY TableKept DEF Listener!Stop, Listener!Ending, Listener!WorkerEnds,
         Listener!AcceptAsyncReturns, Listener!acceptAsyncJoins, Listener!acceptAsyncReturns,
         Listener!listenVars
<1> QED
  BY <1>1, <1>2, <1>3 DEF ListenerInv

\* A client is only served after the start.
LEMMA ClientStep ==
  ASSUME ListenerInv, None \notin Clients \union {"error"}, Listener!ClientSteps
  PROVE  ListenerInv'
<1>0. race => race'
  BY Zenon DEF Listener!ClientSteps, Listener!Connect, Listener!AcceptCompletes, Listener!find,
         Listener!SessionEnds, Listener!AcceptFails, Listener!Reads
<1>1. UNCHANGED <<mode, setup, Listener!threadVars, Listener!tableVars>>
  BY DEF Listener!ClientSteps, Listener!Connect, Listener!AcceptCompletes, Listener!find,
         Listener!SessionEnds, Listener!AcceptFails, Listener!listenVars
<1>2. Started'
  BY Zenon, <1>1 DEF ListenerInv, Listener!ClientSteps, Listener!Connect,
         Listener!AcceptCompletes, Listener!find, Listener!SessionEnds, Listener!AcceptFails,
         Started, Listener!listenVars, Listener!threadVars, Listener!tableVars
<1>3. Accepting'
  BY <1>1 DEF ListenerInv, Accepting, Listener!OneAcceptGoesOn, Listener!ClientSteps,
         Listener!Connect, Listener!AcceptCompletes, Listener!find, Listener!SessionEnds,
         Listener!AcceptFails, Listener!listenVars, Listener!threadVars
<1>4. ThreadsCounted' /\ Listener!ReturnedMeansQuiet' /\ New'
  BY <1>1 DEF ListenerInv, ThreadsCounted, Listener!ReturnedMeansQuiet, New,
         Listener!threadVars, Listener!tableVars
<1>5. CASE \E c \in Clients : Listener!SessionEnds(c)
  <2> PICK c \in Clients : Listener!SessionEnds(c)
    BY <1>5
  <2>0. /\ sessions' \subseteq sessions /\ DOMAIN copies' = DOMAIN copies
        /\ \A x \in sessions' : copies'[x] = copies[x]
        /\ \A x \in DOMAIN copies : copies'[x] = copies[x] \/ copies'[x] = Listener!Empty
    BY DEF Listener!SessionEnds, ListenerInv, Copies
  <2>1. Copies'
    BY <1>1, <2>0 DEF ListenerInv, Copies
  <2>2. Listener!SessionsAgree'
    BY <1>0, <1>1, <2>0 DEF ListenerInv, Listener!SessionsAgree, Listener!tableVars
  <2> QED
    BY <1>2, <1>3, <1>4, <2>1, <2>2 DEF ListenerInv
<1>6. CASE UNCHANGED <<sessions, copies>>
  BY <1>0, <1>1, <1>2, <1>3, <1>4, <1>6, TableKept DEF ListenerInv
<1> QED
  BY Zenon, <1>5, <1>6 DEF Listener!ClientSteps, Listener!Connect, Listener!AcceptCompletes,
         Listener!find, Listener!AcceptFails, Listener!listenVars

\* The accept thread, the threads it makes, the connections and the application
\* never break the invariant, whatever their order.
THEOREM ListenerInvariant ==
  ASSUME None \notin Clients \union {"error"}, Threads \in Nat \ {0}
  PROVE  Listener!Spec => []ListenerInv
<1>1. Listener!Init => ListenerInv
  BY DEF Listener!Init, ListenerInv, Started, ThreadsCounted, New, Copies,
         Accepting, Listener!OneAcceptGoesOn, Listener!SessionsAgree, Listener!ReturnedMeansQuiet
<1>2. ListenerInv /\ [Listener!Next]_(Listener!vars) => ListenerInv'
  <2> SUFFICES ASSUME ListenerInv, [Listener!Next]_(Listener!vars) PROVE ListenerInv'
    OBVIOUS
  <2>1. CASE Listener!App
    BY <2>1, EmplaceStep, EmplacedStep, DetachStep DEF Listener!App, Listener!registerURL,
           Listener!registHandler, Listener!startSync, Listener!startAsync,
           Listener!startAsyncCoro
  <2>2. CASE Listener!Open
    BY <2>2, OpenStep
  <2>3. CASE Listener!Accepted
    BY <2>3, AcceptSyncStep, AsyncAcceptedStep, AcceptSyncThrowsStep DEF Listener!Accepted
  <2>4. CASE Listener!Stop \/ Listener!Ending
    BY <2>4, EndingStep
  <2>5. CASE Listener!ClientSteps
    BY <2>5, ClientStep
  <2>6. CASE UNCHANGED Listener!vars
    BY Zenon, <2>6 DEF Listener!vars, Listener!listenVars, Listener!threadVars,
           Listener!tableVars, ListenerInv, Started, ThreadsCounted, New, Copies,
           Accepting, Listener!OneAcceptGoesOn, Listener!SessionsAgree, Listener!ReturnedMeansQuiet
  <2> QED
    BY <2>1, <2>2, <2>3, <2>4, <2>5, <2>6 DEF Listener!Next
<1> QED
  BY <1>1, <1>2, PTL DEF Listener!Spec

\* Whatever accepts and connections come to, a running server whose port is open has
\* one accept in progress or a handler to run that starts the next (do_accept at the
\* end of on_accept, the loops of AcceptSync and do_listen).
THEOREM OneAcceptAlwaysGoesOn ==
  ASSUME None \notin Clients \union {"error"}, Threads \in Nat \ {0}
  PROVE  Listener!Spec => []Listener!OneAcceptGoesOn
<1>1. ListenerInv => Listener!OneAcceptGoesOn
  BY DEF ListenerInv, Accepting
<1> QED
  BY <1>1, ListenerInvariant, PTL

\* The copy of a synchronous connection never contradicts the table, and an accept
\* function that has returned has left no thread behind.
THEOREM CopiesAndThreads ==
  ASSUME None \notin Clients \union {"error"}, Threads \in Nat \ {0}
  PROVE  Listener!Spec => [](Listener!SessionsAgree /\ Listener!ReturnedMeansQuiet)
<1>1. ListenerInv => Listener!SessionsAgree /\ Listener!ReturnedMeansQuiet
  BY DEF ListenerInv
<1> QED
  BY <1>1, ListenerInvariant, PTL
===============================================================================
