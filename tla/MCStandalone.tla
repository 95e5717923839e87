----------------------------- MODULE MCStandalone -----------------------------
(***************************************************************************)
(* The parts of the library that an application, or a session, uses on     *)
(* their own: a byte stream, a connection of an HTTP server (HttpSession)  *)
(* and its accepting side (HttpListener), a connector, a scheduler, the    *)
(* sending side of a session and a rental pool.  They do not call each     *)
(* other, so a behaviour is that of one of them while the others have not  *)
(* begun.                                                                  *)
(***************************************************************************)
EXTENDS ByteStream, FiniteSets

CONSTANTS
  Modes, Urls, Requests, MaxRequests, MaxSends, NoMessage,   \* of HttpSession
  Clients, ListenerUrls, Handlers, Threads, None,            \* of HttpListener
  UpdateTimes, NoArg, Targets, MaxCalls, MaxSessions,        \* of Connector
  MaxSchedules, Intervals, MaxQueue,                         \* of SimpleScheduler
  Packets, Parts,                                            \* of SendPath
  Items                                                      \* of RentalPool

VARIABLES
  part,   \* whose behaviour it is
  mode, client, sent, nread, pc, nsends, writes, blocking, res_, ec, close, expires,
  fault, responses, lost, twice, silent, thrown,
  ioc, server, setup, accepting, ready, workers, stopped, waiting, sessions, copies,
  _handlers, registering, race,
  _updateTimeMs, strand, waits, armed, rearming, target, resolver, endpoint, app, calls,
  asked, ops, onConnect, ended, assertFailed, status,
  kind, owned, busy, strandOwned, m_spStrand, m_processing, m_currentEntries, entry,
  updateWaits, queue, handler, caller, misuse,
  _sessionType, state, pos, broken, wire, overlapped, tooMany,
  _pool, handles, unused, reused, discarded

sessionVars ==
  <<client, sent, nread, pc, nsends, writes, blocking, res_, ec, close, expires, fault,
    responses, lost, twice, silent, thrown>>
listenerVars ==
  <<ioc, server, setup, accepting, ready, workers, stopped, waiting, sessions, copies,
    _handlers, registering, race>>
connectorVars ==
  <<_updateTimeMs, strand, waits, armed, rearming, target, resolver, endpoint, app, calls,
    asked, ops, onConnect, ended, assertFailed, status>>
schedulerVars ==
  <<kind, owned, busy, strandOwned, m_spStrand, m_processing, m_currentEntries, entry,
    updateWaits, queue, handler, caller, misuse>>
sendVars == <<_sessionType, state, pos, broken, wire, overlapped, tooMany>>
poolVars == <<_pool, handles, unused, reused, discarded>>

partsVars ==
  <<part, vars, mode, sessionVars, listenerVars, connectorVars, schedulerVars, sendVars,
    poolVars>>

Http == INSTANCE HttpSession
Listener == INSTANCE HttpListener WITH Urls <- ListenerUrls
Conn == INSTANCE Connector
Scheduler == INSTANCE SimpleScheduler
Sending == INSTANCE SendPath
Pool == INSTANCE RentalPool

ASSUME ConstantsAssumption ==
  /\ Modes \subseteq {"sync", "async", "coro"}
  /\ MaxRequests \in Nat /\ MaxSends \in Nat
  /\ Threads \in Nat \ {0} /\ None \notin Clients \union {"error"}
  /\ UpdateTimes \subseteq Nat /\ MaxCalls \in Nat /\ MaxSessions \in Nat \ {0}
  /\ "none" \notin Targets
  /\ MaxSchedules \in Nat /\ Intervals \subseteq Nat \ {0}
  /\ Parts \in Nat \ {0}
  /\ IsFiniteSet(Items)

MCHeader == <<"h">>
MCByte == {"0", "h"}

Request0(t, m, k) == [target |-> t, method |-> m, keepAlive |-> k]

SomeRequests ==
  {Request0("/test", "get", TRUE), Request0("/test", "post", FALSE),
   Request0("/test", "delete", TRUE), Request0("/none", "get", TRUE),
   Request0("", "get", TRUE), Request0("malformed", "get", TRUE)}

\* What a part that has not begun could begin as is of no consequence.
PartsInit ==
  /\ part \in {"stream", "session", "listener", "connector", "scheduler", "send", "pool"}
  /\ Init /\ Http!Init /\ Listener!Init /\ Conn!Init /\ Scheduler!Init /\ Sending!Init
  /\ Pool!Init
  /\ part \notin {"session", "listener"} => mode = "async"
  /\ part # "listener" => ioc = "own"
  /\ part # "connector" =>
       /\ _updateTimeMs = (CHOOSE m \in UpdateTimes : TRUE)
       /\ target = (CHOOSE t \in Targets : TRUE)
  /\ part # "scheduler" => kind = "simple"
  /\ part # "send" => _sessionType = "TCP"

PartsNext ==
  /\ \/ /\ part = "stream" /\ Next
        /\ UNCHANGED <<sessionVars, listenerVars, connectorVars, schedulerVars, sendVars,
                       poolVars>>
     \/ /\ part = "session" /\ Http!Next
        /\ UNCHANGED <<vars, listenerVars, connectorVars, schedulerVars, sendVars, poolVars>>
     \/ /\ part = "listener" /\ Listener!Next
        /\ UNCHANGED <<vars, sessionVars, connectorVars, schedulerVars, sendVars, poolVars>>
     \/ /\ part = "connector" /\ Conn!Next
        /\ UNCHANGED <<vars, sessionVars, listenerVars, schedulerVars, sendVars, poolVars>>
     \/ /\ part = "scheduler" /\ Scheduler!Next
        /\ UNCHANGED <<vars, sessionVars, listenerVars, connectorVars, sendVars, poolVars>>
     \/ /\ part = "send" /\ Sending!Next
        /\ UNCHANGED <<vars, sessionVars, listenerVars, connectorVars, schedulerVars, poolVars>>
     \/ /\ part = "pool" /\ Pool!Next
        /\ UNCHANGED <<vars, sessionVars, listenerVars, connectorVars, schedulerVars, sendVars>>
  /\ UNCHANGED <<part, mode>>

PartsSpec ==
  /\ PartsInit
  /\ [][PartsNext]_partsVars
  /\ part = "session" => Http!Fairness
  /\ part = "connector" => Conn!Fairness

-----------------------------------------------------------------------------
\* SendFuncAsync frees a message that is being written only when a handler sends
\* twice, or throws after it has sent.
AliveUnlessSentTwice == Http!AliveUnlessSentTwice

\* The k-th response on a connection answers its k-th request, but in a thread or a
\* coroutine after a handler that sent nothing, or twice.
AnswersMatch == Http!AnswersMatch

\* A handler's std::exception is answered with a server error before HttpServer
\* goes on or ends the connection, if the response can be written at all.
ExceptionsAnswered == Http!ExceptionsAnswered

\* A client that no longer sends or reads does not hold an asynchronous session or
\* a coroutine for ever, unless the handler chose a blocking write.
SilentOnesLeave == part = "session" => Http!SilentClientsLeave

\* An open port is accepted from for as long as the server runs, one client at a
\* time, whatever accepts and connections before have come to.
OneAcceptGoesOn == Listener!OneAcceptGoesOn

\* The connects of a call of connectWait come one at a time and, with those still to
\* come, add up to what was asked for.
ConnectsAddUp == Conn!ConnectsAddUp

\* Once the update timer was armed a wait is pending, or a handler that will arm it
\* again queued or running, however expireTimerReady races handleUpdate.
UpdatesGoOn == Conn!UpdatesGoOn

\* Every session that connectWait was asked for is handed to onConnect, or
\* onConnectFailed is called, unless a session could not be created.
EveryCallSettled == Conn!EveryCallSettled

\* A scheduler that is processing has something that leads to its next tick,
\* however stops and starts race UpdateHandler.
TicksGoOn == Scheduler!TicksGoOn

\* The parts of a packet are mixed with those of another only on a TCP session, and
\* only if one was sent before the other was written.
TornOnlyIfOverlapped == Sending!TornOnlyIfOverlapped
===============================================================================
