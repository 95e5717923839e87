----------------------------- MODULE HttpListener -----------------------------
(***************************************************************************)
(* The accepting side of the HTTP servers: registration of handlers, the   *)
(* thread that start detaches, the accept loop and the threads of the      *)
(* io_context (AcceptSync, AcceptAsync and listener of HttpServer,         *)
(* acceptAsync and do_listen of HttpServerCoro).  A connection is only     *)
(* present as a reader of the table of handlers; HttpSession has the rest. *)
(***************************************************************************)
EXTENDS HttpRequest

CONSTANTS
  Clients, Urls, Handlers,
  Threads,   \* threads asked for
  None

VARIABLES
  mode,
  ioc,          \* the io_context is the server's "own", or "shared" and never idle
  server,       \* "off", "started", "running", "joining", "returned", "terminated"
  setup,        \* opening the port: "none", "ok", "failed"
  accepting,    \* an accept is in progress
  ready,        \* its outcome, before the handler runs: a client or "error"
  workers,      \* threads in io_context::run, the accept thread not counted
  stopped,      \* io_context::stopped
  waiting,      \* clients in the listen queue
  sessions,     \* clients being served
  copies,       \* the table each thread of the synchronous server was given
  _handlers,    \* the table
  registering,  \* url and handler being inserted
  race          \* the table, which has no lock, was read while it was being changed

listenVars == <<accepting, ready, waiting, sessions, copies>>
threadVars == <<server, workers, stopped>>
tableVars == <<_handlers, registering>>
vars == <<mode, ioc, setup, race, listenVars, threadVars, tableVars>>

Empty == [u \in {} |-> None]

Init ==
  /\ mode \in Modes /\ ioc \in {"own", "shared"}
  /\ server = "off" /\ setup = "none"
  /\ accepting = FALSE /\ ready = None
  /\ workers = 0 /\ stopped = FALSE
  /\ waiting = {} /\ sessions = {} /\ copies = [c \in Clients |-> Empty]
  /\ _handlers = Empty /\ registering = None
  /\ race = FALSE

-----------------------------------------------------------------------------
\* One thread of the application registers and starts; it may register after the
\* start too.

\* An empty url and one that is already in the table are refused.
Emplace(u, h) ==
  /\ registering = None /\ server # "terminated"
  /\ u # "" /\ u \notin DOMAIN _handlers
  /\ registering' = <<u, h>>
  /\ UNCHANGED <<mode, ioc, setup, race, listenVars, threadVars, _handlers>>

registerURL(u, h) == mode # "coro" /\ Emplace(u, h)
registHandler(u, h) == mode = "coro" /\ Emplace(u, h)

Emplaced ==
  /\ registering # None
  /\ _handlers' = [u \in DOMAIN _handlers \union {registering[1]} |->
                     IF u = registering[1] THEN registering[2] ELSE _handlers[u]]
  /\ registering' = None
  /\ UNCHANGED <<mode, ioc, setup, race, listenVars, threadVars>>

Detach ==
  /\ server = "off" /\ registering = None
  /\ server' = "started"
  /\ UNCHANGED <<mode, ioc, setup, race, listenVars, workers, stopped, tableVars>>

startSync == mode = "sync" /\ Detach
startAsync == mode = "async" /\ Detach
startAsyncCoro == mode = "coro" /\ Detach

\* The table as a thread that reads it finds it: anything while it changes.
Tables ==
  IF registering = None THEN {_handlers}
  ELSE UNION {[D -> Handlers] : D \in SUBSET Urls}

Reads == race' = (race \/ registering # None)

-----------------------------------------------------------------------------
\* The synchronous server: any exception ends AcceptSync.

AcceptSyncOpen(ok) ==
  /\ mode = "sync" /\ server = "started"
  /\ setup' = (IF ok THEN "ok" ELSE "failed")
  /\ server' = (IF ok THEN "running" ELSE "returned")
  /\ accepting' = ok
  /\ UNCHANGED <<mode, ioc, race, ready, waiting, sessions, copies, workers, stopped,
                 tableVars>>

\* The thread of the connection gets a copy of the table.
AcceptSync(c) ==
  /\ mode = "sync" /\ ready = c /\ c \in Clients
  /\ ready' = None /\ accepting' = TRUE
  /\ sessions' = sessions \union {c}
  /\ \E table \in Tables : copies' = [copies EXCEPT ![c] = table]
  /\ Reads
  /\ UNCHANGED <<mode, ioc, setup, waiting, threadVars, tableVars>>

\* accept failed, or no thread could be made for the client.
AcceptSyncThrows ==
  /\ mode = "sync" /\ ready # None
  /\ ready' = None
  /\ server' = "returned"
  /\ UNCHANGED <<mode, ioc, setup, race, accepting, waiting, sessions, copies, workers,
                 stopped, tableVars>>

-----------------------------------------------------------------------------
\* The asynchronous server.

do_accept == accepting' = TRUE

\* The constructor of the listener returns after a failure; run is called all the
\* same.
AcceptAsync(ok) ==
  /\ mode = "async" /\ server = "started"
  /\ setup' = (IF ok THEN "ok" ELSE "failed")
  /\ do_accept
  /\ workers' = Threads - 1
  /\ server' = "running"
  /\ UNCHANGED <<mode, ioc, race, ready, waiting, sessions, copies, stopped, tableVars>>

on_accept(c) ==
  /\ mode = "async" /\ ready = c /\ c \in Clients /\ ~stopped
  /\ ready' = None
  /\ sessions' = sessions \union {c}
  /\ do_accept
  /\ UNCHANGED <<mode, ioc, setup, race, waiting, copies, threadVars, tableVars>>

on_accept_failed_Returns ==
  /\ mode = "async" /\ ready = "error" /\ ~stopped
  /\ ready' = None
  /\ UNCHANGED <<mode, ioc, setup, race, accepting, waiting, sessions, copies, threadVars,
                 tableVars>>

on_accept_failed ==
  /\ mode = "async" /\ ready = "error" /\ ~stopped
  /\ ready' = None
  /\ do_accept
  /\ UNCHANGED <<mode, ioc, setup, race, waiting, sessions, copies, threadVars, tableVars>>

-----------------------------------------------------------------------------
\* The coroutines.

acceptAsync ==
  /\ mode = "coro" /\ server = "started"
  /\ workers' = Threads - 1
  /\ server' = "running"
  /\ UNCHANGED <<mode, ioc, setup, race, listenVars, stopped, tableVars>>

do_listenOpen(ok) ==
  /\ mode = "coro" /\ server = "running" /\ setup = "none" /\ ~stopped
  /\ setup' = (IF ok THEN "ok" ELSE "failed")
  /\ accepting' = ok
  /\ UNCHANGED <<mode, ioc, race, ready, waiting, sessions, copies, threadVars, tableVars>>

\* One round of the loop.
do_listen ==
  /\ mode = "coro" /\ ready # None /\ ~stopped
  /\ ready' = None
  /\ sessions' = sessions \union ({ready} \intersect Clients)
  /\ accepting' = TRUE
  /\ UNCHANGED <<mode, ioc, setup, race, waiting, copies, threadVars, tableVars>>

-----------------------------------------------------------------------------
\* The io_context and the accept thread.

\* Its owner stops it, or it has run out of work.
Stop ==
  /\ mode # "sync" /\ server = "running" /\ ~stopped
  /\ ioc = "shared" \/ ~(accepting \/ ready # None \/ setup = "none" \/ sessions # {})
  /\ stopped' = TRUE
  /\ UNCHANGED <<mode, ioc, setup, race, listenVars, server, workers, tableVars>>

WorkerEnds ==
  /\ stopped /\ workers > 0
  /\ workers' = workers - 1
  /\ UNCHANGED <<mode, ioc, setup, race, listenVars, server, stopped, tableVars>>

\* AcceptAsync returns without joining: ~vector<thread> terminates the process.
AcceptAsyncReturns ==
  /\ mode = "async" /\ server = "running" /\ stopped
  /\ server' = (IF Threads > 1 THEN "terminated" ELSE "returned")
  /\ UNCHANGED <<mode, ioc, setup, race, listenVars, workers, stopped, tableVars>>

acceptAsyncJoins ==
  /\ mode = "coro" /\ server = "running" /\ stopped
  /\ server' = "joining"
  /\ UNCHANGED <<mode, ioc, setup, race, listenVars, workers, stopped, tableVars>>

acceptAsyncReturns ==
  /\ server = "joining" /\ workers = 0
  /\ server' = "returned"
  /\ UNCHANGED <<mode, ioc, setup, race, listenVars, workers, stopped, tableVars>>

-----------------------------------------------------------------------------
\* Clients.

Connect(c) ==
  /\ setup = "ok" /\ server = "running" /\ c \notin waiting \union sessions \union {ready}
  /\ waiting' = waiting \union {c}
  /\ UNCHANGED <<mode, ioc, setup, race, accepting, ready, sessions, copies, threadVars,
                 tableVars>>

AcceptCompletes(c) ==
  /\ accepting /\ c \in waiting
  /\ accepting' = FALSE /\ ready' = c
  /\ waiting' = waiting \ {c}
  /\ UNCHANGED <<mode, ioc, setup, race, sessions, copies, threadVars, tableVars>>

AcceptFails ==
  /\ accepting
  /\ accepting' = FALSE /\ ready' = "error"
  /\ UNCHANGED <<mode, ioc, setup, race, waiting, sessions, copies, threadVars, tableVars>>

\* A request: its handler is looked up in the copy, or in the table itself.
find(c) ==
  /\ c \in sessions /\ ~stopped
  /\ IF mode = "sync" THEN UNCHANGED race ELSE Reads
  /\ UNCHANGED <<mode, ioc, setup, listenVars, threadVars, tableVars>>

SessionEnds(c) ==
  /\ c \in sessions /\ ~stopped
  /\ sessions' = sessions \ {c}
  /\ copies' = [copies EXCEPT ![c] = Empty]
  /\ UNCHANGED <<mode, ioc, setup, race, accepting, ready, waiting, threadVars, tableVars>>

-----------------------------------------------------------------------------
App ==
  \/ \E u \in Urls, h \in Handlers : registerURL(u, h) \/ registHandler(u, h)
  \/ Emplaced
  \/ startSync \/ startAsync \/ startAsyncCoro

Open ==
  \/ \E ok \in BOOLEAN : AcceptSyncOpen(ok) \/ AcceptAsync(ok) \/ do_listenOpen(ok)
  \/ acceptAsync

Accepted ==
  \/ \E c \in Clients : AcceptSync(c) \/ on_accept(c)
  \/ AcceptSyncThrows
  \/ on_accept_failed
  \/ do_listen

Ending == WorkerEnds \/ AcceptAsyncReturns \/ acceptAsyncJoins \/ acceptAsyncReturns

ClientSteps ==
  \/ \E c \in Clients : Connect(c) \/ AcceptCompletes(c) \/ find(c) \/ SessionEnds(c)
  \/ AcceptFails

Next == server # "terminated" /\ (App \/ Open \/ Accepted \/ Stop \/ Ending \/ ClientSteps)

Spec == Init /\ [][Next]_vars

-----------------------------------------------------------------------------
\* An open port is accepted from for as long as the server runs, one client at a
\* time: an accept is in progress or its handler, which starts the next, is to run,
\* and never both, whatever accepts and connections before have come to.
OneAcceptGoesOn ==
  server = "running" /\ setup = "ok" /\ ~stopped => (accepting <=> ready = None)

\* The copy a connection of the synchronous server works with may lack a url, but
\* never has another handler for it than the table, unless it was made while a url
\* was being inserted.
SessionsAgree ==
  ~race => \A c \in sessions : \A u \in DOMAIN copies[c] :
             u \in DOMAIN _handlers /\ copies[c][u] = _handlers[u]

\* When the accept function has returned, none of the threads that refer to its
\* parameter ioc is left.
ReturnedMeansQuiet == server = "returned" => workers = 0
===============================================================================
