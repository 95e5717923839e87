------------------------------ MODULE NetService ------------------------------
(***************************************************************************)
(* A service and the threads that run it (include/net/netService.hpp).     *)
(* The main thread may start an HttpServer on the same io_context, as      *)
(* main.cpp does, which runs it with threads of its own.  It creates an    *)
(* acceptor, as ioServiceThread does, and calls runService with a          *)
(* callback, which a thread of its own calls once the io_context is not    *)
(* stopped; the callback connects a client.  Completions and handlers need *)
(* a thread inside io_context::run, and run returns, on every thread and   *)
(* for good, when no work is left.                                         *)
(*                                                                         *)
(* The acceptor is module Acceptor and the HttpServer HttpListener; of the *)
(* latter, and of the client, only the threads and the work they give the  *)
(* io_context are modelled, of a session its read.                         *)
(***************************************************************************)
EXTENDS Acceptor

CONSTANTS
  IoWorkerCnt,          \* argument of accept, 0 by default
  HardwareConcurrency   \* 0 where it is not known

ASSUME WorkerAssumption == IoWorkerCnt \in Nat /\ HardwareConcurrency \in Nat

\* workerThreadsCount, set by accept and registAcceptor.
WorkerThreads == IF IoWorkerCnt # 0 THEN IoWorkerCnt ELSE HardwareConcurrency * 2

VARIABLES
  main,      \* what the main thread does next
  created,   \* s_threads that have not entered io_context::run
  running,   \* s_threads inside it
  stopped,   \* io_context::stopped()
  workTimer, \* handler of setWork's wait is queued
  closed,    \* clients whose session has ended
  waiter,    \* waitServiceStart: "none", "wait", "call" or "done"
  client,    \* the callback's connection: "none", "connecting", "settled", "failed"
  http       \* an HttpServer on the same io_context: "none", "started", "running", "returned"

svcVars == <<main, created, running, stopped, workTimer, closed, waiter, client, http>>

allVars == <<vars, svcVars>>

ServiceInit ==
  /\ Init
  /\ main = "createAcceptor"
  /\ created = 0
  /\ running = 0
  /\ stopped = FALSE
  /\ workTimer = FALSE
  /\ closed = {}
  /\ waiter = "none"
  /\ client = "none"
  /\ http \in {"none", "started"}

-----------------------------------------------------------------------------
Sessions == UNION {Range(onAccept[p]) : p \in Ports} \ closed

\* Nothing is outstanding on the io_context.  A connector that has armed its
\* update timer always has something outstanding.
NoWork ==
  /\ ops = {} /\ strand = <<>> /\ waits = 0 /\ ~rearming
  /\ Sessions = {}
  /\ ~workTimer
  /\ client \in {"none", "failed"}
  /\ http # "running"

\* Some thread is inside io_context::run.
Runs == ~stopped /\ (running > 0 \/ main = "inRun" \/ http = "running")

\* The thread that ends the last work stops the io_context.
StopIfIdle == stopped' = NoWork'

-----------------------------------------------------------------------------
\* Worker threads first: one may find no work and stop the io_context.
createTcpAcceptor_ThreadsFirst ==
  /\ main = "createAcceptor"
  /\ acceptWait
  /\ main' = IF setup' = "armed" THEN "runService" ELSE main
  /\ created' = created + IF setup = "tcp" THEN WorkerThreads ELSE 0
  /\ UNCHANGED <<running, stopped, workTimer, closed, waiter, client, http>>

\* createTcpAcceptor: the service is stored, then acceptWait called; it is
\* returned whether or not acceptWait succeeds.
createTcpAcceptor ==
  /\ main = "createAcceptor"
  /\ acceptWait
  /\ main' = CASE setup' = "armed"  -> "addWorkerThreads"
               [] setup' = "failed" -> "runService"
               [] setup' = "threw"  -> "threw"
               [] OTHER             -> "createAcceptor"
  /\ UNCHANGED <<created, running, stopped, workTimer, closed, waiter, client, http>>

addWorkerThreads ==
  /\ main = "addWorkerThreads"
  /\ main' = "runService"
  /\ created' = created + WorkerThreads
  /\ UNCHANGED <<vars, running, stopped, workTimer, closed, waiter, client, http>>

\* setWork.  Its timer is destroyed when it returns, which queues the wait's
\* handler at once.
setWork ==
  /\ main = "runService"
  /\ main' = "startThreads"
  /\ workTimer' = TRUE
  /\ UNCHANGED <<vars, created, running, stopped, closed, waiter, client, http>>

FirstThread(threads) == IF threads = 0 THEN 1 ELSE 0

runService ==
  /\ main = "startThreads"
  /\ main' = "enterRun"
  /\ created' = created + FirstThread(created + running)
  /\ waiter' = "wait"
  /\ UNCHANGED <<vars, running, stopped, workTimer, closed, client, http>>

\* A thread enters io_context::run, which returns at once if it is stopped or
\* has no work.
WorkerEnters ==
  /\ created > 0
  /\ created' = created - 1
  /\ stopped' = (stopped \/ NoWork)
  /\ running' = running + IF stopped' THEN 0 ELSE 1
  /\ UNCHANGED <<vars, main, workTimer, closed, waiter, client, http>>

run ==
  /\ main = "enterRun"
  /\ stopped' = (stopped \/ NoWork)
  /\ main' = IF stopped' THEN "join" ELSE "inRun"
  /\ UNCHANGED <<vars, created, running, workTimer, closed, waiter, client, http>>

runReturns ==
  /\ main = "inRun"
  /\ stopped
  /\ main' = "join"
  /\ UNCHANGED <<vars, created, running, stopped, workTimer, closed, waiter, client, http>>

WorkerReturns ==
  /\ running > 0
  /\ stopped
  /\ running' = running - 1
  /\ UNCHANGED <<vars, main, created, stopped, workTimer, closed, waiter, client, http>>

\* The threads are joined and s_threads cleared.
join ==
  /\ main = "join"
  /\ created = 0 /\ running = 0
  /\ main' = "returned"
  /\ UNCHANGED <<vars, created, running, stopped, workTimer, closed, waiter, client, http>>

-----------------------------------------------------------------------------
waitServiceStart_Inverted ==
  /\ waiter = "wait"
  /\ stopped
  /\ waiter' = "call"
  /\ UNCHANGED <<vars, main, created, running, stopped, workTimer, closed, client, http>>

waitServiceStart ==
  /\ waiter = "wait"
  /\ ~stopped
  /\ waiter' = "call"
  /\ UNCHANGED <<vars, main, created, running, stopped, workTimer, closed, client, http>>

\* The callback, here NetService::connect, whose connectWait may fail.
postServiceStart ==
  /\ waiter = "call"
  /\ waiter' = "done"
  /\ client' \in {"connecting", "failed"}
  /\ UNCHANGED <<vars, main, created, running, stopped, workTimer, closed, http>>

ClientSettles ==
  /\ Runs
  /\ client = "connecting"
  /\ client' = "settled"
  /\ UNCHANGED <<vars, main, created, running, stopped, workTimer, closed, waiter, http>>

\* The handler of setWork's wait does nothing.
WorkHandler ==
  /\ Runs
  /\ workTimer
  /\ workTimer' = FALSE
  /\ UNCHANGED <<vars, main, created, running, closed, waiter, client, http>>
  /\ StopIfIdle

SessionEnds(c) ==
  /\ Runs
  /\ c \in Sessions \intersect gone
  /\ closed' = closed \union {c}
  /\ UNCHANGED <<vars, main, created, running, workTimer, waiter, client, http>>
  /\ StopIfIdle

AcceptorRuns ==
  /\ Runs
  /\ Completions \/ Strand
  /\ UNCHANGED <<main, created, running, workTimer, closed, waiter, client, http>>
  /\ StopIfIdle

\* AcceptAsync of the HttpServer, on the thread startAsync has detached: an accept,
\* which every handler of it renews, before its threads enter io_context::run.  Run
\* of a stopped io_context returns, and the threads not joined end the process.
AcceptAsync ==
  /\ http = "started"
  /\ http' = IF stopped THEN "returned" ELSE "running"
  /\ process' = IF stopped THEN "terminated" ELSE process
  /\ UNCHANGED <<netVars, setup, listening, ops, backlog, arrived, gone, onAccept, broken,
                 main, created, running, stopped, workTimer, closed, waiter, client>>

-----------------------------------------------------------------------------
MainThread ==
  createTcpAcceptor \/ addWorkerThreads \/ setWork \/ runService \/ run \/ runReturns \/ join

Workers ==
  WorkerEnters \/ WorkerReturns \/ WorkHandler \/ AcceptorRuns \/ \E c \in Clients : SessionEnds(c)

Callback == waitServiceStart \/ postServiceStart

Alive == process = "running" /\ main # "threw"

ServiceNext ==
  /\ Alive
  /\ \/ MainThread \/ Workers \/ Callback \/ ClientSettles \/ AcceptAsync
     \/ Environment /\ UNCHANGED svcVars
  /\ UNCHANGED _updateTimeMs

\* Threads are scheduled, and threads inside run take what is ready.
ServiceFairness ==
  /\ WF_allVars(Alive /\ MainThread)
  /\ WF_allVars(Alive /\ (WorkerEnters \/ WorkerReturns))
  /\ WF_allVars(Alive /\ WorkHandler)
  /\ WF_allVars(Alive /\ waitServiceStart)
  /\ WF_allVars(Alive /\ postServiceStart)
  /\ WF_allVars(Alive /\ ClientSettles)
  /\ WF_allVars(Alive /\ AcceptAsync)

ServiceSpec == ServiceInit /\ [][ServiceNext]_<<_updateTimeMs, allVars>>

FairServiceSpec == ServiceSpec /\ ServiceFairness

-----------------------------------------------------------------------------
\* The io_context stops only when both ports are closed for good, no session
\* is left and no update is due: nothing of the acceptor is stranded, however
\* its threads start.
StoppedMeansServed ==
  stopped => /\ ops = {} /\ strand = <<>> /\ waits = 0 /\ ~rearming /\ Sessions = {}
             /\ listening \subseteq Broken

\* The callback is called, and the client it connects served, unless the
\* io_context stops first; the waiting thread then looks at it for ever.
CallbackServed ==
  waiter = "wait" ~> \/ waiter = "done" /\ client # "connecting"
                     \/ stopped \/ ~Alive
===============================================================================
