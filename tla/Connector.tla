------------------------------ MODULE Connector ------------------------------
(***************************************************************************)
(* The connecting side of a service                                        *)
(* (include/net/netServiceConnector.hpp).  The application's thread calls  *)
(* connectWait, which asks for a number of sessions and starts a chain of  *)
(* connects, one after the other on the service strand, or connect, which  *)
(* blocks; either arms the update timer, possibly again.  The target is    *)
(* resolved by the first call and the endpoint kept.                       *)
(***************************************************************************)
EXTENDS NetCommonObjects

CONSTANTS
  Targets,       \* servers setTargetServer may be given
  MaxCalls,      \* bound: calls of connectWait and connect
  MaxSessions    \* bound: sessions asked for by one connectWait

Calls == 1 .. MaxCalls

VARIABLES
  target,      \* _targetAddr, _targetPort
  resolver,    \* "none", "created" when resolve has thrown, "resolved"
  endpoint,    \* target that *_iterEndPoint was resolved from
  app,         \* application thread: "idle", or its next step in expireTimerReady
  calls,       \* calls made
  asked,       \* sessions asked for, per call
  ops,         \* async_connects in progress
  onConnect,   \* targets of the sessions handed to onConnect, per call
  ended,       \* how a chain of connects ended before all were made
  assertFailed,
  status       \* "running", or "terminated" by an exception on a worker thread

connectVars == <<target, resolver, endpoint, app, calls, asked, ops, onConnect, ended,
                 assertFailed, status>>

vars == <<netVars, connectVars>>

Init ==
  /\ netInit
  /\ target \in Targets
  /\ resolver = "none"
  /\ endpoint = "none"
  /\ app = "idle"
  /\ calls = 0
  /\ asked = [k \in Calls |-> 0]
  /\ ops = {}
  /\ onConnect = [k \in Calls |-> <<>>]
  /\ ended = [k \in Calls |-> "no"]
  /\ assertFailed = FALSE
  /\ status = "running"

setTargetServer(t) ==
  /\ app = "idle"
  /\ target' = t
  /\ UNCHANGED <<netVars, resolver, endpoint, app, calls, asked, ops, onConnect, ended,
                 assertFailed, status>>

-----------------------------------------------------------------------------
\* setEndPoint returns true: the target resolves, or did in an earlier call.
EndPointSet ==
  /\ resolver # "created"
  /\ resolver' = "resolved"
  /\ endpoint' = IF resolver = "none" THEN target ELSE endpoint
  /\ UNCHANGED assertFailed

\* setEndPoint returns false: resolve throws, or nothing was kept by the call
\* in which it threw.
EndPointFails ==
  /\ \/ resolver = "none" /\ UNCHANGED assertFailed
     \/ resolver = "created" /\ assertFailed' = TRUE
  /\ resolver' = "created"
  /\ UNCHANGED endpoint

\* expireTimerReady follows unless the service has no updates.
AppNext == IF _updateTimeMs # 0 THEN "expire" ELSE "idle"

NewCall(n) ==
  /\ app = "idle"
  /\ calls < MaxCalls
  /\ calls' = calls + 1
  /\ asked' = [asked EXCEPT ![calls + 1] = n]

Connecting(k, remain) == [call |-> k, remain |-> remain]

\* remainCnt of the first connect.
FirstRemain_All(n) == n

FirstRemain(n) == n - 1

connectAsync(n) ==
  /\ NewCall(n)
  /\ EndPointSet
  /\ ops' = ops \union {Connecting(calls + 1, FirstRemain(n))}
  /\ app' = AppNext
  /\ UNCHANGED <<netVars, target, onConnect, ended, status>>

\* No endpoint, or createConnectSession throws: connectAsync returns false,
\* connectWait nothing.
connectAsyncFails(n) ==
  /\ NewCall(n)
  /\ EndPointSet \/ EndPointFails
  /\ ended' = [ended EXCEPT ![calls + 1] = "unreported"]
  /\ UNCHANGED <<netVars, target, app, ops, onConnect, status>>

\* The caller of connect gets the session, after onConnect on its own thread.
connectSync ==
  /\ NewCall(1)
  /\ EndPointSet
  /\ onConnect' = [onConnect EXCEPT ![calls + 1] = <<endpoint'>>]
  /\ app' = AppNext
  /\ UNCHANGED <<strand, waits, armed, rearming, target, ops, ended, status>>

\* Whatever fails, the caller of connect gets nullptr.
connectSyncFails ==
  /\ NewCall(1)
  /\ EndPointSet \/ EndPointFails
  /\ ended' = [ended EXCEPT ![calls + 1] = "nullptr"]
  /\ UNCHANGED <<netVars, target, app, ops, onConnect, status>>

\* expireTimerReady on the application's thread, while the strand runs.
connectExpire ==
  /\ app = "expire"
  /\ app' = "wait"
  /\ expireTimerCancel
  /\ UNCHANGED <<armed, rearming, target, resolver, endpoint, calls, asked, ops,
                 onConnect,
                 ended, assertFailed, status>>

connectExpireWait ==
  /\ app = "wait"
  /\ app' = "idle"
  /\ expireTimerWait
  /\ UNCHANGED <<strand, rearming, target, resolver, endpoint, calls, asked, ops,
                 onConnect,
                 ended, assertFailed, status>>

-----------------------------------------------------------------------------
\* The connect succeeds or fails.
ConnectEnds(o, ok) ==
  /\ o \in ops
  /\ ops' = ops \ {o}
  /\ strand' = Append(strand, Call("handleConnectAsync", ok, o))
  /\ UNCHANGED <<waits, armed, rearming, target, resolver, endpoint, app, calls, asked,
                 onConnect, ended, assertFailed, status>>

\* The socket is closed, onConnectFailed is called and no other connect made.
handleConnectAsyncFailed ==
  /\ Running("handleConnectAsync", FALSE)
  /\ strand' = Tail(strand)
  /\ ended' = [ended EXCEPT ![Arg.call] = "onConnectFailed"]
  /\ UNCHANGED <<waits, armed, rearming, target, resolver, endpoint, app, calls, asked,
                 ops,
                 onConnect, assertFailed, status>>

\* saveEndPoint, startConnect and onConnect.
Connected ==
  /\ Running("handleConnectAsync", TRUE)
  /\ strand' = Tail(strand)
  /\ onConnect' = [onConnect EXCEPT ![Arg.call] = Append(@, endpoint)]
  /\ UNCHANGED <<waits, armed, rearming, target, resolver, endpoint, app, calls, asked,
                 assertFailed, status>>

\* The connects that follow one with remainCnt left.
NextConnect_NoLast(o) == IF o.remain > 1 THEN {Connecting(o.call, o.remain - 1)} ELSE {}

NextConnect(o) == IF o.remain > 0 THEN {Connecting(o.call, o.remain - 1)} ELSE {}

handleConnectAsync ==
  /\ Connected
  /\ ops' = ops \union NextConnect(Arg)
  /\ UNCHANGED ended

\* createConnectSession throws for the next session, which is only logged.
handleConnectAsyncEnds ==
  /\ Connected
  /\ Arg.remain > 0
  /\ ended' = [ended EXCEPT ![Arg.call] = "unreported"]
  /\ UNCHANGED ops

\* saveEndPoint throws for a peer that has left, out of io_context::run.
handleConnectAsyncThrows ==
  /\ Running("handleConnectAsync", TRUE)
  /\ status' = "terminated"
  /\ UNCHANGED <<netVars, target, resolver, endpoint, app, calls, asked, ops, onConnect,
                 ended, assertFailed>>

-----------------------------------------------------------------------------
Application ==
  \/ \E n \in 1 .. MaxSessions : connectAsync(n) \/ connectAsyncFails(n)
  \/ connectSync \/ connectSyncFails
  \/ connectExpire \/ connectExpireWait

Completions ==
  \/ \E o \in ops, ok \in BOOLEAN : ConnectEnds(o, ok)
  \/ UpdaterExpires /\ UNCHANGED connectVars

\* A worker thread runs the handler at the head of the strand.
Strand ==
  \/ handleConnectAsync \/ handleConnectAsyncEnds
  \/ handleConnectAsyncFailed \/ handleConnectAsyncThrows
  \/ (handleUpdate \/ handleUpdateWait) /\ UNCHANGED connectVars
  \/ handleUpdateAborted /\ UNCHANGED connectVars

Next ==
  /\ status = "running"
  /\ Application \/ Completions \/ Strand \/ \E t \in Targets : setTargetServer(t)
  /\ UNCHANGED _updateTimeMs

\* Worker threads run what is queued, a connect ends, if only by the timeout
\* of the kernel, and the application's thread finishes a call it began.
Fairness ==
  /\ WF_vars(status = "running" /\ Strand)
  /\ WF_vars(status = "running" /\ UpdaterExpires /\ UNCHANGED connectVars)
  /\ \A k \in Calls :
       WF_vars(status = "running" /\ \E o \in ops, ok \in BOOLEAN :
                                        o.call = k /\ ConnectEnds(o, ok))
  /\ WF_vars(status = "running" /\ (connectExpire \/ connectExpireWait))

Spec == Init /\ [][Next]_<<_updateTimeMs, vars>>

-----------------------------------------------------------------------------
\* Connects of call k under way, in the kernel or on the strand.
UnderWay(k) ==
  {o \in ops : o.call = k} \union
  {strand[i].arg : i \in {j \in 1 .. Len(strand) :
                           strand[j].fn = "handleConnectAsync" /\ strand[j].arg.call = k}}

\* The sessions made by a call and the one it is making, with those it will
\* make after it, add up to what was asked for; a chain that has ended makes
\* no more.  Connects of a call are never made two at a time.
ConnectsAddUp ==
  \A k \in Calls :
    /\ \A o, q \in UnderWay(k) : o = q
    /\ ended[k] # "no" => UnderWay(k) = {} /\ Len(onConnect[k]) < asked[k]
    /\ ended[k] = "no" =>
         asked[k] = Len(onConnect[k])
                    + IF UnderWay(k) = {} THEN 0
                      ELSE 1 + (CHOOSE o \in UnderWay(k) : TRUE).remain

\* Arming the timer by a call races handleUpdate, which arms it too, and each of
\* them cancels what it finds.  The updates go on nevertheless: once the timer was
\* armed a wait is pending or a handler that will arm it again is queued.
UpdatesGoOn ==
  armed /\ app # "wait" /\ ~rearming =>
    waits > 0 \/ \E i \in 1 .. Len(strand) : strand[i].fn = "handleUpdate" /\ strand[i].ok

\* Every session that connectWait was asked for is handed to onConnect, or
\* onConnectFailed is called, unless a session could not be created.
EveryCallSettled ==
  \A k \in Calls :
    asked[k] > 0 ~> \/ Len(onConnect[k]) = asked[k]
                    \/ ended[k] # "no"
                    \/ status = "terminated"
==============================================================================
