------------------------------- MODULE Acceptor -------------------------------
(***************************************************************************)
(* The accepting side of a service                                         *)
(* (include/net/netServiceAcceptor.hpp).  acceptWait runs on the           *)
(* application's thread and arms one accept on the TCP port and one on the *)
(* websocket port; from then on each accept is armed by the handler of the *)
(* one before it, on the service strand, so a port is a chain of           *)
(* operations.  A websocket client goes through the handshake before its   *)
(* handleAccept, which arms the next accept.                               *)
(*                                                                         *)
(* Clients connect, leave and fail their handshake when they like.  Stream *)
(* timeouts are one of the ways a handshake fails.                         *)
(***************************************************************************)
EXTENDS NetCommonObjects, Functions, FiniteSets

CONSTANTS
  Clients,      \* clients, each connects once
  MaxClients,   \* bound: how many connect, with each update time
  NoClient      \* argument of a failed accept

ASSUME ClientsAssumption ==
  /\ IsFiniteSet(Clients) /\ NoClient \notin Clients
  /\ MaxClients \in [UpdateTimes -> Nat]

Ports == {"TCP", "WEBSOCKET"}

VARIABLES
  setup,     \* progress of acceptWait
  listening, \* ports on which acceptWait has armed the first accept
  ops,       \* accepts and handshakes in progress
  backlog,   \* clients connected and not yet accepted, per port
  arrived,   \* clients that have connected, per port, in order
  gone,      \* clients that have left
  onAccept,  \* sessions handed to onAccept and started, per port, in order
  broken,    \* accepts and handshakes that have failed
  process    \* "running", or "terminated" by an exception on a worker thread

acceptVars == <<setup, listening, ops, backlog, arrived, gone, onAccept, broken, process>>

vars == <<netVars, acceptVars>>

Accept(p) == [op |-> "accept", port |-> p, client |-> NoClient]

Handshake(c) == [op |-> "handshake", port |-> "WEBSOCKET", client |-> c]

Init ==
  /\ netInit
  /\ setup = "tcp"
  /\ listening = {}
  /\ ops = {}
  /\ backlog = [p \in Ports |-> <<>>]
  /\ arrived = [p \in Ports |-> <<>>]
  /\ gone = {}
  /\ onAccept = [p \in Ports |-> <<>>]
  /\ broken = {}
  /\ process = "running"

-----------------------------------------------------------------------------
\* createSession and the first async_accept of a port.  bind and listen report
\* their error; set_option throws when open has failed.
ArmPort(p, next) ==
  /\ \/ /\ ops' = ops \union {Accept(p)}
        /\ listening' = listening \union {p}
        /\ setup' = next
     \/ /\ setup' \in {"failed", "threw"}
        /\ UNCHANGED <<ops, listening>>
  /\ UNCHANGED <<netVars, backlog, arrived, gone, onAccept, broken, process>>

acceptWaitTcp == setup = "tcp" /\ ArmPort("TCP", "websocket")

acceptWaitWebsocket == setup = "websocket" /\ ArmPort("WEBSOCKET", "timer")

\* expireTimerReady ends acceptWait; no wait is pending before it.
acceptWaitTimer ==
  /\ setup = "timer"
  /\ setup' = "armed"
  /\ IF _updateTimeMs # 0 THEN expireTimerWait ELSE UNCHANGED <<waits, armed>>
  /\ UNCHANGED <<strand, rearming, listening, ops, backlog, arrived, gone, onAccept,
                 broken, process>>

acceptWait == acceptWaitTcp \/ acceptWaitWebsocket \/ acceptWaitTimer

-----------------------------------------------------------------------------
\* A client connects; the kernel completes the connection and queues it.
Connect(c, p) ==
  /\ p \in listening
  /\ \A q \in Ports : c \notin Range(arrived[q])
  /\ Len(arrived["TCP"]) + Len(arrived["WEBSOCKET"]) < MaxClients[_updateTimeMs]
  /\ backlog' = [backlog EXCEPT ![p] = Append(@, c)]
  /\ arrived' = [arrived EXCEPT ![p] = Append(@, c)]
  /\ UNCHANGED <<netVars, setup, listening, ops, gone, onAccept, broken, process>>

Leave(c) ==
  /\ \E p \in Ports : c \in Range(arrived[p])
  /\ c \notin gone
  /\ gone' = gone \union {c}
  /\ UNCHANGED <<netVars, setup, listening, ops, backlog, arrived, onAccept, broken,
                 process>>

\* The handler bound to a port's async_accept.
AcceptHandler(p) == IF p = "TCP" THEN "handleAccept" ELSE "handleWebsocketLayer"

AcceptCompletes(p) ==
  /\ Accept(p) \in ops
  /\ backlog[p] # <<>>
  /\ ops' = ops \ {Accept(p)}
  /\ strand' = Append(strand,
       Call(AcceptHandler(p), TRUE, [port |-> p, client |-> Head(backlog[p])]))
  /\ backlog' = [backlog EXCEPT ![p] = Tail(@)]
  /\ UNCHANGED <<waits, armed, rearming, setup, listening, arrived, gone, onAccept,
                 broken, process>>

\* The accept itself fails, for want of descriptors for example.
AcceptFails(p) ==
  /\ Accept(p) \in ops
  /\ ops' = ops \ {Accept(p)}
  /\ strand' = Append(strand, Call(AcceptHandler(p), FALSE, [port |-> p, client |-> NoClient]))
  /\ UNCHANGED <<waits, armed, rearming, setup, listening, backlog, arrived, gone,
                 onAccept, broken, process>>

\* The handshake succeeds, or fails because the client has left, did not ask
\* for a websocket or let the stream's timeout pass.
HandshakeEnds(c, ok) ==
  /\ Handshake(c) \in ops
  /\ ok => c \notin gone
  /\ ops' = ops \ {Handshake(c)}
  /\ strand' = Append(strand, Call("handleAccept", ok, [port |-> "WEBSOCKET", client |-> c]))
  /\ UNCHANGED <<waits, armed, rearming, setup, listening, backlog, arrived, gone,
                 onAccept, broken, process>>

-----------------------------------------------------------------------------
handleWebsocketLayer_AcceptNext ==
  /\ Running("handleWebsocketLayer", TRUE)
  /\ strand' = Tail(strand)
  /\ ops' = ops \union {Handshake(Arg.client), Accept("WEBSOCKET")}
  /\ UNCHANGED <<waits, armed, rearming, setup, listening, backlog, arrived, gone,
                 onAccept, broken, process>>

handleWebsocketLayer ==
  /\ Running("handleWebsocketLayer", TRUE)
  /\ strand' = Tail(strand)
  /\ ops' = ops \union {Handshake(Arg.client)}
  /\ UNCHANGED <<waits, armed, rearming, setup, listening, backlog, arrived, gone,
                 onAccept, broken, process>>

\* A failed accept or handshake is logged; no accept is armed.
AcceptChainEnds(fn) ==
  /\ Running(fn, FALSE)
  /\ strand' = Tail(strand)
  /\ broken' = broken \union {Arg}
  /\ UNCHANGED <<waits, armed, rearming, setup, listening, ops, backlog, arrived, gone,
                 onAccept, process>>

handleWebsocketLayerFailed == AcceptChainEnds("handleWebsocketLayer")

handleAcceptFailed == AcceptChainEnds("handleAccept")

\* The port on which the next session is accepted: that of the session's type.
NextAccept_AlwaysTcp(p) == "TCP"

NextAccept(p) == p

\* saveEndPoint, onAccept, startAccept, and the accept of the next session.
handleAccept ==
  /\ Running("handleAccept", TRUE)
  /\ strand' = Tail(strand)
  /\ onAccept' = [onAccept EXCEPT ![Arg.port] = Append(@, Arg.client)]
  /\ ops' = ops \union {Accept(NextAccept(Arg.port))}
  /\ UNCHANGED <<waits, armed, rearming, setup, listening, backlog, arrived, gone,
                 broken, process>>

\* saveEndPoint throws for a peer that has left, out of io_context::run.
handleAcceptThrows ==
  /\ Running("handleAccept", TRUE)
  /\ Arg.client \in gone
  /\ process' = "terminated"
  /\ UNCHANGED <<netVars, setup, listening, ops, backlog, arrived, gone, onAccept,
                 broken>>

-----------------------------------------------------------------------------
Completions ==
  \/ \E p \in Ports : AcceptCompletes(p) \/ AcceptFails(p)
  \/ \E c \in Clients, ok \in BOOLEAN : HandshakeEnds(c, ok)
  \/ UpdaterExpires /\ UNCHANGED acceptVars

\* A worker thread runs the handler at the head of the strand.  Nothing
\* cancels an acceptor's wait, so that handleUpdate is never aborted.
Strand ==
  \/ handleWebsocketLayer \/ handleWebsocketLayerFailed
  \/ handleAccept \/ handleAcceptFailed \/ handleAcceptThrows
  \/ (handleUpdate \/ handleUpdateWait) /\ UNCHANGED acceptVars

Environment == \E c \in Clients : Leave(c) \/ \E p \in Ports : Connect(c, p)

Next ==
  /\ process = "running"
  /\ acceptWait \/ Completions \/ Strand \/ Environment
  /\ UNCHANGED _updateTimeMs

Spec == Init /\ [][Next]_<<_updateTimeMs, vars>>

-----------------------------------------------------------------------------
\* Ports on which nothing is accepted any more.
Broken == {b.port : b \in broken}

\* A handler of the port, not of the timer.
HandlerOf(h, p) == h.fn # "handleUpdate" /\ h.arg.port = p

InProgress(p) ==
  Cardinality({o \in ops : o.port = p})
    + Cardinality({i \in 1 .. Len(strand) : HandlerOf(strand[i], p)})

\* A port has exactly one accept, handshake or handler under way as soon as
\* acceptWait armed it, until one of them fails, and none from then on: the
\* chains of the two ports neither fork nor end nor cross.
OneChainPerPort ==
  \A p \in Ports : InProgress(p) = IF p \in listening \ Broken THEN 1 ELSE 0

\* Clients reach onAccept in the order in which they connected, each once and
\* none left out, whatever their handshakes do.
AcceptedInOrder == \A p \in Ports : onAccept[p] = SubSeq(arrived[p], 1, Len(onAccept[p]))
===============================================================================
