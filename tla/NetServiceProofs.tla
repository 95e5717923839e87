--------------------------- MODULE NetServiceProofs ---------------------------
(***************************************************************************)
(* Proofs about Acceptor and NetService for any set of clients, any number *)
(* of worker threads and any update time.                                  *)
(*                                                                         *)
(* A port is a chain: exactly one accept, handshake or handler of it is    *)
(* somewhere in ops or on the strand (Chain).  That one element also says  *)
(* how the clients that have arrived divide into those handed to onAccept, *)
(* the one under way and those in the backlog (Order); the elements of the *)
(* other port do not matter to it.  The io_context stops with nothing in   *)
(* progress, which by Chain means that both chains have ended.             *)
(***************************************************************************)
EXTENDS NetService, FiniteSetTheorems, TLAPS

Peers == Clients \union {NoClient}

PortArg == [port : Ports, client : Peers]

Handlers ==
  [fn : {"handleAccept", "handleWebsocketLayer"}, ok : BOOLEAN, arg : PortArg]
    \union [fn : {"handleUpdate"}, ok : BOOLEAN, arg : {NoArg}]

Operations ==
  {Accept(p) : p \in Ports} \union {Handshake(c) : c \in Peers}

TypeOK ==
  /\ strand \in Seq(Handlers)
  /\ waits \in Nat
  /\ listening \subseteq Ports
  /\ ops \subseteq Operations
  /\ backlog \in [Ports -> Seq(Peers)]
  /\ arrived \in [Ports -> Seq(Peers)]
  /\ onAccept \in [Ports -> Seq(Peers)]
  /\ broken \subseteq PortArg

\* Only websocket sessions go through handleWebsocketLayer.
LayerOnWebsocket ==
  \A i \in 1 .. Len(strand) :
    strand[i].fn = "handleWebsocketLayer" => strand[i].arg.port = "WEBSOCKET"

-----------------------------------------------------------------------------
(* The handlers of a port on a strand: none, or exactly one. *)

NoneOf(q, p) == \A i \in 1 .. Len(q) : ~HandlerOf(q[i], p)

OneOf(q, p) == \E i \in 1 .. Len(q) : \A j \in 1 .. Len(q) : HandlerOf(q[j], p) <=> j = i

\* Its operations in progress: none, or exactly one.
NoOp(p) == \A o \in ops : o.port # p

OneOp(p) == \E o \in ops : \A x \in ops : x.port = p <=> x = o

Chain(p) ==
  IF p \in listening \ Broken
  THEN \/ OneOp(p) /\ NoneOf(strand, p)
       \/ NoOp(p) /\ OneOf(strand, p)
  ELSE NoOp(p) /\ NoneOf(strand, p)

\* Ports that acceptWait has still to arm.
Unarmed ==
  /\ setup = "tcp" => "TCP" \notin listening
  /\ setup \in {"tcp", "websocket"} => "WEBSOCKET" \notin listening

CInv ==
  /\ TypeOK /\ LayerOnWebsocket /\ Unarmed
  /\ Broken \subseteq listening
  /\ \A p \in Ports : Chain(p)

-----------------------------------------------------------------------------
\* Taking the handler at the head.
LEMMA TailFacts ==
  ASSUME NEW q \in Seq(Handlers), q # <<>>
  PROVE  /\ Tail(q) \in Seq(Handlers) /\ Len(Tail(q)) = Len(q) - 1 /\ Len(q) \in Nat \ {0}
         /\ Head(q) = q[1] /\ Head(q) \in Handlers
         /\ \A i \in 1 .. Len(q) - 1 : Tail(q)[i] = q[i + 1]
<1>. HIDE DEF Handlers
<1>. QED OBVIOUS

\* Queueing a handler.
LEMMA AppendFacts ==
  ASSUME NEW q \in Seq(Handlers), NEW h \in Handlers
  PROVE  /\ Append(q, h) \in Seq(Handlers) /\ Len(Append(q, h)) = Len(q) + 1 /\ Len(q) \in Nat
         /\ Append(q, h)[Len(q) + 1] = h
         /\ \A i \in 1 .. Len(q) : Append(q, h)[i] = q[i]
<1>. HIDE DEF Handlers
<1>. QED OBVIOUS

\* t is q with n handlers of the timer behind it.
Extends(t, q, n, ok) ==
  /\ t \in Seq(Handlers) /\ Len(q) \in Nat /\ Len(t) = Len(q) + n
  /\ \A i \in 1 .. Len(q) : t[i] = q[i]
  /\ \A i \in Len(q) + 1 .. Len(q) + n : t[i] = Update(ok)

\* What the waits of the timer add to the strand.
LEMMA ConcatFacts ==
  ASSUME NEW q \in Seq(Handlers), NEW n \in Nat, NEW ok \in BOOLEAN
  PROVE  Extends(q \o Times(n, Update(ok)), q, n, ok)
<1>1. Update(ok) \in Handlers
  BY DEF Update, Call, Handlers
<1>2. Times(n, Update(ok)) \in Seq(Handlers) /\ Len(Times(n, Update(ok))) = n
  BY <1>1 DEF Times
<1>3. \A i \in 1 .. n : Times(n, Update(ok))[i] = Update(ok)
  BY DEF Times
<1>. HIDE DEF Handlers
<1>. QED BY <1>2, <1>3 DEF Extends

\* Queueing a handler of a port that has none gives it one; any other handler
\* leaves the count of the port.
LEMMA AppendOf ==
  ASSUME NEW q \in Seq(Handlers), NEW h \in Handlers, NEW p
  PROVE  /\ HandlerOf(h, p) /\ NoneOf(q, p) => OneOf(Append(q, h), p)
         /\ ~HandlerOf(h, p) /\ NoneOf(q, p) => NoneOf(Append(q, h), p)
         /\ ~HandlerOf(h, p) /\ OneOf(q, p) => OneOf(Append(q, h), p)
<1>. DEFINE t == Append(q, h)
<1>1. /\ Len(t) = Len(q) + 1 /\ Len(q) \in Nat
      /\ t[Len(q) + 1] = h
      /\ \A i \in 1 .. Len(q) : t[i] = q[i]
  BY AppendFacts
<1>. HIDE DEF t
<1>2. ASSUME HandlerOf(h, p), NoneOf(q, p) PROVE OneOf(t, p)
  <2>1. \A j \in 1 .. Len(t) : HandlerOf(t[j], p) <=> j = Len(q) + 1
    BY <1>1, <1>2 DEF NoneOf
  <2>. QED BY <1>1, <2>1 DEF OneOf
<1>3. ASSUME ~HandlerOf(h, p), NoneOf(q, p) PROVE NoneOf(t, p)
  BY <1>1, <1>3 DEF NoneOf
<1>4. ASSUME ~HandlerOf(h, p), OneOf(q, p) PROVE OneOf(t, p)
  <2>1. PICK i \in 1 .. Len(q) : \A j \in 1 .. Len(q) : HandlerOf(q[j], p) <=> j = i
    BY <1>4 DEF OneOf
  <2>2. i \in 1 .. Len(t) /\ \A j \in 1 .. Len(t) : HandlerOf(t[j], p) <=> j = i
    BY <1>1, <1>4, <2>1
  <2>. QED BY <2>2 DEF OneOf
<1>. QED BY <1>2, <1>3, <1>4 DEF t

\* Running the one handler of a port leaves it none; running another leaves
\* the count of the port.
LEMMA TailOf ==
  ASSUME NEW q \in Seq(Handlers), q # <<>>, NEW p
  PROVE  /\ HandlerOf(Head(q), p) => ~NoneOf(q, p)
         /\ HandlerOf(Head(q), p) /\ OneOf(q, p) => NoneOf(Tail(q), p)
         /\ NoneOf(q, p) => NoneOf(Tail(q), p)
         /\ ~HandlerOf(Head(q), p) /\ OneOf(q, p) => OneOf(Tail(q), p)
<1>. DEFINE t == Tail(q)
<1>1. /\ Len(t) = Len(q) - 1 /\ Len(q) \in Nat \ {0} /\ Head(q) = q[1]
      /\ \A i \in 1 .. Len(q) - 1 : t[i] = q[i + 1]
  BY TailFacts
<1>. HIDE DEF t
<1>2. HandlerOf(Head(q), p) => ~NoneOf(q, p)
  BY <1>1 DEF NoneOf
<1>3. ASSUME HandlerOf(Head(q), p), OneOf(q, p) PROVE NoneOf(t, p)
  <2>1. \A j \in 1 .. Len(q) : HandlerOf(q[j], p) <=> j = 1
    BY <1>1, <1>3 DEF OneOf
  <2>. QED BY <1>1, <2>1 DEF NoneOf
<1>4. ASSUME NoneOf(q, p) PROVE NoneOf(t, p)
  BY <1>1, <1>4 DEF NoneOf
<1>5. ASSUME ~HandlerOf(Head(q), p), OneOf(q, p) PROVE OneOf(t, p)
  <2>1. PICK i \in 1 .. Len(q) : \A j \in 1 .. Len(q) : HandlerOf(q[j], p) <=> j = i
    BY <1>5 DEF OneOf
  <2>2. i - 1 \in 1 .. Len(t)
    BY <1>1, <1>5, <2>1
  <2>3. \A j \in 1 .. Len(t) : HandlerOf(t[j], p) <=> j = i - 1
    <3>. TAKE j \in 1 .. Len(t)
    <3>1. j + 1 \in 1 .. Len(q) /\ t[j] = q[j + 1]
      BY <1>1
    <3>. QED BY <2>1, <3>1
  <2>. QED BY Zenon, <2>2, <2>3 DEF OneOf
<1>. QED BY <1>2, <1>3, <1>4, <1>5 DEF t

\* Handlers of the timer leave the count of every port.
LEMMA UpdatesOf ==
  ASSUME NEW q \in Seq(Handlers), NEW n \in Nat, NEW ok \in BOOLEAN, NEW p
  PROVE  /\ NoneOf(q, p) => NoneOf(q \o Times(n, Update(ok)), p)
         /\ OneOf(q, p) => OneOf(q \o Times(n, Update(ok)), p)
<1>. DEFINE t == q \o Times(n, Update(ok))
<1>1. /\ Len(t) = Len(q) + n /\ Len(q) \in Nat
      /\ \A i \in 1 .. Len(q) : t[i] = q[i]
      /\ \A i \in Len(q) + 1 .. Len(q) + n : t[i] = Update(ok)
  BY Zenon, ConcatFacts DEF Extends
<1>. HIDE DEF t
<1>2. ~HandlerOf(Update(ok), p)
  BY DEF Update, Call, HandlerOf
<1>3. \A i \in 1 .. Len(t) : i \in 1 .. Len(q) \/ ~HandlerOf(t[i], p)
  BY <1>1, <1>2
<1>4. ASSUME NoneOf(q, p) PROVE NoneOf(t, p)
  BY <1>1, <1>3, <1>4 DEF NoneOf
<1>5. ASSUME OneOf(q, p) PROVE OneOf(t, p)
  <2>1. PICK i \in 1 .. Len(q) : \A j \in 1 .. Len(q) : HandlerOf(q[j], p) <=> j = i
    BY <1>5 DEF OneOf
  <2>2. i \in 1 .. Len(t) /\ \A j \in 1 .. Len(t) : HandlerOf(t[j], p) <=> j = i
    BY <1>1, <1>3, <2>1
  <2>. QED BY <2>2 DEF OneOf
<1>. QED BY <1>4, <1>5 DEF t
-----------------------------------------------------------------------------
(* Typing *)

\* A step that leaves an acceptor alone; it may end the process.
NoAcceptorStep ==
  UNCHANGED <<netVars, setup, listening, ops, backlog, arrived, gone, onAccept, broken>>

\* Every step of an acceptor, whoever takes it.
AcceptorStep == acceptWait \/ Completions \/ Strand \/ Environment \/ NoAcceptorStep

\* Handlers built by Call have the type of handlers.
LEMMA CallFacts ==
  ASSUME NEW fn \in {"handleAccept", "handleWebsocketLayer"}, NEW ok \in BOOLEAN,
         NEW p \in Ports, NEW c \in Peers
  PROVE  /\ Call(fn, ok, [port |-> p, client |-> c]) \in Handlers
         /\ Call(fn, ok, [port |-> p, client |-> c]).fn = fn
         /\ Call(fn, ok, [port |-> p, client |-> c]).ok = ok
         /\ Call(fn, ok, [port |-> p, client |-> c]).arg.port = p
         /\ Call(fn, ok, [port |-> p, client |-> c]).arg.client = c
BY DEF Call, Handlers, PortArg

\* The argument of a handler of a port is a port and a peer.
LEMMA ArgFacts ==
  ASSUME NEW h \in Handlers, h.fn \in {"handleAccept", "handleWebsocketLayer"}
  PROVE  h.arg \in PortArg /\ h.arg.port \in Ports /\ h.arg.client \in Peers
BY DEF Handlers, PortArg

\* Operations know their port and their client.
LEMMA OpFacts ==
  ASSUME NEW p \in Ports, NEW c \in Peers
  PROVE  /\ Accept(p) \in Operations /\ Accept(p).port = p /\ Accept(p).op = "accept"
         /\ Handshake(c) \in Operations /\ Handshake(c).port = "WEBSOCKET"
         /\ Handshake(c).op = "handshake" /\ Handshake(c).client = c
BY DEF Accept, Handshake, Operations

\* A new acceptor has its types.
LEMMA InitType == Init => TypeOK
BY DEF Init, netInit, TypeOK

\* Every step of an acceptor keeps the types.
LEMMA StepType == TypeOK /\ AcceptorStep => TypeOK'
<1>. SUFFICES ASSUME TypeOK, AcceptorStep PROVE TypeOK'
  OBVIOUS
<1>. USE DEF netVars, acceptVars
<1>p. "TCP" \in Ports /\ "WEBSOCKET" \in Ports /\ NoClient \in Peers /\ Clients \subseteq Peers
  BY DEF Ports, Peers
<1>1. ASSUME NEW p \in Ports, NEW next, ArmPort(p, next) PROVE TypeOK'
  <2>1. ops' \subseteq Operations /\ listening' \subseteq Ports
    BY <1>p, <1>1, OpFacts DEF ArmPort, TypeOK
  <2>. QED BY <1>1, <2>1 DEF ArmPort, TypeOK
<1>2. CASE acceptWait
  <2>1. CASE acceptWaitTimer
    BY <2>1 DEF acceptWaitTimer, expireTimerWait, TypeOK
  <2>. QED BY <1>p, <1>1, <1>2, <2>1 DEF acceptWait, acceptWaitTcp, acceptWaitWebsocket
<1>3. ASSUME NEW p \in Ports, AcceptCompletes(p) PROVE TypeOK'
  <2>1. Head(backlog[p]) \in Peers /\ backlog' \in [Ports -> Seq(Peers)]
    BY <1>3 DEF AcceptCompletes, TypeOK
  <2>2. AcceptHandler(p) \in {"handleAccept", "handleWebsocketLayer"}
    BY DEF AcceptHandler
  <2>3. strand' \in Seq(Handlers)
    BY Zenon, <1>3, <2>1, <2>2, CallFacts, AppendFacts DEF AcceptCompletes, TypeOK
  <2>. QED BY Zenon, <1>3, <2>1, <2>3 DEF AcceptCompletes, TypeOK
<1>4. ASSUME NEW p \in Ports, AcceptFails(p) PROVE TypeOK'
  <2>1. AcceptHandler(p) \in {"handleAccept", "handleWebsocketLayer"}
    BY DEF AcceptHandler
  <2>2. strand' \in Seq(Handlers)
    BY Zenon, <1>p, <1>4, <2>1, CallFacts, AppendFacts DEF AcceptFails, TypeOK
  <2>. QED BY Zenon, <1>4, <2>2 DEF AcceptFails, TypeOK
<1>5. ASSUME NEW c \in Clients, NEW ok \in BOOLEAN, HandshakeEnds(c, ok) PROVE TypeOK'
  <2>1. strand' \in Seq(Handlers)
    BY <1>p, <1>5, CallFacts, AppendFacts DEF HandshakeEnds, TypeOK
  <2>. QED BY <1>5, <2>1 DEF HandshakeEnds, TypeOK
<1>6. CASE UpdaterExpires /\ UNCHANGED acceptVars
  <2>1. strand' \in Seq(Handlers)
    BY Zenon, <1>6, ConcatFacts DEF UpdaterExpires, Extends, TypeOK
  <2>. QED BY Zenon, <1>6, <2>1 DEF UpdaterExpires, TypeOK
<1>7. CASE Completions
  BY <1>3, <1>4, <1>5, <1>6, <1>7 DEF Completions
<1>h. strand # <<>> => Tail(strand) \in Seq(Handlers) /\ Head(strand) \in Handlers
  BY TailFacts DEF TypeOK
<1>8. CASE handleWebsocketLayer
  <2>1. ops' \subseteq Operations
    BY <1>h, <1>p, <1>8, ArgFacts, OpFacts DEF handleWebsocketLayer, Running, Arg, TypeOK
  <2>. QED BY <1>h, <1>8, <2>1 DEF handleWebsocketLayer, Running, TypeOK
<1>9. ASSUME NEW fn \in {"handleAccept", "handleWebsocketLayer"}, AcceptChainEnds(fn) PROVE TypeOK'
  <2>1. broken' \subseteq PortArg
    BY <1>h, <1>9, ArgFacts DEF AcceptChainEnds, Running, Arg, TypeOK
  <2>. QED BY <1>h, <1>9, <2>1 DEF AcceptChainEnds, Running, TypeOK
<1>10. CASE handleAccept
  <2>1. Arg.port \in Ports /\ Arg.client \in Peers
    BY <1>h, <1>10, ArgFacts DEF handleAccept, Running, Arg
  <2>2. ops' \subseteq Operations
    BY <1>10, <1>p, <2>1, OpFacts DEF handleAccept, NextAccept, TypeOK
  <2>3. onAccept' \in [Ports -> Seq(Peers)]
    BY <1>10, <2>1 DEF handleAccept, TypeOK
  <2>. QED BY <1>h, <1>10, <2>2, <2>3 DEF handleAccept, Running, TypeOK
<1>11. CASE handleAcceptThrows
  BY <1>11 DEF handleAcceptThrows, TypeOK
<1>12. CASE handleUpdate /\ UNCHANGED acceptVars
  <2>1. strand' \in Seq(Handlers)
    BY Zenon, <1>h, <1>12, ConcatFacts DEF handleUpdate, Running, expires_from_now, Extends,
           TypeOK
  <2>. QED BY <1>12, <2>1 DEF handleUpdate, TypeOK
<1>u. CASE handleUpdateWait /\ UNCHANGED acceptVars
  BY <1>u DEF handleUpdateWait, TypeOK
<1>13. CASE Strand
  BY <1>8, <1>9, <1>10, <1>11, <1>12, <1>u, <1>13
     DEF Strand, handleWebsocketLayerFailed, handleAcceptFailed
<1>14. CASE Environment
  <2>1. ASSUME NEW c \in Clients, Leave(c) PROVE TypeOK'
    BY <2>1 DEF Leave, TypeOK
  <2>2. ASSUME NEW c \in Clients, NEW p \in Ports, Connect(c, p) PROVE TypeOK'
    <3>1. backlog' \in [Ports -> Seq(Peers)] /\ arrived' \in [Ports -> Seq(Peers)]
      BY <1>p, <2>2 DEF Connect, TypeOK
    <3>. QED BY <2>2, <3>1 DEF Connect, TypeOK
  <2>. QED BY <1>14, <2>1, <2>2 DEF Environment
<1>15. CASE NoAcceptorStep
  BY <1>15 DEF NoAcceptorStep, TypeOK
<1>. QED BY <1>2, <1>7, <1>13, <1>14, <1>15 DEF AcceptorStep
-----------------------------------------------------------------------------
(* The chains *)

\* A chain starts with its first accept, which the other port does not see.
LEMMA ChainStarts ==
  ASSUME CInv, NEW o \in Operations, o.port \notin listening,
         ops' = ops \union {o}, listening' = listening \union {o.port},
         UNCHANGED <<strand, broken>>
  PROVE  \A p \in Ports : Chain(p)'
<1>. TAKE p \in Ports
<1>1. Chain(p) /\ Broken \subseteq listening /\ Broken' = Broken
  BY DEF CInv, Broken
<1>2. CASE p = o.port
  <2>1. NoOp(p) /\ NoneOf(strand, p) /\ p \notin Broken
    BY <1>1, <1>2 DEF Chain
  <2>2. OneOp(p)' /\ NoneOf(strand, p)' /\ (p \in listening \ Broken)'
    BY <1>1, <1>2, <2>1 DEF OneOp, NoOp, NoneOf
  <2>. QED BY <2>2 DEF Chain
<1>3. CASE p # o.port
  <2>1. /\ NoOp(p)' <=> NoOp(p)
        /\ OneOp(p) => OneOp(p)'
        /\ (p \in listening \ Broken)' <=> p \in listening \ Broken
    BY <1>1, <1>3 DEF NoOp, OneOp
  <2>. QED BY <1>1, <2>1 DEF Chain, NoneOf, OneOf
<1>. QED BY <1>2, <1>3

\* An operation completes: its handler takes its place in the chain.
LEMMA ChainCompletes ==
  ASSUME CInv, NEW o \in ops, NEW h \in Handlers,
         \A p \in Ports : HandlerOf(h, p) <=> o.port = p,
         ops' = ops \ {o}, strand' = Append(strand, h), UNCHANGED <<listening, broken>>
  PROVE  \A p \in Ports : Chain(p)'
<1>. TAKE p \in Ports
<1>1. /\ Chain(p) /\ strand \in Seq(Handlers)
      /\ (p \in listening \ Broken)' <=> p \in listening \ Broken
  BY DEF CInv, Broken, TypeOK
<1>2. CASE o.port = p
  <2>1. OneOp(p) /\ NoneOf(strand, p) /\ p \in listening \ Broken
    BY <1>1, <1>2 DEF Chain, NoOp
  <2>2. NoOp(p)'
    BY <1>2, <2>1 DEF OneOp, NoOp
  <2>3. OneOf(strand, p)'
    BY <1>1, <1>2, <2>1, AppendOf
  <2>. QED BY <1>1, <2>1, <2>2, <2>3 DEF Chain
<1>3. CASE o.port # p
  <2>1. (NoOp(p) => NoOp(p)') /\ (OneOp(p) => OneOp(p)')
    BY <1>3 DEF NoOp, OneOp
  <2>2. /\ NoneOf(strand, p) => NoneOf(strand, p)'
        /\ OneOf(strand, p) => OneOf(strand, p)'
    BY <1>1, <1>3, AppendOf
  <2>. QED BY <1>1, <2>1, <2>2 DEF Chain
<1>. QED BY <1>2, <1>3

\* A handler starts the next operation, which takes its place in the chain.
LEMMA ChainGoesOn ==
  ASSUME CInv, strand # <<>>, NEW o \in Operations,
         \A p \in Ports : HandlerOf(Head(strand), p) <=> o.port = p,
         ops' = ops \union {o}, strand' = Tail(strand), UNCHANGED <<listening, broken>>
  PROVE  \A p \in Ports : Chain(p)'
<1>. TAKE p \in Ports
<1>1. /\ Chain(p) /\ strand \in Seq(Handlers)
      /\ (p \in listening \ Broken)' <=> p \in listening \ Broken
  BY DEF CInv, Broken, TypeOK
<1>2. CASE o.port = p
  <2>1. NoOp(p) /\ OneOf(strand, p) /\ p \in listening \ Broken
    BY <1>1, <1>2, TailOf DEF Chain
  <2>2. OneOp(p)'
    BY <1>2, <2>1 DEF OneOp, NoOp
  <2>3. NoneOf(strand, p)'
    BY <1>1, <1>2, <2>1, TailOf
  <2>. QED BY <1>1, <2>1, <2>2, <2>3 DEF Chain
<1>3. CASE o.port # p
  <2>1. (NoOp(p) => NoOp(p)') /\ (OneOp(p) => OneOp(p)')
    BY <1>3 DEF NoOp, OneOp
  <2>2. /\ NoneOf(strand, p) => NoneOf(strand, p)'
        /\ OneOf(strand, p) => OneOf(strand, p)'
    BY <1>1, <1>3, TailOf
  <2>. QED BY <1>1, <2>1, <2>2 DEF Chain
<1>. QED BY <1>2, <1>3

\* A handler ends its chain and starts nothing.
LEMMA ChainEnds ==
  ASSUME CInv, strand # <<>>, NEW q \in Ports,
         \A p \in Ports : HandlerOf(Head(strand), p) <=> q = p,
         Broken' = Broken \union {q}, strand' = Tail(strand), UNCHANGED <<listening, ops>>
  PROVE  q \in listening /\ \A p \in Ports : Chain(p)'
<1>1. strand \in Seq(Handlers) /\ (\A p \in Ports : Chain(p)) /\ TypeOK
  BY DEF CInv, TypeOK
<1>2. q \in listening /\ NoOp(q) /\ OneOf(strand, q)
  BY <1>1, TailOf DEF Chain
<1>3. ASSUME NEW p \in Ports PROVE Chain(p)'
  <2>1. CASE q = p
    <3>1. NoOp(p)' /\ NoneOf(strand, p)'
      BY <1>1, <1>2, <2>1, TailOf DEF NoOp
    <3>. QED BY <2>1, <3>1 DEF Chain
  <2>2. CASE q # p
    <3>1. /\ (p \in listening \ Broken)' <=> p \in listening \ Broken
          /\ NoOp(p)' <=> NoOp(p)
          /\ OneOp(p)' <=> OneOp(p)
      BY <2>2 DEF NoOp, OneOp
    <3>2. /\ NoneOf(strand, p) => NoneOf(strand, p)'
          /\ OneOf(strand, p) => OneOf(strand, p)'
      BY <1>1, <2>2, TailOf
    <3>. QED BY <1>1, <3>1, <3>2 DEF Chain
  <2>. QED BY <2>1, <2>2
<1>. QED BY <1>2, <1>3

\* A step that leaves every port's operations and handlers as they are.
LEMMA ChainKept ==
  ASSUME CInv, UNCHANGED <<ops, listening, broken>>,
         \A p \in Ports : /\ NoneOf(strand, p) => NoneOf(strand, p)'
                          /\ OneOf(strand, p) => OneOf(strand, p)'
  PROVE  \A p \in Ports : Chain(p)'
<1>. TAKE p \in Ports
<1>1. /\ (p \in listening \ Broken)' <=> p \in listening \ Broken
      /\ NoOp(p)' <=> NoOp(p)
      /\ OneOp(p)' <=> OneOp(p)
  BY DEF NoOp, OneOp, Broken
<1>. QED BY <1>1 DEF Chain, CInv

\* A handler of a port at the head of the strand belongs to that port only.
LEMMA HeadOf ==
  ASSUME TypeOK, NEW fn \in {"handleAccept", "handleWebsocketLayer"}, NEW ok, Running(fn, ok)
  PROVE  /\ strand # <<>> /\ Head(strand) \in Handlers
         /\ Head(strand).fn = fn /\ Head(strand).ok = ok /\ Arg = Head(strand).arg
         /\ Arg \in PortArg /\ Arg.port \in Ports /\ Arg.client \in Peers
         /\ \A p \in Ports : HandlerOf(Head(strand), p) <=> Arg.port = p
<1>1. strand # <<>> /\ Head(strand) \in Handlers /\ Head(strand).fn = fn /\ Head(strand).ok = ok
  BY TailFacts DEF TypeOK, Running
<1>. QED BY <1>1, ArgFacts DEF Arg, HandlerOf

\* Every step of an acceptor keeps the chains.
LEMMA StepChain ==
  ASSUME CInv, AcceptorStep
  PROVE  CInv'
<1>. USE DEF netVars, acceptVars
<1>t. /\ TypeOK /\ TypeOK' /\ LayerOnWebsocket /\ Unarmed /\ Broken \subseteq listening
      /\ strand \in Seq(Handlers) /\ waits \in Nat
      /\ "TCP" \in Ports /\ "WEBSOCKET" \in Ports /\ NoClient \in Peers /\ Clients \subseteq Peers
  BY Zenon, StepType DEF CInv, TypeOK, Ports, Peers
<1>l. /\ UNCHANGED strand => LayerOnWebsocket'
      /\ strand # <<>> /\ strand' = Tail(strand) => LayerOnWebsocket'
      /\ \A h \in Handlers : strand' = Append(strand, h)
           /\ (h.fn = "handleWebsocketLayer" => h.arg.port = "WEBSOCKET") => LayerOnWebsocket'
  <2>1. CASE UNCHANGED strand
    BY <1>t, <2>1 DEF LayerOnWebsocket
  <2>2. CASE strand # <<>> /\ strand' = Tail(strand)
    <3>1. /\ Len(strand') = Len(strand) - 1 /\ Len(strand) \in Nat \ {0}
          /\ \A i \in 1 .. Len(strand) - 1 : strand'[i] = strand[i + 1]
      BY <1>t, <2>2, TailFacts
    <3>2. \A i \in 1 .. Len(strand') : i + 1 \in 1 .. Len(strand) /\ strand'[i] = strand[i + 1]
      BY <3>1
    <3>. QED BY Zenon, <1>t, <3>2 DEF LayerOnWebsocket
  <2>3. ASSUME NEW h \in Handlers, strand' = Append(strand, h),
               h.fn = "handleWebsocketLayer" => h.arg.port = "WEBSOCKET"
        PROVE  LayerOnWebsocket'
    <3>1. /\ Len(strand') = Len(strand) + 1 /\ Len(strand) \in Nat
          /\ strand'[Len(strand) + 1] = h
          /\ \A i \in 1 .. Len(strand) : strand'[i] = strand[i]
      BY <1>t, <2>3, AppendFacts
    <3>. QED BY <1>t, <2>3, <3>1 DEF LayerOnWebsocket
  <2>. QED BY <2>1, <2>2, <2>3
<1>1. ASSUME NEW p \in Ports, NEW next, p \notin listening, ArmPort(p, next),
             \/ p = "TCP" /\ setup = "tcp" /\ next = "websocket"
             \/ p = "WEBSOCKET" /\ setup = "websocket" /\ next = "timer"
      PROVE  CInv'
  <2>1. LayerOnWebsocket' /\ Broken' = Broken
    BY <1>1, <1>l DEF ArmPort, Broken
  <2>2. CASE ops' = ops \union {Accept(p)} /\ listening' = listening \union {p} /\ setup' = next
    <3>1. \A x \in Ports : Chain(x)'
      BY <1>1, <2>2, <1>t, OpFacts, ChainStarts DEF ArmPort
    <3>2. Unarmed'
      BY <1>1, <1>t, <2>2 DEF Unarmed
    <3>. QED BY <1>t, <2>1, <2>2, <3>1, <3>2 DEF CInv
  <2>3. CASE setup' \in {"failed", "threw"} /\ UNCHANGED <<ops, listening>>
    <3>1. \A x \in Ports : Chain(x)'
      BY <1>1, <2>3, ChainKept DEF ArmPort, NoneOf, OneOf
    <3>2. Unarmed'
      BY <2>3 DEF Unarmed
    <3>. QED BY <1>t, <2>1, <2>3, <3>1, <3>2 DEF CInv
  <2>. QED BY <1>1, <2>2, <2>3 DEF ArmPort
<1>2. ASSUME UNCHANGED <<ops, listening, broken, strand>>, setup' = setup \/ setup' = "armed"
      PROVE  CInv'
  <2>1. \A x \in Ports : Chain(x)'
    BY <1>2, ChainKept DEF NoneOf, OneOf
  <2>2. Unarmed' /\ (Broken \subseteq listening)'
    BY <1>2, <1>t DEF Unarmed, Broken
  <2>. QED BY <1>t, <1>l, <1>2, <2>1, <2>2 DEF CInv
<1>3. CASE acceptWait
  BY <1>1, <1>2, <1>3, <1>t
     DEF acceptWait, acceptWaitTcp, acceptWaitWebsocket, acceptWaitTimer, Unarmed
<1>4. ASSUME NEW o \in ops, NEW h \in Handlers, \A p \in Ports : HandlerOf(h, p) <=> o.port = p,
             h.fn = "handleWebsocketLayer" => h.arg.port = "WEBSOCKET",
             ops' = ops \ {o}, strand' = Append(strand, h), UNCHANGED <<listening, broken, setup>>
      PROVE  CInv'
  <2>1. \A p \in Ports : Chain(p)'
    BY <1>4, ChainCompletes
  <2>2. Unarmed' /\ (Broken \subseteq listening)' /\ LayerOnWebsocket'
    BY <1>4, <1>t, <1>l DEF Unarmed, Broken
  <2>. QED BY <1>t, <2>1, <2>2 DEF CInv
<1>5. ASSUME NEW p \in Ports, AcceptCompletes(p) \/ AcceptFails(p) PROVE CInv'
  <2>1. PICK ok \in BOOLEAN, c \in Peers :
          strand' = Append(strand, Call(AcceptHandler(p), ok, [port |-> p, client |-> c]))
    <3>1. AcceptCompletes(p) => Head(backlog[p]) \in Peers
      BY <1>t DEF AcceptCompletes, TypeOK
    <3>. QED BY Zenon, <1>5, <1>t, <3>1 DEF AcceptCompletes, AcceptFails
  <2>2. /\ AcceptHandler(p) \in {"handleAccept", "handleWebsocketLayer"}
        /\ AcceptHandler(p) = "handleWebsocketLayer" => p = "WEBSOCKET"
    BY DEF AcceptHandler, Ports
  <2>. DEFINE h == Call(AcceptHandler(p), ok, [port |-> p, client |-> c])
  <2>3. h \in Handlers /\ h.fn = AcceptHandler(p) /\ h.arg.port = p
    BY <2>2, CallFacts
  <2>4. Accept(p) \in ops /\ Accept(p).port = p /\ ops' = ops \ {Accept(p)}
    BY Zenon, <1>5, <1>t, OpFacts DEF AcceptCompletes, AcceptFails
  <2>5. \A x \in Ports : HandlerOf(h, x) <=> Accept(p).port = x
    BY <2>2, <2>3, <2>4 DEF HandlerOf
  <2>6. UNCHANGED <<listening, broken, setup>> /\ strand' = Append(strand, h)
    BY Zenon, <1>5, <2>1 DEF AcceptCompletes, AcceptFails
  <2>. HIDE DEF h
  <2>. QED BY <1>4, <2>2, <2>3, <2>4, <2>5, <2>6
<1>6. ASSUME NEW c \in Clients, NEW ok \in BOOLEAN, HandshakeEnds(c, ok) PROVE CInv'
  <2>. DEFINE h == Call("handleAccept", ok, [port |-> "WEBSOCKET", client |-> c])
  <2>1. h \in Handlers /\ h.fn = "handleAccept" /\ h.arg.port = "WEBSOCKET"
    BY <1>t, CallFacts
  <2>2. /\ Handshake(c) \in ops /\ Handshake(c).port = "WEBSOCKET"
        /\ ops' = ops \ {Handshake(c)} /\ strand' = Append(strand, h)
        /\ UNCHANGED <<listening, broken, setup>>
    BY <1>6, <1>t, OpFacts DEF HandshakeEnds
  <2>3. \A x \in Ports : HandlerOf(h, x) <=> Handshake(c).port = x
    BY <2>1, <2>2 DEF HandlerOf
  <2>. HIDE DEF h
  <2>. QED BY <1>4, <2>1, <2>2, <2>3
<1>7. ASSUME NEW q \in Seq(Handlers), NEW ok \in BOOLEAN, q = strand \/ (strand # <<>> /\ q = Tail(strand)),
             \A p \in Ports : /\ NoneOf(strand, p) => NoneOf(q, p)
                              /\ OneOf(strand, p) => OneOf(q, p),
             strand' = q \o Times(waits, Update(ok)),
             UNCHANGED <<ops, listening, broken, setup>>
      PROVE  CInv'
  <2>1. /\ \A p \in Ports : /\ NoneOf(strand, p) => NoneOf(strand, p)'
                            /\ OneOf(strand, p) => OneOf(strand, p)'
    BY <1>7, <1>t, UpdatesOf
  <2>2. \A p \in Ports : Chain(p)'
    BY <1>7, <2>1, ChainKept
  <2>3. /\ Len(strand') = Len(q) + waits /\ Len(q) \in Nat
        /\ \A i \in 1 .. Len(q) : strand'[i] = q[i]
        /\ \A i \in Len(q) + 1 .. Len(q) + waits : strand'[i] = Update(ok)
    <3>1. Extends(q \o Times(waits, Update(ok)), q, waits, ok)
      BY <1>t, ConcatFacts
    <3>2. Extends(strand', q, waits, ok)
      BY Zenon, <1>7, <3>1
    <3>. QED BY <3>2 DEF Extends
  <2>4. \A i \in 1 .. Len(q) : q[i].fn = "handleWebsocketLayer" => q[i].arg.port = "WEBSOCKET"
    <3>1. CASE q = strand
      BY <1>t, <3>1 DEF LayerOnWebsocket
    <3>2. CASE strand # <<>> /\ q = Tail(strand)
      <4>1. \A i \in 1 .. Len(q) : i + 1 \in 1 .. Len(strand) /\ q[i] = strand[i + 1]
        BY <1>t, <3>2, TailFacts
      <4>. QED BY <1>t, <4>1 DEF LayerOnWebsocket
    <3>. QED BY <1>7, <3>1, <3>2
  <2>5. Update(ok).fn = "handleUpdate"
    BY DEF Update, Call
  <2>6. LayerOnWebsocket'
    <3>1. \A i \in 1 .. Len(strand') : i \in 1 .. Len(q) \/ i \in Len(q) + 1 .. Len(q) + waits
      BY <1>t, <2>3
    <3>2. ASSUME NEW i \in 1 .. Len(strand'), strand'[i].fn = "handleWebsocketLayer"
          PROVE  strand'[i].arg.port = "WEBSOCKET"
      BY Zenon, <2>3, <2>4, <2>5, <3>1, <3>2
    <3>. QED BY <3>2 DEF LayerOnWebsocket
  <2>7. Unarmed' /\ (Broken \subseteq listening)'
    BY <1>7, <1>t DEF Unarmed, Broken
  <2>. QED BY <1>t, <2>2, <2>6, <2>7 DEF CInv
<1>8. CASE UpdaterExpires /\ UNCHANGED acceptVars
  BY Zenon, <1>7, <1>8, <1>t DEF UpdaterExpires
<1>9. CASE handleUpdate /\ UNCHANGED acceptVars
  <2>1. strand # <<>> /\ \A p \in Ports : ~HandlerOf(Head(strand), p)
    BY <1>9 DEF handleUpdate, Running, HandlerOf
  <2>2. /\ Tail(strand) \in Seq(Handlers)
        /\ \A p \in Ports : /\ NoneOf(strand, p) => NoneOf(Tail(strand), p)
                            /\ OneOf(strand, p) => OneOf(Tail(strand), p)
    BY <1>t, <2>1, TailOf, TailFacts
  <2>. QED BY Zenon, <1>7, <1>9, <2>1, <2>2 DEF handleUpdate, expires_from_now
<1>10. ASSUME strand # <<>>, NEW o \in Operations,
              \A p \in Ports : HandlerOf(Head(strand), p) <=> o.port = p,
              ops' = ops \union {o}, strand' = Tail(strand), UNCHANGED <<listening, broken, setup>>
       PROVE  CInv'
  <2>1. \A p \in Ports : Chain(p)'
    BY <1>10, ChainGoesOn
  <2>2. Unarmed' /\ (Broken \subseteq listening)' /\ LayerOnWebsocket'
    BY <1>10, <1>t, <1>l DEF Unarmed, Broken
  <2>. QED BY <1>t, <2>1, <2>2 DEF CInv
<1>11. CASE handleWebsocketLayer
  <2>1. /\ strand # <<>> /\ Arg.client \in Peers
        /\ \A p \in Ports : HandlerOf(Head(strand), p) <=> Arg.port = p
        /\ Head(strand).fn = "handleWebsocketLayer" /\ Arg = Head(strand).arg
    BY Zenon, <1>t, <1>11, HeadOf DEF handleWebsocketLayer
  <2>2. Arg.port = "WEBSOCKET"
    BY <1>t, <2>1, TailFacts DEF LayerOnWebsocket
  <2>3. Handshake(Arg.client) \in Operations /\ Handshake(Arg.client).port = "WEBSOCKET"
    BY <1>t, <2>1, OpFacts
  <2>. QED BY <1>10, <1>11, <2>1, <2>2, <2>3 DEF handleWebsocketLayer
<1>12. CASE handleAccept
  <2>1. /\ strand # <<>> /\ Arg.port \in Ports
        /\ \A p \in Ports : HandlerOf(Head(strand), p) <=> Arg.port = p
    BY Zenon, <1>t, <1>12, HeadOf DEF handleAccept
  <2>2. Accept(Arg.port) \in Operations /\ Accept(Arg.port).port = Arg.port
    BY <1>t, <2>1, OpFacts
  <2>. QED BY <1>10, <1>12, <2>1, <2>2 DEF handleAccept, NextAccept
<1>13. ASSUME NEW fn \in {"handleAccept", "handleWebsocketLayer"}, AcceptChainEnds(fn) PROVE CInv'
  <2>1. /\ strand # <<>> /\ Arg.port \in Ports /\ strand' = Tail(strand)
        /\ \A p \in Ports : HandlerOf(Head(strand), p) <=> Arg.port = p
    BY Zenon, <1>t, <1>13, HeadOf DEF AcceptChainEnds
  <2>2. Broken' = Broken \union {Arg.port} /\ UNCHANGED <<listening, ops, setup>>
    BY <1>13 DEF AcceptChainEnds, Broken
  <2>3. PICK q \in Ports : q = Arg.port
    BY <2>1
  <2>4. q \in listening /\ \A p \in Ports : Chain(p)'
    BY <2>1, <2>2, <2>3, ChainEnds
  <2>5. Unarmed' /\ (Broken \subseteq listening)' /\ LayerOnWebsocket'
    BY <1>t, <1>l, <2>1, <2>2, <2>3, <2>4 DEF Unarmed
  <2>. QED BY <1>t, <2>4, <2>5 DEF CInv
<1>u. CASE handleUpdateWait /\ UNCHANGED acceptVars
  BY Zenon, <1>2, <1>u DEF handleUpdateWait
<1>14. CASE Strand
  BY Zenon, <1>2, <1>9, <1>u, <1>11, <1>12, <1>13, <1>14
     DEF Strand, handleWebsocketLayerFailed, handleAcceptFailed, handleAcceptThrows
<1>15. CASE Completions
  BY <1>5, <1>6, <1>8, <1>15 DEF Completions
<1>16. CASE Environment \/ NoAcceptorStep
  BY Zenon, <1>2, <1>16 DEF Environment, Leave, Connect, NoAcceptorStep
<1>. QED BY <1>3, <1>14, <1>15, <1>16 DEF AcceptorStep
\* What the chain says of the counts: exactly one operation or handler of a
\* port is under way, or none.
LEMMA ChainCounts ==
  ASSUME CInv
  PROVE  OneChainPerPort
<1>. SUFFICES ASSUME NEW p \in Ports
              PROVE  InProgress(p) = IF p \in listening \ Broken THEN 1 ELSE 0
  BY DEF OneChainPerPort
<1>. DEFINE A == {o \in ops : o.port = p}
            B == {i \in 1 .. Len(strand) : HandlerOf(strand[i], p)}
<1>1. /\ NoOp(p) => A = {}
      /\ OneOp(p) => \E o \in ops : A = {o}
      /\ NoneOf(strand, p) => B = {}
      /\ OneOf(strand, p) => \E i \in 1 .. Len(strand) : B = {i}
  BY DEF NoOp, OneOp, NoneOf, OneOf
<1>2. InProgress(p) = Cardinality(A) + Cardinality(B)
  BY DEF InProgress
<1>3. /\ Cardinality({}) = 0
      /\ \A x : Cardinality({x}) = 1
  BY FS_EmptySet, FS_Singleton
<1>4. Chain(p)
  BY DEF CInv
<1>. HIDE DEF A, B
<1>5. CASE p \in listening \ Broken
  <2>1. CASE OneOp(p) /\ NoneOf(strand, p)
    <3>1. Cardinality(A) = 1 /\ Cardinality(B) = 0
      BY Zenon, <1>1, <1>3, <2>1
    <3>. QED BY <1>2, <1>5, <3>1
  <2>2. CASE NoOp(p) /\ OneOf(strand, p)
    <3>1. Cardinality(A) = 0 /\ Cardinality(B) = 1
      BY Zenon, <1>1, <1>3, <2>2
    <3>. QED BY <1>2, <1>5, <3>1
  <2>. QED BY <1>4, <1>5, <2>1, <2>2 DEF Chain
<1>6. CASE p \notin listening \ Broken
  <2>1. Cardinality(A) = 0 /\ Cardinality(B) = 0
    BY Zenon, <1>1, <1>3, <1>4, <1>6 DEF Chain
  <2>. QED BY <1>2, <1>6, <2>1
<1>. QED BY <1>5, <1>6

-----------------------------------------------------------------------------
(* The order of the clients: all who arrived are those handed to onAccept, *)
(* then the one in the chain if there is one, then the backlog.            *)

Started(all, done) == Len(done) <= Len(all) /\ \A i \in 1 .. Len(done) : all[i] = done[i]

Split(all, done, rest, k) ==
  /\ Started(all, done)
  /\ Len(all) = Len(done) + k + Len(rest)
  /\ \A i \in 1 .. Len(rest) : all[Len(done) + k + i] = rest[i]

Free(p) == Split(arrived[p], onAccept[p], backlog[p], 0)

Taken(p, c) ==
  /\ Split(arrived[p], onAccept[p], backlog[p], 1)
  /\ arrived[p][Len(onAccept[p]) + 1] = c

Order(p) ==
  /\ Started(arrived[p], onAccept[p])
  /\ \A o \in ops : o.port = p => IF o.op = "accept" THEN Free(p) ELSE Taken(p, o.client)
  /\ \A i \in 1 .. Len(strand) :
       HandlerOf(strand[i], p) /\ strand[i].ok => Taken(p, strand[i].arg.client)

\* A client arrives behind the others.
LEMMA SplitArrives ==
  ASSUME NEW a \in Seq(Peers), NEW d \in Seq(Peers), NEW r \in Seq(Peers),
         NEW k \in {0, 1}, NEW c \in Peers
  PROVE  /\ Started(a, d) => Started(Append(a, c), d)
         /\ Split(a, d, r, k) => Split(Append(a, c), d, Append(r, c), k)
         /\ Split(a, d, r, 1) => Append(a, c)[Len(d) + 1] = a[Len(d) + 1]
<1>1. /\ Len(Append(a, c)) = Len(a) + 1 /\ Len(a) \in Nat /\ Len(d) \in Nat /\ Len(r) \in Nat
      /\ \A i \in 1 .. Len(a) : Append(a, c)[i] = a[i]
      /\ Append(a, c)[Len(a) + 1] = c
      /\ Len(Append(r, c)) = Len(r) + 1
      /\ \A i \in 1 .. Len(r) : Append(r, c)[i] = r[i]
      /\ Append(r, c)[Len(r) + 1] = c
  OBVIOUS
<1>. DEFINE aa == Append(a, c)
            rr == Append(r, c)
<1>. HIDE DEF aa, rr
<1>2. Started(a, d) => Started(aa, d)
  BY <1>1 DEF Started, aa
<1>3. ASSUME Split(a, d, r, k) PROVE Split(aa, d, rr, k)
  <2>1. Started(aa, d) /\ Len(aa) = Len(d) + k + Len(rr)
    BY <1>1, <1>2, <1>3 DEF Split, aa, rr
  <2>2. ASSUME NEW i \in 1 .. Len(rr) PROVE aa[Len(d) + k + i] = rr[i]
    <3>1. CASE i \in 1 .. Len(r)
      <4>1. Len(d) + k + i \in 1 .. Len(a) /\ a[Len(d) + k + i] = r[i]
        BY <1>1, <1>3, <3>1 DEF Split
      <4>. QED BY <1>1, <3>1, <4>1 DEF aa, rr
    <3>2. CASE i = Len(r) + 1
      <4>1. Len(d) + k + i = Len(a) + 1
        BY <1>1, <1>3, <3>2 DEF Split
      <4>. QED BY <1>1, <3>2, <4>1 DEF aa, rr
    <3>3. i \in 1 .. Len(r) \/ i = Len(r) + 1
      BY <1>1 DEF rr
    <3>. QED BY <3>1, <3>2, <3>3
  <2>. QED BY <2>1, <2>2 DEF Split
<1>4. Split(a, d, r, 1) => aa[Len(d) + 1] = a[Len(d) + 1]
  BY <1>1 DEF Split, aa
<1>. QED BY Zenon, <1>2, <1>3, <1>4 DEF aa, rr

\* The first client of the backlog is accepted.
LEMMA SplitAccepts ==
  ASSUME NEW a \in Seq(Peers), NEW d \in Seq(Peers), NEW r \in Seq(Peers), r # <<>>,
         Split(a, d, r, 0)
  PROVE  Split(a, d, Tail(r), 1) /\ a[Len(d) + 1] = Head(r)
<1>1. /\ Len(Tail(r)) = Len(r) - 1 /\ Len(r) \in Nat \ {0} /\ Len(d) \in Nat /\ Head(r) = r[1]
      /\ \A i \in 1 .. Len(r) - 1 : Tail(r)[i] = r[i + 1]
  OBVIOUS
<1>. DEFINE t == Tail(r)
<1>. HIDE DEF t
<1>2. a[Len(d) + 1] = Head(r)
  BY <1>1 DEF Split
<1>3. Started(a, d) /\ Len(a) = Len(d) + 1 + Len(t)
  BY <1>1 DEF Split, t
<1>4. ASSUME NEW i \in 1 .. Len(t) PROVE a[Len(d) + 1 + i] = t[i]
  <2>1. i + 1 \in 1 .. Len(r) /\ t[i] = r[i + 1] /\ Len(d) + 0 + (i + 1) = Len(d) + 1 + i
    BY <1>1 DEF t
  <2>. QED BY <2>1 DEF Split
<1>. QED BY <1>2, <1>3, <1>4 DEF Split, t

\* The client in the chain is handed to onAccept.
LEMMA SplitDone ==
  ASSUME NEW a \in Seq(Peers), NEW d \in Seq(Peers), NEW r \in Seq(Peers), NEW c \in Peers,
         Split(a, d, r, 1), a[Len(d) + 1] = c
  PROVE  Split(a, Append(d, c), r, 0)
<1>1. /\ Len(Append(d, c)) = Len(d) + 1 /\ Len(d) \in Nat /\ Len(r) \in Nat
      /\ \A i \in 1 .. Len(d) : Append(d, c)[i] = d[i]
      /\ Append(d, c)[Len(d) + 1] = c
  OBVIOUS
<1>. DEFINE t == Append(d, c)
<1>. HIDE DEF t
<1>2. Started(a, t) /\ Len(a) = Len(t) + 0 + Len(r)
  BY <1>1 DEF Split, Started, t
<1>3. ASSUME NEW i \in 1 .. Len(r) PROVE a[Len(t) + 0 + i] = r[i]
  <2>1. Len(t) + 0 + i = Len(d) + 1 + i
    BY <1>1 DEF t
  <2>. QED BY <2>1 DEF Split
<1>. QED BY <1>2, <1>3 DEF Split, t

\* The clients handed to onAccept are the first of those who arrived.
LEMMA StartedPrefix ==
  ASSUME NEW a \in Seq(Peers), NEW d \in Seq(Peers), Started(a, d)
  PROVE  d = SubSeq(a, 1, Len(d))
<1>1. Len(d) \in Nat /\ Len(a) \in Nat /\ Len(d) <= Len(a)
  BY DEF Started
<1>. QED BY <1>1 DEF Started

\* A port whose clients do not move keeps its order when what is queued or
\* started knows the client it has taken.
LEMMA OrderKept ==
  ASSUME NEW p \in Ports, Order(p),
         arrived'[p] = arrived[p], onAccept'[p] = onAccept[p], backlog'[p] = backlog[p],
         \A o \in ops' : o.port = p =>
            o \in ops \/ (IF o.op = "accept" THEN Free(p) ELSE Taken(p, o.client)),
         \A i \in 1 .. Len(strand') :
            HandlerOf(strand'[i], p) /\ strand'[i].ok =>
              \/ \E j \in 1 .. Len(strand) : strand'[i] = strand[j]
              \/ Taken(p, strand'[i].arg.client)
  PROVE  Order(p)'
<1>1. Free(p)' <=> Free(p)
  BY Zenon DEF Free
<1>2. \A c : Taken(p, c)' <=> Taken(p, c)
  BY DEF Taken
<1>3. Started(arrived[p], onAccept[p])'
  BY DEF Order
<1>4. ASSUME NEW o \in ops', o.port = p
      PROVE  IF o.op = "accept" THEN Free(p)' ELSE Taken(p, o.client)'
  BY Zenon, <1>1, <1>2, <1>4 DEF Order
<1>5. ASSUME NEW i \in 1 .. Len(strand'), HandlerOf(strand'[i], p), strand'[i].ok
      PROVE  Taken(p, strand'[i].arg.client)
  BY Zenon, <1>5 DEF Order
<1>6. ASSUME NEW i \in 1 .. Len(strand'), HandlerOf(strand'[i], p), strand'[i].ok
      PROVE  \E c : c = strand'[i].arg.client /\ Taken(p, c)'
  BY Zenon, <1>2, <1>5, <1>6
<1>. QED BY Zenon, <1>3, <1>4, <1>6 DEF Order, Taken
\* What a handler taken or added leaves on the strand: handlers that were
\* there, the one added, and handlers of the timer.
LEMMA StrandKept ==
  ASSUME TypeOK
  PROVE  /\ strand # <<>> =>
              \A i \in 1 .. Len(Tail(strand)) :
                \E j \in 1 .. Len(strand) : Tail(strand)[i] = strand[j]
         /\ \A h \in Handlers : \A i \in 1 .. Len(Append(strand, h)) :
              \/ Append(strand, h)[i] = h
              \/ \E j \in 1 .. Len(strand) : Append(strand, h)[i] = strand[j]
         /\ \A q \in Seq(Handlers), ok \in BOOLEAN, p \in Ports :
              \A i \in 1 .. Len(q \o Times(waits, Update(ok))) :
                HandlerOf((q \o Times(waits, Update(ok)))[i], p) =>
                  \E j \in 1 .. Len(q) : (q \o Times(waits, Update(ok)))[i] = q[j]
<1>1. strand \in Seq(Handlers) /\ waits \in Nat
  BY DEF TypeOK
<1>2. ASSUME strand # <<>>, NEW i \in 1 .. Len(Tail(strand))
      PROVE  \E j \in 1 .. Len(strand) : Tail(strand)[i] = strand[j]
  <2>1. i + 1 \in 1 .. Len(strand) /\ Tail(strand)[i] = strand[i + 1]
    BY <1>1, <1>2, TailFacts
  <2>. QED BY <2>1
<1>3. ASSUME NEW h \in Handlers, NEW i \in 1 .. Len(Append(strand, h))
      PROVE  \/ Append(strand, h)[i] = h
             \/ \E j \in 1 .. Len(strand) : Append(strand, h)[i] = strand[j]
  <2>1. i = Len(strand) + 1 \/ i \in 1 .. Len(strand)
    BY <1>1, AppendFacts
  <2>. QED BY <1>1, <2>1, AppendFacts
<1>4. ASSUME NEW q \in Seq(Handlers), NEW ok \in BOOLEAN, NEW p \in Ports,
             NEW i \in 1 .. Len(q \o Times(waits, Update(ok))),
             HandlerOf((q \o Times(waits, Update(ok)))[i], p)
      PROVE  \E j \in 1 .. Len(q) : (q \o Times(waits, Update(ok)))[i] = q[j]
  <2>. DEFINE t == q \o Times(waits, Update(ok))
  <2>0. Extends(t, q, waits, ok)
    BY Zenon, <1>1, ConcatFacts
  <2>1. /\ Len(t) = Len(q) + waits /\ Len(q) \in Nat
        /\ \A k \in 1 .. Len(q) : t[k] = q[k]
        /\ \A k \in Len(q) + 1 .. Len(q) + waits : t[k] = Update(ok)
    BY Zenon, <2>0 DEF Extends
  <2>2. ~HandlerOf(Update(ok), p)
    BY DEF Update, Call, HandlerOf
  <2>3. i \in 1 .. Len(t) /\ HandlerOf(t[i], p)
    BY <1>4
  <2>. HIDE DEF t
  <2>4. i \in 1 .. Len(q) /\ t[i] = q[i]
    BY <1>1, <2>1, <2>2, <2>3
  <2>. QED BY <2>4 DEF t
<1>. QED BY Zenon, <1>2, <1>3, <1>4

\* No client has reached a port that is not listening.
Unreached ==
  \A p \in Ports :
    p \notin listening => arrived[p] = <<>> /\ onAccept[p] = <<>> /\ backlog[p] = <<>>

\* The two halves of a step that moves the operation in progress on a port to
\* the strand: the other port is left alone.
LEMMA OrderElsewhere ==
  ASSUME NEW p \in Ports, NEW h, Order(p), ~HandlerOf(h, p),
         arrived'[p] = arrived[p], onAccept'[p] = onAccept[p], backlog'[p] = backlog[p],
         \A o \in ops' : o.port = p => o \in ops,
         \A i \in 1 .. Len(strand') :
            strand'[i] = h \/ \E j \in 1 .. Len(strand) : strand'[i] = strand[j]
  PROVE  Order(p)'
<1>1. \A i \in 1 .. Len(strand') :
        HandlerOf(strand'[i], p) /\ strand'[i].ok =>
          \/ \E j \in 1 .. Len(strand) : strand'[i] = strand[j]
          \/ Taken(p, strand'[i].arg.client)
  OBVIOUS
<1>. QED BY Zenon, <1>1, OrderKept

\* A client is accepted: the handler queued for it takes it next.
LEMMA OrderAccepts ==
  ASSUME CInv, \A p \in Ports : Order(p), NEW q \in Ports, AcceptCompletes(q), NEW p \in Ports
  PROVE  Order(p)'
<1>t. /\ TypeOK /\ strand \in Seq(Handlers) /\ arrived \in [Ports -> Seq(Peers)]
      /\ onAccept \in [Ports -> Seq(Peers)] /\ backlog \in [Ports -> Seq(Peers)]
      /\ NoClient \in Peers
  BY DEF CInv, TypeOK, Peers
<1>0. backlog[q] # <<>> /\ backlog[q] \in Seq(Peers)
  BY <1>t DEF AcceptCompletes
<1>1. PICK c \in Peers : c = Head(backlog[q])
  BY <1>0
<1>2. AcceptHandler(q) \in {"handleAccept", "handleWebsocketLayer"}
  BY DEF AcceptHandler
<1>3. PICK h \in Handlers : /\ h = Call(AcceptHandler(q), TRUE, [port |-> q, client |-> c])
                            /\ h.arg.port = q /\ h.arg.client = c /\ h.fn # "handleUpdate"
  <2>. DEFINE h == Call(AcceptHandler(q), TRUE, [port |-> q, client |-> c])
  <2>1. /\ h \in Handlers /\ h.fn = AcceptHandler(q)
        /\ h.arg.port = q /\ h.arg.client = c
    <3>1. \A fn \in {"handleAccept", "handleWebsocketLayer"} :
            /\ Call(fn, TRUE, [port |-> q, client |-> c]) \in Handlers
            /\ Call(fn, TRUE, [port |-> q, client |-> c]).fn = fn
            /\ Call(fn, TRUE, [port |-> q, client |-> c]).arg.port = q
            /\ Call(fn, TRUE, [port |-> q, client |-> c]).arg.client = c
      BY DEF Call, Handlers, PortArg
    <3>. QED BY Zenon, <1>2, <3>1
  <2>2. AcceptHandler(q) # "handleUpdate"
    BY <1>2
  <2>. QED BY Zenon, <2>1, <2>2
<1>4. /\ Accept(q) \in ops /\ Accept(q).port = q /\ Accept(q).op = "accept"
      /\ ops' = ops \ {Accept(q)} /\ strand' = Append(strand, h)
      /\ backlog' = [backlog EXCEPT ![q] = Tail(backlog[q])]
      /\ UNCHANGED <<arrived, onAccept>>
  BY Zenon, <1>1, <1>3, <1>t, OpFacts DEF AcceptCompletes
<1>5. \A i \in 1 .. Len(strand') :
        strand'[i] = h \/ \E j \in 1 .. Len(strand) : strand'[i] = strand[j]
  BY Zenon, <1>t, <1>4, StrandKept
<1>6. CASE p # q
  <2>1. ~HandlerOf(h, p) /\ backlog'[p] = backlog[p]
    BY Zenon, <1>t, <1>3, <1>4, <1>6 DEF HandlerOf
  <2>. QED BY Zenon, <1>4, <1>5, <2>1, OrderElsewhere
<1>7. CASE p = q
  <2>1. Free(q) /\ OneOp(q) /\ NoneOf(strand, q)
    BY Zenon, <1>4 DEF Order, CInv, Chain, NoOp
  <2>2. \A o \in ops' : o.port # q
    BY <1>4, <2>1 DEF OneOp
  <2>3. Taken(q, c)'
    <3>1. Split(arrived[q], onAccept[q], Tail(backlog[q]), 1) /\ arrived[q][Len(onAccept[q]) + 1] = c
      BY <1>t, <1>0, <1>1, <2>1, SplitAccepts DEF Free
    <3>2. arrived'[q] = arrived[q] /\ onAccept'[q] = onAccept[q] /\ backlog'[q] = Tail(backlog[q])
      BY <1>t, <1>4
    <3>. QED BY Zenon, <3>1, <3>2 DEF Taken
  <2>4. \A i \in 1 .. Len(strand') : HandlerOf(strand'[i], q) => strand'[i].arg.client = c
    BY Zenon, <1>3, <1>5, <2>1 DEF NoneOf
  <2>5. Started(arrived[q], onAccept[q])'
    BY Zenon, <2>3 DEF Taken, Split
  <2>. QED BY Zenon, <1>7, <2>2, <2>3, <2>4, <2>5 DEF Order
<1>. QED BY <1>6, <1>7

\* A session reaches onAccept: the next client is the next of the backlog.
LEMMA OrderDone ==
  ASSUME CInv, \A p \in Ports : Order(p), handleAccept, NEW p \in Ports
  PROVE  Order(p)'
<1>t. /\ TypeOK /\ strand \in Seq(Handlers) /\ arrived \in [Ports -> Seq(Peers)]
      /\ onAccept \in [Ports -> Seq(Peers)] /\ backlog \in [Ports -> Seq(Peers)]
  BY DEF CInv, TypeOK
<1>0. strand # <<>> /\ Head(strand).fn = "handleAccept" /\ Head(strand).ok
  BY DEF handleAccept, Running
<1>1. /\ Head(strand) \in Handlers /\ Head(strand) = strand[1] /\ 1 \in 1 .. Len(strand)
      /\ Head(strand).arg.port \in Ports /\ Head(strand).arg.client \in Peers
  BY <1>t, <1>0, TailFacts, ArgFacts
<1>2. PICK q \in Ports, c \in Peers : q = Arg.port /\ c = Arg.client
  BY <1>1 DEF Arg
<1>3. /\ HandlerOf(Head(strand), q) /\ strand' = Tail(strand)
      /\ onAccept' = [onAccept EXCEPT ![q] = Append(onAccept[q], c)]
      /\ ops' = ops \union {Accept(q)} /\ UNCHANGED <<arrived, backlog>>
      /\ Accept(q).port = q /\ Accept(q).op = "accept"
  BY Zenon, <1>0, <1>1, <1>2 DEF handleAccept, HandlerOf, Arg, NextAccept, Accept
<1>4. \A i \in 1 .. Len(strand') : \E j \in 1 .. Len(strand) : strand'[i] = strand[j]
  BY Zenon, <1>t, <1>0, <1>3, StrandKept
<1>5. CASE p # q
  <2>1. onAccept'[p] = onAccept[p] /\ \A o \in ops' : o.port = p => o \in ops
    BY <1>t, <1>3, <1>5
  <2>. QED BY Zenon, <1>3, <1>4, <2>1, OrderKept
<1>6. CASE p = q
  <2>1. Taken(q, c)
    BY Zenon, <1>0, <1>1, <1>2, <1>3 DEF Order, Arg
  <2>2. ~NoneOf(strand, q) /\ (OneOf(strand, q) => NoneOf(Tail(strand), q))
    BY <1>t, <1>0, <1>3, TailOf
  <2>3. NoOp(q) /\ NoneOf(strand', q)
    BY <1>3, <2>2 DEF CInv, Chain
  <2>4. Free(q)'
    <3>1. Split(arrived[q], Append(onAccept[q], c), backlog[q], 0)
      BY Zenon, <1>t, <2>1, SplitDone DEF Taken
    <3>2. arrived'[q] = arrived[q] /\ onAccept'[q] = Append(onAccept[q], c) /\ backlog'[q] = backlog[q]
      BY <1>t, <1>3
    <3>. QED BY <3>1, <3>2 DEF Free
  <2>5. \A o \in ops' : o.port = q => o.op = "accept"
    BY <1>3, <2>3 DEF NoOp
  <2>6. Started(arrived[q], onAccept[q])'
    BY <2>4 DEF Free, Split
  <2>. QED BY Zenon, <1>6, <2>3, <2>4, <2>5, <2>6 DEF Order, NoneOf
<1>. QED BY <1>5, <1>6
\* A port armed by acceptWait has met no client yet.
LEMMA OrderStarts ==
  ASSUME CInv, Unreached, \A p \in Ports : Order(p), NEW q \in Ports, q \notin listening,
         ops' = ops \union {Accept(q)}, UNCHANGED <<strand, arrived, onAccept, backlog>>,
         NEW p \in Ports
  PROVE  Order(p)'
<1>1. Accept(q).port = q /\ Accept(q).op = "accept"
  BY DEF Accept
<1>2. Free(q)
  <2>1. arrived[q] = <<>> /\ onAccept[q] = <<>> /\ backlog[q] = <<>>
    BY DEF Unreached
  <2>2. Split(<<>>, <<>>, <<>>, 0)
    BY DEF Split, Started
  <2>. QED BY Zenon, <2>1, <2>2 DEF Free
<1>3. \A o \in ops' : o.port = p =>
        o \in ops \/ (IF o.op = "accept" THEN Free(p) ELSE Taken(p, o.client))
  BY <1>1, <1>2
<1>. QED BY <1>3, OrderKept

\* A client arrives behind the ones that wait.
LEMMA OrderArrives ==
  ASSUME CInv, \A p \in Ports : Order(p), NEW c \in Clients, NEW q \in Ports, Connect(c, q),
         NEW p \in Ports
  PROVE  Order(p)'
<1>t. /\ arrived \in [Ports -> Seq(Peers)] /\ onAccept \in [Ports -> Seq(Peers)]
      /\ backlog \in [Ports -> Seq(Peers)] /\ c \in Peers
  BY DEF CInv, TypeOK, Peers
<1>1. /\ arrived' = [arrived EXCEPT ![q] = Append(arrived[q], c)]
      /\ backlog' = [backlog EXCEPT ![q] = Append(backlog[q], c)]
      /\ UNCHANGED <<strand, ops, onAccept>>
  BY DEF Connect, netVars
<1>2. CASE p # q
  <2>1. arrived'[p] = arrived[p] /\ backlog'[p] = backlog[p]
    BY <1>t, <1>1, <1>2
  <2>. QED BY Zenon, <1>1, <2>1, OrderKept
<1>3. CASE p = q
  <2>1. /\ arrived'[q] = Append(arrived[q], c) /\ backlog'[q] = Append(backlog[q], c)
        /\ onAccept'[q] = onAccept[q]
    BY <1>t, <1>1
  <2>2. /\ Started(arrived'[q], onAccept'[q])
        /\ Free(q) => Split(arrived'[q], onAccept'[q], backlog'[q], 0)
        /\ \A x : Taken(q, x) => /\ Split(arrived'[q], onAccept'[q], backlog'[q], 1)
                                 /\ arrived'[q][Len(onAccept'[q]) + 1] = x
    <3>. DEFINE a == arrived[q]
                d == onAccept[q]
                r == backlog[q]
    <3>1. /\ a \in Seq(Peers) /\ d \in Seq(Peers) /\ r \in Seq(Peers) /\ Started(a, d)
          /\ Free(q) <=> Split(a, d, r, 0)
          /\ \A x : Taken(q, x) <=> Split(a, d, r, 1) /\ a[Len(d) + 1] = x
      BY Zenon, <1>t DEF Order, Free, Taken
    <3>. HIDE DEF a, d, r
    <3>2. /\ Started(Append(a, c), d)
          /\ Split(a, d, r, 0) => Split(Append(a, c), d, Append(r, c), 0)
          /\ Split(a, d, r, 1) =>
               Split(Append(a, c), d, Append(r, c), 1) /\ Append(a, c)[Len(d) + 1] = a[Len(d) + 1]
      BY ZenonT(30), <1>t, <3>1, SplitArrives
    <3>3. arrived'[q] = Append(a, c) /\ onAccept'[q] = d /\ backlog'[q] = Append(r, c)
      BY <2>1 DEF a, d, r
    <3>. QED BY Zenon, <3>1, <3>2, <3>3
  <2>3. (Free(q) => Free(q)') /\ \A x : Taken(q, x) => Taken(q, x)'
    BY Zenon, <2>2 DEF Free, Taken
  <2>. QED BY Zenon, <1>1, <1>3, <2>2, <2>3 DEF Order
<1>. QED BY <1>2, <1>3

\* Every step of an acceptor keeps the order of the clients of both ports.
LEMMA StepOrder ==
  ASSUME CInv, Unreached, \A p \in Ports : Order(p), AcceptorStep
  PROVE  \A p \in Ports : Order(p)'
<1>. TAKE p \in Ports
<1>. USE DEF netVars, acceptVars
<1>t. /\ TypeOK /\ LayerOnWebsocket /\ strand \in Seq(Handlers) /\ waits \in Nat
      /\ "TCP" \in Ports /\ "WEBSOCKET" \in Ports /\ NoClient \in Peers /\ Clients \subseteq Peers
  BY DEF CInv, TypeOK, Ports, Peers
<1>1. ASSUME UNCHANGED <<ops, arrived, onAccept, backlog>>,
             \A i \in 1 .. Len(strand') : HandlerOf(strand'[i], p) =>
               \E j \in 1 .. Len(strand) : strand'[i] = strand[j]
      PROVE  Order(p)'
  BY <1>1, OrderKept
<1>2. ASSUME UNCHANGED <<strand, ops, arrived, onAccept, backlog>> PROVE Order(p)'
  BY <1>1, <1>2
<1>3. CASE acceptWait
  <2>1. \/ UNCHANGED <<strand, ops, arrived, onAccept, backlog>>
        \/ \E q \in Ports : /\ q \notin listening /\ ops' = ops \union {Accept(q)}
                            /\ UNCHANGED <<strand, arrived, onAccept, backlog>>
    BY <1>3, <1>t DEF acceptWait, acceptWaitTcp, acceptWaitWebsocket, acceptWaitTimer, ArmPort,
                      CInv, Unarmed
  <2>. QED BY <1>2, <2>1, OrderStarts
<1>4. ASSUME NEW q \in Ports, AcceptFails(q) PROVE Order(p)'
  <2>1. AcceptHandler(q) \in {"handleAccept", "handleWebsocketLayer"}
    BY DEF AcceptHandler
  <2>2. PICK h \in Handlers :
          h = Call(AcceptHandler(q), FALSE, [port |-> q, client |-> NoClient]) /\ ~h.ok
    <3>1. \A fn \in {"handleAccept", "handleWebsocketLayer"} :
            /\ Call(fn, FALSE, [port |-> q, client |-> NoClient]) \in Handlers
            /\ ~Call(fn, FALSE, [port |-> q, client |-> NoClient]).ok
      BY <1>t DEF Call, Handlers, PortArg
    <3>. QED BY Zenon, <2>1, <3>1
  <2>3. \A i \in 1 .. Len(strand') :
          strand'[i] = h \/ \E j \in 1 .. Len(strand) : strand'[i] = strand[j]
    BY Zenon, <1>t, <1>4, <2>2, StrandKept DEF AcceptFails
  <2>. QED BY Zenon, <1>4, <2>2, <2>3, OrderKept DEF AcceptFails
<1>5. ASSUME NEW c \in Clients, NEW ok \in BOOLEAN, HandshakeEnds(c, ok) PROVE Order(p)'
  <2>1. PICK h \in Handlers :
          /\ h = Call("handleAccept", ok, [port |-> "WEBSOCKET", client |-> c])
          /\ h.arg.port = "WEBSOCKET" /\ h.arg.client = c
    <3>. DEFINE x == Call("handleAccept", ok, [port |-> "WEBSOCKET", client |-> c])
    <3>1. x \in Handlers /\ x.arg.port = "WEBSOCKET" /\ x.arg.client = c
      BY <1>t DEF Call, Handlers, PortArg
    <3>. QED BY Zenon, <3>1
  <2>2. \A i \in 1 .. Len(strand') :
          strand'[i] = h \/ \E j \in 1 .. Len(strand) : strand'[i] = strand[j]
    BY SMTT(30), <1>t, <1>5, <2>1, StrandKept DEF HandshakeEnds
  <2>3. Taken("WEBSOCKET", c)
    <3>1. /\ Handshake(c) \in ops /\ Handshake(c).port = "WEBSOCKET"
          /\ Handshake(c).op = "handshake" /\ Handshake(c).client = c
      BY <1>5 DEF HandshakeEnds, Handshake
    <3>2. Order("WEBSOCKET")
      BY <1>t
    <3>. QED BY Zenon, <3>1, <3>2 DEF Order
  <2>4. HandlerOf(h, p) => Taken(p, h.arg.client)
    BY Zenon, <2>1, <2>3 DEF HandlerOf
  <2>5. \A i \in 1 .. Len(strand') :
          HandlerOf(strand'[i], p) /\ strand'[i].ok =>
            \/ \E j \in 1 .. Len(strand) : strand'[i] = strand[j]
            \/ Taken(p, strand'[i].arg.client)
    BY ZenonT(30), <2>2, <2>4
  <2>. QED BY Zenon, <1>5, <2>5, OrderKept DEF HandshakeEnds
<1>6. CASE UpdaterExpires /\ UNCHANGED acceptVars
  <2>1. PICK ok \in BOOLEAN : strand' = strand \o Times(waits, Update(ok))
    BY Zenon, <1>6 DEF UpdaterExpires
  <2>2. \A i \in 1 .. Len(strand') : HandlerOf(strand'[i], p) =>
          \E j \in 1 .. Len(strand) : strand'[i] = strand[j]
    BY <1>t, <2>1, StrandKept, ZenonT(30)
  <2>. QED BY Zenon, <1>1, <1>6, <2>2
<1>7. CASE Completions
  BY <1>4, <1>5, <1>6, <1>7, OrderAccepts DEF Completions
<1>h. strand # <<>> => \A i \in 1 .. Len(Tail(strand)) :
                         \E j \in 1 .. Len(strand) : Tail(strand)[i] = strand[j]
  BY <1>t, StrandKept
<1>8. CASE handleWebsocketLayer
  <2>1. /\ strand # <<>> /\ Head(strand).fn = "handleWebsocketLayer" /\ Head(strand).ok
        /\ Head(strand) \in Handlers /\ Head(strand) = strand[1] /\ 1 \in 1 .. Len(strand)
    BY <1>8, <1>t, TailFacts DEF handleWebsocketLayer, Running
  <2>2. PICK c \in Peers : c = Arg.client
    BY <2>1, ArgFacts DEF Arg
  <2>3. HandlerOf(strand[1], "WEBSOCKET") /\ strand[1].arg.client = c /\ strand[1].ok
    BY <1>t, <2>1, <2>2 DEF HandlerOf, LayerOnWebsocket, Arg
  <2>4. Taken("WEBSOCKET", c)
    BY Zenon, <1>t, <2>1, <2>3 DEF Order
  <2>5. ops' = ops \union {Handshake(c)}
    BY <1>8, <2>2 DEF handleWebsocketLayer
  <2>6. \A o \in ops' : o.port = p =>
          o \in ops \/ (IF o.op = "accept" THEN Free(p) ELSE Taken(p, o.client))
    <3>1. /\ Handshake(c).port = "WEBSOCKET" /\ Handshake(c).op # "accept"
          /\ Handshake(c).client = c
      BY DEF Handshake
    <3>. QED BY <2>4, <2>5, <3>1
  <2>7. \A i \in 1 .. Len(strand') : \E j \in 1 .. Len(strand) : strand'[i] = strand[j]
    BY <1>8, <1>h, <2>1 DEF handleWebsocketLayer
  <2>. QED BY Zenon, <1>8, <2>6, <2>7, OrderKept DEF handleWebsocketLayer
<1>9. ASSUME NEW fn, AcceptChainEnds(fn) PROVE Order(p)'
  BY <1>1, <1>9, <1>h DEF AcceptChainEnds, Running
<1>10. CASE handleAcceptThrows
  BY <1>2, <1>10 DEF handleAcceptThrows
<1>11. CASE handleUpdate /\ UNCHANGED acceptVars
  <2>1. strand # <<>> /\ strand' = Tail(strand) \o Times(waits, Update(FALSE))
    BY <1>11 DEF handleUpdate, Running, expires_from_now
  <2>2. PICK t \in Seq(Handlers) : t = Tail(strand)
    BY Zenon, <1>t, <2>1, TailFacts
  <2>3. \A i \in 1 .. Len(strand') : HandlerOf(strand'[i], p) =>
          \E j \in 1 .. Len(t) : strand'[i] = t[j]
    BY ZenonT(30), <1>t, <2>1, <2>2, StrandKept
  <2>4. \A i \in 1 .. Len(t) : \E j \in 1 .. Len(strand) : t[i] = strand[j]
    BY <1>h, <2>1, <2>2
  <2>5. \A i \in 1 .. Len(strand') : HandlerOf(strand'[i], p) =>
          \E j \in 1 .. Len(strand) : strand'[i] = strand[j]
    BY ZenonT(30), <2>3, <2>4
  <2>. QED BY <1>1, <1>11, <2>5
<1>u. CASE handleUpdateWait /\ UNCHANGED acceptVars
  BY <1>2, <1>u DEF handleUpdateWait
<1>12. CASE Strand
  BY <1>8, <1>9, <1>10, <1>11, <1>u, <1>12, OrderDone
     DEF Strand, handleWebsocketLayerFailed, handleAcceptFailed
<1>13. CASE Environment
  BY <1>2, <1>13, OrderArrives DEF Environment, Leave
<1>14. CASE NoAcceptorStep
  BY <1>2, <1>14 DEF NoAcceptorStep
<1>. QED BY <1>3, <1>7, <1>12, <1>13, <1>14 DEF AcceptorStep
\* A port that listens keeps listening, and clients reach no other.
LEMMA StepUnreached ==
  ASSUME CInv, Unreached, AcceptorStep
  PROVE  Unreached'
<1>. USE DEF netVars, acceptVars
<1>t. /\ TypeOK /\ strand \in Seq(Handlers) /\ arrived \in [Ports -> Seq(Peers)]
      /\ onAccept \in [Ports -> Seq(Peers)] /\ backlog \in [Ports -> Seq(Peers)]
  BY DEF CInv, TypeOK
<1>1. ASSUME UNCHANGED <<arrived, onAccept, backlog>>, listening \subseteq listening'
      PROVE  Unreached'
  BY <1>1 DEF Unreached
<1>2. CASE acceptWait
  BY Zenon, <1>1, <1>2 DEF acceptWait, acceptWaitTcp, acceptWaitWebsocket, acceptWaitTimer,
         ArmPort
<1>3. ASSUME NEW q \in Ports, q \in listening, UNCHANGED listening,
             \A p \in Ports \ {q} : /\ arrived'[p] = arrived[p] /\ onAccept'[p] = onAccept[p]
                                    /\ backlog'[p] = backlog[p]
      PROVE  Unreached'
  BY <1>3 DEF Unreached
<1>4. ASSUME NEW q \in Ports, AcceptCompletes(q) PROVE Unreached'
  BY <1>3, <1>4, <1>t DEF AcceptCompletes, Unreached
<1>5. CASE Completions
  BY Zenon, <1>1, <1>4, <1>5 DEF Completions, AcceptFails, HandshakeEnds
<1>6. CASE handleAccept
  <2>1. /\ strand # <<>> /\ Arg.port \in Ports
        /\ \A p \in Ports : HandlerOf(Head(strand), p) <=> Arg.port = p
    BY Zenon, <1>6, <1>t, HeadOf DEF handleAccept
  <2>2. PICK q \in Ports : q = Arg.port
    BY <2>1
  <2>3. ~NoneOf(strand, q)
    BY <1>t, <2>1, <2>2, TailOf
  <2>4. q \in listening
    BY <2>3 DEF CInv, Chain
  <2>. QED BY <1>3, <1>6, <1>t, <2>2, <2>4 DEF handleAccept
<1>7. CASE Strand
  BY Zenon, <1>1, <1>6, <1>7
     DEF Strand, handleWebsocketLayer, handleWebsocketLayerFailed, handleAcceptFailed,
         AcceptChainEnds, handleAcceptThrows
<1>8. CASE Environment
  <2>1. ASSUME NEW c \in Clients, NEW q \in Ports, Connect(c, q) PROVE Unreached'
    BY <1>3, <1>t, <2>1 DEF Connect
  <2>. QED BY <1>1, <1>8, <2>1 DEF Environment, Leave
<1>9. CASE NoAcceptorStep
  BY <1>1, <1>9 DEF NoAcceptorStep
<1>. QED BY <1>2, <1>5, <1>7, <1>8, <1>9 DEF AcceptorStep
-----------------------------------------------------------------------------
(* The service *)

AInv == CInv /\ Unreached /\ \A p \in Ports : Order(p)

\* The io_context stops only without work, and takes no work once stopped: no
\* thread runs it before the acceptor is armed but those of an HttpServer, which
\* gives it work for good.
SInv ==
  /\ main = "createAcceptor" => created = 0 /\ running = 0 /\ ~stopped
  /\ stopped => /\ ops = {} /\ strand = <<>> /\ waits = 0 /\ ~rearming /\ Sessions = {}
                /\ http # "running"

\* Every step of a service is a step of its acceptor, or leaves it alone.
LEMMA ServiceStep == [ServiceNext]_<<_updateTimeMs, allVars>> => AcceptorStep
BY DEF ServiceNext, allVars, MainThread, Workers, Callback, AcceptorStep, NoAcceptorStep, vars, netVars, acceptVars,
       createTcpAcceptor, addWorkerThreads, setWork, runService, run, runReturns, join,
       WorkerEnters, WorkerReturns, WorkHandler, AcceptorRuns, SessionEnds,
       waitServiceStart, postServiceStart, ClientSettles, AcceptAsync

\* A new service satisfies the invariants.
LEMMA ServiceStarts == ServiceInit => AInv /\ SInv
<1>. SUFFICES ASSUME ServiceInit PROVE AInv /\ SInv
  OBVIOUS
<1>1. Init /\ main = "createAcceptor" /\ created = 0 /\ running = 0 /\ ~stopped
  BY DEF ServiceInit
<1>2. /\ TypeOK /\ listening = {} /\ ops = {} /\ broken = {} /\ strand = <<>>
      /\ \A p \in Ports : arrived[p] = <<>> /\ onAccept[p] = <<>> /\ backlog[p] = <<>>
  BY <1>1, InitType DEF Init, netInit
<1>3. LayerOnWebsocket /\ \A p \in Ports : NoneOf(strand, p) /\ NoOp(p)
  BY <1>2 DEF LayerOnWebsocket, NoneOf, NoOp
<1>4. CInv
  BY <1>2, <1>3 DEF CInv, Chain, Unarmed, Broken
<1>5. \A p \in Ports : Order(p)
  <2>. TAKE p \in Ports
  <2>1. Started(<<>>, <<>>)
    BY DEF Started
  <2>. QED BY <1>2, <1>3, <2>1 DEF Order, NoneOf
<1>. QED BY <1>1, <1>2, <1>4, <1>5 DEF AInv, SInv, Unreached

\* Every step of an acceptor keeps its invariants.
LEMMA StepAcceptor == AInv /\ AcceptorStep => AInv'
BY StepChain, StepUnreached, StepOrder DEF AInv

\* Every step of a service keeps its io_context running until no work is left.
LEMMA StepStopped == SInv /\ [ServiceNext]_<<_updateTimeMs, allVars>> => SInv'
<1>. SUFFICES ASSUME SInv, [ServiceNext]_<<_updateTimeMs, allVars>> PROVE SInv'
  OBVIOUS
<1>. USE DEF allVars, vars, netVars, acceptVars, svcVars
<1>1. ASSUME UNCHANGED <<stopped, ops, strand, waits, rearming, onAccept, closed, http>>,
             main' = "createAcceptor" => UNCHANGED <<main, created, running>>
      PROVE  SInv'
  BY <1>1 DEF SInv, Sessions
<1>2. ASSUME stopped' = (stopped \/ NoWork),
             UNCHANGED <<ops, strand, waits, rearming, onAccept, closed, http>>,
             main # "createAcceptor", main' # "createAcceptor"
      PROVE  SInv'
  <2>1. stopped' => stopped \/ NoWork
    BY Zenon, <1>2
  <2>2. Sessions' = Sessions
    BY <1>2 DEF Sessions
  <2>3. stopped' => /\ ops = {} /\ strand = <<>> /\ waits = 0 /\ ~rearming /\ Sessions = {}
                    /\ http # "running"
    BY <2>1 DEF SInv, NoWork
  <2>. QED BY <1>2, <2>2, <2>3 DEF SInv
<1>3. ASSUME Runs, UNCHANGED <<main, created, running, http>>, StopIfIdle PROVE SInv'
  <2>1. CASE http = "running"
    BY <1>3, <2>1 DEF StopIfIdle, NoWork, SInv
  <2>2. CASE http # "running"
    <3>1. main' # "createAcceptor"
      BY <1>3, <2>2 DEF Runs, SInv
    <3>. QED BY <1>3, <3>1 DEF StopIfIdle, NoWork, SInv
  <2>. QED BY <2>1, <2>2
<1>4. CASE MainThread
  <2>1. CASE createTcpAcceptor
    <3>1. ~stopped' /\ (main' = "createAcceptor" => created' = 0 /\ running' = 0)
      BY <2>1 DEF createTcpAcceptor, SInv
    <3>. QED BY <3>1 DEF SInv
  <2>2. CASE run
    BY <1>2, <2>2 DEF run
  <2>. QED BY Zenon, <1>1, <1>4, <2>1, <2>2
         DEF MainThread, addWorkerThreads, setWork, runService, runReturns, join
<1>5. CASE Workers
  <2>1. CASE WorkerEnters
    BY <1>2, <2>1 DEF WorkerEnters, SInv
  <2>2. CASE WorkerReturns
    BY <1>1, <2>2 DEF WorkerReturns, SInv
  <2>3. CASE WorkHandler \/ AcceptorRuns \/ \E c \in Clients : SessionEnds(c)
    BY <1>3, <2>3 DEF WorkHandler, AcceptorRuns, SessionEnds
  <2>. QED BY <1>5, <2>1, <2>2, <2>3 DEF Workers
<1>6. CASE Callback \/ ClientSettles
  BY Zenon, <1>1, <1>6 DEF Callback, waitServiceStart, postServiceStart, ClientSettles
<1>7. CASE Environment /\ UNCHANGED svcVars
  BY Zenon, <1>1, <1>7 DEF Environment, Leave, Connect
<1>8. CASE UNCHANGED <<_updateTimeMs, allVars>>
  BY <1>1, <1>8
<1>9. CASE AcceptAsync
  <2>1. /\ UNCHANGED <<main, created, running, stopped, ops, strand, waits, rearming, onAccept, closed>>
        /\ stopped => http' # "running"
    BY <1>9 DEF AcceptAsync
  <2>. QED BY <2>1 DEF SInv, Sessions
<1>. QED BY <1>4, <1>5, <1>6, <1>7, <1>8, <1>9 DEF ServiceNext

\* The invariants hold in every state a service reaches.
LEMMA ServiceInvariance == ServiceSpec => [](AInv /\ SInv)
<1>1. AInv /\ SInv /\ [ServiceNext]_<<_updateTimeMs, allVars>> => (AInv /\ SInv)'
  BY ServiceStep, StepAcceptor, StepStopped
<1>. QED BY <1>1, ServiceStarts, PTL DEF ServiceSpec

\* The chains of accepts of the two ports neither fork nor end nor cross, for
\* any number of clients, worker threads and updates.
THEOREM OneChainPerPortHolds == ServiceSpec => []OneChainPerPort
<1>1. AInv => OneChainPerPort
  BY ChainCounts DEF AInv
<1>. QED BY <1>1, ServiceInvariance, PTL

\* Clients reach onAccept in the order in which they connected, each once and
\* none left out.
THEOREM AcceptedInOrderHolds == ServiceSpec => []AcceptedInOrder
<1>1. AInv => AcceptedInOrder
  BY Zenon, StartedPrefix DEF AInv, CInv, TypeOK, Order, AcceptedInOrder
<1>. QED BY <1>1, ServiceInvariance, PTL

\* The io_context stops only when nothing of the acceptor is left to do: both
\* ports are closed for good, no session is open and no update is due.
THEOREM StoppedMeansServedHolds == ServiceSpec => []StoppedMeansServed
<1>1. AInv /\ SInv => StoppedMeansServed
  <2>. SUFFICES ASSUME AInv, SInv, stopped PROVE StoppedMeansServed
    BY DEF StoppedMeansServed
  <2>1. ops = {} /\ strand = <<>> /\ waits = 0 /\ ~rearming /\ Sessions = {}
    BY DEF SInv
  <2>2. \A p \in Ports : ~OneOp(p) /\ ~OneOf(strand, p)
    BY <2>1 DEF OneOp, OneOf
  <2>3. listening \subseteq Broken
    BY <2>2 DEF AInv, CInv, TypeOK, Chain
  <2>. QED BY <2>1, <2>3 DEF StoppedMeansServed
<1>. QED BY <1>1, ServiceInvariance, PTL
=============================================================================
