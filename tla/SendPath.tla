------------------------------- MODULE SendPath -------------------------------
(***************************************************************************)
(* The sending side of a Session (include/net/session.hpp): send,          *)
(* sendFixedBuffer and sendRaw start an asynchronous write at once,        *)
(* whatever else is being written, and handleWrite is called when it is    *)
(* over.  A write is carried out by several calls of write_some on the     *)
(* socket, each of which takes some parts of the packet.  Only the order   *)
(* of the parts is modelled here; Session has what a failed write leads    *)
(* to.                                                                     *)
(***************************************************************************)
EXTENDS Integers, Sequences

CONSTANTS
  Packets,  \* bound: packets sent in the life of the session
  Parts     \* bound: parts of a packet that a write_some may take

VARIABLES
  _sessionType,  \* "TCP" or "WEBSOCKET"
  state,         \* "new", "writing", "waiting", "done", "failed"
  pos,           \* parts written so far
  broken,        \* the socket has failed
  wire,          \* parts the peer receives: packet and part
  overlapped,    \* packets written while another one was
  tooMany        \* more writes on a websocket stream than it allows

vars == <<_sessionType, state, pos, broken, wire, overlapped, tooMany>>

Init ==
  /\ _sessionType \in {"TCP", "WEBSOCKET"}
  /\ state = [p \in Packets |-> "new"]
  /\ pos = [p \in Packets |-> 0]
  /\ broken = FALSE /\ wire = <<>> /\ overlapped = {} /\ tooMany = FALSE

In(s) == {p \in Packets : state[p] = s}

\* A stream socket takes any number of writes at a time.
async_write(p) ==
  /\ state' = [state EXCEPT ![p] = "writing"]
  /\ overlapped' = IF In("writing") = {} THEN overlapped
                   ELSE overlapped \union In("writing") \union {p}
  /\ UNCHANGED tooMany

\* A websocket stream carries out one write after the other, and has room for one
\* that waits; with assertions compiled in, a second one ends the process.
websocket_async_write(p) ==
  /\ state' = [state EXCEPT ![p] = IF In("writing") = {} THEN "writing" ELSE "waiting"]
  /\ \/ tooMany' = (In("waiting") # {})
     \/ In("writing") # {} /\ tooMany' = TRUE
  /\ UNCHANGED overlapped

Write_Swapped(p) ==
  /\ state[p] = "new"
  /\ \/ _sessionType = "TCP" /\ websocket_async_write(p)
     \/ _sessionType = "WEBSOCKET" /\ async_write(p)
  /\ UNCHANGED <<_sessionType, pos, broken, wire>>

Write(p) ==
  /\ state[p] = "new"
  /\ \/ _sessionType = "TCP" /\ async_write(p)
     \/ _sessionType = "WEBSOCKET" /\ websocket_async_write(p)
  /\ UNCHANGED <<_sessionType, pos, broken, wire>>

\* The handler holds the stream.
send(p) == Write(p)

\* The handler holds nothing: the caller keeps the buffer.
sendFixedBuffer(p) == Write(p)

\* The handler holds the stream made for the data.
sendRaw(p) == Write(p)

\* The socket takes the next n parts.
write_some(p, n) ==
  /\ state[p] = "writing" /\ ~broken /\ pos[p] + n <= Parts
  /\ pos' = [pos EXCEPT ![p] = pos[p] + n]
  /\ wire' = wire \o [i \in 1 .. n |-> [packet |-> p, part |-> pos[p] + i]]
  /\ UNCHANGED <<_sessionType, state, broken, overlapped, tooMany>>

SocketBreaks ==
  /\ ~broken
  /\ broken' = TRUE
  /\ UNCHANGED <<_sessionType, state, pos, wire, overlapped, tooMany>>

\* The stream lets the write that waits go on.
Ended(p, s) ==
  state' = [q \in Packets |-> IF q = p THEN s
                              ELSE IF state[q] = "waiting" THEN "writing" ELSE state[q]]

handleWrite(p) ==
  /\ state[p] = "writing" /\ pos[p] = Parts
  /\ Ended(p, "done")
  /\ UNCHANGED <<_sessionType, pos, broken, wire, overlapped, tooMany>>

handleWriteFailed(p) ==
  /\ state[p] = "writing" /\ pos[p] < Parts /\ broken
  /\ Ended(p, "failed")
  /\ UNCHANGED <<_sessionType, pos, broken, wire, overlapped, tooMany>>

Next ==
  /\ ~tooMany
  /\ \/ \E p \in Packets : send(p) \/ sendFixedBuffer(p) \/ sendRaw(p)
     \/ \E p \in Packets, n \in 1 .. Parts : write_some(p, n)
     \/ SocketBreaks
     \/ \E p \in Packets : handleWrite(p) \/ handleWriteFailed(p)

Spec == Init /\ [][Next]_vars

-----------------------------------------------------------------------------
\* Where a packet's parts are in what the peer receives.
Places(p) == {i \in 1 .. Len(wire) : wire[i].packet = p}

Torn(p) == \E i, k \in Places(p) : \E j \in i .. k : j \notin Places(p)

\* Session has no queue of packets: on a TCP session the parts of a packet can be
\* mixed with those of another only if one was sent before the other was written;
\* on a websocket session they are never mixed.
TornOnlyIfOverlapped ==
  \A p \in Packets : Torn(p) => _sessionType = "TCP" /\ p \in overlapped
===============================================================================
