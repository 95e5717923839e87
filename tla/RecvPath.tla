------------------------------ MODULE RecvPath ------------------------------
(***************************************************************************)
(* What one session does with the bytes its peer sends: handleRead writes  *)
(* them to the receive stream in chunks of any size, dispatch parses       *)
(* packets out of the stream (include/net/packetJson/packetParser.hpp) and *)
(* hands each to its handler (packetJson/handler.hpp).  The stream is the  *)
(* ByteStream of that module.  Handlers of a session run one at a time and *)
(* a dispatch runs before the next read is handled (Session,               *)
(* SingleDispatch), so reading and parsing alternate.                      *)
(*                                                                         *)
(* Byte <<k, i>> is the i-th byte of the k-th packet; a packet's header    *)
(* holds its size, which can be any integer, and its code.  The header is  *)
(* always sent whole, also by a packet whose size says less.  A websocket  *)
(* message carries no header and arrives whole.  The session is one of the *)
(* server's: its user is attached, and its noHandler reserves a close.     *)
(***************************************************************************)
EXTENDS Integers, Sequences

CONSTANTS
  SessionTypes,    \* SessionType values of the sessions considered
  HeaderSize,      \* sizeof(packetJson::HEADER)
  UshrtMax,        \* USHRT_MAX, the largest packet size parse accepts
  RecvBufferSize,  \* Session::RECV_BUFFER_SIZE
  BufferSize,      \* ByteStream::DEFAULT_BUFFER_SIZE
  Sizes,           \* header.size of the packets sent
  Streams          \* bound: the sequences of packets that a peer sends

\* "malformed": the registered handler rejects it; "unknown": no handler is
\* registered for its code.
Kinds == {"json", "malformed", "unknown"}
Packets == [size : Sizes, kind : Kinds]

ASSUME SizeAssumption ==
  /\ SessionTypes \subseteq {"TCP", "WEBSOCKET"}
  /\ HeaderSize \in Nat \ {0} /\ UshrtMax \in Nat /\ RecvBufferSize \in Nat \ {0}
  /\ BufferSize \in Nat
  /\ Sizes \subseteq Int /\ Streams \subseteq Seq(Packets) \ {<<>>}

VARIABLES
  sessionType,  \* _sessionType
  sent,         \* the packets the peer sends, in order
  arrived,      \* how many of their bytes have been read
  status,       \* _socketStatus, with "created" for CLOSED before the start
  reserved,     \* a close is reserved: the wait of closeReserve(0) is armed or over
  phase,        \* the handler that runs next: "read", "dispatch", in the loop of
                \* "parse", or "loop" if that loop never ends
  handed,       \* the packets taken up, in order, and whether they were handled
                \* (ok) or led to closeReserve
  skipped,      \* the last dispatch was dropped, or left its loop early
  buffer, posRead, posWrite, overrun, out  \* _recvStream

recv == <<buffer, posRead, posWrite, overrun, out>>
peer == <<sessionType, sent>>
closing == <<status, reserved>>

vars == <<peer, arrived, closing, phase, handed, skipped, recv>>

Stream == INSTANCE ByteStream WITH Byte <- Nat \X Nat, Zero <- <<0, 0>>, Header <- <<>>,
                                   MaxChunk <- RecvBufferSize, MaxSize <- 0

data == Stream!data

\* What is sent of a packet, and of all packets up to the k-th.
length(k) == IF sent[k].size < HeaderSize THEN HeaderSize ELSE sent[k].size
packetBytes(k) == [i \in 1..length(k) |-> <<k, i>>]
sizeOf[k \in 0..Len(sent)] == IF k = 0 THEN 0 ELSE sizeOf[k - 1] + length(k)

\* The j-th byte of the packets one after another.
wire(j) ==
  LET k == CHOOSE m \in 1..Len(sent) : sizeOf[m - 1] < j /\ j <= sizeOf[m]
  IN  packetBytes(k)[j - sizeOf[k - 1]]

Init ==
  /\ sessionType \in SessionTypes
  /\ sent \in Streams
  /\ arrived = 0
  /\ status = "created" /\ reserved = FALSE
  /\ phase = "read"
  /\ handed = <<>>
  /\ skipped = FALSE
  /\ Stream!Init

-----------------------------------------------------------------------------
\* startAccept sets OPEN after the first read is issued.
Open ==
  /\ status = "created" /\ status' = "OPEN"
  /\ UNCHANGED <<peer, arrived, reserved, phase, handed, skipped, recv>>

\* The wait's handler runs between two others of the strand and ends in onClose.
onCloseReserveTime ==
  /\ reserved /\ phase \in {"read", "dispatch"}
  /\ status' = IF status = "OPEN" THEN "CLOSED" ELSE status
  /\ reserved' = FALSE
  /\ UNCHANGED <<peer, arrived, phase, handed, skipped, recv>>

\* A packet or message goes to the handler, or leads to closeReserve(0).
Hand(bytes, ok) ==
  /\ handed' = Append(handed, [bytes |-> bytes, ok |-> ok])
  /\ reserved' = (reserved \/ ~ok)

Chunk(n) == [i \in 1..n |-> wire(arrived + i)]

\* async_read_some returns what has come, up to the buffer; the websocket's
\* async_read returns one message.  A read that completed before a close is
\* handled after it like any other; the model does not limit these to one.
handleRead(n) ==
  /\ phase = "read"
  /\ arrived + n <= sizeOf[Len(sent)]
  /\ sessionType = "TCP" => n <= RecvBufferSize
  /\ sessionType = "WEBSOCKET" =>
       \E k \in 1..Len(sent) : arrived = sizeOf[k - 1] /\ n = length(k)
  /\ Stream!write(Chunk(n))
  /\ arrived' = arrived + n
  /\ phase' = "dispatch"
  /\ UNCHANGED <<peer, closing, handed, skipped>>

dispatchDropped ==
  /\ phase = "dispatch" /\ status # "OPEN"
  /\ phase' = "read"
  /\ skipped' = TRUE
  /\ UNCHANGED <<peer, arrived, closing, handed, recv>>

dispatch ==
  /\ phase = "dispatch" /\ status = "OPEN" /\ sessionType = "TCP"
  /\ phase' = "parse"
  /\ skipped' = FALSE
  /\ UNCHANGED <<peer, arrived, closing, handed, recv>>

\* The handler is given the stream itself.  It parses everything the stream
\* holds as one JSON document and takes nothing out.
dispatchWebsocket ==
  /\ phase = "dispatch" /\ status = "OPEN" /\ sessionType = "WEBSOCKET"
  /\ phase' = "read"
  /\ Hand(data, \E k \in 1..Len(sent) : sent[k].kind = "json" /\ data = packetBytes(k))
  /\ skipped' = FALSE
  /\ UNCHANGED <<peer, arrived, status, recv>>

-----------------------------------------------------------------------------
(* The loop of PacketJsonParser::parse *)

\* What tryRead can find as a header.  A size below the header's leaves the
\* stream in the middle of a packet, where the bytes can say anything.
headers ==
  IF data[1][2] = 1 THEN {sent[data[1][1]]} ELSE Packets

\* Mutant: a packet that ends where the stream ends counts as incomplete.
Incomplete_AtEnd(h) == h.size < 0 \/ h.size > UshrtMax \/ h.size >= Stream!size

\* A size that parse does not accept, or a packet not complete.
Incomplete(h) == h.size < 0 \/ h.size > UshrtMax \/ h.size > Stream!size

parseEnds ==
  /\ phase = "parse"
  /\ Stream!CanRead(HeaderSize) => \E h \in headers : Incomplete(h)
  /\ phase' = "read"
  /\ UNCHANGED <<peer, arrived, closing, handed, skipped, recv>>

\* The packet in front, of any size from 0 on, is out of the stream.
Take(h) ==
  /\ phase = "parse" /\ Stream!CanRead(HeaderSize) /\ ~Incomplete(h)
  /\ Stream!advancePosRead(h.size)

packet(h) == SubSeq(data, 1, h.size)

\* Mutant: the handler is given the rest of the stream.
parsePacket_Rest(h) ==
  /\ Take(h) /\ h.kind # "unknown"
  /\ Hand(data, h.kind = "json" /\ h.size >= HeaderSize)
  /\ phase' = IF h.size = 0 THEN "loop" ELSE "parse"
  /\ UNCHANGED <<peer, arrived, status, skipped>>

\* Mutant: one packet per dispatch.
parsePacket_Once(h) ==
  /\ Take(h) /\ h.kind # "unknown"
  /\ Hand(packet(h), h.kind = "json" /\ h.size >= HeaderSize)
  /\ phase' = "read"
  /\ UNCHANGED <<peer, arrived, status, skipped>>

\* readJsonPacket: a packet that is too short or otherwise malformed reserves a
\* close, and the loop goes on.  With size 0 it finds the same header again, and
\* refuses it again, for ever; handed shows the first time.
parsePacket(h) ==
  /\ Take(h) /\ h.kind # "unknown"
  /\ Hand(packet(h), h.kind = "json" /\ h.size >= HeaderSize)
  /\ phase' = IF h.size = 0 THEN "loop" ELSE "parse"
  /\ UNCHANGED <<peer, arrived, status, skipped>>

\* noHandler reserves a close, and the packets behind this one stay.
parseNoHandler(h) ==
  /\ Take(h) /\ h.kind = "unknown"
  /\ Hand(packet(h), FALSE)
  /\ phase' = "read"
  /\ skipped' = TRUE
  /\ UNCHANGED <<peer, arrived, status>>

-----------------------------------------------------------------------------
Parse ==
  /\ phase = "parse"
  /\ \/ parseEnds
     \/ Stream!CanRead(HeaderSize) /\ \E h \in headers : parsePacket(h) \/ parseNoHandler(h)

Next ==
  /\ ~overrun
  /\ \/ Open \/ onCloseReserveTime
     \/ \E n \in 1..(RecvBufferSize + UshrtMax + 1) : handleRead(n)
     \/ dispatchDropped \/ dispatch \/ dispatchWebsocket
     \/ Parse

\* The worker threads run what is queued and the peer's bytes arrive.
Fairness == WF_vars(Next)

Spec == Init /\ [][Next]_vars /\ Fairness

-----------------------------------------------------------------------------
(* Properties *)

Tcp == sessionType = "TCP" /\ ~overrun

\* The first k packets have sizes the parser finds its way with.
Framed(k) == \A i \in 1..Len(sent) : i <= k => sent[i].size >= HeaderSize

\* What becomes of the k-th packet.
Outcome(k) == [bytes |-> [i \in 1..sent[k].size |-> <<k, i>>],
               ok    |-> sent[k].kind = "json" /\ sent[k].size >= HeaderSize]

\* However the bytes are cut into reads, the parser takes the packets of a TCP
\* session up whole, once each and in the order sent, and refuses exactly the
\* malformed and unknown ones, until a size below the header's has made it lose
\* its place.
InOrder ==
  sessionType = "TCP" =>
    \A j \in DOMAIN handed : Framed(j - 1) => j <= Len(sent) /\ handed[j] = Outcome(j)

\* When a dispatch has gone through its loop to the end, no complete packet is
\* left in the stream; only a size that parse rejects holds the rest up.
NothingHeldBack ==
  Tcp /\ phase = "read" /\ ~skipped /\ Len(handed) < Len(sent) /\ Framed(Len(handed)) =>
    \/ arrived < sizeOf[Len(handed) + 1]
    \/ sent[Len(handed) + 1].size \notin 0..UshrtMax

Refused == \E j \in DOMAIN handed : ~handed[j].ok

\* Packets of sizes that parse accepts are all taken up in the end, or one of
\* them is refused and the session closed.  Excepted are a stream that overran
\* and packets whose last bytes were dispatched before OPEN was set.
AllHanded ==
  (sessionType = "TCP" /\ \A k \in DOMAIN sent : sent[k].size \in HeaderSize..UshrtMax)
    ~> [](\/ overrun
          \/ Refused /\ status = "CLOSED"
          \/ ~Refused /\ (skipped \/ Len(handed) = Len(sent)))

\* The receive stream never holds more than its vector: checkAdvanceWriteBuffer
\* grows the vector when the data does not fit.
NoOverrun == ~overrun

\* A well-formed message is handled, on a websocket as on a TCP socket.
WellFormedIsHandled ==
  (\A k \in DOMAIN sent : sent[k].kind = "json") => \A j \in DOMAIN handed : handed[j].ok
=============================================================================
