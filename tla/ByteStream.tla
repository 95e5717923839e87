----------------------------- MODULE ByteStream -----------------------------
(***************************************************************************)
(* The byte buffer of include/net/byteStream.hpp: two positions into a     *)
(* vector that grows.  A stream holds what a session receives (written     *)
(* and consumed in turn), one received packet, or one packet to send.      *)
(* _buffer[0] is buffer[1] here; bytes are opaque values.                  *)
(*                                                                         *)
(* checkAdvanceReadBuffer rearranges when available() < capacity() * 0.7,  *)
(* but the two functions are the same, so rearrange never runs and the     *)
(* space before _posRead is reclaimed only by clear.                       *)
(***************************************************************************)
EXTENDS Integers, Sequences

CONSTANTS
  Byte,        \* the values a byte can have
  Zero,        \* the byte a vector is filled with
  Header,      \* the header setHeaderSize writes, a sequence of bytes
  BufferSize,  \* the constructor's bufferSize (DEFAULT_BUFFER_SIZE)
  MaxChunk,    \* bound: bytes in one write or read
  MaxSize      \* bound: bytes held

ASSUME ByteAssumption ==
  /\ Zero \in Byte
  /\ Header \in Seq(Byte)
  /\ BufferSize \in Nat /\ MaxChunk \in Nat /\ MaxSize \in Nat

VARIABLES
  buffer,    \* _buffer
  posRead,   \* _posRead
  posWrite,  \* _posWrite
  overrun,   \* a write has gone past the end of _buffer
  out        \* the bytes the last read copied out

vars == <<buffer, posRead, posWrite, overrun, out>>

size == posWrite - posRead
data == [i \in 1..size |-> buffer[posRead + i]]

Init ==
  /\ buffer = [i \in 1..BufferSize |-> Zero]
  /\ posRead = 0 /\ posWrite = 0
  /\ overrun = FALSE
  /\ out = <<>>

\* Mutant: the new capacity has no room for the bytes already held.
Grown_Bytes(bytes) ==
  [i \in 1..(IF Len(buffer) < size + bytes THEN bytes ELSE Len(buffer)) |->
     IF i <= Len(buffer) THEN buffer[i] ELSE Zero]

\* checkAdvanceWriteBuffer: the vector after its reserve and resize, if any.
\* The size is compared, though the bytes go behind posWrite.
Grown(bytes) ==
  [i \in 1..(IF Len(buffer) < size + bytes THEN size + bytes ELSE Len(buffer)) |->
     IF i <= Len(buffer) THEN buffer[i] ELSE Zero]

\* Mutant: the bytes are copied behind the bytes held, counted from the start.
write_AtSize(src) ==
  /\ posWrite' = posWrite + Len(src)
  /\ overrun' = (Len(Grown(Len(src))) < posWrite')
  /\ buffer' = [i \in 1..Len(Grown(Len(src))) |->
                  IF i \in (size + 1)..(size + Len(src)) THEN src[i - size] ELSE Grown(Len(src))[i]]
  /\ UNCHANGED <<posRead, out>>

\* After a copy past the end nothing is known of the stream: no step follows.
write(src) ==
  /\ posWrite' = posWrite + Len(src)
  /\ overrun' = (Len(Grown(Len(src))) < posWrite')
  /\ buffer' = [i \in 1..Len(Grown(Len(src))) |->
                  IF i \in (posWrite + 1)..posWrite' THEN src[i - posWrite] ELSE Grown(Len(src))[i]]
  /\ UNCHANGED <<posRead, out>>

\* Moves the position only: the bytes keep whatever value they have.
advancePosWrite(bytes) ==
  /\ posWrite' = posWrite + bytes
  /\ overrun' = (Len(Grown(bytes)) < posWrite')
  /\ buffer' = Grown(bytes)
  /\ UNCHANGED <<posRead, out>>

clear ==
  /\ posRead' = 0 /\ posWrite' = 0
  /\ UNCHANGED <<buffer, overrun, out>>

\* Throws, and changes nothing, when more is read than is held.
read(bytes) ==
  /\ bytes <= size
  /\ out' = SubSeq(buffer, posRead + 1, posRead + bytes)
  /\ posRead' = posRead + bytes
  /\ UNCHANGED <<buffer, posWrite, overrun>>

\* As read, but a stream read to its end starts over.
advancePosRead(bytes) ==
  /\ bytes <= size
  /\ posRead' = IF posRead + bytes = posWrite THEN 0 ELSE posRead + bytes
  /\ posWrite' = IF posRead + bytes = posWrite THEN 0 ELSE posWrite
  /\ UNCHANGED <<buffer, overrun, out>>

\* tryRead: the first bytes, if there are that many.
CanRead(bytes) == bytes <= size

setHeaderSize ==
  /\ buffer' = [i \in 1..Len(buffer) |->
                  IF i \in (posRead + 1)..(posRead + Len(Header)) THEN Header[i - posRead]
                  ELSE buffer[i]]
  /\ UNCHANGED <<posRead, posWrite, overrun, out>>

-----------------------------------------------------------------------------
Write == \E n \in 1..MaxChunk : size + n <= MaxSize /\ \E src \in [1..n -> Byte] : write(src)
AdvancePosWrite == \E n \in 1..MaxChunk : size + n <= MaxSize /\ advancePosWrite(n)
Read == \E n \in 1..MaxChunk : read(n)
AdvancePosRead == \E n \in 1..MaxChunk : advancePosRead(n)
\* Its callers have a stream that begins with room for the header.
SetHeaderSize == CanRead(Len(Header)) /\ setHeaderSize

Next == ~overrun /\ (Write \/ AdvancePosWrite \/ Read \/ AdvancePosRead \/ SetHeaderSize \/ clear)

Spec == Init /\ [][Next]_vars

-----------------------------------------------------------------------------
(* Properties *)

TypeOK ==
  /\ buffer \in Seq(Byte)
  /\ posRead \in Nat /\ posWrite \in Nat
  /\ overrun \in BOOLEAN
  /\ out \in Seq(Byte)

\* The positions stay in order and inside the vector, whose size never falls
\* below the constructor's, until a write goes past the end.
InBounds ==
  /\ posRead <= posWrite
  /\ BufferSize <= Len(buffer)
  /\ ~overrun => posWrite <= Len(buffer)

Q == INSTANCE ByteQueue WITH queue <- data

\* A stream is a byte queue, whatever the mix of writes, reads, growth and
\* clears: every step that stays inside the vector is a step of ByteQueue.
FIFO == Q!Init /\ [][overrun' \/ Q!Next]_<<data, out>>

\* A write goes past the end only on a stream that has been read in part: with
\* _posRead = 0 checkAdvanceWriteBuffer makes the room write needs, so packet
\* and send streams, written and then read, are safe.
OverrunOnlyAfterPartialRead == [][overrun' => overrun \/ posRead > 0]_vars
=============================================================================
