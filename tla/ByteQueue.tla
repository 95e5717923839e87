------------------------------ MODULE ByteQueue ------------------------------
(***************************************************************************)
(* What a ByteStream promises its users: a queue of bytes.  What is        *)
(* written comes out once, whole and in order.                             *)
(***************************************************************************)
EXTENDS Naturals, Sequences

CONSTANTS Byte, Header, MaxChunk

VARIABLES
  queue,  \* the bytes written and not yet read
  out     \* the bytes the last read delivered

Init == queue = <<>> /\ out = <<>>

Put(src) == queue' = queue \o src /\ UNCHANGED out

Take(n) ==
  /\ n <= Len(queue)
  /\ out' = SubSeq(queue, 1, n)
  /\ queue' = SubSeq(queue, n + 1, Len(queue))

Discard(n) ==
  /\ n <= Len(queue)
  /\ queue' = SubSeq(queue, n + 1, Len(queue))
  /\ UNCHANGED out

\* The header is written over the first bytes.
Stamp ==
  /\ Len(Header) <= Len(queue)
  /\ queue' = Header \o SubSeq(queue, Len(Header) + 1, Len(queue))
  /\ UNCHANGED out

Empty == queue' = <<>> /\ UNCHANGED out

Next ==
  \/ \E n \in 1..MaxChunk : (\E src \in [1..n -> Byte] : Put(src)) \/ Take(n) \/ Discard(n)
  \/ Stamp \/ Empty
=============================================================================
