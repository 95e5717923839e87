----------------------------- MODULE PartsProofs --------------------------
(***************************************************************************)
(* Proofs about three of the parts that hold what is received, sent or     *)
(* rented, each for any value of its constants: the byte buffer            *)
(* (ByteStream), the sending side of a session (SendPath) and the pool of  *)
(* rented objects (RentalPool).                                            *)
(***************************************************************************)
EXTENDS ByteStream, SequenceTheorems, TLAPS

CONSTANTS
  Packets, Parts,   \* of SendPath
  Items             \* of RentalPool

VARIABLES
  _sessionType, state, pos, broken, wire, overlapped, tooMany,
  _pool, handles, unused, reused, discarded

Sending == INSTANCE SendPath
Pool == INSTANCE RentalPool

-----------------------------------------------------------------------------
(***************************************************************************)
(* ByteStream, for every buffer size, chunk size and set of bytes: typing  *)
(* and bounds, and that a stream is a byte queue.                          *)
(***************************************************************************)

Inv == TypeOK /\ InBounds

\* What checkAdvanceWriteBuffer leaves: the old bytes, and room for the size.
LEMMA GrownProperties ==
  ASSUME Inv, NEW bytes \in Nat
  PROVE  /\ Grown(bytes) \in Seq(Byte)
         /\ Len(Grown(bytes)) >= Len(buffer)
         /\ Len(Grown(bytes)) >= size + bytes
         /\ \A i \in 1..Len(buffer) : Grown(bytes)[i] = buffer[i]
<1>1. /\ Len(buffer) \in Nat /\ size \in Nat
      /\ \A i \in 1..Len(buffer) : buffer[i] \in Byte
  BY LenProperties, ElementOfSeq DEF Inv, TypeOK, InBounds, size
<1>. DEFINE len == IF Len(buffer) < size + bytes THEN size + bytes ELSE Len(buffer)
<1>2. len \in Nat /\ len >= Len(buffer) /\ len >= size + bytes
  BY <1>1
<1>. HIDE DEF len
<1>3. Grown(bytes) = [i \in 1..len |-> IF i <= Len(buffer) THEN buffer[i] ELSE Zero]
  BY DEF Grown, len
<1>4. Grown(bytes) \in Seq(Byte) /\ Len(Grown(bytes)) = len
  BY <1>1, <1>2, <1>3, ByteAssumption
<1>. QED BY <1>1, <1>2, <1>3, <1>4

\* Init establishes the bounds.
LEMMA InitInv == Init => Inv
<1>. SUFFICES ASSUME Init PROVE Inv
  OBVIOUS
<1>1. buffer \in Seq(Byte) /\ Len(buffer) = BufferSize
  BY ByteAssumption DEF Init
<1>2. out \in Seq(Byte)
  BY DEF Init
<1>3. posRead \in Nat /\ posWrite \in Nat /\ posRead <= posWrite /\ posWrite <= BufferSize
  BY ByteAssumption DEF Init
<1>4. overrun \in BOOLEAN
  BY Zenon DEF Init
<1>5. TypeOK
  BY <1>1, <1>2, <1>3, <1>4 DEF TypeOK
<1>6. InBounds
  BY <1>1, <1>3, ByteAssumption DEF InBounds
<1>. QED BY <1>5, <1>6 DEF Inv

\* A write keeps the bounds unless it sets overrun.
LEMMA WriteInv ==
  ASSUME Inv, NEW n \in Nat, NEW src \in [1..n -> Byte], write(src)
  PROVE  Inv' /\ Len(src) = n /\ Len(buffer') = Len(Grown(n))
<1>1. src \in Seq(Byte) /\ Len(src) = n
  OBVIOUS
<1>2. posRead \in Nat /\ posWrite \in Nat /\ posRead <= posWrite /\ BufferSize <= Len(buffer)
  BY DEF Inv, TypeOK, InBounds
<1>3. posWrite' = posWrite + n /\ overrun' = (Len(Grown(n)) < posWrite') /\ posRead' = posRead
  BY <1>1 DEF write
<1>4. /\ Grown(n) \in Seq(Byte) /\ Len(Grown(n)) \in Nat
      /\ Len(Grown(n)) >= Len(buffer)
  BY GrownProperties
<1>5. buffer' = [i \in 1..Len(Grown(n)) |->
                   IF i \in (posWrite + 1)..posWrite' THEN src[i - posWrite] ELSE Grown(n)[i]]
  BY <1>1 DEF write
<1>6. \A i \in 1..Len(Grown(n)) : Grown(n)[i] \in Byte
  BY <1>4, ElementOfSeq
<1>7. \A i \in (posWrite + 1)..posWrite' : src[i - posWrite] \in Byte
  BY <1>2, <1>3
<1>8. buffer' \in Seq(Byte) /\ Len(buffer') = Len(Grown(n))
  BY <1>4, <1>5, <1>6, <1>7
<1>9. overrun' \in BOOLEAN /\ out' \in Seq(Byte)
  BY <1>3 DEF write, Inv, TypeOK
<1>10. InBounds'
  <2>1. BufferSize <= Len(buffer')
    BY <1>2, <1>4, <1>8, ByteAssumption, LenProperties DEF Inv, TypeOK
  <2>2. ~overrun' => ~(Len(buffer') < posWrite')
    BY Zenon, <1>3, <1>8
  <2>3. posWrite' \in Nat /\ Len(buffer') \in Nat
    BY <1>2, <1>3, <1>4, <1>8
  <2>4. ~(Len(buffer') < posWrite') => posWrite' <= Len(buffer')
    BY <2>3
  <2>. QED BY <1>2, <1>3, <2>1, <2>2, <2>4 DEF InBounds
<1>11. posRead' \in Nat /\ posWrite' \in Nat
  BY <1>2, <1>3
<1>. QED BY <1>1, <1>8, <1>9, <1>10, <1>11 DEF Inv, TypeOK

\* Moving the write position keeps the bounds unless it sets overrun.
LEMMA AdvanceWriteInv ==
  ASSUME Inv, NEW n \in Nat, advancePosWrite(n)
  PROVE  Inv'
<1>2. posRead \in Nat /\ posWrite \in Nat /\ posRead <= posWrite /\ BufferSize <= Len(buffer)
  BY DEF Inv, TypeOK, InBounds
<1>3. posWrite' = posWrite + n /\ overrun' = (Len(Grown(n)) < posWrite') /\ posRead' = posRead
  BY DEF advancePosWrite
<1>4. buffer' \in Seq(Byte) /\ Len(buffer') \in Nat /\ Len(buffer') >= Len(buffer)
  BY GrownProperties DEF advancePosWrite
<1>5. overrun' \in BOOLEAN /\ out' \in Seq(Byte)
  BY <1>3 DEF advancePosWrite, Inv, TypeOK
<1>6. BufferSize <= Len(buffer')
  BY <1>2, <1>4, ByteAssumption, LenProperties DEF Inv, TypeOK
<1>7. posRead' \in Nat /\ posWrite' \in Nat /\ posRead' <= posWrite'
  BY <1>2, <1>3
<1>8. ~overrun' => ~(Len(buffer') < posWrite')
  BY Zenon, <1>3 DEF advancePosWrite
<1>9. ~(Len(buffer') < posWrite') => posWrite' <= Len(buffer')
  BY <1>4, <1>7
<1>. QED BY <1>4, <1>5, <1>6, <1>7, <1>8, <1>9 DEF Inv, TypeOK, InBounds

\* Every operation keeps the bounds until a write goes past the end.
LEMMA StepInv == Inv /\ [Next]_vars => Inv'
<1>. SUFFICES ASSUME Inv, [Next]_vars PROVE Inv'
  OBVIOUS
<1>0. /\ posRead \in Nat /\ posWrite \in Nat /\ posRead <= posWrite
      /\ buffer \in Seq(Byte) /\ Len(buffer) \in Nat /\ out \in Seq(Byte)
      /\ ~overrun => posWrite <= Len(buffer)
  BY LenProperties DEF Inv, TypeOK, InBounds
<1>1. CASE Write
  <2>1. PICK n \in 1..MaxChunk : \E src \in [1..n -> Byte] : write(src)
    BY <1>1 DEF Write
  <2>2. n \in Nat
    BY ByteAssumption
  <2>. QED BY <2>1, <2>2, WriteInv
<1>2. CASE AdvancePosWrite
  BY <1>2, ByteAssumption, AdvanceWriteInv DEF AdvancePosWrite
<1>3. ASSUME ~overrun, NEW n \in 1..MaxChunk, read(n) PROVE Inv'
  <2>1. posRead' \in Nat /\ posRead' <= posWrite
    BY <1>0, <1>3, ByteAssumption DEF read, size
  <2>2. posRead + 1 \in 1..Len(buffer) + 1 /\ posRead + n \in (posRead+1 - 1)..Len(buffer)
    BY <1>0, <1>3, ByteAssumption DEF read, size
  <2>3. out' \in Seq(Byte)
    BY <1>0, <1>3, <2>2, SubSeqProperties DEF read
  <2>. QED BY <1>3, <2>1, <2>3 DEF read, Inv, TypeOK, InBounds
<1>4. ASSUME NEW n \in 1..MaxChunk, advancePosRead(n) PROVE Inv'
  <2>1. posRead' \in Nat /\ posWrite' \in Nat /\ posRead' <= posWrite' /\ posWrite' <= posWrite
    BY <1>0, <1>4, ByteAssumption DEF advancePosRead, size
  <2>2. ~overrun => posWrite' <= Len(buffer)
    BY <1>0, <2>1
  <2>. QED BY <1>4, <2>1, <2>2 DEF advancePosRead, Inv, TypeOK, InBounds
<1>5. CASE SetHeaderSize
  <2>1. \A i \in 1..Len(buffer) : buffer[i] \in Byte
    BY <1>0, ElementOfSeq
  <2>2. \A i \in (posRead + 1)..(posRead + Len(Header)) : Header[i - posRead] \in Byte
    BY <1>0, ByteAssumption, ElementOfSeq, LenProperties
  <2>3. buffer' \in Seq(Byte) /\ Len(buffer') = Len(buffer)
    BY <1>0, <1>5, <2>1, <2>2 DEF SetHeaderSize, setHeaderSize
  <2>. QED BY <1>5, <2>3 DEF SetHeaderSize, setHeaderSize, Inv, TypeOK, InBounds
<1>6. CASE clear
  <2>1. posRead' \in Nat /\ posWrite' \in Nat /\ posRead' <= posWrite' /\ posWrite' <= Len(buffer)
    BY <1>0, <1>6 DEF clear
  <2>. QED BY <1>6, <2>1 DEF clear, Inv, TypeOK, InBounds
<1>7. CASE UNCHANGED vars
  BY <1>7 DEF vars, Inv, TypeOK, InBounds
<1>. QED BY <1>1, <1>2, <1>3, <1>4, <1>5, <1>6, <1>7 DEF Next, Read, AdvancePosRead

\* The bounds hold in every state of every behaviour.
LEMMA Invariance == Spec => []Inv
BY InitInv, StepInv, PTL DEF Spec

\* The positions stay in order and inside the vector until a write overruns.
THEOREM InBoundsHolds == Spec => [](TypeOK /\ InBounds)
BY Invariance, PTL DEF Inv

\* A stream not yet read, or read to its end by advancePosRead, has the room
\* that write needs: only a partly read stream can be overrun.
THEOREM OverrunNeedsPartialRead == Spec => OverrunOnlyAfterPartialRead
<1>1. ASSUME Inv, [Next]_vars PROVE [overrun' => overrun \/ posRead > 0]_vars
  <2>0. posRead \in Nat /\ posWrite \in Nat /\ posRead <= posWrite /\ Len(buffer) \in Nat
    BY <1>1, LenProperties DEF Inv, TypeOK, InBounds
  <2>1. ASSUME NEW n \in Nat, posRead = 0 PROVE ~(Len(Grown(n)) < posWrite + n)
    <3>1. Len(Grown(n)) >= posWrite - 0 + n /\ Len(Grown(n)) \in Nat
      BY <1>1, <2>1, GrownProperties, LenProperties DEF size
    <3>. QED BY <2>0, <3>1
  <2>2. CASE Write
    <3>1. PICK n \in 1..MaxChunk : \E src \in [1..n -> Byte] : write(src)
      BY <2>2 DEF Write
    <3>2. n \in Nat /\ overrun' = (Len(Grown(n)) < posWrite + n)
      BY <3>1, ByteAssumption DEF write
    <3>3. posRead # 0 => posRead > 0
      BY <2>0
    <3>. QED BY Zenon, <2>1, <3>2, <3>3
  <2>3. CASE AdvancePosWrite
    <3>1. PICK n \in 1..MaxChunk : advancePosWrite(n)
      BY <2>3 DEF AdvancePosWrite
    <3>2. n \in Nat /\ overrun' = (Len(Grown(n)) < posWrite + n)
      BY <3>1, ByteAssumption DEF advancePosWrite
    <3>3. posRead # 0 => posRead > 0
      BY <2>0
    <3>. QED BY <2>1, <3>2, <3>3
  <2>4. CASE overrun' = overrun
    BY <2>4
  <2>. QED
    BY <1>1, <2>2, <2>3, <2>4
    DEF Next, vars, Read, read, AdvancePosRead, advancePosRead, SetHeaderSize, setHeaderSize,
        clear
<1>. QED BY <1>1, Invariance, PTL DEF Spec, OverrunOnlyAfterPartialRead

-----------------------------------------------------------------------------
(* A stream is a byte queue *)

\* What a stream inside its vector holds.
LEMMA DataProperties ==
  ASSUME Inv, ~overrun
  PROVE  /\ data \in Seq(Byte) /\ Len(data) = size /\ size \in Nat
         /\ \A i \in 1..size : data[i] = buffer[posRead + i]
<1>1. /\ posRead \in Nat /\ posWrite \in Nat /\ posRead <= posWrite
      /\ Len(buffer) \in Nat /\ posWrite <= Len(buffer)
  BY LenProperties DEF Inv, TypeOK, InBounds
<1>2. size \in Nat /\ \A i \in 1..size : posRead + i \in 1..Len(buffer)
  BY <1>1 DEF size
<1>3. \A i \in 1..size : buffer[posRead + i] \in Byte
  BY Zenon, <1>2, ElementOfSeq DEF Inv, TypeOK
<1>. QED BY <1>2, <1>3 DEF data

\* Bytes added behind posWrite are added behind the bytes held.
LEMMA AddedBehind ==
  ASSUME Inv, ~overrun, NEW n \in Nat, NEW src \in [1..n -> Byte],
         posRead' = posRead, posWrite' = posWrite + n, posWrite' <= Len(buffer'),
         \A i \in (posRead + 1)..posWrite : buffer'[i] = buffer[i],
         \A k \in 1..n : buffer'[posWrite + k] = src[k]
  PROVE  data' = data \o src
<1>1. src \in Seq(Byte) /\ Len(src) = n
  OBVIOUS
<1>2. posRead \in Nat /\ posWrite \in Nat /\ posRead <= posWrite
  BY DEF Inv, TypeOK, InBounds
<1>3. size' = size + n /\ size \in Nat
  BY <1>2 DEF size
<1>4. /\ data \in Seq(Byte) /\ Len(data) = size
      /\ \A i \in 1..size : data[i] = buffer[posRead + i]
  BY DataProperties
<1>5. /\ data \o src \in Seq(Byte) /\ Len(data \o src) = size + n
      /\ \A i \in 1..(size + n) : (data \o src)[i] = IF i <= size THEN data[i] ELSE src[i - size]
  BY ZenonT(30), <1>1, <1>4, ConcatProperties
<1>6. ASSUME NEW i \in 1..(size + n)
      PROVE  buffer'[posRead + i] = IF i <= size THEN data[i] ELSE src[i - size]
  <2>1. CASE i <= size
    <3>1. posRead + i \in (posRead + 1)..posWrite /\ i \in 1..size
      BY <1>2, <1>3, <2>1 DEF size
    <3>. QED BY <1>4, <2>1, <3>1
  <2>2. CASE ~(i <= size)
    <3>1. i - size \in 1..n /\ posRead + i = posWrite + (i - size)
      BY <1>2, <1>3, <2>2 DEF size
    <3>. QED BY <2>2, <3>1
  <2>. QED BY <2>1, <2>2
<1>7. data' = [i \in 1..(size + n) |-> buffer'[posRead + i]]
  BY <1>3 DEF data
<1>8. \A i \in 1..(size + n) : buffer'[posRead + i] = (data \o src)[i]
  BY Zenon, <1>5, <1>6
<1>9. data \o src = [i \in 1..(size + n) |-> (data \o src)[i]]
  BY Zenon, <1>5, LenProperties
<1>. QED BY Zenon, <1>7, <1>8, <1>9

\* Moving posRead by n bytes drops the first n bytes held.
LEMMA DroppedFirst ==
  ASSUME Inv, ~overrun, NEW n \in Nat, n <= size,
         size' = size - n, \A i \in 1..(size - n) : buffer'[posRead' + i] = buffer[posRead + n + i]
  PROVE  data' = SubSeq(data, n + 1, Len(data))
<1>1. /\ data \in Seq(Byte) /\ Len(data) = size /\ size \in Nat
      /\ \A i \in 1..size : data[i] = buffer[posRead + i]
  BY DataProperties
<1>2. posRead \in Nat
  BY DEF Inv, TypeOK
<1>3. /\ SubSeq(data, n + 1, size) \in Seq(Byte)
      /\ Len(SubSeq(data, n + 1, size)) = size - n
      /\ \A i \in 1..(size - n) : SubSeq(data, n + 1, size)[i] = data[n + i]
  <2>1. n + 1 \in Int /\ size \in Int /\ \A i \in (n + 1)..size : data[i] \in Byte
    BY <1>1, ElementOfSeq
  <2>2. /\ SubSeq(data, n + 1, size) \in Seq(Byte)
        /\ Len(SubSeq(data, n + 1, size)) = IF n + 1 <= size THEN size - (n + 1) + 1 ELSE 0
        /\ \A i \in 1..(size - (n + 1) + 1) :
             SubSeq(data, n + 1, size)[i] = data[(n + 1) + i - 1]
    BY <2>1, SubSeqProperties
  <2>3. size - (n + 1) + 1 = size - n /\ \A i \in 1..(size - n) : (n + 1) + i - 1 = n + i
    BY <1>1
  <2>4. (IF n + 1 <= size THEN size - (n + 1) + 1 ELSE 0) = size - n
    BY <1>1
  <2>. QED BY <2>2, <2>3, <2>4
<1>4. \A i \in 1..(size - n) : n + i \in 1..size /\ posRead + (n + i) = posRead + n + i
  BY <1>1, <1>2
<1>5. \A i \in 1..(size - n) : buffer'[posRead' + i] = data[n + i]
  BY <1>1, <1>4
<1>6. data' = [i \in 1..(size - n) |-> buffer'[posRead' + i]]
  BY DEF data
<1>. DEFINE rest == SubSeq(data, n + 1, size)
<1>7. rest = [i \in 1..(size - n) |-> rest[i]]
  <2>. HIDE DEF rest
  <2>1. rest \in Seq(Byte) /\ Len(rest) = size - n
    BY <1>3 DEF rest
  <2>. QED BY <2>1, LenProperties
<1>8. \A i \in 1..(size - n) : buffer'[posRead' + i] = rest[i]
  BY <1>3, <1>5
<1>9. data' = rest
  <2>. HIDE DEF rest
  <2>. QED BY <1>6, <1>7, <1>8
<1>. QED BY <1>1, <1>9

\* Every operation that stays inside the vector is one of a byte queue's.
LEMMA StepQueue ==
  ASSUME Inv, Inv', Next, ~overrun'
  PROVE  Q!Next
<1>. USE DEF Q!Next, Q!Put, Q!Take, Q!Discard, Q!Stamp, Q!Empty
<1>0. /\ ~overrun
      /\ posRead \in Nat /\ posWrite \in Nat /\ posRead <= posWrite
      /\ Len(buffer) \in Nat /\ posWrite <= Len(buffer)
      /\ posWrite' \in Nat /\ Len(buffer') \in Nat /\ posWrite' <= Len(buffer')
      /\ size \in Nat /\ Len(data) = size /\ data \in Seq(Byte)
      /\ \A i \in 1..size : data[i] = buffer[posRead + i]
  <2>1. ~overrun
    BY DEF Next
  <2>2. /\ posRead \in Nat /\ posWrite \in Nat /\ posRead <= posWrite
        /\ Len(buffer) \in Nat /\ posWrite <= Len(buffer)
    BY <2>1, LenProperties DEF Inv, TypeOK, InBounds
  <2>3. posWrite' \in Nat /\ Len(buffer') \in Nat /\ posWrite' <= Len(buffer')
    BY LenProperties DEF Inv, TypeOK, InBounds
  <2>. QED BY <2>1, <2>2, <2>3, DataProperties
<1>1. CASE Write
  <2>1. PICK n \in 1..MaxChunk : \E src \in [1..n -> Byte] : write(src)
    BY <1>1 DEF Write
  <2>2. PICK src \in [1..n -> Byte] : write(src)
    BY <2>1
  <2>3. n \in Nat /\ Len(src) = n
    BY ByteAssumption
  <2>4. /\ posRead' = posRead /\ posWrite' = posWrite + n /\ out' = out
        /\ buffer' = [i \in 1..Len(Grown(n)) |->
                        IF i \in (posWrite + 1)..posWrite' THEN src[i - posWrite] ELSE Grown(n)[i]]
    BY <2>2, <2>3 DEF write
  <2>5. Len(buffer') = Len(Grown(n))
    BY <2>2, <2>3, WriteInv
  <2>6. \A i \in (posRead + 1)..posWrite :
          /\ i \in 1..Len(buffer) /\ i \in 1..Len(Grown(n)) /\ i \notin (posWrite + 1)..posWrite'
    <3>1. Len(Grown(n)) \in Nat /\ Len(Grown(n)) >= Len(buffer)
      BY Zenon, <1>0, <2>3, <2>5, GrownProperties
    <3>. QED BY <1>0, <2>3, <2>4, <3>1
  <2>7. \A i \in (posRead + 1)..posWrite : buffer'[i] = buffer[i]
    BY Zenon, <2>3, <2>4, <2>6, GrownProperties
  <2>8. \A k \in 1..n : /\ posWrite + k \in 1..Len(Grown(n))
                        /\ posWrite + k \in (posWrite + 1)..posWrite' /\ posWrite + k - posWrite = k
    BY <1>0, <2>3, <2>4, <2>5
  <2>9. ASSUME NEW k \in 1..n PROVE buffer'[posWrite + k] = src[k]
    <3>1. buffer'[posWrite + k] = src[posWrite + k - posWrite]
      BY <1>0, <2>3, <2>4, <2>8
    <3>. QED BY <2>8, <3>1
  <2>10. data' = data \o src
    BY Zenon, <1>0, <2>3, <2>4, <2>7, <2>9, AddedBehind
  <2>. QED BY Zenon, <2>4, <2>10
<1>2. CASE AdvancePosWrite
  <2>1. PICK n \in 1..MaxChunk : advancePosWrite(n)
    BY <1>2 DEF AdvancePosWrite
  <2>. DEFINE src == [k \in 1..n |-> buffer'[posWrite + k]]
  <2>2. n \in Nat
    BY ByteAssumption
  <2>3. /\ posRead' = posRead /\ posWrite' = posWrite + n /\ out' = out /\ buffer' = Grown(n)
    BY <2>1 DEF advancePosWrite
  <2>4. \A k \in 1..n : posWrite + k \in 1..Len(buffer')
    BY <1>0, <2>2, <2>3
  <2>5. src \in [1..n -> Byte]
    BY Zenon, <2>4, ElementOfSeq DEF Inv, TypeOK
  <2>6. \A i \in (posRead + 1)..posWrite : i \in 1..Len(buffer)
    BY <1>0
  <2>7. \A i \in (posRead + 1)..posWrite : buffer'[i] = buffer[i]
    BY Zenon, <2>2, <2>3, <2>6, GrownProperties
  <2>8. data' = data \o src
    BY Zenon, <1>0, <2>2, <2>3, <2>5, <2>7, AddedBehind
  <2>. QED BY Zenon, <2>3, <2>5, <2>8
<1>3. ASSUME NEW n \in 1..MaxChunk, read(n) PROVE Q!Next
  <2>1. n \in Nat /\ n <= size /\ size' = size - n
    BY <1>0, <1>3, ByteAssumption DEF read, size
  <2>2. \A i \in 1..(size - n) : buffer'[posRead' + i] = buffer[posRead + n + i]
    BY <1>3 DEF read
  <2>3. data' = SubSeq(data, n + 1, Len(data))
    BY Zenon, <1>0, <2>1, <2>2, DroppedFirst
  <2>4. out' = SubSeq(data, 1, n)
    <3>1. out' = SubSeq(buffer, posRead + 1, posRead + n)
      BY <1>3 DEF read
    <3>2. \A i \in (posRead + 1)..(posRead + n) : i \in 1..Len(buffer)
      BY <1>0, <2>1 DEF size
    <3>3. \A i \in (posRead + 1)..(posRead + n) : buffer[i] \in Byte
      BY <3>2, ElementOfSeq DEF Inv, TypeOK
    <3>4. /\ out' \in Seq(Byte) /\ Len(out') = n
          /\ \A i \in 1..n : out'[i] = buffer[posRead + i]
      <4>. DEFINE lo == posRead + 1  hi == posRead + n
      <4>1. /\ lo \in Int /\ hi \in Int /\ hi - lo + 1 = n
            /\ (IF lo <= hi THEN hi - lo + 1 ELSE 0) = n
            /\ \A i \in 1..n : lo + i - 1 = posRead + i
        BY <1>0, <2>1
      <4>2. out' = SubSeq(buffer, lo, hi) /\ \A i \in lo..hi : buffer[i] \in Byte
        BY <3>1, <3>3
      <4>. HIDE DEF lo, hi
      <4>3. /\ SubSeq(buffer, lo, hi) \in Seq(Byte)
            /\ Len(SubSeq(buffer, lo, hi)) = IF lo <= hi THEN hi - lo + 1 ELSE 0
            /\ \A i \in 1..(hi - lo + 1) : SubSeq(buffer, lo, hi)[i] = buffer[lo + i - 1]
        BY <4>1, <4>2, SubSeqProperties
      <4>. QED BY <4>1, <4>2, <4>3
    <3>5. /\ \A i \in 1..n : i \in 1..size /\ 1 + i - 1 = i
          /\ n - 1 + 1 = n /\ (IF 1 <= n THEN n - 1 + 1 ELSE 0) = n
      BY <1>0, <2>1
    <3>6. \A i \in 1..n : data[i] \in Byte
      BY Zenon, <1>0, <3>5, ElementOfSeq
    <3>7. /\ SubSeq(data, 1, n) \in Seq(Byte)
          /\ Len(SubSeq(data, 1, n)) = IF 1 <= n THEN n - 1 + 1 ELSE 0
          /\ \A i \in 1..(n - 1 + 1) : SubSeq(data, 1, n)[i] = data[1 + i - 1]
      BY <2>1, <3>6, SubSeqProperties
    <3>8. \A i \in 1..n : out'[i] = SubSeq(data, 1, n)[i]
      BY ZenonT(30), <1>0, <3>4, <3>5, <3>7
    <3>9. out' = [i \in 1..n |-> out'[i]]
      BY <3>4, LenProperties
    <3>. DEFINE first == SubSeq(data, 1, n)
    <3>10. first = [i \in 1..n |-> first[i]] /\ \A i \in 1..n : out'[i] = first[i]
      <4>1. first \in Seq(Byte) /\ Len(first) = n /\ \A i \in 1..n : out'[i] = first[i]
        BY <3>5, <3>7, <3>8
      <4>. HIDE DEF first
      <4>. QED BY <4>1, LenProperties
    <3>. HIDE DEF first
    <3>11. out' = first
      BY <3>9, <3>10
    <3>. QED BY <3>11 DEF first
  <2>. QED BY Zenon, <1>0, <2>1, <2>3, <2>4
<1>4. ASSUME NEW n \in 1..MaxChunk, advancePosRead(n) PROVE Q!Next
  <2>1. n \in Nat /\ n <= size /\ size' = size - n
    BY <1>0, <1>4, ByteAssumption DEF advancePosRead, size
  <2>2. \A i \in 1..(size - n) : buffer'[posRead' + i] = buffer[posRead + n + i]
    BY SMTT(30), <1>0, <1>4, <2>1 DEF advancePosRead, size
  <2>3. data' = SubSeq(data, n + 1, Len(data))
    BY <1>0, <2>1, <2>2, DroppedFirst
  <2>. QED BY Zenon, <1>0, <1>4, <2>1, <2>3 DEF advancePosRead
<1>5. CASE SetHeaderSize
  <2>. DEFINE h == Len(Header)  rest == SubSeq(data, h + 1, Len(data))
  <2>1. /\ h \in Nat /\ h <= size /\ size' = size /\ posRead' = posRead /\ out' = out
        /\ buffer' = [i \in 1..Len(buffer) |->
                        IF i \in (posRead + 1)..(posRead + h) THEN Header[i - posRead] ELSE buffer[i]]
    BY <1>5, ByteAssumption, LenProperties DEF SetHeaderSize, setHeaderSize, CanRead, size
  <2>. HIDE DEF h
  <2>2. \A i \in (h + 1)..size : data[i] \in Byte
    BY <1>0, <2>1, ElementOfSeq
  <2>3. /\ rest \in Seq(Byte)
        /\ Len(rest) = IF h + 1 <= size THEN size - (h + 1) + 1 ELSE 0
        /\ \A i \in 1..(size - (h + 1) + 1) : rest[i] = data[(h + 1) + i - 1]
    BY <1>0, <2>1, <2>2, SubSeqProperties
  <2>. HIDE DEF rest
  <2>4. Len(rest) = size - h /\ \A i \in 1..(size - h) : rest[i] = data[h + i]
    <3>1. /\ size - (h + 1) + 1 = size - h
          /\ (IF h + 1 <= size THEN size - (h + 1) + 1 ELSE 0) = size - h
          /\ \A i \in 1..(size - h) : (h + 1) + i - 1 = h + i
      BY <1>0, <2>1
    <3>. QED BY <2>3, <3>1
  <2>5. /\ Header \o rest \in Seq(Byte) /\ Len(Header \o rest) = size
        /\ \A i \in 1..size : (Header \o rest)[i] = IF i <= h THEN Header[i] ELSE rest[i - h]
    <3>1. /\ Header \o rest \in Seq(Byte) /\ Len(Header \o rest) = h + Len(rest)
          /\ \A i \in 1..(h + Len(rest)) :
               (Header \o rest)[i] = IF i <= h THEN Header[i] ELSE rest[i - h]
      BY <2>3, ByteAssumption, ConcatProperties DEF h
    <3>2. h + Len(rest) = size
      BY <1>0, <2>1, <2>4
    <3>. QED BY <3>1, <3>2
  <2>6. ASSUME NEW i \in 1..size PROVE buffer'[posRead + i] = (Header \o rest)[i]
    <3>1. posRead + i \in 1..Len(buffer)
      BY <1>0 DEF size
    <3>2. CASE i <= h
      <4>1. posRead + i \in (posRead + 1)..(posRead + h) /\ posRead + i - posRead = i
        BY <1>0, <2>1, <3>2
      <4>2. buffer'[posRead + i] = Header[posRead + i - posRead]
        BY <1>0, <2>1, <3>1, <4>1
      <4>. QED BY <2>5, <3>2, <4>1, <4>2
    <3>3. CASE ~(i <= h)
      <4>1. posRead + i \notin (posRead + 1)..(posRead + h) /\ i - h \in 1..(size - h) /\ h + (i - h) = i
        BY <1>0, <2>1, <3>3
      <4>. QED BY Zenon, <1>0, <2>1, <2>4, <2>5, <3>1, <3>3, <4>1
    <3>. QED BY Zenon, <3>2, <3>3
  <2>7. data' = [i \in 1..size |-> buffer'[posRead + i]]
    BY <2>1 DEF data
  <2>8. data' = Header \o rest
    <3>1. Header \o rest = [i \in 1..size |-> (Header \o rest)[i]]
      BY Zenon, <2>5, LenProperties
    <3>. QED BY Zenon, <2>6, <2>7, <3>1
  <2>. QED BY <1>0, <2>1, <2>8 DEF rest, h
<1>6. CASE clear
  <2>1. size' = 0 /\ out' = out
    BY <1>6 DEF clear, size
  <2>2. data' = <<>>
    BY <2>1 DEF data
  <2>. QED BY <2>1, <2>2
<1>. QED BY Zenon, <1>1, <1>2, <1>3, <1>4, <1>5, <1>6 DEF Next, Read, AdvancePosRead

\* Every behaviour of a stream is one of a byte queue, up to a write that goes
\* past the end of the vector.
THEOREM ByteStreamIsQueue == Spec => FIFO
<1>1. Init => Q!Init
  <2>. SUFFICES ASSUME Init PROVE data = <<>> /\ out = <<>>
    BY DEF Q!Init
  <2>1. size = 0 /\ out = <<>>
    BY DEF Init, size
  <2>. QED BY <2>1 DEF data
<1>2. ASSUME Inv, Inv', [Next]_vars PROVE [overrun' \/ Q!Next]_<<data, out>>
  <2>1. CASE Next
    BY <1>2, <2>1, StepQueue
  <2>2. CASE UNCHANGED vars
    BY <2>2 DEF vars, data, size
  <2>. QED BY <1>2, <2>1, <2>2
<1>. QED BY <1>1, <1>2, Invariance, PTL DEF Spec, FIFO

-----------------------------------------------------------------------------
(***************************************************************************)
(* SendPath. That only overlapping writes tear a packet needs who may be   *)
(* writing at a time (OneWriter): a websocket stream has one writer, and   *)
(* on a TCP session two writers know of each other; and that what an       *)
(* undisturbed writer has written is the end of what the peer receives     *)
(* (AtTheEnd).                                                             *)
(***************************************************************************)

SendTyped ==
  /\ state \in [Packets -> {"new", "writing", "waiting", "done", "failed"}]
  /\ pos \in [Packets -> Nat]
  /\ wire \in Seq([packet : Packets, part : Nat])
  /\ _sessionType \in {"TCP", "WEBSOCKET"}

\* Alone(p): no other packet is written while p is.
Alone(p) == _sessionType = "WEBSOCKET" \/ p \notin overlapped

OneWriter ==
  /\ \A p, q \in Packets :
       state[p] = "writing" /\ state[q] = "writing" /\ p # q => ~Alone(p) /\ ~Alone(q)
  /\ \A p \in Packets : state[p] = "waiting" => _sessionType = "WEBSOCKET"
  /\ ~tooMany => \A p, q \in Packets : state[p] = "waiting" /\ state[q] = "waiting" => p = q

NotYet == \A p \in Packets : state[p] \in {"new", "waiting"} => Sending!Places(p) = {}

AtTheEnd ==
  \A p \in Packets : state[p] = "writing" /\ Alone(p) =>
    \A i \in Sending!Places(p) : \A j \in i .. Len(wire) : j \in Sending!Places(p)

SendInv == SendTyped /\ OneWriter /\ NotYet /\ AtTheEnd /\ Sending!TornOnlyIfOverlapped

-----------------------------------------------------------------------------
\* What a sequence appended to another adds to it.
LEMMA Concat ==
  ASSUME NEW S, NEW a \in Seq(S), NEW b \in Seq(S)
  PROVE  /\ a \o b \in Seq(S) /\ Len(a \o b) = Len(a) + Len(b)
         /\ \A i \in 1 .. Len(a) : (a \o b)[i] = a[i]
         /\ \A i \in Len(a) + 1 .. Len(a) + Len(b) : (a \o b)[i] = b[i - Len(a)]
OBVIOUS

\* What a write_some adds to what the peer receives.
LEMMA WireFacts ==
  ASSUME SendTyped, NEW p \in Packets, NEW n \in Nat, Sending!write_some(p, n)
  PROVE  /\ wire' \in Seq([packet : Packets, part : Nat])
         /\ Len(wire') = Len(wire) + n /\ Len(wire) \in Nat
         /\ \A i \in 1 .. Len(wire) : wire'[i] = wire[i]
         /\ \A i \in Len(wire) + 1 .. Len(wire) + n :
              wire'[i] = [packet |-> p, part |-> pos[p] + (i - Len(wire))]
<1> DEFINE Part == [packet : Packets, part : Nat]
           w == [i \in 1 .. n |-> [packet |-> p, part |-> pos[p] + i]]
<1>1. \A i \in 1 .. n : [packet |-> p, part |-> pos[p] + i] \in Part
  BY DEF SendTyped
<1> HIDE DEF Part
<1>2. w \in Seq(Part) /\ Len(w) = n
  BY <1>1
<1>3. wire' = wire \o w /\ wire \in Seq(Part) /\ Len(wire) \in Nat
  BY DEF Sending!write_some, SendTyped, Part
<1>4. \A i \in 1 .. n : w[i] = [packet |-> p, part |-> pos[p] + i]
  OBVIOUS
<1> HIDE DEF w
<1>5. /\ wire' \in Seq(Part) /\ Len(wire') = Len(wire) + n
      /\ \A i \in 1 .. Len(wire) : wire'[i] = wire[i]
      /\ \A i \in Len(wire) + 1 .. Len(wire) + n : wire'[i] = w[i - Len(wire)]
  BY Zenon, <1>2, <1>3, Concat
<1>6. \A i \in Len(wire) + 1 .. Len(wire) + n : i - Len(wire) \in 1 .. n
  BY <1>3
<1> QED
  BY <1>3, <1>4, <1>5, <1>6 DEF Part

\* The places of the packet that is written grow at the end; the others stay.
LEMMA PlacesFacts ==
  ASSUME SendTyped, NEW p \in Packets, NEW n \in Nat, Sending!write_some(p, n)
  PROVE  /\ Sending!Places(p)' = Sending!Places(p) \union (Len(wire) + 1 .. Len(wire) + n)
         /\ \A q \in Packets : q # p => Sending!Places(q)' = Sending!Places(q)
<1>1. /\ Len(wire') = Len(wire) + n /\ Len(wire) \in Nat
      /\ \A i \in 1 .. Len(wire) : wire'[i] = wire[i]
      /\ \A i \in Len(wire) + 1 .. Len(wire) + n : wire'[i].packet = p
  <2>1. \A i : [packet |-> p, part |-> pos[p] + (i - Len(wire))].packet = p
    OBVIOUS
  <2>2. /\ Len(wire') = Len(wire) + n /\ Len(wire) \in Nat
        /\ \A i \in 1 .. Len(wire) : wire'[i] = wire[i]
        /\ \A i \in Len(wire) + 1 .. Len(wire) + n :
             wire'[i] = [packet |-> p, part |-> pos[p] + (i - Len(wire))]
    BY Zenon, WireFacts
  <2>3. ASSUME NEW i \in Len(wire) + 1 .. Len(wire) + n
        PROVE  wire'[i].packet = p
    BY Zenon, <2>1, <2>2
  <2> QED
    BY Zenon, <2>2, <2>3
<1>2. 1 .. Len(wire') = (1 .. Len(wire)) \union (Len(wire) + 1 .. Len(wire) + n)
  BY <1>1
<1>3. ASSUME NEW q, NEW i
      PROVE  i \in Sending!Places(q)' <=>
               i \in Sending!Places(q) \/ (i \in Len(wire) + 1 .. Len(wire) + n /\ q = p)
  <2>1. CASE i \in 1 .. Len(wire)
    BY <1>1, <1>2, <2>1 DEF Sending!Places
  <2>2. CASE i \notin 1 .. Len(wire)
    BY <1>1, <1>2, <2>2 DEF Sending!Places
  <2> QED
    BY <2>1, <2>2
<1> QED
  BY Zenon, <1>3

-----------------------------------------------------------------------------
\* What is written goes behind what the same writer wrote, or it is not alone.
LEMMA WriteSomeStep ==
  ASSUME SendInv, NEW p \in Packets, NEW n \in Nat \ {0}, Sending!write_some(p, n)
  PROVE  SendInv'
<1>1. /\ state[p] = "writing" /\ UNCHANGED <<_sessionType, state, overlapped, tooMany>>
      /\ pos' = [pos EXCEPT ![p] = pos[p] + n] /\ pos[p] + n <= Parts
  BY DEF Sending!write_some
<1>2. /\ wire' \in Seq([packet : Packets, part : Nat])
      /\ Len(wire') = Len(wire) + n /\ Len(wire) \in Nat
      /\ \A i \in 1 .. Len(wire) : wire'[i] = wire[i]
      /\ \A i \in Len(wire) + 1 .. Len(wire) + n :
           wire'[i] = [packet |-> p, part |-> pos[p] + (i - Len(wire))]
  BY Zenon, WireFacts DEF SendInv
<1>3. /\ Sending!Places(p)' = Sending!Places(p) \union (Len(wire) + 1 .. Len(wire) + n)
      /\ \A q \in Packets : q # p => Sending!Places(q)' = Sending!Places(q)
  BY PlacesFacts DEF SendInv
<1>4. \A q \in Packets : Sending!Places(q) \subseteq 1 .. Len(wire)
  BY DEF Sending!Places
<1>5. SendTyped'
  BY <1>1, <1>2 DEF SendInv, SendTyped
<1>6. OneWriter'
  BY <1>1 DEF SendInv, OneWriter, Alone
<1>7. NotYet'
  BY <1>1, <1>3 DEF SendInv, NotYet
<1>8. AtTheEnd'
  <2> SUFFICES ASSUME NEW q \in Packets, state[q] = "writing", Alone(q),
                      NEW i \in Sending!Places(q)', NEW j \in i .. Len(wire')
               PROVE  j \in Sending!Places(q)'
    BY <1>1 DEF AtTheEnd, Alone
  <2>1. q = p
    BY <1>1 DEF SendInv, OneWriter
  <2>2. CASE j \in Len(wire) + 1 .. Len(wire) + n
    BY <1>3, <2>1, <2>2
  <2>3. CASE j \notin Len(wire) + 1 .. Len(wire) + n
    <3>1. i \in Int /\ j \in i .. Len(wire)
      BY <1>2, <1>3, <1>4, <2>1, <2>3
    <3>2. i \in Sending!Places(p)
      BY <1>2, <1>3, <2>1, <3>1
    <3> QED
      BY <1>3, <2>1, <3>1, <3>2 DEF SendInv, AtTheEnd
  <2> QED
    BY <2>2, <2>3
<1>9. Sending!TornOnlyIfOverlapped'
  <2> SUFFICES ASSUME NEW q \in Packets, Alone(q) PROVE ~Sending!Torn(q)'
    BY <1>1 DEF Sending!TornOnlyIfOverlapped, Alone, SendInv, SendTyped
  <2>1. ~Sending!Torn(q)
    BY DEF SendInv, Sending!TornOnlyIfOverlapped, Alone
  <2>2. CASE q # p
    BY <1>3, <2>1, <2>2 DEF Sending!Torn
  <2>3. CASE q = p
    <3> SUFFICES ASSUME NEW i \in Sending!Places(p)', NEW k \in Sending!Places(p)', NEW j \in i .. k
                 PROVE  j \in Sending!Places(p)'
      BY <2>3 DEF Sending!Torn
    <3>1. j \in i .. Len(wire')
      BY <1>2, <1>3, <1>4
    <3> QED
      BY <1>1, <1>8, <2>3, <3>1 DEF AtTheEnd, Alone
  <2> QED
    BY <2>2, <2>3
<1> QED
  BY <1>5, <1>6, <1>7, <1>8, <1>9 DEF SendInv

\* A packet that is sent while another is written makes both overlapped; a websocket
\* stream lets it wait.
LEMMA WriterStep ==
  ASSUME SendInv, ~tooMany, NEW p \in Packets, Sending!Write(p)
  PROVE  SendInv'
<1>1. UNCHANGED <<_sessionType, pos, wire>> /\ state[p] = "new"
  BY DEF Sending!Write
<1>2. \A q \in Packets : Sending!Places(q)' = Sending!Places(q)
  BY <1>1 DEF Sending!Places
<1>3. /\ state' \in [Packets -> {"new", "writing", "waiting", "done", "failed"}]
      /\ \A q \in Packets : q # p => state'[q] = state[q]
      /\ state'[p] \in {"writing", "waiting"}
  BY Zenon DEF Sending!Write, Sending!async_write, Sending!websocket_async_write, SendInv,
         SendTyped
<1>4. overlapped \subseteq overlapped'
  BY DEF Sending!Write, Sending!async_write, Sending!websocket_async_write
<1>5. SendTyped'
  BY <1>1, <1>3 DEF SendInv, SendTyped
<1>6. OneWriter'
  <2>1. CASE _sessionType = "TCP" /\ Sending!async_write(p)
    <3>1. state' = [state EXCEPT ![p] = "writing"] /\ tooMany' = tooMany
      BY <2>1 DEF Sending!async_write
    <3>2. \A q \in Packets : q # p /\ state[q] = "writing" =>
            q \in overlapped' /\ p \in overlapped'
      BY <2>1 DEF Sending!async_write, Sending!In
    <3> QED
      BY <1>1, <1>3, <1>4, <2>1, <3>1, <3>2 DEF SendInv, SendTyped, OneWriter, Alone
  <2>2. CASE _sessionType = "WEBSOCKET" /\ Sending!websocket_async_write(p)
    <3>1. state'[p] = "writing" => \A q \in Packets : state[q] # "writing"
      BY <2>2 DEF Sending!websocket_async_write, Sending!In, SendInv, SendTyped
    <3>2. ~tooMany' => \A q \in Packets : state[q] # "waiting"
      BY Zenon, <2>2 DEF Sending!websocket_async_write, Sending!In
    <3> QED
      BY <1>1, <1>3, <2>2, <3>1, <3>2 DEF SendInv, OneWriter, Alone
  <2> QED
    BY <2>1, <2>2 DEF Sending!Write
<1>7. NotYet'
  BY <1>1, <1>2, <1>3 DEF SendInv, NotYet
<1>8. AtTheEnd'
  BY <1>1, <1>2, <1>3, <1>4 DEF SendInv, AtTheEnd, Alone, NotYet
<1>9. Sending!TornOnlyIfOverlapped'
  BY <1>1, <1>2, <1>4 DEF SendInv, Sending!TornOnlyIfOverlapped, Sending!Torn
<1> QED
  BY <1>5, <1>6, <1>7, <1>8, <1>9 DEF SendInv

\* The write that ends makes room for the one that waits, which has written nothing.
LEMMA EndedStep ==
  ASSUME SendInv, ~tooMany, NEW p \in Packets, NEW s \in {"done", "failed"}, state[p] = "writing",
         Sending!Ended(p, s),
         UNCHANGED <<_sessionType, pos, wire, overlapped, tooMany>>
  PROVE  SendInv'
<1>1. /\ state' \in [Packets -> {"new", "writing", "waiting", "done", "failed"}]
      /\ \A q \in Packets : state'[q] = IF q = p THEN s
                                        ELSE IF state[q] = "waiting" THEN "writing" ELSE state[q]
  BY DEF Sending!Ended, SendInv, SendTyped
<1>2. \A q \in Packets : Sending!Places(q)' = Sending!Places(q)
  BY DEF Sending!Places
<1>3. SendTyped' /\ NotYet'
  BY Zenon, <1>1, <1>2 DEF SendInv, SendTyped, NotYet
<1>4. OneWriter'
  <2> SUFFICES ASSUME NEW q \in Packets, NEW r \in Packets, state'[q] = "writing",
                      state'[r] = "writing", q # r
               PROVE  ~Alone(q) /\ ~Alone(r)
    BY <1>1 DEF OneWriter, Alone
  <2>1. q # p /\ r # p
    BY <1>1
  <2>2. CASE state[q] = "writing" /\ state[r] = "writing"
    BY <2>2 DEF SendInv, OneWriter
  <2>3. CASE state[q] = "waiting" \/ state[r] = "waiting"
    <3>1. Alone(p) /\ Alone(q) /\ Alone(r)
      BY <2>3 DEF SendInv, OneWriter, Alone
    <3>2. state[q] = "waiting" /\ state[r] = "waiting"
      BY <1>1, <2>1, <3>1 DEF SendInv, OneWriter
    <3> QED
      BY <3>2 DEF SendInv, OneWriter
  <2> QED
    BY <1>1, <2>1, <2>2, <2>3
<1>5. AtTheEnd'
  BY <1>1, <1>2 DEF SendInv, AtTheEnd, Alone, NotYet
<1>6. Sending!TornOnlyIfOverlapped'
  BY <1>1, <1>2 DEF SendInv, Sending!TornOnlyIfOverlapped, Sending!Torn
<1> QED
  BY <1>3, <1>4, <1>5, <1>6 DEF SendInv

-----------------------------------------------------------------------------
\* Whatever is sent while something else is written, the invariant holds.
THEOREM SendPathInvariant == Sending!Spec => []SendInv
<1>1. Sending!Init => SendInv
  <2> SUFFICES ASSUME Sending!Init PROVE SendInv
    OBVIOUS
  <2>0. wire = <<>>
    BY DEF Sending!Init
  <2>1. \A p \in Packets : Sending!Places(p) = {}
    BY <2>0 DEF Sending!Places
  <2>2. SendTyped /\ OneWriter /\ NotYet /\ AtTheEnd
    BY <2>1 DEF Sending!Init, SendTyped, OneWriter, NotYet, AtTheEnd
  <2>3. Sending!TornOnlyIfOverlapped
    BY <2>1 DEF Sending!Init, Sending!TornOnlyIfOverlapped, Sending!Torn
  <2> QED
    BY <2>2, <2>3 DEF SendInv
<1>2. SendInv /\ [Sending!Next]_(Sending!vars) => SendInv'
  <2> SUFFICES ASSUME SendInv, [Sending!Next]_(Sending!vars) PROVE SendInv'
    OBVIOUS
  <2>1. CASE Sending!Next /\ \E p \in Packets : Sending!Write(p)
    BY <2>1, WriterStep DEF Sending!Next
  <2>2. CASE Sending!Next /\ \E p \in Packets, n \in 1 .. Parts : Sending!write_some(p, n)
    BY <2>2, WriteSomeStep DEF Sending!Next
  <2>3. CASE /\ Sending!Next
             /\ \E p \in Packets : Sending!handleWrite(p) \/ Sending!handleWriteFailed(p)
    BY <2>3, EndedStep DEF Sending!Next, Sending!handleWrite, Sending!handleWriteFailed
  <2>4. CASE Sending!SocketBreaks \/ UNCHANGED Sending!vars
    <3>1. UNCHANGED <<_sessionType, state, pos, wire, overlapped, tooMany>>
      BY <2>4 DEF Sending!SocketBreaks, Sending!vars
    <3>2. \A p \in Packets : Sending!Places(p)' = Sending!Places(p)
      BY <3>1 DEF Sending!Places
    <3>3. SendTyped' /\ OneWriter' /\ NotYet' /\ AtTheEnd'
      BY <3>1, <3>2 DEF SendInv, SendTyped, OneWriter, NotYet, AtTheEnd, Alone
    <3>4. Sending!TornOnlyIfOverlapped'
      BY <3>1, <3>2 DEF SendInv, Sending!TornOnlyIfOverlapped, Sending!Torn
    <3> QED
      BY <3>3, <3>4 DEF SendInv
  <2> QED
    BY <2>1, <2>2, <2>3, <2>4 DEF Sending!Next, Sending!send, Sending!sendFixedBuffer,
           Sending!sendRaw
<1> QED
  BY <1>1, <1>2, PTL DEF Sending!Spec

\* The parts of a packet reach the peer together on a websocket session, and on a TCP
\* session unless the packet was written while another was.
THEOREM OnlyOverlapsTear == Sending!Spec => []Sending!TornOnlyIfOverlapped
<1>1. SendInv => Sending!TornOnlyIfOverlapped
  BY DEF SendInv
<1> QED
  BY <1>1, SendPathInvariant, PTL

-----------------------------------------------------------------------------
(***************************************************************************)
(* RentalPool. An item can only be handed out twice if it is known in two  *)
(* places, so the invariant says where each item is known: new items       *)
(* nowhere, rented ones by one handle, pooled ones in one place; and that  *)
(* a handle without a release function holds an item that was in the pool  *)
(* before.                                                                 *)
(***************************************************************************)

PoolPlaces ==
  /\ Pool!OneOwner
  /\ \A h \in handles : h.value \notin unused
  /\ \A i \in 1 .. Len(_pool) : _pool[i] \notin unused

NoRelease == \A h \in handles : ~h.release => h.value \in reused

\* Every item is somewhere, or was dropped for one of the two reasons.
Accounted ==
  \A v \in Items :
    \/ v \in unused \union discarded \union reused
    \/ \E h \in handles : h.value = v
    \/ \E i \in 1 .. Len(_pool) : _pool[i] = v

PoolInv == Pool!TypeOK /\ PoolPlaces /\ NoRelease /\ Accounted

\* The items in the queue, by position.
LEMMA PoolAppend ==
  ASSUME NEW v \in Items, _pool \in Seq(Items)
  PROVE  /\ Append(_pool, v) \in Seq(Items)
         /\ Len(Append(_pool, v)) = Len(_pool) + 1
         /\ \A i \in 1 .. Len(_pool) : Append(_pool, v)[i] = _pool[i]
         /\ Append(_pool, v)[Len(_pool) + 1] = v
         /\ Len(_pool) \in Nat
OBVIOUS

\* What taking the first item leaves.
LEMMA PoolTail ==
  ASSUME _pool \in Seq(Items), _pool # <<>>
  PROVE  /\ Tail(_pool) \in Seq(Items)
         /\ Len(Tail(_pool)) = Len(_pool) - 1
         /\ Len(_pool) \in Nat \ {0}
         /\ \A i \in 1 .. Len(_pool) - 1 : Tail(_pool)[i] = _pool[i + 1]
         /\ Head(_pool) = _pool[1]
         /\ Head(_pool) \in Items
OBVIOUS

\* Renting an item out of the pool keeps it in one place.
LEMMA GetItemStep == PoolInv /\ Pool!getItem => PoolInv'
<1> SUFFICES ASSUME PoolInv, Pool!getItem PROVE PoolInv'
  OBVIOUS
<1> DEFINE v == Head(_pool)
           n == Pool!RentalItem(v, FALSE)
<1>1. /\ _pool' \in Seq(Items)
      /\ Len(_pool') = Len(_pool) - 1
      /\ Len(_pool) \in Nat \ {0}
      /\ \A i \in 1 .. Len(_pool') : i + 1 \in 1 .. Len(_pool) /\ _pool'[i] = _pool[i + 1]
      /\ v = _pool[1] /\ v \in Items
  BY PoolTail DEF PoolInv, Pool!TypeOK, Pool!getItem
<1>2. /\ handles' = handles \union {n}
      /\ n \in [value : Items, reusable : BOOLEAN, release : BOOLEAN]
      /\ n.value = v /\ n.release = FALSE
      /\ reused' = reused \union {v} /\ unused' = unused /\ discarded' = discarded
  BY <1>1 DEF Pool!getItem, Pool!RentalItem
<1> HIDE DEF v, n
<1>3. Pool!TypeOK'
  BY <1>1, <1>2 DEF PoolInv, Pool!TypeOK
<1>4. v \notin unused /\ \A h \in handles : h.value # v
  BY <1>1 DEF PoolInv, PoolPlaces, Pool!OneOwner
<1>5. \A i \in 1 .. Len(_pool') : _pool'[i] # v
  <2> TAKE i \in 1 .. Len(_pool')
  <2>1. i + 1 \in 1 .. Len(_pool) /\ i + 1 # 1 /\ 1 \in 1 .. Len(_pool)
    BY <1>1
  <2> QED
    BY <1>1, <2>1 DEF PoolInv, PoolPlaces, Pool!OneOwner
<1>6. PoolPlaces'
  <2>1. \A g, h \in handles' : g.value = h.value => g = h
    BY <1>2, <1>4 DEF PoolInv, PoolPlaces, Pool!OneOwner
  <2>2. \A i, j \in 1 .. Len(_pool') : _pool'[i] = _pool'[j] => i = j
    <3> SUFFICES ASSUME NEW i \in 1 .. Len(_pool'), NEW j \in 1 .. Len(_pool'),
                        _pool'[i] = _pool'[j]
                 PROVE  i = j
      OBVIOUS
    <3>1. _pool[i + 1] = _pool[j + 1] /\ i + 1 \in 1 .. Len(_pool) /\ j + 1 \in 1 .. Len(_pool)
      BY <1>1
    <3>2. i + 1 = j + 1
      BY <3>1 DEF PoolInv, PoolPlaces, Pool!OneOwner
    <3> QED
      BY <3>2, <1>1
  <2>3. \A h \in handles', i \in 1 .. Len(_pool') : h.value # _pool'[i]
    BY <1>1, <1>2, <1>5 DEF PoolInv, PoolPlaces, Pool!OneOwner
  <2>4. \A h \in handles' : h.value \notin unused'
    BY <1>2, <1>4 DEF PoolInv, PoolPlaces
  <2>5. \A i \in 1 .. Len(_pool') : _pool'[i] \notin unused'
    BY <1>1, <1>2 DEF PoolInv, PoolPlaces
  <2> QED
    BY <2>1, <2>2, <2>3, <2>4, <2>5 DEF PoolPlaces, Pool!OneOwner
<1>7. NoRelease'
  BY <1>2 DEF PoolInv, NoRelease
<1>8. Accounted'
  <2> SUFFICES ASSUME NEW w \in Items, w \notin unused' \union discarded' \union reused',
                      \A h \in handles' : h.value # w
               PROVE  \E i \in 1 .. Len(_pool') : _pool'[i] = w
    BY DEF Accounted
  <2>1. w # v
    BY <1>2
  <2>2. PICK j \in 1 .. Len(_pool) : _pool[j] = w
    BY <1>2 DEF PoolInv, Accounted
  <2>3. j # 1 /\ j - 1 \in 1 .. Len(_pool')
    BY <1>1, <2>1, <2>2
  <2>4. _pool'[j - 1] = _pool[(j - 1) + 1] /\ (j - 1) + 1 = j
    BY <1>1, <2>3
  <2> QED
    BY <2>2, <2>3, <2>4
<1> QED
  BY <1>3, <1>6, <1>7, <1>8 DEF PoolInv

\* A new item is known to its handle alone.
LEMMA CreateItemStep == ASSUME PoolInv, NEW v \in Items, Pool!createItem(v) PROVE PoolInv'
<1> DEFINE n == Pool!RentalItem(v, TRUE)
<1>1. /\ handles' = handles \union {n}
      /\ n \in [value : Items, reusable : BOOLEAN, release : BOOLEAN]
      /\ n.value = v /\ n.release = TRUE
      /\ unused' = unused \ {v} /\ v \in unused
      /\ _pool' = _pool /\ reused' = reused /\ discarded' = discarded
  BY DEF Pool!createItem, Pool!RentalItem
<1> HIDE DEF n
<1>2. Pool!TypeOK'
  BY <1>1 DEF PoolInv, Pool!TypeOK
<1>3. PoolPlaces'
  BY <1>1 DEF PoolInv, PoolPlaces, Pool!OneOwner
<1>4. NoRelease'
  BY <1>1 DEF PoolInv, NoRelease
<1>5. Accounted'
  BY <1>1 DEF PoolInv, Accounted
<1> QED
  BY <1>2, <1>3, <1>4, <1>5 DEF PoolInv

\* The mark is the only thing about a handle that changes.
LEMMA SetNotReusableStep ==
  ASSUME PoolInv, NEW h \in handles, Pool!SetNotReusable(h) PROVE PoolInv'
<1> DEFINE n == [h EXCEPT !.reusable = FALSE]
<1>1. h \in [value : Items, reusable : BOOLEAN, release : BOOLEAN]
  BY DEF PoolInv, Pool!TypeOK
<1>2. /\ handles' = (handles \ {h}) \union {n}
      /\ n \in [value : Items, reusable : BOOLEAN, release : BOOLEAN]
      /\ n.value = h.value /\ n.release = h.release
      /\ unused' = unused /\ _pool' = _pool /\ reused' = reused /\ discarded' = discarded
  BY Zenon, <1>1 DEF Pool!SetNotReusable
<1> HIDE DEF n
<1>3. Pool!TypeOK'
  BY <1>2 DEF PoolInv, Pool!TypeOK
<1>4. PoolPlaces'
  BY <1>2 DEF PoolInv, PoolPlaces, Pool!OneOwner
<1>5. NoRelease'
  BY <1>2 DEF PoolInv, NoRelease
<1>6. Accounted'
  BY <1>2 DEF PoolInv, Accounted
<1> QED
  BY <1>3, <1>4, <1>5, <1>6 DEF PoolInv

\* A dropped handle's item moves to the pool, or is lost for a reason.
LEMMA DropStep == ASSUME PoolInv, NEW h \in handles, Pool!Drop(h) PROVE PoolInv'
<1> DEFINE v == h.value
<1>1. /\ v \in Items
      /\ handles' = handles \ {h} /\ unused' = unused /\ reused' = reused
      /\ _pool \in Seq(Items)
      /\ h.reusable \in BOOLEAN /\ h.release \in BOOLEAN
  BY DEF PoolInv, Pool!TypeOK, Pool!Drop
<1>2. \A g \in handles' : g.value # v
  BY <1>1 DEF PoolInv, PoolPlaces, Pool!OneOwner
<1>3. CASE h.reusable /\ h.release
  <2>1. /\ _pool' \in Seq(Items)
        /\ Len(_pool') = Len(_pool) + 1
        /\ \A i \in 1 .. Len(_pool) : _pool'[i] = _pool[i]
        /\ _pool'[Len(_pool) + 1] = v
        /\ Len(_pool) \in Nat
        /\ discarded' = discarded
    BY <1>1, <1>3, PoolAppend DEF Pool!Drop, Pool!releaseItem
  <2> HIDE DEF v
  <2>2. \A i \in 1 .. Len(_pool') : i \in 1 .. Len(_pool) \/ i = Len(_pool) + 1
    BY <2>1
  <2>3. \A i \in 1 .. Len(_pool) : i \in 1 .. Len(_pool')
    BY <2>1
  <2>4. Len(_pool) + 1 \in 1 .. Len(_pool')
    BY <2>1
  <2>5. v \notin unused /\ \A i \in 1 .. Len(_pool) : _pool[i] # v
    BY DEF PoolInv, PoolPlaces, Pool!OneOwner, v
  <2>6. Pool!TypeOK'
    BY <1>1, <2>1 DEF PoolInv, Pool!TypeOK
  <2>7. PoolPlaces'
    <3>1. \A i, j \in 1 .. Len(_pool') : _pool'[i] = _pool'[j] => i = j
      BY <2>1, <2>2, <2>5 DEF PoolInv, PoolPlaces, Pool!OneOwner
    <3>2. \A g \in handles', i \in 1 .. Len(_pool') : g.value # _pool'[i]
      BY <1>1, <1>2, <2>1, <2>2 DEF PoolInv, PoolPlaces, Pool!OneOwner
    <3>3. \A i \in 1 .. Len(_pool') : _pool'[i] \notin unused'
      BY <1>1, <2>1, <2>2, <2>5 DEF PoolInv, PoolPlaces
    <3> QED
      BY Zenon, <1>1, <3>1, <3>2, <3>3 DEF PoolInv, PoolPlaces, Pool!OneOwner
  <2>8. NoRelease'
    BY <1>1 DEF PoolInv, NoRelease
  <2>9. Accounted'
    BY <1>1, <2>1, <2>3, <2>4 DEF PoolInv, Accounted, v
  <2> QED
    BY <2>6, <2>7, <2>8, <2>9 DEF PoolInv
<1>4. CASE ~(h.reusable /\ h.release)
  <2>1. _pool' = _pool
    BY <1>4 DEF Pool!Drop
  <2>2. v \in discarded' \union reused' /\ discarded \subseteq discarded'
        /\ discarded' \subseteq Items
    BY <1>1, <1>4 DEF PoolInv, Pool!TypeOK, NoRelease, Pool!Drop
  <2> HIDE DEF v
  <2>3. Pool!TypeOK'
    BY <1>1, <2>1, <2>2 DEF PoolInv, Pool!TypeOK
  <2>4. PoolPlaces'
    BY Zenon, <1>1, <2>1 DEF PoolInv, PoolPlaces, Pool!OneOwner
  <2>5. NoRelease'
    BY <1>1 DEF PoolInv, NoRelease
  <2>6. Accounted'
    BY <1>1, <2>1, <2>2 DEF PoolInv, Accounted, v
  <2> QED
    BY <2>3, <2>4, <2>5, <2>6 DEF PoolInv
<1> QED
  BY <1>3, <1>4

\* The invariant holds in every state of the pool.
LEMMA PoolInvariant == Pool!Spec => []PoolInv
<1>1. Pool!Init => PoolInv
  BY DEF Pool!Init, PoolInv, Pool!TypeOK, PoolPlaces, Pool!OneOwner, NoRelease, Accounted
<1>2. PoolInv /\ [Pool!Next]_(Pool!vars) => PoolInv'
  <2> SUFFICES ASSUME PoolInv, [Pool!Next]_(Pool!vars) PROVE PoolInv'
    OBVIOUS
  <2>1. CASE Pool!getItem
    BY <2>1, GetItemStep
  <2>2. CASE \E i \in Items : Pool!createItem(i)
    BY <2>2, CreateItemStep
  <2>3. CASE \E h \in handles : Pool!SetNotReusable(h)
    BY <2>3, SetNotReusableStep
  <2>4. CASE \E h \in handles : Pool!Drop(h)
    BY <2>4, DropStep
  <2>5. CASE UNCHANGED Pool!vars
    BY <2>5 DEF Pool!vars, PoolInv, Pool!TypeOK, PoolPlaces, Pool!OneOwner, NoRelease, Accounted
  <2> QED
    BY <2>1, <2>2, <2>3, <2>4, <2>5 DEF Pool!Next
<1> QED
  BY <1>1, <1>2, PTL DEF Pool!Spec

\* However getItem, dropped handles and marks interleave, no item is handed out
\* while another handle or the pool has it.
THEOREM OneOwnerHolds == Pool!Spec => []Pool!OneOwner
<1>1. PoolInv => Pool!OneOwner
  BY DEF PoolInv, PoolPlaces
<1> QED
  BY <1>1, PoolInvariant, PTL

\* An item is lost only if its handle was marked, or on its second rental.
THEOREM LostOnlyAfterReuseHolds == Pool!Spec => []Pool!LostOnlyAfterReuse
<1>1. PoolInv => Pool!LostOnlyAfterReuse
  <2> SUFFICES ASSUME PoolInv, NEW v \in Pool!Lost
               PROVE  v \in discarded \union reused
    BY DEF Pool!LostOnlyAfterReuse
  <2>1. \A h \in handles : h.value # v
    BY DEF Pool!Lost, Pool!Rented
  <2> QED
    BY <2>1 DEF PoolInv, Accounted, Pool!Lost
<1> QED
  BY <1>1, PoolInvariant, PTL
==============================================================================
