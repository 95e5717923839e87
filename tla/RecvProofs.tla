----------------------------- MODULE RecvProofs -----------------------------
(***************************************************************************)
(* Proofs about RecvPath for any packets, any sizes of the buffers and any *)
(* way the bytes are cut into reads.                                       *)
(*                                                                         *)
(* The packets are parsed out of one stream of bytes, so the invariant     *)
(* says which bytes the stream holds (Held): those that have arrived       *)
(* behind the packets handed on.  The byte at its front is then the first  *)
(* of a packet, what is read there as a header is that packet's, and the   *)
(* bytes it announces are the packet.  Where a packet begins is given by   *)
(* a recursive function (sizeOf), whose existence, growth and the one      *)
(* packet a byte belongs to are shown by least counterexamples.  Once a    *)
(* packet whose size is below the header's was taken up, nothing is said   *)
(* of the stream any more: the bytes in front can be any.                  *)
(***************************************************************************)
EXTENDS RecvPath, WellFoundedInduction, TLAPS

\* A set of naturals that is not empty has a least element.
LEMMA LeastNat ==
  ASSUME NEW S, S \subseteq Nat, S # {}
  PROVE  \E m \in S : \A y \in S : m <= y
<1>1. \E m \in S : \A y \in S : ~ (<<y, m>> \in OpToRel(<, Nat))
  BY Zenon, WFMin, NatLessThanWellFounded
<1>2. PICK m \in S : \A y \in S : ~ (<<y, m>> \in OpToRel(<, Nat))
  BY Zenon, <1>1
<1>3. ASSUME NEW y \in S PROVE m <= y
  <2>1. y \in Nat /\ m \in Nat
    OBVIOUS
  <2>2. ~ (<<y, m>> \in OpToRel(<, Nat))
    BY Zenon, <1>2
  <2>3. ~ (y < m)
    BY <2>1, <2>2 DEF OpToRel
  <2> QED
    BY <2>1, <2>3
<1> QED
  BY <1>3

\* f[k] is the number of bytes of the first k packets, up to the n-th.
Sums(f, n) ==
  /\ f \in [0 .. n -> Nat] /\ f[0] = 0
  /\ \A k \in 1 .. n : f[k] = f[k - 1] + length(k)

\* A packet has at least a header.
LEMMA SentFacts ==
  ASSUME sent \in Seq(Packets)
  PROVE  /\ Len(sent) \in Nat
         /\ \A k \in 1 .. Len(sent) :
              /\ sent[k] \in Packets /\ sent[k].size \in Int
              /\ length(k) \in Nat /\ length(k) >= HeaderSize /\ sent[k].size <= length(k)
              /\ sent[k].size >= HeaderSize => length(k) = sent[k].size
<1>1. Len(sent) \in Nat /\ \A k \in 1 .. Len(sent) : sent[k] \in Packets
  OBVIOUS
<1>2. \A x \in Packets : x.size \in Sizes
  BY DEF Packets
<1>3. Sizes \subseteq Int /\ HeaderSize \in Nat
  BY SizeAssumption
<1>4. ASSUME NEW k \in 1 .. Len(sent)
      PROVE  /\ sent[k].size \in Int
             /\ length(k) \in Nat /\ length(k) >= HeaderSize /\ sent[k].size <= length(k)
             /\ sent[k].size >= HeaderSize => length(k) = sent[k].size
  <2>1. sent[k].size \in Int
    BY Zenon, <1>1, <1>2, <1>3
  <2> QED
    BY <1>3, <2>1 DEF length
<1> QED
  BY Zenon, <1>1, <1>4

\* The packets can be added up, one after the other.
LEMMA SumsExist ==
  ASSUME sent \in Seq(Packets), NEW n \in 0 .. Len(sent)
  PROVE  \E f : Sums(f, n)
<1> DEFINE Bad == {k \in 0 .. Len(sent) : ~ \E f : Sums(f, k)}
<1> SUFFICES ASSUME Bad # {} PROVE FALSE
  OBVIOUS
<1>0. Len(sent) \in Nat
  BY SentFacts
<1>1. Bad \subseteq Nat
  BY <1>0
<1>2. PICK m \in Bad : \A y \in Bad : m <= y
  BY Zenon, <1>1, LeastNat
<1>3. m \in 0 .. Len(sent) /\ m \in Nat
  BY <1>0
<1>4. CASE m = 0
  <2>1. Sums([k \in 0 .. 0 |-> 0], 0)
    BY DEF Sums
  <2> QED
    BY <1>4, <2>1
<1>5. CASE m # 0
  <2>1. m - 1 \in 0 .. Len(sent) /\ m \in 1 .. Len(sent)
    BY <1>0, <1>3, <1>5
  <2>2. m - 1 \notin Bad
    BY <1>2, <1>3
  <2>3. PICK f : Sums(f, m - 1)
    BY <2>1, <2>2
  <2> DEFINE g == [k \in 0 .. m |-> IF k = m THEN f[m - 1] + length(m) ELSE f[k]]
  <2>4. length(m) \in Nat
    BY <2>1, SentFacts
  <2>5. Sums(g, m)
    BY <1>3, <1>5, <2>3, <2>4 DEF Sums
  <2> QED
    BY <2>5
<1> QED
  BY <1>4, <1>5

\* So the recursive definition of sizeOf has a solution, and sizeOf is one.
LEMMA SizeOfDef ==
  ASSUME sent \in Seq(Packets)
  PROVE  sizeOf = [k \in 0 .. Len(sent) |-> IF k = 0 THEN 0 ELSE sizeOf[k - 1] + length(k)]
<1>0. Len(sent) \in Nat
  BY SentFacts
<1>1. PICK f : Sums(f, Len(sent))
  BY <1>0, SumsExist
<1>2. f = [k \in 0 .. Len(sent) |-> IF k = 0 THEN 0 ELSE f[k - 1] + length(k)]
  BY <1>0, <1>1 DEF Sums
<1>3. \E g : g = [k \in 0 .. Len(sent) |-> IF k = 0 THEN 0 ELSE g[k - 1] + length(k)]
  BY <1>2
<1> QED
  BY Zenon, <1>3 DEF sizeOf

\* sizeOf counts the bytes of the packets.
LEMMA SizeOfFacts ==
  ASSUME sent \in Seq(Packets)
  PROVE  Sums(sizeOf, Len(sent))
<1>0. Len(sent) \in Nat
  BY SentFacts
<1>1. /\ DOMAIN sizeOf = 0 .. Len(sent) /\ sizeOf[0] = 0
      /\ \A k \in 1 .. Len(sent) : sizeOf[k] = sizeOf[k - 1] + length(k)
      /\ sizeOf = [k \in 0 .. Len(sent) |-> sizeOf[k]]
  <2> HIDE DEF sizeOf
  <2> QED
    BY <1>0, SizeOfDef
<1>2. \A k \in 0 .. Len(sent) : sizeOf[k] \in Nat
  <2> DEFINE Bad == {k \in 0 .. Len(sent) : sizeOf[k] \notin Nat}
  <2> SUFFICES ASSUME Bad # {} PROVE FALSE
    OBVIOUS
  <2>1. Bad \subseteq Nat
    BY <1>0
  <2>2. PICK m \in Bad : \A y \in Bad : m <= y
    BY Zenon, <2>1, LeastNat
  <2>3. m \in 1 .. Len(sent) /\ m - 1 \in 0 .. Len(sent) /\ m \in Nat
    BY <1>0, <1>1
  <2>4. m - 1 \notin Bad
    BY <2>2, <2>3
  <2>5. sizeOf[m - 1] \in Nat /\ length(m) \in Nat
    BY <2>3, <2>4, SentFacts
  <2>6. sizeOf[m] \notin Nat
    BY <2>2
  <2>7. sizeOf[m] = sizeOf[m - 1] + length(m)
    BY Zenon, <1>1, <2>3
  <2> QED
    BY <2>5, <2>6, <2>7
<1> QED
  BY Zenon, <1>1, <1>2 DEF Sums

\* It grows with every packet.
LEMMA SizeOfGrows ==
  ASSUME sent \in Seq(Packets), NEW a \in 0 .. Len(sent), NEW b \in 0 .. Len(sent), a <= b
  PROVE  sizeOf[a] <= sizeOf[b]
<1> DEFINE Bad == {k \in a .. Len(sent) : ~ (sizeOf[a] <= sizeOf[k])}
<1>0. Len(sent) \in Nat /\ a \in Nat /\ b \in a .. Len(sent)
  BY SentFacts
<1>1. /\ \A k \in 0 .. Len(sent) : sizeOf[k] \in Nat
      /\ \A k \in 1 .. Len(sent) : sizeOf[k] = sizeOf[k - 1] + length(k)
  BY SizeOfFacts DEF Sums
<1> HIDE DEF sizeOf
<1> SUFFICES ASSUME Bad # {} PROVE FALSE
  BY <1>0
<1>2. Bad \subseteq Nat
  BY <1>0
<1>3. PICK m \in Bad : \A y \in Bad : m <= y
  BY Zenon, <1>2, LeastNat
<1>4. m \in a .. Len(sent) /\ m # a
  BY <1>0, <1>1
<1>5. m - 1 \in a .. Len(sent) /\ m \in 1 .. Len(sent) /\ m \in Nat
  BY <1>0, <1>4
<1>6. m - 1 \notin Bad
  BY <1>3, <1>5
<1>7. sizeOf[a] <= sizeOf[m - 1] /\ length(m) \in Nat
  BY <1>5, <1>6, SentFacts
<1>8. sizeOf[a] \in Nat /\ sizeOf[m - 1] \in Nat
  BY <1>0, <1>1, <1>5
<1>9. sizeOf[m] = sizeOf[m - 1] + length(m)
  BY Zenon, <1>1, <1>5
<1>10. ~ (sizeOf[a] <= sizeOf[m])
  BY Zenon, <1>3
<1>11. \A x, y, w \in Nat : x <= y => x <= y + w
  OBVIOUS
<1> QED
  BY Zenon, <1>7, <1>8, <1>9, <1>10, <1>11

\* A byte of the wire belongs to one packet.
LEMMA WireFacts ==
  ASSUME sent \in Seq(Packets), NEW k \in 1 .. Len(sent), NEW i \in 1 .. length(k)
  PROVE  wire(sizeOf[k - 1] + i) = <<k, i>>
<1> DEFINE j == sizeOf[k - 1] + i
           At(m) == sizeOf[m - 1] < j /\ j <= sizeOf[m]
<1>0. /\ Len(sent) \in Nat /\ k \in Nat /\ i \in Nat /\ length(k) \in Nat
      /\ k - 1 \in 0 .. Len(sent)
  BY SentFacts
<1>1. /\ \A n \in 0 .. Len(sent) : sizeOf[n] \in Nat
      /\ sizeOf[k] = sizeOf[k - 1] + length(k)
  BY SizeOfFacts DEF Sums
<1> HIDE DEF sizeOf
<1>2. At(k)
  BY <1>0, <1>1
<1>3. ASSUME NEW m \in 1 .. Len(sent), At(m) PROVE m = k
  <2>0. m \in Nat /\ m - 1 \in 0 .. Len(sent) /\ m \in 0 .. Len(sent) /\ k \in 0 .. Len(sent)
    BY <1>0
  <2>1. /\ sizeOf[m] \in Nat /\ sizeOf[m - 1] \in Nat
        /\ sizeOf[k] \in Nat /\ sizeOf[k - 1] \in Nat
    BY Zenon, <1>0, <1>1, <2>0
  <2>b. j \in Nat
    <3>1. \A x, y \in Nat : x + y \in Nat
      OBVIOUS
    <3> QED
      BY Zenon, <1>0, <2>1, <3>1
  <2>a. sizeOf[m - 1] < j /\ j <= sizeOf[m] /\ sizeOf[k - 1] < j /\ j <= sizeOf[k]
    BY Zenon, <1>2, <1>3
  <2> HIDE DEF j, At
  <2>2. CASE m <= k - 1
    <3>1. sizeOf[m] <= sizeOf[k - 1]
      BY <1>0, <2>0, <2>2, SizeOfGrows
    <3> QED
      BY <2>1, <2>a, <2>b, <3>1
  <2>3. CASE k <= m - 1
    <3>1. sizeOf[k] <= sizeOf[m - 1]
      BY <1>0, <2>0, <2>3, SizeOfGrows
    <3> QED
      BY <2>1, <2>a, <2>b, <3>1
  <2> QED
    BY <1>0, <2>0, <2>2, <2>3
<1>4. (CHOOSE m \in 1 .. Len(sent) : At(m)) = k
  BY <1>2, <1>3
<1>5. wire(j) = packetBytes(k)[j - sizeOf[k - 1]]
  BY Zenon, <1>4 DEF wire
<1>6. j - sizeOf[k - 1] = i
  BY <1>0, <1>1
<1> QED
  BY <1>5, <1>6 DEF packetBytes

-----------------------------------------------------------------------------
\* What a buffer can hold.
Cells == {wire(j) : j \in Nat} \union {<<0, 0>>}

\* The positions of the stream, and its bytes.
Positions == posRead \in Nat /\ posWrite \in Nat /\ posRead <= posWrite /\ buffer \in Seq(Cells)

\* The stream holds the bytes that have arrived and were not handed on.
Held ==
  /\ Positions /\ posWrite <= Len(buffer)
  /\ Len(handed) <= Len(sent)
  /\ arrived = sizeOf[Len(handed)] + (posWrite - posRead)
  /\ arrived <= sizeOf[Len(sent)]
  /\ \A i \in 1 .. posWrite - posRead : buffer[posRead + i] = wire(sizeOf[Len(handed)] + i)

\* On a TCP socket the packets handed on are the first ones, as long as the
\* parser has not lost its place.
Placed == sessionType = "TCP" /\ ~overrun /\ Framed(Len(handed))

StreamInv ==
  /\ sent \in Seq(Packets) /\ arrived \in Nat /\ \E S : handed \in Seq(S)
  /\ sessionType = "TCP" =>
       \A j \in 1 .. Len(handed) : Framed(j - 1) => j <= Len(sent) /\ handed[j] = Outcome(j)
  /\ Placed => Held

\* A parser that has its place had it one packet before.
LEMMA FramedBefore ==
  ASSUME sent \in Seq(Packets), NEW n \in Nat, Framed(n + 1)
  PROVE  Framed(n)
<1>1. \A i \in 1 .. Len(sent) : i <= n => i <= n + 1
  OBVIOUS
<1> QED
  BY Zenon, <1>1 DEF Framed

\* A write leaves the bytes held and puts its own behind them.
LEMMA WriteFacts ==
  ASSUME Positions, NEW n \in Nat, NEW src \in Seq(Cells), Len(src) = n, Stream!write(src)
  PROVE  /\ posRead' = posRead /\ posWrite' = posWrite + n /\ buffer' \in Seq(Cells)
         /\ ~overrun' => /\ posWrite' <= Len(buffer')
                         /\ posWrite <= Len(buffer) =>
                              \A i \in 1 .. posWrite : buffer'[i] = buffer[i]
                         /\ \A i \in posWrite + 1 .. posWrite + n : buffer'[i] = src[i - posWrite]
<1> DEFINE g == Stream!Grown(n)
           l == IF Len(buffer) < Stream!size + n THEN Stream!size + n ELSE Len(buffer)
<1>0. posRead \in Nat /\ posWrite \in Nat /\ posRead <= posWrite /\ Len(buffer) \in Nat
  BY DEF Positions
<1>1. l \in Nat /\ Len(buffer) <= l
  BY <1>0 DEF Stream!size
<1> HIDE DEF l
<1>2. g = [i \in 1 .. l |-> IF i <= Len(buffer) THEN buffer[i] ELSE <<0, 0>>]
  BY DEF Stream!Grown, l
<1>3. \A i \in 1 .. Len(buffer) : buffer[i] \in Cells
  BY DEF Positions
<1>4. g \in [1 .. l -> Cells] /\ \A i \in 1 .. Len(buffer) : g[i] = buffer[i]
  <2>1. <<0, 0>> \in Cells
    BY DEF Cells
  <2> QED
    BY <1>0, <1>1, <1>2, <1>3, <2>1
<1>5. Len(g) = l
  BY <1>1, <1>2
<1> HIDE DEF g
<1>6. /\ posRead' = posRead /\ posWrite' = posWrite + n
      /\ overrun' = (l < posWrite')
      /\ buffer' = [i \in 1 .. l |->
                      IF i \in posWrite + 1 .. posWrite' THEN src[i - posWrite] ELSE g[i]]
  BY <1>5 DEF Stream!write, g
<1>7. \A i \in posWrite + 1 .. posWrite' : i - posWrite \in 1 .. n /\ src[i - posWrite] \in Cells
  BY <1>0, <1>6
<1>8. buffer' \in [1 .. l -> Cells]
  BY <1>4, <1>6, <1>7
<1>9. buffer' \in Seq(Cells) /\ Len(buffer') = l
  BY <1>1, <1>8
<1>10. ASSUME ~overrun'
       PROVE  /\ posWrite' <= Len(buffer')
              /\ posWrite <= Len(buffer) => \A i \in 1 .. posWrite : buffer'[i] = buffer[i]
              /\ \A i \in posWrite + 1 .. posWrite + n : buffer'[i] = src[i - posWrite]
  <2>a. ~ (l < posWrite')
    BY Zenon, <1>6, <1>10
  <2>1. posWrite' <= l
    BY <1>0, <1>1, <1>6, <2>a
  <2>2. ASSUME posWrite <= Len(buffer), NEW i \in 1 .. posWrite PROVE buffer'[i] = buffer[i]
    <3>1. i \in 1 .. l /\ i \in 1 .. Len(buffer) /\ i \notin posWrite + 1 .. posWrite'
      BY <1>0, <1>1, <1>6, <2>2
    <3> QED
      BY <1>4, <1>6, <3>1
  <2>3. ASSUME NEW i \in posWrite + 1 .. posWrite + n PROVE buffer'[i] = src[i - posWrite]
    <3>1. i \in 1 .. l /\ i \in posWrite + 1 .. posWrite'
      BY <1>0, <1>1, <1>6, <2>1
    <3> QED
      BY <1>6, <3>1
  <2> QED
    BY <1>9, <2>1, <2>2, <2>3
<1> QED
  BY Zenon, <1>6, <1>9, <1>10

\* On a TCP socket, what is in front of the stream is the next packet.
LEMMA HeaderFacts ==
  ASSUME StreamInv, Placed, HeaderSize <= posWrite - posRead
  PROVE  /\ Len(handed) + 1 \in 1 .. Len(sent)
         /\ headers = {sent[Len(handed) + 1]}
<1>1. Held /\ sent \in Seq(Packets)
  BY Zenon DEF StreamInv
<1>0. /\ Len(sent) \in Nat /\ Len(handed) \in Nat /\ Len(handed) <= Len(sent)
      /\ posRead \in Nat /\ posWrite \in Nat /\ posRead <= posWrite
  <2>1. PICK S : handed \in Seq(S)
    BY Zenon DEF StreamInv
  <2> QED
    BY <1>1, <2>1, SentFacts DEF Held, Positions
<1>2. HeaderSize \in Nat /\ HeaderSize >= 1
  BY SizeAssumption
<1>3. /\ \A n \in 0 .. Len(sent) : sizeOf[n] \in Nat
  BY <1>0, <1>1, SizeOfFacts DEF Sums
<1>4. Len(handed) # Len(sent)
  <2>1. /\ arrived = sizeOf[Len(handed)] + (posWrite - posRead) /\ arrived <= sizeOf[Len(sent)]
        /\ sizeOf[Len(handed)] \in Nat
    BY <1>0, <1>1, <1>3 DEF Held
  <2> QED
    BY <1>0, <1>2, <2>1
<1>5. Len(handed) + 1 \in 1 .. Len(sent) /\ (Len(handed) + 1) - 1 = Len(handed)
  BY <1>0, <1>4
<1>6. 1 \in 1 .. posWrite - posRead /\ 1 \in 1 .. length(Len(handed) + 1)
  <2>1. length(Len(handed) + 1) \in Nat /\ length(Len(handed) + 1) >= HeaderSize
    BY Zenon, <1>1, <1>5, SentFacts
  <2> QED
    BY <1>0, <1>2, <2>1
<1>7. data[1] = buffer[posRead + 1]
  BY <1>6 DEF data, Stream!data, Stream!size
<1>8. buffer[posRead + 1] = wire(sizeOf[Len(handed)] + 1)
  BY Zenon, <1>1, <1>6 DEF Held
<1>9. wire(sizeOf[Len(handed)] + 1) = <<Len(handed) + 1, 1>>
  BY Zenon, <1>1, <1>5, <1>6, WireFacts
<1> QED
  BY <1>5, <1>7, <1>8, <1>9 DEF headers

\* What parse takes up while it has its place is the next packet, and the bytes
\* behind a packet that is one are what the stream holds afterwards.
LEMMA PlacedTake ==
  ASSUME StreamInv, Placed, NEW h \in headers, Take(h), UNCHANGED <<peer, arrived>>,
         handed' = Append(handed, [bytes |-> packet(h),
                                   ok |-> h.kind = "json" /\ h.size >= HeaderSize])
  PROVE  /\ Len(handed) + 1 <= Len(sent)
         /\ handed' = Append(handed, Outcome(Len(handed) + 1))
         /\ Framed(Len(handed) + 1) => Held'
<1> DEFINE n == Len(handed)
           z == h.size
<1>1. Held /\ sent \in Seq(Packets)
  BY Zenon DEF StreamInv
<1>0. /\ Len(sent) \in Nat /\ n \in Nat /\ n <= Len(sent)
      /\ posRead \in Nat /\ posWrite \in Nat /\ posRead <= posWrite
      /\ buffer \in Seq(Cells) /\ HeaderSize \in Nat
  <2>1. PICK S : handed \in Seq(S)
    BY Zenon DEF StreamInv
  <2> QED
    BY <1>1, <2>1, SentFacts, SizeAssumption DEF Held, Positions
<1>2. HeaderSize <= posWrite - posRead /\ ~ (z > posWrite - posRead) /\ ~ (z < 0)
  BY Zenon DEF Take, Incomplete, Stream!CanRead, Stream!size
<1>3. n + 1 \in 1 .. Len(sent) /\ h = sent[n + 1]
  BY Zenon, <1>2, HeaderFacts
<1>4. z \in Nat /\ length(n + 1) \in Nat /\ z <= length(n + 1)
  <2>1. z \in Int /\ length(n + 1) \in Nat /\ z <= length(n + 1)
    BY Zenon, <1>1, <1>3, SentFacts
  <2> QED
    BY <1>2, <2>1
<1>5. (n + 1) - 1 = n /\ z <= posWrite - posRead /\ posWrite - posRead \in Nat
  BY <1>0, <1>2, <1>4
<1>6. sizeOf[n] \in Nat /\ sizeOf[n + 1] = sizeOf[n] + length(n + 1)
  <2>1. sizeOf[n] \in Nat
    BY <1>0, <1>1, SizeOfFacts DEF Sums
  <2>2. sizeOf[n + 1] = sizeOf[(n + 1) - 1] + length(n + 1)
    BY Zenon, <1>1, <1>3, SizeOfFacts DEF Sums
  <2> QED
    BY Zenon, <1>5, <2>1, <2>2
<1>7. packet(h) = [i \in 1 .. z |-> <<n + 1, i>>]
  <2>1. data = [i \in 1 .. posWrite - posRead |-> buffer[posRead + i]]
    BY DEF data, Stream!data, Stream!size
  <2>2. packet(h) = [i \in 1 .. z |-> data[i]]
    <3>1. \A i \in 1 .. posWrite - posRead : buffer[posRead + i] \in Cells
      BY <1>0, <1>1 DEF Held
    <3>2. data \in Seq(Cells) /\ Len(data) = posWrite - posRead
      BY <1>5, <2>1, <3>1
    <3> QED
      BY <1>4, <1>5, <3>2 DEF packet
  <2>3. ASSUME NEW i \in 1 .. z PROVE data[i] = <<n + 1, i>>
    <3>1. i \in 1 .. posWrite - posRead /\ i \in 1 .. length(n + 1)
      BY <1>4, <1>5
    <3>2. data[i] = wire(sizeOf[n] + i)
      BY <1>1, <2>1, <3>1 DEF Held
    <3>3. wire(sizeOf[(n + 1) - 1] + i) = <<n + 1, i>>
      BY Zenon, <1>1, <1>3, <3>1, WireFacts
    <3> QED
      BY Zenon, <1>5, <3>2, <3>3
  <2> QED
    BY <2>2, <2>3
<1>8. /\ handed' = Append(handed, Outcome(n + 1))
      /\ sent' = sent /\ arrived' = arrived /\ buffer' = buffer
  <2>1. Outcome(n + 1) = [bytes |-> packet(h), ok |-> h.kind = "json" /\ h.size >= HeaderSize]
    BY <1>3, <1>7 DEF Outcome
  <2>2. buffer' = buffer
    BY Zenon DEF Take, Stream!advancePosRead
  <2> QED
    BY Zenon, <2>1, <2>2 DEF peer
<1>9. Len(handed') = n + 1
  <2>1. PICK S : handed \in Seq(S)
    BY Zenon DEF StreamInv
  <2> QED
    BY <1>8, <2>1
<1>10. /\ UNCHANGED <<sizeOf, Cells>>
       /\ \A j : wire(j)' = wire(j)
  BY <1>8 DEF sizeOf, length, Cells, wire, packetBytes
<1>11. \/ (posRead' = 0 /\ posWrite' = 0 /\ posRead + z = posWrite)
       \/ (posRead' = posRead + z /\ posWrite' = posWrite /\ posRead + z < posWrite)
  BY <1>0, <1>4, <1>5 DEF Take, Stream!advancePosRead
<1>12. Positions'
  BY <1>0, <1>4, <1>8, <1>10, <1>11 DEF Positions
<1>13. posWrite' - posRead' = (posWrite - posRead) - z /\ posWrite' <= posWrite
  BY <1>0, <1>4, <1>11
<1>14. ASSUME Framed(n + 1) PROVE Held'
  <2>0. length(n + 1) = z
    <3>1. n + 1 \in 1 .. Len(sent) /\ n + 1 <= n + 1
      BY <1>0, <1>3
    <3>2. sent[n + 1].size >= HeaderSize
      BY Zenon, <1>14, <3>1 DEF Framed
    <3> QED
      BY Zenon, <1>1, <1>3, <3>2, SentFacts
  <2>1. posWrite' <= Len(buffer')
    BY <1>0, <1>1, <1>8, <1>12, <1>13 DEF Held, Positions
  <2>2. /\ arrived' = sizeOf'[Len(handed')] + (posWrite' - posRead')
        /\ arrived' <= sizeOf'[Len(sent')]
    <3>1. arrived = sizeOf[n] + (posWrite - posRead) /\ arrived <= sizeOf[Len(sent)]
      BY Zenon, <1>1 DEF Held
    <3>2. sizeOf[n] + (posWrite - posRead) = sizeOf[n + 1] + (posWrite' - posRead')
      BY <1>0, <1>4, <1>6, <1>13, <2>0
    <3> QED
      BY Zenon, <1>8, <1>9, <1>10, <3>1, <3>2
  <2>3. ASSUME NEW i \in 1 .. posWrite' - posRead'
        PROVE  buffer'[posRead' + i] = wire(sizeOf[n + 1] + i)
    <3> HIDE DEF n, z
    <3>a. posRead' = posRead + z /\ posWrite' = posWrite
      BY <1>11
    <3>b. i \in 1 .. posWrite - (posRead + z)
      BY Zenon, <3>a
    <3>1. /\ z + i \in 1 .. posWrite - posRead
          /\ (posRead + z) + i = posRead + (z + i) /\ (sizeOf[n] + z) + i = sizeOf[n] + (z + i)
      BY <1>0, <1>4, <1>6, <3>b
    <3>2. buffer[posRead + (z + i)] = wire(sizeOf[n] + (z + i))
      BY Zenon, <1>1, <3>1 DEF Held, n
    <3> QED
      BY Zenon, <1>6, <1>8, <2>0, <3>a, <3>1, <3>2
  <2>4. Len(handed') <= Len(sent')
    BY <1>0, <1>3, <1>8, <1>9
  <2> QED
    BY Zenon, <1>8, <1>9, <1>10, <1>12, <2>1, <2>2, <2>3, <2>4 DEF Held
<1>15. n + 1 <= Len(sent)
  BY <1>0, <1>3
<1> QED
  BY Zenon, <1>8, <1>14, <1>15

\* What parse takes up keeps the invariant: after it has lost its place there is
\* nothing to keep.
LEMMA TakeFacts ==
  ASSUME StreamInv, sessionType = "TCP", ~overrun, NEW h \in headers, Take(h),
         UNCHANGED <<peer, arrived>>,
         handed' = Append(handed, [bytes |-> packet(h),
                                   ok |-> h.kind = "json" /\ h.size >= HeaderSize])
  PROVE  StreamInv'
<1> DEFINE n == Len(handed)
           e == [bytes |-> packet(h), ok |-> h.kind = "json" /\ h.size >= HeaderSize]
<1>1. sent \in Seq(Packets) /\ sent' = sent /\ sessionType' = sessionType /\ arrived' = arrived
  BY Zenon DEF StreamInv, peer
<1>2. PICK S : handed \in Seq(S)
  BY Zenon DEF StreamInv
<1>3. n \in Nat /\ handed' \in Seq(S \union {e}) /\ Len(handed') = n + 1
  <2> HIDE DEF e
  <2>1. handed' = Append(handed, e)
    BY DEF e
  <2>2. handed \in Seq(S \union {e}) /\ e \in S \union {e}
    BY <1>2
  <2> QED
    BY <1>2, <2>1, <2>2
<1>4. \A j \in 1 .. n : handed'[j] = handed[j]
  <2> HIDE DEF e
  <2> QED
    BY <1>2 DEF e
<1>5. \A k : Framed(k)' = Framed(k) /\ Outcome(k)' = Outcome(k)
  BY <1>1 DEF Framed, Outcome
<1>6. Framed(n + 1) => Framed(n)
  BY Zenon, <1>1, <1>3, FramedBefore
<1>7. ASSUME Framed(n)
      PROVE  /\ n + 1 <= Len(sent)
             /\ handed' = Append(handed, Outcome(n + 1))
             /\ Framed(n + 1) => Held'
  BY Zenon, <1>7, PlacedTake DEF Placed
<1>8. ASSUME NEW j \in 1 .. n + 1, Framed(j - 1)
      PROVE  j <= Len(sent) /\ handed'[j] = Outcome(j)
  <2>1. CASE j \in 1 .. n
    BY Zenon, <1>4, <1>8, <2>1 DEF StreamInv
  <2>2. CASE j = n + 1
    <3>1. Framed(n)
      <4>1. (n + 1) - 1 = n
        BY <1>3
      <4> QED
        BY Zenon, <1>8, <2>2, <4>1
    <3>2. handed' = Append(handed, Outcome(n + 1)) /\ n + 1 <= Len(sent)
      BY Zenon, <1>7, <3>1
    <3>3. handed'[n + 1] = Outcome(n + 1)
      <4> DEFINE o == Outcome(n + 1)
      <4> HIDE DEF o
      <4>1. handed' = Append(handed, o)
        BY <3>2 DEF o
      <4>2. handed'[n + 1] = o
        BY <1>2, <4>1
      <4> QED
        BY <4>2 DEF o
    <3> QED
      BY Zenon, <2>2, <3>2, <3>3
  <2> QED
    BY <1>3, <2>1, <2>2
<1>9. (\E T : handed \in Seq(T))'
  BY Zenon, <1>3
<1>10. Placed' => Held'
  BY Zenon, <1>3, <1>5, <1>6, <1>7 DEF Placed
<1>11. Packets' = Packets
  BY DEF Packets, Kinds
<1> QED
  BY Zenon, <1>1, <1>3, <1>5, <1>8, <1>9, <1>10, <1>11 DEF StreamInv

-----------------------------------------------------------------------------
\* At the start nothing has arrived.
LEMMA InitRecv == Init => StreamInv /\ NothingHeldBack
<1> SUFFICES ASSUME Init PROVE StreamInv /\ NothingHeldBack
  OBVIOUS
<1>1. sent \in Seq(Packets) /\ Len(sent) \in Nat /\ Len(sent) >= 1
  <2>1. sent \in Seq(Packets) /\ sent # <<>>
    BY Zenon, SizeAssumption DEF Init
  <2> QED
    BY <2>1
<1>2. buffer \in Seq(Cells) /\ posRead = 0 /\ posWrite = 0 /\ Len(buffer) \in Nat
  <2>1. <<0, 0>> \in Cells /\ BufferSize \in Nat
    BY SizeAssumption DEF Cells
  <2> QED
    BY <2>1 DEF Init, Stream!Init
<1>3. handed = <<>> /\ arrived = 0
  BY DEF Init
<1>4. sizeOf[0] = 0 /\ sizeOf[Len(sent)] \in Nat /\ sizeOf[1] = 0 + length(1)
  BY <1>1, SizeOfFacts DEF Sums
<1>5. length(1) \in Nat /\ length(1) >= HeaderSize
  BY <1>1, SentFacts
<1>6. StreamInv
  <2>1. Len(handed) = 0 /\ 1 .. Len(handed) = {} /\ arrived \in Nat /\ handed \in Seq({0})
    BY <1>3
  <2>2. Positions
    BY <1>2 DEF Positions
  <2>3. Held
    BY <1>1, <1>2, <1>3, <1>4, <2>1, <2>2 DEF Held
  <2> QED
    BY Zenon, <1>1, <2>1, <2>3 DEF StreamInv
<1>7. NothingHeldBack
  BY <1>3, <1>4, <1>5, SizeAssumption DEF NothingHeldBack
<1> QED
  BY <1>6, <1>7

\* What handleRead writes goes on where the bytes held end.
LEMMA PlacedRead ==
  ASSUME StreamInv, Placed, NEW n \in Nat, handleRead(n), ~overrun'
  PROVE  Held'
<1>a. Held /\ sent \in Seq(Packets) /\ arrived \in Nat
  BY Zenon DEF StreamInv
<1>0. /\ Len(sent) \in Nat /\ Positions /\ Len(handed) \in Nat /\ Len(handed) <= Len(sent)
      /\ posRead \in Nat /\ posWrite \in Nat /\ posRead <= posWrite
  <2>1. PICK S : handed \in Seq(S)
    BY Zenon DEF StreamInv
  <2> QED
    BY <1>a, <2>1, SentFacts DEF Held, Positions
<1>1. /\ sent' = sent /\ handed' = handed
      /\ arrived' = arrived + n /\ arrived + n <= sizeOf[Len(sent)]
      /\ Stream!write(Chunk(n))
  BY DEF handleRead, peer
<1>10. /\ UNCHANGED <<sizeOf, Cells>>
       /\ \A j : wire(j)' = wire(j)
  BY <1>1 DEF sizeOf, length, Cells, wire, packetBytes
<1>2. /\ Chunk(n) \in Seq(Cells) /\ Len(Chunk(n)) = n
      /\ \A i \in 1 .. n : Chunk(n)[i] = wire(arrived + i)
  <2>1. \A i \in 1 .. n : wire(arrived + i) \in Cells
    <3>1. \A i \in 1 .. n : arrived + i \in Nat
      BY <1>a
    <3> QED
      BY Zenon, <3>1 DEF Cells
  <2> QED
    BY <2>1 DEF Chunk
<1> HIDE DEF Chunk
<1>3. /\ posRead' = posRead /\ posWrite' = posWrite + n /\ buffer' \in Seq(Cells)
      /\ ~overrun' => /\ posWrite' <= Len(buffer')
                      /\ posWrite <= Len(buffer) =>
                           \A i \in 1 .. posWrite : buffer'[i] = buffer[i]
                      /\ \A i \in posWrite + 1 .. posWrite + n :
                           buffer'[i] = wire(arrived + (i - posWrite))
  <2>1. \A i \in posWrite + 1 .. posWrite + n : i - posWrite \in 1 .. n
    BY <1>0
  <2> DEFINE src == Chunk(n)
  <2>2. src \in Seq(Cells) /\ Len(src) = n /\ Stream!write(src)
    BY Zenon, <1>1, <1>2
  <2> HIDE DEF src
  <2>3. /\ posRead' = posRead /\ posWrite' = posWrite + n /\ buffer' \in Seq(Cells)
        /\ ~overrun' => /\ posWrite' <= Len(buffer')
                        /\ posWrite <= Len(buffer) =>
                             \A i \in 1 .. posWrite : buffer'[i] = buffer[i]
                        /\ \A i \in posWrite + 1 .. posWrite + n : buffer'[i] = src[i - posWrite]
    BY Zenon, <1>0, <2>2, WriteFacts
  <2> QED
    BY Zenon, <1>2, <2>1, <2>3 DEF src
<1>4. Positions'
  <2>1. posRead' \in Nat /\ posWrite' \in Nat /\ posRead' <= posWrite'
    BY <1>0, <1>3
  <2> QED
    BY Zenon, <1>3, <1>10, <2>1 DEF Positions
<1> QED
  <2> DEFINE h == Len(handed)
  <2>0. Held /\ h \in Nat /\ h <= Len(sent)
    BY Zenon, <1>a, <1>0
  <2>1. /\ sizeOf[h] \in Nat /\ arrived = sizeOf[h] + (posWrite - posRead)
        /\ posWrite <= Len(buffer)
        /\ \A i \in 1 .. posWrite - posRead : buffer[posRead + i] = wire(sizeOf[h] + i)
    BY <1>0, <1>a, <2>0, SizeOfFacts DEF Held, Sums
  <2>2. arrived + n = sizeOf[h] + (posWrite' - posRead')
    BY <1>0, <1>3, <2>1
  <2>3. ASSUME NEW i \in 1 .. posWrite' - posRead'
        PROVE  buffer'[posRead' + i] = wire(sizeOf[h] + i)
    <3>0. i \in 1 .. (posWrite + n) - posRead
      BY Zenon, <1>3
    <3>1. CASE i <= posWrite - posRead
      <4>1. i \in 1 .. posWrite - posRead /\ posRead + i \in 1 .. posWrite
        BY <1>0, <3>0, <3>1
      <4> QED
        BY Zenon, <1>3, <2>1, <4>1
    <3>2. CASE ~ (i <= posWrite - posRead)
      <4>a. posRead + i \in posWrite + 1 .. posWrite + n /\ i \in Nat
        BY <1>0, <3>0, <3>2
      <4>b. \A x \in Nat : (x + (posWrite - posRead)) + ((posRead + i) - posWrite) = x + i
        BY <1>0, <4>a
      <4>1. /\ posRead + i \in posWrite + 1 .. posWrite + n
            /\ (sizeOf[h] + (posWrite - posRead)) + ((posRead + i) - posWrite) = sizeOf[h] + i
        BY Zenon, <2>1, <4>a, <4>b
      <4>2. buffer'[posRead + i] = wire(arrived + ((posRead + i) - posWrite))
        BY Zenon, <1>3, <4>1
      <4> QED
        BY Zenon, <1>3, <2>1, <4>1, <4>2
    <3> QED
      BY <3>1, <3>2
  <2> QED
    BY Zenon, <1>0, <1>1, <1>3, <1>4, <1>10, <2>2, <2>3 DEF Held

\* No read breaks it.
LEMMA ReadKeeps ==
  ASSUME StreamInv, ~overrun, NEW n \in Nat, handleRead(n)
  PROVE  StreamInv'
<1>1. /\ sent' = sent /\ sessionType' = sessionType /\ handed' = handed /\ arrived' = arrived + n
  BY DEF handleRead, peer
<1>2. \A k : Framed(k)' = Framed(k) /\ Outcome(k)' = Outcome(k)
  BY <1>1 DEF Framed, Outcome
<1>3. Placed' => Held'
  BY Zenon, <1>1, <1>2, PlacedRead DEF Placed
<1>4. arrived' \in Nat
  BY <1>1 DEF StreamInv
<1>5. Packets' = Packets
  BY DEF Packets, Kinds
<1> QED
  BY Zenon, <1>1, <1>2, <1>3, <1>4, <1>5 DEF StreamInv

-----------------------------------------------------------------------------
\* StreamInv depends on these variables only.
LEMMA StreamInvSame ==
  ASSUME StreamInv, UNCHANGED <<peer, arrived, handed, recv>>
  PROVE  StreamInv'
<1>1. /\ sent' = sent /\ sessionType' = sessionType /\ arrived' = arrived /\ handed' = handed
      /\ buffer' = buffer /\ posRead' = posRead /\ posWrite' = posWrite /\ overrun' = overrun
  BY DEF peer, recv
<1>2. /\ UNCHANGED <<sizeOf, Cells, Packets>>
      /\ \A j : wire(j)' = wire(j) /\ Outcome(j)' = Outcome(j) /\ Framed(j)' = Framed(j)
  BY <1>1 DEF sizeOf, length, Cells, Packets, wire, Outcome, Framed, packetBytes
<1>3. Positions' = Positions
  BY Zenon, <1>1, <1>2 DEF Positions
<1>4. Held' = Held /\ Placed' = Placed
  BY Zenon, <1>1, <1>2, <1>3 DEF Held, Placed
<1> QED
  BY Zenon, <1>1, <1>2, <1>3, <1>4 DEF StreamInv

\* No step of a read, a dispatch or the parser breaks it.
LEMMA NextStream ==
  ASSUME StreamInv, phase = "parse" => sessionType = "TCP", [Next]_vars
  PROVE  StreamInv'
<1>1. CASE Open \/ onCloseReserveTime
  BY Zenon, <1>1, StreamInvSame DEF Open, onCloseReserveTime
<1>2. ASSUME ~overrun, NEW n \in 1 .. (RecvBufferSize + UshrtMax + 1), handleRead(n)
      PROVE  StreamInv'
  <2>1. n \in Nat
    BY SizeAssumption
  <2> QED
    BY Zenon, <1>2, <2>1, ReadKeeps
<1>3. CASE dispatchDropped
  BY Zenon, <1>3, StreamInvSame DEF dispatchDropped
<1>4. CASE dispatch
  BY Zenon, <1>4, StreamInvSame DEF dispatch
<1>5. CASE dispatchWebsocket
  <2>1. sessionType # "TCP" /\ UNCHANGED <<peer, arrived>>
    BY <1>5 DEF dispatchWebsocket
  <2>2. sent' = sent /\ sessionType' = sessionType /\ arrived' = arrived
    BY <2>1 DEF peer
  <2>3. (\E T : handed \in Seq(T))'
    <3>1. PICK S, e : handed \in Seq(S) /\ handed' = Append(handed, e)
      BY Zenon, <1>5 DEF StreamInv, dispatchWebsocket, Hand
    <3>2. handed \in Seq(S \union {e}) /\ e \in S \union {e}
      BY <3>1
    <3>3. handed' \in Seq(S \union {e})
      BY <3>1, <3>2
    <3> QED
      BY Zenon, <3>3
  <2>4. Packets' = Packets
    BY DEF Packets, Kinds
  <2> QED
    BY Zenon, <2>1, <2>2, <2>3, <2>4 DEF StreamInv, Placed
<1>6. CASE parseEnds
  BY Zenon, <1>6, StreamInvSame DEF parseEnds
<1>7. CASE UNCHANGED vars
  BY Zenon, <1>7, StreamInvSame DEF vars
<1>8. ASSUME ~overrun, NEW h \in headers, parsePacket(h) \/ parseNoHandler(h)
      PROVE  StreamInv'
  <2>1. phase = "parse" /\ Take(h) /\ UNCHANGED <<peer, arrived>>
    BY Zenon, <1>8 DEF parsePacket, parseNoHandler, Take
  <2>2. handed' = Append(handed, [bytes |-> packet(h),
                                  ok |-> h.kind = "json" /\ h.size >= HeaderSize])
    <3>1. CASE parsePacket(h)
      BY Zenon, <3>1 DEF parsePacket, Hand
    <3>2. CASE parseNoHandler(h)
      <4>1. (h.kind = "json" /\ h.size >= HeaderSize) = FALSE
        BY <3>2 DEF parseNoHandler
      <4> QED
        BY Zenon, <3>2, <4>1 DEF parseNoHandler, Hand
    <3> QED
      BY Zenon, <1>8, <3>1, <3>2
  <2> QED
    BY Zenon, <1>8, <2>1, <2>2, TakeFacts
<1> QED
  BY Zenon, <1>1, <1>2, <1>3, <1>4, <1>5, <1>6, <1>7, <1>8 DEF Next, Parse

\* What parse leaves in the stream when it stops is less than a packet, or a
\* packet that it rejects.
LEMMA EndFacts ==
  ASSUME StreamInv, Placed, Len(handed) < Len(sent),
         Stream!CanRead(HeaderSize) => \E h \in headers : Incomplete(h)
  PROVE  \/ arrived < sizeOf[Len(handed) + 1]
         \/ sent[Len(handed) + 1].size \notin 0 .. UshrtMax
<1> DEFINE n == Len(handed)
<1>a. Held /\ sent \in Seq(Packets)
  BY Zenon DEF StreamInv
<1>0. /\ Len(sent) \in Nat /\ n \in Nat
      /\ posRead \in Nat /\ posWrite \in Nat /\ posRead <= posWrite
      /\ HeaderSize \in Nat /\ UshrtMax \in Nat
  <2>1. PICK S : handed \in Seq(S)
    BY Zenon DEF StreamInv
  <2> QED
    BY <1>a, <2>1, SentFacts, SizeAssumption DEF Held, Positions
<1>1. n + 1 \in 1 .. Len(sent) /\ (n + 1) - 1 = n /\ n \in 0 .. Len(sent)
  BY <1>0
<1>2. sizeOf[n] \in Nat /\ sizeOf[n + 1] = sizeOf[n] + length(n + 1)
  BY <1>a, <1>1, SizeOfFacts DEF Sums
<1>3. arrived = sizeOf[n] + (posWrite - posRead)
  BY Zenon, <1>a DEF Held
<1>4. /\ sent[n + 1].size \in Int /\ length(n + 1) \in Nat
      /\ length(n + 1) >= HeaderSize /\ sent[n + 1].size <= length(n + 1)
  BY Zenon, <1>a, <1>1, SentFacts
<1>5. CASE HeaderSize <= posWrite - posRead
  <2>1. headers = {sent[n + 1]}
    BY Zenon, <1>5, HeaderFacts
  <2>2. Incomplete(sent[n + 1])
    BY Zenon, <1>5, <2>1 DEF Stream!CanRead, Stream!size
  <2>3. \/ sent[n + 1].size < 0 \/ sent[n + 1].size > UshrtMax
        \/ sent[n + 1].size > posWrite - posRead
    BY Zenon, <2>2 DEF Incomplete, Stream!size
  <2> HIDE DEF n
  <2> QED
    BY <1>0, <1>2, <1>3, <1>4, <2>3 DEF n
<1>6. CASE ~ (HeaderSize <= posWrite - posRead)
  <2> HIDE DEF n
  <2> QED
    BY <1>0, <1>2, <1>3, <1>4, <1>6 DEF n
<1> QED
  BY <1>5, <1>6

-----------------------------------------------------------------------------
\* The loop of parse is run for TCP sessions only.
RecvInv ==
  /\ StreamInv
  /\ phase = "parse" => sessionType = "TCP"
  /\ NothingHeldBack

\* A dispatch that ran to its end leaves no complete packet.
LEMMA NextRecv == RecvInv /\ [Next]_vars => RecvInv'
<1> SUFFICES ASSUME RecvInv, [Next]_vars PROVE RecvInv'
  OBVIOUS
<1>1. StreamInv'
  BY Zenon, NextStream DEF RecvInv
<1>2. sent' = sent /\ sessionType' = sessionType
  BY Zenon DEF Next, vars, peer, Open, onCloseReserveTime, handleRead, dispatchDropped, dispatch,
         dispatchWebsocket, Parse, parseEnds, parsePacket, parseNoHandler
<1>3. (phase = "parse" => sessionType = "TCP")'
  BY DEF RecvInv, Next, vars, peer, Open, onCloseReserveTime, handleRead, dispatchDropped,
         dispatch, dispatchWebsocket, Parse, parseEnds, parsePacket, parseNoHandler, Take
<1>4. sizeOf' = sizeOf /\ \A k : Framed(k)' = Framed(k)
  BY <1>2 DEF sizeOf, length, Framed
<1>5. ASSUME parseEnds PROVE NothingHeldBack'
  <2>1. UNCHANGED <<handed, arrived, overrun>>
    BY <1>5 DEF parseEnds, recv
  <2>2. ASSUME Tcp', Len(handed') < Len(sent'), Framed(Len(handed))'
        PROVE  \/ arrived < sizeOf[Len(handed) + 1]
               \/ sent[Len(handed) + 1].size \notin 0 .. UshrtMax
    <3>1. StreamInv /\ Placed /\ Len(handed) < Len(sent)
      BY Zenon, <1>2, <1>4, <2>1, <2>2 DEF RecvInv, Tcp, Placed
    <3>2. Stream!CanRead(HeaderSize) => \E h \in headers : Incomplete(h)
      BY Zenon, <1>5 DEF parseEnds
    <3> QED
      BY Zenon, <3>1, <3>2, EndFacts
  <2> QED
    BY Zenon, <1>2, <1>4, <2>1, <2>2 DEF NothingHeldBack
<1>6. ASSUME Open \/ onCloseReserveTime \/ UNCHANGED vars PROVE NothingHeldBack'
  <2>1. UNCHANGED <<phase, skipped, arrived, handed, overrun>>
    BY Zenon, <1>6 DEF Open, onCloseReserveTime, vars, recv
  <2> QED
    BY <1>2, <1>4, <2>1 DEF RecvInv, NothingHeldBack, Tcp
<1>7. ASSUME Next, ~Open, ~onCloseReserveTime, ~parseEnds PROVE NothingHeldBack'
  <2> SUFFICES ~ (Tcp' /\ phase' = "read" /\ ~skipped')
    BY Zenon DEF NothingHeldBack
  <2>1. CASE \E n \in 1 .. (RecvBufferSize + UshrtMax + 1) : handleRead(n)
    BY <2>1 DEF handleRead
  <2>2. CASE dispatchDropped \/ dispatch
    BY <2>2 DEF dispatchDropped, dispatch
  <2>3. CASE dispatchWebsocket
    BY <1>2, <2>3 DEF dispatchWebsocket, Tcp
  <2>4. ASSUME NEW h \in headers, parsePacket(h) \/ parseNoHandler(h)
        PROVE  ~ (Tcp' /\ phase' = "read" /\ ~skipped')
    BY <2>4 DEF parsePacket, parseNoHandler
  <2> QED
    BY Zenon, <1>7, <2>1, <2>2, <2>3, <2>4 DEF Next, Parse
<1>8. NothingHeldBack'
  BY Zenon, <1>5, <1>6, <1>7
<1> QED
  BY Zenon, <1>1, <1>3, <1>8 DEF RecvInv

\* The invariant holds however the bytes are cut.
LEMMA RecvInvariant == Spec => []RecvInv
<1>1. Init => RecvInv
  BY InitRecv DEF RecvInv, Init
<1> QED
  BY <1>1, NextRecv, PTL DEF Spec

\* However the bytes of a TCP session are cut into reads, the packets are taken up
\* whole, once each and in the order sent, and exactly the malformed and unknown ones
\* are refused (PacketJsonParser::parse and readJsonPacket), up to the first whose size is
\* below the header's.
THEOREM InOrderHolds == Spec => []InOrder
<1>1. RecvInv => InOrder
  <2> SUFFICES ASSUME RecvInv PROVE InOrder
    OBVIOUS
  <2>1. PICK S : handed \in Seq(S)
    BY Zenon DEF RecvInv, StreamInv
  <2>2. DOMAIN handed = 1 .. Len(handed)
    BY <2>1
  <2> QED
    BY Zenon, <2>2 DEF RecvInv, StreamInv, InOrder
<1> QED
  BY <1>1, RecvInvariant, PTL

\* When a dispatch has gone through the loop of parse to its end, the stream holds no
\* complete packet, unless its size is one that parse rejects.
THEOREM NothingHeldBackHolds == Spec => []NothingHeldBack
<1>1. RecvInv => NothingHeldBack
  BY DEF RecvInv
<1> QED
  BY <1>1, RecvInvariant, PTL
=============================================================================
