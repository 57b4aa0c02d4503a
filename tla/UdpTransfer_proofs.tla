------------------------- MODULE UdpTransfer_proofs -------------------------
(* A transfer puts every byte in its place and survives two losses, for    *)
(* files of any size below 2^32 and any number of faults of the network.   *)
EXTENDS UdpTransfer, SequenceTheorems, TLAPS

-----------------------------------------------------------------------------
(* What handing a datagram to the network does to those in flight.         *)

LEMMA ConcatFacts ==
    ASSUME NEW a \in Seq(Datagram), NEW c \in Seq(Datagram)
    PROVE  /\ a \o c \in Seq(Datagram) /\ Len(a \o c) = Len(a) + Len(c)
           /\ \A k \in 1 .. Len(a) : (a \o c)[k] = a[k]
           /\ \A k \in 1 .. Len(c) : (a \o c)[Len(a) + k] = c[k]
OBVIOUS

LEMMA InsertedFacts ==
    ASSUME net \in Seq(Datagram), NEW m \in Datagram, NEW k \in 0 .. Len(net)
    PROVE  /\ Inserted(k, m) \in Seq(Datagram)
           /\ Len(Inserted(k, m)) = Len(net) + 1
           /\ Inserted(k, m)[k + 1] = m
           /\ \A j \in 1 .. k : Inserted(k, m)[j] = net[j]
           /\ \A j \in k + 1 .. Len(net) : Inserted(k, m)[j + 1] = net[j]
<1> DEFINE a == SubSeq(net, 1, k)
           c == SubSeq(net, k + 1, Len(net))
<1>1. a \in Seq(Datagram) /\ c \in Seq(Datagram) /\ <<m>> \in Seq(Datagram)
      /\ Len(a) = k /\ Len(c) = Len(net) - k /\ Len(<<m>>) = 1 /\ <<m>>[1] = m
  OBVIOUS
<1>2. /\ \A j \in 1 .. k : a[j] = net[j]
      /\ \A j \in 1 .. Len(net) - k : c[j] = net[k + j]
  OBVIOUS
<1>3. Inserted(k, m) = (a \o <<m>>) \o c
  BY DEF Inserted
<1> HIDE DEF a, c
<1>4. a \o <<m>> \in Seq(Datagram) /\ Len(a \o <<m>>) = k + 1
      /\ (a \o <<m>>)[k + 1] = m /\ \A j \in 1 .. k : (a \o <<m>>)[j] = a[j]
  BY <1>1
<1> DEFINE d == a \o <<m>>
<1> HIDE DEF d
<1>5. d \in Seq(Datagram) /\ Len(d) = k + 1 /\ Inserted(k, m) = d \o c
      /\ d[k + 1] = m /\ \A j \in 1 .. k : d[j] = a[j]
  BY <1>3, <1>4 DEF d
<1>6. /\ d \o c \in Seq(Datagram) /\ Len(d \o c) = Len(net) + 1
      /\ \A j \in 1 .. k + 1 : (d \o c)[j] = d[j]
      /\ \A j \in k + 1 .. Len(net) : (d \o c)[j + 1] = c[j - k]
  BY <1>1, <1>5
<1>7. QED
  BY <1>2, <1>5, <1>6

\* Nothing in flight disappears, and the datagram sent arrives or is lost.
LEMMA SendFacts ==
    ASSUME TypeOK, NEW m \in Datagram, SendTo(m)
    PROVE  /\ net' \in Seq(Datagram)
           /\ \A j \in 1 .. Len(net) : \E k \in 1 .. Len(net') : net'[k] = net[j]
           /\ \A k \in 1 .. Len(net') :
                  net'[k] = m \/ \E j \in 1 .. Len(net) : net'[k] = net[j]
           /\ \/ /\ \E k \in 1 .. Len(net') : net'[k] = m
                 /\ UNCHANGED <<lost, lostCopies>>
              \/ /\ lost' = lost + 1
                 /\ lostCopies' = [b \in Byte |-> IF Carries(m, b)
                                       THEN lostCopies[b] + 1 ELSE lostCopies[b]]
           /\ overtaken' = 0 =>
                  /\ overtaken = 0 /\ Len(net') >= Len(net)
                  /\ \A k \in 1 .. Len(net) : net'[k] = net[k]
                  /\ \A k \in Len(net) + 1 .. Len(net') : net'[k] = m
           /\ lost' \in 0 .. MaxLost /\ duplicated' \in 0 .. MaxDuplicated
           /\ overtaken' \in 0 .. MaxOvertaken /\ lostCopies' \in [Byte -> Nat]
<1>0. net \in Seq(Datagram) /\ Len(net) \in Nat
      /\ lost \in 0 .. MaxLost /\ duplicated \in 0 .. MaxDuplicated
      /\ overtaken \in 0 .. MaxOvertaken /\ lostCopies \in [Byte -> Nat]
      /\ MaxLost \in Nat /\ MaxDuplicated \in Nat /\ MaxOvertaken \in Nat
  BY TransferAssumption DEF TypeOK
<1> USE <1>0
<1>1. CASE net' = Append(net, m) /\ UNCHANGED <<lost, duplicated, overtaken, lostCopies>>
  <2>1. /\ net' \in Seq(Datagram) /\ Len(net') = Len(net) + 1
        /\ net'[Len(net) + 1] = m /\ \A k \in 1 .. Len(net) : net'[k] = net[k]
    BY <1>1
  <2>2. QED
    BY <1>1, <2>1
<1>2. CASE /\ lost < MaxLost /\ lost' = lost + 1
           /\ lostCopies' = [b \in Byte |-> IF Carries(m, b) THEN lostCopies[b] + 1
                                                             ELSE lostCopies[b]]
           /\ UNCHANGED <<net, duplicated, overtaken>>
  <2>1. lostCopies' \in [Byte -> Nat] /\ lost' \in 0 .. MaxLost
    BY <1>2
  <2>2. /\ net' = net
        /\ \A k \in Len(net) + 1 .. Len(net) : FALSE
    BY <1>2
  <2>3. QED
    BY <1>2, <2>1, <2>2
<1>3. CASE /\ duplicated < MaxDuplicated /\ duplicated' = duplicated + 1
           /\ net' = net \o <<m, m>>
           /\ UNCHANGED <<lost, overtaken, lostCopies>>
  <2>1. /\ <<m, m>> \in Seq(Datagram) /\ Len(<<m, m>>) = 2
        /\ <<m, m>>[1] = m /\ <<m, m>>[2] = m
    OBVIOUS
  <2> DEFINE mm == <<m, m>>
  <2> HIDE DEF mm
  <2>2. /\ net' \in Seq(Datagram) /\ Len(net') = Len(net) + 2
        /\ net'[Len(net) + 1] = mm[1] /\ net'[Len(net) + 2] = mm[2]
        /\ \A k \in 1 .. Len(net) : net'[k] = net[k]
    <3>1. mm \in Seq(Datagram) /\ Len(mm) = 2 /\ net' = net \o mm
      BY <1>3, <2>1 DEF mm
    <3>2. 1 \in 1 .. Len(mm) /\ 2 \in 1 .. Len(mm)
      BY <3>1
    <3>3. QED
      BY <3>1, <3>2, ConcatFacts
  <2>3. mm[1] = m /\ mm[2] = m
    BY <2>1 DEF mm
  <2>4. \A k \in 1 .. Len(net') :
            k \in 1 .. Len(net) \/ k = Len(net) + 1 \/ k = Len(net) + 2
    BY <2>2
  <2>5. \A k \in Len(net) + 1 .. Len(net') : net'[k] = m
    BY <2>2, <2>3, <2>4
  <2>6. \A k \in 1 .. Len(net') :
            net'[k] = m \/ \E j \in 1 .. Len(net) : net'[k] = net[j]
    BY <2>2, <2>3, <2>4
  <2>7. /\ \A j \in 1 .. Len(net) : \E k \in 1 .. Len(net') : net'[k] = net[j]
        /\ \E k \in 1 .. Len(net') : net'[k] = m
    <3>1. /\ Len(net) + 1 \in 1 .. Len(net')
          /\ \A j \in 1 .. Len(net) : j \in 1 .. Len(net')
      BY <2>2
    <3>2. QED
      BY <2>2, <2>3, <3>1
  <2>8. /\ UNCHANGED <<lost, lostCopies>> /\ overtaken' = overtaken
        /\ lost' \in 0 .. MaxLost /\ duplicated' \in 0 .. MaxDuplicated
        /\ overtaken' \in 0 .. MaxOvertaken /\ lostCopies' \in [Byte -> Nat]
    BY <1>3
  <2>9. Len(net') >= Len(net)
    BY <2>2
  <2>10. QED
    BY <2>2, <2>5, <2>6, <2>7, <2>8, <2>9
<1>4. CASE /\ overtaken < MaxOvertaken /\ overtaken' = overtaken + 1
           /\ \E k \in 0 .. Len(net) - 1 : net' = Inserted(k, m)
           /\ UNCHANGED <<lost, duplicated, lostCopies>>
  <2>1. PICK k \in 0 .. Len(net) - 1 : net' = Inserted(k, m)
    BY <1>4
  <2>2. /\ net' \in Seq(Datagram) /\ Len(net') = Len(net) + 1 /\ net'[k + 1] = m
        /\ \A j \in 1 .. k : net'[j] = net[j]
        /\ \A j \in k + 1 .. Len(net) : net'[j + 1] = net[j]
    <3>1. k \in 0 .. Len(net)
      OBVIOUS
    <3>2. QED
      BY <2>1, <3>1, InsertedFacts
  <2>3. \A j \in 1 .. Len(net) : \E i \in 1 .. Len(net') : net'[i] = net[j]
    <3> SUFFICES ASSUME NEW j \in 1 .. Len(net)
                 PROVE  \E i \in 1 .. Len(net') : net'[i] = net[j]
      OBVIOUS
    <3>1. CASE j <= k
      BY <2>2, <3>1
    <3>2. CASE j > k
      <4>1. j + 1 \in 1 .. Len(net') /\ net'[j + 1] = net[j]
        BY <2>2, <3>2
      <4>2. QED
        BY <4>1
    <3>3. QED
      BY <3>1, <3>2
  <2>4. \A i \in 1 .. Len(net') :
            net'[i] = m \/ \E j \in 1 .. Len(net) : net'[i] = net[j]
    <3> SUFFICES ASSUME NEW i \in 1 .. Len(net')
                 PROVE  net'[i] = m \/ \E j \in 1 .. Len(net) : net'[i] = net[j]
      OBVIOUS
    <3>1. CASE i <= k
      BY <2>2, <3>1
    <3>2. CASE i > k + 1
      <4>1. i - 1 \in k + 1 .. Len(net) /\ net'[(i - 1) + 1] = net[i - 1]
            /\ (i - 1) + 1 = i
        BY <2>2, <3>2
      <4>2. QED
        BY <4>1
    <3>3. QED
      BY <2>2, <3>1, <3>2
  <2>5. ~ (overtaken' = 0)
    BY <1>4
  <2>6. k + 1 \in 1 .. Len(net')
    BY <2>2
  <2>7. /\ UNCHANGED <<lost, lostCopies>>
        /\ lost' \in 0 .. MaxLost /\ duplicated' \in 0 .. MaxDuplicated
        /\ overtaken' \in 0 .. MaxOvertaken /\ lostCopies' \in [Byte -> Nat]
    BY <1>4
  <2>8. QED
    BY <2>2, <2>3, <2>4, <2>5, <2>6, <2>7
<1>5. QED
  BY <1>1, <1>2, <1>3, <1>4 DEF SendTo

\* Taking the first datagram.
LEMMA TailFacts ==
    ASSUME net \in Seq(Datagram), net # <<>>, net' = Tail(net)
    PROVE  /\ Head(net) \in Datagram /\ Head(net) = net[1] /\ Len(net) >= 1
           /\ net' \in Seq(Datagram) /\ Len(net') = Len(net) - 1
           /\ \A k \in 1 .. Len(net') : net'[k] = net[k + 1]
OBVIOUS
-----------------------------------------------------------------------------
LEMMA TransferInit == Init => TransferInv
<1> SUFFICES ASSUME Init PROVE TransferInv
  OBVIOUS
<1>1. net = <<>> /\ net \in Seq(Datagram) /\ Len(net) = 0
  BY DEF Init
<1>2. /\ received \in [Byte -> Byte \cup {Hole}] /\ lostCopies \in [Byte -> Nat]
      /\ \A b \in Byte : received[b] = Hole /\ lostCopies[b] = 0
  BY DEF Init
<1>3. TypeOK
  <2>1. pass \in 0 .. 4 /\ rpos \in Nat /\ fpos \in Nat /\ pos \in Nat
    <3>1. pass = 0 /\ rpos = 0 /\ fpos = 0 /\ pos = 0
      BY DEF Init
    <3>2. QED
      BY <3>1
  <2>2. /\ lost \in 0 .. MaxLost /\ duplicated \in 0 .. MaxDuplicated
        /\ overtaken \in 0 .. MaxOvertaken
    BY TransferAssumption DEF Init
  <2>3. done \in BOOLEAN
    BY Zenon DEF Init
  <2>4. QED
    BY <1>1, <1>2, <2>1, <2>2, <2>3 DEF TypeOK
<1>4. PacketsHonest /\ EofLast
  BY <1>1 DEF Init, PacketsHonest, EofLast
<1>5. CopiesAccounted
  BY <1>2 DEF Init, CopiesAccounted, SentCopies, Passes, Byte
<1>6. QED
  BY <1>2, <1>3, <1>4, <1>5, TransferAssumption DEF Init, TransferInv, BytesInPlace

\* What send_file reads: a whole chunk, or the rest of the file at its end.
LEMMA ChunkFacts ==
    ASSUME rpos \in Nat, rpos <= Size
    PROVE  /\ Chunk \in Nat /\ rpos + Chunk <= Size
           /\ Chunk < ChunkSize => rpos + Chunk = Size
BY TransferAssumption DEF Chunk

\* A data packet sent tells the receiver the truth.
LEMMA DataFacts ==
    ASSUME Size < OffsetRange, rpos \in Nat, rpos <= Size
    PROVE  LET m == Data(rpos, Chunk)
           IN  /\ m \in Datagram /\ ~ m.eof
               /\ m.offset = m.from /\ m.from + m.len <= Size
               /\ \A b \in Byte : Carries(m, b) <=> rpos <= b /\ b < rpos + Chunk
<1>1. rpos % OffsetRange = rpos
  BY TransferAssumption
<1>2. QED
  BY <1>1, ChunkFacts DEF Data, Datagram, Carries

LEMMA SendDataStep ==
    ASSUME Size < OffsetRange, TransferInv, SendData
    PROVE  TransferInv'
<1> DEFINE m == Data(rpos, Chunk)
<1>1. /\ TypeOK /\ BytesInPlace /\ rpos \in Nat /\ rpos <= Size /\ fpos = pos
      /\ PacketsHonest /\ CopiesAccounted /\ EofLast
      /\ pass \in 0 .. 2 /\ net \in Seq(Datagram)
  BY DEF TransferInv, TypeOK, SendData, MorePasses, Passes
<1>2. /\ m \in Datagram /\ ~ m.eof
      /\ m.offset = m.from /\ m.from + m.len <= Size
      /\ \A b \in Byte : Carries(m, b) <=> rpos <= b /\ b < rpos + Chunk
  BY <1>1, DataFacts
<1>3. SendTo(m)
  BY DEF SendData
<1> HIDE DEF m
<1>4. /\ net' \in Seq(Datagram)
      /\ \A j \in 1 .. Len(net) : \E k \in 1 .. Len(net') : net'[k] = net[j]
      /\ \A k \in 1 .. Len(net') :
             net'[k] = m \/ \E j \in 1 .. Len(net) : net'[k] = net[j]
      /\ \/ (\E k \in 1 .. Len(net') : net'[k] = m) /\ UNCHANGED <<lost, lostCopies>>
         \/ /\ lost' = lost + 1
            /\ lostCopies' = [b \in Byte |-> IF Carries(m, b)
                                  THEN lostCopies[b] + 1 ELSE lostCopies[b]]
      /\ overtaken' = 0 =>
             /\ overtaken = 0 /\ Len(net') >= Len(net)
             /\ \A k \in 1 .. Len(net) : net'[k] = net[k]
             /\ \A k \in Len(net) + 1 .. Len(net') : net'[k] = m
      /\ lost' \in 0 .. MaxLost /\ duplicated' \in 0 .. MaxDuplicated
      /\ overtaken' \in 0 .. MaxOvertaken /\ lostCopies' \in [Byte -> Nat]
  BY <1>1, <1>2, <1>3, SendFacts
<1>5. /\ Chunk \in Nat /\ rpos + Chunk <= Size
      /\ \/ pass' = pass + 1 /\ rpos' = 0 /\ rpos + Chunk = Size
         \/ pass' = pass /\ rpos' = rpos + Chunk
      /\ UNCHANGED <<received, fpos, pos, done>>
  BY <1>1, ChunkFacts DEF SendData
<1>6. TypeOK'
  <2>1. pass' \in 0 .. 4 /\ rpos' \in Nat
    BY <1>1, <1>5
  <2>2. /\ received' \in [Byte -> Byte \cup {Hole}]
        /\ fpos' \in Nat /\ pos' \in Nat /\ done' \in BOOLEAN
    BY <1>1, <1>5 DEF TypeOK
  <2>3. QED
    BY <1>4, <2>1, <2>2 DEF TypeOK
<1>7. BytesInPlace' /\ rpos' <= Size /\ fpos' = pos'
  BY <1>1, <1>5, TransferAssumption DEF BytesInPlace
<1>8. PacketsHonest'
  BY <1>1, <1>2, <1>4 DEF PacketsHonest
<1>9. \A b \in Byte : SentCopies(b)' = IF Carries(m, b) THEN SentCopies(b) + 1
                                                       ELSE SentCopies(b)
  BY <1>1, <1>2, <1>5 DEF SentCopies, Passes, Byte
<1>10. CopiesAccounted'
  <2> SUFFICES ASSUME NEW b \in Byte
               PROVE  /\ lostCopies'[b] <= lost'
                      /\ \/ received'[b] = b \/ InFlight(b)'
                         \/ lostCopies'[b] = SentCopies(b)'
    BY DEF CopiesAccounted
  <2>1. /\ lostCopies[b] <= lost /\ lostCopies[b] \in Nat /\ lost \in Nat
        /\ received[b] = b \/ InFlight(b) \/ lostCopies[b] = SentCopies(b)
    BY <1>1 DEF CopiesAccounted, TypeOK
  <2>2. lostCopies'[b] <= lost'
    <3>1. CASE UNCHANGED <<lost, lostCopies>>
      BY <2>1, <3>1
    <3>2. CASE /\ lost' = lost + 1
               /\ lostCopies' = [c \in Byte |-> IF Carries(m, c)
                                     THEN lostCopies[c] + 1 ELSE lostCopies[c]]
      <4>1. lostCopies'[b] = lostCopies[b] \/ lostCopies'[b] = lostCopies[b] + 1
        BY <3>2
      <4>2. QED
        BY <2>1, <3>2, <4>1
    <3>3. QED
      BY <1>4, <3>1, <3>2
  <2>3. CASE received[b] = b
    BY <1>5, <2>2, <2>3
  <2>4. CASE InFlight(b)
    BY <1>4, <2>2, <2>4 DEF InFlight
  <2>5. CASE lostCopies[b] = SentCopies(b)
    <3>1. CASE Carries(m, b)
      <4>1. InFlight(b)' \/ lostCopies'[b] = lostCopies[b] + 1
        BY <1>4, <3>1 DEF InFlight
      <4>2. QED
        BY <1>9, <2>2, <2>5, <3>1, <4>1
    <3>2. CASE ~ Carries(m, b)
      <4>1. lostCopies'[b] = lostCopies[b]
        BY <1>4, <3>2
      <4>2. QED
        BY <1>9, <2>2, <2>5, <3>2, <4>1
    <3>3. QED
      BY <3>1, <3>2
  <2>6. QED
    BY <2>1, <2>3, <2>4, <2>5
<1>11. EofLast'
  <2> SUFFICES ASSUME overtaken' = 0
               PROVE  (\A k \in 1 .. Len(net') : ~ net'[k].eof) /\ ~ done'
    BY DEF EofLast
  <2>1. (\A k \in 1 .. Len(net) : ~ net[k].eof) /\ ~ done
    BY <1>1, <1>4 DEF EofLast
  <2>2. QED
    BY <1>2, <1>4, <1>5, <2>1
<1>12. QED
  BY <1>6, <1>7, <1>8, <1>10, <1>11 DEF TransferInv

LEMMA SendEofStep ==
    ASSUME TransferInv, SendEof
    PROVE  TransferInv'
<1>1. /\ TypeOK /\ BytesInPlace /\ rpos <= Size /\ fpos = pos
      /\ PacketsHonest /\ CopiesAccounted /\ EofLast
      /\ pass = 3 /\ pass' = 4 /\ UNCHANGED <<rpos, received, fpos, pos, done>>
      /\ net \in Seq(Datagram)
  BY DEF TransferInv, TypeOK, SendEof, PassesDone, Passes
<1>2. /\ Eof \in Datagram /\ Eof.eof /\ SendTo(Eof)
      /\ \A b \in Byte : ~ Carries(Eof, b)
  BY DEF Eof, Datagram, SendEof, Carries
<1>3. /\ net' \in Seq(Datagram)
      /\ \A j \in 1 .. Len(net) : \E k \in 1 .. Len(net') : net'[k] = net[j]
      /\ \A k \in 1 .. Len(net') :
             net'[k] = Eof \/ \E j \in 1 .. Len(net) : net'[k] = net[j]
      /\ \/ UNCHANGED <<lost, lostCopies>>
         \/ /\ lost' = lost + 1
            /\ lostCopies' = [b \in Byte |-> IF Carries(Eof, b)
                                  THEN lostCopies[b] + 1 ELSE lostCopies[b]]
      /\ overtaken' = 0 =>
             /\ overtaken = 0 /\ Len(net') >= Len(net)
             /\ \A k \in 1 .. Len(net) : net'[k] = net[k]
             /\ \A k \in Len(net) + 1 .. Len(net') : net'[k] = Eof
      /\ lost' \in 0 .. MaxLost /\ duplicated' \in 0 .. MaxDuplicated
      /\ overtaken' \in 0 .. MaxOvertaken /\ lostCopies' \in [Byte -> Nat]
  BY <1>1, <1>2, SendFacts
<1>4. TypeOK'
  BY <1>1, <1>3 DEF TypeOK
<1>5. BytesInPlace' /\ rpos' <= Size /\ fpos' = pos'
  BY <1>1 DEF BytesInPlace
<1>6. PacketsHonest'
  BY <1>1, <1>2, <1>3 DEF PacketsHonest
<1>7. CopiesAccounted'
  <2> SUFFICES ASSUME NEW b \in Byte
               PROVE  /\ lostCopies'[b] <= lost'
                      /\ \/ received'[b] = b \/ InFlight(b)'
                         \/ lostCopies'[b] = SentCopies(b)'
    BY DEF CopiesAccounted
  <2>1. /\ lostCopies[b] <= lost /\ lostCopies[b] \in Nat /\ lost \in Nat
        /\ received[b] = b \/ InFlight(b) \/ lostCopies[b] = SentCopies(b)
    BY <1>1 DEF CopiesAccounted, TypeOK
  <2>2. lostCopies'[b] = lostCopies[b] /\ lost' >= lost
    BY <1>2, <1>3, <2>1
  <2>3. SentCopies(b)' = SentCopies(b)
    BY <1>1 DEF SentCopies, Passes
  <2>4. InFlight(b) => InFlight(b)'
    BY <1>3 DEF InFlight
  <2>5. QED
    BY <1>1, <1>3, <2>1, <2>2, <2>3, <2>4 DEF TypeOK
<1>8. EofLast'
  <2> SUFFICES ASSUME overtaken' = 0
               PROVE  /\ \A k \in 1 .. Len(net') : net'[k].eof =>
                             \A j \in k .. Len(net') : net'[j].eof
                      /\ ~ done'
    BY <1>1 DEF EofLast
  <2>1. (\A k \in 1 .. Len(net) : ~ net[k].eof) /\ ~ done
    BY <1>1, <1>3 DEF EofLast
  <2>2. ASSUME NEW k \in 1 .. Len(net'), net'[k].eof, NEW j \in k .. Len(net')
        PROVE  net'[j].eof
    <3>1. ~ (k \in 1 .. Len(net))
      BY <1>3, <2>1, <2>2
    <3>2. j \in Len(net) + 1 .. Len(net')
      BY <1>1, <1>3, <3>1
    <3>3. QED
      BY <1>2, <1>3, <3>2
  <2>3. QED
    BY <1>1, <2>1, <2>2
<1>9. QED
  BY <1>4, <1>5, <1>6, <1>7, <1>8 DEF TransferInv

LEMMA ReceiveDataStep ==
    ASSUME TransferInv, ReceiveData
    PROVE  TransferInv'
<1> DEFINE m == Head(net)
<1>1. /\ TypeOK /\ BytesInPlace /\ rpos <= Size /\ fpos = pos
      /\ PacketsHonest /\ CopiesAccounted /\ EofLast
      /\ net \in Seq(Datagram) /\ fpos \in Nat
      /\ received \in [Byte -> Byte \cup {Hole}]
      /\ ~ done /\ net # <<>> /\ ~ m.eof /\ net' = Tail(net)
      /\ UNCHANGED <<pass, rpos, lost, duplicated, overtaken, lostCopies, done>>
  BY DEF TransferInv, TypeOK, ReceiveData
<1>2. /\ m \in Datagram /\ m = net[1] /\ Len(net) >= 1
      /\ net' \in Seq(Datagram) /\ Len(net') = Len(net) - 1
      /\ \A k \in 1 .. Len(net') : net'[k] = net[k + 1]
  BY <1>1, TailFacts
<1>3. m.offset = m.from /\ m.from + m.len <= Size /\ m.from \in Nat /\ m.len \in Nat
  BY <1>1, <1>2 DEF PacketsHonest, Datagram
<1>4. WriteAt(m) = m.from
  BY <1>1, <1>3 DEF WriteAt
<1>5. /\ received' = [b \in Byte |-> IF m.from <= b /\ b < m.from + m.len
                                       THEN m.from + (b - m.from) ELSE received[b]]
      /\ fpos' = m.from + m.len /\ pos' = m.from + m.len
  BY <1>3, <1>4 DEF ReceiveData
<1> HIDE DEF m
<1>6. \A b \in Byte : received'[b] = IF Carries(m, b) THEN b ELSE received[b]
  BY <1>1, <1>3, <1>5 DEF Carries, Byte
<1>7. received' \in [Byte -> Byte \cup {Hole}]
  BY <1>1, <1>5, <1>6
<1>8. TypeOK'
  BY <1>1, <1>2, <1>3, <1>5, <1>7 DEF TypeOK
<1>9. BytesInPlace'
  BY <1>1, <1>6 DEF BytesInPlace
<1>10. PacketsHonest'
  <2>1. \A k \in 1 .. Len(net') : k + 1 \in 1 .. Len(net)
    BY <1>2
  <2>2. QED
    BY <1>1, <1>2, <2>1 DEF PacketsHonest
<1>11. CopiesAccounted'
  <2> SUFFICES ASSUME NEW b \in Byte
               PROVE  \/ received'[b] = b \/ InFlight(b)'
                      \/ lostCopies[b] = SentCopies(b)
    BY <1>1 DEF CopiesAccounted, SentCopies
  <2>1. CASE received[b] = b
    BY <1>6, <2>1
  <2>2. CASE InFlight(b)
    <3>1. PICK k \in 1 .. Len(net) : Carries(net[k], b)
      BY <2>2 DEF InFlight
    <3>2. CASE k = 1
      BY <1>2, <1>6, <3>1, <3>2
    <3>3. CASE k # 1
      <4>1. k - 1 \in 1 .. Len(net') /\ (k - 1) + 1 = k
        BY <1>2, <3>3
      <4>2. net'[k - 1] = net[k]
        BY <1>2, <4>1
      <4>3. QED
        BY <3>1, <4>1, <4>2 DEF InFlight
    <3>4. QED
      BY <3>2, <3>3
  <2>3. QED
    BY <1>1, <2>1, <2>2 DEF CopiesAccounted
<1>12. EofLast'
  <2> SUFFICES ASSUME overtaken = 0
               PROVE  \A k \in 1 .. Len(net') : net'[k].eof =>
                          pass = 4 /\ \A j \in k .. Len(net') : net'[j].eof
    BY <1>1 DEF EofLast
  <2>1. \A k \in 1 .. Len(net') :
            k + 1 \in 1 .. Len(net) /\ \A j \in k .. Len(net') :
                j \in 1 .. Len(net') /\ j + 1 \in k + 1 .. Len(net)
    BY <1>2
  <2>2. QED
    BY <1>1, <1>2, <2>1 DEF EofLast
<1>13. QED
  BY <1>1, <1>5, <1>8, <1>9, <1>10, <1>11, <1>12 DEF TransferInv

LEMMA ReceiveEofStep ==
    ASSUME TransferInv, ReceiveEof
    PROVE  TransferInv'
<1> DEFINE m == Head(net)
<1>1. /\ TypeOK /\ BytesInPlace /\ rpos <= Size /\ fpos = pos
      /\ PacketsHonest /\ CopiesAccounted /\ EofLast
      /\ net \in Seq(Datagram)
      /\ net # <<>> /\ m.eof /\ net' = Tail(net) /\ done' = TRUE
      /\ UNCHANGED <<pass, rpos, lost, duplicated, overtaken, lostCopies,
                     received, fpos, pos>>
  BY DEF TransferInv, TypeOK, ReceiveEof
<1>2. /\ m \in Datagram /\ m = net[1] /\ Len(net) >= 1
      /\ net' \in Seq(Datagram) /\ Len(net') = Len(net) - 1
      /\ \A k \in 1 .. Len(net') : net'[k] = net[k + 1]
  BY <1>1, TailFacts
<1> HIDE DEF m
<1>3. TypeOK' /\ BytesInPlace'
  BY <1>1, <1>2 DEF TypeOK, BytesInPlace
<1>4. \A k \in 1 .. Len(net') : k + 1 \in 1 .. Len(net)
  BY <1>2
<1>5. PacketsHonest'
  BY <1>1, <1>2, <1>4 DEF PacketsHonest
<1>6. CopiesAccounted'
  <2> SUFFICES ASSUME NEW b \in Byte, InFlight(b)
               PROVE  InFlight(b)'
    BY <1>1 DEF CopiesAccounted, SentCopies
  <2>1. PICK k \in 1 .. Len(net) : Carries(net[k], b)
    BY DEF InFlight
  <2>2. k # 1
    BY <1>1, <1>2, <2>1 DEF Carries
  <2>3. k - 1 \in 1 .. Len(net') /\ (k - 1) + 1 = k
    BY <1>2, <2>2
  <2>4. net'[k - 1] = net[k]
    BY <1>2, <2>3
  <2>5. QED
    BY <2>1, <2>3, <2>4 DEF InFlight
<1>7. EofLast'
  <2> SUFFICES ASSUME overtaken = 0
               PROVE  pass = 4 /\ \A k \in 1 .. Len(net') : net'[k].eof
    BY <1>1 DEF EofLast
  <2>1. pass = 4 /\ \A j \in 1 .. Len(net) : net[j].eof
    BY <1>1, <1>2 DEF EofLast
  <2>2. QED
    BY <1>2, <1>4, <2>1
<1>8. QED
  BY <1>1, <1>3, <1>5, <1>6, <1>7 DEF TransferInv

LEMMA TransferStep ==
    ASSUME Size < OffsetRange, TransferInv, [Next]_vars
    PROVE  TransferInv'
<1>1. CASE UNCHANGED vars
  BY <1>1 DEF vars, netVars, TransferInv, TypeOK, BytesInPlace, PacketsHonest,
              CopiesAccounted, InFlight, SentCopies, EofLast
<1>2. CASE Next
  BY <1>2, SendDataStep, SendEofStep, ReceiveDataStep, ReceiveEofStep
     DEF Next, Sender, Receiver
<1>3. QED
  BY <1>1, <1>2
-----------------------------------------------------------------------------
(* The inductive invariant holds for files the 32-bit offset can address:  *)
(* everything sent is received, in flight or lost.                         *)
THEOREM TransferInvariant ==
    ASSUME Size < OffsetRange
    PROVE  Spec => []TransferInv
BY TransferInit, TransferStep, PTL DEF Spec

(* The counters stay within their bounds and the file within its size.     *)
THEOREM TransferTypeOK ==
    ASSUME Size < OffsetRange
    PROVE  Spec => []TypeOK
<1>1. TransferInv => TypeOK
  BY DEF TransferInv
<1>2. QED
  BY <1>1, TransferInvariant, PTL

(* Bytes are written where they belong, whatever the network does.         *)
THEOREM NothingMisplaced ==
    ASSUME Size < OffsetRange
    PROVE  Spec => []BytesInPlace
<1>1. TransferInv => BytesInPlace
  BY DEF TransferInv
<1>2. QED
  BY <1>1, TransferInvariant, PTL

(* With three passes, a transfer in which nothing is overtaken survives    *)
(* the loss of any two datagrams, if it ends.                              *)
THEOREM TwoLossesTolerated ==
    ASSUME Size < OffsetRange
    PROVE  Spec => []ThreeCopiesSuffice
<1>1. TransferInv => ThreeCopiesSuffice
  <2> SUFFICES ASSUME TransferInv, done, overtaken = 0, lost < 3, NEW b \in Byte
               PROVE  received[b] = b
    BY DEF ThreeCopiesSuffice
  <2>1. pass = 4 /\ \A k \in 1 .. Len(net) : net[k].eof
    BY DEF TransferInv, EofLast
  <2>2. ~ InFlight(b) /\ SentCopies(b) = 3
    BY <2>1 DEF InFlight, Carries, SentCopies, Passes
  <2>3. lostCopies[b] < 3
    BY DEF TransferInv, CopiesAccounted, TypeOK
  <2>4. QED
    BY <2>2, <2>3 DEF TransferInv, CopiesAccounted
<1>2. QED
  BY <1>1, TransferInvariant, PTL
=============================================================================
