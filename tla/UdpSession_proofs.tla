------------------------- MODULE UdpSession_proofs -------------------------
(* The sessions of the UDP file server: every reply answers its command,   *)
(* for any number of clients, and files arrive whole, for one.             *)
EXTENDS UdpSession, TLAPS, SequenceTheorems, FiniteSetTheorems

-----------------------------------------------------------------------------
(* What a host's queue is after one datagram more or less.                 *)

LEMMA Contents ==
    ASSUME NEW q \in Seq(Packet)
    PROVE  /\ Len(q) \in Nat /\ (q = <<>> <=> Len(q) = 0)
           /\ \A i \in 1 .. Len(q) : q[i] \in ToSet(q)
           /\ \A d \in ToSet(q) : d \in Packet /\ \E i \in 1 .. Len(q) : q[i] = d
           /\ q = <<>> <=> ToSet(q) = {}
           /\ q # <<>> => Head(q) = q[1] /\ Head(q) \in ToSet(q) /\ 1 \in 1 .. Len(q)
<1>1. /\ Len(q) \in Nat /\ (q = <<>> <=> Len(q) = 0) /\ DOMAIN q = 1 .. Len(q)
      /\ q # <<>> => Head(q) = q[1] /\ 1 \in 1 .. Len(q)
      /\ \A i \in 1 .. Len(q) : q[i] \in Packet
  BY EmptySeq, LenProperties, ElementOfSeq, HeadTailProperties
<1>2. /\ \A i \in 1 .. Len(q) : q[i] \in ToSet(q)
      /\ \A d \in ToSet(q) : d \in Packet /\ \E i \in 1 .. Len(q) : q[i] = d
  BY <1>1 DEF ToSet
<1>3. q = <<>> => ToSet(q) = {}
  BY <1>1, <1>2
<1>4. QED
  BY <1>1, <1>2, <1>3

LEMMA Posted ==
    ASSUME NEW q \in Seq(Packet), NEW d \in Packet
    PROVE  /\ Append(q, d) \in Seq(Packet) /\ Append(q, d) # <<>>
           /\ Len(Append(q, d)) = Len(q) + 1
           /\ Append(q, d)[Len(q) + 1] = d
           /\ \A i \in 1 .. Len(q) : Append(q, d)[i] = q[i]
           /\ Head(Append(q, d)) = IF q = <<>> THEN d ELSE Head(q)
           /\ ToSet(Append(q, d)) = ToSet(q) \cup {d}
<1> DEFINE r == Append(q, d)
<1>1. /\ r \in Seq(Packet) /\ r # <<>> /\ Len(r) = Len(q) + 1 /\ r[Len(q) + 1] = d
      /\ \A i \in 1 .. Len(q) : r[i] = q[i]
  BY AppendProperties
<1> HIDE DEF r
<1>2. Head(r) = IF q = <<>> THEN d ELSE Head(q)
  BY <1>1, Contents
<1>3. \A e \in ToSet(r) : e \in ToSet(q) \cup {d}
  <2> SUFFICES ASSUME NEW e \in ToSet(r) PROVE e \in ToSet(q) \cup {d}
    OBVIOUS
  <2>1. PICK i \in 1 .. Len(r) : r[i] = e
    BY <1>1, Contents
  <2>2. i \in 1 .. Len(q) \/ i = Len(q) + 1
    BY <1>1, Contents
  <2>3. QED
    BY <1>1, <2>1, <2>2, Contents
<1>4. d \in ToSet(r)
  <2>1. Len(q) + 1 \in 1 .. Len(r)
    BY <1>1, Contents
  <2>2. QED
    BY <1>1, <2>1, Contents
<1>5. \A e \in ToSet(q) : e \in ToSet(r)
  <2> SUFFICES ASSUME NEW e \in ToSet(q) PROVE e \in ToSet(r)
    OBVIOUS
  <2>1. PICK i \in 1 .. Len(q) : q[i] = e
    BY Contents
  <2>2. i \in 1 .. Len(r) /\ r[i] = e
    BY <1>1, <2>1, Contents
  <2>3. QED
    BY <1>1, <2>2, Contents
<1>6. QED
  BY <1>1, <1>2, <1>3, <1>4, <1>5 DEF r

LEMMA Taken ==
    ASSUME NEW q \in Seq(Packet), q # <<>>
    PROVE  /\ Tail(q) \in Seq(Packet) /\ Len(Tail(q)) = Len(q) - 1
           /\ \A i \in 1 .. Len(q) - 1 : Tail(q)[i] = q[i + 1]
           /\ ToSet(q) = {Head(q)} \cup ToSet(Tail(q))
           /\ Head(q) \in Packet
<1> DEFINE r == Tail(q)
<1>1. /\ r \in Seq(Packet) /\ Len(r) = Len(q) - 1
      /\ \A i \in 1 .. Len(q) - 1 : r[i] = q[i + 1]
  BY HeadTailProperties, EmptySeq, LenProperties
<1>2. /\ Len(q) \in Nat /\ Head(q) = q[1] /\ Head(q) \in ToSet(q) /\ Head(q) \in Packet
  BY Contents
<1> HIDE DEF r
<1>3. \A e \in ToSet(r) : e \in ToSet(q)
  <2> SUFFICES ASSUME NEW e \in ToSet(r) PROVE e \in ToSet(q)
    OBVIOUS
  <2>1. PICK i \in 1 .. Len(r) : r[i] = e
    BY <1>1, Contents
  <2>2. i + 1 \in 1 .. Len(q) /\ q[i + 1] = e
    BY <1>1, <1>2, <2>1
  <2>3. QED
    BY <2>2, Contents
<1>4. \A e \in ToSet(q) : e = Head(q) \/ e \in ToSet(r)
  <2> SUFFICES ASSUME NEW e \in ToSet(q) PROVE e = Head(q) \/ e \in ToSet(r)
    OBVIOUS
  <2>1. PICK i \in 1 .. Len(q) : q[i] = e
    BY Contents
  <2>2. i = 1 \/ (i - 1 \in 1 .. Len(r) /\ r[i - 1] = e)
    BY <1>1, <1>2, <2>1
  <2>3. QED
    BY <1>1, <1>2, <2>1, <2>2, Contents
<1>5. QED
  BY <1>1, <1>2, <1>3, <1>4 DEF r

\* In order with the rest, and with the end-of-file last.
LEMMA PostedOrder ==
    ASSUME NEW q \in Seq(Packet), NEW d \in Packet
    PROVE  /\ Sorted(q) /\ (\A e \in ToSet(q) : e.from = d.from =>
                                e.kind = "data" /\ (Eof(e) => d.kind = "msg"))
              => Sorted(Append(q, d))
           /\ EndsWith(q, TRUE) => EndsWith(Append(q, d), ~ Eof(d))
<1> DEFINE r == Append(q, d)
<1>1. /\ r \in Seq(Packet) /\ r # <<>> /\ Len(r) = Len(q) + 1 /\ r[Len(q) + 1] = d
      /\ \A i \in 1 .. Len(q) : r[i] = q[i]
      /\ Len(q) \in Nat
  BY Posted, Contents
<1> HIDE DEF r
<1>2. /\ \A i \in 1 .. Len(r) : (i \in 1 .. Len(q) /\ r[i] = q[i]) \/ (i = Len(r) /\ r[i] = d)
      /\ \A i, j \in 1 .. Len(r) : i < j => i \in 1 .. Len(q) /\ r[i] = q[i]
  BY <1>1
<1>3. ASSUME Sorted(q), \A e \in ToSet(q) : e.from = d.from =>
                             e.kind = "data" /\ (Eof(e) => d.kind = "msg")
      PROVE  Sorted(r)
  <2> SUFFICES ASSUME NEW i \in 1 .. Len(r), NEW j \in 1 .. Len(r),
                      i < j, r[i].from = r[j].from
               PROVE  r[i].kind = "data" /\ (Eof(r[i]) => r[j].kind = "msg")
    BY DEF Sorted
  <2>1. i \in 1 .. Len(q) /\ r[i] = q[i] /\ q[i] \in ToSet(q)
    BY <1>2, Contents
  <2>2. CASE j \in 1 .. Len(q) /\ r[j] = q[j]
    BY <1>3, <2>1, <2>2 DEF Sorted
  <2>3. CASE r[j] = d
    BY <1>3, <2>1, <2>3
  <2>4. QED
    BY <1>2, <2>2, <2>3
<1>4. ASSUME EndsWith(q, TRUE) PROVE EndsWith(r, ~ Eof(d))
  <2>1. \A i \in 1 .. Len(q) : ~ Eof(q[i])
    BY <1>4 DEF EndsWith
  <2>2. r[Len(r)] = d
    BY <1>1
  <2>3. QED
    BY <1>1, <1>2, <2>1, <2>2, Zenon DEF EndsWith
<1>5. QED
  BY <1>3, <1>4 DEF r

LEMMA TakenOrder ==
    ASSUME NEW q \in Seq(Packet), q # <<>>
    PROVE  /\ Sorted(q) => /\ Sorted(Tail(q))
                           /\ \A e \in ToSet(Tail(q)) : e.from = Head(q).from =>
                                  /\ Head(q).kind = "data"
                                  /\ Eof(Head(q)) => e.kind = "msg"
           /\ \A more \in BOOLEAN : EndsWith(q, more) =>
                  /\ ~ Eof(Head(q)) => EndsWith(Tail(q), more)
                  /\ Eof(Head(q)) => ~ more /\ Tail(q) = <<>>
<1> DEFINE r == Tail(q)
<1>1. /\ r \in Seq(Packet) /\ Len(r) = Len(q) - 1 /\ Len(q) \in Nat /\ Head(q) = q[1]
      /\ \A i \in 1 .. Len(q) - 1 : r[i] = q[i + 1]
      /\ 1 \in 1 .. Len(q) /\ (r = <<>> <=> Len(r) = 0)
  BY Taken, Contents
<1> HIDE DEF r
<1>2. /\ \A i \in 1 .. Len(r) : i + 1 \in 1 .. Len(q) /\ r[i] = q[i + 1] /\ 1 < i + 1
      /\ \A i, j \in 1 .. Len(r) : i < j => i + 1 < j + 1
      /\ \A i \in 1 .. Len(r) : i = Len(r) <=> i + 1 = Len(q)
      /\ Len(q) # 1 => Len(r) # 0 /\ Len(r) \in 1 .. Len(r) /\ r[Len(r)] = q[Len(q)]
      /\ Len(q) = 1 => Len(r) = 0
  BY <1>1
<1>3. ASSUME Sorted(q) PROVE Sorted(r)
  BY <1>2, <1>3 DEF Sorted
<1>4. ASSUME Sorted(q), NEW e \in ToSet(r), e.from = Head(q).from
      PROVE  Head(q).kind = "data" /\ (Eof(Head(q)) => e.kind = "msg")
  <2>1. PICK i \in 1 .. Len(r) : r[i] = e
    BY <1>1, Contents
  <2>2. i + 1 \in 1 .. Len(q) /\ q[i + 1] = e /\ 1 < i + 1
    BY <1>2, <2>1
  <2>3. QED
    BY <1>1, <1>4, <2>2 DEF Sorted
<1>5. ASSUME NEW more \in BOOLEAN, EndsWith(q, more), ~ Eof(Head(q))
      PROVE  EndsWith(r, more)
  <2>1. \A i \in 1 .. Len(r) : Eof(r[i]) => i = Len(r) /\ ~ more
    BY <1>2, <1>5 DEF EndsWith
  <2>2. more \/ Len(q) # 1
    BY <1>1, <1>5 DEF EndsWith
  <2>3. more \/ (r # <<>> /\ Eof(r[Len(r)]))
    BY <1>1, <1>2, <1>5, <2>2 DEF EndsWith
  <2>4. QED
    BY <2>1, <2>3 DEF EndsWith
<1>6. ASSUME NEW more \in BOOLEAN, EndsWith(q, more), Eof(Head(q))
      PROVE  ~ more /\ r = <<>>
  BY <1>1, <1>2, <1>6 DEF EndsWith
<1>7. QED
  BY <1>3, <1>4, <1>5, <1>6 DEF r

LEMMA Removed ==
    ASSUME NEW q \in Seq(Packet), NEW i \in 1 .. Len(q)
    PROVE  /\ RemoveAt(q, i) \in Seq(Packet) /\ Len(RemoveAt(q, i)) = Len(q) - 1
           /\ \A j \in 1 .. Len(q) - 1 :
                  RemoveAt(q, i)[j] = IF j < i THEN q[j] ELSE q[j + 1]
<1> DEFINE a == SubSeq(q, 1, i - 1)
           b == SubSeq(q, i + 1, Len(q))
<1>1. Len(q) \in Nat /\ i \in 1 .. Len(q)
  BY LenProperties
<1>2. /\ a \in Seq(Packet) /\ Len(a) = i - 1
      /\ \A j \in 1 .. i - 1 : a[j] = q[j]
  OBVIOUS
<1>3. /\ b \in Seq(Packet) /\ Len(b) = Len(q) - i
      /\ \A j \in 1 .. Len(q) - i : b[j] = q[i + j]
  OBVIOUS
<1>4. RemoveAt(q, i) = a \o b
  BY DEF RemoveAt
<1> HIDE DEF a, b
<1>5. /\ a \o b \in Seq(Packet) /\ Len(a \o b) = Len(a) + Len(b)
      /\ \A j \in 1 .. Len(a) + Len(b) :
             (a \o b)[j] = IF j <= Len(a) THEN a[j] ELSE b[j - Len(a)]
  BY <1>2, <1>3, ConcatProperties
<1>6. Len(a) + Len(b) = Len(q) - 1 /\ Len(a) = i - 1
  BY <1>1, <1>2, <1>3
<1>7. ASSUME NEW j \in 1 .. Len(q) - 1
      PROVE  (a \o b)[j] = IF j < i THEN q[j] ELSE q[j + 1]
  <2>1. (a \o b)[j] = IF j <= Len(a) THEN a[j] ELSE b[j - Len(a)]
    BY <1>5, <1>6, <1>7
  <2>2. CASE j < i
    <3>1. j \in 1 .. i - 1 /\ j <= Len(a)
      BY <1>1, <1>6, <1>7, <2>2
    <3>2. QED
      BY <1>2, <2>1, <2>2, <3>1
  <2>3. CASE ~ j < i
    <3>1. j - Len(a) \in 1 .. Len(q) - i /\ i + (j - Len(a)) = j + 1 /\ ~ j <= Len(a)
      BY <1>1, <1>6, <1>7, <2>3
    <3>2. b[j - Len(a)] = q[i + (j - Len(a))]
      BY <1>3, <3>1
    <3>3. QED
      BY <2>1, <2>3, <3>1, <3>2
  <2>4. QED
    BY <2>2, <2>3
<1>8. QED
  BY <1>4, <1>5, <1>6, <1>7

LEMMA Swapped ==
    ASSUME NEW q \in Seq(Packet), NEW i \in 1 .. Len(q) - 1
    PROVE  LET r == [q EXCEPT ![i] = q[i + 1], ![i + 1] = q[i]]
           IN  /\ r \in Seq(Packet) /\ Len(r) = Len(q)
               /\ r[i] = q[i + 1] /\ r[i + 1] = q[i]
               /\ \A j \in 1 .. Len(q) : j \notin {i, i + 1} => r[j] = q[j]
<1> DEFINE r == [q EXCEPT ![i] = q[i + 1], ![i + 1] = q[i]]
<1>1. Len(q) \in Nat /\ i \in 1 .. Len(q) /\ i + 1 \in 1 .. Len(q) /\ i # i + 1
  BY LenProperties
<1> DEFINE t == [q EXCEPT ![i] = q[i + 1]]
<1>2. q[i] \in Packet /\ q[i + 1] \in Packet
  BY <1>1, ElementOfSeq
<1>3. /\ t \in Seq(Packet) /\ Len(t) = Len(q)
      /\ \A j \in 1 .. Len(q) : t[j] = IF j = i THEN q[i + 1] ELSE q[j]
  BY <1>1, <1>2, ExceptSeq
<1> HIDE DEF t
<1> DEFINE u == [t EXCEPT ![i + 1] = q[i]]
<1>4. /\ u \in Seq(Packet) /\ Len(u) = Len(t)
      /\ \A j \in 1 .. Len(t) : u[j] = IF j = i + 1 THEN q[i] ELSE t[j]
  BY <1>1, <1>2, <1>3, ExceptSeq
<1>5. r = u
  BY DEF r, u, t
<1> HIDE DEF r, u
<1>6. QED
  BY <1>1, <1>3, <1>4, <1>5

-----------------------------------------------------------------------------
(* The types, with what each host has open and what may be in its queue.   *)

Fits(h, d) ==
    /\ d \in Packet
    /\ d.kind = "data" => d.re \in 1 .. Packets
    /\ h = Server => /\ d.from \in Client
                     /\ d.type \in {CMD_GET, CMD_PUT} => d.file \in Files

Queues(qs) ==
    /\ qs \in [Host -> Seq(Packet)]
    /\ \A h \in Host : \A d \in ToSet(qs[h]) : Fits(h, d)

ClientTypes ==
    /\ pc \in [Client -> {"prompt", "waiting", "receiving", "sending"}]
    /\ cmd \in [Client -> Commands \cup {NoCommand}]
    /\ asked \in [Client -> 0 .. MaxCommands] /\ msg \in [Client -> BOOLEAN]
    /\ fp \in [Client -> Files \cup {NoFile}]
    /\ next \in [Client -> 1 .. Packets + 1]
    /\ reply \in [Client -> Packet]
    /\ \A c \in Client :
           /\ pc[c] = "sending" => next[c] <= Packets
           /\ pc[c] \in {"sending", "receiving"} => fp[c] \in Files

ServerTypes ==
    /\ sfp \in Files \cup {NoFile} /\ snext \in 1 .. Packets + 1
    /\ spc \in {"ready", "sending", "receiving", "exited"} /\ remote \in Client
    /\ spc = "sending" => snext <= Packets
    /\ spc \in {"sending", "receiving"} => sfp \in Files
    /\ faults \in [lost : 0 .. MaxLost, overtaken : 0 .. MaxOvertaken, control : BOOLEAN]

Outcomes == [host : Host, from : Host, file : Files, written : SUBSET Part]
FileTypes == written \in [Host -> SUBSET Part] /\ outcome \subseteq Outcomes

LEMMA TypesSplit ==
    TypeOK /\ Placed <=> ClientTypes /\ ServerTypes /\ FileTypes /\ Queues(inbox)
<1>1. inbox \in [Host -> Seq(Packet)] =>
          \A h \in Host : \A d \in ToSet(inbox[h]) : d \in Packet
  BY Contents
<1>2. Server \in Host
  BY DEF Host
<1>3. (inbox \in [Host -> Seq(Packet)]) =>
          (Queues(inbox) <=>
             /\ \A d \in ToSet(inbox[Server]) :
                    /\ d.from \in Client
                    /\ d.type \in {CMD_GET, CMD_PUT} => d.file \in Files
             /\ \A h \in Host : \A d \in ToSet(inbox[h]) :
                    d.kind = "data" => d.re \in 1 .. Packets)
  BY <1>1, <1>2, Zenon DEF Queues, Fits
<1>4. Queues(inbox) => inbox \in [Host -> Seq(Packet)]
  BY DEF Queues
<1>5. QED
  BY <1>3, <1>4, Zenon DEF TypeOK, Placed, ClientTypes, ServerTypes, FileTypes, Outcomes

LEMMA PacketsFact == Packets \in Nat \ {0} /\ Chunks \in Nat
BY SessionAssumption DEF Packets

LEMMA HostFacts == Server \in Host /\ Server \notin Client /\ Client \subseteq Host
                   /\ NoFile \notin Files
BY SessionAssumption DEF Host

LEMMA PostFits ==
    ASSUME NEW qs, Queues(qs), NEW h \in Host, NEW d, Fits(h, d)
    PROVE  Queues([qs EXCEPT ![h] = Append(@, d)])
<1> DEFINE r == [qs EXCEPT ![h] = Append(@, d)]
<1>1. qs \in [Host -> Seq(Packet)] /\ d \in Packet
  BY DEF Queues, Fits
<1>2. Append(qs[h], d) \in Seq(Packet) /\ ToSet(Append(qs[h], d)) = ToSet(qs[h]) \cup {d}
  BY <1>1, Posted
<1>3. /\ r \in [Host -> Seq(Packet)] /\ r[h] = Append(qs[h], d)
      /\ \A g \in Host : g # h => r[g] = qs[g]
  BY <1>1, <1>2
<1> HIDE DEF r
<1>4. \A g \in Host : \A e \in ToSet(r[g]) : Fits(g, e)
  BY <1>2, <1>3 DEF Queues
<1>5. QED
  BY <1>3, <1>4 DEF Queues, r

LEMMA TakeFits ==
    ASSUME Queues(inbox), NEW h \in Host, inbox[h] # <<>>
    PROVE  Queues(Take(h)) /\ Fits(h, Head(inbox[h]))
<1>1. inbox \in [Host -> Seq(Packet)] /\ inbox[h] \in Seq(Packet)
  BY DEF Queues
<1>2. /\ Tail(inbox[h]) \in Seq(Packet)
      /\ ToSet(inbox[h]) = {Head(inbox[h])} \cup ToSet(Tail(inbox[h]))
  BY <1>1, Taken
<1>3. /\ Take(h) \in [Host -> Seq(Packet)] /\ Take(h)[h] = Tail(inbox[h])
      /\ \A g \in Host : g # h => Take(h)[g] = inbox[g]
  BY <1>1, <1>2 DEF Take
<1>4. \A g \in Host : \A d \in ToSet(Take(h)[g]) : Fits(g, d)
  BY <1>2, <1>3 DEF Queues
<1>5. Fits(h, Head(inbox[h]))
  BY <1>2 DEF Queues
<1>6. QED
  BY <1>3, <1>4, <1>5 DEF Queues

LEMMA MessageFits ==
    ASSUME NEW h \in Host, NEW from \in Host, NEW type \in 0 .. PUT_START,
           NEW file \in Files \cup {NoFile}, NEW text \in BOOLEAN, NEW re \in Nat,
           h = Server => from \in Client /\ (type \in {CMD_GET, CMD_PUT} => file \in Files)
    PROVE  Fits(h, Message(from, type, file, text, re))
BY DEF Fits, Message, Packet

LEMMA DataFits ==
    ASSUME NEW h \in Host, NEW from \in Host, NEW file \in Files \cup {NoFile},
           NEW n \in 1 .. Packets, h = Server => from \in Client
    PROVE  Fits(h, Data(from, file, n))
<1>1. (n < Packets) \in BOOLEAN /\ n \in Nat /\ 0 \in 0 .. PUT_START
  BY PacketsFact DEF PUT_START
<1>2. 0 \notin {CMD_GET, CMD_PUT}
  BY DEF CMD_GET, CMD_PUT
<1>3. QED
  BY <1>1, <1>2 DEF Fits, Data, Packet

\* Chunks are numbered from 1, in each pass.
LEMMA ChunkNumber ==
    ASSUME NEW n \in 1 .. Packets, n # Packets
    PROVE  Chunks # 0 /\ ((n - 1) % Chunks) + 1 \in 1 .. Chunks
<1>1. Chunks \in Nat \ {0}
  BY PacketsFact DEF Packets
<1>2. n - 1 \in Nat
  BY PacketsFact
<1>3. \A x \in Nat : x % Chunks \in 0 .. Chunks - 1
  BY <1>1
<1>4. QED
  BY <1>1, <1>2, <1>3

LEMMA WritesFit ==
    ASSUME NEW h \in Host, NEW d, Fits(h, d), ~ Eof(d)
    PROVE  Writes(d) \subseteq Part
<1>1. d.from \in Host /\ d.file \in Files \cup {NoFile} /\ d.kind \in {"msg", "data"}
  BY DEF Fits, Packet
<1>2. ASSUME d.kind = "data" PROVE Chunk(d) \in Part
  <2>1. ((d.re - 1) % Chunks) + 1 \in 1 .. Chunks
    BY <1>2, ChunkNumber DEF Fits, Eof
  <2>2. ((d.re - 1) % Chunks) + 1 \in 0 .. Chunks
    BY <2>1, PacketsFact
  <2>3. QED
    BY <1>1, <2>2 DEF Chunk, Part
<1>3. Noise \in Part
  BY HostFacts, PacketsFact DEF Noise, Part
<1>4. QED
  BY <1>1, <1>2, <1>3 DEF Writes

TypesHold == ClientTypes /\ ServerTypes /\ FileTypes /\ Queues(inbox)

LEMMA CommandTypes ==
    ASSUME TypesHold, NEW c \in Client, Command(c)
    PROVE  TypesHold'
<1>1. PICK k \in Commands :
          /\ cmd' = [cmd EXCEPT ![c] = k]
          /\ fp' = [fp EXCEPT ![c] = k.file]
          /\ msg' = [msg EXCEPT ![c] = @ \/ k.type \notin {CMD_LS, CMD_EXIT}]
          /\ written' = IF k.type = CMD_GET THEN [written EXCEPT ![c] = {}] ELSE written
          /\ inbox' = Post(Server, Message(c, k.type, k.file, msg'[c], asked[c] + 1))
  BY Zenon DEF Command
<1>2. /\ k.type \in 0 .. PUT_START /\ k.file \in Files \cup {NoFile}
      /\ k.type \in {CMD_GET, CMD_PUT} => k.file \in Files
  BY DEF Commands, CMD_LS, CMD_GET, CMD_PUT, CMD_EXIT, CMD_UND, PUT_START
<1>3. asked[c] \in Nat /\ asked[c] + 1 \in 0 .. MaxCommands /\ asked[c] + 1 \in Nat
  BY SessionAssumption DEF Command, TypesHold, ClientTypes
<1>4. (msg[c] \/ k.type \notin {CMD_LS, CMD_EXIT}) \in BOOLEAN
  OBVIOUS
<1>5. msg' \in [Client -> BOOLEAN] /\ msg'[c] \in BOOLEAN
  BY <1>1, <1>4, Zenon DEF TypesHold, ClientTypes
<1>6. Queues(inbox)'
  <2>1. Fits(Server, Message(c, k.type, k.file, msg'[c], asked[c] + 1))
    BY <1>2, <1>3, <1>5, HostFacts, MessageFits
  <2>2. Queues(inbox')
    BY <1>1, <2>1, HostFacts, PostFits DEF Post, TypesHold
  <2>3. QED
    BY <2>2 DEF Queues
<1>7. ClientTypes'
  BY <1>1, <1>2, <1>3, <1>5 DEF TypesHold, ClientTypes, Command
<1>8. ServerTypes'
  BY DEF TypesHold, ServerTypes, Command, ClientOnly
<1>9. FileTypes'
  BY <1>1, HostFacts DEF TypesHold, FileTypes, Command
<1>10. QED
  BY <1>6, <1>7, <1>8, <1>9 DEF TypesHold

LEMMA ReplyTypes ==
    ASSUME TypesHold, NEW c \in Client, Reply(c)
    PROVE  TypesHold'
<1> DEFINE d == Head(inbox[c])
<1>1. /\ pc[c] = "waiting" /\ inbox[c] # <<>> /\ inbox' = Take(c)
      /\ reply' = [reply EXCEPT ![c] = d]
      /\ \/ fp[c] # NoFile /\ pc' = [pc EXCEPT ![c] = "receiving"] /\ UNCHANGED <<fp, next>>
         \/ /\ fp[c] # NoFile /\ pc' = [pc EXCEPT ![c] = "sending"]
            /\ next' = [next EXCEPT ![c] = 1] /\ UNCHANGED fp
         \/ Closed(c) /\ UNCHANGED next
      /\ UNCHANGED <<cmd, asked, msg, written, outcome>> /\ ClientOnly
  BY DEF Reply
<1>2. Queues(inbox)' /\ d \in Packet
  <2>1. Queues(Take(c)) /\ Fits(c, d)
    BY <1>1, TakeFits, HostFacts DEF TypesHold
  <2>2. QED
    BY <1>1, <2>1 DEF Queues, Fits
<1> HIDE DEF d
<1>3. ClientTypes'
  <2>1. CASE fp[c] # NoFile /\ pc' = [pc EXCEPT ![c] = "receiving"] /\ UNCHANGED <<fp, next>>
    BY <1>1, <1>2, <2>1 DEF TypesHold, ClientTypes
  <2>2. CASE /\ fp[c] # NoFile /\ pc' = [pc EXCEPT ![c] = "sending"]
             /\ next' = [next EXCEPT ![c] = 1] /\ UNCHANGED fp
    BY <1>1, <1>2, <2>2, PacketsFact DEF TypesHold, ClientTypes
  <2>3. CASE Closed(c) /\ UNCHANGED next
    BY <1>1, <1>2, <2>3 DEF TypesHold, ClientTypes, Closed
  <2>4. QED
    BY <1>1, <2>1, <2>2, <2>3
<1>4. ServerTypes' /\ FileTypes'
  BY <1>1 DEF TypesHold, ServerTypes, FileTypes, ClientOnly
<1>5. QED
  BY <1>2, <1>3, <1>4 DEF TypesHold

LEMMA ClientReceivesTypes ==
    ASSUME TypesHold, NEW c \in Client, ClientReceives(c)
    PROVE  TypesHold'
<1> DEFINE d == Head(inbox[c])
<1>1. /\ pc[c] = "receiving" /\ inbox[c] # <<>> /\ inbox' = Take(c)
      /\ UNCHANGED <<cmd, asked, msg, next, reply>> /\ ClientOnly
      /\ IF Eof(d)
         THEN /\ Closed(c) /\ UNCHANGED written
              /\ outcome' = outcome \cup {[host |-> c, from |-> Server,
                     file |-> fp[c], written |-> written[c]]}
         ELSE /\ written' = IF cmd[c].type # CMD_GET THEN written
                            ELSE [written EXCEPT ![c] = @ \cup Writes(d)]
              /\ UNCHANGED <<pc, fp, outcome>>
  BY DEF ClientReceives, Ended
<1>2. Queues(inbox)' /\ Fits(c, d)
  <2>1. Queues(Take(c)) /\ Fits(c, d)
    BY <1>1, TakeFits, HostFacts DEF TypesHold
  <2>2. QED
    BY <1>1, <2>1 DEF Queues
<1> HIDE DEF d
<1>3. ClientTypes'
  BY <1>1 DEF TypesHold, ClientTypes, Closed
<1>4. ServerTypes'
  BY <1>1 DEF TypesHold, ServerTypes, ClientOnly
<1>5. FileTypes'
  <2>1. CASE Eof(d)
    BY <1>1, <2>1, HostFacts DEF TypesHold, ClientTypes, FileTypes, Outcomes
  <2>2. CASE ~ Eof(d)
    <3>1. Writes(d) \subseteq Part
      BY <1>2, <2>2, WritesFit, HostFacts
    <3>2. QED
      BY <1>1, <2>2, <3>1, HostFacts DEF TypesHold, FileTypes
  <2>3. QED
    BY <2>1, <2>2
<1>6. QED
  BY <1>2, <1>3, <1>4, <1>5 DEF TypesHold

LEMMA ClientSendsTypes ==
    ASSUME TypesHold, NEW c \in Client, ClientSends(c)
    PROVE  TypesHold'
<1>1. next[c] \in 1 .. Packets /\ fp[c] \in Files
  BY PacketsFact DEF TypesHold, ClientTypes, ClientSends
<1>2. Queues(inbox)'
  <2>1. Fits(Server, Data(c, fp[c], next[c]))
    BY <1>1, HostFacts, DataFits
  <2>2. Queues(inbox')
    BY <2>1, HostFacts, PostFits DEF Post, TypesHold, ClientSends
  <2>3. QED
    BY <2>2 DEF Queues
<1>3. ClientTypes'
  BY <1>1, PacketsFact DEF TypesHold, ClientTypes, ClientSends, Closed
<1>4. ServerTypes' /\ FileTypes'
  BY DEF TypesHold, ServerTypes, FileTypes, ClientOnly, ClientSends
<1>5. QED
  BY <1>2, <1>3, <1>4 DEF TypesHold

Answer(d, type) ==
    Message(Server, type, d.file, type = MSG_RESP, IF d.kind = "msg" THEN d.re ELSE 0)
Answers(d, type) ==
    inbox' = [Take(Server) EXCEPT ![d.from] = Append(@, Answer(d, type))]

LEMMA ServerCommandIs ==
    ASSUME ServerCommand
    PROVE  LET d == Head(inbox[Server]) IN
           /\ spc = "ready" /\ inbox[Server] # <<>> /\ remote' = d.from
           /\ UNCHANGED outcome /\ ServerOnly
           /\ \/ /\ d.type = CMD_GET /\ spc' = "sending" /\ sfp' = d.file
                 /\ snext' = 1 /\ Answers(d, GET_START) /\ UNCHANGED written
              \/ /\ d.type = CMD_PUT /\ spc' = "receiving" /\ sfp' = d.file
                 /\ written' = [written EXCEPT ![Server] = {}]
                 /\ Answers(d, PUT_START) /\ UNCHANGED snext
              \/ /\ Answers(d, MSG_RESP) /\ spc' \in {"ready", "exited"}
                 /\ UNCHANGED <<sfp, snext, written>>
BY Zenon DEF ServerCommand, Answers, Answer

LEMMA ServerCommandTypes ==
    ASSUME TypesHold, ServerCommand
    PROVE  TypesHold'
<1> DEFINE d == Head(inbox[Server])
<1>1. Queues(Take(Server)) /\ Fits(Server, d)
  BY ServerCommandIs, TakeFits, HostFacts DEF TypesHold
<1>2. /\ d.from \in Client /\ d.from \in Host /\ d.file \in Files \cup {NoFile}
      /\ d.type \in {CMD_GET, CMD_PUT} => d.file \in Files
      /\ (IF d.kind = "msg" THEN d.re ELSE 0) \in Nat
  BY <1>1, HostFacts DEF Fits, Packet
<1>3. /\ spc = "ready" /\ remote' = d.from /\ UNCHANGED outcome /\ ServerOnly
      /\ \/ /\ d.type = CMD_GET /\ spc' = "sending" /\ sfp' = d.file
            /\ snext' = 1 /\ Answers(d, GET_START) /\ UNCHANGED written
         \/ /\ d.type = CMD_PUT /\ spc' = "receiving" /\ sfp' = d.file
            /\ written' = [written EXCEPT ![Server] = {}]
            /\ Answers(d, PUT_START) /\ UNCHANGED snext
         \/ /\ Answers(d, MSG_RESP) /\ spc' \in {"ready", "exited"}
            /\ UNCHANGED <<sfp, snext, written>>
  BY ServerCommandIs
<1> HIDE DEF d
<1>4. ASSUME NEW type \in {GET_START, PUT_START, MSG_RESP}, Answers(d, type)
      PROVE  Queues(inbox)'
  <2> DEFINE m == Answer(d, type)
  <2>1. type \in 0 .. PUT_START /\ (type = MSG_RESP) \in BOOLEAN
    BY DEF GET_START, PUT_START, MSG_RESP
  <2>2. Fits(d.from, m)
    BY <1>2, <2>1, HostFacts, MessageFits DEF Answer
  <2> HIDE DEF m
  <2>3. Queues([Take(Server) EXCEPT ![d.from] = Append(@, m)])
    BY <1>1, <1>2, <2>2, PostFits
  <2>4. QED
    BY <1>4, <2>3 DEF Queues, Answers, m
<1>5. Queues(inbox)'
  BY <1>3, <1>4
<1>6. ClientTypes'
  BY <1>3 DEF TypesHold, ClientTypes, ServerOnly
<1>7. ServerTypes'
  BY <1>2, <1>3, PacketsFact DEF TypesHold, ServerTypes, ServerOnly, CMD_GET, CMD_PUT
<1>8. FileTypes'
  BY <1>3, HostFacts DEF TypesHold, FileTypes
<1>9. QED
  BY <1>5, <1>6, <1>7, <1>8 DEF TypesHold

LEMMA ServerSendsTypes ==
    ASSUME TypesHold, ServerSends
    PROVE  TypesHold'
<1>1. snext \in 1 .. Packets /\ sfp \in Files /\ remote \in Client
  BY PacketsFact DEF TypesHold, ServerTypes, ServerSends
<1>2. Queues(inbox)'
  <2>1. Fits(remote, Data(Server, sfp, snext))
    BY <1>1, HostFacts, DataFits
  <2>2. Queues(inbox')
    BY <1>1, <2>1, HostFacts, PostFits DEF Post, TypesHold, ServerSends
  <2>3. QED
    BY <2>2 DEF Queues
<1>3. ServerTypes'
  BY <1>1, PacketsFact DEF TypesHold, ServerTypes, ServerOnly, ServerSends, LastPacket
<1>4. ClientTypes' /\ FileTypes'
  BY DEF TypesHold, ClientTypes, FileTypes, ServerOnly, ServerSends
<1>5. QED
  BY <1>2, <1>3, <1>4 DEF TypesHold

LEMMA ServerReceivesTypes ==
    ASSUME TypesHold, ServerReceives
    PROVE  TypesHold'
<1> DEFINE d == Head(inbox[Server])
<1>1. /\ spc = "receiving" /\ inbox[Server] # <<>> /\ inbox' = Take(Server)
      /\ UNCHANGED snext /\ ServerOnly /\ remote' = d.from
      /\ IF Eof(d)
         THEN /\ spc' = "ready" /\ sfp' = NoFile /\ UNCHANGED written
              /\ outcome' = outcome \cup {[host |-> Server, from |-> d.from,
                     file |-> sfp, written |-> written[Server]]}
         ELSE /\ written' = [written EXCEPT ![Server] = @ \cup Writes(d)]
              /\ UNCHANGED <<spc, sfp, outcome>>
  BY DEF ServerReceives, Ended
<1>2. Queues(inbox)' /\ Fits(Server, d)
  <2>1. Queues(Take(Server)) /\ Fits(Server, d)
    BY <1>1, TakeFits, HostFacts DEF TypesHold
  <2>2. QED
    BY <1>1, <2>1 DEF Queues
<1>3. d.from \in Client /\ d.from \in Host
  BY <1>2, HostFacts DEF Fits
<1> HIDE DEF d
<1>4. ClientTypes'
  BY <1>1 DEF TypesHold, ClientTypes, ServerOnly
<1>5. ServerTypes'
  BY <1>1, <1>3 DEF TypesHold, ServerTypes, ServerOnly
<1>6. FileTypes'
  <2>1. CASE Eof(d)
    BY <1>1, <1>3, <2>1, HostFacts DEF TypesHold, ServerTypes, FileTypes, Outcomes
  <2>2. CASE ~ Eof(d)
    <3>1. Writes(d) \subseteq Part
      BY <1>2, <2>2, WritesFit, HostFacts
    <3>2. QED
      BY <1>1, <2>2, <3>1, HostFacts DEF TypesHold, FileTypes
  <2>3. QED
    BY <2>1, <2>2
<1>7. QED
  BY <1>2, <1>4, <1>5, <1>6 DEF TypesHold

-----------------------------------------------------------------------------
(* The network.  What is left of a queue came from it; m says from where.  *)

From(q, r, m) ==
    /\ r \in Seq(Packet) /\ m \in [1 .. Len(r) -> 1 .. Len(q)]
    /\ \A j \in 1 .. Len(r) : r[j] = q[m[j]]
    /\ ToSet(r) \subseteq ToSet(q)

\* Unless a fault of the network is of more than data packets, the messages
\* and the ends of files are all there, in order, and in order with the rest.
InPlace(q, r, m) ==
    /\ \A j, k \in 1 .. Len(r) : j < k =>
           m[j] < m[k] \/ (~ Control(r[j]) /\ ~ Control(r[k]))
    /\ \A i \in 1 .. Len(q) : Control(q[i]) => \E j \in 1 .. Len(r) : m[j] = i

\* As many chunks as have been lost are missing.
Unharmed(q, r, n) ==
    \/ n = 0 /\ Carries(q) = Carries(r)
    \/ n = 1 /\ \E i \in 1 .. Len(q) : Carries(q) \subseteq Carries(r) \cup {q[i].re}

LEMMA FromContents ==
    ASSUME NEW q \in Seq(Packet), NEW r \in Seq(Packet),
           NEW m \in [1 .. Len(r) -> 1 .. Len(q)],
           \A j \in 1 .. Len(r) : r[j] = q[m[j]]
    PROVE  From(q, r, m)
<1>1. ASSUME NEW d \in ToSet(r) PROVE d \in ToSet(q)
  <2>1. PICK j \in 1 .. Len(r) : r[j] = d
    BY Contents
  <2>2. m[j] \in 1 .. Len(q) /\ q[m[j]] = d
    BY <2>1
  <2>3. QED
    BY <2>2, Contents
<1>2. QED
  BY <1>1 DEF From

LEMMA LoseKeeps ==
    ASSUME NEW q \in Seq(Packet), NEW i \in 1 .. Len(q)
    PROVE  \E m : /\ From(q, RemoveAt(q, i), m)
                  /\ ~ Control(q[i]) => InPlace(q, RemoveAt(q, i), m)
<1> DEFINE r == RemoveAt(q, i)
           m == [j \in 1 .. Len(r) |-> IF j < i THEN j ELSE j + 1]
<1>1. /\ r \in Seq(Packet) /\ Len(r) = Len(q) - 1 /\ Len(q) \in Nat
      /\ \A j \in 1 .. Len(q) - 1 : r[j] = IF j < i THEN q[j] ELSE q[j + 1]
  BY Removed, LenProperties
<1> HIDE DEF r
<1>2. /\ \A j \in 1 .. Len(r) : m[j] = IF j < i THEN j ELSE j + 1
      /\ m \in [1 .. Len(r) -> 1 .. Len(q)]
  BY <1>1
<1> HIDE DEF m
<1>3. From(q, r, m)
  <2>1. \A j \in 1 .. Len(r) : r[j] = q[m[j]]
    BY <1>1, <1>2
  <2>2. QED
    BY <1>1, <1>2, <2>1, FromContents
<1>4. \A j, k \in 1 .. Len(r) : j < k => m[j] < m[k]
  BY <1>1, <1>2
<1>5. \A k \in 1 .. Len(q) : k # i => \E j \in 1 .. Len(r) : m[j] = k
  <2> SUFFICES ASSUME NEW k \in 1 .. Len(q), k # i
               PROVE  \E j \in 1 .. Len(r) : m[j] = k
    OBVIOUS
  <2>1. CASE k < i
    <3>1. k \in 1 .. Len(r) /\ m[k] = k
      BY <1>1, <1>2, <2>1
    <3>2. QED
      BY <3>1
  <2>2. CASE k > i
    <3>1. k - 1 \in 1 .. Len(r) /\ m[k - 1] = k
      BY <1>1, <1>2, <2>2
    <3>2. QED
      BY <3>1
  <2>3. QED
    BY <1>1, <2>1, <2>2
<1>6. ~ Control(q[i]) => InPlace(q, r, m)
  BY <1>4, <1>5, Zenon DEF InPlace
<1>7. QED
  BY <1>3, <1>6 DEF r

LEMMA OvertakeKeeps ==
    ASSUME NEW q \in Seq(Packet), NEW i \in 1 .. Len(q) - 1,
           NEW r, r = [q EXCEPT ![i] = q[i + 1], ![i + 1] = q[i]]
    PROVE  \E m : /\ From(q, r, m)
                  /\ ~ Control(q[i]) /\ ~ Control(q[i + 1]) => InPlace(q, r, m)
<1> DEFINE m == [j \in 1 .. Len(r) |-> IF j = i THEN i + 1 ELSE IF j = i + 1 THEN i ELSE j]
<1>1. /\ r \in Seq(Packet) /\ Len(r) = Len(q) /\ Len(q) \in Nat
      /\ r[i] = q[i + 1] /\ r[i + 1] = q[i]
      /\ \A j \in 1 .. Len(q) : j \notin {i, i + 1} => r[j] = q[j]
  BY Swapped, LenProperties
<1>2. /\ \A j \in 1 .. Len(r) : m[j] = IF j = i THEN i + 1 ELSE IF j = i + 1 THEN i ELSE j
      /\ m \in [1 .. Len(r) -> 1 .. Len(q)]
  BY <1>1
<1> HIDE DEF m
<1>3. From(q, r, m)
  <2>1. \A j \in 1 .. Len(r) : r[j] = q[m[j]]
    BY <1>1, <1>2
  <2>2. QED
    BY <1>1, <1>2, <2>1, FromContents
<1>4. \A j, k \in 1 .. Len(r) : j < k => m[j] < m[k] \/ (j = i /\ k = i + 1)
  BY <1>1, <1>2
<1>5. \A k \in 1 .. Len(q) : \E j \in 1 .. Len(r) : m[j] = k
  <2> SUFFICES ASSUME NEW k \in 1 .. Len(q)
               PROVE  \E j \in 1 .. Len(r) : m[j] = k
    OBVIOUS
  <2>1. /\ k = i => i + 1 \in 1 .. Len(r) /\ m[i + 1] = k
        /\ k = i + 1 => i \in 1 .. Len(r) /\ m[i] = k
        /\ k \notin {i, i + 1} => k \in 1 .. Len(r) /\ m[k] = k
    BY <1>1, <1>2
  <2>2. QED
    BY <2>1
<1>6. ~ Control(q[i]) /\ ~ Control(q[i + 1]) => InPlace(q, r, m)
  BY <1>1, <1>4, <1>5, Zenon DEF InPlace
<1>7. QED
  BY <1>3, <1>6

LEMMA LoseHarms ==
    ASSUME NEW q \in Seq(Packet), NEW i \in 1 .. Len(q)
    PROVE  Unharmed(q, RemoveAt(q, i), 1)
<1> DEFINE r == RemoveAt(q, i)
<1>1. /\ r \in Seq(Packet) /\ Len(r) = Len(q) - 1 /\ Len(q) \in Nat
      /\ \A j \in 1 .. Len(q) - 1 : r[j] = IF j < i THEN q[j] ELSE q[j + 1]
  BY Removed, LenProperties
<1> HIDE DEF r
<1>2. ASSUME NEW k \in 1 .. Len(q), k # i
      PROVE  q[k] \in ToSet(r)
  <2>1. \/ k \in 1 .. Len(r) /\ r[k] = q[k]
        \/ k - 1 \in 1 .. Len(r) /\ r[k - 1] = q[k]
    BY <1>1, <1>2
  <2>2. QED
    BY <1>1, <2>1, Contents
<1>3. \A d \in ToSet(q) : d = q[i] \/ d \in ToSet(r)
  BY <1>2, Contents
<1>4. Carries(q) \subseteq Carries(r) \cup {q[i].re}
  BY <1>3 DEF Carries
<1>5. QED
  BY <1>4 DEF Unharmed, r

LEMMA OvertakeHarms ==
    ASSUME NEW q \in Seq(Packet), NEW i \in 1 .. Len(q) - 1,
           NEW r, r = [q EXCEPT ![i] = q[i + 1], ![i + 1] = q[i]]
    PROVE  Unharmed(q, r, 0)
<1>1. /\ r \in Seq(Packet) /\ Len(r) = Len(q) /\ Len(q) \in Nat
      /\ r[i] = q[i + 1] /\ r[i + 1] = q[i]
      /\ \A j \in 1 .. Len(q) : j \notin {i, i + 1} => r[j] = q[j]
  BY Swapped, LenProperties
<1>2. i \in 1 .. Len(q) /\ i + 1 \in 1 .. Len(q)
  BY <1>1
<1>3. ASSUME NEW k \in 1 .. Len(q)
      PROVE  q[k] \in ToSet(r) /\ r[k] \in ToSet(q)
  BY <1>1, <1>2, Contents
<1>4. ToSet(q) = ToSet(r)
  <2>1. \A d \in ToSet(q) : \E k \in 1 .. Len(q) : q[k] = d
    BY Contents
  <2>2. \A d \in ToSet(r) : \E k \in 1 .. Len(q) : r[k] = d
    BY <1>1, Contents
  <2>3. \A d \in ToSet(q) : d \in ToSet(r)
    BY <1>3, <2>1
  <2>4. \A d \in ToSet(r) : d \in ToSet(q)
    BY <1>3, <2>2
  <2>5. QED
    BY <2>3, <2>4
<1>5. Carries(q) = Carries(r)
  BY <1>4 DEF Carries
<1>6. QED
  BY <1>5 DEF Unharmed

Network(h) ==
    /\ UNCHANGED <<pc, cmd, asked, msg, fp, next, reply, written, spc, sfp,
                   remote, snext, outcome>>
    /\ \A g \in Host : g # h => inbox'[g] = inbox[g]
    /\ inbox' \in [Host -> Seq(Packet)]
    /\ faults' \in [lost : 0 .. MaxLost, overtaken : 0 .. MaxOvertaken, control : BOOLEAN]
    /\ faults.control => faults'.control
    /\ \E m : /\ From(inbox[h], inbox'[h], m)
              /\ ~ faults'.control => InPlace(inbox[h], inbox'[h], m)
    /\ \E n \in {0, 1} : /\ faults'.lost = faults.lost + n
                         /\ Unharmed(inbox[h], inbox'[h], n)

LEMMA NetworkSteps ==
    ASSUME TypesHold, NEW h \in Host, Lose(h) \/ Overtake(h)
    PROVE  Network(h)
<1>1. inbox \in [Host -> Seq(Packet)] /\ inbox[h] \in Seq(Packet)
      /\ faults \in [lost : 0 .. MaxLost, overtaken : 0 .. MaxOvertaken, control : BOOLEAN]
      /\ MaxLost \in Nat /\ MaxOvertaken \in Nat
  BY SessionAssumption DEF TypesHold, Queues, ServerTypes
<1>2. \A d : Control(d) \in BOOLEAN
  BY DEF Control, Eof
<1>3. CASE Lose(h)
  <2>1. PICK i \in 1 .. Len(inbox[h]) :
            /\ inbox' = [inbox EXCEPT ![h] = RemoveAt(@, i)]
            /\ faults' = [faults EXCEPT !.lost = @ + 1,
                              !.control = @ \/ Control(inbox[h][i])]
    BY <1>3, Zenon DEF Lose
  <2> DEFINE r == RemoveAt(inbox[h], i)
  <2>2. r \in Seq(Packet)
    BY <1>1, Removed
  <2>3. /\ \E m : From(inbox[h], r, m) /\ (~ Control(inbox[h][i]) => InPlace(inbox[h], r, m))
        /\ Unharmed(inbox[h], r, 1)
    BY <1>1, LoseKeeps, LoseHarms, Zenon
  <2>4. /\ inbox' \in [Host -> Seq(Packet)] /\ inbox'[h] = r
        /\ \A g \in Host : g # h => inbox'[g] = inbox[g]
    BY <1>1, <2>1, <2>2
  <2> HIDE DEF r
  <2>5. faults' = [lost |-> faults.lost + 1, overtaken |-> faults.overtaken,
                   control |-> faults.control \/ Control(inbox[h][i])]
    BY <1>1, <2>1
  <2>6. faults.lost + 1 \in 0 .. MaxLost
    <3>1. faults.lost < MaxLost
      BY <1>3, Zenon DEF Lose
    <3>2. QED
      BY <1>1, <3>1
  <2>7. (faults.control \/ Control(inbox[h][i])) \in BOOLEAN
    BY <1>1, <1>2
  <2>8. faults' \in [lost : 0 .. MaxLost, overtaken : 0 .. MaxOvertaken, control : BOOLEAN]
    BY <1>1, <2>5, <2>6, <2>7
  <2>9. /\ faults'.lost = faults.lost + 1 /\ (faults.control => faults'.control)
        /\ Control(inbox[h][i]) => faults'.control
    BY <2>5
  <2>10. 1 \in {0, 1}
    OBVIOUS
  <2>11. QED
    BY <1>3, <2>3, <2>4, <2>8, <2>9, <2>10, Zenon DEF Network, Lose
<1>4. CASE Overtake(h)
  <2>1. PICK i \in 1 .. Len(inbox[h]) - 1 :
            /\ inbox' = [inbox EXCEPT ![h] =
                   [@ EXCEPT ![i] = inbox[h][i + 1], ![i + 1] = inbox[h][i]]]
            /\ faults' = [faults EXCEPT !.overtaken = @ + 1,
                   !.control = @ \/ Control(inbox[h][i]) \/ Control(inbox[h][i + 1])]
    BY <1>4, Zenon DEF Overtake
  <2> DEFINE r == [inbox[h] EXCEPT ![i] = inbox[h][i + 1], ![i + 1] = inbox[h][i]]
  <2>2. r \in Seq(Packet)
    BY <1>1, Swapped
  <2>3. /\ \E m : /\ From(inbox[h], r, m)
                  /\ ~ Control(inbox[h][i]) /\ ~ Control(inbox[h][i + 1])
                         => InPlace(inbox[h], r, m)
        /\ Unharmed(inbox[h], r, 0)
    BY <1>1, OvertakeKeeps, OvertakeHarms, Zenon
  <2>4. /\ inbox' \in [Host -> Seq(Packet)] /\ inbox'[h] = r
        /\ \A g \in Host : g # h => inbox'[g] = inbox[g]
    BY <1>1, <2>1, <2>2
  <2> HIDE DEF r
  <2>5. faults' = [lost |-> faults.lost, overtaken |-> faults.overtaken + 1,
                   control |-> faults.control \/ Control(inbox[h][i])
                                   \/ Control(inbox[h][i + 1])]
    BY <1>1, <2>1
  <2>6. faults.overtaken + 1 \in 0 .. MaxOvertaken
    <3>1. faults.overtaken < MaxOvertaken
      BY <1>4, Zenon DEF Overtake
    <3>2. QED
      BY <1>1, <3>1
  <2>7. (faults.control \/ Control(inbox[h][i]) \/ Control(inbox[h][i + 1])) \in BOOLEAN
    BY <1>1, <1>2
  <2>8. faults' \in [lost : 0 .. MaxLost, overtaken : 0 .. MaxOvertaken, control : BOOLEAN]
    BY <1>1, <2>5, <2>6, <2>7
  <2>9. /\ faults'.lost = faults.lost + 0 /\ (faults.control => faults'.control)
        /\ Control(inbox[h][i]) \/ Control(inbox[h][i + 1]) => faults'.control
    <3>1. faults'.lost = faults.lost /\ faults.lost = faults.lost + 0
      BY <1>1, <2>5
    <3>2. faults'.control = (faults.control \/ Control(inbox[h][i])
                                           \/ Control(inbox[h][i + 1]))
      BY <2>5
    <3>3. QED
      BY <3>1, <3>2, Zenon
  <2>10. 0 \in {0, 1}
    OBVIOUS
  <2>11. QED
    BY <1>4, <2>3, <2>4, <2>8, <2>9, <2>10, Zenon DEF Network, Overtake
<1>5. QED
  BY <1>3, <1>4

LEMMA NetworkTypes ==
    ASSUME TypesHold, NEW h \in Host, Network(h)
    PROVE  TypesHold'
<1>1. PICK m : From(inbox[h], inbox'[h], m)
  BY DEF Network
<1>2. \A g \in Host : \A d \in ToSet(inbox'[g]) : Fits(g, d)
  <2>1. \A g \in Host : ToSet(inbox'[g]) \subseteq ToSet(inbox[g])
    BY <1>1 DEF Network, From
  <2>2. QED
    BY <2>1 DEF TypesHold, Queues
<1>3. Queues(inbox)'
  BY <1>2 DEF Queues, Network
<1>4. ClientTypes' /\ FileTypes'
  BY DEF TypesHold, ClientTypes, FileTypes, Network
<1>5. ServerTypes'
  BY DEF TypesHold, ServerTypes, Network
<1>6. QED
  BY <1>3, <1>4, <1>5 DEF TypesHold

LEMMA TypesInit == Init => TypesHold
<1> SUFFICES ASSUME Init PROVE TypesHold
  OBVIOUS
<1>1. Message(Server, MSG_RESP, NoFile, FALSE, 0) \in Packet
  <2>1. MSG_RESP \in 0 .. PUT_START /\ MSG_RESP \notin {CMD_GET, CMD_PUT}
    BY DEF MSG_RESP, PUT_START, CMD_GET, CMD_PUT
  <2>2. QED
    BY <2>1, HostFacts DEF Message, Packet
<1>2. ClientTypes
  <2>1. 1 \in 1 .. Packets + 1 /\ 0 \in 0 .. MaxCommands
    BY SessionAssumption, PacketsFact
  <2>2. NoCommand \in Commands \cup {NoCommand}
    OBVIOUS
  <2>3. QED
    BY <1>1, <2>1, <2>2 DEF Init, ClientTypes
<1>3. ServerTypes
  BY SessionAssumption, PacketsFact DEF Init, ServerTypes
<1>4. FileTypes
  BY DEF Init, FileTypes
<1>5. Queues(inbox)
  <2>1. <<>> \in Seq(Packet) /\ ToSet(<<>>) = {}
    BY EmptySeq, Contents
  <2>2. QED
    BY <2>1 DEF Init, Queues
<1>6. QED
  BY <1>2, <1>3, <1>4, <1>5 DEF TypesHold

LEMMA TypesStep == TypesHold /\ [Next]_vars => TypesHold'
<1> SUFFICES ASSUME TypesHold, [Next]_vars PROVE TypesHold'
  OBVIOUS
<1>1. CASE \E c \in Client : Command(c) \/ ClientStep(c)
  BY <1>1, CommandTypes, ReplyTypes, ClientReceivesTypes, ClientSendsTypes DEF ClientStep
<1>2. CASE ServerStep
  BY <1>2, ServerCommandTypes, ServerSendsTypes, ServerReceivesTypes DEF ServerStep
<1>3. CASE \E h \in Host : Lose(h) \/ Overtake(h)
  BY <1>3, NetworkSteps, NetworkTypes
<1>4. CASE UNCHANGED vars
  BY <1>4 DEF vars, TypesHold, ClientTypes, ServerTypes, FileTypes, Queues
<1>5. QED
  BY <1>1, <1>2, <1>3, <1>4 DEF Next

\* Whatever the network loses or delivers out of order, and however many
\* clients there are, the variables have their types and no transfer sends
\* more packets than it has: main of client.c and of server.c, send_file.
THEOREM UdpTypeOK == Spec => []TypeOK
<1>1. Spec => []TypesHold
  BY TypesInit, TypesStep, PTL DEF Spec
<1>2. TypesHold => TypeOK
  BY TypesSplit, Zenon DEF TypesHold
<1>3. QED
  BY <1>1, <1>2, PTL

-----------------------------------------------------------------------------
(* Each action keeps both sides in step.                                   *)

LEMMA QueueFacts ==
    ASSUME TypesHold
    PROVE  /\ \A h \in Host : inbox[h] \in Seq(Packet)
           /\ \A d \in ToSet(inbox[Server]) :
                  d \in Packet /\ d.kind \in {"msg", "data"} /\ d.from \in Client
           /\ \A c \in Client : inbox[c] = <<>> <=> ToSet(inbox[c]) = {}
<1>1. \A h \in Host : inbox[h] \in Seq(Packet)
  BY DEF TypesHold, Queues
<1>2. \A d \in ToSet(inbox[Server]) : d \in Packet /\ d.from \in Client
  BY HostFacts DEF TypesHold, Queues, Fits
<1>3. \A d \in Packet : d.kind \in {"msg", "data"}
  BY DEF Packet
<1>4. QED
  BY <1>1, <1>2, <1>3, Contents, HostFacts

LEMMA PostIs ==
    ASSUME TypesHold, NEW h \in Host, NEW d \in Packet, inbox' = Post(h, d)
    PROVE  /\ inbox'[h] = Append(inbox[h], d) /\ inbox'[h] # <<>>
           /\ ToSet(inbox'[h]) = ToSet(inbox[h]) \cup {d}
           /\ Head(inbox'[h]) = IF inbox[h] = <<>> THEN d ELSE Head(inbox[h])
           /\ \A g \in Host : g # h => inbox'[g] = inbox[g]
<1>1. inbox \in [Host -> Seq(Packet)] /\ inbox[h] \in Seq(Packet)
  BY DEF TypesHold, Queues
<1>2. /\ inbox'[h] = Append(inbox[h], d)
      /\ \A g \in Host : g # h => inbox'[g] = inbox[g]
  BY <1>1 DEF Post
<1>3. QED
  BY <1>1, <1>2, Posted

LEMMA TakeIs ==
    ASSUME TypesHold, NEW h \in Host, inbox[h] # <<>>, inbox' = Take(h)
    PROVE  /\ inbox'[h] = Tail(inbox[h]) /\ Head(inbox[h]) \in Packet
           /\ ToSet(inbox[h]) = {Head(inbox[h])} \cup ToSet(inbox'[h])
           /\ \A g \in Host : g # h => inbox'[g] = inbox[g]
<1>1. inbox \in [Host -> Seq(Packet)] /\ inbox[h] \in Seq(Packet)
  BY DEF TypesHold, Queues
<1>2. /\ inbox'[h] = Tail(inbox[h])
      /\ \A g \in Host : g # h => inbox'[g] = inbox[g]
  BY <1>1 DEF Take
<1>3. QED
  BY <1>1, <1>2, Taken

LEMMA AnswerIs ==
    ASSUME TypesHold, inbox[Server] # <<>>, NEW type \in {GET_START, PUT_START, MSG_RESP},
           NEW d, d = Head(inbox[Server]), Answers(d, type)
    PROVE  LET m == Answer(d, type)
           IN  /\ d.from \in Client /\ d \in Packet /\ m \in Packet
               /\ inbox'[Server] = Tail(inbox[Server])
               /\ ToSet(inbox[Server]) = {d} \cup ToSet(inbox'[Server])
               /\ inbox'[d.from] = Append(inbox[d.from], m) /\ inbox'[d.from] # <<>>
               /\ Head(inbox'[d.from]) = IF inbox[d.from] = <<>> THEN m
                                         ELSE Head(inbox[d.from])
               /\ \A g \in Client : g # d.from => inbox'[g] = inbox[g]
<1> DEFINE m == Answer(d, type)
<1>1. inbox \in [Host -> Seq(Packet)] /\ inbox[Server] \in Seq(Packet)
  BY HostFacts DEF TypesHold, Queues
<1>2. d \in ToSet(inbox[Server])
  BY <1>1, Contents
<1>3. /\ d.from \in Client /\ d.from \in Host /\ d.from # Server /\ d \in Packet
  BY <1>2, HostFacts, QueueFacts
<1>4. m \in Packet
  <2>1. type \in 0 .. PUT_START /\ (type = MSG_RESP) \in BOOLEAN
    BY DEF GET_START, PUT_START, MSG_RESP
  <2>2. QED
    BY <1>3, <2>1, HostFacts DEF Answer, Message, Packet
<1> HIDE DEF m
<1>5. /\ inbox'[Server] = Tail(inbox[Server])
      /\ inbox'[d.from] = Append(inbox[d.from], m)
      /\ \A g \in Client : g # d.from => inbox'[g] = inbox[g]
  BY <1>1, <1>3, HostFacts DEF Answers, Take, m
<1>6. ToSet(inbox[Server]) = {d} \cup ToSet(inbox'[Server])
  BY <1>1, <1>5, Taken
<1>7. /\ inbox'[d.from] # <<>>
      /\ Head(inbox'[d.from]) = IF inbox[d.from] = <<>> THEN m ELSE Head(inbox[d.from])
  BY <1>1, <1>3, <1>4, <1>5, Posted
<1>8. QED
  BY <1>3, <1>4, <1>5, <1>6, <1>7 DEF m

LEMMA CommandIs ==
    ASSUME TypesHold, NEW c \in Client, Command(c)
    PROVE  \E k \in Commands : \E m \in Packet :
           /\ m.from = c /\ m.kind = "msg" /\ m.type = k.type /\ m.file = k.file
           /\ m.re = asked[c] + 1
           /\ cmd'[c] = k /\ fp'[c] = k.file /\ asked'[c] = asked[c] + 1
           /\ pc[c] = "prompt" /\ pc'[c] = "waiting" /\ inbox' = Post(Server, m)
           /\ written' = IF k.type = CMD_GET THEN [written EXCEPT ![c] = {}] ELSE written
           /\ \A d \in Client : d # c => /\ cmd'[d] = cmd[d] /\ fp'[d] = fp[d]
                                         /\ pc'[d] = pc[d] /\ asked'[d] = asked[d]
           /\ UNCHANGED <<next, reply, outcome, spc, sfp, remote, snext, faults>>
<1>1. PICK k \in Commands :
          /\ cmd' = [cmd EXCEPT ![c] = k]
          /\ fp' = [fp EXCEPT ![c] = k.file]
          /\ msg' = [msg EXCEPT ![c] = @ \/ k.type \notin {CMD_LS, CMD_EXIT}]
          /\ written' = IF k.type = CMD_GET THEN [written EXCEPT ![c] = {}] ELSE written
          /\ inbox' = Post(Server, Message(c, k.type, k.file, msg'[c], asked[c] + 1))
  BY Zenon DEF Command
<1>2. /\ pc[c] = "prompt" /\ pc' = [pc EXCEPT ![c] = "waiting"]
      /\ asked' = [asked EXCEPT ![c] = @ + 1]
      /\ UNCHANGED <<next, reply, outcome, spc, sfp, remote, snext, faults>>
  BY DEF Command, ClientOnly
<1>3. k.type \in 0 .. PUT_START /\ k.file \in Files \cup {NoFile}
  BY DEF Commands, CMD_LS, CMD_GET, CMD_PUT, CMD_EXIT, CMD_UND, PUT_START
<1>4. asked[c] + 1 \in Nat /\ c \in Host
  BY SessionAssumption, HostFacts DEF TypesHold, ClientTypes
<1>5. msg'[c] \in BOOLEAN
  <2>1. (msg[c] \/ k.type \notin {CMD_LS, CMD_EXIT}) \in BOOLEAN
    OBVIOUS
  <2>2. QED
    BY <1>1, <2>1, Zenon DEF TypesHold, ClientTypes
<1> DEFINE m == Message(c, k.type, k.file, msg'[c], asked[c] + 1)
<1>6. /\ m.from = c /\ m.kind = "msg" /\ m.type = k.type /\ m.file = k.file
      /\ m.re = asked[c] + 1 /\ m \in Packet
  BY <1>3, <1>4, <1>5 DEF Message, Packet
<1>7. inbox' = Post(Server, m)
  BY <1>1
<1> HIDE DEF m
<1>8. /\ cmd'[c] = k /\ fp'[c] = k.file /\ pc'[c] = "waiting" /\ asked'[c] = asked[c] + 1
      /\ \A d \in Client : d # c => /\ cmd'[d] = cmd[d] /\ fp'[d] = fp[d]
                                    /\ pc'[d] = pc[d] /\ asked'[d] = asked[d]
  BY <1>1, <1>2 DEF TypesHold, ClientTypes
<1>9. QED
  BY <1>1, <1>2, <1>6, <1>7, <1>8

LEMMA CommandInStep ==
    ASSUME TypesHold, InStep, NEW c \in Client, Command(c)
    PROVE  InStep'
<1>1. PICK k \in Commands, m \in Packet :
          /\ m.from = c /\ m.kind = "msg" /\ m.type = k.type /\ m.file = k.file
          /\ m.re = asked[c] + 1
          /\ cmd'[c] = k /\ fp'[c] = k.file /\ asked'[c] = asked[c] + 1
          /\ pc[c] = "prompt" /\ pc'[c] = "waiting" /\ inbox' = Post(Server, m)
          /\ \A d \in Client : d # c => /\ cmd'[d] = cmd[d] /\ fp'[d] = fp[d]
                                        /\ pc'[d] = pc[d] /\ asked'[d] = asked[d]
          /\ UNCHANGED <<reply, spc, remote>>
  BY CommandIs
<1>2. /\ inbox'[Server] = Append(inbox[Server], m)
      /\ ToSet(inbox'[Server]) = ToSet(inbox[Server]) \cup {m}
      /\ \A d \in Client : inbox'[d] = inbox[d]
  BY <1>1, HostFacts, PostIs
<1>3. \A d \in Client : Served(d)' = Served(d)
  BY <1>1 DEF Served
<1>4. /\ inbox[c] = <<>> /\ ~ Served(c)
      /\ \A d \in ToSet(inbox[Server]) : d.from = c => d.kind = "data"
  <2>1. inbox[c] = <<>> /\ ~ Served(c)
    BY <1>1 DEF InStep, Answered
  <2>2. \A d \in ToSet(inbox[Server]) : d.from = c => d.kind # "msg"
    BY <1>1 DEF InStep, Commanded
  <2>3. QED
    BY <2>1, <2>2, QueueFacts
<1>5. Sorted(inbox[Server])'
  <2>1. inbox[Server] \in Seq(Packet) /\ Sorted(inbox[Server])
    BY QueueFacts, HostFacts DEF InStep
  <2>2. \A e \in ToSet(inbox[Server]) : e.from = m.from =>
            e.kind = "data" /\ (Eof(e) => m.kind = "msg")
    BY <1>1, <1>4
  <2>3. Sorted(Append(inbox[Server], m))
    BY <2>1, <2>2, PostedOrder
  <2>4. QED
    BY <1>2, <2>3 DEF Sorted
<1>6. Commanded'
  BY <1>1, <1>2, <1>3, <1>4, QueueFacts DEF InStep, Commanded
<1>7. \A d \in Client : Answered(d)'
  <2>1. \A d \in Client : d # c => Answered(d)'
    BY <1>1, <1>2, <1>3 DEF InStep, Answered
  <2>2. Answered(c)'
    BY <1>1, <1>2, <1>3, <1>4 DEF InStep, Answered
  <2>3. QED
    BY <2>1, <2>2
<1>8. \A d \in Client : Uploads(d)' => Uploads(d)
  BY <1>1, <1>2, <1>4 DEF Uploads
<1>9. OneUploads'
  BY <1>1, <1>2, <1>4, <1>8, QueueFacts DEF InStep, OneUploads
<1>10. \A d \in Client : Downloads(d)' => Downloads(d)
  BY <1>1, <1>2, <1>4 DEF Downloads
<1>11. \A d \in Client : Downloads(d)' => EndsWith(inbox[d], Served(d))'
  BY <1>2, <1>3, <1>10 DEF InStep
<1>12. QED
  BY <1>5, <1>6, <1>7, <1>9, <1>11 DEF InStep

LEMMA ReplyIs ==
    ASSUME TypesHold, NEW c \in Client, Reply(c)
    PROVE  LET d == Head(inbox[c]) IN
           /\ pc[c] = "waiting" /\ inbox[c] # <<>> /\ inbox' = Take(c) /\ d \in Packet
           /\ \/ d.type = GET_START /\ fp[c] # NoFile /\ pc'[c] = "receiving"
                     /\ fp'[c] = fp[c] /\ next'[c] = next[c]
              \/ d.type = PUT_START /\ fp[c] # NoFile /\ pc'[c] = "sending"
                     /\ fp'[c] = fp[c] /\ next'[c] = 1
              \/ (d.type \notin {GET_START, PUT_START} \/ fp[c] = NoFile)
                     /\ pc'[c] = "prompt" /\ next'[c] = next[c]
           /\ reply'[c] = d
           /\ \A e \in Client : e # c => /\ fp'[e] = fp[e] /\ pc'[e] = pc[e]
                                         /\ next'[e] = next[e] /\ reply'[e] = reply[e]
           /\ UNCHANGED <<cmd, asked, written, outcome, spc, sfp, remote, snext, faults>>
<1> DEFINE d == Head(inbox[c])
<1>1. /\ pc[c] = "waiting" /\ inbox[c] # <<>> /\ inbox' = Take(c)
      /\ reply' = [reply EXCEPT ![c] = d]
      /\ \/ /\ d.type = GET_START /\ fp[c] # NoFile
            /\ pc' = [pc EXCEPT ![c] = "receiving"] /\ UNCHANGED <<fp, next>>
         \/ /\ d.type = PUT_START /\ fp[c] # NoFile
            /\ pc' = [pc EXCEPT ![c] = "sending"]
            /\ next' = [next EXCEPT ![c] = 1] /\ UNCHANGED fp
         \/ /\ d.type \notin {GET_START, PUT_START} \/ fp[c] = NoFile
            /\ Closed(c) /\ UNCHANGED next
      /\ UNCHANGED <<cmd, asked, written, outcome, spc, sfp, remote, snext, faults>>
  BY DEF Reply, ClientOnly
<1>2. d \in Packet
  BY <1>1, HostFacts, TakeIs
<1> HIDE DEF d
<1>3. /\ reply'[c] = d
      /\ \A e \in Client : e # c => reply'[e] = reply[e]
  BY <1>1 DEF TypesHold, ClientTypes
<1>4. \/ /\ d.type = GET_START /\ fp[c] # NoFile /\ pc'[c] = "receiving"
         /\ fp'[c] = fp[c] /\ next'[c] = next[c]
      \/ /\ d.type = PUT_START /\ fp[c] # NoFile /\ pc'[c] = "sending"
         /\ fp'[c] = fp[c] /\ next'[c] = 1
      \/ /\ d.type \notin {GET_START, PUT_START} \/ fp[c] = NoFile
         /\ pc'[c] = "prompt" /\ next'[c] = next[c]
  BY <1>1 DEF TypesHold, ClientTypes, Closed
<1>5. \A e \in Client : e # c => fp'[e] = fp[e] /\ pc'[e] = pc[e] /\ next'[e] = next[e]
  BY <1>1 DEF TypesHold, ClientTypes, Closed
<1>6. QED
  BY <1>1, <1>2, <1>3, <1>4, <1>5 DEF d

LEMMA ReplyInStep ==
    ASSUME TypesHold, InStep, NEW c \in Client, Reply(c)
    PROVE  InStep'
<1> DEFINE d == Head(inbox[c])
<1>1. /\ pc[c] = "waiting" /\ inbox[c] # <<>> /\ inbox' = Take(c) /\ d \in Packet
      /\ \/ d.type = GET_START /\ fp[c] # NoFile /\ pc'[c] = "receiving" /\ fp'[c] = fp[c]
         \/ d.type = PUT_START /\ fp[c] # NoFile /\ pc'[c] = "sending" /\ fp'[c] = fp[c]
         \/ (d.type \notin {GET_START, PUT_START} \/ fp[c] = NoFile) /\ pc'[c] = "prompt"
      /\ reply'[c] = d
      /\ \A e \in Client : e # c => fp'[e] = fp[e] /\ pc'[e] = pc[e] /\ reply'[e] = reply[e]
      /\ UNCHANGED <<cmd, asked, spc, remote>>
  BY ReplyIs
<1>2. /\ inbox'[c] = Tail(inbox[c]) /\ inbox'[Server] = inbox[Server]
      /\ \A e \in Client : e # c => inbox'[e] = inbox[e]
  BY <1>1, TakeIs, HostFacts
<1>3. /\ d.kind = "msg" /\ d.re = asked[c]
      /\ \/ d.type = GET_START /\ cmd[c].type = CMD_GET /\ fp[c] # NoFile
         \/ /\ d.type \in {PUT_START, MSG_RESP}
            /\ d.type = PUT_START => cmd[c].type = CMD_PUT /\ fp[c] # NoFile
            /\ inbox'[c] = <<>> /\ ~ Served(c)
      /\ \A e \in ToSet(inbox'[c]) : e.kind = "data"
  BY <1>1, <1>2 DEF InStep, Answered
<1>4. /\ \/ d.type = GET_START /\ pc'[c] = "receiving" /\ cmd[c].type = CMD_GET
         \/ d.type = PUT_START /\ pc'[c] = "sending" /\ inbox'[c] = <<>> /\ ~ Served(c)
         \/ d.type = MSG_RESP /\ pc'[c] = "prompt" /\ inbox'[c] = <<>> /\ ~ Served(c)
      /\ GET_START # PUT_START /\ GET_START # MSG_RESP /\ MSG_RESP # PUT_START
  BY <1>1, <1>3 DEF GET_START, PUT_START, MSG_RESP
<1>5. \A e \in Client : Served(e)' = Served(e)
  BY <1>1 DEF Served
<1>6. Commanded'
  BY <1>1, <1>2, <1>5, QueueFacts DEF InStep, Commanded
<1>7. \A e \in Client : Answered(e)'
  <2>1. \A e \in Client : e # c => Answered(e)'
    BY <1>1, <1>2, <1>5 DEF InStep, Answered
  <2>2. fp[c] = cmd[c].file
    BY <1>1 DEF InStep, Answered
  <2>3. Answered(c)'
    BY <1>1, <1>2, <1>3, <1>4, <1>5 DEF Answered
  <2>4. QED
    BY <2>1, <2>3
<1>8. \A e \in Client : /\ Uploads(e)' => Uploads(e)
                        /\ Downloads(e)' => Downloads(e)
  BY <1>1, <1>2, <1>4 DEF Uploads, Downloads
<1>9. OneUploads'
  <2>1. \A e \in ToSet(inbox[Server]) : e.kind = "data" => e.from # c
    BY <1>1 DEF InStep, OneUploads
  <2>2. QED
    BY <1>1, <1>2, <1>8, <2>1, QueueFacts DEF InStep, OneUploads
<1>10. \A e \in Client : Downloads(e)' => EndsWith(inbox[e], Served(e))'
  <2>1. CASE pc'[c] = "receiving"
    <3>1. EndsWith(inbox[c], Served(c)) /\ ~ Eof(d) /\ Served(c) \in BOOLEAN
      BY <1>1, <1>3, <1>4, <2>1 DEF InStep, Downloads, Eof, Served
    <3>2. EndsWith(Tail(inbox[c]), Served(c))
      BY <1>1, <3>1, QueueFacts, HostFacts, TakenOrder
    <3>3. QED
      BY <1>1, <1>2, <1>5, <1>8, <3>2 DEF InStep
  <2>2. CASE pc'[c] # "receiving"
    <3>1. ~ Downloads(c)'
      BY <1>4, <2>2 DEF Downloads
    <3>2. QED
      BY <1>2, <1>5, <1>8, <3>1 DEF InStep
  <2>3. QED
    BY <2>1, <2>2
<1>11. QED
  BY <1>2, <1>6, <1>7, <1>9, <1>10 DEF InStep

LEMMA ClientReceivesIs ==
    ASSUME TypesHold, NEW c \in Client, ClientReceives(c)
    PROVE  LET d == Head(inbox[c]) IN
           /\ pc[c] = "receiving" /\ inbox[c] # <<>> /\ inbox' = Take(c) /\ d \in Packet
           /\ \/ /\ Eof(d) /\ pc'[c] = "prompt" /\ UNCHANGED written
                 /\ outcome' = outcome \cup {[host |-> c, from |-> Server,
                        file |-> fp[c], written |-> written[c]]}
              \/ /\ ~ Eof(d) /\ UNCHANGED <<pc, fp, outcome>>
                 /\ written' = IF cmd[c].type # CMD_GET THEN written
                               ELSE [written EXCEPT ![c] = @ \cup Writes(d)]
           /\ \A e \in Client : e # c => fp'[e] = fp[e] /\ pc'[e] = pc[e]
           /\ UNCHANGED <<cmd, asked, next, reply, spc, sfp, remote, snext, faults>>
<1> DEFINE d == Head(inbox[c])
<1>1. /\ pc[c] = "receiving" /\ inbox[c] # <<>> /\ inbox' = Take(c)
      /\ UNCHANGED <<cmd, asked, next, reply, spc, sfp, remote, snext, faults>>
      /\ IF Eof(d)
         THEN /\ Closed(c) /\ UNCHANGED written
              /\ outcome' = outcome \cup {[host |-> c, from |-> Server,
                     file |-> fp[c], written |-> written[c]]}
         ELSE /\ written' = IF cmd[c].type # CMD_GET THEN written
                            ELSE [written EXCEPT ![c] = @ \cup Writes(d)]
              /\ UNCHANGED <<pc, fp, outcome>>
  BY DEF ClientReceives, Ended, ClientOnly
<1>2. d \in Packet
  BY <1>1, HostFacts, TakeIs
<1> HIDE DEF d
<1>3. /\ Eof(d) => pc'[c] = "prompt"
      /\ \A e \in Client : e # c => fp'[e] = fp[e] /\ pc'[e] = pc[e]
  BY <1>1 DEF TypesHold, ClientTypes, Closed
<1>4. QED
  BY <1>1, <1>2, <1>3 DEF d

LEMMA ClientReceivesInStep ==
    ASSUME TypesHold, InStep, NEW c \in Client, ClientReceives(c)
    PROVE  InStep'
<1> DEFINE d == Head(inbox[c])
<1>1. /\ pc[c] = "receiving" /\ inbox[c] # <<>> /\ inbox' = Take(c) /\ d \in Packet
      /\ \/ Eof(d) /\ pc'[c] = "prompt"
         \/ ~ Eof(d) /\ UNCHANGED <<pc, fp>>
      /\ \A e \in Client : e # c => fp'[e] = fp[e] /\ pc'[e] = pc[e]
      /\ UNCHANGED <<cmd, asked, reply, spc, remote>>
  BY ClientReceivesIs
<1>2. /\ inbox'[c] = Tail(inbox[c]) /\ inbox'[Server] = inbox[Server]
      /\ ToSet(inbox[c]) = {d} \cup ToSet(inbox'[c])
      /\ \A e \in Client : e # c => inbox'[e] = inbox[e]
  BY <1>1, TakeIs, HostFacts
<1>3. \A e \in Client : Served(e)' = Served(e)
  BY <1>1 DEF Served
<1>4. EndsWith(inbox[c], Served(c)) /\ Served(c) \in BOOLEAN /\ inbox[c] \in Seq(Packet)
  BY <1>1, QueueFacts, HostFacts DEF InStep, Downloads, Served
<1>5. /\ ~ Eof(d) => EndsWith(inbox'[c], Served(c))
      /\ Eof(d) => ~ Served(c) /\ inbox'[c] = <<>>
  BY <1>1, <1>2, <1>4, TakenOrder
<1>6. Commanded'
  BY <1>1, <1>2, <1>3, QueueFacts DEF InStep, Commanded
<1>7. \A e \in Client : Answered(e)'
  <2>1. \A e \in Client : e # c => Answered(e)'
    BY <1>1, <1>2, <1>3 DEF InStep, Answered
  <2>2. Answered(c)
    BY DEF InStep
  <2>3. Answered(c)'
    BY <1>1, <1>2, <1>3, <1>5, <2>2 DEF Answered
  <2>4. QED
    BY <2>1, <2>3
<1>8. \A e \in Client : Uploads(e)' => Uploads(e)
  BY <1>1, <1>2 DEF Uploads
<1>9. OneUploads'
  BY <1>1, <1>2, <1>8, QueueFacts DEF InStep, OneUploads
<1>10. \A e \in Client : Downloads(e)' => EndsWith(inbox[e], Served(e))'
  <2>1. ASSUME NEW e \in Client, e # c, Downloads(e)'
        PROVE  EndsWith(inbox[e], Served(e))'
    <3>1. Downloads(e)
      BY <1>1, <1>2, <2>1 DEF Downloads
    <3>2. QED
      BY <1>2, <1>3, <2>1, <3>1 DEF InStep
  <2>2. Downloads(c)' => ~ Eof(d)
    BY <1>1 DEF Downloads
  <2>3. QED
    BY <1>3, <1>5, <2>1, <2>2
<1>11. QED
  BY <1>2, <1>6, <1>7, <1>9, <1>10 DEF InStep

LEMMA ClientSendsIs ==
    ASSUME TypesHold, NEW c \in Client, ClientSends(c)
    PROVE  LET m == Data(c, fp[c], next[c]) IN
           /\ pc[c] = "sending" /\ inbox' = Post(Server, m)
           /\ m \in Packet /\ m.from = c /\ m.kind = "data" /\ m.re = next[c]
           /\ m.file = fp[c] /\ fp[c] \in Files /\ (Eof(m) <=> next[c] = Packets)
           /\ next[c] \in 1 .. Packets /\ next'[c] = next[c] + 1
           /\ IF Eof(m) THEN pc'[c] = "prompt" ELSE pc'[c] = "sending" /\ fp'[c] = fp[c]
           /\ \A e \in Client : e # c => fp'[e] = fp[e] /\ pc'[e] = pc[e] /\ next'[e] = next[e]
           /\ UNCHANGED <<cmd, asked, reply, written, outcome, spc, sfp, remote, snext, faults>>
<1> DEFINE m == Data(c, fp[c], next[c])
<1>1. next[c] \in 1 .. Packets /\ fp[c] \in Files
  BY PacketsFact DEF TypesHold, ClientTypes, ClientSends
<1>2. m \in Packet
  BY <1>1, HostFacts, DataFits DEF Fits
<1>3. /\ m.from = c /\ m.kind = "data" /\ m.re = next[c] /\ m.file = fp[c]
      /\ Eof(m) <=> next[c] = Packets
  BY DEF Data, Eof
<1>4. /\ pc[c] = "sending" /\ inbox' = Post(Server, m)
      /\ next' = [next EXCEPT ![c] = @ + 1]
      /\ IF Eof(m) THEN Closed(c) ELSE UNCHANGED <<pc, fp>>
      /\ UNCHANGED <<cmd, asked, reply, written, outcome, spc, sfp, remote, snext, faults>>
  BY <1>3 DEF ClientSends, ClientOnly
<1> HIDE DEF m
<1>5. /\ next'[c] = next[c] + 1
      /\ \A e \in Client : e # c => next'[e] = next[e]
  BY <1>4 DEF TypesHold, ClientTypes
<1>6. /\ IF Eof(m) THEN pc'[c] = "prompt" ELSE pc'[c] = "sending" /\ fp'[c] = fp[c]
      /\ \A e \in Client : e # c => fp'[e] = fp[e] /\ pc'[e] = pc[e]
  BY <1>4 DEF TypesHold, ClientTypes, Closed
<1>7. QED
  BY <1>1, <1>2, <1>3, <1>4, <1>5, <1>6 DEF m

LEMMA ClientSendsInStep ==
    ASSUME TypesHold, InStep, NEW c \in Client, ClientSends(c)
    PROVE  InStep'
<1> DEFINE m == Data(c, fp[c], next[c])
<1>1. /\ pc[c] = "sending" /\ inbox' = Post(Server, m)
      /\ m \in Packet /\ m.from = c /\ m.kind = "data"
      /\ IF Eof(m) THEN pc'[c] = "prompt" ELSE pc'[c] = "sending" /\ fp'[c] = fp[c]
      /\ \A e \in Client : e # c => fp'[e] = fp[e] /\ pc'[e] = pc[e]
      /\ UNCHANGED <<cmd, asked, reply, spc, remote>>
  BY ClientSendsIs
<1> HIDE DEF m
<1>2. /\ inbox'[Server] = Append(inbox[Server], m)
      /\ ToSet(inbox'[Server]) = ToSet(inbox[Server]) \cup {m}
      /\ \A e \in Client : inbox'[e] = inbox[e]
  BY <1>1, HostFacts, PostIs
<1>3. \A e \in Client : Served(e)' = Served(e)
  BY <1>1 DEF Served
<1>4. \A e \in ToSet(inbox[Server]) : e.from = c => e.kind = "data" /\ ~ Eof(e)
  <2>1. \A e \in ToSet(inbox[Server]) : e.from = c => e.kind # "msg"
    BY <1>1 DEF InStep, Commanded
  <2>2. QED
    BY <1>1, <2>1, QueueFacts DEF InStep, OneUploads
<1>5. Sorted(inbox[Server])'
  <2>1. inbox[Server] \in Seq(Packet) /\ Sorted(inbox[Server])
    BY QueueFacts, HostFacts DEF InStep
  <2>2. Sorted(Append(inbox[Server], m))
    BY <1>1, <1>4, <2>1, PostedOrder
  <2>3. QED
    BY <1>2, <2>2 DEF Sorted
<1>6. Commanded'
  BY <1>1, <1>2, <1>3, <1>4, QueueFacts DEF InStep, Commanded
<1>7. \A e \in Client : Answered(e)'
  <2>1. \A e \in Client : e # c => Answered(e)'
    BY <1>1, <1>2, <1>3 DEF InStep, Answered
  <2>2. Answered(c)
    BY DEF InStep
  <2>3. Answered(c)'
    BY <1>1, <1>2, <1>3, <2>2 DEF Answered
  <2>4. QED
    BY <2>1, <2>3
<1>8. \A e \in Client : Uploads(e)' => Uploads(e)
  BY <1>1, <1>2 DEF Uploads
<1>9. OneUploads'
  <2>1. \A e \in Client : Uploads(e)' => spc' = "receiving"
    BY <1>1, <1>8 DEF InStep, OneUploads
  <2>2. \A e, f \in Client : Uploads(e)' /\ Uploads(f)' => e = f
    BY <1>8 DEF InStep, OneUploads
  <2>3. ASSUME NEW d \in ToSet(inbox'[Server]), d.kind = "data", d.from = c
        PROVE  /\ IF pc'[d.from] = "sending" THEN ~ Eof(d)
                  ELSE \E e \in ToSet(inbox'[Server]) : Eof(e) /\ e.from = d.from
               /\ pc'[d.from] # "waiting"
    BY <1>1, <1>2, <1>4, <2>3
  <2>4. ASSUME NEW d \in ToSet(inbox'[Server]), d.kind = "data", d.from # c
        PROVE  /\ IF pc'[d.from] = "sending" THEN ~ Eof(d)
                  ELSE \E e \in ToSet(inbox'[Server]) : Eof(e) /\ e.from = d.from
               /\ pc'[d.from] = "waiting" => inbox'[d.from] = <<>>
    BY <1>1, <1>2, <2>4, QueueFacts DEF InStep, OneUploads
  <2>5. QED
    BY <2>1, <2>2, <2>3, <2>4 DEF OneUploads
<1>10. \A e \in Client : Downloads(e)' => Downloads(e)
  BY <1>1, <1>2 DEF Downloads
<1>11. \A e \in Client : Downloads(e)' => EndsWith(inbox[e], Served(e))'
  BY <1>2, <1>3, <1>10 DEF InStep
<1>12. QED
  BY <1>5, <1>6, <1>7, <1>9, <1>11 DEF InStep

\* When the server is ready, nobody uploads; a client it serves downloads.
LEMMA NoneUploads ==
    ASSUME TypesHold, InStep, spc # "receiving"
    PROVE  /\ \A c \in Client : ~ Uploads(c)
           /\ \A d \in ToSet(inbox[Server]) : d.kind = "msg"
<1>1. \A c \in Client : ~ Uploads(c)
  BY DEF InStep, OneUploads
<1>2. QED
  BY <1>1, QueueFacts DEF Uploads

LEMMA ServedDownloads ==
    ASSUME InStep, NEW c \in Client, Served(c), TypesHold
    PROVE  Downloads(c) /\ (pc[c] = "receiving" \/ inbox[c] # <<>>)
<1>1. pc[c] \in {"prompt", "waiting", "receiving", "sending"}
  BY DEF TypesHold, ClientTypes
<1>2. Answered(c)
  BY DEF InStep
<1>3. QED
  BY <1>1, <1>2 DEF Answered, Downloads

LEMMA ServerCommandInStep ==
    ASSUME TypesHold, InStep, ServerCommand
    PROVE  InStep'
<1>0. PICK d \in Packet : d = Head(inbox[Server])
  BY HostFacts, ServerCommandIs, QueueFacts, Contents
<1> DEFINE c == d.from
<1>1. /\ spc = "ready" /\ inbox[Server] # <<>> /\ remote' = c
      /\ UNCHANGED <<pc, cmd, asked, fp, reply>>
      /\ \E type \in {GET_START, PUT_START, MSG_RESP} :
             /\ Answers(d, type)
             /\ \/ type = GET_START /\ d.type = CMD_GET /\ spc' = "sending"
                \/ type = PUT_START /\ d.type = CMD_PUT /\ spc' = "receiving"
                \/ type = MSG_RESP /\ spc' \in {"ready", "exited"}
  BY <1>0, ServerCommandIs DEF ServerOnly
<1>2. PICK type \in {GET_START, PUT_START, MSG_RESP} :
          /\ Answers(d, type)
          /\ \/ type = GET_START /\ d.type = CMD_GET /\ spc' = "sending"
             \/ type = PUT_START /\ d.type = CMD_PUT /\ spc' = "receiving"
             \/ type = MSG_RESP /\ spc' \in {"ready", "exited"}
  BY <1>1
<1> DEFINE m == Answer(d, type)
<1>3. /\ c \in Client /\ d \in Packet /\ m \in Packet
      /\ inbox'[Server] = Tail(inbox[Server])
      /\ ToSet(inbox[Server]) = {d} \cup ToSet(inbox'[Server])
      /\ inbox'[c] = Append(inbox[c], m) /\ inbox'[c] # <<>>
      /\ Head(inbox'[c]) = IF inbox[c] = <<>> THEN m ELSE Head(inbox[c])
      /\ \A e \in Client : e # c => inbox'[e] = inbox[e]
  <2>1. inbox[Server] # <<>>
    BY <1>1
  <2>2. QED
    BY <1>0, <1>2, <2>1, AnswerIs, Zenon
<1>4. d.type \in {CMD_GET, CMD_PUT} => d.file \in Files
  BY <1>0, <1>1, HostFacts, TakeFits DEF TypesHold, Fits
<1>5. /\ m.kind = "msg" /\ m.type = type /\ (d.kind = "msg" => m.re = d.re) /\ ~ Eof(m)
  BY DEF Answer, Message, Eof
<1> HIDE DEF m
<1>6. \A e \in ToSet(inbox[Server]) : e.kind = "msg"
  BY <1>1, NoneUploads
<1>7. /\ d.kind = "msg" /\ m.re = asked[c] /\ pc[c] = "waiting" /\ inbox[c] = <<>>
      /\ d.type = cmd[c].type /\ d.file = fp[c]
  BY <1>3, <1>5, <1>6 DEF InStep, Commanded
<1> HIDE DEF c
<1>8. inbox'[c] = Append(<<>>, m) /\ Head(inbox'[c]) = m /\ Tail(inbox'[c]) = <<>>
  <2>1. inbox'[c] = Append(<<>>, m) /\ Head(inbox'[c]) = m
    BY <1>3, <1>7
  <2>2. Tail(Append(<<>>, m)) = <<>>
    <3>1. <<>> \in Seq(Packet) /\ Len(<<>>) = 0
      BY EmptySeq
    <3>2. Append(<<>>, m) \in Seq(Packet) /\ Append(<<>>, m) # <<>>
          /\ Len(Append(<<>>, m)) = 1
      BY <1>3, <3>1, Posted
    <3>3. Tail(Append(<<>>, m)) \in Seq(Packet) /\ Len(Tail(Append(<<>>, m))) = 0
      BY <3>2, Taken
    <3>4. QED
      BY <3>3, Contents
  <2>3. QED
    BY <2>1, <2>2
<1>9. /\ Sorted(inbox[Server])'
      /\ \A e \in ToSet(inbox'[Server]) : e.from # c /\ e.kind = "msg"
  <2>1. inbox[Server] \in Seq(Packet) /\ Sorted(inbox[Server])
    BY QueueFacts, HostFacts DEF InStep
  <2>2. /\ Sorted(Tail(inbox[Server]))
        /\ \A e \in ToSet(Tail(inbox[Server])) : e.from = c => d.kind = "data"
    BY <1>1, <2>1, TakenOrder, <1>0 DEF c
  <2>3. QED
    BY <1>3, <1>6, <1>7, <2>2 DEF Sorted
<1>10. \A e \in Client : /\ ~ Served(e)
                         /\ Served(e)' <=> e = c /\ spc' = "sending"
  BY <1>1 DEF Served
<1>11. Commanded'
  BY <1>1, <1>3, <1>9, <1>10, QueueFacts DEF InStep, Commanded
<1>12. /\ type = GET_START => cmd[c].type = CMD_GET /\ fp[c] # NoFile
       /\ type = PUT_START => cmd[c].type = CMD_PUT /\ fp[c] # NoFile
       /\ type # GET_START => ~ Served(c)'
       /\ type = GET_START => Served(c)'
       /\ GET_START # PUT_START /\ GET_START # MSG_RESP /\ PUT_START # MSG_RESP
  <2>1. CMD_GET # CMD_PUT /\ GET_START # PUT_START /\ GET_START # MSG_RESP
        /\ PUT_START # MSG_RESP
    BY DEF CMD_GET, CMD_PUT, GET_START, PUT_START, MSG_RESP
  <2>2. QED
    BY <1>2, <1>3, <1>4, <1>7, <1>10, <2>1, HostFacts
<1>13. \A e \in Client : Answered(e)'
  <2>1. \A e \in Client : e # c => Answered(e)'
    BY <1>1, <1>3, <1>10 DEF InStep, Answered
  <2>2. fp[c] = cmd[c].file
    BY <1>3, <1>7 DEF InStep, Answered
  <2>3. \A e \in ToSet(Tail(inbox'[c])) : e.kind = "data"
    BY <1>8, EmptySeq, Contents
  <2>4. Answered(c)'
    BY <1>1, <1>3, <1>5, <1>7, <1>8, <1>12, <2>2, <2>3 DEF Answered
  <2>5. QED
    BY <2>1, <2>4
<1>14. OneUploads'
  <2>1. \A e \in Client : Uploads(e)' => e = c /\ type = PUT_START
    <3>1. \A e \in Client : ~ Uploads(e)
      BY <1>1, NoneUploads
    <3>2. QED
      BY <1>1, <1>3, <1>5, <1>7, <1>8, <1>9, <3>1 DEF Uploads
  <2>2. QED
    BY <1>2, <1>9, <1>12, <2>1 DEF OneUploads
<1>15. \A e \in Client : Downloads(e)' => EndsWith(inbox[e], Served(e))'
  <2>1. ASSUME NEW e \in Client, e # c, Downloads(e)'
        PROVE  EndsWith(inbox[e], Served(e))'
    <3>1. Downloads(e)
      BY <1>1, <1>3, <2>1 DEF Downloads
    <3>2. EndsWith(inbox[e], Served(e))
      BY <3>1 DEF InStep
    <3>3. QED
      BY <1>3, <1>10, <2>1, <3>2 DEF EndsWith
  <2>2. ASSUME Downloads(c)' PROVE EndsWith(inbox[c], Served(c))'
    <3>1. Served(c)'
      BY <1>1, <1>5, <1>7, <1>8, <1>12, <2>2 DEF Downloads
    <3>2. EndsWith(<<>>, TRUE)
      BY EmptySeq DEF EndsWith
    <3>3. EndsWith(Append(<<>>, m), TRUE)
      BY <1>3, <1>5, <3>2, EmptySeq, PostedOrder
    <3>4. QED
      BY <1>8, <3>1, <3>3 DEF EndsWith
  <2>3. QED
    BY <2>1, <2>2
<1>16. QED
  BY <1>9, <1>11, <1>13, <1>14, <1>15 DEF InStep

\* What follows the head, when a datagram is put behind it.
LEMMA PostedTail ==
    ASSUME NEW q \in Seq(Packet), NEW d \in Packet, q # <<>>
    PROVE  \A e \in ToSet(Tail(Append(q, d))) : e \in ToSet(Tail(q)) \/ e = d
<1> DEFINE r == Append(q, d)
           t == Tail(r)
           s == Tail(q)
<1>1. /\ r \in Seq(Packet) /\ r # <<>> /\ Len(r) = Len(q) + 1 /\ r[Len(q) + 1] = d
      /\ \A i \in 1 .. Len(q) : r[i] = q[i]
      /\ Len(q) \in Nat /\ Len(q) # 0
  BY Posted, Contents
<1> HIDE DEF r
<1>2. /\ t \in Seq(Packet) /\ Len(t) = Len(r) - 1
      /\ \A i \in 1 .. Len(r) - 1 : t[i] = r[i + 1]
      /\ s \in Seq(Packet) /\ Len(s) = Len(q) - 1
      /\ \A i \in 1 .. Len(q) - 1 : s[i] = q[i + 1]
  BY <1>1, Taken
<1> HIDE DEF t, s
<1>3. \A i \in 1 .. Len(t) : t[i] = d \/ (i \in 1 .. Len(s) /\ t[i] = s[i])
  BY <1>1, <1>2
<1>4. \A e \in ToSet(t) : e \in ToSet(s) \/ e = d
  <2> SUFFICES ASSUME NEW e \in ToSet(t) PROVE e \in ToSet(s) \/ e = d
    OBVIOUS
  <2>1. PICK i \in 1 .. Len(t) : t[i] = e
    BY <1>2, Contents
  <2>2. QED
    BY <1>2, <1>3, <2>1, Contents
<1>5. QED
  BY <1>4 DEF r, s, t

LEMMA ServerSendsIs ==
    ASSUME TypesHold, ServerSends
    PROVE  LET m == Data(Server, sfp, snext) IN
           /\ spc = "sending" /\ inbox' = Post(remote, m) /\ remote \in Client
           /\ m \in Packet /\ m.from = Server /\ m.kind = "data" /\ m.re = snext
           /\ m.file = sfp /\ sfp \in Files /\ (Eof(m) <=> snext = Packets)
           /\ snext \in 1 .. Packets /\ snext' = snext + 1
           /\ IF Eof(m) THEN spc' = "ready" ELSE spc' = "sending" /\ sfp' = sfp
           /\ UNCHANGED <<pc, cmd, asked, fp, next, reply, written, outcome, remote, faults>>
<1>1. snext \in 1 .. Packets /\ sfp \in Files /\ remote \in Client
  BY PacketsFact DEF TypesHold, ServerTypes, ServerSends
<1>2. Data(Server, sfp, snext) \in Packet
  BY <1>1, HostFacts, DataFits DEF Fits
<1>3. QED
  BY <1>1, <1>2 DEF ServerSends, ServerOnly, LastPacket, Data, Eof

LEMMA ServerSendsInStep ==
    ASSUME TypesHold, InStep, ServerSends
    PROVE  InStep'
<1>0. PICK m \in Packet, c \in Client : m = Data(Server, sfp, snext) /\ c = remote
  BY ServerSendsIs
<1>1. /\ spc = "sending" /\ inbox' = Post(c, m) /\ remote = c /\ remote' = c
      /\ m.from = Server /\ m.kind = "data"
      /\ IF Eof(m) THEN spc' = "ready" ELSE spc' = "sending"
      /\ UNCHANGED <<pc, cmd, asked, fp, reply>>
  BY <1>0, ServerSendsIs
<1>2. /\ inbox'[c] = Append(inbox[c], m) /\ inbox'[c] # <<>>
      /\ ToSet(inbox'[c]) = ToSet(inbox[c]) \cup {m}
      /\ Head(inbox'[c]) = IF inbox[c] = <<>> THEN m ELSE Head(inbox[c])
      /\ \A e \in Client : e # c => inbox'[e] = inbox[e]
      /\ inbox'[Server] = inbox[Server]
  BY <1>1, PostIs, HostFacts
<1>3. /\ Served(c) /\ \A e \in Client : e # c => ~ Served(e) /\ ~ Served(e)'
      /\ Served(c)' <=> ~ Eof(m)
  BY <1>1 DEF Served
<1>4. Downloads(c) /\ (pc[c] = "receiving" \/ (pc[c] = "waiting" /\ inbox[c] # <<>>))
  BY <1>3, ServedDownloads DEF Downloads
<1>5. /\ \A e \in Client : ~ Uploads(e)
      /\ \A d \in ToSet(inbox[Server]) : d.kind = "msg"
  BY <1>1, NoneUploads
<1>6. inbox[c] \in Seq(Packet)
  BY QueueFacts, HostFacts
<1>7. EndsWith(inbox[c], Served(c))'
  <2>1. EndsWith(inbox[c], TRUE)
    BY <1>3, <1>4 DEF InStep, EndsWith
  <2>2. EndsWith(Append(inbox[c], m), ~ Eof(m))
    BY <1>6, <2>1, PostedOrder
  <2>3. QED
    BY <1>2, <1>3, <2>2 DEF EndsWith
<1>8. Commanded'
  <2>1. \A d \in ToSet(inbox[Server]) : d.from # c
    BY <1>3, <1>5 DEF InStep, Commanded
  <2>2. QED
    BY <1>1, <1>2, <1>3, <2>1, QueueFacts DEF InStep, Commanded
<1>9. \A e \in Client : Answered(e)'
  <2>1. \A e \in Client : e # c => Answered(e)'
    BY <1>1, <1>2, <1>3 DEF InStep, Answered
  <2>2. Answered(c)
    BY DEF InStep
  <2>3. inbox[c] # <<>> => \A e \in ToSet(Tail(inbox'[c])) : e \in ToSet(Tail(inbox[c])) \/ e = m
    BY <1>2, <1>6, PostedTail
  <2>4. ASSUME pc[c] = "waiting" PROVE Answered(c)'
    <3>1. /\ Head(inbox[c]).kind = "msg" /\ Head(inbox[c]).re = asked[c]
          /\ Head(inbox[c]).type = GET_START /\ cmd[c].type = CMD_GET /\ fp[c] # NoFile
          /\ \A e \in ToSet(Tail(inbox[c])) : e.kind = "data"
          /\ fp[c] = cmd[c].file /\ inbox[c] # <<>>
      BY <1>3, <1>4, <2>2, <2>4 DEF Answered
    <3>2. /\ Head(inbox'[c]) = Head(inbox[c])
          /\ \A e \in ToSet(Tail(inbox'[c])) : e.kind = "data"
      BY <1>1, <1>2, <2>3, <3>1
    <3>3. QED
      BY <1>1, <1>2, <2>4, <3>1, <3>2 DEF Answered
  <2>5. ASSUME pc[c] = "receiving" PROVE Answered(c)'
    <3>1. /\ cmd[c].type = CMD_GET /\ \A d \in ToSet(inbox[c]) : d.kind = "data"
          /\ asked[c] > 0 => reply[c].kind = "msg" /\ reply[c].re = asked[c]
      BY <2>2, <2>5 DEF Answered
    <3>2. QED
      BY <1>1, <1>2, <2>5, <3>1 DEF Answered
  <2>6. QED
    BY <1>4, <2>1, <2>4, <2>5
<1>10. OneUploads'
  <2>1. \A e \in Client : ~ Uploads(e)'
    <3>1. Answered(c) /\ ~ Uploads(c)
      BY <1>5 DEF InStep
    <3>2. ~ Uploads(c)'
      BY <1>1, <1>2, <1>4, <1>5, <3>1 DEF Uploads
    <3>3. QED
      BY <1>1, <1>2, <1>5, <3>2 DEF Uploads
  <2>2. QED
    BY <1>2, <1>5, <2>1 DEF OneUploads
<1>11. \A e \in Client : Downloads(e)' => EndsWith(inbox[e], Served(e))'
  <2>1. \A e \in Client : e # c /\ Downloads(e)' => Downloads(e)
    BY <1>1, <1>2 DEF Downloads
  <2>2. ASSUME NEW e \in Client, e # c, Downloads(e)'
        PROVE  EndsWith(inbox[e], Served(e))'
    <3>1. EndsWith(inbox[e], Served(e))
      BY <2>1, <2>2 DEF InStep
    <3>2. QED
      BY <1>2, <1>3, <2>2, <3>1 DEF EndsWith
  <2>3. QED
    BY <1>7, <2>2
<1>12. QED
  BY <1>2, <1>8, <1>9, <1>10, <1>11 DEF InStep

LEMMA ServerReceivesIs ==
    ASSUME TypesHold, ServerReceives
    PROVE  LET d == Head(inbox[Server]) IN
           /\ spc = "receiving" /\ inbox[Server] # <<>> /\ inbox' = Take(Server)
           /\ d \in Packet /\ d.from \in Client /\ d.kind \in {"msg", "data"}
           /\ remote' = d.from
           /\ \/ /\ Eof(d) /\ spc' = "ready" /\ UNCHANGED written
                 /\ outcome' = outcome \cup {[host |-> Server, from |-> d.from,
                        file |-> sfp, written |-> written[Server]]}
              \/ /\ ~ Eof(d) /\ UNCHANGED <<spc, sfp, outcome>>
                 /\ written' = [written EXCEPT ![Server] = @ \cup Writes(d)]
           /\ UNCHANGED <<pc, cmd, asked, fp, next, reply, snext, faults>>
<1>1. inbox[Server] # <<>> /\ Head(inbox[Server]) \in ToSet(inbox[Server])
  BY HostFacts, QueueFacts, Contents DEF ServerReceives
<1>2. QED
  BY <1>1, QueueFacts DEF ServerReceives, Ended, ServerOnly

LEMMA ServerReceivesInStep ==
    ASSUME TypesHold, InStep, ServerReceives
    PROVE  InStep'
<1>0. PICK d \in Packet, c \in Client : d = Head(inbox[Server]) /\ c = d.from
  BY ServerReceivesIs
<1>1. /\ spc = "receiving" /\ inbox[Server] # <<>> /\ inbox' = Take(Server)
      /\ \/ Eof(d) /\ spc' = "ready"
         \/ ~ Eof(d) /\ spc' = "receiving"
      /\ UNCHANGED <<pc, cmd, asked, fp, reply>>
  BY <1>0, ServerReceivesIs
<1>2. /\ inbox'[Server] = Tail(inbox[Server])
      /\ ToSet(inbox[Server]) = {d} \cup ToSet(inbox'[Server])
      /\ \A e \in Client : inbox'[e] = inbox[e]
  BY <1>0, <1>1, TakeIs, HostFacts
<1>3. \A e \in Client : ~ Served(e) /\ ~ Served(e)'
  BY <1>1 DEF Served
<1>4. /\ Sorted(inbox'[Server])
      /\ \A e \in ToSet(inbox'[Server]) : e.from = c /\ Eof(d) => e.kind = "msg"
  <2>1. inbox[Server] \in Seq(Packet) /\ Sorted(inbox[Server])
    BY QueueFacts, HostFacts DEF InStep
  <2>2. QED
    BY <1>0, <1>1, <1>2, <2>1, TakenOrder
<1>5. Commanded'
  BY <1>1, <1>2, <1>3, QueueFacts DEF InStep, Commanded
<1>6. \A e \in Client : Answered(e)'
  BY <1>1, <1>2, <1>3 DEF InStep, Answered
<1>7. \A e \in Client : Uploads(e)' => Uploads(e)
  BY <1>1, <1>2 DEF Uploads
<1>8. Eof(d) => \A e \in Client : ~ Uploads(e)'
  <2> SUFFICES ASSUME Eof(d), NEW e \in Client PROVE ~ Uploads(e)'
    OBVIOUS
  <2>1. d.kind = "data" /\ Uploads(c)
    BY <1>0, <1>2 DEF Uploads, Eof
  <2>2. e # c => ~ Uploads(e)
    BY <2>1 DEF InStep, OneUploads
  <2>3. pc[c] # "sending" /\ (pc[c] = "waiting" => inbox[c] = <<>>)
    BY <1>0, <1>2, <2>1 DEF InStep, OneUploads
  <2>4. ~ Uploads(c)'
    BY <1>1, <1>2, <1>4, <2>3 DEF Uploads
  <2>5. QED
    BY <1>7, <2>2, <2>4
<1>9. OneUploads'
  <2>1. CASE Eof(d)
    <3>1. \A e \in ToSet(inbox'[Server]) : e.kind # "data"
      BY <1>2, <1>8, <2>1, QueueFacts DEF Uploads
    <3>2. QED
      BY <1>8, <2>1, <3>1 DEF OneUploads
  <2>2. CASE ~ Eof(d)
    BY <1>1, <1>2, <1>7, <2>2, QueueFacts DEF InStep, OneUploads
  <2>3. QED
    BY <2>1, <2>2
<1>10. \A e \in Client : Downloads(e)' => EndsWith(inbox[e], Served(e))'
  <2>1. \A e \in Client : Downloads(e)' => Downloads(e)
    BY <1>1, <1>2 DEF Downloads
  <2>2. \A e \in Client : Downloads(e) => EndsWith(inbox[e], FALSE)
    BY <1>3 DEF InStep, EndsWith
  <2>3. QED
    BY <1>2, <1>3, <2>1, <2>2 DEF EndsWith
<1>11. QED
  BY <1>4, <1>5, <1>6, <1>9, <1>10 DEF InStep

\* A queue whose messages and ends of files are in place stays sorted, its
\* first message first and its end-of-file last.
Keeps(q, r) ==
    /\ Sorted(q) => Sorted(r)
    /\ \A more \in BOOLEAN : EndsWith(q, more) => EndsWith(r, more)
    /\ q # <<>> /\ Control(Head(q)) =>
           /\ r # <<>> /\ Head(r) = Head(q)
           /\ \A e \in ToSet(Tail(r)) : e \in ToSet(Tail(q))
    /\ q = <<>> => r = <<>>
    /\ \A d \in ToSet(q) : Control(d) => d \in ToSet(r)
    /\ \A d \in ToSet(r) : d \in ToSet(q)

LEMMA InPlaceKeeps ==
    ASSUME NEW q \in Seq(Packet), NEW r, NEW m, From(q, r, m), InPlace(q, r, m)
    PROVE  Keeps(q, r)
<1>1. /\ r \in Seq(Packet) /\ m \in [1 .. Len(r) -> 1 .. Len(q)]
      /\ \A j \in 1 .. Len(r) : m[j] \in 1 .. Len(q) /\ r[j] = q[m[j]]
      /\ Len(q) \in Nat /\ Len(r) \in Nat
      /\ q = <<>> <=> Len(q) = 0
      /\ r = <<>> <=> Len(r) = 0
  <2>1. r \in Seq(Packet) /\ m \in [1 .. Len(r) -> 1 .. Len(q)]
        /\ \A j \in 1 .. Len(r) : r[j] = q[m[j]]
    BY DEF From
  <2>2. QED
    BY <2>1, Contents
<1>2. /\ \A j, k \in 1 .. Len(r) : j < k => m[j] < m[k] \/ (~ Control(r[j]) /\ ~ Control(r[k]))
      /\ \A i \in 1 .. Len(q) : Control(q[i]) => \E j \in 1 .. Len(r) : m[j] = i
  BY DEF InPlace
<1>3. \A i \in 1 .. Len(r) : ~ Control(r[i]) => r[i].kind = "data" /\ ~ Eof(r[i])
  <2>1. \A i \in 1 .. Len(r) : r[i] \in Packet
    BY <1>1, Contents
  <2>2. QED
    BY <2>1 DEF Control, Packet
<1>4. ASSUME Sorted(q) PROVE Sorted(r)
  <2> SUFFICES ASSUME NEW i \in 1 .. Len(r), NEW j \in 1 .. Len(r),
                      i < j, r[i].from = r[j].from
               PROVE  r[i].kind = "data" /\ (Eof(r[i]) => r[j].kind = "msg")
    BY DEF Sorted
  <2>1. CASE m[i] < m[j]
    BY <1>1, <1>4, <2>1 DEF Sorted
  <2>2. CASE ~ Control(r[i])
    BY <1>3, <2>2
  <2>3. QED
    BY <1>2, <2>1, <2>2
<1>5. ASSUME NEW more \in BOOLEAN, EndsWith(q, more) PROVE EndsWith(r, more)
  <2>1. \A i \in 1 .. Len(q) : Eof(q[i]) => i = Len(q) /\ ~ more
    BY <1>5 DEF EndsWith
  <2>2. ASSUME NEW j \in 1 .. Len(r), Eof(r[j]) PROVE j = Len(r) /\ ~ more
    <3>1. m[j] = Len(q) /\ ~ more
      BY <1>1, <2>1, <2>2
    <3>2. ASSUME NEW k \in 1 .. Len(r), j < k PROVE FALSE
      <4>1. m[j] < m[k]
        BY <1>2, <2>2, <3>2 DEF Control
      <4>2. QED
        BY <1>1, <3>1, <4>1
    <3>3. QED
      BY <1>1, <3>1, <3>2
  <2>3. ASSUME ~ more PROVE r # <<>> /\ Eof(r[Len(r)])
    <3>1. q # <<>> /\ Eof(q[Len(q)]) /\ Len(q) \in 1 .. Len(q)
      BY <1>1, <1>5, <2>3 DEF EndsWith
    <3>2. PICK j \in 1 .. Len(r) : m[j] = Len(q)
      BY <1>2, <3>1 DEF Control
    <3>3. Eof(r[j])
      BY <1>1, <3>1, <3>2
    <3>4. j = Len(r)
      BY <2>2, <3>3
    <3>5. QED
      BY <1>1, <3>3, <3>4
  <2>4. QED
    BY <2>2, <2>3 DEF EndsWith
<1>6. ASSUME q # <<>>, Control(Head(q))
      PROVE  /\ r # <<>> /\ Head(r) = Head(q)
             /\ \A e \in ToSet(Tail(r)) : e \in ToSet(Tail(q))
  <2>1. Head(q) = q[1] /\ 1 \in 1 .. Len(q)
    BY <1>6, Contents
  <2>2. PICK j \in 1 .. Len(r) : m[j] = 1
    BY <1>2, <1>6, <2>1
  <2>3. Control(r[j])
    BY <1>1, <1>6, <2>1, <2>2
  <2>4. j = 1
    <3>1. ASSUME 1 < j PROVE FALSE
      <4>1. 1 \in 1 .. Len(r)
        BY <1>1, <3>1
      <4>2. m[1] < m[j]
        BY <1>2, <2>3, <3>1, <4>1
      <4>3. QED
        BY <1>1, <2>2, <4>1, <4>2
    <3>2. QED
      BY <1>1, <3>1
  <2>5. r # <<>> /\ Head(r) = Head(q)
    BY <1>1, <2>1, <2>2, <2>4, Contents
  <2>6. /\ Tail(r) \in Seq(Packet) /\ Len(Tail(r)) = Len(r) - 1
        /\ \A i \in 1 .. Len(r) - 1 : Tail(r)[i] = r[i + 1]
        /\ Tail(q) \in Seq(Packet) /\ Len(Tail(q)) = Len(q) - 1
        /\ \A i \in 1 .. Len(q) - 1 : Tail(q)[i] = q[i + 1]
    BY <1>1, <1>6, <2>5, Taken
  <2>7. ASSUME NEW e \in ToSet(Tail(r)) PROVE e \in ToSet(Tail(q))
    <3>1. PICK i \in 1 .. Len(Tail(r)) : Tail(r)[i] = e
      BY <2>6, Contents
    <3>2. i + 1 \in 1 .. Len(r) /\ 1 < i + 1 /\ r[i + 1] = e
      BY <1>1, <2>6, <3>1
    <3>3. m[1] < m[i + 1]
      BY <1>2, <2>2, <2>3, <2>4, <3>2
    <3>4. m[i + 1] - 1 \in 1 .. Len(q) - 1 /\ (m[i + 1] - 1) + 1 = m[i + 1]
      BY <1>1, <2>2, <2>4, <3>2, <3>3
    <3>5. Tail(q)[m[i + 1] - 1] = e /\ m[i + 1] - 1 \in 1 .. Len(Tail(q))
      BY <1>1, <2>6, <3>2, <3>4
    <3>6. QED
      BY <2>6, <3>5, Contents
  <2>8. QED
    BY <2>5, <2>7
<1>7. q = <<>> => r = <<>>
  BY <1>1
<1>8. ASSUME NEW d \in ToSet(q), Control(d) PROVE d \in ToSet(r)
  <2>1. PICK i \in 1 .. Len(q) : q[i] = d
    BY Contents
  <2>2. PICK j \in 1 .. Len(r) : m[j] = i
    BY <1>2, <1>8, <2>1
  <2>3. QED
    BY <1>1, <2>1, <2>2, Contents
<1>9. \A d \in ToSet(r) : d \in ToSet(q)
  BY DEF From
<1>10. QED
  BY <1>4, <1>5, <1>6, <1>7, <1>8, <1>9 DEF Keeps

\* What is lost or overtaken leaves both sides in step, data packets apart.
LEMMA NetworkGives ==
    ASSUME TypesHold, InStep, NEW h \in Host, Network(h), ~ faults'.control
    PROVE  /\ \A g \in Host : Keeps(inbox[g], inbox'[g])
           /\ \A c \in Client : pc[c] = "waiting" /\ inbox[c] # <<>> =>
                /\ inbox'[c] # <<>> /\ Head(inbox'[c]) = Head(inbox[c])
                /\ \A e \in ToSet(Tail(inbox'[c])) : e \in ToSet(Tail(inbox[c]))
                /\ Tail(inbox[c]) = <<>> => Tail(inbox'[c]) = <<>>
           /\ \A c \in Client :
                /\ Uploads(c)' => Uploads(c)
                /\ Downloads(c)' => Downloads(c)
                /\ Served(c)' = Served(c) /\ Served(c) \in BOOLEAN
<1>1. PICK m : From(inbox[h], inbox'[h], m) /\ InPlace(inbox[h], inbox'[h], m)
  BY DEF Network
<1>2. /\ UNCHANGED <<pc, cmd, asked, fp, reply, spc, remote>>
      /\ \A g \in Host : g # h => inbox'[g] = inbox[g]
  BY DEF Network
<1>3. ASSUME NEW g \in Host PROVE Keeps(inbox[g], inbox'[g])
  <2>1. CASE g = h
    BY <1>1, <2>1, QueueFacts, InPlaceKeeps
  <2>2. CASE g # h
    BY <1>2, <2>2 DEF Keeps
  <2>3. QED
    BY <2>1, <2>2
<1>4. \A c \in Client : Served(c)' = Served(c) /\ Served(c) \in BOOLEAN
  BY <1>2 DEF Served
\* A waiting client's first datagram is its reply, and stays first.
<1>5. ASSUME NEW c \in Client, pc[c] = "waiting", inbox[c] # <<>>
      PROVE  /\ inbox'[c] # <<>> /\ Head(inbox'[c]) = Head(inbox[c])
             /\ \A e \in ToSet(Tail(inbox'[c])) : e \in ToSet(Tail(inbox[c]))
             /\ Tail(inbox[c]) = <<>> => Tail(inbox'[c]) = <<>>
  <2>1. Control(Head(inbox[c]))
    BY <1>5 DEF InStep, Answered, Control
  <2>2. /\ inbox'[c] # <<>> /\ Head(inbox'[c]) = Head(inbox[c])
        /\ \A e \in ToSet(Tail(inbox'[c])) : e \in ToSet(Tail(inbox[c]))
    BY <1>3, <1>5, <2>1, HostFacts DEF Keeps
  <2>3. Tail(inbox[c]) = <<>> => ToSet(Tail(inbox[c])) = {}
    BY EmptySeq, Contents
  <2>4. Tail(inbox'[c]) \in Seq(Packet)
    BY <2>2, HostFacts, Taken DEF Network
  <2>5. ToSet(Tail(inbox'[c])) = {} => Tail(inbox'[c]) = <<>>
    BY <2>4, Contents
  <2>6. QED
    BY <2>2, <2>3, <2>5
<1>6. ASSUME NEW c \in Client
      PROVE  /\ Uploads(c)' => Uploads(c)
             /\ Downloads(c)' => Downloads(c)
  <2>1. \A d \in ToSet(inbox'[Server]) : d \in ToSet(inbox[Server])
    BY <1>3, HostFacts DEF Keeps
  <2>2. inbox'[c] # <<>> => inbox[c] # <<>>
    BY <1>3, HostFacts DEF Keeps
  <2>3. QED
    BY <1>2, <1>5, <2>1, <2>2 DEF Uploads, Downloads
<1>7. QED
  BY <1>3, <1>4, <1>5, <1>6

LEMMA NetworkInStep ==
    ASSUME TypesHold, InStep, NEW h \in Host, Network(h), ~ faults'.control
    PROVE  InStep'
<1>1. UNCHANGED <<pc, cmd, asked, fp, reply, spc, remote>>
  BY DEF Network
<1>2. \A g \in Host : Keeps(inbox[g], inbox'[g])
  BY NetworkGives
<1>3. \A c \in Client : Served(c)' = Served(c) /\ Served(c) \in BOOLEAN
  BY NetworkGives
<1>4. Sorted(inbox'[Server]) /\ Sorted(inbox[Server])
  BY <1>2, HostFacts DEF InStep, Keeps
<1>5. Commanded'
  <2>1. \A d \in ToSet(inbox'[Server]) : d \in ToSet(inbox[Server]) /\ d.from \in Client
    BY <1>2, HostFacts, QueueFacts DEF Keeps
  <2>2. \A c \in Client : inbox[c] = <<>> => inbox'[c] = <<>>
    BY <1>2, HostFacts DEF Keeps
  <2>3. Commanded
    BY DEF InStep
  <2>4. QED
    BY <1>1, <1>3, <2>1, <2>2, <2>3 DEF Commanded
\* A waiting client's first datagram is its reply, and stays first.
<1>6. ASSUME NEW c \in Client, pc[c] = "waiting", inbox[c] # <<>>
      PROVE  /\ inbox'[c] # <<>> /\ Head(inbox'[c]) = Head(inbox[c])
             /\ \A e \in ToSet(Tail(inbox'[c])) : e \in ToSet(Tail(inbox[c]))
             /\ Tail(inbox[c]) = <<>> => Tail(inbox'[c]) = <<>>
  BY NetworkGives, <1>6
<1>7. ASSUME NEW c \in Client PROVE Answered(c)'
  <2>1. Answered(c)
    BY DEF InStep
  <2>2. inbox[c] = <<>> => inbox'[c] = <<>>
    BY <1>2, HostFacts DEF Keeps
  <2>3. \A d \in ToSet(inbox'[c]) : d \in ToSet(inbox[c])
    BY <1>2, HostFacts DEF Keeps
  <2>4. pc'[c] \in {"prompt", "sending"} => inbox'[c] = <<>> /\ ~ Served(c)'
    BY <1>1, <1>3, <2>1, <2>2 DEF Answered
  <2>5. pc'[c] = "waiting" => fp'[c] = cmd'[c].file /\ (inbox'[c] = <<>> => ~ Served(c)')
    BY <1>1, <1>3, <1>6, <2>1, <2>2 DEF Answered
  <2>6. ASSUME pc'[c] = "waiting", inbox'[c] # <<>>
        PROVE  LET d == Head(inbox'[c])
               IN  /\ d.kind = "msg" /\ d.re = asked'[c]
                   /\ \/ d.type = GET_START /\ cmd'[c].type = CMD_GET /\ fp'[c] # NoFile
                      \/ /\ d.type \in {PUT_START, MSG_RESP}
                         /\ d.type = PUT_START => cmd'[c].type = CMD_PUT /\ fp'[c] # NoFile
                         /\ Tail(inbox'[c]) = <<>> /\ ~ Served(c)'
                   /\ \A e \in ToSet(Tail(inbox'[c])) : e.kind = "data"
    BY <1>1, <1>3, <1>6, <2>1, <2>2, <2>6 DEF Answered
  <2>7. /\ pc'[c] = "receiving" =>
               cmd'[c].type = CMD_GET /\ \A d \in ToSet(inbox'[c]) : d.kind = "data"
        /\ pc'[c] # "waiting" /\ asked'[c] > 0 =>
               reply'[c].kind = "msg" /\ reply'[c].re = asked'[c]
    BY <1>1, <2>1, <2>3 DEF Answered
  <2>8. QED
    BY <2>4, <2>5, <2>6, <2>7 DEF Answered
<1>8. ASSUME NEW c \in Client
      PROVE  /\ Uploads(c)' => Uploads(c)
             /\ Downloads(c)' => Downloads(c)
  BY NetworkGives
<1>9. OneUploads'
  <2>1. OneUploads
    BY DEF InStep
  <2>2. /\ \A c \in Client : Uploads(c)' => spc' = "receiving"
        /\ \A c, d \in Client : Uploads(c)' /\ Uploads(d)' => c = d
    BY <1>1, <1>8, <2>1 DEF OneUploads
  <2>3. \A d \in ToSet(inbox'[Server]) : d \in ToSet(inbox[Server]) /\ d.from \in Client
    BY <1>2, HostFacts, QueueFacts DEF Keeps
  <2>4. \A d \in ToSet(inbox[Server]) : Eof(d) => d \in ToSet(inbox'[Server])
    BY <1>2, HostFacts DEF Control, Keeps
  <2>5. \A c \in Client : inbox[c] = <<>> => inbox'[c] = <<>>
    BY <1>2, HostFacts DEF Keeps
  <2>6. QED
    BY <1>1, <2>1, <2>2, <2>3, <2>4, <2>5 DEF OneUploads
<1>10. ASSUME NEW c \in Client, Downloads(c)' PROVE EndsWith(inbox[c], Served(c))'
  <2>1. EndsWith(inbox[c], Served(c))
    BY <1>8, <1>10 DEF InStep
  <2>2. EndsWith(inbox'[c], Served(c))
    BY <1>2, <1>3, <2>1, HostFacts DEF Keeps
  <2>3. QED
    BY <1>3, <2>2
<1>11. QED
  BY <1>4, <1>5, <1>7, <1>9, <1>10 DEF InStep

LEMMA InStepInit == Init => InStep
<1> SUFFICES ASSUME Init PROVE InStep
  OBVIOUS
<1>1. /\ \A h \in Host : inbox[h] = <<>> /\ Len(inbox[h]) = 0 /\ ToSet(inbox[h]) = {}
      /\ \A c \in Client : pc[c] = "prompt" /\ asked[c] = 0
      /\ spc = "ready"
  <2>1. Len(<<>>) = 0 /\ ToSet(<<>>) = {}
    BY EmptySeq, Contents
  <2>2. QED
    BY <2>1 DEF Init
<1>2. \A c \in Client : ~ Served(c) /\ ~ Downloads(c) /\ ~ Uploads(c)
  BY <1>1, HostFacts DEF Served, Downloads, Uploads
<1>3. Sorted(inbox[Server]) /\ Commanded /\ OneUploads
  BY <1>1, <1>2, HostFacts DEF Sorted, Commanded, OneUploads
<1>4. \A c \in Client : Answered(c)
  BY <1>1, <1>2, HostFacts DEF Answered
<1>5. QED
  BY <1>2, <1>3, <1>4 DEF InStep

\* What a step of the programs leaves alone, and what the network may set.
LEMMA ControlStays ==
    ASSUME TypesHold, Next, ~ faults'.control
    PROVE  ~ faults.control
<1>1. CASE \E c \in Client : Command(c) \/ ClientStep(c)
  BY <1>1, CommandIs, ReplyIs, ClientReceivesIs, ClientSendsIs DEF ClientStep
<1>2. CASE ServerStep
  BY <1>2 DEF ServerStep, ServerCommand, ServerSends, ServerReceives, ServerOnly
<1>3. CASE \E h \in Host : Lose(h) \/ Overtake(h)
  BY <1>3, NetworkSteps DEF Network
<1>4. QED
  BY <1>1, <1>2, <1>3 DEF Next

LEMMA InStepStep ==
    ASSUME TypesHold, ~ faults.control => InStep, [Next]_vars
    PROVE  (~ faults.control => InStep)'
<1> SUFFICES ASSUME ~ faults'.control PROVE InStep'
  OBVIOUS
<1>1. CASE UNCHANGED vars
  BY <1>1 DEF vars, InStep, Sorted, Commanded, OneUploads, Answered, EndsWith,
              Uploads, Downloads, Served
<1>2. CASE Next
  <2>1. InStep
    BY <1>2, ControlStays
  <2>2. CASE \E c \in Client : Command(c) \/ ClientStep(c)
    BY <2>1, <2>2, CommandInStep, ReplyInStep, ClientReceivesInStep, ClientSendsInStep
       DEF ClientStep
  <2>3. CASE ServerStep
    BY <2>1, <2>3, ServerCommandInStep, ServerSendsInStep, ServerReceivesInStep
       DEF ServerStep
  <2>4. CASE \E h \in Host : Lose(h) \/ Overtake(h)
    BY <2>1, <2>4, NetworkSteps, NetworkInStep
  <2>5. QED
    BY <1>2, <2>2, <2>3, <2>4 DEF Next
<1>3. QED
  BY <1>1, <1>2

\* For any number of clients: as long as data packets are all that is lost or
\* overtaken, the server's replies go to the client that asked, transfers
\* begin where both sides know of them and end at their end-of-file.
THEOREM LoopInvariant == Spec => []LoopInv
<1> DEFINE Inv == TypesHold /\ (~ faults.control => InStep)
<1>1. Init => Inv
  BY TypesInit, InStepInit
<1>2. Inv /\ [Next]_vars => Inv'
  BY TypesStep, InStepStep
<1>3. Inv => LoopInv
  BY TypesSplit, Zenon DEF TypesHold, LoopInv
<1> HIDE DEF Inv
<1>4. QED
  BY <1>1, <1>2, <1>3, PTL DEF Spec

\* Whatever a client reads as the reply to a command is the server's answer to
\* that very command (main of client.c, get_msg), data packets lost or not.
THEOREM RepliesAnswer == Spec => []ReplyAnswers
<1>1. LoopInv => ReplyAnswers
  BY DEF LoopInv, InStep, Answered, ReplyAnswers
<1>2. QED
  BY <1>1, LoopInvariant, PTL

\* When a client is at its prompt again, nothing it asked for is under way:
\* no transfer and no reply that its next command could take for its own.
THEOREM NothingIsLeftOver == Spec => []NothingLeftOver
<1> SUFFICES LoopInv => NothingLeftOver
  BY LoopInvariant, PTL
<1> SUFFICES ASSUME LoopInv, ~ faults.control, NEW c \in Client, pc[c] = "prompt"
             PROVE  /\ inbox[c] = <<>> /\ ~ Served(c)
                    /\ \A i \in 1 .. Len(inbox[Server]) :
                           inbox[Server][i].from = c => inbox[Server][i].kind = "data"
  BY DEF NothingLeftOver, Served
<1>1. TypesHold /\ InStep
  BY TypesSplit DEF LoopInv, TypesHold
<1>2. inbox[c] = <<>> /\ ~ Served(c)
  BY <1>1 DEF InStep, Answered
<1>3. ASSUME NEW i \in 1 .. Len(inbox[Server]), inbox[Server][i].from = c
      PROVE  inbox[Server][i].kind = "data"
  <2>1. inbox[Server][i] \in ToSet(inbox[Server])
    BY <1>1, QueueFacts, HostFacts, Contents
  <2>2. inbox[Server][i].kind # "msg"
    BY <1>1, <1>3, <2>1 DEF InStep, Commanded
  <2>3. QED
    BY <1>1, <2>1, <2>2, QueueFacts
<1>4. QED
  BY <1>2, <1>3

-----------------------------------------------------------------------------
(* The chunks under way: each of them is written, or at most as many of    *)
(* its copies are missing as the network has lost.                         *)

LEMMA ModOf ==
    ASSUME NEW C \in Nat \ {0}, NEW x \in 0 .. C - 1
    PROVE  x % C = x /\ (x + C) % C = x /\ (x + 2 * C) % C = x
<1>1. x % C = x
  OBVIOUS
<1>2. (x + C) % C = x
  OBVIOUS
<1>3. (x + 2 * C) % C = x
  OBVIOUS
<1>4. QED
  BY <1>1, <1>2, <1>3

\* Each chunk is sent three times.
LEMMA ThreeCopies ==
    ASSUME NEW k \in 1 .. Chunks
    PROVE  {k, k + Chunks, k + 2 * Chunks} \subseteq CopiesOf(k, Packets)
<1>1. Chunks \in Nat \ {0} /\ k - 1 \in 0 .. Chunks - 1 /\ Packets = 3 * Chunks + 1
  BY PacketsFact DEF Packets
<1>2. /\ (k - 1) % Chunks = k - 1 /\ ((k - 1) + Chunks) % Chunks = k - 1
      /\ ((k - 1) + 2 * Chunks) % Chunks = k - 1
  BY <1>1, ModOf
<1>3. /\ k - 1 = k - 1 /\ (k + Chunks) - 1 = (k - 1) + Chunks
      /\ (k + 2 * Chunks) - 1 = (k - 1) + 2 * Chunks
      /\ (k - 1) + 1 = k
  BY <1>1
<1>4. \A m \in {k, k + Chunks, k + 2 * Chunks} : m \in 1 .. Packets /\ m # Packets
  BY <1>1
<1>5. \A m \in {k, k + Chunks, k + 2 * Chunks} : ((m - 1) % Chunks) + 1 = k
  BY <1>2, <1>3
<1>6. QED
  BY <1>4, <1>5 DEF CopiesOf

LEMMA CopiesFinite ==
    ASSUME NEW k, NEW n \in Nat, NEW S, S \subseteq CopiesOf(k, n)
    PROVE  IsFiniteSet(S) /\ Cardinality(S) \in Nat
<1>1. S \in SUBSET (1 .. n) /\ IsFiniteSet(1 .. n)
  BY FS_Interval DEF CopiesOf
<1>2. QED
  BY <1>1, FS_Subset, FS_CardinalityType

LEMMA FewerMissing ==
    ASSUME NEW k, NEW n \in Nat, NEW l \in Nat, NEW T, NEW S,
           T \subseteq CopiesOf(k, n), Cardinality(T) <= l, S \subseteq T
    PROVE  Cardinality(S) <= l
<1>1. IsFiniteSet(T) /\ Cardinality(T) \in Nat /\ Cardinality(S) \in Nat
  BY CopiesFinite
<1>2. Cardinality(S) <= Cardinality(T)
  BY <1>1, FS_Subset
<1>3. QED
  BY <1>1, <1>2

\* A transfer that has sent nothing.
LEMMA StartsArriving ==
    ASSUME NEW q, NEW l \in Nat, NEW from, NEW file, NEW n, n = 0,
           \A d \in ToSet(q) : d.kind = "msg"
    PROVE  Arriving(q, {}, l, from, file, n)
<1>1. Carries(q) = {}
  BY DEF Carries
<1>2. \A k \in 1 .. Chunks : CopiesOf(k, n) = {}
  BY DEF CopiesOf
<1>3. \A k \in 1 .. Chunks : Cardinality(CopiesOf(k, n) \ Carries(q)) <= l
  BY <1>1, <1>2, FS_EmptySet
<1>4. QED
  BY <1>1, <1>3 DEF Arriving

\* The next packet is sent.
LEMMA SendsArriving ==
    ASSUME NEW q, NEW r, NEW d, NEW w, NEW l \in Nat, NEW from, NEW file, NEW n \in Nat,
           Arriving(q, w, l, from, file, n), ToSet(r) = ToSet(q) \cup {d},
           d.kind = "data", d.from = from, d.file = file, d.re = n + 1
    PROVE  Arriving(r, w, l, from, file, n + 1)
<1>1. Carries(r) = Carries(q) \cup {n + 1}
  BY DEF Carries
<1>2. Carries(r) \subseteq 1 .. n + 1
  BY <1>1 DEF Arriving
<1>3. ASSUME NEW k \in 1 .. Chunks
      PROVE  CopiesOf(k, n + 1) \ Carries(r) \subseteq CopiesOf(k, n) \ Carries(q)
  BY <1>1 DEF CopiesOf
<1>4. ASSUME NEW k \in 1 .. Chunks, Cardinality(CopiesOf(k, n) \ Carries(q)) <= l
      PROVE  Cardinality(CopiesOf(k, n + 1) \ Carries(r)) <= l
  BY <1>3, <1>4, FewerMissing
<1>5. \A e \in ToSet(r) : e.kind = "data" => e.from = from /\ e.file = file
  BY DEF Arriving
<1>6. QED
  BY <1>2, <1>4, <1>5 DEF Arriving

\* A message comes or goes.
LEMMA KeepsArriving ==
    ASSUME NEW q, NEW r, NEW d, NEW w, NEW l \in Nat, NEW from, NEW file, NEW n \in Nat,
           Arriving(q, w, l, from, file, n), d.kind = "msg",
           ToSet(r) = ToSet(q) \cup {d} \/ ToSet(q) = ToSet(r) \cup {d}
    PROVE  Arriving(r, w, l, from, file, n)
<1>1. {e \in ToSet(r) : e.kind = "data"} = {e \in ToSet(q) : e.kind = "data"}
  OBVIOUS
<1>2. Carries(r) = Carries(q)
  BY <1>1, Zenon DEF Carries
<1>3. \A e \in ToSet(r) : e.kind = "data" => e.from = from /\ e.file = file
  BY <1>1 DEF Arriving
<1>4. QED
  BY <1>2, <1>3, Zenon DEF Arriving

\* A packet with a chunk is read, and its chunk written.
LEMMA ReadsArriving ==
    ASSUME NEW q, NEW r, NEW d, NEW w, NEW l \in Nat, NEW from, NEW file, NEW n \in 0 .. Packets,
           Arriving(q, w, l, from, file, n), ToSet(q) = ToSet(r) \cup {d},
           d.kind = "data", ~ Eof(d)
    PROVE  Arriving(r, w \cup Writes(d), l, from, file, n)
<1> DEFINE number == ((d.re - 1) % Chunks) + 1
<1>1. d.from = from /\ d.file = file /\ d.re \in 1 .. n /\ d.re # Packets
  <2>1. d.re \in Carries(q)
    BY DEF Carries
  <2>2. QED
    BY <2>1 DEF Arriving, Eof
<1>2. d.re \in 1 .. Packets /\ n \in Nat
  BY <1>1, PacketsFact
<1>3. number \in 1 .. Chunks
  BY <1>1, <1>2, ChunkNumber
<1>4. Writes(d) = {[from |-> from, file |-> file, number |-> number]}
  BY <1>1 DEF Writes, Chunk
<1>5. w \cup Writes(d) \subseteq Whole(from, file)
  BY <1>3, <1>4 DEF Arriving, Whole
<1>6. Carries(q) = Carries(r) \cup {d.re}
  BY DEF Carries
<1>7. ASSUME NEW k \in 1 .. Chunks, k # number
      PROVE  CopiesOf(k, n) \ Carries(r) \subseteq CopiesOf(k, n) \ Carries(q)
  <2>1. d.re \notin CopiesOf(k, n)
    BY <1>7 DEF CopiesOf
  <2>2. QED
    BY <1>6, <2>1
<1> HIDE DEF number
<1>8. ASSUME NEW k \in 1 .. Chunks
      PROVE  \/ [from |-> from, file |-> file, number |-> k] \in w \cup Writes(d)
             \/ Cardinality(CopiesOf(k, n) \ Carries(r)) <= l
  <2>1. CASE k = number
    BY <1>4, <2>1
  <2>2. CASE [from |-> from, file |-> file, number |-> k] \in w
    BY <2>2
  <2>3. CASE k # number /\ Cardinality(CopiesOf(k, n) \ Carries(q)) <= l
    <3>1. CopiesOf(k, n) \ Carries(q) \subseteq CopiesOf(k, n)
      OBVIOUS
    <3>2. Cardinality(CopiesOf(k, n) \ Carries(r)) <= l
      BY <1>2, <1>7, <2>3, <3>1, FewerMissing
    <3>3. QED
      BY <3>2
  <2>4. QED
    BY <2>1, <2>2, <2>3 DEF Arriving
<1>9. /\ Carries(r) \subseteq 1 .. n
      /\ \A e \in ToSet(r) : e.kind = "data" => e.from = from /\ e.file = file
  BY <1>6 DEF Arriving
<1>10. QED
  BY <1>5, <1>8, <1>9 DEF Arriving

\* The network loses at most one, and counts it.
LEMMA LosesArriving ==
    ASSUME NEW q, NEW r, NEW w, NEW l \in Nat, NEW from, NEW file, NEW n \in Nat,
           Arriving(q, w, l, from, file, n), NEW i \in {0, 1},
           Unharmed(q, r, i) \/ q = r, ToSet(r) \subseteq ToSet(q)
    PROVE  Arriving(r, w, l + i, from, file, n)
<1>1. Carries(r) \subseteq Carries(q)
  BY DEF Carries
<1>2. Carries(q) = Carries(r) \/ (i = 1 /\ \E x : Carries(q) \subseteq Carries(r) \cup {x})
  BY DEF Unharmed
<1>3. ASSUME NEW k \in 1 .. Chunks, Cardinality(CopiesOf(k, n) \ Carries(q)) <= l
      PROVE  Cardinality(CopiesOf(k, n) \ Carries(r)) <= l + i
  <2> DEFINE S == CopiesOf(k, n) \ Carries(r)
             T == CopiesOf(k, n) \ Carries(q)
  <2>1. /\ IsFiniteSet(S) /\ Cardinality(S) \in Nat
        /\ IsFiniteSet(T) /\ Cardinality(T) \in Nat
    BY CopiesFinite
  <2>2. CASE Carries(q) = Carries(r)
    <3>1. S = T
      BY <2>2
    <3> HIDE DEF S, T
    <3>2. Cardinality(S) <= l + i
      BY <1>3, <2>1, <3>1 DEF T
    <3>3. QED
      BY <3>2 DEF S
  <2>3. CASE i = 1 /\ \E x : Carries(q) \subseteq Carries(r) \cup {x}
    <3>1. PICK x : Carries(q) \subseteq Carries(r) \cup {x}
      BY <2>3
    <3>2. S \in SUBSET (T \cup {x})
      BY <3>1
    <3>3. Cardinality(T) <= l
      BY <1>3
    <3> HIDE DEF S, T
    <3>4. IsFiniteSet(T \cup {x}) /\ Cardinality(T \cup {x}) <= Cardinality(T) + 1
      BY <2>1, FS_AddElement
    <3>5. Cardinality(S) <= Cardinality(T \cup {x}) /\ Cardinality(T \cup {x}) \in Nat
      BY <3>2, <3>4, FS_Subset, FS_CardinalityType
    <3>6. Cardinality(S) <= l + i
      BY <2>1, <2>3, <3>3, <3>4, <3>5
    <3>7. QED
      BY <3>6 DEF S
  <2>4. QED
    BY <1>2, <2>2, <2>3
<1>4. \A e \in ToSet(r) : e.kind = "data" => e.from = from /\ e.file = file
  BY DEF Arriving
<1>5. QED
  BY <1>1, <1>3, <1>4 DEF Arriving

\* All is sent, and nothing but the end-of-file is left to read.
LEMMA EndsArriving ==
    ASSUME NEW q, NEW w, NEW l \in Nat, NEW from, NEW file,
           Arriving(q, w, l, from, file, Packets), l < 3,
           \A d \in ToSet(q) : d.kind = "data" => Eof(d)
    PROVE  w = Whole(from, file)
<1>1. Carries(q) \subseteq {Packets}
  BY DEF Carries, Eof
<1>2. ASSUME NEW k \in 1 .. Chunks
      PROVE  ~ Cardinality(CopiesOf(k, Packets) \ Carries(q)) <= l
  <2> DEFINE S == {k, k + Chunks, k + 2 * Chunks}
             T == CopiesOf(k, Packets) \ Carries(q)
  <2>1. S \subseteq T
    BY <1>1, ThreeCopies DEF CopiesOf
  <2>2. IsFiniteSet(T) /\ Cardinality(T) \in Nat
    BY PacketsFact, CopiesFinite
  <2>3. Cardinality(S) = 3
    <3>1. Chunks \in Nat \ {0} /\ k \in Nat
      BY PacketsFact
    <3>2. k # k + Chunks /\ k # k + 2 * Chunks /\ k + Chunks # k + 2 * Chunks
      BY <3>1
    <3>3. \A x, y, z : x # y /\ x # z /\ y # z => Cardinality({x, y, z}) = 3
      <4> SUFFICES ASSUME NEW x, NEW y, NEW z, x # y, x # z, y # z
                   PROVE  Cardinality({x, y, z}) = 3
        OBVIOUS
      <4>1. IsFiniteSet({x}) /\ Cardinality({x}) = 1
        BY FS_Singleton
      <4>2. IsFiniteSet({x} \cup {y}) /\ Cardinality({x} \cup {y}) = 2
        BY <4>1, FS_AddElement
      <4>3. Cardinality(({x} \cup {y}) \cup {z}) = 3
        BY <4>2, FS_AddElement
      <4>4. ({x} \cup {y}) \cup {z} = {x, y, z}
        OBVIOUS
      <4>5. QED
        BY <4>3, <4>4
    <3>4. QED
      BY <3>2, <3>3
  <2> HIDE DEF S, T
  <2>4. Cardinality(S) <= Cardinality(T)
    BY <2>1, <2>2, FS_Subset
  <2>5. ~ Cardinality(T) <= l
    BY <2>2, <2>3, <2>4
  <2>6. QED
    BY <2>5 DEF T
<1>3. \A k \in 1 .. Chunks : [from |-> from, file |-> file, number |-> k] \in w
  BY <1>2 DEF Arriving
<1>4. QED
  BY <1>3 DEF Arriving, Whole

-----------------------------------------------------------------------------
(* Each action keeps what is written in step with what is under way.       *)

LEMMA Counts ==
    ASSUME TypesHold
    PROVE  /\ faults.lost \in Nat /\ Packets \in Nat
           /\ spc = "sending" => snext - 1 \in 0 .. Packets
           /\ \A c \in Client : /\ next[c] - 1 \in 0 .. Packets
                                /\ SentUp(c) \in 0 .. Packets
                                /\ SentDown(c) \in 0 .. Packets
                                /\ SentUp(c) \in Nat /\ SentDown(c) \in Nat
<1>1. faults.lost \in Nat /\ Packets \in Nat
  BY SessionAssumption, PacketsFact DEF TypesHold, ServerTypes
<1>2. snext \in 1 .. Packets + 1 /\ next \in [Client -> 1 .. Packets + 1]
  BY DEF TypesHold, ServerTypes, ClientTypes
<1>3. \A n \in 1 .. Packets + 1 : n - 1 \in 0 .. Packets
  BY <1>1
<1>4. \A n \in 0 .. Packets : n \in Nat
  BY <1>1
<1>5. 0 \in 0 .. Packets /\ Packets \in 0 .. Packets
  BY <1>1
<1>6. ASSUME NEW c \in Client
      PROVE  next[c] - 1 \in 0 .. Packets
  BY <1>2, <1>3
<1>7. snext - 1 \in 0 .. Packets
  BY <1>2, <1>3
<1>8. QED
  BY <1>1, <1>4, <1>5, <1>6, <1>7 DEF SentUp, SentDown

\* What the server does with a command, when both sides are in step.
LEMMA ServerCommandGives ==
    ASSUME TypesHold, InStep, ServerCommand
    PROVE  \E c \in Client, m \in Packet :
           /\ spc = "ready" /\ remote' = c /\ m.kind = "msg"
           /\ pc[c] = "waiting" /\ inbox[c] = <<>>
           /\ inbox'[c] # <<>> /\ Head(inbox'[c]) = m /\ ToSet(inbox'[c]) = {m}
           /\ \A e \in Client : e # c => inbox'[e] = inbox[e]
           /\ \A e \in ToSet(inbox'[Server]) : e.kind = "msg"
           /\ \/ /\ m.type = GET_START /\ spc' = "sending" /\ sfp' = fp[c] /\ snext' = 1
                 /\ cmd[c].type = CMD_GET /\ UNCHANGED written
              \/ /\ m.type = PUT_START /\ spc' = "receiving" /\ sfp' = fp[c]
                 /\ written' = [written EXCEPT ![Server] = {}]
              \/ /\ m.type = MSG_RESP /\ spc' # "sending" /\ spc' # "receiving"
                 /\ UNCHANGED <<sfp, written>>
           /\ UNCHANGED <<pc, cmd, fp, next, outcome, faults>>
<1>0. PICK d \in Packet : d = Head(inbox[Server])
  BY HostFacts, ServerCommandIs, QueueFacts, Contents
<1> DEFINE c == d.from
<1>1. /\ spc = "ready" /\ inbox[Server] # <<>> /\ remote' = c
      /\ UNCHANGED <<pc, cmd, fp, next, outcome, faults>>
      /\ \E type \in {GET_START, PUT_START, MSG_RESP} :
             /\ Answers(d, type)
             /\ \/ /\ type = GET_START /\ d.type = CMD_GET /\ spc' = "sending"
                   /\ sfp' = d.file /\ snext' = 1 /\ UNCHANGED written
                \/ /\ type = PUT_START /\ spc' = "receiving" /\ sfp' = d.file
                   /\ written' = [written EXCEPT ![Server] = {}]
                \/ /\ type = MSG_RESP /\ spc' # "sending" /\ spc' # "receiving"
                   /\ UNCHANGED <<sfp, written>>
  BY <1>0, ServerCommandIs DEF ServerOnly
<1>2. PICK type \in {GET_START, PUT_START, MSG_RESP} :
          /\ Answers(d, type)
          /\ \/ /\ type = GET_START /\ d.type = CMD_GET /\ spc' = "sending"
                /\ sfp' = d.file /\ snext' = 1 /\ UNCHANGED written
             \/ /\ type = PUT_START /\ spc' = "receiving" /\ sfp' = d.file
                /\ written' = [written EXCEPT ![Server] = {}]
             \/ /\ type = MSG_RESP /\ spc' # "sending" /\ spc' # "receiving"
                /\ UNCHANGED <<sfp, written>>
  BY <1>1
<1> DEFINE m == Answer(d, type)
<1>3. /\ c \in Client /\ m \in Packet
      /\ ToSet(inbox[Server]) = {d} \cup ToSet(inbox'[Server])
      /\ inbox'[c] = Append(inbox[c], m) /\ inbox'[c] # <<>>
      /\ Head(inbox'[c]) = IF inbox[c] = <<>> THEN m ELSE Head(inbox[c])
      /\ \A e \in Client : e # c => inbox'[e] = inbox[e]
  <2>1. inbox[Server] # <<>> /\ d = Head(inbox[Server]) /\ Answers(d, type)
    BY <1>0, <1>1, <1>2
  <2> HIDE DEF m
  <2>2. /\ d.from \in Client /\ d \in Packet /\ Answer(d, type) \in Packet
        /\ ToSet(inbox[Server]) = {d} \cup ToSet(inbox'[Server])
        /\ inbox'[d.from] = Append(inbox[d.from], Answer(d, type))
        /\ inbox'[d.from] # <<>>
        /\ Head(inbox'[d.from]) = IF inbox[d.from] = <<>> THEN Answer(d, type)
                                  ELSE Head(inbox[d.from])
        /\ \A g \in Client : g # d.from => inbox'[g] = inbox[g]
    BY <2>1, AnswerIs
  <2>3. QED
    BY <2>2 DEF m
<1>4. m.kind = "msg" /\ m.type = type
  BY DEF Answer, Message
<1> HIDE DEF m
<1>5. \A e \in ToSet(inbox[Server]) : e.kind = "msg"
  BY <1>1, NoneUploads
<1>6. /\ pc[c] = "waiting" /\ inbox[c] = <<>>
      /\ d.type = cmd[c].type /\ d.file = fp[c]
  BY <1>3, <1>5 DEF InStep, Commanded
<1> HIDE DEF c
<1>7. ToSet(inbox'[c]) = {m} /\ Head(inbox'[c]) = m
  <2>1. ToSet(Append(<<>>, m)) = ToSet(<<>>) \cup {m}
    BY <1>3, EmptySeq, Posted
  <2>2. ToSet(<<>>) = {}
    BY EmptySeq, Contents
  <2>3. QED
    BY <1>3, <1>6, <2>1, <2>2
<1>8. QED
  BY <1>1, <1>2, <1>3, <1>4, <1>5, <1>6, <1>7

\* A step that a download has no part in.
LEMMA DownFrame ==
    ASSUME NEW e \in Client, CarriedDown(e), UNCHANGED faults,
           pc'[e] = pc[e], cmd'[e] = cmd[e], fp'[e] = fp[e],
           inbox'[e] = inbox[e], written'[e] = written[e],
           Served(e)' <=> Served(e), Served(e) => UNCHANGED <<sfp, snext>>
    PROVE  CarriedDown(e)'
<1>1. Downloads(e)' = Downloads(e)
  BY DEF Downloads
<1>2. SentDown(e)' = SentDown(e)
  BY DEF SentDown
<1>3. QED
  BY <1>1, <1>2 DEF CarriedDown

\* A client that takes no part in a download any more, or not yet.
LEMMA NoDown ==
    ASSUME NEW e \in Client, ~ Served(e)', ~ Downloads(e)',
           pc'[e] = "waiting" /\ cmd'[e].type = CMD_GET => written'[e] = {}
    PROVE  CarriedDown(e)'
BY DEF CarriedDown

LEMMA CommandDown ==
    ASSUME TypesHold, InStep, NEW c \in Client, Command(c),
           NEW e \in Client, CarriedDown(e)
    PROVE  CarriedDown(e)'
<1>1. PICK k \in Commands, m \in Packet :
          /\ cmd'[c] = k /\ fp'[c] = k.file
          /\ pc[c] = "prompt" /\ pc'[c] = "waiting" /\ inbox' = Post(Server, m)
          /\ written' = IF k.type = CMD_GET THEN [written EXCEPT ![c] = {}] ELSE written
          /\ \A d \in Client : d # c => /\ cmd'[d] = cmd[d] /\ fp'[d] = fp[d]
                                        /\ pc'[d] = pc[d]
          /\ UNCHANGED <<spc, sfp, remote, snext, faults>>
  BY CommandIs
<1>2. \A d \in Client : inbox'[d] = inbox[d] /\ Served(d)' = Served(d)
  BY <1>1, HostFacts, PostIs DEF Served
<1>3. written'[c] = IF k.type = CMD_GET THEN {} ELSE written[c]
  BY <1>1, HostFacts DEF TypesHold, FileTypes
<1>4. CASE e # c
  <2>1. written'[e] = written[e]
    BY <1>1, <1>4, HostFacts DEF TypesHold, FileTypes
  <2>2. QED
    BY <1>1, <1>2, <1>4, <2>1, DownFrame
<1>5. CASE e = c
  <2>1. inbox[c] = <<>> /\ ~ Served(c)
    BY <1>1 DEF InStep, Answered
  <2>2. ~ Downloads(c)' /\ ~ Served(c)'
    BY <1>1, <1>2, <2>1 DEF Downloads
  <2>3. QED
    BY <1>1, <1>3, <1>5, <2>2, NoDown
<1>6. QED
  BY <1>4, <1>5

LEMMA ReplyDown ==
    ASSUME TypesHold, InStep, InStep', NEW c \in Client, Reply(c),
           NEW e \in Client, CarriedDown(e)
    PROVE  CarriedDown(e)'
<1>0. PICK d \in Packet : d = Head(inbox[c])
  BY ReplyIs
<1>1. /\ pc[c] = "waiting" /\ inbox[c] # <<>> /\ inbox' = Take(c)
      /\ \/ d.type = GET_START /\ pc'[c] = "receiving" /\ fp'[c] = fp[c]
         \/ d.type = PUT_START /\ pc'[c] = "sending"
         \/ pc'[c] = "prompt"
      /\ \A g \in Client : g # c => fp'[g] = fp[g] /\ pc'[g] = pc[g]
      /\ UNCHANGED <<cmd, written, spc, sfp, remote, snext, faults>>
  BY <1>0, ReplyIs
<1>2. /\ inbox'[c] = Tail(inbox[c]) /\ ToSet(inbox[c]) = {d} \cup ToSet(inbox'[c])
      /\ \A g \in Client : g # c => inbox'[g] = inbox[g]
      /\ \A g \in Client : Served(g)' = Served(g) /\ SentDown(g)' = SentDown(g)
  BY <1>0, <1>1, TakeIs, HostFacts DEF Served, SentDown
<1>3. CASE e # c
  BY <1>1, <1>2, <1>3, DownFrame
<1>4. CASE e = c /\ pc'[c] = "receiving"
  <2>1. d.type = GET_START /\ d.kind = "msg" /\ fp'[c] = fp[c]
    BY <1>0, <1>1, <1>4 DEF InStep, Answered
  <2>2. Downloads(c)
    BY <1>0, <1>1, <2>1 DEF Downloads
  <2>3. Arriving(inbox[c], written[c], faults.lost, Server, fp[c], SentDown(c))
    BY <1>4, <2>2 DEF CarriedDown
  <2>4. Arriving(inbox'[c], written[c], faults.lost, Server, fp[c], SentDown(c))
    BY <1>2, <2>1, <2>3, Counts, KeepsArriving
  <2>5. Served(c) => sfp = fp[c]
    BY <1>4 DEF CarriedDown
  <2>6. QED
    BY <1>1, <1>2, <1>4, <2>1, <2>4, <2>5 DEF CarriedDown
<1>5. CASE e = c /\ pc'[c] # "receiving"
  <2>1. pc'[c] \in {"prompt", "sending"}
    BY <1>1, <1>5
  <2>2. ~ Served(c)'
    BY <2>1 DEF InStep, Answered
  <2>3. ~ Downloads(c)'
    BY <2>1 DEF Downloads
  <2>4. QED
    BY <1>5, <2>1, <2>2, <2>3, NoDown
<1>6. QED
  BY <1>3, <1>4, <1>5

LEMMA ClientReceivesDown ==
    ASSUME TypesHold, InStep, InStep', NEW c \in Client, ClientReceives(c),
           NEW e \in Client, CarriedDown(e)
    PROVE  CarriedDown(e)'
<1>0. PICK d \in Packet : d = Head(inbox[c])
  BY ClientReceivesIs
<1>1. /\ pc[c] = "receiving" /\ inbox[c] # <<>> /\ inbox' = Take(c)
      /\ \/ Eof(d) /\ pc'[c] = "prompt" /\ UNCHANGED written
         \/ /\ ~ Eof(d) /\ UNCHANGED <<pc, fp>>
            /\ written' = IF cmd[c].type # CMD_GET THEN written
                          ELSE [written EXCEPT ![c] = @ \cup Writes(d)]
      /\ \A g \in Client : g # c => fp'[g] = fp[g] /\ pc'[g] = pc[g]
      /\ UNCHANGED <<cmd, spc, sfp, remote, snext, faults>>
  BY <1>0, ClientReceivesIs
<1>2. /\ ToSet(inbox[c]) = {d} \cup ToSet(inbox'[c])
      /\ \A g \in Client : g # c => inbox'[g] = inbox[g]
      /\ \A g \in Client : Served(g)' = Served(g) /\ SentDown(g)' = SentDown(g)
  BY <1>0, <1>1, TakeIs, HostFacts DEF Served, SentDown
<1>3. CASE e # c
  <2>1. written'[e] = written[e]
    BY <1>1, <1>3, HostFacts DEF TypesHold, FileTypes
  <2>2. QED
    BY <1>1, <1>2, <1>3, <2>1, DownFrame
<1>4. CASE e = c /\ ~ Eof(d)
  <2>1. Downloads(c) /\ pc'[c] = "receiving" /\ fp'[c] = fp[c]
    BY <1>1, <1>4 DEF Downloads
  <2>2. d.kind = "data" /\ cmd[c].type = CMD_GET
    BY <1>1, <1>2 DEF InStep, Answered
  <2>3. written'[c] = written[c] \cup Writes(d)
    BY <1>1, <1>4, <2>2, HostFacts DEF TypesHold, FileTypes
  <2>4. Arriving(inbox[c], written[c], faults.lost, Server, fp[c], SentDown(c))
    BY <1>4, <2>1 DEF CarriedDown
  <2>5. Arriving(inbox'[c], written[c] \cup Writes(d), faults.lost, Server, fp[c], SentDown(c))
    BY <1>2, <1>4, <2>2, <2>4, Counts, ReadsArriving
  <2>6. Served(c) => sfp = fp[c]
    BY <1>4 DEF CarriedDown
  <2>7. QED
    BY <1>1, <1>2, <1>4, <2>1, <2>3, <2>5, <2>6 DEF CarriedDown
<1>5. CASE e = c /\ Eof(d)
  <2>1. pc'[c] = "prompt"
    BY <1>1, <1>5
  <2>2. ~ Served(c)' /\ ~ Downloads(c)'
    BY <2>1 DEF InStep, Answered, Downloads
  <2>3. QED
    BY <1>5, <2>1, <2>2, NoDown
<1>6. QED
  BY <1>3, <1>4, <1>5

LEMMA ClientSendsDown ==
    ASSUME TypesHold, InStep, InStep', NEW c \in Client, ClientSends(c),
           NEW e \in Client, CarriedDown(e)
    PROVE  CarriedDown(e)'
<1>1. PICK m \in Packet :
          /\ inbox' = Post(Server, m) /\ pc'[c] \in {"prompt", "sending"}
          /\ \A g \in Client : g # c => fp'[g] = fp[g] /\ pc'[g] = pc[g]
          /\ UNCHANGED <<cmd, written, spc, sfp, remote, snext, faults>>
  BY ClientSendsIs
<1>2. \A g \in Client : inbox'[g] = inbox[g] /\ Served(g)' = Served(g)
  BY <1>1, HostFacts, PostIs DEF Served
<1>3. CASE e # c
  BY <1>1, <1>2, <1>3, DownFrame
<1>4. CASE e = c
  <2>1. ~ Served(c)' /\ ~ Downloads(c)'
    BY <1>1 DEF InStep, Answered, Downloads
  <2>2. QED
    BY <1>1, <1>4, <2>1, NoDown
<1>5. QED
  BY <1>3, <1>4

LEMMA ServerCommandDown ==
    ASSUME TypesHold, InStep, ServerCommand, NEW e \in Client, CarriedDown(e)
    PROVE  CarriedDown(e)'
<1>1. PICK c \in Client, m \in Packet :
          /\ spc = "ready" /\ remote' = c /\ m.kind = "msg"
          /\ pc[c] = "waiting" /\ inbox[c] = <<>>
          /\ Head(inbox'[c]) = m /\ ToSet(inbox'[c]) = {m}
          /\ \A g \in Client : g # c => inbox'[g] = inbox[g]
          /\ \/ /\ m.type = GET_START /\ spc' = "sending" /\ sfp' = fp[c] /\ snext' = 1
                /\ cmd[c].type = CMD_GET /\ UNCHANGED written
             \/ /\ m.type = PUT_START /\ spc' = "receiving"
                /\ written' = [written EXCEPT ![Server] = {}]
             \/ m.type = MSG_RESP /\ spc' # "sending" /\ UNCHANGED written
          /\ UNCHANGED <<pc, cmd, fp, faults>>
  BY ServerCommandGives
<1>2. /\ \A g \in Client : ~ Served(g) /\ (Served(g)' <=> g = c /\ spc' = "sending")
      /\ GET_START # PUT_START /\ GET_START # MSG_RESP
  BY <1>1 DEF Served, GET_START, PUT_START, MSG_RESP
<1>3. \A g \in Client : written'[g] = written[g]
  BY <1>1, HostFacts DEF TypesHold, FileTypes
<1>4. CASE e # c
  BY <1>1, <1>2, <1>3, <1>4, DownFrame
<1>5. CASE e = c /\ m.type = GET_START
  <2>1. spc' = "sending" /\ sfp' = fp[c] /\ snext' = 1 /\ cmd[c].type = CMD_GET
    BY <1>1, <1>2, <1>5
  <2>2. written[c] = {}
    BY <1>1, <1>5, <2>1 DEF CarriedDown
  <2>3. SentDown(c)' = 0
    BY <1>2, <2>1 DEF SentDown
  <2>4. Arriving(inbox'[c], {}, faults.lost, Server, fp[c], SentDown(c)')
    BY <1>1, <2>3, Counts, StartsArriving
  <2>5. QED
    BY <1>1, <1>3, <1>5, <2>1, <2>2, <2>4 DEF CarriedDown
<1>6. CASE e = c /\ m.type # GET_START
  <2>1. ~ Downloads(c)' /\ ~ Served(c)'
    BY <1>1, <1>2, <1>6 DEF Downloads
  <2>2. written[c] = {} \/ cmd[c].type # CMD_GET
    BY <1>1, <1>6 DEF CarriedDown
  <2>3. QED
    BY <1>1, <1>3, <1>6, <2>1, <2>2, NoDown
<1>7. QED
  BY <1>4, <1>5, <1>6

LEMMA ServerSendsDown ==
    ASSUME TypesHold, InStep, ServerSends, NEW e \in Client, CarriedDown(e)
    PROVE  CarriedDown(e)'
<1>0. PICK m \in Packet, c \in Client : m = Data(Server, sfp, snext) /\ c = remote
  BY ServerSendsIs
<1>1. /\ spc = "sending" /\ inbox' = Post(c, m) /\ remote = c /\ remote' = c
      /\ m.from = Server /\ m.kind = "data" /\ m.re = snext /\ m.file = sfp
      /\ (Eof(m) <=> snext = Packets) /\ snext' = snext + 1 /\ snext \in 1 .. Packets
      /\ IF Eof(m) THEN spc' = "ready" ELSE spc' = "sending" /\ sfp' = sfp
      /\ UNCHANGED <<pc, cmd, fp, written, faults>>
  BY <1>0, ServerSendsIs
<1>2. /\ ToSet(inbox'[c]) = ToSet(inbox[c]) \cup {m}
      /\ Head(inbox'[c]) = IF inbox[c] = <<>> THEN m ELSE Head(inbox[c])
      /\ \A g \in Client : g # c => inbox'[g] = inbox[g]
  BY <1>1, PostIs, HostFacts
<1>3. /\ Served(c) /\ \A g \in Client : g # c => ~ Served(g) /\ ~ Served(g)'
      /\ Served(c)' <=> ~ Eof(m)
  BY <1>1 DEF Served
<1>4. CASE e # c
  BY <1>1, <1>2, <1>3, <1>4, DownFrame
<1>5. CASE e = c
  <2>1. Downloads(c) /\ sfp = fp[c]
    BY <1>3, <1>5, ServedDownloads DEF CarriedDown
  <2>2. SentDown(c) = snext - 1 /\ SentDown(c) \in Nat
    BY <1>3, Counts DEF SentDown
  <2>3. SentDown(c)' = SentDown(c) + 1 /\ m.re = SentDown(c) + 1
    BY <1>1, <1>3, <2>2, PacketsFact DEF SentDown
  <2>4. Arriving(inbox[c], written[c], faults.lost, Server, fp[c], SentDown(c))
    BY <1>5, <2>1 DEF CarriedDown
  <2>5. Arriving(inbox'[c], written[c], faults.lost, Server, fp[c], SentDown(c) + 1)
    <3>1. /\ m.kind = "data" /\ m.from = Server /\ m.file = fp[c] /\ faults.lost \in Nat
          /\ ToSet(inbox'[c]) = ToSet(inbox[c]) \cup {m}
      BY <1>1, <1>2, <2>1, Counts
    <3>2. QED
      BY <2>2, <2>3, <2>4, <3>1, SendsArriving
  <2>6. pc'[c] = "waiting" /\ cmd'[c].type = CMD_GET => written'[c] = {}
    BY <1>1, <1>5 DEF CarriedDown
  <2>7. Served(c)' => sfp' = fp'[c]
    BY <1>1, <1>3, <2>1
  <2>8. QED
    BY <1>1, <1>5, <2>3, <2>5, <2>6, <2>7 DEF CarriedDown
<1>6. QED
  BY <1>4, <1>5

LEMMA ServerReceivesDown ==
    ASSUME TypesHold, ServerReceives, NEW e \in Client, CarriedDown(e)
    PROVE  CarriedDown(e)'
<1>1. /\ spc = "receiving" /\ spc' # "sending" /\ inbox' = Take(Server)
      /\ inbox[Server] # <<>>
      /\ UNCHANGED <<pc, cmd, fp, faults>>
      /\ written' = written \/ \E x : written' = [written EXCEPT ![Server] = x]
  BY ServerReceivesIs
<1>2. ~ Served(e) /\ ~ Served(e)' /\ inbox'[e] = inbox[e]
  BY <1>1, HostFacts, TakeIs DEF Served
<1>3. written'[e] = written[e]
  BY <1>1, HostFacts DEF TypesHold, FileTypes
<1>4. QED
  BY <1>1, <1>2, <1>3, DownFrame

\* What the network does to the queues counts as lost.
LEMMA NetworkCounts ==
    ASSUME TypesHold, InStep, NEW h \in Host, Network(h), ~ faults'.control
    PROVE  /\ UNCHANGED <<pc, cmd, fp, next, written, sfp, outcome>>
           /\ \A c \in Client : SentUp(c)' = SentUp(c) /\ SentDown(c)' = SentDown(c)
           /\ \E n \in {0, 1} :
                  /\ faults'.lost = faults.lost + n
                  /\ \A g \in Host : Unharmed(inbox[g], inbox'[g], n) \/ inbox[g] = inbox'[g]
           /\ \A g \in Host : ToSet(inbox'[g]) \subseteq ToSet(inbox[g])
<1>1. /\ UNCHANGED <<pc, cmd, fp, next, written, sfp, snext, outcome>>
      /\ \A g \in Host : g # h => inbox'[g] = inbox[g]
  BY DEF Network
<1>2. \A g \in Host : Keeps(inbox[g], inbox'[g])
  BY NetworkGives
<1>3. \A c \in Client : pc[c] = "waiting" => (inbox'[c] # <<>> <=> inbox[c] # <<>>)
  BY <1>2, NetworkGives, HostFacts DEF Keeps
<1>4. \A c \in Client : SentUp(c)' = SentUp(c)
  BY <1>1, <1>3 DEF SentUp
<1>5. \A c \in Client : SentDown(c)' = SentDown(c)
  BY <1>1, NetworkGives DEF SentDown
<1>6. PICK n \in {0, 1} : faults'.lost = faults.lost + n /\ Unharmed(inbox[h], inbox'[h], n)
  BY DEF Network
<1>7. \A g \in Host : Unharmed(inbox[g], inbox'[g], n) \/ inbox[g] = inbox'[g]
  BY <1>1, <1>6
<1>8. \A g \in Host : ToSet(inbox'[g]) \subseteq ToSet(inbox[g])
  BY <1>2 DEF Keeps
<1>9. QED
  BY <1>1, <1>4, <1>5, <1>6, <1>7, <1>8

LEMMA NetworkDown ==
    ASSUME TypesHold, InStep, NEW h \in Host, Network(h), ~ faults'.control,
           NEW e \in Client, CarriedDown(e)
    PROVE  CarriedDown(e)'
<1>1. /\ UNCHANGED <<pc, cmd, fp, written, sfp>>
      /\ SentDown(e)' = SentDown(e) /\ ToSet(inbox'[e]) \subseteq ToSet(inbox[e])
  BY NetworkCounts, HostFacts
<1>2. PICK n \in {0, 1} :
          /\ faults'.lost = faults.lost + n
          /\ Unharmed(inbox[e], inbox'[e], n) \/ inbox[e] = inbox'[e]
  BY NetworkCounts, HostFacts
<1>3. Served(e)' = Served(e) /\ (Downloads(e)' => Downloads(e))
  BY NetworkGives
<1>4. Downloads(e)' => Arriving(inbox'[e], written[e], faults'.lost, Server, fp[e], SentDown(e))
  <2> SUFFICES ASSUME Downloads(e)'
               PROVE  Arriving(inbox'[e], written[e], faults'.lost, Server, fp[e], SentDown(e))
    OBVIOUS
  <2>1. Arriving(inbox[e], written[e], faults.lost, Server, fp[e], SentDown(e))
    BY <1>3 DEF CarriedDown
  <2>2. Arriving(inbox'[e], written[e], faults.lost + n, Server, fp[e], SentDown(e))
    BY <1>1, <1>2, <2>1, Counts, LosesArriving
  <2>3. QED
    BY <1>2, <2>2
<1>5. QED
  BY <1>1, <1>3, <1>4 DEF CarriedDown

-----------------------------------------------------------------------------
(* The same for what a client puts.                                        *)

\* A step that an upload has no part in.
LEMMA UpFrame ==
    ASSUME NEW e \in Client, CarriedUp(e), UNCHANGED <<faults, sfp>>,
           pc'[e] = pc[e], fp'[e] = fp[e], next'[e] = next[e],
           inbox'[e] = inbox[e], inbox'[Server] = inbox[Server],
           written'[Server] = written[Server]
    PROVE  CarriedUp(e)'
<1>1. Uploads(e)' <=> Uploads(e)
  BY DEF Uploads
<1>2. SentUp(e)' = SentUp(e)
  BY DEF SentUp
<1>3. QED
  BY <1>1, <1>2 DEF CarriedUp

LEMMA NoUp ==
    ASSUME NEW e \in Client, ~ Uploads(e)'
    PROVE  CarriedUp(e)'
BY DEF CarriedUp, Uploads

LEMMA CommandUp ==
    ASSUME TypesHold, InStep, NEW c \in Client, Command(c),
           NEW e \in Client, CarriedUp(e)
    PROVE  CarriedUp(e)'
<1>1. PICK k \in Commands, m \in Packet :
          /\ m.kind = "msg"
          /\ pc[c] = "prompt" /\ pc'[c] = "waiting" /\ inbox' = Post(Server, m)
          /\ written' = IF k.type = CMD_GET THEN [written EXCEPT ![c] = {}] ELSE written
          /\ \A d \in Client : d # c => fp'[d] = fp[d] /\ pc'[d] = pc[d]
          /\ UNCHANGED <<next, sfp, faults>>
  BY CommandIs
<1>2. /\ \A d \in Client : inbox'[d] = inbox[d]
      /\ ToSet(inbox'[Server]) = ToSet(inbox[Server]) \cup {m}
  BY <1>1, HostFacts, PostIs
<1>3. written'[Server] = written[Server]
  BY <1>1, HostFacts DEF TypesHold, FileTypes
<1>4. inbox[c] = <<>>
  BY <1>1 DEF InStep, Answered
<1>5. Uploads(e)' => Uploads(e)
  BY <1>1, <1>2, <1>4 DEF Uploads
<1>6. SentUp(e)' = SentUp(e)
  BY <1>1, <1>2, <1>4 DEF SentUp
<1>7. Uploads(e)' => Arriving(inbox'[Server], written[Server], faults.lost, e, sfp, SentUp(e))
  <2> SUFFICES ASSUME Uploads(e)
               PROVE  Arriving(inbox'[Server], written[Server], faults.lost, e, sfp, SentUp(e))
    BY <1>5
  <2>1. Arriving(inbox[Server], written[Server], faults.lost, e, sfp, SentUp(e))
    BY DEF CarriedUp
  <2>2. QED
    BY <1>1, <1>2, <2>1, Counts, KeepsArriving
<1>8. Uploads(e)' /\ (pc'[e] = "sending" \/ inbox'[e] # <<>>) => sfp' = fp'[e]
  BY <1>1, <1>2, <1>4, <1>5 DEF CarriedUp
<1>9. ASSUME NEW d \in ToSet(inbox'[Server]), d.kind = "data", d.from = e, pc'[e] # "sending"
      PROVE  next'[e] = Packets + 1
  <2>1. d \in ToSet(inbox[Server]) /\ pc[e] # "sending"
    BY <1>1, <1>2, <1>9
  <2>2. QED
    BY <1>1, <1>9, <2>1 DEF CarriedUp
<1>10. QED
  BY <1>1, <1>3, <1>6, <1>7, <1>8, <1>9 DEF CarriedUp

LEMMA ReplyUp ==
    ASSUME TypesHold, InStep, NEW c \in Client, Reply(c),
           NEW e \in Client, CarriedUp(e)
    PROVE  CarriedUp(e)'
<1>0. PICK d \in Packet : d = Head(inbox[c])
  BY ReplyIs
<1>1. /\ pc[c] = "waiting" /\ inbox[c] # <<>> /\ inbox' = Take(c)
      /\ \/ /\ d.type = PUT_START /\ pc'[c] = "sending" /\ fp'[c] = fp[c] /\ next'[c] = 1
         \/ pc'[c] \in {"receiving", "prompt"}
      /\ \A g \in Client : g # c => /\ fp'[g] = fp[g] /\ pc'[g] = pc[g]
                                    /\ next'[g] = next[g]
      /\ UNCHANGED <<written, sfp, faults>>
  BY <1>0, ReplyIs
<1>2. /\ \A g \in Client : g # c => inbox'[g] = inbox[g]
      /\ inbox'[Server] = inbox[Server]
  BY <1>1, TakeIs, HostFacts
<1>3. \A x \in ToSet(inbox[Server]) : x.kind = "data" => x.from # c
  BY <1>1 DEF InStep, OneUploads
<1>4. CASE e # c
  BY <1>1, <1>2, <1>4, UpFrame
<1>5. CASE e = c /\ pc'[c] = "sending"
  <2>1. Uploads(c) /\ SentUp(c) = 0 /\ SentUp(c)' = 0
    BY <1>0, <1>1, <1>5 DEF Uploads, SentUp
  <2>2. Arriving(inbox[Server], written[Server], faults.lost, c, sfp, 0) /\ sfp = fp[c]
    BY <1>1, <1>5, <2>1 DEF CarriedUp
  <2>3. fp'[c] = fp[c]
    BY <1>1, <1>5
  <2>4. QED
    BY <1>1, <1>2, <1>3, <1>5, <2>1, <2>2, <2>3 DEF CarriedUp
<1>6. CASE e = c /\ pc'[c] # "sending"
  <2>1. ~ Uploads(c)'
    BY <1>1, <1>2, <1>3, <1>6 DEF Uploads
  <2>2. QED
    BY <1>6, <2>1, NoUp
<1>7. QED
  BY <1>4, <1>5, <1>6

LEMMA ClientReceivesUp ==
    ASSUME TypesHold, InStep, InStep', NEW c \in Client, ClientReceives(c),
           NEW e \in Client, CarriedUp(e)
    PROVE  CarriedUp(e)'
<1>1. /\ pc[c] = "receiving" /\ inbox[c] # <<>> /\ inbox' = Take(c)
      /\ pc'[c] = "prompt" \/ UNCHANGED <<pc, fp>>
      /\ written' = written \/ \E x : written' = [written EXCEPT ![c] = x]
      /\ \A g \in Client : g # c => fp'[g] = fp[g] /\ pc'[g] = pc[g]
      /\ UNCHANGED <<next, sfp, faults>>
  BY ClientReceivesIs
<1>2. /\ \A g \in Client : g # c => inbox'[g] = inbox[g]
      /\ inbox'[Server] = inbox[Server]
  BY <1>1, TakeIs, HostFacts
<1>3. written'[Server] = written[Server]
  BY <1>1, HostFacts DEF TypesHold, FileTypes
<1>4. CASE e # c
  BY <1>1, <1>2, <1>3, <1>4, UpFrame
<1>5. CASE e = c
  <2>1. pc'[c] \in {"prompt", "receiving"}
    BY <1>1
  <2>2. Uploads(c)' => Uploads(c)
    BY <1>2, <2>1 DEF Uploads
  <2>3. SentUp(c)' = SentUp(c)
    BY <1>1, <2>1 DEF SentUp
  <2>4. Uploads(c)' /\ (pc'[c] = "sending" \/ inbox'[c] # <<>>) => sfp' = fp'[c]
    <3>1. inbox'[c] # <<>> => UNCHANGED <<pc, fp>>
      BY <1>1 DEF InStep, Answered
    <3>2. QED
      BY <1>1, <1>5, <2>1, <2>2, <3>1 DEF CarriedUp
  <2>5. QED
    BY <1>1, <1>2, <1>3, <1>5, <2>2, <2>3, <2>4 DEF CarriedUp
<1>6. QED
  BY <1>4, <1>5

LEMMA ClientSendsUp ==
    ASSUME TypesHold, InStep, InStep', NEW c \in Client, ClientSends(c),
           NEW e \in Client, CarriedUp(e)
    PROVE  CarriedUp(e)'
<1>0. PICK m \in Packet : m = Data(c, fp[c], next[c])
  BY ClientSendsIs
<1>1. /\ pc[c] = "sending" /\ inbox' = Post(Server, m)
      /\ m.from = c /\ m.kind = "data" /\ m.re = next[c] /\ m.file = fp[c]
      /\ (Eof(m) <=> next[c] = Packets) /\ next[c] \in 1 .. Packets
      /\ next'[c] = next[c] + 1
      /\ IF Eof(m) THEN pc'[c] = "prompt" ELSE pc'[c] = "sending" /\ fp'[c] = fp[c]
      /\ \A g \in Client : g # c => fp'[g] = fp[g] /\ pc'[g] = pc[g]
      /\ UNCHANGED <<written, sfp, faults>>
  BY <1>0, ClientSendsIs
<1>2. /\ \A d \in Client : inbox'[d] = inbox[d]
      /\ ToSet(inbox'[Server]) = ToSet(inbox[Server]) \cup {m}
  BY <1>1, HostFacts, PostIs
<1>3. Uploads(c)
  BY <1>1 DEF Uploads
<1>4. CASE e # c
  <2>1. ~ Uploads(e)
    BY <1>3, <1>4 DEF InStep, OneUploads
  <2>2. ~ Uploads(e)'
    BY <1>1, <1>2, <1>4, <2>1 DEF Uploads
  <2>3. QED
    BY <2>2, NoUp
<1>5. CASE e = c
  <2>1. sfp = fp[c]
    BY <1>1, <1>3, <1>5 DEF CarriedUp
  <2>2. SentUp(c) = next[c] - 1 /\ SentUp(c) \in Nat
    BY <1>1, Counts DEF SentUp
  <2>3. SentUp(c)' = SentUp(c) + 1 /\ m.re = SentUp(c) + 1
    <3>1. SentUp(c)' = next'[c] - 1
      BY <1>1 DEF SentUp
    <3>2. QED
      BY <1>1, <2>2, <3>1
  <2>4. Arriving(inbox[Server], written[Server], faults.lost, c, sfp, SentUp(c))
    BY <1>3, <1>5 DEF CarriedUp
  <2>5. Arriving(inbox'[Server], written[Server], faults.lost, c, sfp, SentUp(c) + 1)
    <3>1. m.kind = "data" /\ m.from = c /\ m.file = sfp /\ faults.lost \in Nat
      BY <1>1, <2>1, Counts
    <3>2. QED
      BY <1>2, <2>2, <2>3, <2>4, <3>1, SendsArriving
  <2>6. pc'[c] = "sending" \/ inbox'[c] # <<>> => sfp' = fp'[c]
    <3>1. pc'[c] = "prompt" => inbox'[c] = <<>>
      BY DEF InStep, Answered
    <3>2. QED
      BY <1>1, <2>1, <3>1
  <2>7. pc'[c] # "sending" => next'[c] = Packets + 1
    BY <1>1
  <2>8. QED
    BY <1>1, <1>5, <2>3, <2>5, <2>6, <2>7 DEF CarriedUp
<1>6. QED
  BY <1>4, <1>5

LEMMA ServerCommandUp ==
    ASSUME TypesHold, InStep, ServerCommand, NEW e \in Client
    PROVE  CarriedUp(e)'
<1>1. PICK c \in Client, m \in Packet :
          /\ spc = "ready"
          /\ pc[c] = "waiting" /\ inbox'[c] # <<>> /\ Head(inbox'[c]) = m
          /\ \A g \in Client : g # c => inbox'[g] = inbox[g]
          /\ \A g \in ToSet(inbox'[Server]) : g.kind = "msg"
          /\ \/ m.type = GET_START
             \/ /\ m.type = PUT_START /\ sfp' = fp[c]
                /\ written' = [written EXCEPT ![Server] = {}]
             \/ m.type = MSG_RESP
          /\ UNCHANGED <<pc, fp, next, faults>>
  BY ServerCommandGives
<1>2. GET_START # PUT_START /\ MSG_RESP # PUT_START
  BY DEF GET_START, PUT_START, MSG_RESP
<1>3. ~ Uploads(e)
  BY <1>1, NoneUploads
<1>4. CASE e = c /\ m.type = PUT_START
  <2>1. sfp' = fp[c] /\ written'[Server] = {}
    BY <1>1, <1>2, <1>4, HostFacts DEF TypesHold, FileTypes
  <2>2. SentUp(c)' = 0
    BY <1>1 DEF SentUp
  <2>3. Arriving(inbox'[Server], {}, faults.lost, c, fp[c], SentUp(c)')
    BY <1>1, <2>2, Counts, StartsArriving
  <2>4. QED
    BY <1>1, <1>4, <2>1, <2>3 DEF CarriedUp
<1>5. CASE ~ (e = c /\ m.type = PUT_START)
  <2>1. ~ Uploads(e)'
    BY <1>1, <1>3, <1>5 DEF Uploads
  <2>2. QED
    BY <2>1, NoUp
<1>6. QED
  BY <1>4, <1>5

LEMMA ServerSendsUp ==
    ASSUME TypesHold, InStep', ServerSends, NEW e \in Client
    PROVE  CarriedUp(e)'
<1>1. spc' # "receiving"
  BY ServerSendsIs
<1>2. ~ Uploads(e)'
  BY <1>1 DEF InStep, OneUploads
<1>3. QED
  BY <1>2, NoUp

\* Of one client the server reads the data before the next command.
LEMMA ServerReceivesUp ==
    ASSUME TypesHold, InStep, InStep', ServerReceives,
           NEW e \in Client, CarriedUp(e), \A c \in Client : c = e
    PROVE  CarriedUp(e)'
<1>0. PICK d \in Packet : d = Head(inbox[Server])
  BY ServerReceivesIs
<1>1. /\ inbox[Server] # <<>> /\ inbox' = Take(Server) /\ d.from \in Client
      /\ d.kind \in {"msg", "data"}
      /\ \/ Eof(d) /\ spc' = "ready"
         \/ /\ ~ Eof(d) /\ UNCHANGED sfp
            /\ written' = [written EXCEPT ![Server] = @ \cup Writes(d)]
      /\ UNCHANGED <<pc, fp, next, faults>>
  BY <1>0, ServerReceivesIs
<1>2. /\ inbox'[Server] = Tail(inbox[Server])
      /\ ToSet(inbox[Server]) = {d} \cup ToSet(inbox'[Server])
      /\ \A g \in Client : inbox'[g] = inbox[g]
  BY <1>0, <1>1, TakeIs, HostFacts
<1>3. Uploads(e)' => Uploads(e)
  BY <1>1, <1>2 DEF Uploads
<1>4. SentUp(e)' = SentUp(e)
  BY <1>1, <1>2 DEF SentUp
<1>5. ASSUME Uploads(e)' PROVE d.kind = "data" /\ ~ Eof(d)
  <2>1. spc' = "receiving"
    BY <1>5 DEF InStep, OneUploads
  <2>2. d.from = e
    BY <1>1
  <2>3. ASSUME d.kind = "msg" PROVE FALSE
    <3>1. pc[e] = "waiting" /\ inbox[e] = <<>>
      BY <1>2, <2>2, <2>3 DEF InStep, Commanded
    <3>2. PICK x \in ToSet(inbox'[Server]) : x.kind = "data" /\ x.from = e
      BY <1>1, <1>2, <1>5, <3>1 DEF Uploads
    <3>3. inbox[Server] \in Seq(Packet) /\ Sorted(inbox[Server])
      BY QueueFacts, HostFacts DEF InStep
    <3>4. d.kind = "data"
      BY <1>0, <1>1, <1>2, <2>2, <3>2, <3>3, TakenOrder
    <3>5. QED
      BY <2>3, <3>4
  <2>4. QED
    BY <1>1, <2>1, <2>3
<1>6. Uploads(e)' => Arriving(inbox'[Server], written'[Server], faults.lost, e, sfp, SentUp(e))
  <2> SUFFICES ASSUME Uploads(e)'
               PROVE  Arriving(inbox'[Server], written'[Server], faults.lost, e, sfp, SentUp(e))
    OBVIOUS
  <2>1. Arriving(inbox[Server], written[Server], faults.lost, e, sfp, SentUp(e))
    BY <1>3 DEF CarriedUp
  <2>2. Arriving(inbox'[Server], written[Server] \cup Writes(d), faults.lost, e, sfp, SentUp(e))
    BY <1>2, <1>5, <2>1, Counts, ReadsArriving
  <2>3. written'[Server] = written[Server] \cup Writes(d)
    BY <1>1, <1>5, HostFacts DEF TypesHold, FileTypes
  <2>4. QED
    BY <2>2, <2>3
<1>7. Uploads(e)' => UNCHANGED sfp
  BY <1>1, <1>5
<1>8. \A x \in ToSet(inbox'[Server]) : x \in ToSet(inbox[Server])
  BY <1>2
<1>9. QED
  BY <1>1, <1>2, <1>3, <1>4, <1>6, <1>7, <1>8 DEF CarriedUp

LEMMA NetworkUp ==
    ASSUME TypesHold, InStep, NEW h \in Host, Network(h), ~ faults'.control,
           NEW e \in Client, CarriedUp(e)
    PROVE  CarriedUp(e)'
<1>1. /\ UNCHANGED <<pc, fp, next, written, sfp>>
      /\ SentUp(e)' = SentUp(e)
      /\ ToSet(inbox'[Server]) \subseteq ToSet(inbox[Server])
  BY NetworkCounts, HostFacts
<1>2. PICK n \in {0, 1} :
          /\ faults'.lost = faults.lost + n
          /\ \/ Unharmed(inbox[Server], inbox'[Server], n)
             \/ inbox[Server] = inbox'[Server]
  BY NetworkCounts, HostFacts
<1>3. /\ Uploads(e)' => Uploads(e)
      /\ inbox'[e] # <<>> => inbox[e] # <<>>
  BY NetworkGives, HostFacts DEF Keeps
<1>4. Uploads(e)' => Arriving(inbox'[Server], written[Server], faults'.lost, e, sfp, SentUp(e))
  <2> SUFFICES ASSUME Uploads(e)'
               PROVE  Arriving(inbox'[Server], written[Server], faults'.lost, e, sfp, SentUp(e))
    OBVIOUS
  <2>1. Arriving(inbox[Server], written[Server], faults.lost, e, sfp, SentUp(e))
    BY <1>3 DEF CarriedUp
  <2>2. Arriving(inbox'[Server], written[Server], faults.lost + n, e, sfp, SentUp(e))
    BY <1>1, <1>2, <2>1, Counts, LosesArriving
  <2>3. QED
    BY <1>2, <2>2
<1>5. QED
  BY <1>1, <1>3, <1>4 DEF CarriedUp

-----------------------------------------------------------------------------
(* What a finished transfer has left.                                      *)

LEMMA LostStays ==
    ASSUME TypesHold, [Next]_vars, faults'.lost < 3
    PROVE  faults.lost < 3
<1>1. CASE UNCHANGED vars
  BY <1>1 DEF vars
<1>2. CASE \E c \in Client : Command(c) \/ ClientStep(c)
  BY <1>2, CommandIs, ReplyIs, ClientReceivesIs, ClientSendsIs DEF ClientStep
<1>3. CASE ServerStep
  BY <1>3 DEF ServerStep, ServerCommand, ServerSends, ServerReceives, ServerOnly
<1>4. CASE \E h \in Host : Lose(h) \/ Overtake(h)
  <2>1. PICK h \in Host : Network(h)
    BY <1>4, NetworkSteps
  <2>2. \E n \in {0, 1} : faults'.lost = faults.lost + n
    BY <2>1 DEF Network
  <2>3. QED
    BY <2>2, Counts
<1>5. QED
  BY <1>1, <1>2, <1>3, <1>4 DEF Next

\* Only an end-of-file adds to the outcome.
LEMMA OutcomeComes ==
    ASSUME TypesHold, [Next]_vars, NEW t \in outcome', t \notin outcome
    PROVE  \/ \E c \in Client :
                  /\ pc[c] = "receiving" /\ inbox[c] # <<>> /\ Eof(Head(inbox[c]))
                  /\ t = [host |-> c, from |-> Server, file |-> fp[c], written |-> written[c]]
           \/ LET d == Head(inbox[Server])
              IN  /\ inbox[Server] # <<>> /\ Eof(d)
                  /\ t = [host |-> Server, from |-> d.from, file |-> sfp,
                          written |-> written[Server]]
<1>1. CASE UNCHANGED vars
  BY <1>1 DEF vars
<1>2. CASE \E c \in Client : Command(c) \/ ClientStep(c)
  <2>1. PICK c \in Client : ClientReceives(c)
    BY <1>2, CommandIs, ReplyIs, ClientSendsIs DEF ClientStep
  <2>2. QED
    BY <2>1, ClientReceivesIs
<1>3. CASE ServerStep
  <2>1. ServerReceives
    BY <1>3 DEF ServerStep, ServerCommand, ServerSends
  <2>2. QED
    BY <2>1, ServerReceivesIs
<1>4. CASE \E h \in Host : Lose(h) \/ Overtake(h)
  BY <1>4, NetworkSteps DEF Network
<1>5. QED
  BY <1>1, <1>2, <1>3, <1>4 DEF Next

LEMMA GetsWhole ==
    ASSUME TypesHold, InStep, faults.lost < 3, NEW c \in Client, CarriedDown(c),
           pc[c] = "receiving", inbox[c] # <<>>, Eof(Head(inbox[c]))
    PROVE  written[c] = Whole(Server, fp[c])
<1>1. Downloads(c)
  BY DEF Downloads
<1>2. ~ Served(c) /\ Tail(inbox[c]) = <<>>
  <2>1. EndsWith(inbox[c], Served(c)) /\ Served(c) \in BOOLEAN /\ inbox[c] \in Seq(Packet)
    BY <1>1, QueueFacts, HostFacts DEF InStep, Served
  <2>2. QED
    BY <2>1, TakenOrder
<1>3. \A d \in ToSet(inbox[c]) : Eof(d)
  <2>1. ToSet(inbox[c]) = {Head(inbox[c])} \cup ToSet(Tail(inbox[c]))
    BY QueueFacts, HostFacts, Taken
  <2>2. ToSet(<<>>) = {}
    BY EmptySeq, Contents
  <2>3. QED
    BY <1>2, <2>1, <2>2
<1>4. Arriving(inbox[c], written[c], faults.lost, Server, fp[c], Packets)
  BY <1>1, <1>2 DEF CarriedDown, SentDown
<1>5. QED
  BY <1>3, <1>4, Counts, EndsArriving

LEMMA PutsWhole ==
    ASSUME TypesHold, InStep, faults.lost < 3, NEW e \in Client, CarriedUp(e),
           \A c \in Client : c = e, inbox[Server] # <<>>, Eof(Head(inbox[Server]))
    PROVE  Head(inbox[Server]).from = e /\ written[Server] = Whole(e, sfp)
<1>0. PICK d \in Packet : d = Head(inbox[Server])
  BY HostFacts, QueueFacts, Taken
<1>1. /\ inbox[Server] \in Seq(Packet) /\ Sorted(inbox[Server])
      /\ ToSet(inbox[Server]) = {d} \cup ToSet(Tail(inbox[Server]))
  BY <1>0, QueueFacts, HostFacts, Taken DEF InStep
<1>2. d.kind = "data" /\ d.from = e /\ d \in ToSet(inbox[Server])
  BY <1>0, <1>1, QueueFacts DEF Eof
<1>3. Uploads(e)
  BY <1>2 DEF Uploads
<1>4. pc[e] # "sending" /\ (pc[e] = "waiting" => inbox[e] = <<>>)
  BY <1>0, <1>2 DEF InStep, OneUploads
<1>5. SentUp(e) = Packets
  <2>1. next[e] = Packets + 1
    BY <1>2, <1>4 DEF CarriedUp
  <2>2. SentUp(e) = next[e] - 1
    BY <1>4 DEF SentUp
  <2>3. QED
    BY <2>1, <2>2, PacketsFact
<1>6. \A x \in ToSet(inbox[Server]) : x.kind = "data" => Eof(x)
  <2>1. ASSUME NEW x \in ToSet(Tail(inbox[Server])) PROVE x.kind = "msg"
    <3>1. x.from = e
      BY <1>1, <2>1, QueueFacts
    <3>2. QED
      BY <1>0, <1>1, <1>2, <3>1, TakenOrder
  <2>2. QED
    BY <1>0, <1>1, <2>1
<1>7. Arriving(inbox[Server], written[Server], faults.lost, e, sfp, Packets)
  BY <1>3, <1>5 DEF CarriedUp
<1>8. QED
  BY <1>0, <1>2, <1>6, <1>7, Counts, EndsArriving

\* The downloads, of any number of clients.
GotWhole ==
    ~ faults.control /\ faults.lost < 3 =>
        \A t \in outcome : t.host # Server => t.written = Whole(t.from, t.file)

DownInv ==
    /\ TypesHold /\ (~ faults.control => InStep)
    /\ ~ faults.control => \A c \in Client : CarriedDown(c)
    /\ GotWhole

LEMMA DownInit == Init => DownInv
<1> SUFFICES ASSUME Init PROVE DownInv
  OBVIOUS
<1>1. TypesHold /\ InStep
  BY TypesInit, InStepInit
<1>2. ASSUME NEW c \in Client PROVE CarriedDown(c)
  <2>1. pc[c] = "prompt" /\ spc = "ready"
    BY DEF Init
  <2>2. QED
    BY <2>1 DEF CarriedDown, Downloads, Served
<1>3. GotWhole
  BY DEF Init, GotWhole
<1>4. QED
  BY <1>1, <1>2, <1>3 DEF DownInv

LEMMA DownStep == DownInv /\ [Next]_vars => DownInv'
<1> SUFFICES ASSUME DownInv, [Next]_vars PROVE DownInv'
  OBVIOUS
<1>1. TypesHold /\ TypesHold' /\ (~ faults'.control => InStep')
  BY TypesStep, InStepStep DEF DownInv
<1>2. ASSUME ~ faults'.control
      PROVE  InStep /\ InStep' /\ \A c \in Client : CarriedDown(c)
  <2>1. ~ faults.control
    BY <1>1, <1>2, ControlStays DEF vars
  <2>2. QED
    BY <1>1, <1>2, <2>1 DEF DownInv
<1>3. ASSUME ~ faults'.control, NEW e \in Client PROVE CarriedDown(e)'
  <2>1. TypesHold /\ InStep /\ InStep' /\ CarriedDown(e)
    BY <1>1, <1>2, <1>3
  <2>2. CASE UNCHANGED vars
    BY <2>1, <2>2 DEF vars, CarriedDown, Downloads, Served, SentDown
  <2>3. CASE \E c \in Client : Command(c) \/ ClientStep(c)
    BY <2>1, <2>3, CommandDown, ReplyDown, ClientReceivesDown, ClientSendsDown DEF ClientStep
  <2>4. CASE ServerStep
    BY <2>1, <2>4, ServerCommandDown, ServerSendsDown, ServerReceivesDown DEF ServerStep
  <2>5. CASE \E h \in Host : Lose(h) \/ Overtake(h)
    BY <1>3, <2>1, <2>5, NetworkSteps, NetworkDown
  <2>6. QED
    BY <2>2, <2>3, <2>4, <2>5 DEF Next
<1>4. GotWhole'
  <2> SUFFICES ASSUME ~ faults'.control, faults'.lost < 3,
                      NEW t \in outcome', t.host # Server
               PROVE  t.written = Whole(t.from, t.file)
    BY DEF GotWhole
  <2>1. faults.lost < 3 /\ InStep /\ ~ faults.control
    BY <1>1, <1>2, LostStays, ControlStays DEF vars
  <2>2. CASE t \in outcome
    BY <2>1, <2>2 DEF DownInv, GotWhole
  <2>3. CASE t \notin outcome
    <3>1. PICK c \in Client :
              /\ pc[c] = "receiving" /\ inbox[c] # <<>> /\ Eof(Head(inbox[c]))
              /\ t = [host |-> c, from |-> Server, file |-> fp[c], written |-> written[c]]
      BY <1>1, <2>3, OutcomeComes
    <3>2. written[c] = Whole(Server, fp[c])
      BY <1>1, <1>2, <2>1, <3>1, GetsWhole
    <3>3. QED
      BY <3>1, <3>2
  <2>4. QED
    BY <2>2, <2>3
<1>5. QED
  BY <1>1, <1>3, <1>4 DEF DownInv

\* However many clients there are, what each of them gets is whole when its
\* end-of-file arrives, with any two datagrams lost (receive_file, util.c).
THEOREM DownloadsArrive == Spec => []GotWhole
<1>1. Spec => []DownInv
  BY DownInit, DownStep, PTL DEF Spec
<1>2. DownInv => GotWhole
  BY DEF DownInv
<1>3. QED
  BY <1>1, <1>2, PTL

OneClient == \A c, d \in Client : c = d

UpInv ==
    /\ ~ faults.control => \A c \in Client : CarriedUp(c)
    /\ FilesArrive

LEMMA UpInit == Init => UpInv
<1> SUFFICES ASSUME Init PROVE UpInv
  OBVIOUS
<1>1. ASSUME NEW c \in Client PROVE CarriedUp(c)
  <2>1. pc[c] = "prompt" /\ inbox[Server] = <<>> /\ ToSet(<<>>) = {}
    BY HostFacts, EmptySeq, Contents DEF Init
  <2>2. QED
    BY <2>1 DEF CarriedUp, Uploads
<1>2. FilesArrive
  BY DEF Init, FilesArrive
<1>3. QED
  BY <1>1, <1>2 DEF UpInv

LEMMA UpStep ==
    ASSUME OneClient, DownInv, UpInv, [Next]_vars
    PROVE  UpInv'
<1>1. TypesHold /\ TypesHold' /\ (~ faults'.control => InStep')
  BY TypesStep, InStepStep DEF DownInv
<1>2. ASSUME ~ faults'.control
      PROVE  /\ ~ faults.control /\ InStep /\ InStep'
             /\ \A c \in Client : CarriedDown(c) /\ CarriedUp(c)
  <2>1. ~ faults.control
    BY <1>1, <1>2, ControlStays DEF vars
  <2>2. QED
    BY <1>1, <1>2, <2>1 DEF DownInv, UpInv
<1>3. ASSUME ~ faults'.control, NEW e \in Client PROVE CarriedUp(e)'
  <2>1. TypesHold /\ InStep /\ InStep' /\ CarriedUp(e) /\ \A c \in Client : c = e
    BY <1>1, <1>2, <1>3 DEF OneClient
  <2>2. CASE UNCHANGED vars
    BY <2>1, <2>2 DEF vars, CarriedUp, Uploads, SentUp
  <2>3. CASE \E c \in Client : Command(c) \/ ClientStep(c)
    BY <2>1, <2>3, CommandUp, ReplyUp, ClientReceivesUp, ClientSendsUp DEF ClientStep
  <2>4. CASE ServerStep
    BY <2>1, <2>4, ServerCommandUp, ServerSendsUp, ServerReceivesUp DEF ServerStep
  <2>5. CASE \E h \in Host : Lose(h) \/ Overtake(h)
    BY <1>3, <2>1, <2>5, NetworkSteps, NetworkUp
  <2>6. QED
    BY <2>2, <2>3, <2>4, <2>5 DEF Next
<1>4. FilesArrive'
  <2> SUFFICES ASSUME ~ faults'.control, faults'.lost < 3, NEW t \in outcome'
               PROVE  t.written = Whole(t.from, t.file)
    BY DEF FilesArrive
  <2>1. faults.lost < 3 /\ InStep /\ ~ faults.control
    BY <1>1, <1>2, LostStays
  <2>2. CASE t \in outcome
    BY <2>1, <2>2 DEF UpInv, FilesArrive
  <2>3. CASE t \notin outcome
    <3>1. CASE \E c \in Client :
              /\ pc[c] = "receiving" /\ inbox[c] # <<>> /\ Eof(Head(inbox[c]))
              /\ t = [host |-> c, from |-> Server, file |-> fp[c], written |-> written[c]]
      BY <1>1, <1>2, <2>1, <3>1, GetsWhole
    <3>2. CASE LET d == Head(inbox[Server])
               IN  /\ inbox[Server] # <<>> /\ Eof(d)
                   /\ t = [host |-> Server, from |-> d.from, file |-> sfp,
                           written |-> written[Server]]
      <4>1. PICK e \in Client : CarriedUp(e) /\ \A c \in Client : c = e
        BY <1>1, <1>2 DEF OneClient, TypesHold, ServerTypes
      <4>2. Head(inbox[Server]).from = e /\ written[Server] = Whole(e, sfp)
        BY <1>1, <2>1, <3>2, <4>1, PutsWhole
      <4>3. QED
        BY <3>2, <4>2
    <3>3. QED
      BY <1>1, <2>3, <3>1, <3>2, OutcomeComes
  <2>4. QED
    BY <2>2, <2>3
<1>5. QED
  BY <1>3, <1>4 DEF UpInv

\* Of a file, each chunk is written or no more of its three copies are missing
\* than were lost; so what one client gets and puts arrives whole.
THEOREM FileInvariant == OneClient /\ Spec => []FileInv
<1> DEFINE Inv == OneClient /\ DownInv /\ UpInv
<1>1. OneClient /\ Init => Inv
  BY DownInit, UpInit
<1>2. Inv /\ [Next]_vars => Inv'
  BY DownStep, UpStep DEF OneClient
<1>3. Inv => (TypeOK /\ Placed)
  BY TypesSplit, Zenon DEF DownInv, TypesHold
<1>4. Inv => FileInv
  BY <1>3 DEF DownInv, UpInv, FileInv, LoopInv
<1> HIDE DEF Inv
<1>5. OneClient /\ Spec => []Inv
  BY <1>1, <1>2, PTL DEF Spec
<1>6. QED
  BY <1>4, <1>5, PTL

\* As long as data packets are all that is lost or overtaken, and fewer than
\* three of them are lost, a transfer that has ended has left the whole file:
\* send_file and receive_file, with one client.
THEOREM FilesArriveWhole == OneClient /\ Spec => []FilesArrive
<1>1. FileInv => FilesArrive
  BY DEF FileInv
<1>2. QED
  BY <1>1, FileInvariant, PTL
=============================================================================
