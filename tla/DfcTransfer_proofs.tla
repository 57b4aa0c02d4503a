------------------------- MODULE DfcTransfer_proofs -------------------------
(* The bytes of a file come home, for every length of the file and the     *)
(* key, every number of pieces and every size of a packet.                 *)
EXTENDS DfcTransfer, TLAPS, SequenceTheorems

-----------------------------------------------------------------------------
(* Arithmetic.                                                             *)

LEMMA DivMod ==
    ASSUME NEW d \in Nat \ {0}, NEW o \in Nat
    PROVE  \E q \in Nat, m \in 0 .. d - 1 : q = o \div d /\ m = o % d /\ o = d * q + m
<1>1. o % d \in Int
  OBVIOUS
<1>2. 0 <= o % d
  OBVIOUS
<1>3. o % d < d
  OBVIOUS
<1>4. o \div d \in Int
  OBVIOUS
<1>5. o - (o % d) = d * (o \div d)
  OBVIOUS
<1> DEFINE q == o \div d
           m == o % d
<1>6. q \in Int /\ m \in Int /\ 0 <= m /\ m < d /\ o - m = d * q
  BY <1>1, <1>2, <1>3, <1>4, <1>5
<1>7. q = o \div d /\ m = o % d
  OBVIOUS
<1> HIDE DEF q, m
<1>8. m \in 0 .. d - 1 /\ o = d * q + m
  BY <1>6
<1>9. ASSUME q <= -1 PROVE FALSE
  <2>1. -1 - q \in Nat
    BY <1>6, <1>9
  <2>2. d * (-1 - q) >= 0
    BY <2>1
  <2>3. d * (-1 - q) = 0 - d - d * q
    BY <1>6
  <2>4. QED
    BY <1>6, <1>8, <2>2, <2>3
<1>10. q \in Nat
  BY <1>6, <1>9
<1>11. QED
  BY <1>7, <1>8, <1>10

\* There is one way to divide with a remainder.
LEMMA RemainderUnique ==
    ASSUME NEW d \in Nat \ {0}, NEW p \in Int, NEW q \in Int,
           NEW r \in 0 .. d - 1, NEW s \in 0 .. d - 1, d * p + r = d * q + s
    PROVE  r = s
<1>1. CASE p = q
  BY <1>1
<1>2. CASE p < q
  <2>1. q - p - 1 \in Nat
    BY <1>2
  <2>2. d * (q - p - 1) >= 0
    BY <2>1
  <2>3. d * (q - p - 1) = d * q - d * p - d
    OBVIOUS
  <2>4. QED
    BY <2>2, <2>3
<1>3. CASE q < p
  <2>1. p - q - 1 \in Nat
    BY <1>3
  <2>2. d * (p - q - 1) >= 0
    BY <2>1
  <2>3. d * (p - q - 1) = d * p - d * q - d
    OBVIOUS
  <2>4. QED
    BY <2>2, <2>3
<1>4. QED
  BY <1>1, <1>2, <1>3

LEMMA ModShift ==
    ASSUME NEW d \in Nat \ {0}, NEW o \in Nat, o % d = 0
    PROVE  /\ (o + d) % d = 0
           /\ \A i \in 0 .. d - 1 : (o + i) % d = i
<1>1. PICK q \in Nat : o = d * q
  BY DivMod
<1>2. ASSUME NEW i \in 0 .. d - 1 PROVE (o + i) % d = i
  <2> DEFINE n == o + i
  <2>1. n \in Nat /\ n = d * q + i
    BY <1>1
  <2> HIDE DEF n
  <2>2. PICK k \in Nat, m \in 0 .. d - 1 : m = n % d /\ n = d * k + m
    BY <2>1, DivMod
  <2>3. m = i
    <3>1. q \in Int /\ k \in Int /\ d * k + m = d * q + i
      BY <2>1, <2>2
    <3>2. QED
      BY <3>1, RemainderUnique
  <2>4. QED
    BY <2>2, <2>3 DEF n
<1>3. (o + d) % d = 0
  <2> DEFINE n == o + d
  <2>1. n \in Nat /\ n = d * (q + 1) + 0
    BY <1>1
  <2> HIDE DEF n
  <2>2. PICK k \in Nat, m \in 0 .. d - 1 : m = n % d /\ n = d * k + m
    BY <2>1, DivMod
  <2>3. m = 0
    <3>1. q + 1 \in Int /\ 0 \in 0 .. d - 1
      OBVIOUS
    <3>2. QED
      BY <2>1, <2>2, <3>1, RemainderUnique
  <2>4. QED
    BY <2>2, <2>3 DEF n
<1>4. QED
  BY <1>2, <1>3

LEMMA Remainder ==
    ASSUME NEW d \in Nat \ {0}, NEW o \in Nat, o < d
    PROVE  o % d = o
<1>1. PICK q \in Nat, m \in 0 .. d - 1 : m = o % d /\ o = d * q + m
  BY DivMod
<1>2. d * 0 + o = d * q + m /\ o \in 0 .. d - 1 /\ 0 \in Int /\ q \in Int
  BY <1>1
<1>3. o = m
  BY <1>2, RemainderUnique
<1>4. QED
  BY <1>1, <1>3

\* The pieces follow each other and reach the end of the file.
LEMMA Starts ==
    ASSUME size \in Nat
    PROVE  /\ psize(size) \in Nat \ {0} /\ Start(0) = 0
           /\ \A p \in Nat : Start(p) \in Nat /\ Start(p + 1) = Start(p) + psize(size)
           /\ Start(NumHosts) >= size
<1>1. NumHosts \in Nat \ {0}
  BY TransferAssumption
<1>2. PICK q \in Nat, m \in 0 .. NumHosts - 1 :
          q = size \div NumHosts /\ size = NumHosts * q + m
  BY <1>1, DivMod
<1>3. \A p : Start(p) = (q + 1) * p
  BY <1>2 DEF Start, psize
<1>4. psize(size) = q + 1
  BY <1>2 DEF psize
<1>5. (q + 1) * NumHosts = NumHosts * q + NumHosts
  BY <1>1, <1>2
<1>6. (q + 1) * NumHosts >= size
  BY <1>1, <1>2, <1>5
<1>7. ASSUME NEW p \in Nat
      PROVE  (q + 1) * p \in Nat /\ (q + 1) * (p + 1) = (q + 1) * p + (q + 1)
  BY <1>2
<1>8. (q + 1) * 0 = 0
  BY <1>2
<1>9. QED
  <2>1. psize(size) \in Nat \ {0} /\ Start(0) = 0 /\ Start(NumHosts) >= size
    BY <1>2, <1>3, <1>4, <1>6, <1>8
  <2>2. ASSUME NEW p \in Nat
        PROVE  Start(p) \in Nat /\ Start(p + 1) = Start(p) + psize(size)
    BY <1>3, <1>4, <1>7
  <2>3. QED
    BY <2>1, <2>2

LEMMA Shares ==
    ASSUME size \in Nat, NEW p \in Nat
    PROVE  /\ Share(p) \in Nat /\ Share(p) <= psize(size) /\ Share(p) <= size
           /\ Share(p) > 0 => Start(p) + Share(p) <= size
           /\ Smaller(size, Start(p + 1)) = Smaller(size, Start(p)) + Share(p)
           /\ Share(p) > 0 => Smaller(size, Start(p)) = Start(p)
<1>1. /\ psize(size) \in Nat \ {0} /\ Start(p) \in Nat
      /\ Start(p + 1) = Start(p) + psize(size)
  BY Starts
<1>2. QED
  BY <1>1 DEF Share, Smaller

LEMMA KeyPlaces ==
    ASSUME NEW j \in Nat \ {0}
    PROVE  KeyPlace(j) \in 0 .. KeyLen - 1
<1>1. DataSizeMax \in Nat \ {0} /\ KeyLen \in Nat \ {0} /\ j - 1 \in Nat
  BY TransferAssumption
<1>2. PICK m \in 0 .. DataSizeMax - 1 : m = (j - 1) % DataSizeMax
  BY <1>1, DivMod
<1>3. m \in Nat
  BY <1>1
<1>4. PICK k \in 0 .. KeyLen - 1 : k = m % KeyLen
  BY <1>1, <1>3, DivMod
<1>5. QED
  BY <1>2, <1>4 DEF KeyPlace

\* A key place within a packet that begins at o.
LEMMA KeyWithin ==
    ASSUME NEW o \in Nat, o % DataSizeMax = 0, NEW i \in 1 .. DataSizeMax
    PROVE  KeyPlace(o + i) = (i - 1) % KeyLen
<1>1. DataSizeMax \in Nat \ {0} /\ i - 1 \in 0 .. DataSizeMax - 1
  BY TransferAssumption
<1>2. (o + (i - 1)) % DataSizeMax = i - 1
  BY <1>1, ModShift
<1>3. (o + i) - 1 = o + (i - 1)
  BY <1>1
<1>4. QED
  BY <1>2, <1>3 DEF KeyPlace

LEMMA SealedAndPlain ==
    ASSUME size \in Nat, NEW p \in Nat
    PROVE  /\ Sealed(p) \in Seq(ByteType) /\ Plain(p) \in Seq(ByteType)
           /\ Len(Sealed(p)) = Share(p) /\ Len(Plain(p)) = Share(p)
           /\ \A j \in 1 .. Share(p) :
                  /\ Sealed(p)[j] = Byte(Start(p) + j, {KeyPlace(j)})
                  /\ Plain(p)[j] = Byte(Start(p) + j, {})
                  /\ Sealed(p)[j] \in ByteType /\ Plain(p)[j] \in ByteType
<1>1. Share(p) \in Nat /\ Start(p) \in Nat
  BY Shares, Starts
<1>2. ASSUME NEW j \in 1 .. Share(p)
      PROVE  /\ Byte(Start(p) + j, {KeyPlace(j)}) \in ByteType
             /\ Byte(Start(p) + j, {}) \in ByteType
  <2>1. Start(p) + j \in Nat /\ j \in Nat \ {0}
    BY <1>1
  <2>2. {KeyPlace(j)} \in SUBSET (0 .. KeyLen - 1) /\ {} \in SUBSET (0 .. KeyLen - 1)
    BY <2>1, KeyPlaces
  <2>3. QED
    BY <2>1, <2>2 DEF Byte, ByteType
<1>3. /\ Sealed(p) \in [1 .. Share(p) -> ByteType] /\ Plain(p) \in [1 .. Share(p) -> ByteType]
      /\ \A j \in 1 .. Share(p) :
             /\ Sealed(p)[j] = Byte(Start(p) + j, {KeyPlace(j)})
             /\ Plain(p)[j] = Byte(Start(p) + j, {})
  BY <1>2 DEF Sealed, Plain
<1>4. /\ Sealed(p) \in Seq(ByteType) /\ Plain(p) \in Seq(ByteType)
      /\ Len(Sealed(p)) = Share(p) /\ Len(Plain(p)) = Share(p)
  BY <1>1, <1>3, SeqDef, LenProperties
<1>5. QED
  BY <1>2, <1>3, <1>4

-----------------------------------------------------------------------------
(* Sequences.                                                              *)

LEMMA PushPair ==
    ASSUME NEW S, NEW q \in Seq(S), NEW a \in S, NEW b \in S
    PROVE  /\ q \o <<a, b>> \in Seq(S) /\ Len(q \o <<a, b>>) = Len(q) + 2
           /\ \A i \in 1 .. Len(q) : (q \o <<a, b>>)[i] = q[i]
           /\ (q \o <<a, b>>)[Len(q) + 1] = a /\ (q \o <<a, b>>)[Len(q) + 2] = b
<1> DEFINE t == <<a, b>>
<1>1. t \in Seq(S) /\ Len(t) = 2 /\ t[1] = a /\ t[2] = b
  OBVIOUS
<1> HIDE DEF t
<1>2. Len(q) \in Nat
  BY LenProperties
<1>3. /\ q \o t \in Seq(S) /\ Len(q \o t) = Len(q) + Len(t)
      /\ \A i \in 1 .. Len(q) + Len(t) :
             (q \o t)[i] = IF i <= Len(q) THEN q[i] ELSE t[i - Len(q)]
  BY <1>1, ConcatProperties
<1>4. \A i \in 1 .. Len(q) : (q \o t)[i] = q[i]
  BY <1>1, <1>2, <1>3
<1>5. (q \o t)[Len(q) + 1] = a
  BY <1>1, <1>2, <1>3
<1>6. (q \o t)[Len(q) + 2] = b
  BY <1>1, <1>2, <1>3
<1>7. QED
  BY <1>1, <1>3, <1>4, <1>5, <1>6 DEF t

LEMMA DropPair ==
    ASSUME NEW S, NEW q \in Seq(S), Len(q) >= 2
    PROVE  /\ SubSeq(q, 3, Len(q)) \in Seq(S) /\ Len(SubSeq(q, 3, Len(q))) = Len(q) - 2
           /\ \A i \in 1 .. Len(q) - 2 : SubSeq(q, 3, Len(q))[i] = q[i + 2]
<1>1. Len(q) \in Nat
  BY LenProperties
<1>2. \A i \in 3 .. Len(q) : q[i] \in S
  BY <1>1, ElementOfSeq
<1>3. /\ SubSeq(q, 3, Len(q)) \in Seq(S)
      /\ Len(SubSeq(q, 3, Len(q))) = Len(q) - 3 + 1
      /\ \A i \in 1 .. Len(q) - 3 + 1 : SubSeq(q, 3, Len(q))[i] = q[3 + i - 1]
  <2> DEFINE n == Len(q)
  <2>1. n \in Int /\ 3 \in Int /\ (\A i \in 3 .. n : q[i] \in S) /\ n >= 2
    BY <1>1, <1>2
  <2> HIDE DEF n
  <2>2. /\ SubSeq(q, 3, n) \in Seq(S)
        /\ Len(SubSeq(q, 3, n)) = IF 3 <= n THEN n - 3 + 1 ELSE 0
        /\ \A i \in 1 .. n - 3 + 1 : SubSeq(q, 3, n)[i] = q[3 + i - 1]
    BY <2>1, SubSeqProperties
  <2>3. (IF 3 <= n THEN n - 3 + 1 ELSE 0) = n - 3 + 1
    BY <2>1
  <2>4. QED
    BY <2>2, <2>3 DEF n
<1>4. QED
  BY <1>1, <1>3

\* Up to n elements of q behind the first f, and their number if q has l of them.
Slice(q, f, n) == SubSeq(q, f + 1, Smaller(f + n, Len(q)))
Room(l, f, n)  == IF f < l THEN Smaller(n, l - f) ELSE 0

\* What is taken from a file is what it has there.
LEMMA Portioned ==
    ASSUME NEW S, NEW q \in Seq(S), NEW f \in Nat, NEW n \in Nat
    PROVE  /\ Slice(q, f, n) \in Seq(S) /\ Len(Slice(q, f, n)) = Room(Len(q), f, n)
           /\ \A i \in 1 .. Room(Len(q), f, n) : Slice(q, f, n)[i] = q[f + i]
<1> DEFINE d == Slice(q, f, n)
           m == Room(Len(q), f, n)
<1>1. Len(q) \in Nat
  BY LenProperties
<1> DEFINE u == Smaller(f + n, Len(q))
<1>2. u \in Nat /\ u <= Len(q) /\ u <= f + n
      /\ m = (IF f + 1 <= u THEN u - f ELSE 0)
  BY <1>1 DEF Smaller, Room
<1>3. d = SubSeq(q, f + 1, u)
  BY DEF Slice
<1> HIDE DEF u, d, m
<1>4. \A i \in f + 1 .. u : q[i] \in S
  BY <1>1, <1>2, ElementOfSeq
<1> DEFINE v == f + 1
<1>5. v \in Int /\ u \in Int /\ (\A i \in v .. u : q[i] \in S)
  BY <1>2, <1>4
<1> HIDE DEF v
<1>6. /\ SubSeq(q, v, u) \in Seq(S)
      /\ Len(SubSeq(q, v, u)) = IF v <= u THEN u - v + 1 ELSE 0
      /\ \A i \in 1 .. u - v + 1 : SubSeq(q, v, u)[i] = q[v + i - 1]
  BY <1>5, SubSeqProperties
<1>7. d = SubSeq(q, v, u)
  BY <1>3 DEF v
<1>8. /\ m \in Nat /\ m = (IF v <= u THEN u - v + 1 ELSE 0)
      /\ \A i \in 1 .. m : i \in 1 .. u - v + 1 /\ v + i - 1 = f + i
  BY <1>2 DEF v
<1>9. d \in Seq(S) /\ Len(d) = m /\ \A i \in 1 .. m : d[i] = q[f + i]
  BY <1>6, <1>7, <1>8
<1>10. QED
  BY <1>9 DEF d, m

-----------------------------------------------------------------------------
(* send_file.                                                              *)

\* The piece in transfer.
LEMMA PieceIs ==
    ASSUME PiecesInv, StageInv, stage \in {"put", "get"}
    PROVE  /\ Piece \in Nat /\ Piece < NumHosts
           /\ stage = "get" => Piece + 1 \in 1 .. Len(stored)
                               /\ stored[Piece + 1] = Sealed(Piece)
<1>1. Len(stored) \in Nat /\ Len(fetched) \in Nat /\ NumHosts \in Nat
  BY LenProperties, TransferAssumption DEF PiecesInv
<1>2. CASE stage = "put"
  BY <1>1, <1>2 DEF Piece, StageInv
<1>3. CASE stage = "get"
  <2>1. Piece = Len(fetched) /\ Len(fetched) < NumHosts /\ Len(stored) = NumHosts
    BY <1>3 DEF Piece, StageInv
  <2>2. Piece + 1 \in 1 .. Len(stored) /\ (Piece + 1) - 1 = Piece
    BY <1>1, <2>1
  <2>3. QED
    BY <1>1, <1>3, <2>1, <2>2 DEF PiecesInv
<1>4. QED
  BY <1>2, <1>3

\* The numbers of one portion: it is what a packet is filled with, and only the
\* last one is short.
LEMMA PortionIs ==
    ASSUME size \in Nat, NEW p \in Nat, SentInv(p), More, stage \in {"put", "get"}
    PROVE  LET n == Portion(tx.n)
               l == IF stage = "put" THEN size ELSE Share(p)
               m == IF tx.fpos < l THEN Smaller(n, l - tx.fpos) ELSE 0
           IN  /\ n \in Nat /\ tx.fpos \in Nat /\ m = Filled(tx.c, p)
               /\ Filled(tx.c, p) \in 0 .. DataSizeMax
               /\ tx.c + Filled(tx.c, p) <= Share(p)
               /\ m < n => tx.c + m = Share(p)
               /\ stage = "put" /\ m < DataSizeMax /\ m >= n => tx.n = m
               /\ stage = "put" => m <= tx.n
               /\ stage = "put" /\ tx.n = m => tx.c + m = Share(p)
               /\ m < DataSizeMax => tx.c + m = Share(p)
<1>1. /\ Share(p) \in Nat /\ Share(p) <= psize(size) /\ psize(size) \in Nat \ {0}
      /\ Start(p) \in Nat /\ DataSizeMax \in Nat \ {0}
  BY Shares, Starts, TransferAssumption
<1>2. CASE stage = "put"
  <2>1. /\ tx.c \in 0 .. Share(p) /\ tx.fpos = tx.c + Start(p)
        /\ tx.n = psize(size) - tx.c /\ tx.n \in Nat /\ tx.n # NoLimit /\ tx.n > 0
    BY <1>1, <1>2 DEF SentInv, More, NoLimit
  <2>2. Portion(tx.n) = IF tx.n < DataSizeMax THEN tx.n ELSE DataSizeMax
    BY <2>1 DEF Portion, Smaller
  <2> DEFINE n == Portion(tx.n)
             m == IF tx.fpos < size THEN Smaller(n, size - tx.fpos) ELSE 0
  <2>3. n \in Nat \ {0} /\ n <= DataSizeMax /\ n <= tx.n /\ (n < DataSizeMax => n = tx.n)
    BY <1>1, <2>1, <2>2
  <2>4. CASE Start(p) < size
    <3>1. /\ Share(p) <= psize(size) /\ Share(p) <= size - Start(p)
          /\ Share(p) = psize(size) \/ Share(p) = size - Start(p)
      BY <1>1, <2>4 DEF Share, Smaller
    <3>2. size - tx.fpos >= Share(p) - tx.c /\ psize(size) - tx.c >= Share(p) - tx.c
          /\ (size - tx.fpos = Share(p) - tx.c \/ tx.n = Share(p) - tx.c)
      BY <1>1, <2>1, <3>1
    <3>3. m = IF tx.fpos < size
              THEN IF n < size - tx.fpos THEN n ELSE size - tx.fpos ELSE 0
      BY DEF Smaller
    <3>4. Filled(tx.c, p) = IF DataSizeMax < Share(p) - tx.c
                            THEN DataSizeMax ELSE Share(p) - tx.c
      BY DEF Filled, Smaller
    <3>5. tx.fpos \in Nat /\ tx.fpos <= size
      BY <1>1, <2>1, <3>2
    <3> HIDE DEF n, m
    <3>6. m \in Nat /\ m <= size - tx.fpos /\ m <= n /\ (m = n \/ m = size - tx.fpos)
      BY <2>3, <3>3, <3>5
    <3>7. m <= Share(p) - tx.c /\ (m = DataSizeMax \/ m = Share(p) - tx.c)
      BY <1>1, <2>1, <2>3, <3>2, <3>6
    <3>8. m = Filled(tx.c, p)
      BY <1>1, <2>1, <2>3, <3>4, <3>6, <3>7
    <3>9. /\ Filled(tx.c, p) \in 0 .. DataSizeMax /\ tx.c + Filled(tx.c, p) <= Share(p)
          /\ m < DataSizeMax => tx.c + m = Share(p)
      BY <1>1, <2>1, <2>3, <3>6, <3>7, <3>8
    <3>10. m < n => tx.c + m = Share(p)
      BY <1>1, <2>1, <2>3, <3>6, <3>9
    <3>11. /\ m < DataSizeMax /\ m >= n => tx.n = m
           /\ m <= tx.n
           /\ tx.n = m => tx.c + m = Share(p)
      BY <1>1, <2>1, <2>3, <3>6, <3>7
    <3>12. n \in Nat
      BY <2>3
    <3>13. QED
      BY <1>2, <3>5, <3>8, <3>9, <3>10, <3>11, <3>12 DEF n, m
  <2>5. CASE ~ Start(p) < size
    <3>1. Share(p) = 0
      BY <2>5 DEF Share
    <3>2. tx.c = 0 /\ tx.fpos = Start(p) /\ ~ tx.fpos < size /\ m = 0
      BY <1>1, <2>1, <2>5, <3>1
    <3>3. Filled(tx.c, p) = 0
      BY <1>1, <3>1, <3>2 DEF Filled, Smaller
    <3>4. QED
      BY <1>1, <1>2, <2>1, <2>3, <3>1, <3>2, <3>3
  <2>6. QED
    BY <2>4, <2>5
<1>3. CASE stage = "get"
  <2>1. tx.c \in 0 .. Share(p) /\ tx.fpos = tx.c /\ tx.n = NoLimit
    BY <1>1, <1>3 DEF SentInv
  <2>2. Portion(tx.n) = DataSizeMax
    BY <2>1 DEF Portion
  <2>3. QED
    BY <1>1, <1>3, <2>1, <2>2 DEF Filled, Smaller
<1>4. QED
  BY <1>2, <1>3

\* A byte sealed on the way up is the byte the server is to hold.
LEMMA SealByte ==
    ASSUME size \in Nat, NEW p \in Nat, NEW o \in 0 .. Share(p), o % DataSizeMax = 0,
           NEW i \in 1 .. Filled(o, p)
    PROVE  /\ o + i \in 1 .. Share(p) /\ i \in 1 .. DataSizeMax
           /\ Sealed(p)[o + i] = Byte(Start(p) + o + i, {(i - 1) % KeyLen})
           /\ Toggle(Byte(Start(p) + o + i, {}), (i - 1) % KeyLen) = Sealed(p)[o + i]
           /\ Toggle(Sealed(p)[o + i], (i - 1) % KeyLen) = Plain(p)[o + i]
<1>1. Share(p) \in Nat /\ DataSizeMax \in Nat \ {0} /\ Start(p) \in Nat
  BY Shares, Starts, TransferAssumption
<1>2. o + i \in 1 .. Share(p) /\ i \in 1 .. DataSizeMax /\ o \in Nat
  BY <1>1 DEF Filled, Smaller
<1>3. KeyPlace(o + i) = (i - 1) % KeyLen
  BY <1>2, KeyWithin
<1>4. /\ Sealed(p)[o + i] = Byte(Start(p) + (o + i), {(i - 1) % KeyLen})
      /\ Plain(p)[o + i] = Byte(Start(p) + (o + i), {})
  BY <1>2, <1>3, SealedAndPlain
<1>5. Start(p) + (o + i) = Start(p) + o + i
  BY <1>1, <1>2
<1>6. \A n, k : Toggle(Byte(n, {}), k) = Byte(n, {k}) /\ Toggle(Byte(n, {k}), k) = Byte(n, {})
  <2>1. ASSUME NEW n, NEW k, NEW K, NEW b, b = [at |-> n, key |-> K]
        PROVE  [b EXCEPT !.key = (@ \ {k}) \cup ({k} \ @)]
                   = [at |-> n, key |-> (K \ {k}) \cup ({k} \ K)]
    BY <2>1
  <2>2. \A n, k, K : Toggle(Byte(n, K), k) = Byte(n, (K \ {k}) \cup ({k} \ K))
    BY <2>1 DEF Toggle, Byte
  <2>3. \A k : ({} \ {k}) \cup ({k} \ {}) = {k} /\ ({k} \ {k}) \cup ({k} \ {k}) = {}
    OBVIOUS
  <2>4. QED
    BY <2>2, <2>3
<1>7. QED
  BY <1>2, <1>4, <1>5, <1>6

\* What one round of send_file does.
LEMMA SendDataGives ==
    ASSUME \A s \in Sizes : s < OffsetRange,
           BytesInv, short = 0, SendData, NEW p, p = Piece, NEW m, m = Filled(tx.c, p)
    PROVE  /\ m \in 0 .. DataSizeMax /\ tx.c + m <= Share(p)
           /\ m < DataSizeMax => tx.c + m = Share(p)
           /\ tx'.c = tx.c + m /\ tx'.fpos = tx.fpos + m /\ tx'.done = tx.done
           /\ tx'.n = IF stage = "put" THEN tx.n - m ELSE NoLimit
           /\ tx'.feof \in BOOLEAN /\ tx' = [fpos |-> tx'.fpos, n |-> tx'.n, c |-> tx'.c,
                                             feof |-> tx'.feof, done |-> tx'.done]
           /\ tx'.feof => tx.c + m = Share(p)
           /\ stage = "put" => m <= tx.n
           /\ stage = "put" /\ tx'.n = 0 => tx.c + m = Share(p)
           /\ m < DataSizeMax => tx'.feof \/ tx'.n = 0
           /\ net' = net \o <<Fields(FALSE, tx.c, m),
                              Body([i \in 1 .. m |-> Sealed(p)[tx.c + i]])>>
<1>1. /\ stage \in {"put", "get"} /\ More /\ ~ tx.done /\ size \in Sizes /\ size \in Nat
      /\ PiecesInv /\ StageInv /\ InTransit(p) /\ SentInv(p)
  BY TransferAssumption DEF SendData, Sending, BytesInv, InTransit
<1>2. /\ p \in Nat /\ (stage = "get" => p + 1 \in 1 .. Len(stored)
                               /\ stored[p + 1] = Sealed(p))
  BY <1>1, PieceIs
<1>3. /\ Share(p) \in Nat /\ Share(p) <= size /\ DataSizeMax \in Nat \ {0} /\ Start(p) \in Nat
      /\ size < OffsetRange /\ OffsetRange \in Nat \ {0}
  BY <1>1, <1>2, Shares, Starts, TransferAssumption
<1> DEFINE l == IF stage = "put" THEN size ELSE Share(p)
           n == Portion(tx.n)
           data == SubSeq(Source, tx.fpos + 1, Smaller(tx.fpos + n, Len(Source)))
           c == tx.c
<1>4. /\ Source \in Seq(ByteType) /\ Len(Source) = l
      /\ \A i \in 1 .. l : Source[i] = IF stage = "put" THEN Byte(i, {}) ELSE Sealed(p)[i]
  <2>1. CASE stage = "put"
    <3>1. Source = [i \in 1 .. size |-> Byte(i, {})]
      BY <2>1 DEF Source, Original
    <3>2. \A i \in 1 .. size : Byte(i, {}) \in ByteType
      BY <1>1 DEF Byte, ByteType
    <3>3. Source \in [1 .. size -> ByteType]
      BY <3>1, <3>2
    <3>4. Source \in Seq(ByteType) /\ Len(Source) = size
      BY <1>1, <3>3, SeqDef, LenProperties
    <3>5. QED
      BY <2>1, <3>1, <3>4
  <2>2. CASE stage = "get"
    BY <1>1, <1>2, <2>2, SealedAndPlain DEF Source
  <2>3. QED
    BY <1>1, <2>1, <2>2
<1>5. /\ n \in Nat /\ tx.fpos \in Nat
      /\ m = (IF tx.fpos < l THEN Smaller(n, l - tx.fpos) ELSE 0)
      /\ m \in 0 .. DataSizeMax /\ c + m <= Share(p)
      /\ m < n => c + m = Share(p)
      /\ stage = "put" /\ m < DataSizeMax /\ m >= n => tx.n = m
      /\ stage = "put" => m <= tx.n
      /\ stage = "put" /\ tx.n = m => c + m = Share(p)
      /\ m < DataSizeMax => c + m = Share(p)
  BY <1>1, <1>2, PortionIs
<1>6. /\ data \in Seq(ByteType) /\ Len(data) = m
      /\ \A i \in 1 .. m : data[i] = Source[tx.fpos + i]
  <2>1. m = Room(Len(Source), tx.fpos, n)
    BY <1>4, <1>5 DEF Room
  <2>2. data = Slice(Source, tx.fpos, n)
    BY DEF Slice
  <2>3. n \in Nat /\ tx.fpos \in Nat /\ Source \in Seq(ByteType)
    BY <1>4, <1>5
  <2> HIDE DEF n, data
  <2>4. Slice(Source, tx.fpos, n) \in Seq(ByteType)
    BY <2>3, Portioned
  <2>5. Len(Slice(Source, tx.fpos, n)) = Room(Len(Source), tx.fpos, n)
    BY <2>3, Portioned
  <2>6. \A i \in 1 .. Room(Len(Source), tx.fpos, n) :
            Slice(Source, tx.fpos, n)[i] = Source[tx.fpos + i]
    BY <2>3, Portioned
  <2>7. QED
    BY <2>1, <2>2, <2>4, <2>5, <2>6
<1>7. /\ tx' = [tx EXCEPT !.fpos = @ + m, !.c = (@ + m) % OffsetRange,
                          !.n = IF @ = NoLimit THEN @ ELSE @ - m,
                          !.feof = AtEnd(m, n)]
      /\ net' = net \o <<Fields(FALSE, c, m), Body(Xor(data, stage = "put"))>>
  BY <1>6 DEF SendData
<1> HIDE DEF data, l, n
<1>8. c \in 0 .. Share(p) /\ c % DataSizeMax = 0
  BY <1>1 DEF SentInv
<1>9. (c + m) % OffsetRange = c + m
  <2>1. c + m \in Nat /\ c + m < OffsetRange
    <3>1. c \in Nat /\ m \in Nat /\ c + m <= Share(p)
      BY <1>3, <1>5, <1>8
    <3>2. QED
      BY <1>1, <1>3, <3>1
  <2> DEFINE x == c + m
  <2> HIDE DEF x
  <2>2. x \in Nat /\ x < OffsetRange => x % OffsetRange = x
    BY <1>3, Remainder
  <2>3. QED
    BY <2>1, <2>2 DEF x
<1>10. Xor(data, stage = "put") = [i \in 1 .. m |-> Sealed(p)[c + i]]
  <2>1. ASSUME NEW i \in 1 .. m
        PROVE  (IF stage = "put" THEN Toggle(data[i], (i - 1) % KeyLen) ELSE data[i])
                   = Sealed(p)[c + i]
    <3>1. /\ c + i \in 1 .. Share(p)
          /\ Toggle(Byte(Start(p) + c + i, {}), (i - 1) % KeyLen) = Sealed(p)[c + i]
      BY <1>1, <1>2, <1>8, SealByte
    <3>2. tx.fpos = c + (IF stage = "put" THEN Start(p) ELSE 0)
      BY <1>1 DEF SentInv
    <3>3. CASE stage = "put"
      <4>1. tx.fpos + i = Start(p) + c + i
        BY <1>3, <1>5, <1>8, <3>2, <3>3
      <4>2. tx.fpos + i \in 1 .. size
        <5>1. Share(p) > 0
          BY <1>3, <3>1
        <5>2. Start(p) + Share(p) <= size
          BY <1>1, <1>2, <5>1, Shares
        <5>3. QED
          BY <1>1, <1>3, <1>8, <3>1, <4>1, <5>2
      <4>3. data[i] = Byte(Start(p) + c + i, {})
        BY <1>4, <1>6, <3>3, <4>1, <4>2 DEF l
      <4>4. QED
        BY <3>1, <3>3, <4>3
    <3>4. CASE stage = "get"
      <4>1. tx.fpos + i = c + i /\ l = Share(p) /\ stage # "put"
        BY <1>3, <1>8, <3>2, <3>4 DEF l
      <4>2. data[i] = Sealed(p)[c + i]
        BY <1>4, <1>6, <3>1, <4>1
      <4>3. QED
        BY <4>1, <4>2
    <3>5. QED
      BY <1>1, <3>3, <3>4
  <2>2. QED
    BY <1>6, <2>1 DEF Xor
<1>11. /\ tx \in [fpos : Nat, n : Int, c : 0 .. Share(p), feof : BOOLEAN, done : BOOLEAN]
       /\ ~ tx.feof /\ tx.n = IF stage = "put" THEN psize(size) - c ELSE NoLimit
       /\ stage = "put" => tx.n # NoLimit
  <2>1. psize(size) \in Nat /\ Share(p) <= psize(size)
    BY <1>1, <1>2, Starts, Shares
  <2>2. QED
    BY <1>1, <1>3, <1>8, <2>1 DEF SentInv, More, NoLimit
<1>12. /\ tx'.fpos = tx.fpos + m /\ tx'.c = c + m /\ tx'.done = tx.done
       /\ tx'.n = (IF stage = "put" THEN tx.n - m ELSE NoLimit)
       /\ tx'.feof = (m < n)
       /\ tx' = [fpos |-> tx'.fpos, n |-> tx'.n, c |-> tx'.c,
                 feof |-> tx'.feof, done |-> tx'.done]
  BY <1>1, <1>7, <1>9, <1>11 DEF AtEnd
<1>13. stage = "put" => tx.n \in Int /\ tx'.n = tx.n - m
  BY <1>11, <1>12
<1>14. m < DataSizeMax => tx'.feof \/ tx'.n = 0
  <2>1. CASE stage = "put"
    <3>1. m \in Nat /\ n \in Nat
      BY <1>3, <1>5
    <3>2. CASE m < n
      BY <1>12, <3>2
    <3>3. CASE m >= n
      BY <1>5, <1>13, <2>1, <3>1, <3>3
    <3>4. QED
      BY <3>1, <3>2, <3>3
  <2>2. CASE stage = "get"
    <3>1. n = DataSizeMax
      BY <1>11, <2>2 DEF n, Portion
    <3>2. QED
      BY <1>12, <3>1
  <2>3. QED
    BY <1>1, <2>1, <2>2
<1>15. stage = "put" /\ tx'.n = 0 => c + m = Share(p)
  BY <1>5, <1>13
<1>16. tx'.feof \in BOOLEAN /\ (tx'.feof => c + m = Share(p))
  <2>1. m < n => c + m = Share(p)
    BY <1>5
  <2>2. tx'.feof = (m < n)
    BY <1>12
  <2>3. QED
    <3>1. CASE m < n
      <4>1. tx'.feof = TRUE
        BY <2>2, <3>1
      <4>2. QED
        BY <2>1, <3>1, <4>1
    <3>2. CASE ~ m < n
      <4>1. (m < n) = FALSE
        BY <3>2
      <4>2. tx'.feof = FALSE
        BY <2>2, <4>1, Zenon
      <4>3. QED
        BY <4>2
    <3>3. QED
      BY <3>1, <3>2
<1>17. QED
  BY <1>5, <1>7, <1>10, <1>12, <1>14, <1>15, <1>16

\* What depends on the length of the file only.
LEMMA SizeFixed ==
    ASSUME size' = size, NEW p
    PROVE  /\ Share(p)' = Share(p) /\ Start(p)' = Start(p) /\ psize(size)' = psize(size)
           /\ Sealed(p)' = Sealed(p) /\ Plain(p)' = Plain(p)
           /\ \A o : Filled(o, p)' = Filled(o, p)
<1>1. Start(p)' = Start(p) /\ psize(size)' = psize(size)
  BY DEF Start, psize
<1>2. Share(p)' = Share(p)
  BY <1>1 DEF Share
<1>3. QED
  BY <1>1, <1>2 DEF Sealed, Plain, Filled

LEMMA CarriesKept ==
    ASSUME size' = size, NEW p, NEW o, NEW k, NEW j, Carries(k, o, p),
           net'[2 * j - 1] = net[2 * k - 1], net'[2 * j] = net[2 * k]
    PROVE  Carries(j, o, p)'
<1>1. Share(p)' = Share(p) /\ Sealed(p)' = Sealed(p) /\ Filled(o, p)' = Filled(o, p)
  BY SizeFixed
<1>2. QED
  BY <1>1 DEF Carries

LEMMA UnitTypes ==
    ASSUME NEW e \in BOOLEAN, NEW o \in Nat, NEW l \in Nat, NEW d \in Seq(ByteType)
    PROVE  Fields(e, o, l) \in UnitType /\ Body(d) \in UnitType
BY DEF Fields, Body, UnitType

LEMMA SendDataStep ==
    ASSUME \A s \in Sizes : s < OffsetRange,
           BytesInv, short = 0, SendData, NEW p, p = Piece
    PROVE  InTransit(p)'
<1> DEFINE m == Filled(tx.c, p)
           c == tx.c
           body == [i \in 1 .. m |-> Sealed(p)[c + i]]
<1>1. /\ stage \in {"put", "get"} /\ More /\ ~ tx.done /\ size \in Nat
      /\ PiecesInv /\ StageInv /\ InTransit(p) /\ SentInv(p) /\ ReceivedInv(p)
      /\ net \in Seq(UnitType)
      /\ UNCHANGED <<size, stage, stored, fetched, file, merged, rx, short>>
  BY TransferAssumption DEF SendData, Sending, BytesInv, InTransit
<1>2. p \in Nat
  BY <1>1, PieceIs
<1>3. /\ Share(p) \in Nat /\ DataSizeMax \in Nat \ {0} /\ Start(p) \in Nat
      /\ psize(size) \in Nat /\ Share(p) <= psize(size)
  BY <1>1, <1>2, Shares, Starts, TransferAssumption
<1>4. c \in 0 .. Share(p) /\ c % DataSizeMax = 0 /\ c \in Nat
      /\ tx.fpos \in Nat /\ tx.n \in Int
      /\ tx.n = IF stage = "put" THEN psize(size) - c ELSE NoLimit
  BY <1>1, <1>3 DEF SentInv
<1>5. /\ m \in 0 .. DataSizeMax /\ c + m <= Share(p)
      /\ m < DataSizeMax => c + m = Share(p)
      /\ tx'.c = c + m /\ tx'.fpos = tx.fpos + m /\ tx'.done = tx.done
      /\ tx'.n = IF stage = "put" THEN tx.n - m ELSE NoLimit
      /\ tx'.feof \in BOOLEAN /\ tx' = [fpos |-> tx'.fpos, n |-> tx'.n, c |-> tx'.c,
                                        feof |-> tx'.feof, done |-> tx'.done]
      /\ tx'.feof => c + m = Share(p)
      /\ stage = "put" => m <= tx.n
      /\ stage = "put" /\ tx'.n = 0 => c + m = Share(p)
      /\ m < DataSizeMax => tx'.feof \/ tx'.n = 0
      /\ net' = net \o <<Fields(FALSE, c, m), Body(body)>>
  BY SendDataGives
<1>6. m = (IF DataSizeMax < Share(p) - c THEN DataSizeMax ELSE Share(p) - c) /\ m \in Nat
  BY <1>3, <1>5 DEF Filled, Smaller
<1> HIDE DEF m
<1>6a. /\ c \in Nat /\ m \in Nat /\ m <= DataSizeMax /\ c + m <= Share(p)
       /\ Share(p) \in Nat /\ tx'.c = c + m
  BY <1>3, <1>4, <1>5, <1>6
<1>7. /\ body \in Seq(ByteType) /\ Fields(FALSE, c, m) \in UnitType /\ Body(body) \in UnitType
  <2>1. \A i \in 1 .. m : c + i \in 1 .. Share(p)
    BY <1>6a
  <2>2. \A i \in 1 .. m : Sealed(p)[c + i] \in ByteType
    BY <1>1, <1>2, <2>1, SealedAndPlain
  <2>3. body \in [1 .. m -> ByteType]
    BY <2>2
  <2>4. body \in Seq(ByteType)
    BY <1>6, <2>3, SeqDef
  <2>5. QED
    BY <1>4, <1>6, <2>4, UnitTypes
<1> HIDE DEF body
<1>8. /\ net' \in Seq(UnitType) /\ Len(net') = Len(net) + 2 /\ Len(net) \in Nat
      /\ \A i \in 1 .. Len(net) : net'[i] = net[i]
      /\ net'[Len(net) + 1] = Fields(FALSE, c, m) /\ net'[Len(net) + 2] = Body(body)
  <2>1. Len(net) \in Nat
    BY <1>1, LenProperties
  <2> DEFINE a == Fields(FALSE, c, m)
             b == Body(body)
  <2>2. a \in UnitType /\ b \in UnitType /\ net' = net \o <<a, b>> /\ net \in Seq(UnitType)
    BY <1>1, <1>5, <1>7
  <2> HIDE DEF a, b
  <2>3. /\ net \o <<a, b>> \in Seq(UnitType) /\ Len(net \o <<a, b>>) = Len(net) + 2
        /\ \A i \in 1 .. Len(net) : (net \o <<a, b>>)[i] = net[i]
        /\ (net \o <<a, b>>)[Len(net) + 1] = a /\ (net \o <<a, b>>)[Len(net) + 2] = b
    BY <2>2, PushPair
  <2>4. QED
    BY <2>1, <2>2, <2>3 DEF a, b
<1>9. /\ Share(p)' = Share(p) /\ Start(p)' = Start(p) /\ psize(size)' = psize(size)
      /\ Sealed(p)' = Sealed(p) /\ Plain(p)' = Plain(p) /\ \A o : Filled(o, p)' = Filled(o, p)
  BY <1>1, SizeFixed
<1>10. More' => m = DataSizeMax /\ (c + m) % DataSizeMax = 0
  <2>1. More' => ~ tx'.feof /\ tx'.n # 0
    BY DEF More, NoLimit
  <2>2. More' => m = DataSizeMax
    BY <1>3, <1>5, <1>6, <2>1
  <2>3. (c + DataSizeMax) % DataSizeMax = 0
    BY <1>3, <1>4, ModShift
  <2>4. QED
    BY <2>2, <2>3
<1>11. ~ More' => tx'.c = Share(p)
  <2>1. ~ More' => tx'.feof \/ (tx'.n # NoLimit /\ ~ tx'.n > 0)
    BY DEF More
  <2>2. CASE stage = "put"
    <3>1. tx'.n \in Nat
      BY <1>4, <1>5, <1>6, <2>2
    <3>2. QED
      BY <1>5, <2>1, <2>2, <3>1
  <2>3. CASE stage = "get"
    BY <1>5, <2>1, <2>3
  <2>4. QED
    BY <1>1, <2>2, <2>3
<1>12. SentInv(p)'
  <2>1. tx' \in [fpos : Nat, n : Int, c : 0 .. Share(p), feof : BOOLEAN, done : BOOLEAN]
    <3>1. /\ tx'.fpos \in Nat /\ tx'.n \in Int /\ tx'.c \in 0 .. Share(p)
          /\ tx'.feof \in BOOLEAN /\ tx'.done \in BOOLEAN
      <4>1. tx'.done \in BOOLEAN
        <5>1. tx.done \in BOOLEAN
          BY <1>1 DEF SentInv
        <5>2. tx'.done = tx.done
          BY <1>5
        <5>3. QED
          BY <5>1, <5>2
      <4>2. tx'.c \in 0 .. Share(p) /\ tx'.fpos \in Nat
        <5>1. tx'.fpos = tx.fpos + m /\ tx.fpos \in Nat
          BY <1>4, <1>5
        <5>2. QED
          BY <1>6a, <5>1
      <4>3. tx'.n \in Int
        BY <1>4, <1>5, <1>6 DEF NoLimit
      <4>4. QED
        BY <1>5, <4>1, <4>2, <4>3
    <3>2. QED
      BY <1>5, <3>1
  <2>2. tx'.fpos = tx'.c + (IF stage = "put" THEN Start(p) ELSE 0)
    <3> DEFINE s == IF stage = "put" THEN Start(p) ELSE 0
    <3>1. s \in Nat /\ tx.fpos = c + s
      BY <1>1, <1>3 DEF SentInv
    <3>2. tx'.fpos = tx.fpos + m
      BY <1>5
    <3> HIDE DEF s, c
    <3>3. tx'.fpos = tx'.c + s
      BY <1>6a, <3>1, <3>2
    <3>4. QED
      BY <3>3 DEF s
  <2>3. tx'.n = IF stage = "put" THEN psize(size) - tx'.c ELSE NoLimit
    BY <1>3, <1>4, <1>5, <1>6
  <2>4. ~ tx'.done
    BY <1>1, <1>5
  <2>5. IF More' THEN tx'.c % DataSizeMax = 0 /\ ~ tx'.done ELSE tx'.c = Share(p)
    BY <1>5, <1>10, <1>11, <2>4
  <2>6. QED
    BY <1>1, <1>9, <2>1, <2>2, <2>3, <2>5 DEF SentInv
<1>13. ReceivedInv(p)'
  BY <1>1, <1>9 DEF ReceivedInv
<1>14. PICK w \in 0 .. Len(net) : StreamInv(p, w)
  BY <1>1 DEF InTransit
<1>15. Len(net) = 2 * w /\ w \in Nat /\ c = Offset(w + 1)
  BY <1>1, <1>8, <1>14 DEF StreamInv
<1>16. Len(rx.out) \in Nat /\ \A k : Offset(k)' = Offset(k)
  BY <1>1, LenProperties DEF ReceivedInv, Offset
<1>17. Offset(w + 2) = c + DataSizeMax
  <2>1. (w + 2 - 1) * DataSizeMax = (w + 1 - 1) * DataSizeMax + DataSizeMax
        /\ (w + 1 - 1) * DataSizeMax \in Nat
    BY <1>3, <1>15
  <2>2. Offset(w + 1) = Len(rx.out) + (w + 1 - 1) * DataSizeMax
        /\ Offset(w + 2) = Len(rx.out) + (w + 2 - 1) * DataSizeMax
    BY DEF Offset
  <2> DEFINE x == (w + 1 - 1) * DataSizeMax
             y == (w + 2 - 1) * DataSizeMax
  <2>3. y = x + DataSizeMax /\ x \in Nat /\ Offset(w + 1) = Len(rx.out) + x
        /\ Offset(w + 2) = Len(rx.out) + y
    BY <2>1, <2>2
  <2> HIDE DEF x, y
  <2>4. QED
    <3>1. Len(rx.out) \in Nat /\ DataSizeMax \in Nat /\ c = Offset(w + 1)
      BY <1>3, <1>15, <1>16
    <3> DEFINE l == Len(rx.out)
               u == Offset(w + 1)
               v == Offset(w + 2)
    <3>2. l \in Nat /\ u = l + x /\ v = l + y
      BY <2>3, <3>1
    <3> HIDE DEF l, u, v
    <3>3. v = u + DataSizeMax
      BY <2>3, <3>1, <3>2
    <3>4. QED
      BY <3>1, <3>3 DEF u, v
<1>18. ASSUME NEW k \in 1 .. w + 1
       PROVE  Carries(k, Offset(k), p)'
  <2>1. CASE k = w + 1
    <3>1. /\ Offset(k) \in 0 .. Share(p) /\ Offset(k) % DataSizeMax = 0
          /\ net'[2 * k - 1] = Fields(FALSE, Offset(k), Filled(Offset(k), p))
          /\ net'[2 * k] = Body([i \in 1 .. Filled(Offset(k), p) |-> Sealed(p)[Offset(k) + i]])
      <4>1. 2 * k - 1 = Len(net) + 1 /\ 2 * k = Len(net) + 2 /\ Offset(k) = c
        BY <1>15, <2>1
      <4>2. QED
        BY <1>4, <1>8, <4>1 DEF m, body
    <3>2. QED
      BY <1>9, <1>16, <3>1 DEF Carries
  <2>2. CASE k # w + 1
    <3>1. k \in 1 .. w /\ 2 * k - 1 \in 1 .. Len(net) /\ 2 * k \in 1 .. Len(net)
      BY <1>15, <2>2
    <3>2. Carries(k, Offset(k), p)
      BY <1>14, <3>1 DEF StreamInv
    <3>3. net'[2 * k - 1] = net[2 * k - 1] /\ net'[2 * k] = net[2 * k]
      BY <1>8, <3>1
    <3> DEFINE o == Offset(k)
    <3>4. Carries(k, o, p) /\ Offset(k)' = o
      BY <1>16, <3>2
    <3> HIDE DEF o
    <3>5. ASSUME NEW q, q = o
          PROVE  Carries(k, q, p)'
      BY <1>1, <3>3, <3>4, <3>5, CarriesKept
    <3>6. QED
      BY <1>9, <1>16, <3>2, <3>3 DEF Carries
  <2>3. QED
    BY <2>1, <2>2
<1>19. StreamInv(p, w + 1)'
  <2>1. Len(net') = 2 * (w + 1) /\ ~ tx'.done
    BY <1>1, <1>5, <1>8, <1>15
  <2>2. tx'.c = Smaller(Share(p), Offset((w + 1) + 1))
    <3>1. (w + 1) + 1 = w + 2
      BY <1>15
    <3> DEFINE u == Offset((w + 1) + 1)
    <3>2. u = c + DataSizeMax
      BY <1>17, <3>1
    <3>3. DataSizeMax \in Nat /\ (m < DataSizeMax => c + m = Share(p))
      BY <1>3, <1>5
    <3> HIDE DEF u, c
    <3>4. tx'.c = IF Share(p) < u THEN Share(p) ELSE u
      BY <1>6a, <3>2, <3>3
    <3>5. QED
      BY <3>4 DEF Smaller, u
  <2>3. More' => tx'.c = Offset((w + 1) + 1)
    BY <1>5, <1>10, <1>15, <1>17
  <2>4. Offset((w + 1) + 1)' = Offset((w + 1) + 1)
    BY <1>16
  <2>5. /\ Len(net)' = 2 * (w + 1) + (IF tx'.done THEN 2 ELSE 0)
        /\ \A k \in 1 .. w + 1 : Carries(k, Offset(k), p)'
    BY <1>18, <2>1
  <2>6. /\ tx'.c = Smaller(Share(p), Offset((w + 1) + 1))'
        /\ More' => tx'.c = Offset((w + 1) + 1)'
    BY <1>9, <2>2, <2>3, <2>4 DEF Smaller
  <2>7. QED
    BY <2>1, <2>5, <2>6 DEF StreamInv
<1>20. w + 1 \in 0 .. Len(net')
  BY <1>8, <1>15
<1>21. QED
  BY <1>8, <1>12, <1>13, <1>19, <1>20 DEF InTransit

LEMMA SendEofStep ==
    ASSUME BytesInv, short = 0, SendEof, NEW p, p = Piece
    PROVE  InTransit(p)'
<1> DEFINE a == Fields(TRUE, 0, 0)
           b == Body(<<>>)
<1>1. /\ stage \in {"put", "get"} /\ ~ More /\ ~ tx.done /\ size \in Nat
      /\ PiecesInv /\ StageInv /\ InTransit(p) /\ SentInv(p) /\ ReceivedInv(p)
      /\ net \in Seq(UnitType)
      /\ tx' = [tx EXCEPT !.done = TRUE] /\ net' = net \o <<a, b>>
      /\ UNCHANGED <<size, stage, stored, fetched, file, merged, rx, short>>
  BY TransferAssumption DEF SendEof, Sending, BytesInv, InTransit
<1>2. /\ tx \in [fpos : Nat, n : Int, c : 0 .. Share(p), feof : BOOLEAN, done : BOOLEAN]
      /\ tx.fpos = tx.c + (IF stage = "put" THEN Start(p) ELSE 0)
      /\ tx.n = IF stage = "put" THEN psize(size) - tx.c ELSE NoLimit
      /\ tx.c = Share(p)
  BY <1>1 DEF SentInv
<1>3. /\ tx'.fpos = tx.fpos /\ tx'.n = tx.n /\ tx'.c = tx.c /\ tx'.feof = tx.feof /\ tx'.done
      /\ tx' \in [fpos : Nat, n : Int, c : 0 .. Share(p), feof : BOOLEAN, done : BOOLEAN]
  BY <1>1, <1>2
<1>4. a \in UnitType /\ b \in UnitType
  <2>1. <<>> \in Seq(ByteType) /\ 0 \in Nat /\ TRUE \in BOOLEAN
    OBVIOUS
  <2>2. QED
    BY <2>1, UnitTypes
<1>5. Len(net) \in Nat
  BY <1>1, LenProperties
<1> HIDE DEF a, b
<1>6. /\ net' \in Seq(UnitType) /\ Len(net') = Len(net) + 2
      /\ \A i \in 1 .. Len(net) : net'[i] = net[i]
      /\ net'[Len(net) + 1] = a /\ net'[Len(net) + 2] = b
  <2>1. /\ net \o <<a, b>> \in Seq(UnitType) /\ Len(net \o <<a, b>>) = Len(net) + 2
        /\ \A i \in 1 .. Len(net) : (net \o <<a, b>>)[i] = net[i]
        /\ (net \o <<a, b>>)[Len(net) + 1] = a /\ (net \o <<a, b>>)[Len(net) + 2] = b
    BY <1>1, <1>4, PushPair
  <2>2. QED
    BY <1>1, <2>1
<1>7. /\ Share(p)' = Share(p) /\ Start(p)' = Start(p) /\ psize(size)' = psize(size)
      /\ Sealed(p)' = Sealed(p) /\ Plain(p)' = Plain(p) /\ \A o : Filled(o, p)' = Filled(o, p)
  BY <1>1, SizeFixed
<1>8. ~ More'
  BY <1>1, <1>3 DEF More
<1>9. SentInv(p)'
  BY <1>1, <1>2, <1>3, <1>7, <1>8 DEF SentInv
<1>10. ReceivedInv(p)'
  BY <1>1, <1>7 DEF ReceivedInv
<1>11. PICK w \in 0 .. Len(net) : StreamInv(p, w)
  BY <1>1 DEF InTransit
<1>12. Len(net) = 2 * w /\ w \in Nat /\ tx.c = Smaller(Share(p), Offset(w + 1))
  BY <1>1, <1>5, <1>11 DEF StreamInv
<1>13. \A k : Offset(k)' = Offset(k)
  BY <1>1 DEF Offset
<1>14. ASSUME NEW k \in 1 .. w
       PROVE  Carries(k, Offset(k), p)'
  <2>1. 2 * k - 1 \in 1 .. Len(net) /\ 2 * k \in 1 .. Len(net)
    BY <1>12
  <2>2. Carries(k, Offset(k), p)
    BY <1>11 DEF StreamInv
  <2>3. net'[2 * k - 1] = net[2 * k - 1] /\ net'[2 * k] = net[2 * k]
    BY <1>6, <2>1
  <2>4. QED
    BY <1>7, <1>13, <2>2, <2>3 DEF Carries
<1>15. StreamInv(p, w)'
  <2>1. Len(net)' = 2 * w + 2 /\ tx'.done
    BY <1>3, <1>6, <1>12
  <2>2. net'[2 * w + 1] = Fields(TRUE, 0, 0) /\ net'[2 * w + 2] = Body(<<>>)
    BY <1>6, <1>12 DEF a, b
  <2>3. Offset(w + 1)' = Offset(w + 1)
    BY <1>13
  <2>4. tx'.c = Smaller(Share(p), Offset(w + 1))'
    BY <1>3, <1>7, <1>12, <2>3 DEF Smaller
  <2>5. QED
    BY <1>8, <1>14, <2>1, <2>2, <2>4 DEF StreamInv
<1>16. w \in 0 .. Len(net')
  BY <1>6, <1>12
<1>17. QED
  BY <1>6, <1>9, <1>10, <1>15, <1>16 DEF InTransit

-----------------------------------------------------------------------------
(* receive_file.                                                           *)

\* While every recv returns a whole packet, it returns the next one.
LEMMA WholePacket ==
    ASSUME BytesInv, NEW k \in {1, 2}, Recv(k), short' = 0, NEW p, p = Piece
    PROVE  /\ short = 0 /\ k = 2 /\ stage \in {"put", "get"} /\ InTransit(p)
           /\ PiecesInv /\ StageInv /\ MergeInv /\ Len(net) >= 2
           /\ net' \in Seq(UnitType) /\ Len(net') = Len(net) - 2
           /\ \A i \in 1 .. Len(net) - 2 : net'[i] = net[i + 2]
           /\ Reads(net[1]) = {net[1]}
           /\ \E w \in 0 .. Len(net) :
                  /\ StreamInv(p, w)
                  /\ IF w = 0 THEN tx.done /\ net[1] = Fields(TRUE, 0, 0) /\ Len(net) = 2
                              ELSE Carries(1, Len(rx.out), p)
<1>1. short \in Nat /\ short' \in {short, short + 1}
  BY DEF BytesInv, Recv
<1>2. short = 0 /\ short' = short
  BY <1>1
<1>3. stage \in {"put", "get"} /\ InTransit(p) /\ PiecesInv /\ StageInv /\ MergeInv
      /\ net # <<>>
  BY <1>2 DEF BytesInv, Recv
<1>4. net \in Seq(UnitType) /\ Len(net) \in Nat /\ rx.out \in Seq(ByteType)
      /\ Len(rx.out) \in Nat
  BY <1>3, LenProperties DEF InTransit, ReceivedInv
<1>5. PICK w \in 0 .. Len(net) : StreamInv(p, w)
  BY <1>3 DEF InTransit
<1>6. Len(net) = 2 * w + (IF tx.done THEN 2 ELSE 0) /\ w \in Nat
  BY <1>4, <1>5 DEF StreamInv
<1>7. Len(net) # 0
  BY <1>3, <1>4, EmptySeq
<1>8. Len(net) >= 2 /\ (w = 0 => tx.done /\ Len(net) = 2)
  BY <1>6, <1>7
<1>9. k = 2 /\ net' = SubSeq(net, 3, Len(net))
  <2>1. k = Smaller(2, Len(net)) /\ net' = SubSeq(net, k + 1, Len(net))
    BY <1>1, <1>2 DEF Recv
  <2>2. Smaller(2, Len(net)) = 2
    <3> DEFINE l == Len(net)
    <3>1. l \in Nat /\ l >= 2
      BY <1>4, <1>8
    <3> HIDE DEF l
    <3>2. Smaller(2, l) = 2
      BY <3>1 DEF Smaller
    <3>3. QED
      BY <3>2 DEF l
  <2>3. QED
    BY <2>1, <2>2
<1>10. /\ net' \in Seq(UnitType) /\ Len(net') = Len(net) - 2
       /\ \A i \in 1 .. Len(net) - 2 : net'[i] = net[i + 2]
  BY <1>4, <1>8, <1>9, DropPair
<1>11. IF w = 0 THEN tx.done /\ net[1] = Fields(TRUE, 0, 0) /\ Len(net) = 2
                ELSE Carries(1, Len(rx.out), p)
  <2>1. CASE w = 0
    <3>1. net[2 * w + 1] = Fields(TRUE, 0, 0)
      BY <1>5, <1>8, <2>1 DEF StreamInv
    <3>2. 2 * w + 1 = 1
      BY <2>1
    <3>3. QED
      BY <1>8, <2>1, <3>1, <3>2
  <2>2. CASE w # 0
    <3>1. Carries(1, Offset(1), p)
      BY <1>5, <1>6, <2>2 DEF StreamInv
    <3>2. Offset(1) = Len(rx.out)
      <4>1. (1 - 1) * DataSizeMax = 0
        BY TransferAssumption
      <4>2. Offset(1) = Len(rx.out) + (1 - 1) * DataSizeMax
        BY DEF Offset
      <4>3. QED
        BY <1>4, <4>1, <4>2
    <3>3. QED
      BY <2>2, <3>1, <3>2
  <2>3. QED
    BY <2>1, <2>2
<1>12. Reads(net[1]) = {net[1]}
  <2>1. net[1].kind = "fields"
    <3>1. \A e, o, l : Fields(e, o, l).kind = "fields"
      BY DEF Fields
    <3>2. CASE w = 0
      BY <1>11, <3>1, <3>2
    <3>3. CASE w # 0
      <4>1. net[2 * 1 - 1] = Fields(FALSE, Len(rx.out), Filled(Len(rx.out), p))
        BY <1>11, <3>3 DEF Carries
      <4>2. 2 * 1 - 1 = 1
        OBVIOUS
      <4>3. net[1] = Fields(FALSE, Len(rx.out), Filled(Len(rx.out), p))
        BY <4>1, <4>2
      <4>4. QED
        BY <3>1, <4>3
    <3>4. QED
      BY <3>2, <3>3
  <2>2. QED
    BY <2>1 DEF Reads
<1>13. QED
  BY <1>2, <1>3, <1>5, <1>8, <1>9, <1>10, <1>11, <1>12

Received(o, p)   == Xor(Taken(2, Filled(o, p)), stage = "get")
Extended(out, x) == IF Len(x) = 0 THEN out ELSE Write(out, Len(out), x)

\* What receive_file makes of a packet that is next in its file.
LEMMA Decoded ==
    ASSUME size \in Nat, NEW p \in Nat, NEW o \in Nat, Carries(1, o, p),
           stage \in {"put", "get"}
    PROVE  /\ Filled(o, p) \in 0 .. DataSizeMax /\ o + Filled(o, p) <= Share(p)
           /\ Filled(o, p) < DataSizeMax => o + Filled(o, p) = Share(p)
           /\ net[1] = Fields(FALSE, o, Filled(o, p))
           /\ Received(o, p) \in Seq(ByteType) /\ Len(Received(o, p)) = Filled(o, p)
           /\ \A i \in 1 .. Filled(o, p) : Received(o, p)[i] =
                  IF stage = "put" THEN Sealed(p)[o + i] ELSE Plain(p)[o + i]
<1> DEFINE m == Filled(o, p)
           x == Received(o, p)
<1>1. /\ Share(p) \in Nat /\ DataSizeMax \in Nat \ {0}
  BY Shares, TransferAssumption
<1>2. o \in 0 .. Share(p) /\ o % DataSizeMax = 0
  BY DEF Carries
<1>3. /\ m \in 0 .. DataSizeMax /\ o + m <= Share(p) /\ m \in Nat
      /\ m < DataSizeMax => o + m = Share(p)
  <2>1. m = (IF DataSizeMax < Share(p) - o THEN DataSizeMax ELSE Share(p) - o)
    BY DEF Filled, Smaller
  <2>2. o <= Share(p)
    BY <1>1, <1>2
  <2> HIDE DEF m
  <2>3. QED
    BY <1>1, <2>1, <2>2
<1> HIDE DEF m, x
<1> DEFINE d == [i \in 1 .. m |-> Sealed(p)[o + i]]
<1>4. net[1] = Fields(FALSE, o, m) /\ net[2] = Body(d)
  <2>1. 2 * 1 - 1 = 1 /\ 2 * 1 = 2
    OBVIOUS
  <2>2. net[2 * 1 - 1] = Fields(FALSE, o, m) /\ net[2 * 1] = Body(d)
    BY DEF Carries, m
  <2>3. QED
    BY <2>1, <2>2
<1>5. ASSUME NEW i \in 1 .. m
      PROVE  /\ o + i \in 1 .. Share(p)
             /\ Toggle(Sealed(p)[o + i], (i - 1) % KeyLen) = Plain(p)[o + i]
             /\ Sealed(p)[o + i] \in ByteType /\ Plain(p)[o + i] \in ByteType
  <2>1. i \in 1 .. Filled(o, p)
    BY <1>5 DEF m
  <2>2. /\ o + i \in 1 .. Share(p)
        /\ Toggle(Sealed(p)[o + i], (i - 1) % KeyLen) = Plain(p)[o + i]
    BY <1>2, <2>1, SealByte
  <2>3. QED
    BY <2>2, SealedAndPlain
<1>6. d \in Seq(ByteType) /\ Len(d) = m
  <2>1. d \in [1 .. m -> ByteType]
    BY <1>5
  <2> HIDE DEF d
  <2>2. d \in Seq(ByteType) /\ Len(d) = m
    BY <1>3, <2>1, SeqDef, LenProperties
  <2>3. QED
    BY <2>2
<1>7. Taken(2, m) = d
  <2>1. net[2].kind = "data" /\ net[2].data = d
    BY <1>4 DEF Body
  <2>2. \A i \in 1 .. m : i <= Len(net[2].data) /\ net[2].data[i] = Sealed(p)[o + i]
    BY <1>3, <1>6, <2>1
  <2>3. QED
    BY <2>1, <2>2 DEF Taken
<1>8. x = [i \in 1 .. m |-> IF stage = "get" THEN Toggle(d[i], (i - 1) % KeyLen) ELSE d[i]]
  BY <1>6, <1>7 DEF Xor, Received, x, m
<1>9. \A i \in 1 .. m :
          /\ x[i] = IF stage = "put" THEN Sealed(p)[o + i] ELSE Plain(p)[o + i]
          /\ x[i] \in ByteType
  BY <1>5, <1>8
<1>10. x \in [1 .. m -> ByteType]
  BY <1>8, <1>9
<1>11. x \in Seq(ByteType) /\ Len(x) = m
  BY <1>3, <1>10, SeqDef, LenProperties
<1>12. QED
  BY <1>3, <1>4, <1>9, <1>11 DEF m, x

\* What is written where the file ends extends it.
LEMMA Appended ==
    ASSUME NEW out \in Seq(ByteType), NEW x \in Seq(ByteType)
    PROVE  /\ Extended(out, x) \in Seq(ByteType)
           /\ Len(Extended(out, x)) = Len(out) + Len(x)
           /\ \A i \in 1 .. Len(out) : Extended(out, x)[i] = out[i]
           /\ \A i \in 1 .. Len(x) : Extended(out, x)[Len(out) + i] = x[i]
<1> USE DEF Extended
<1> DEFINE l == Len(out)
           m == Len(x)
           r == Extended(out, x)
<1>1. l \in Nat /\ m \in Nat
  BY LenProperties
<1>2. CASE m = 0
  <2>1. r = out /\ l + m = l /\ 1 .. m = {}
    BY <1>1, <1>2
  <2>2. QED
    BY <2>1
<1>3. CASE m # 0
  <2>1. (IF l + m > l THEN l + m ELSE l) = l + m
    BY <1>1, <1>3
  <2>2. r = [i \in 1 .. l + m |->
                IF i > l /\ i <= l + m THEN x[i - l]
                ELSE IF i <= l THEN out[i] ELSE Noise]
    BY <1>3, <2>1 DEF Write
  <2>3. \A i \in 1 .. l : out[i] \in ByteType
    BY ElementOfSeq
  <2>4. \A i \in 1 .. m : x[i] \in ByteType
    BY ElementOfSeq
  <2> HIDE DEF r, l, m
  <2>5. \A i \in 1 .. l : i \in 1 .. l + m /\ ~ i > l /\ i <= l
    BY <1>1
  <2>6. \A i \in 1 .. l : r[i] = out[i]
    BY <2>2, <2>5
  <2>7. \A i \in 1 .. m : l + i \in 1 .. l + m /\ l + i > l /\ l + i <= l + m /\ (l + i) - l = i
    BY <1>1
  <2>8. \A i \in 1 .. m : r[l + i] = x[i]
    BY <2>2, <2>7
  <2>9. \A i \in 1 .. l + m : i \in 1 .. l \/ (i - l \in 1 .. m /\ l + (i - l) = i)
    BY <1>1
  <2>10. \A i \in 1 .. l + m : r[i] \in ByteType
    BY <2>3, <2>4, <2>6, <2>8, <2>9
  <2>11. r \in [1 .. l + m -> ByteType]
    BY <2>2, <2>10
  <2>12. r \in Seq(ByteType) /\ Len(r) = l + m
    BY <1>1, <2>11, SeqDef, LenProperties
  <2>13. QED
    BY <2>6, <2>8, <2>12 DEF r, l, m
<1>4. QED
  BY <1>2, <1>3

LEMMA ReceiveDataStep ==
    ASSUME BytesInv, ReceiveData, short' = 0, NEW p, p = Piece
    PROVE  InTransit(p)'
<1>1. PICK k \in {1, 2}, f \in Reads(net[1]) :
          /\ Recv(k) /\ ~ f.eof
          /\ rx' = [pos |-> f.offset + f.len,
                    out |-> IF f.len = 0 THEN rx.out
                            ELSE Write(rx.out, f.offset,
                                       Xor(Taken(k, f.len), stage = "get"))]
  BY DEF ReceiveData
<1>2. UNCHANGED <<size, stage, stored, fetched, file, merged, tx>>
  BY DEF ReceiveData
<1>3. /\ short = 0 /\ k = 2 /\ stage \in {"put", "get"} /\ InTransit(p)
      /\ PiecesInv /\ StageInv /\ Len(net) >= 2
      /\ net' \in Seq(UnitType) /\ Len(net') = Len(net) - 2
      /\ \A i \in 1 .. Len(net) - 2 : net'[i] = net[i + 2]
      /\ Reads(net[1]) = {net[1]}
  BY <1>1, WholePacket
<1> DEFINE L == Len(rx.out)
           m == Filled(L, p)
<1>4. PICK w \in 0 .. Len(net) :
          /\ StreamInv(p, w)
          /\ IF w = 0 THEN tx.done /\ net[1] = Fields(TRUE, 0, 0) /\ Len(net) = 2
                      ELSE Carries(1, L, p)
  BY <1>1, WholePacket
<1>5. f = net[1] /\ ~ net[1].eof
  BY <1>1, <1>3
<1>6. w # 0 /\ Carries(1, L, p)
  <2>1. Fields(TRUE, 0, 0).eof
    BY DEF Fields
  <2>2. QED
    BY <1>4, <1>5, <2>1
<1>7. size \in Nat /\ SentInv(p) /\ ReceivedInv(p) /\ net \in Seq(UnitType) /\ p \in Nat
  BY <1>3, PieceIs, TransferAssumption DEF BytesInv, InTransit
<1>8. /\ rx.out \in Seq(ByteType) /\ L \in Nat /\ L <= Share(p)
      /\ Share(p) \in Nat /\ DataSizeMax \in Nat \ {0} /\ Len(net) \in Nat
  BY <1>7, LenProperties, Shares, TransferAssumption DEF ReceivedInv
<1> HIDE DEF L, m
<1> DEFINE x == Received(L, p)
<1>9. /\ m \in 0 .. DataSizeMax /\ L + m <= Share(p)
      /\ m < DataSizeMax => L + m = Share(p)
      /\ net[1] = Fields(FALSE, L, m)
      /\ x \in Seq(ByteType) /\ Len(x) = m
      /\ \A i \in 1 .. m :
             x[i] = IF stage = "put" THEN Sealed(p)[L + i] ELSE Plain(p)[L + i]
  BY <1>3, <1>6, <1>7, <1>8, Decoded DEF m
<1>10. f.offset = L /\ f.len = m
  BY <1>5, <1>9 DEF Fields
<1>11. rx'.out = Extended(rx.out, x)
  BY <1>1, <1>3, <1>9, <1>10 DEF L, m, Received, Extended
<1> HIDE DEF x
<1>12. /\ rx'.out \in Seq(ByteType) /\ Len(rx'.out) = L + m
       /\ \A i \in 1 .. L : rx'.out[i] = rx.out[i]
       /\ \A i \in 1 .. m : rx'.out[L + i] = x[i]
  <2>1. x \in Seq(ByteType) /\ Len(x) = m
    BY <1>9
  <2> DEFINE out == rx.out
  <2>2. out \in Seq(ByteType) /\ Len(out) = L /\ rx'.out = Extended(out, x)
    BY <1>8, <1>11 DEF L
  <2>3. \A i : i \in 1 .. L => out[i] = rx.out[i]
    OBVIOUS
  <2> HIDE DEF out
  <2>4. /\ Extended(out, x) \in Seq(ByteType)
        /\ Len(Extended(out, x)) = Len(out) + Len(x)
        /\ \A i \in 1 .. Len(out) : Extended(out, x)[i] = out[i]
        /\ \A i \in 1 .. Len(x) : Extended(out, x)[Len(out) + i] = x[i]
    BY <2>1, <2>2, Appended
  <2>5. QED
    BY <2>1, <2>2, <2>3, <2>4
<1>13. /\ Share(p)' = Share(p) /\ Start(p)' = Start(p) /\ psize(size)' = psize(size)
       /\ Sealed(p)' = Sealed(p) /\ Plain(p)' = Plain(p) /\ \A o : Filled(o, p)' = Filled(o, p)
  BY <1>2, SizeFixed
<1>14. SentInv(p)' /\ More' = More
  BY <1>2, <1>7, <1>13 DEF SentInv, More
<1>15. ReceivedInv(p)'
  <2>1. ASSUME NEW j \in 1 .. L + m
        PROVE  rx'.out[j] = IF stage = "put" THEN Sealed(p)[j] ELSE Plain(p)[j]
    <3>1. CASE j <= L
      <4>1. j \in 1 .. L
        BY <1>8, <1>9, <3>1
      <4>2. QED
        BY <1>7, <1>12, <4>1 DEF ReceivedInv, L
    <3>2. CASE ~ j <= L
      <4>1. j - L \in 1 .. m /\ L + (j - L) = j
        BY <1>8, <1>9, <3>2
      <4>2. QED
        BY <1>9, <1>12, <4>1
    <3>3. QED
      BY <3>1, <3>2
  <2>2. QED
    BY <1>2, <1>9, <1>12, <1>13, <2>1 DEF ReceivedInv
<1>16. /\ Len(net) = 2 * w + (IF tx.done THEN 2 ELSE 0) /\ w \in Nat \ {0}
       /\ \A j \in 1 .. w : Carries(j, Offset(j), p)
       /\ tx.c = Smaller(Share(p), Offset(w + 1)) /\ (More => tx.c = Offset(w + 1))
       /\ tx.done => net[2 * w + 1] = Fields(TRUE, 0, 0) /\ net[2 * w + 2] = Body(<<>>)
  <2>1. w \in Nat \ {0}
    BY <1>6, <1>8
  <2>2. StreamInv(p, w)
    BY <1>4
  <2>3. QED
    BY <2>1, <2>2 DEF StreamInv
<1>17. ASSUME NEW j \in Nat
       PROVE  /\ Offset(j + 1) = Offset(j) + DataSizeMax /\ Offset(j) \in Int
              /\ m = DataSizeMax => Offset(j)' = Offset(j + 1)
  <2>1. (j + 1 - 1) * DataSizeMax = (j - 1) * DataSizeMax + DataSizeMax
        /\ (j - 1) * DataSizeMax \in Int
    BY <1>8
  <2>2. /\ Offset(j) = L + (j - 1) * DataSizeMax
        /\ Offset(j + 1) = L + (j + 1 - 1) * DataSizeMax
        /\ Offset(j)' = L + m + (j - 1) * DataSizeMax
    BY <1>12 DEF Offset, L
  <2> DEFINE u == (j - 1) * DataSizeMax
             v == (j + 1 - 1) * DataSizeMax
  <2>3. v = u + DataSizeMax /\ u \in Int /\ Offset(j) = L + u /\ Offset(j + 1) = L + v
        /\ Offset(j)' = L + m + u
    BY <2>1, <2>2
  <2> HIDE DEF u, v
  <2>4. QED
    BY <1>8, <1>9, <2>3
<1>18. Offset(1) = L /\ Offset(1)' = L + m
  <2>1. (1 - 1) * DataSizeMax = 0
    BY <1>8
  <2>2. Offset(1) = L + (1 - 1) * DataSizeMax /\ Offset(1)' = L + m + (1 - 1) * DataSizeMax
    BY <1>12 DEF Offset, L
  <2>3. QED
    BY <1>8, <1>9, <2>1, <2>2
<1>19. w # 1 => m = DataSizeMax
  <2>1. SUFFICES ASSUME w # 1 PROVE ~ m < DataSizeMax
    BY <1>8, <1>9
  <2>2. Carries(2, Offset(2), p)
    BY <1>16, <2>1
  <2>3. Offset(2) <= Share(p) /\ Offset(2) = L + DataSizeMax
    <3>1. Offset(1 + 1) = Offset(1) + DataSizeMax
      BY <1>17
    <3>2. QED
      BY <1>8, <1>18, <2>2, <3>1 DEF Carries
  <2>4. QED
    BY <1>8, <1>9, <2>3
<1>20. ASSUME NEW j \in 1 .. w - 1
       PROVE  Carries(j, Offset(j), p)'
  <2>1. Offset(j)' = Offset(j + 1)
    BY <1>16, <1>17, <1>19, <1>20
  <2>2. j + 1 \in 1 .. w /\ Carries(j + 1, Offset(j + 1), p)
    BY <1>16, <1>20
  <2>3. net'[2 * j - 1] = net[2 * (j + 1) - 1] /\ net'[2 * j] = net[2 * (j + 1)]
    <3>1. 2 * j - 1 \in 1 .. Len(net) - 2 /\ 2 * j \in 1 .. Len(net) - 2
          /\ 2 * (j + 1) - 1 = 2 * j - 1 + 2 /\ 2 * (j + 1) = 2 * j + 2
      BY <1>8, <1>16, <1>20
    <3>2. QED
      BY <1>3, <3>1
  <2>4. QED
    BY <1>13, <2>1, <2>2, <2>3 DEF Carries
<1>21. Offset(w)' = Offset(w + 1) \/ (w = 1 /\ L + m = Share(p) /\ m < DataSizeMax)
  BY <1>8, <1>9, <1>16, <1>17, <1>19
<1>22. /\ tx.c = Smaller(Share(p), Offset(w)')
       /\ More => tx.c = Offset(w)'
  <2>1. CASE Offset(w)' = Offset(w + 1)
    BY <1>16, <2>1
  <2>2. CASE w = 1 /\ L + m = Share(p) /\ m < DataSizeMax
    <3>1. Offset(w + 1) = L + DataSizeMax /\ Offset(w)' = Share(p)
      BY <1>17, <1>18, <2>2
    <3>2. Offset(w + 1) > Share(p) /\ Offset(w + 1) \in Nat
      BY <1>8, <1>9, <2>2, <3>1
    <3>3. tx.c = Share(p)
      BY <1>8, <1>16, <3>2 DEF Smaller
    <3>4. QED
      BY <1>8, <3>1, <3>3 DEF Smaller
  <2>3. QED
    BY <1>21, <2>1, <2>2
<1>23. StreamInv(p, w - 1)'
  <2>1. Len(net') = 2 * (w - 1) + (IF tx.done THEN 2 ELSE 0)
    BY <1>3, <1>8, <1>16
  <2>2. tx.done => net'[2 * (w - 1) + 1] = Fields(TRUE, 0, 0)
                   /\ net'[2 * (w - 1) + 2] = Body(<<>>)
    <3>1. tx.done => /\ 2 * (w - 1) + 1 \in 1 .. Len(net) - 2
                     /\ 2 * (w - 1) + 2 \in 1 .. Len(net) - 2
                     /\ 2 * (w - 1) + 1 + 2 = 2 * w + 1 /\ 2 * (w - 1) + 2 + 2 = 2 * w + 2
      BY <1>8, <1>16
    <3>2. QED
      BY <1>3, <1>16, <3>1
  <2>3. (w - 1) + 1 = w
    BY <1>16
  <2>4. Offset((w - 1) + 1)' = Offset(w)'
    BY <2>3
  <2>5. /\ tx'.c = Smaller(Share(p), Offset((w - 1) + 1))'
        /\ More' => tx'.c = Offset((w - 1) + 1)'
    BY <1>2, <1>13, <1>14, <1>22, <2>4 DEF Smaller
  <2>6. QED
    BY <1>2, <1>20, <2>1, <2>2, <2>5 DEF StreamInv
<1>24. w - 1 \in 0 .. Len(net')
  BY <1>3, <1>8, <1>16
<1>25. QED
  BY <1>3, <1>14, <1>15, <1>23, <1>24 DEF InTransit

\* The end of a piece is taken when all of it has arrived.
LEMMA WholePiece ==
    ASSUME BytesInv, ReceiveEof, short' = 0, NEW p, p = Piece
    PROVE  /\ short = 0 /\ stage \in {"put", "get"} /\ p \in Nat /\ p < NumHosts
           /\ PiecesInv /\ StageInv /\ MergeInv
           /\ net' = <<>> /\ tx.done
           /\ rx.out = IF stage = "put" THEN Sealed(p) ELSE Plain(p)
<1>1. PICK k \in {1, 2} : Recv(k)
  BY DEF ReceiveEof
<1>2. PICK f \in Reads(net[1]) : f.eof
  BY DEF ReceiveEof
<1>3. /\ short = 0 /\ k = 2 /\ stage \in {"put", "get"} /\ InTransit(p)
      /\ PiecesInv /\ StageInv /\ MergeInv
      /\ net' \in Seq(UnitType) /\ Len(net') = Len(net) - 2
      /\ Reads(net[1]) = {net[1]}
  BY <1>1, WholePacket
<1>4. PICK w \in 0 .. Len(net) :
          /\ StreamInv(p, w)
          /\ IF w = 0 THEN tx.done /\ net[1] = Fields(TRUE, 0, 0) /\ Len(net) = 2
                      ELSE Carries(1, Len(rx.out), p)
  BY <1>1, WholePacket
<1>5. net[1].eof
  BY <1>2, <1>3
<1>6. w = 0
  <2>1. SUFFICES ASSUME w # 0 PROVE FALSE
    OBVIOUS
  <2>2. net[2 * 1 - 1] = Fields(FALSE, Len(rx.out), Filled(Len(rx.out), p))
    BY <1>4, <2>1 DEF Carries
  <2>3. 2 * 1 - 1 = 1
    OBVIOUS
  <2>4. net[1] = Fields(FALSE, Len(rx.out), Filled(Len(rx.out), p))
    BY <2>2, <2>3
  <2>5. QED
    BY <1>5, <2>4 DEF Fields
<1>7. tx.done /\ Len(net) = 2
  BY <1>4, <1>6
<1>8. net' = <<>>
  BY <1>3, <1>7, EmptySeq
<1>9. size \in Nat /\ SentInv(p) /\ ReceivedInv(p) /\ p \in Nat /\ p < NumHosts
  BY <1>3, PieceIs, TransferAssumption DEF BytesInv, InTransit
<1>10. /\ rx.out \in Seq(ByteType) /\ Len(rx.out) \in Nat /\ Len(rx.out) <= Share(p)
       /\ Share(p) \in Nat /\ DataSizeMax \in Nat
  BY <1>9, LenProperties, Shares, TransferAssumption DEF ReceivedInv
<1>11. Len(rx.out) = Share(p)
  <2>1. tx.c = Share(p)
    BY <1>7, <1>9 DEF SentInv
  <2>2. tx.c = Smaller(Share(p), Offset(0 + 1))
    BY <1>4, <1>6 DEF StreamInv
  <2>3. 0 + 1 = 1 /\ (1 - 1) * DataSizeMax = 0
    BY <1>10
  <2>4. Offset(0 + 1) = Len(rx.out)
    <3>1. Offset(1) = Len(rx.out) + (1 - 1) * DataSizeMax
      BY DEF Offset
    <3> DEFINE l == Len(rx.out)
    <3>2. l \in Nat /\ l + 0 = l
      BY <1>10
    <3>3. Offset(1) = l + 0
      BY <2>3, <3>1
    <3>4. QED
      BY <2>3, <3>2, <3>3
  <2>5. QED
    BY <1>10, <2>1, <2>2, <2>4 DEF Smaller
<1>12. rx.out = IF stage = "put" THEN Sealed(p) ELSE Plain(p)
  <2> DEFINE t == IF stage = "put" THEN Sealed(p) ELSE Plain(p)
  <2>1. t \in Seq(ByteType) /\ Len(t) = Share(p)
    BY <1>9, SealedAndPlain
  <2>2. \A j \in 1 .. Len(rx.out) : rx.out[j] = t[j]
    BY <1>9 DEF ReceivedInv
  <2> HIDE DEF t
  <2>3. rx.out = t
    BY <1>10, <1>11, <2>1, <2>2, SeqEqual
  <2>4. QED
    BY <2>3 DEF t
<1>13. QED
  BY <1>3, <1>7, <1>8, <1>9, <1>12

\* A transfer that has just been opened.
FreshFits ==
    /\ size \in Nat /\ stage \in {"put", "get"} /\ Piece \in Nat
    /\ tx = Opened(stage, Piece) /\ rx = Created /\ net = <<>>
    => InTransit(Piece)

LEMMA Fresh == FreshFits
<1> SUFFICES ASSUME NEW p \in Nat, p = Piece, size \in Nat, stage \in {"put", "get"},
                    tx = Opened(stage, p), rx = Created, net = <<>>
             PROVE  InTransit(p)
  BY DEF FreshFits
<1>1. /\ Share(p) \in Nat /\ Share(p) <= psize(size) /\ psize(size) \in Nat \ {0}
      /\ Start(p) \in Nat /\ DataSizeMax \in Nat \ {0}
  BY Shares, Starts, TransferAssumption
<1>2. /\ tx.c = 0 /\ tx.feof = FALSE /\ tx.done = FALSE
      /\ tx.fpos = IF stage = "put" THEN Start(p) ELSE 0
      /\ tx.n = IF stage = "put" THEN psize(size) ELSE NoLimit
      /\ tx \in [fpos : Nat, n : Int, c : 0 .. Share(p), feof : BOOLEAN, done : BOOLEAN]
  BY <1>1 DEF Opened, Start, NoLimit
<1>3. More
  BY <1>1, <1>2 DEF More, NoLimit
<1>4. 0 % DataSizeMax = 0
  BY <1>1, Remainder
<1>5. SentInv(p)
  <2>1. tx.fpos = tx.c + (IF stage = "put" THEN Start(p) ELSE 0)
    BY <1>1, <1>2
  <2>2. tx.n = IF stage = "put" THEN psize(size) - tx.c ELSE NoLimit
    BY <1>1, <1>2
  <2>3. QED
    BY <1>2, <1>3, <1>4, <2>1, <2>2 DEF SentInv
<1>6. rx.out = <<>> /\ Len(rx.out) = 0 /\ rx.out \in Seq(ByteType) /\ 1 .. 0 = {}
  BY DEF Created
<1>7. ReceivedInv(p)
  BY <1>1, <1>6 DEF ReceivedInv
<1>8. net \in Seq(UnitType) /\ Len(net) = 0
  OBVIOUS
<1>9. StreamInv(p, 0)
  <2>1. 0 + 1 = 1 /\ (1 - 1) * DataSizeMax = 0 /\ 2 * 0 = 0
    BY <1>1
  <2>2. Offset(0 + 1) = 0
    <3>1. Offset(1) = Len(rx.out) + (1 - 1) * DataSizeMax
      BY DEF Offset
    <3>2. Offset(1) = 0
      BY <1>6, <2>1, <3>1
    <3>3. QED
      BY <2>1, <3>2
  <2>3. tx.c = Smaller(Share(p), Offset(0 + 1)) /\ tx.c = Offset(0 + 1)
    <3>1. tx.c = Smaller(Share(p), 0)
      BY <1>1, <1>2 DEF Smaller
    <3>2. QED
      BY <1>2, <2>2, <3>1
  <2>4. Len(net) = 2 * 0 + (IF tx.done THEN 2 ELSE 0)
    BY <1>2, <1>8
  <2>5. \A k \in 1 .. 0 : Carries(k, Offset(k), p)
    OBVIOUS
  <2>6. QED
    BY <1>2, <2>3, <2>4, <2>5 DEF StreamInv
<1>10. QED
  BY <1>5, <1>7, <1>8, <1>9 DEF InTransit

LEMMA FreshNext == FreshFits'
  BY Fresh, PTL

\* A piece more.
LEMMA Longer ==
    ASSUME NEW q \in Seq(Seq(ByteType)), NEW x \in Seq(ByteType)
    PROVE  /\ Append(q, x) \in Seq(Seq(ByteType)) /\ Len(Append(q, x)) = Len(q) + 1
           /\ Len(q) \in Nat
           /\ \A i \in 1 .. Len(q) : Append(q, x)[i] = q[i]
           /\ Append(q, x)[Len(q) + 1] = x
<1>1. Len(q) \in Nat
  BY LenProperties
<1>2. /\ Append(q, x) \in Seq(Seq(ByteType)) /\ Len(Append(q, x)) = Len(q) + 1
      /\ \A i \in 1 .. Len(q) : Append(q, x)[i] = q[i]
      /\ Append(q, x)[Len(q) + 1] = x
  BY AppendProperties
<1>3. QED
  BY <1>1, <1>2

LEMMA ReceiveEofStep ==
    ASSUME BytesInv, ReceiveEof, short' = 0
    PROVE  /\ PiecesInv' /\ StageInv' /\ MergeInv'
           /\ stage' \in {"put", "get"} => InTransit(Piece)'
<1> DEFINE p == Piece
<1>1. /\ short = 0 /\ stage \in {"put", "get"} /\ p \in Nat /\ p < NumHosts
      /\ PiecesInv /\ StageInv /\ MergeInv
      /\ net' = <<>> /\ tx.done
      /\ rx.out = IF stage = "put" THEN Sealed(p) ELSE Plain(p)
  BY WholePiece
<1>2. size \in Nat /\ size' = size /\ file' = file /\ merged' = merged /\ NumHosts \in Nat \ {0}
  BY TransferAssumption DEF BytesInv, ReceiveEof
<1>3. /\ \A j : Sealed(j)' = Sealed(j) /\ Plain(j)' = Plain(j) /\ Start(j)' = Start(j)
      /\ psize(size)' = psize(size)
  BY <1>2, SizeFixed
<1>4. Len(stored) \in Nat /\ Len(fetched) \in Nat
      /\ stored \in Seq(Seq(ByteType)) /\ fetched \in Seq(Seq(ByteType))
      /\ (\A j \in 1 .. Len(stored) : stored[j] = Sealed(j - 1))
      /\ (\A j \in 1 .. Len(fetched) : fetched[j] = Plain(j - 1))
  BY <1>1, LenProperties DEF PiecesInv
<1>5. rx.out \in Seq(ByteType)
  BY <1>1, <1>2, SealedAndPlain
<1>6. /\ stage = "put" => /\ p = Len(stored) /\ stored' = Append(stored, rx.out)
                          /\ fetched' = fetched /\ NextPiece(stored')
      /\ stage = "get" => /\ p = Len(fetched) /\ fetched' = Append(fetched, rx.out)
                          /\ stored' = stored /\ NextPiece(fetched')
  BY DEF ReceiveEof, Piece
<1> HIDE DEF p
<1>7. \A q : NextPiece(q) =>
          /\ stage' = IF Len(q) < NumHosts THEN stage
                      ELSE IF stage = "put" THEN "get" ELSE "merge"
          /\ tx' = Opened(stage', IF stage' = stage THEN Len(q) ELSE 0)
          /\ rx' = Created
  BY <1>1 DEF NextPiece
<1>8. /\ stage' \in {"put", "get"} /\ Piece' \in Nat
      /\ tx' = Opened(stage, Piece)' /\ rx' = Created
      => InTransit(Piece)'
  BY <1>1, <1>2, FreshNext DEF FreshFits, Created
<1>9. CASE stage = "put"
  <2>1. /\ Len(stored') = Len(stored) + 1 /\ stored' \in Seq(Seq(ByteType))
        /\ \A j \in 1 .. Len(stored) : stored'[j] = stored[j]
        /\ stored'[Len(stored) + 1] = rx.out
    <3> DEFINE t == Append(stored, rx.out)
    <3>1. /\ Len(t) = Len(stored) + 1 /\ t \in Seq(Seq(ByteType))
          /\ \A j \in 1 .. Len(stored) : t[j] = stored[j]
          /\ t[Len(stored) + 1] = rx.out
      BY <1>4, <1>5, Longer
    <3>2. stored' = t
      BY <1>6, <1>9
    <3> HIDE DEF t
    <3>3. QED
      BY <3>1, <3>2
  <2>2. PiecesInv'
    <3>1. ASSUME NEW j \in 1 .. Len(stored) + 1
          PROVE  stored'[j] = Sealed(j - 1)
      <4>1. CASE j = Len(stored) + 1
        <5>1. j - 1 = p
          BY <1>4, <1>6, <1>9, <4>1
        <5>2. QED
          BY <1>1, <1>9, <2>1, <4>1, <5>1
      <4>2. CASE j # Len(stored) + 1
        <5>1. j \in 1 .. Len(stored)
          BY <1>4, <4>2
        <5>2. QED
          BY <1>4, <2>1, <5>1
      <4>3. QED
        BY <4>1, <4>2
    <3>2. QED
      BY <1>3, <1>4, <1>6, <1>9, <2>1, <3>1 DEF PiecesInv
  <2>3. Len(stored) < NumHosts /\ fetched = <<>> /\ merged = 0
    BY <1>1, <1>9 DEF StageInv, MergeInv
  <2>4. fetched' = <<>> /\ Len(fetched') = 0
    BY <1>6, <1>9, <2>3
  <2>5. /\ stage' = IF Len(stored') < NumHosts THEN "put" ELSE "get"
        /\ tx' = Opened(stage', IF stage' = "put" THEN Len(stored') ELSE 0)
        /\ rx' = Created
    BY <1>6, <1>7, <1>9
  <2>6. StageInv'
    BY <1>2, <1>4, <2>1, <2>3, <2>4, <2>5 DEF StageInv
  <2>7. MergeInv'
    BY <1>1, <1>2, <1>3, <2>3, <2>5 DEF MergeInv, Smaller
  <2>8. Piece' \in Nat
    BY <1>4, <2>1, <2>4, <2>5 DEF Piece
  <2>9. tx' = Opened(stage, Piece)'
    BY <1>2, <1>3, <2>4, <2>5 DEF Piece, Opened
  <2>10. InTransit(Piece)'
    BY <1>8, <2>5, <2>8, <2>9
  <2>11. QED
    BY <2>2, <2>6, <2>7, <2>10
<1>10. CASE stage = "get"
  <2>1. /\ Len(fetched') = Len(fetched) + 1 /\ fetched' \in Seq(Seq(ByteType))
        /\ \A j \in 1 .. Len(fetched) : fetched'[j] = fetched[j]
        /\ fetched'[Len(fetched) + 1] = rx.out
    <3> DEFINE t == Append(fetched, rx.out)
    <3>1. /\ Len(t) = Len(fetched) + 1 /\ t \in Seq(Seq(ByteType))
          /\ \A j \in 1 .. Len(fetched) : t[j] = fetched[j]
          /\ t[Len(fetched) + 1] = rx.out
      BY <1>4, <1>5, Longer
    <3>2. fetched' = t
      BY <1>6, <1>10
    <3> HIDE DEF t
    <3>3. QED
      BY <3>1, <3>2
  <2>2. PiecesInv'
    <3>1. ASSUME NEW j \in 1 .. Len(fetched) + 1
          PROVE  fetched'[j] = Plain(j - 1)
      <4>1. CASE j = Len(fetched) + 1
        <5>1. j - 1 = p
          BY <1>4, <1>6, <1>10, <4>1
        <5>2. QED
          BY <1>1, <1>10, <2>1, <4>1, <5>1
      <4>2. CASE j # Len(fetched) + 1
        <5>1. j \in 1 .. Len(fetched)
          BY <1>4, <4>2
        <5>2. QED
          BY <1>4, <2>1, <5>1
      <4>3. QED
        BY <4>1, <4>2
    <3>2. QED
      BY <1>3, <1>4, <1>6, <1>10, <2>1, <3>1 DEF PiecesInv
  <2>3. Len(fetched) < NumHosts /\ Len(stored) = NumHosts /\ merged = 0
    BY <1>1, <1>10 DEF StageInv, MergeInv
  <2>4. /\ stage' = IF Len(fetched') < NumHosts THEN "get" ELSE "merge"
        /\ tx' = Opened(stage', IF stage' = "get" THEN Len(fetched') ELSE 0)
        /\ rx' = Created
    BY <1>6, <1>7, <1>10
  <2>5. Len(stored') = NumHosts
    BY <1>6, <1>10, <2>3
  <2>6. StageInv'
    BY <1>2, <1>4, <2>1, <2>3, <2>4, <2>5 DEF StageInv
  <2>7. 0 \in 0 .. NumHosts - 1
    BY <1>2
  <2>8. MergeInv'
    BY <1>1, <1>2, <1>3, <2>3, <2>4, <2>7 DEF MergeInv, Smaller
  <2>9. ASSUME stage' \in {"put", "get"} PROVE InTransit(Piece)'
    <3>1. stage' = "get" /\ Piece' \in Nat /\ tx' = Opened(stage', Len(fetched'))
      BY <1>4, <2>1, <2>4, <2>9 DEF Piece
    <3>2. tx' = Opened(stage, Piece)'
      BY <1>2, <1>3, <3>1 DEF Piece, Opened
    <3>3. QED
      BY <1>8, <2>4, <3>1, <3>2
  <2>10. QED
    BY <2>2, <2>6, <2>8, <2>9
<1>11. QED
  BY <1>1, <1>9, <1>10

-----------------------------------------------------------------------------
(* merge_partitions.                                                       *)

\* The next piece behind a stretch of the file that ends where it begins.
LEMMA NextStretch ==
    ASSUME size \in Nat, NEW i \in Nat, NEW f \in Seq(ByteType),
           Len(f) = Smaller(size, Start(i)), \A j \in 1 .. Len(f) : f[j] = Byte(j, {})
    PROVE  /\ f \o Plain(i) \in Seq(ByteType)
           /\ Len(f \o Plain(i)) = Smaller(size, Start(i + 1))
           /\ \A j \in 1 .. Len(f \o Plain(i)) : (f \o Plain(i))[j] = Byte(j, {})
<1> DEFINE x == Plain(i)
           l == Len(f)
           m == Share(i)
<1>1. /\ m \in Nat /\ (m > 0 => l = Start(i)) /\ Start(i) \in Nat /\ l \in Nat
      /\ Smaller(size, Start(i + 1)) = l + m
  BY Shares, Starts, LenProperties
<1>2. x \in Seq(ByteType) /\ Len(x) = m /\ \A j \in 1 .. m : x[j] = Byte(Start(i) + j, {})
  BY SealedAndPlain
<1> HIDE DEF x, m
<1>3. /\ f \o x \in Seq(ByteType) /\ Len(f \o x) = l + m
      /\ \A j \in 1 .. l + m : (f \o x)[j] = IF j <= l THEN f[j] ELSE x[j - l]
  BY <1>2, ConcatProperties
<1>4. \A j \in 1 .. l : f[j] = Byte(j, {})
  OBVIOUS
<1> HIDE DEF l
<1>5. ASSUME NEW j \in 1 .. l + m
      PROVE  (f \o x)[j] = Byte(j, {})
  <2>1. CASE j <= l
    <3>1. j \in 1 .. l
      BY <1>1, <2>1
    <3>2. QED
      BY <1>3, <1>4, <2>1, <3>1
  <2>2. CASE ~ j <= l
    <3>1. j - l \in 1 .. m /\ m > 0
      BY <1>1, <2>2
    <3>2. Start(i) + (j - l) = j
      BY <1>1, <3>1
    <3>3. x[j - l] = Byte(j, {})
      BY <1>2, <3>1, <3>2
    <3>4. QED
      BY <1>3, <2>2, <3>3
  <2>3. QED
    BY <2>1, <2>2
<1>6. QED
  BY <1>1, <1>3, <1>5 DEF x

LEMMA MergeStep ==
    ASSUME BytesInv, merge_partitions
    PROVE  BytesInv'
<1>1. /\ stage = "merge" /\ file' = file \o fetched[merged + 1] /\ merged' = merged + 1
      /\ stage' = IF merged' = NumHosts THEN "merged" ELSE stage
      /\ UNCHANGED <<size, stored, fetched, tx, rx, net, short>>
  BY DEF merge_partitions
<1>2. size \in Sizes /\ short \in Nat /\ size \in Nat /\ NumHosts \in Nat \ {0}
  BY TransferAssumption DEF BytesInv
<1>3. SUFFICES ASSUME short = 0
               PROVE  PiecesInv' /\ StageInv' /\ MergeInv'
  <2>1. ~ stage' \in {"put", "get"}
    BY <1>1
  <2>2. QED
    BY <1>1, <1>2, <2>1 DEF BytesInv
<1>4. PiecesInv /\ StageInv /\ MergeInv
  BY <1>3 DEF BytesInv
<1>5. \A p : /\ Sealed(p)' = Sealed(p) /\ Plain(p)' = Plain(p) /\ Start(p)' = Start(p)
  BY <1>1, SizeFixed
<1>6. PiecesInv'
  BY <1>1, <1>4, <1>5 DEF PiecesInv
<1>7. /\ Len(stored) = NumHosts /\ Len(fetched) = NumHosts
  BY <1>1, <1>4 DEF StageInv
<1>8. StageInv'
  BY <1>1, <1>7 DEF StageInv
<1>9. /\ merged \in 0 .. NumHosts - 1 /\ file \in Seq(ByteType)
      /\ Len(file) = Smaller(size, Start(merged))
      /\ \A i \in 1 .. Len(file) : file[i] = Byte(i, {})
  BY <1>1, <1>4 DEF MergeInv
<1>10. fetched[merged + 1] = Plain(merged)
  <2>1. merged + 1 \in 1 .. Len(fetched) /\ (merged + 1) - 1 = merged
    BY <1>2, <1>7, <1>9
  <2>2. fetched[merged + 1] = Plain((merged + 1) - 1)
    BY <1>4, <2>1 DEF PiecesInv
  <2>3. QED
    BY <2>1, <2>2
<1>11. /\ file' \in Seq(ByteType) /\ Len(file') = Smaller(size, Start(merged + 1))
       /\ \A i \in 1 .. Len(file') : file'[i] = Byte(i, {})
  <2>1. merged \in Nat /\ file' = file \o Plain(merged)
    BY <1>1, <1>2, <1>9, <1>10
  <2>2. /\ file \o Plain(merged) \in Seq(ByteType)
        /\ Len(file \o Plain(merged)) = Smaller(size, Start(merged + 1))
        /\ \A i \in 1 .. Len(file \o Plain(merged)) :
               (file \o Plain(merged))[i] = Byte(i, {})
    BY <1>2, <1>9, <2>1, NextStretch
  <2>3. QED
    BY <2>1, <2>2
<1>12. Start(merged)' = Start(merged + 1)
  BY <1>1, <1>5 DEF Start
<1>13. MergeInv'
  <2>1. /\ stage' \in {"merge", "merged"}
        /\ stage' = "merge" => merged' \in 0 .. NumHosts - 1
        /\ stage' = "merged" => merged' = NumHosts
    BY <1>1, <1>2, <1>9
  <2>2. Smaller(size, Start(merged))' = Smaller(size, Start(merged + 1))
    BY <1>1, <1>12 DEF Smaller
  <2>3. QED
    BY <1>11, <2>1, <2>2 DEF MergeInv
<1>14. QED
  BY <1>6, <1>8, <1>13

-----------------------------------------------------------------------------
(* The invariant.                                                          *)

LEMMA BytesInit ==
    ASSUME Init
    PROVE  BytesInv
<1>1. /\ size \in Sizes /\ size \in Nat /\ short = 0 /\ stage = "put" /\ merged = 0
      /\ stored = <<>> /\ fetched = <<>> /\ file = <<>>
      /\ tx = Opened("put", 0) /\ rx = Created /\ net = <<>> /\ NumHosts \in Nat \ {0}
  BY TransferAssumption DEF Init
<1>2. Piece = 0
  BY <1>1 DEF Piece
<1>3. InTransit(Piece)
  BY <1>1, <1>2, Fresh DEF FreshFits
<1>4. \A q : q = <<>> => /\ q \in Seq(Seq(ByteType)) /\ q \in Seq(ByteType) /\ Len(q) = 0
  OBVIOUS
<1>5. PiecesInv
  BY <1>1, <1>4 DEF PiecesInv
<1>6. StageInv
  BY <1>1, <1>4 DEF StageInv
<1>7. MergeInv
  <2>1. Smaller(size, Start(merged)) = 0
    BY <1>1, Starts DEF Smaller
  <2>2. QED
    BY <1>1, <1>4, <2>1 DEF MergeInv
<1>8. QED
  BY <1>1, <1>3, <1>5, <1>6, <1>7 DEF BytesInv

LEMMA BytesStep ==
    ASSUME \A s \in Sizes : s < OffsetRange, BytesInv, Next
    PROVE  BytesInv'
<1>1. size \in Sizes /\ short \in Nat /\ size \in Nat
  BY TransferAssumption DEF BytesInv
<1>2. \* What moves the bytes of one piece leaves the rest alone.
      ASSUME UNCHANGED <<size, stage, stored, fetched, file, merged>>,
             short' \in Nat, short' = 0 => short = 0,
             short' = 0 => InTransit(Piece)'
      PROVE  BytesInv'
  <2>1. \A p : /\ Sealed(p)' = Sealed(p) /\ Plain(p)' = Plain(p) /\ Start(p)' = Start(p)
    BY <1>2, SizeFixed
  <2>2. short = 0 => PiecesInv' /\ StageInv' /\ MergeInv'
    BY <1>2, <2>1 DEF BytesInv, PiecesInv, StageInv, MergeInv, Smaller
  <2>3. QED
    BY <1>1, <1>2, <2>2 DEF BytesInv
<1>3. \A k : Recv(k) => short' \in Nat /\ (short' = 0 => short = 0)
  BY <1>1 DEF Recv
<1>4. ASSUME NEW p, p = Piece, InTransit(p)',
             UNCHANGED <<stage, stored, fetched>>
      PROVE  InTransit(Piece)'
  <2>1. Piece' = p
    BY <1>4 DEF Piece
  <2>2. QED
    BY <1>4, <2>1 DEF InTransit, SentInv, ReceivedInv, StreamInv, Carries
<1>5. CASE SendData
  BY <1>1, <1>2, <1>4, <1>5, SendDataStep DEF SendData
<1>6. CASE SendEof
  BY <1>1, <1>2, <1>4, <1>6, SendEofStep DEF SendEof
<1>7. CASE ReceiveData
  BY <1>2, <1>3, <1>4, <1>7, ReceiveDataStep DEF ReceiveData
<1>8. CASE ReceiveEof
  <2>1. size' = size /\ short' \in Nat
    BY <1>3, <1>8 DEF ReceiveEof
  <2>2. QED
    BY <1>1, <1>8, <2>1, ReceiveEofStep DEF BytesInv
<1>9. CASE merge_partitions
  BY <1>9, MergeStep
<1>10. QED
  BY <1>5, <1>6, <1>7, <1>8, <1>9 DEF Next, Send, Receive

LEMMA BytesStutter ==
    ASSUME BytesInv, UNCHANGED vars
    PROVE  BytesInv'
<1>1. UNCHANGED <<size, stage, stored, fetched, file, merged, tx, rx, net, short>>
  BY DEF vars
<1>2. \A p : /\ Sealed(p)' = Sealed(p) /\ Plain(p)' = Plain(p) /\ Start(p)' = Start(p)
            /\ Share(p)' = Share(p) /\ psize(size)' = psize(size)
            /\ \A o : Filled(o, p)' = Filled(o, p)
  BY <1>1, SizeFixed
<1>3. PiecesInv' = PiecesInv /\ StageInv' = StageInv /\ MergeInv' = MergeInv
  BY <1>1, <1>2 DEF PiecesInv, StageInv, MergeInv, Smaller
<1>4. Piece' = Piece /\ More' = More /\ \A k : Offset(k)' = Offset(k)
  BY <1>1 DEF Piece, More, Offset
<1>5. ASSUME NEW p PROVE InTransit(p)' = InTransit(p)
  <2>1. SentInv(p)' = SentInv(p) /\ ReceivedInv(p)' = ReceivedInv(p)
    BY <1>1, <1>2, <1>4 DEF SentInv, ReceivedInv
  <2>2. \A k, o : Carries(k, o, p)' = Carries(k, o, p)
    BY <1>1, <1>2 DEF Carries
  <2>3. \A w : StreamInv(p, w)' = StreamInv(p, w)
    BY <1>1, <1>2, <1>4, <2>2 DEF StreamInv, Smaller
  <2>4. QED
    BY <1>1, <2>1, <2>3 DEF InTransit
<1>6. InTransit(Piece)' = InTransit(Piece)
  BY <1>4, <1>5
<1>7. QED
  BY <1>1, <1>3, <1>6 DEF BytesInv

\* Every byte in its place, sealed where it is stored and plain where it is at
\* home, as long as no offset overflows and every recv returns a whole packet.
THEOREM BytesInvariant ==
    ASSUME \A s \in Sizes : s < OffsetRange
    PROVE  Spec => []BytesInv
<1>1. Init => BytesInv
  BY BytesInit
<1>2. BytesInv /\ [Next]_vars => BytesInv'
  BY BytesStep, BytesStutter
<1>3. QED
  BY <1>1, <1>2, PTL DEF Spec

-----------------------------------------------------------------------------
(* What the invariant says of the servers and of the file.                 *)

LEMMA StartsGrow ==
    ASSUME size \in Nat, NEW p \in Nat, NEW q \in Nat, p <= q
    PROVE  Start(p) <= Start(q)
<1>1. psize(size) \in Nat
  BY Starts
<1> DEFINE d == psize(size)
<1> HIDE DEF d
<1>2. q - p \in Nat /\ d \in Nat
  BY <1>1 DEF d
<1>3. d * (q - p) >= 0
  BY <1>2
<1>4. d * (q - p) = d * q - d * p
  BY <1>2
<1>5. d * p \in Nat /\ d * q \in Nat
  BY <1>2
<1>6. d * p <= d * q
  BY <1>3, <1>4, <1>5
<1>7. QED
  BY <1>6 DEF Start, d

\* The places a stored piece holds.
LEMMA HeldIs ==
    ASSUME size \in Nat, PiecesInv, NEW p \in 1 .. Len(stored)
    PROVE  /\ p - 1 \in Nat /\ Len(stored[p]) = Share(p - 1)
           /\ \A i \in 1 .. Len(stored[p]) :
                  /\ stored[p][i].at = Start(p - 1) + i
                  /\ stored[p][i].key = {KeyPlace(i)}
           /\ Held(p) = {Start(p - 1) + i : i \in 1 .. Share(p - 1)}
<1>1. Len(stored) \in Nat /\ p - 1 \in Nat /\ stored[p] = Sealed(p - 1)
  BY LenProperties DEF PiecesInv
<1> DEFINE q == p - 1
           x == stored[p]
<1>2. q \in Nat /\ x = Sealed(q)
  BY <1>1
<1> HIDE DEF q, x
<1>3. /\ x \in Seq(ByteType) /\ Len(x) = Share(q)
      /\ \A i \in 1 .. Share(q) : x[i] = Byte(Start(q) + i, {KeyPlace(i)})
  BY <1>2, SealedAndPlain
<1>4. \A i \in 1 .. Share(q) : x[i].at = Start(q) + i /\ x[i].key = {KeyPlace(i)}
  BY <1>3 DEF Byte
<1>5. DOMAIN x = 1 .. Share(q)
  BY <1>3, LenProperties
<1>6. {b.at : b \in ToSet(x)} = {Start(q) + i : i \in 1 .. Share(q)}
  BY <1>4, <1>5 DEF ToSet
<1>7. Held(p) = {b.at : b \in ToSet(x)}
  BY DEF Held, x
<1>8. QED
  BY <1>1, <1>3, <1>4, <1>6, <1>7 DEF q, x

\* The pieces cover the file.
LEMMA Covered ==
    ASSUME size \in Nat, NEW k \in 1 .. size
    PROVE  \E p \in 1 .. NumHosts : \E i \in 1 .. Share(p - 1) : k = Start(p - 1) + i
<1>1. /\ psize(size) \in Nat \ {0} /\ Start(NumHosts) >= size /\ NumHosts \in Nat \ {0}
      /\ k - 1 \in Nat
  BY Starts, TransferAssumption
<1>2. PICK q \in Nat, m \in 0 .. psize(size) - 1 : k - 1 = psize(size) * q + m
  <2>1. ASSUME NEW d \in Nat \ {0}, NEW o \in Nat
        PROVE  \E q \in Nat, m \in 0 .. d - 1 : o = d * q + m
    BY DivMod
  <2>2. QED
    BY <1>1, <2>1
<1>3. Start(q) = psize(size) * q /\ Start(q) \in Nat
  BY Starts DEF Start
<1>4. k - 1 = Start(q) + m
  BY <1>2, <1>3
<1>5. q < NumHosts
  <2>1. SUFFICES ASSUME NumHosts <= q PROVE FALSE
    BY <1>1
  <2>2. Start(NumHosts) <= Start(q) /\ Start(NumHosts) \in Nat
    BY <1>1, <2>1, Starts, StartsGrow
  <2>3. QED
    BY <1>1, <1>3, <1>4, <2>2
<1>6. m + 1 \in 1 .. Share(q) /\ k = Start(q) + (m + 1)
  BY <1>1, <1>3, <1>4 DEF Share, Smaller
<1>7. q + 1 \in 1 .. NumHosts /\ (q + 1) - 1 = q
  BY <1>1, <1>5
<1>8. QED
  BY <1>6, <1>7

LEMMA BytesGiveStored ==
    ASSUME BytesInv
    PROVE  PiecesStored
<1> SUFFICES ASSUME short = 0
             PROVE  /\ \A p \in 1 .. Len(stored) : \A i \in 1 .. Len(stored[p]) :
                           /\ stored[p][i].key # {}
                           /\ i > 1 => stored[p][i].at = stored[p][i - 1].at + 1
                    /\ \A p, q \in 1 .. Len(stored) :
                           p < q => \A k \in Held(p), l \in Held(q) : k < l
                    /\ Len(stored) = NumHosts =>
                           UNION {Held(p) : p \in 1 .. NumHosts} = 1 .. size
  BY DEF PiecesStored
<1>1. PiecesInv /\ size \in Nat /\ Len(stored) \in Nat /\ NumHosts \in Nat
  BY LenProperties, TransferAssumption DEF BytesInv, PiecesInv
<1>2. ASSUME NEW p \in 1 .. Len(stored), NEW i \in 1 .. Len(stored[p])
      PROVE  /\ stored[p][i].key # {}
             /\ i > 1 => stored[p][i].at = stored[p][i - 1].at + 1
  <2>1. /\ p - 1 \in Nat /\ Start(p - 1) \in Nat
        /\ Len(stored[p]) = Share(p - 1) /\ Share(p - 1) \in Nat
        /\ \A j \in 1 .. Len(stored[p]) : /\ stored[p][j].at = Start(p - 1) + j
                                          /\ stored[p][j].key = {KeyPlace(j)}
    BY <1>1, HeldIs, Starts, Shares
  <2>2. i > 1 => i - 1 \in 1 .. Len(stored[p])
    BY <2>1
  <2>3. i > 1 => Start(p - 1) + i = (Start(p - 1) + (i - 1)) + 1
    BY <2>1
  <2>4. QED
    BY <2>1, <2>2, <2>3
<1>3. ASSUME NEW p \in 1 .. Len(stored), NEW q \in 1 .. Len(stored), p < q,
             NEW k \in Held(p), NEW l \in Held(q)
      PROVE  k < l
  <2>1. PICK i \in 1 .. Share(p - 1) : k = Start(p - 1) + i
    BY <1>1, HeldIs
  <2>2. PICK j \in 1 .. Share(q - 1) : l = Start(q - 1) + j
    BY <1>1, HeldIs
  <2>3. /\ p - 1 \in Nat /\ p \in Nat /\ q - 1 \in Nat /\ p <= q - 1 /\ p = (p - 1) + 1
    BY <1>1, <1>3
  <2>4. /\ Start(p - 1) \in Nat /\ Start(q - 1) \in Nat /\ Start(p) \in Nat
        /\ psize(size) \in Nat /\ Start(p) = Start(p - 1) + psize(size)
    BY <1>1, <2>3, Starts
  <2>5. Share(p - 1) \in Nat /\ Share(p - 1) <= psize(size) /\ Share(q - 1) \in Nat
    BY <1>1, <2>3, Shares
  <2>6. Start(p) <= Start(q - 1)
    BY <1>1, <2>3, StartsGrow
  <2>7. k <= Start(p)
    <3> DEFINE a == Start(p - 1)
               d == Share(p - 1)
               e == psize(size)
    <3>1. a \in Nat /\ d \in Nat /\ e \in Nat /\ d <= e /\ Start(p) = a + e
      BY <2>4, <2>5
    <3>2. i \in 1 .. d /\ k = a + i
      BY <2>1
    <3> HIDE DEF a, d, e
    <3>3. i \in Nat /\ i <= e
      BY <3>1, <3>2
    <3>4. QED
      BY <3>1, <3>2, <3>3
  <2>8. l > Start(q - 1)
    <3> DEFINE c == Start(q - 1)
    <3>1. c \in Nat /\ l = c + j /\ j \in Nat \ {0}
      BY <2>2, <2>4, <2>5
    <3> HIDE DEF c
    <3>2. l > c
      BY <3>1
    <3>3. QED
      BY <3>2 DEF c
  <2>9. k \in Int /\ l \in Int
    <3> DEFINE a == Start(p - 1)
               c == Start(q - 1)
    <3>1. a \in Int /\ c \in Int /\ i \in Int /\ j \in Int /\ k = a + i /\ l = c + j
      BY <2>1, <2>2, <2>4
    <3> HIDE DEF a, c
    <3>2. QED
      BY <3>1
  <2>10. QED
    <3> DEFINE b == Start(p)
               c == Start(q - 1)
    <3>1. b \in Nat /\ c \in Nat /\ b <= c /\ k <= b /\ l > c
      BY <2>4, <2>6, <2>7, <2>8
    <3> HIDE DEF b, c
    <3>2. QED
      BY <2>9, <3>1
<1>4. ASSUME Len(stored) = NumHosts
      PROVE  UNION {Held(p) : p \in 1 .. NumHosts} = 1 .. size
  <2>1. ASSUME NEW p \in 1 .. NumHosts, NEW k \in Held(p)
        PROVE  k \in 1 .. size
    <3>1. p - 1 \in Nat /\ \E i \in 1 .. Share(p - 1) : k = Start(p - 1) + i
      BY <1>1, <1>4, HeldIs
    <3>2. PICK i \in 1 .. Share(p - 1) : k = Start(p - 1) + i
      BY <3>1
    <3>3. /\ Share(p - 1) \in Nat /\ Start(p - 1) \in Nat
          /\ Share(p - 1) > 0 => Start(p - 1) + Share(p - 1) <= size
      BY <1>1, <3>1, Starts, Shares
    <3>4. QED
      BY <1>1, <3>2, <3>3
  <2>2. ASSUME NEW k \in 1 .. size
        PROVE  \E p \in 1 .. NumHosts : k \in Held(p)
    BY <1>1, <1>4, Covered, HeldIs
  <2>3. QED
    BY <2>1, <2>2
<1>5. QED
  BY <1>2, <1>3, <1>4

\* A piece on a server is a stretch of the file, none of it readable without the
\* key; the pieces are in order and, once all are there, leave nothing out
\* (handle_put, encrypt, send_file and receive_file).
THEOREM PiecesAreStored ==
    ASSUME \A s \in Sizes : s < OffsetRange
    PROVE  Spec => []PiecesStored
<1>1. BytesInv => PiecesStored
  BY BytesGiveStored
<1>2. QED
  BY <1>1, BytesInvariant, PTL

LEMMA BytesGiveFile ==
    ASSUME BytesInv
    PROVE  Reconstructed
<1> SUFFICES ASSUME stage = "merged", short = 0
             PROVE  file = Original
  BY DEF Reconstructed
<1>1. /\ size \in Nat /\ merged = NumHosts /\ file \in Seq(ByteType)
      /\ Len(file) = Smaller(size, Start(merged))
      /\ \A i \in 1 .. Len(file) : file[i] = Byte(i, {})
  BY TransferAssumption DEF BytesInv, MergeInv
<1>2. Start(NumHosts) >= size /\ Start(NumHosts) \in Nat
  BY <1>1, Starts, TransferAssumption
<1>3. Len(file) = size
  BY <1>1, <1>2 DEF Smaller
<1>4. DOMAIN file = 1 .. size /\ file = [i \in DOMAIN file |-> file[i]]
  BY <1>1, <1>3, LenProperties
<1>5. QED
  BY <1>1, <1>3, <1>4 DEF Original

\* What handle_get brings back and merge_partitions puts together is the file
\* that was uploaded.
THEOREM FilesReconstructed ==
    ASSUME \A s \in Sizes : s < OffsetRange
    PROVE  Spec => []Reconstructed
<1>1. BytesInv => Reconstructed
  BY BytesGiveFile
<1>2. QED
  BY <1>1, BytesInvariant, PTL
=============================================================================
