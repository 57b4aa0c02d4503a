----------------------------- MODULE DfcTransfer -----------------------------
(***************************************************************************)
(* The bytes of one file on their way through the distributed file store:  *)
(* handle_put cuts it into pieces and encrypts each, send_file and         *)
(* receive_file (dfc/trans.c) carry them to the servers, handle_get brings *)
(* them back and decrypts them, and merge_partitions puts them together.   *)
(*                                                                         *)
(* A byte is its place in the file with the places of the key it has been  *)
(* XORed with; XORing twice with the same one undoes it.  A packet is two  *)
(* units of the TCP stream, its fields and its data, so that one recv may  *)
(* return less than a packet.                                              *)
(***************************************************************************)
EXTENDS Integers, Sequences, SequencesExt

CONSTANTS
    NumHosts,       \* conf.nh: pieces of a file
    DataSizeMax,    \* DATA_SIZE_MAX
    KeyLen,         \* strlen(conf.password)
    Sizes,          \* lengths of the file that are tried
    OffsetRange,    \* 2^32: offset is a uint32_t
    SocketBuffer,   \* units of the stream that fit into the socket buffers
    MaxShort        \* bound on the recvs that return less than a packet

ASSUME TransferAssumption ==
    /\ NumHosts \in Nat \ {0} /\ DataSizeMax \in Nat \ {0} /\ KeyLen \in Nat \ {0}
    /\ Sizes \subseteq Nat /\ OffsetRange \in Nat \ {0}
    /\ SocketBuffer \in Nat /\ SocketBuffer >= 2 /\ MaxShort \in Nat

VARIABLES
    size,           \* the length of the file
    stage,          \* "put", "get", "merge", "merged" or "derailed"
    stored,         \* piece files on the servers, as far as uploaded
    fetched,        \* local piece files, as far as downloaded
    file,           \* what merge_partitions has written
    merged,         \* its i: pieces it has written
    tx,             \* send_file: place in fp, n, c, feof(fp), and whether it is done
    rx,             \* receive_file: its pos, and the file it has written
    net,            \* the stream between the two
    short           \* recvs that returned less than a packet

vars == <<size, stage, stored, fetched, file, merged, tx, rx, net, short>>
-----------------------------------------------------------------------------
Byte(i, k) == [at |-> i, key |-> k]
Noise      == Byte(0, {})           \* not a byte of the file

Original == [i \in 1 .. size |-> Byte(i, {})]

NoLimit == -1

RoundedDown(s) == s \div NumHosts                   \* slip: without the + 1
psize(s)       == s \div NumHosts + 1

\* The piece in transfer, the file it is read from, and its key.
Piece  == IF stage = "put" THEN Len(stored) ELSE Len(fetched)
Source == IF stage = "put" THEN Original ELSE stored[Piece + 1]

\* The key starts again with every packet.
Toggle(b, k)  == [b EXCEPT !.key = (@ \ {k}) \cup ({k} \ @)]
Xor(data, on) ==
    [i \in 1 .. Len(data) |->
        IF on THEN Toggle(data[i], (i - 1) % KeyLen) ELSE data[i]]
-----------------------------------------------------------------------------
\* The file is opened, and send_file and receive_file start.
Opened(s, p) ==
    [fpos |-> IF s = "put" THEN psize(size) * p ELSE 0,
     n    |-> IF s = "put" THEN psize(size) ELSE NoLimit,
     c    |-> 0, feof |-> FALSE, done |-> FALSE]
Created == [pos |-> 0, out |-> <<>>]

Init ==
    /\ size \in Sizes /\ stage = "put"
    /\ stored = <<>> /\ fetched = <<>> /\ file = <<>> /\ merged = 0
    /\ tx = Opened("put", 0) /\ rx = Created
    /\ net = <<>> /\ short = 0
-----------------------------------------------------------------------------
(* send_file.                                                              *)

Fields(eof, offset, len) == [kind |-> "fields", eof |-> eof, offset |-> offset, len |-> len]
Body(data)               == [kind |-> "data", data |-> data]

Smaller(a, b) == IF a < b THEN a ELSE b             \* MIN

\* slip: what has a limit is read in other portions
Uneven(m)  == IF m # NoLimit THEN Smaller(m, DataSizeMax - 1) ELSE DataSizeMax
Portion(m) == IF m # NoLimit THEN Smaller(m, DataSizeMax) ELSE DataSizeMax

\* slip: an fread at the very end of the file goes unnoticed
Started(got, wanted) == 0 < got /\ got < wanted
AtEnd(got, wanted)   == got < wanted

More == ~ tx.feof /\ (tx.n = NoLimit \/ tx.n > 0)

Sending == stage \in {"put", "get"} /\ ~ tx.done /\ Len(net) + 2 <= SocketBuffer

SendData ==
    /\ Sending /\ More
    /\ LET data   == SubSeq(Source, tx.fpos + 1,
                            Smaller(tx.fpos + Portion(tx.n), Len(Source)))
           nbytes == Len(data)
       IN  /\ tx' = [tx EXCEPT !.fpos = @ + nbytes, !.c = (@ + nbytes) % OffsetRange,
                         !.n = IF @ = NoLimit THEN @ ELSE @ - nbytes,
                         !.feof = AtEnd(nbytes, Portion(tx.n))]
           /\ net' = net \o <<Fields(FALSE, tx.c, nbytes), Body(Xor(data, stage = "put"))>>
    /\ UNCHANGED <<size, stage, stored, fetched, file, merged, rx, short>>

SendEof ==
    /\ Sending /\ ~ More
    /\ tx' = [tx EXCEPT !.done = TRUE]
    /\ net' = net \o <<Fields(TRUE, 0, 0), Body(<<>>)>>
    /\ UNCHANGED <<size, stage, stored, fetched, file, merged, rx, short>>
-----------------------------------------------------------------------------
(* receive_file.                                                           *)

\* One recv: a whole packet or, as TCP may have it, a part of one.
Recv(k) ==
    /\ stage \in {"put", "get"} /\ net # <<>>
    /\ \/ k = Smaller(2, Len(net)) /\ UNCHANGED short
       \/ k = 1 /\ Len(net) > 1 /\ short < MaxShort /\ short' = short + 1
    /\ net' = SubSeq(net, k + 1, Len(net))

\* What the first unit says when it is read as the fields of a packet.
Reads(unit) ==
    IF unit.kind = "fields" THEN {unit}
    ELSE {Fields(e, o, l) : e \in BOOLEAN, o \in 0 .. size, l \in 0 .. DataSizeMax}

\* data[0 .. len - 1], in a buffer that was cleared before the recv.
Taken(k, len) ==
    [i \in 1 .. len |->
        IF k = 2 /\ net[2].kind = "data" /\ i <= Len(net[2].data)
        THEN net[2].data[i] ELSE Noise]

\* fwrite: a gap reads as zeros.
Write(out, o, data) ==
    [i \in 1 .. IF o + Len(data) > Len(out) THEN o + Len(data) ELSE Len(out) |->
        IF i > o /\ i <= o + Len(data) THEN data[i - o]
        ELSE IF i <= Len(out) THEN out[i] ELSE Noise]

\* Written at offset, by fseek unless pos is already there.
ReceiveData ==
    \E k \in {1, 2} :
        /\ Recv(k)
        /\ \E f \in Reads(net[1]) :
              /\ ~ f.eof
              /\ rx' = [pos |-> f.offset + f.len,
                        out |-> IF f.len = 0 THEN rx.out
                                ELSE Write(rx.out, f.offset,
                                           Xor(Taken(k, f.len), stage = "get"))]
        /\ UNCHANGED <<size, stage, stored, fetched, file, merged, tx>>

\* The next piece: all the uploads, then all the downloads, then the merge.
\* Who ends before the stream does takes its rest for replies or requests.
NextPiece(pieces) ==
    IF net' # <<>> \/ ~ tx.done THEN stage' = "derailed" /\ UNCHANGED <<tx, rx>>
    ELSE /\ stage' = IF Len(pieces) < NumHosts THEN stage
                     ELSE IF stage = "put" THEN "get" ELSE "merge"
         /\ tx' = Opened(stage', IF stage' = stage THEN Len(pieces) ELSE 0)
         /\ rx' = Created

ReceiveEof ==
    /\ \E k \in {1, 2} : Recv(k)
    /\ \E f \in Reads(net[1]) : f.eof
    /\ \/ /\ stage = "put" /\ stored' = Append(stored, rx.out)
          /\ UNCHANGED fetched /\ NextPiece(stored')
       \/ /\ stage = "get" /\ fetched' = Append(fetched, rx.out)
          /\ UNCHANGED stored /\ NextPiece(fetched')
    /\ UNCHANGED <<size, file, merged>>
-----------------------------------------------------------------------------
\* Piece after piece is read to its end and written behind the others.
merge_partitions ==
    /\ stage = "merge"
    /\ file' = file \o fetched[merged + 1] /\ merged' = merged + 1
    /\ stage' = IF merged' = NumHosts THEN "merged" ELSE stage
    /\ UNCHANGED <<size, stored, fetched, tx, rx, net, short>>

Send    == SendData \/ SendEof
Receive == ReceiveData \/ ReceiveEof

Next == Send \/ Receive \/ merge_partitions

\* Neither end is starved.
Spec == Init /\ [][Next]_vars /\ WF_vars(Send) /\ WF_vars(Receive \/ merge_partitions)
-----------------------------------------------------------------------------
\* A piece that has been uploaded is a stretch of the file, none of it readable
\* without the key; the pieces are in order and, once all are there, leave
\* nothing out, however small the file and wherever the pieces end, as long
\* as TCP hands over whole packets.
Held(p) == {b.at : b \in ToSet(stored[p])}
PiecesStored ==
    short = 0 =>
        /\ \A p \in 1 .. Len(stored) : \A i \in 1 .. Len(stored[p]) :
               /\ stored[p][i].key # {}
               /\ i > 1 => stored[p][i].at = stored[p][i - 1].at + 1
        /\ \A p, q \in 1 .. Len(stored) :
               p < q => \A k \in Held(p), l \in Held(q) : k < l
        /\ Len(stored) = NumHosts => UNION {Held(p) : p \in 1 .. NumHosts} = 1 .. size

\* dfc/README.txt:27: the client reconstructs the original file, of any length;
\* decryption undoes encryption though neither knows where the other's
\* packets ended.
Reconstructed == stage = "merged" /\ short = 0 => file = Original

\* A file of any length is brought home: no transfer goes on for ever.
TransferEnds == <>(stage = "merged" \/ short > 0)
-----------------------------------------------------------------------------
(* The invariant of the proofs: while every recv has returned a whole      *)
(* packet, each byte is in its place, sealed or plain.                     *)

ByteType == [at : Nat, key : SUBSET (0 .. KeyLen - 1)]
UnitType == [kind : {"fields"}, eof : BOOLEAN, offset : Nat, len : Nat]
                \cup [kind : {"data"}, data : Seq(ByteType)]

\* Piece p begins after the first Start(p) bytes of the file.
Start(p) == psize(size) * p
Share(p) == IF Start(p) < size THEN Smaller(psize(size), size - Start(p)) ELSE 0

KeyPlace(j) == ((j - 1) % DataSizeMax) % KeyLen
Sealed(p)   == [j \in 1 .. Share(p) |-> Byte(Start(p) + j, {KeyPlace(j)})]
Plain(p)    == [j \in 1 .. Share(p) |-> Byte(Start(p) + j, {})]

\* The k-th packet on the way has the bytes of piece p that follow the first o.
Filled(o, p)     == Smaller(DataSizeMax, Share(p) - o)
Carries(k, o, p) ==
    /\ o \in 0 .. Share(p) /\ o % DataSizeMax = 0
    /\ net[2 * k - 1] = Fields(FALSE, o, Filled(o, p))
    /\ net[2 * k] = Body([i \in 1 .. Filled(o, p) |-> Sealed(p)[o + i]])

\* What send_file has read of piece p, and that only its last portion is short.
SentInv(p) ==
    /\ tx \in [fpos : Nat, n : Int, c : 0 .. Share(p), feof : BOOLEAN, done : BOOLEAN]
    /\ tx.fpos = tx.c + (IF stage = "put" THEN Start(p) ELSE 0)
    /\ tx.n = IF stage = "put" THEN psize(size) - tx.c ELSE NoLimit
    /\ IF More THEN tx.c % DataSizeMax = 0 /\ ~ tx.done ELSE tx.c = Share(p)

\* What receive_file has written, and the w packets of data on their way.
Offset(k) == Len(rx.out) + (k - 1) * DataSizeMax
ReceivedInv(p) ==
    /\ rx.out \in Seq(ByteType) /\ Len(rx.out) <= Share(p)
    /\ \A j \in 1 .. Len(rx.out) :
           rx.out[j] = IF stage = "put" THEN Sealed(p)[j] ELSE Plain(p)[j]
StreamInv(p, w) ==
    /\ Len(net) = 2 * w + (IF tx.done THEN 2 ELSE 0)
    /\ \A k \in 1 .. w : Carries(k, Offset(k), p)
    /\ tx.done => net[2 * w + 1] = Fields(TRUE, 0, 0) /\ net[2 * w + 2] = Body(<<>>)
    /\ tx.c = Smaller(Share(p), Offset(w + 1))
    /\ More => tx.c = Offset(w + 1)

InTransit(p) ==
    /\ SentInv(p) /\ ReceivedInv(p) /\ net \in Seq(UnitType)
    /\ \E w \in 0 .. Len(net) : StreamInv(p, w)

PiecesInv ==
    /\ stored \in Seq(Seq(ByteType)) /\ fetched \in Seq(Seq(ByteType))
    /\ \A p \in 1 .. Len(stored) : stored[p] = Sealed(p - 1)
    /\ \A p \in 1 .. Len(fetched) : fetched[p] = Plain(p - 1)

StageInv ==
    /\ stage \in {"put", "get", "merge", "merged"}
    /\ stage = "put" => Len(stored) < NumHosts /\ fetched = <<>>
    /\ stage # "put" => Len(stored) = NumHosts
    /\ stage = "get" => Len(fetched) < NumHosts
    /\ stage \in {"merge", "merged"} => Len(fetched) = NumHosts

MergeInv ==
    /\ stage \in {"put", "get"} => merged = 0
    /\ stage = "merge" => merged \in 0 .. NumHosts - 1
    /\ stage = "merged" => merged = NumHosts
    /\ file \in Seq(ByteType) /\ Len(file) = Smaller(size, Start(merged))
    /\ \A i \in 1 .. Len(file) : file[i] = Byte(i, {})

BytesInv ==
    /\ size \in Sizes /\ short \in Nat
    /\ short = 0 =>
           /\ PiecesInv /\ StageInv /\ MergeInv
           /\ stage \in {"put", "get"} => InTransit(Piece)
=============================================================================
