---------------------------- MODULE UdpTransfer ----------------------------
(***************************************************************************)
(* One file transfer over UDP: send_file and receive_file of udp/util.c,   *)
(* from the moment both sides have agreed to start.  The same two          *)
(* functions serve GET (the server sends) and PUT (the client sends).      *)
(*                                                                         *)
(* A byte of the file is known by its position.  The file being received   *)
(* maps each position to the byte written there, or to Hole.               *)
(***************************************************************************)
EXTENDS Integers, Sequences

CONSTANTS
    Size,           \* bytes of the file
    ChunkSize,      \* DATA_SIZE_MAX
    OffsetRange,    \* 2^32: the offset field of a packet has 32 bits
    MaxLost, MaxDuplicated, MaxOvertaken    \* bounds on the network's faults

ASSUME TransferAssumption ==
    /\ Size \in Nat /\ ChunkSize \in Nat \ {0} /\ OffsetRange \in Nat \ {0}
    /\ MaxLost \in Nat /\ MaxDuplicated \in Nat /\ MaxOvertaken \in Nat

VARIABLES
    pass,           \* send_file: the index i of the outer loop, 4 after the eof
    rpos,           \* the position the sender's file is read at
    net,            \* datagrams in flight, in the order they will arrive
    received,       \* the file on the receiver's side
    fpos,           \* the position that file is written at
    pos,            \* receive_file: where it believes it is
    done,           \* receive_file has returned
    \* faults so far, and how many copies of each byte were lost
    lost, duplicated, overtaken, lostCopies

netVars == <<net, lost, duplicated, overtaken, lostCopies>>
vars == <<pass, rpos, netVars, received, fpos, pos, done>>
-----------------------------------------------------------------------------
Byte == 0 .. Size - 1
Hole == -1

Data(p, n) == [eof |-> FALSE, offset |-> p % OffsetRange, len |-> n, from |-> p]
Eof        == [eof |-> TRUE, offset |-> 0, len |-> 0, from |-> 0]

\* The bytes of the file a packet carries (from is not part of the packet).
Carries(m, b) == ~ m.eof /\ m.from <= b /\ b < m.from + m.len

TwoPasses == 2                                      \* slip: one pass short
Passes    == 3

Init ==
    /\ pass = 0 /\ rpos = 0 /\ net = <<>>
    /\ received = [b \in Byte |-> Hole]
    /\ fpos = 0 /\ pos = 0 /\ done = FALSE
    /\ lost = 0 /\ duplicated = 0 /\ overtaken = 0
    /\ lostCopies = [b \in Byte |-> 0]
-----------------------------------------------------------------------------
(* The network: a datagram handed to sendto arrives, is lost, arrives      *)
(* twice, or overtakes datagrams sent before it.                           *)

Inserted(k, m) == SubSeq(net, 1, k) \o <<m>> \o SubSeq(net, k + 1, Len(net))

SendTo(m) ==
    \/ /\ net' = Append(net, m)
       /\ UNCHANGED <<lost, duplicated, overtaken, lostCopies>>
    \/ /\ lost < MaxLost /\ lost' = lost + 1
       /\ lostCopies' = [b \in Byte |-> IF Carries(m, b) THEN lostCopies[b] + 1
                                                         ELSE lostCopies[b]]
       /\ UNCHANGED <<net, duplicated, overtaken>>
    \/ /\ duplicated < MaxDuplicated /\ duplicated' = duplicated + 1
       /\ net' = net \o <<m, m>>
       /\ UNCHANGED <<lost, overtaken, lostCopies>>
    \/ /\ overtaken < MaxOvertaken /\ overtaken' = overtaken + 1
       /\ \E k \in 0 .. Len(net) - 1 : net' = Inserted(k, m)
       /\ UNCHANGED <<lost, duplicated, lostCopies>>
-----------------------------------------------------------------------------
(* The sender.                                                             *)

\* What fread returns: short, possibly empty, only at the end of the file.
Chunk == IF rpos + ChunkSize <= Size THEN ChunkSize ELSE Size - rpos

MorePasses  == pass < Passes

\* A short read sets feof, which ends the pass; fseek clears it.
SendData ==
    /\ MorePasses
    /\ SendTo(Data(rpos, Chunk))
    /\ IF Chunk < ChunkSize
       THEN pass' = pass + 1 /\ rpos' = 0
       ELSE rpos' = rpos + Chunk /\ UNCHANGED pass
    /\ UNCHANGED <<received, fpos, pos, done>>

PassesNeverDone == pass > Passes                    \* slip: <= in the loop
PassesDone      == pass = Passes

SendEof ==
    /\ PassesDone
    /\ SendTo(Eof)
    /\ pass' = Passes + 1
    /\ UNCHANGED <<rpos, received, fpos, pos, done>>
-----------------------------------------------------------------------------
(* The receiver.                                                           *)

NeverSeek(m) == fpos                                \* slip: offset ignored
WriteAt(m)   == IF m.offset # pos THEN m.offset ELSE fpos

ReceiveData ==
    /\ ~ done /\ net # <<>> /\ ~ Head(net).eof
    /\ LET m  == Head(net)
           at == WriteAt(m)
       IN  /\ received' = [b \in Byte |-> IF at <= b /\ b < at + m.len
                                          THEN m.from + (b - at) ELSE received[b]]
           /\ fpos' = at + m.len
           /\ pos' = m.offset + m.len
    /\ net' = Tail(net)
    /\ UNCHANGED <<pass, rpos, lost, duplicated, overtaken, lostCopies, done>>

ReceiveEof ==
    /\ ~ done /\ net # <<>> /\ Head(net).eof
    /\ done' = TRUE /\ net' = Tail(net)
    /\ UNCHANGED <<pass, rpos, lost, duplicated, overtaken, lostCopies,
                   received, fpos, pos>>
-----------------------------------------------------------------------------
Sender   == SendData \/ SendEof
Receiver == ReceiveData \/ ReceiveEof

Next == Sender \/ Receiver

\* Neither process is starved; the network may still lose what it can.
Spec == Init /\ [][Next]_vars /\ WF_vars(Sender) /\ WF_vars(Receiver)
-----------------------------------------------------------------------------
Datagram == [eof : BOOLEAN, offset : Nat, len : Nat, from : Nat]

\* The two loops and the network stay within the values their fields hold.
TypeOK ==
    /\ pass \in 0 .. 4 /\ rpos \in Nat
    /\ net \in Seq(Datagram)
    /\ received \in [Byte -> Byte \cup {Hole}]
    /\ fpos \in Nat /\ pos \in Nat /\ done \in BOOLEAN
    /\ lost \in 0 .. MaxLost /\ duplicated \in 0 .. MaxDuplicated
    /\ overtaken \in 0 .. MaxOvertaken
    /\ lostCopies \in [Byte -> Nat]

\* Whatever is lost, repeated or overtaken, a byte is written only where it
\* belongs: the receiver follows the offsets, not the order of arrival.
BytesInPlace == \A b \in Byte : received[b] \in {Hole, b}

\* README.txt:74: each file is sent three times.  When nothing overtook
\* anything, a transfer that has ended is complete unless three datagrams
\* were lost.
ThreeCopiesSuffice ==
    done /\ overtaken = 0 /\ lost < 3 => \A b \in Byte : received[b] = b

\* A transfer of which no datagram is lost comes to its end.
LosslessFinishes == <>(done \/ lost > 0)

-----------------------------------------------------------------------------
(* The inductive invariant behind the theorems of UdpTransfer_proofs.      *)

\* Copies of byte b handed to the network so far.
SentCopies(b) == IF pass >= Passes THEN Passes
                 ELSE IF b < rpos THEN pass + 1 ELSE pass

\* A copy of b will still arrive unless the receiver leaves.
InFlight(b) == \E k \in 1 .. Len(net) : Carries(net[k], b)

\* Packets say where their bytes belong, and those are bytes of the file.
PacketsHonest ==
    \A k \in 1 .. Len(net) : ~ net[k].eof =>
        net[k].offset = net[k].from /\ net[k].from + net[k].len <= Size

\* No copy disappears: b is there, or on its way, or every copy was lost.
CopiesAccounted ==
    \A b \in Byte :
        /\ lostCopies[b] <= lost
        /\ received[b] = b \/ InFlight(b) \/ lostCopies[b] = SentCopies(b)

\* Where nothing overtakes, no data follows the eof.
EofLast ==
    overtaken = 0 =>
        /\ \A k \in 1 .. Len(net) : net[k].eof =>
               pass = 4 /\ \A j \in k .. Len(net) : net[j].eof
        /\ done => pass = 4 /\ \A k \in 1 .. Len(net) : net[k].eof

\* Everything sent is received, in flight or lost, and stands where it
\* belongs; nothing is sent after the eof.
TransferInv ==
    /\ TypeOK /\ BytesInPlace
    /\ rpos <= Size /\ fpos = pos
    /\ PacketsHonest /\ CopiesAccounted /\ EofLast
=============================================================================
