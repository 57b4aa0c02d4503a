------------------------- MODULE DfcSession_proofs -------------------------
(* The plan of a PUT and of a GET, the session's invariants, and what      *)
(* becomes of the files, for every number of hosts and every bound.        *)
EXTENDS DfcSession, TLAPS, SequenceTheorems, FiniteSetTheorems

-----------------------------------------------------------------------------
(* The placement of pieces.                                                *)

(* Reduction modulo n of the numbers the placement computes.               *)
LEMMA SmallMod ==
    ASSUME NEW n \in Nat \ {0}, NEW x \in 0 .. (2 * n)
    PROVE  /\ x < n => x % n = x
           /\ (n <= x /\ x < 2 * n) => x % n = x - n
           /\ x = 2 * n => x % n = 0
BY SMTT(60)

(* Both pieces of a host are pieces, and its second piece is the one after *)
(* its first.                                                              *)
LEMMA PiecesOfAHost ==
    ASSUME NEW h \in Host, NEW i \in Host
    PROVE  /\ FirstPart(i, h) = IF h <= i THEN i - h ELSE i - h + NumHosts
           /\ FirstPart(i, h) \in Part
           /\ SecondPart(i, h) \in Part
           /\ SecondPart(i, h) = IF FirstPart(i, h) = NumHosts - 1
                                 THEN 0 ELSE FirstPart(i, h) + 1
<1>1. NumHosts \in Nat \ {0} /\ h \in Int /\ i \in Int
      /\ 0 <= h /\ h < NumHosts /\ 0 <= i /\ i < NumHosts
  BY NumHostsAssumption DEF Host
<1> DEFINE x == i - h + NumHosts
           y == i - h + 1 + NumHosts
<1>2. x \in 0 .. (2 * NumHosts) /\ y \in 0 .. (2 * NumHosts)
  BY <1>1
<1>3. /\ x < NumHosts => FirstPart(i, h) = x
      /\ (NumHosts <= x /\ x < 2 * NumHosts) => FirstPart(i, h) = x - NumHosts
  <2> HIDE DEF x
  <2>1. FirstPart(i, h) = x % NumHosts
    BY DEF FirstPart, x
  <2>2. QED
    BY <1>1, <1>2, <2>1, SmallMod, Zenon
<1>4. /\ y < NumHosts => SecondPart(i, h) = y
      /\ (NumHosts <= y /\ y < 2 * NumHosts) => SecondPart(i, h) = y - NumHosts
      /\ y = 2 * NumHosts => SecondPart(i, h) = 0
  <2> HIDE DEF y
  <2>1. SecondPart(i, h) = y % NumHosts
    BY DEF SecondPart, y
  <2>2. QED
    BY <1>1, <1>2, <2>1, SmallMod, Zenon
<1>5. QED
  BY <1>1, <1>3, <1>4 DEF Part

(* The second piece of a host is the first piece of the next, so the first *)
(* piece of a host is the second piece of its predecessor.                 *)
LEMMA PredecessorHoldsFirst ==
    ASSUME NEW h \in Host, NEW i \in Host
    PROVE  /\ Predecessor(i) \in Host
           /\ SecondPart(Predecessor(i), h) = FirstPart(i, h)
<1>1. NumHosts \in Nat \ {0} /\ h \in Int /\ i \in Int
      /\ 0 <= h /\ h < NumHosts /\ 0 <= i /\ i < NumHosts
  BY NumHostsAssumption DEF Host
<1>2. Predecessor(i) \in Host
  BY <1>1 DEF Predecessor, Host
<1> DEFINE j == Predecessor(i)
<1>3. /\ FirstPart(j, h) = IF h <= j THEN j - h ELSE j - h + NumHosts
      /\ SecondPart(j, h) = IF FirstPart(j, h) = NumHosts - 1
                            THEN 0 ELSE FirstPart(j, h) + 1
      /\ FirstPart(i, h) = IF h <= i THEN i - h ELSE i - h + NumHosts
  BY <1>2, PiecesOfAHost
<1>4. QED
  BY <1>1, <1>2, <1>3 DEF Predecessor

LEMMA FirstPartInjective ==
    ASSUME NEW h \in Host, NEW i \in Host, NEW j \in Host,
           FirstPart(i, h) = FirstPart(j, h)
    PROVE  i = j
<1>1. NumHosts \in Nat \ {0} /\ h \in Int /\ i \in Int /\ j \in Int
      /\ 0 <= h /\ h < NumHosts /\ 0 <= i /\ i < NumHosts /\ 0 <= j /\ j < NumHosts
  BY NumHostsAssumption DEF Host
<1>2. QED
  BY <1>1, PiecesOfAHost

LEMMA SecondPartInjective ==
    ASSUME NEW h \in Host, NEW i \in Host, NEW j \in Host,
           SecondPart(i, h) = SecondPart(j, h)
    PROVE  i = j
<1>1. FirstPart(i, h) \in Part /\ FirstPart(j, h) \in Part
  BY PiecesOfAHost
<1>2. FirstPart(i, h) = FirstPart(j, h)
  BY <1>1, PiecesOfAHost, NumHostsAssumption DEF Part
<1>3. QED
  BY <1>2, FirstPartInjective

LEMMA FetchedSets ==
    ASSUME NEW h \in Host, NEW i \in Host, NEW av \in [Host -> BOOLEAN]
    PROVE  /\ Stored(i, h) = {FirstPart(i, h), SecondPart(i, h)}
           /\ Fetched(av, i, h) = {SecondPart(i, h)} \cup
                  (IF av[Predecessor(i)] THEN {} ELSE {FirstPart(i, h)})
<1>1. FirstPart(i, h) # NoPart /\ SecondPart(i, h) # NoPart
  BY PiecesOfAHost, NumHostsAssumption DEF Part, NoPart
<1>2. QED
  BY <1>1 DEF Stored, Fetched, Named, PutParts, GetParts, StandsIn

(* No piece is asked of two hosts in one round of a GET: a piece is asked  *)
(* of the host that stores it first only when the other one is unavailable.*)
THEOREM PlanDisjoint ==
    ASSUME NEW h \in Host, NEW av \in [Host -> BOOLEAN],
           NEW i \in Host, NEW j \in Host, i # j, av[i], av[j]
    PROVE  Fetched(av, i, h) \cap Fetched(av, j, h) = {}
<1> SUFFICES ASSUME NEW p \in Fetched(av, i, h), p \in Fetched(av, j, h)
             PROVE  FALSE
  OBVIOUS
<1>1. CASE p = SecondPart(i, h) /\ p = SecondPart(j, h)
  BY <1>1, SecondPartInjective
<1>2. CASE p = FirstPart(i, h) /\ p = FirstPart(j, h)
  BY <1>2, FirstPartInjective
<1>3. CASE p = FirstPart(i, h) /\ p = SecondPart(j, h) /\ ~ av[Predecessor(i)]
  BY <1>3, PredecessorHoldsFirst, SecondPartInjective
<1>4. CASE p = SecondPart(i, h) /\ p = FirstPart(j, h) /\ ~ av[Predecessor(j)]
  BY <1>4, PredecessorHoldsFirst, SecondPartInjective
<1>5. QED
  BY <1>1, <1>2, <1>3, <1>4, FetchedSets

(* A piece some available host stores is asked of an available host, and   *)
(* only pieces stored by the host asked are asked for.                     *)
THEOREM PlanCovers ==
    ASSUME NEW h \in Host, NEW av \in [Host -> BOOLEAN], NEW p \in Part
    PROVE  (\E i \in Host : av[i] /\ p \in Fetched(av, i, h))
               <=> (\E i \in Host : av[i] /\ p \in Stored(i, h))
<1>1. ASSUME NEW i \in Host, av[i], p \in Fetched(av, i, h)
      PROVE  p \in Stored(i, h)
  BY <1>1, FetchedSets
<1>2. ASSUME NEW i \in Host, av[i], p \in Stored(i, h)
      PROVE  \E j \in Host : av[j] /\ p \in Fetched(av, j, h)
  <2>1. CASE p = SecondPart(i, h)
    BY <1>2, <2>1, FetchedSets
  <2>2. CASE p = FirstPart(i, h) /\ ~ av[Predecessor(i)]
    BY <1>2, <2>2, FetchedSets
  <2>3. CASE p = FirstPart(i, h) /\ av[Predecessor(i)]
    BY <2>3, FetchedSets, PredecessorHoldsFirst
  <2>4. QED
    BY <1>2, <2>1, <2>2, <2>3, FetchedSets
<1>3. QED
  BY <1>1, <1>2

-----------------------------------------------------------------------------
(* The session.                                                            *)

LEMMA HostPart == Host = Part /\ NoPart \notin Part /\ HashValue \in Host
                  /\ NumHosts \in Nat \ {0} /\ 0 \in Host
BY NumHostsAssumption, SessionAssumption DEF Host, Part, NoPart

LEMMA WholeType ==
    ASSUME NEW v \in Version
    PROVE  /\ Whole(v) \in Seq(Content)
           /\ \A p \in Part : Whole(v)[p + 1] = Piece(p, v)
<1>1. \A k \in 1 .. NumHosts : k - 1 \in Part
  BY HostPart DEF Part
<1>2. \A k \in 1 .. NumHosts : Piece(k - 1, v) \in Content
  BY <1>1 DEF Content, Piece
<1>3. Whole(v) \in [1 .. NumHosts -> Content]
  BY <1>2 DEF Whole
<1>4. \A p \in Part : p + 1 \in 1 .. NumHosts /\ (p + 1) - 1 = p
  BY HostPart DEF Part
<1>5. \A p \in Part : Whole(v)[p + 1] = Piece(p, v)
  BY <1>4 DEF Whole
<1>6. QED
  BY <1>3, <1>5, HostPart, SeqDef

LEMMA PlanType ==
    ASSUME NEW k \in Commands, NEW av \in [Host -> BOOLEAN], NEW i \in Host
    PROVE  /\ PlanFor(k, av, i) \in (Part \cup {NoPart}) \X (Part \cup {NoPart})
           /\ PlanFor(k, av, i)[2] \in Part
           /\ k = "put" => PlanFor(k, av, i)[1] \in Part
<1>1. FirstPart(i, HashValue) \in Part /\ SecondPart(i, HashValue) \in Part
      /\ SecondPart(i, 0) \in Part
  BY HostPart, PiecesOfAHost
<1>2. CASE k = "put"
  BY <1>1, <1>2 DEF PlanFor, PutParts
<1>3. CASE k = "get"
  BY <1>1, <1>3 DEF PlanFor, GetParts
<1>4. CASE k \notin {"put", "get"}
  BY <1>1, <1>4 DEF PlanFor
<1>5. QED
  BY <1>2, <1>3, <1>4

LEMMA PacketType ==
    /\ Reply(0) \in Packet /\ Reply(1) \in Packet /\ Eof \in Packet
    /\ \A c \in Content : Data(c) \in Packet
    /\ \A k \in {"put", "get"}, p \in Part : Request(k, p) \in Packet
    /\ \A k \in {"ls", "mkdir"} : Request(k, NoPart) \in Packet
    /\ Absent \in Content /\ Torn \in Content
    /\ \A m \in Packet : Written(m) \in Content
<1>1. \A m \in Packet : Written(m) \in Content
  BY DEF Packet, Written, Data, Reply, Request, Eof, Content, Commands
<1>2. QED
  BY <1>1 DEF Packet, Content

LEMMA SpawnType ==
    ASSUME NEW k \in Commands, NEW av \in [Host -> BOOLEAN], Spawn(k, av)
    PROVE  /\ ThreadTypeOK'
           /\ \A i \in Host : wpc'[i] # "off" =>
                  /\ av[i]
                  /\ parts'[i] = PlanFor(k, av, i)
                  /\ widx'[i] = 1 => parts'[i][1] # NoPart
<1>1. \A i \in Host : NoParts[i] \in (Part \cup {NoPart}) \X (Part \cup {NoPart})
  BY DEF NoParts
<1>2. QED
  BY <1>1, PlanType DEF Spawn, ThreadTypeOK, NoReturn

LEMMA IdleType ==
    /\ NoParts \in [Host -> (Part \cup {NoPart}) \X (Part \cup {NoPart})]
    /\ NoThread \in [Host -> {"off", "send", "recv", "data", "done"}]
    /\ NoReturn \in [Host -> 0 .. 2]
    /\ [i \in Host |-> 1] \in [Host -> {1, 2}]
BY DEF NoParts, NoThread, NoReturn
-----------------------------------------------------------------------------
(* Each helper of the threads keeps the types of what it changes.          *)

LEMMA SentType ==
    ASSUME NetTypeOK, NEW i \in Host, NEW pkts \in Seq(Packet), Sent(i, pkts)
    PROVE  /\ c2s' \in [Host -> Seq(Packet)]
           /\ conn' \in [Host -> {"closed", "open", "fin", "reset", "dead"}]
<1>1. c2s[i] \in Seq(Packet)
  BY DEF NetTypeOK
<1>2. c2s[i] \o pkts \in Seq(Packet)
  BY <1>1, ConcatProperties
<1>3. QED
  BY <1>2 DEF Sent, NetTypeOK

LEMMA SendFailedType ==
    ASSUME NetTypeOK, NEW i \in Host, SendFailed(i)
    PROVE  /\ c2s' \in [Host -> Seq(Packet)]
           /\ conn' \in [Host -> {"closed", "open", "fin", "reset", "dead"}]
BY DEF NetTypeOK, SendFailed, ConnectionError

LEMMA RecvType ==
    ASSUME NetTypeOK, NEW i \in Host,
           Received(i) \/ EndOfStream(i) \/ RecvFailed(i)
    PROVE  /\ s2c' \in [Host -> Seq(Packet)]
           /\ conn' \in [Host -> {"closed", "open", "fin", "reset", "dead"}]
           /\ Received(i) => Incoming(i) \in Packet
<1>1. s2c[i] \in Seq(Packet)
  BY DEF NetTypeOK
<1>2. s2c[i] # <<>> => Head(s2c[i]) \in Packet /\ Tail(s2c[i]) \in Seq(Packet)
  BY <1>1, HeadTailProperties
<1>3. CASE Received(i)
  BY <1>2, <1>3 DEF Received, Incoming, NetTypeOK
<1>4. CASE EndOfStream(i)
  BY <1>4 DEF EndOfStream, Received, NetTypeOK
<1>5. CASE RecvFailed(i)
  BY <1>5 DEF RecvFailed, ConnectionError, Received, NetTypeOK
<1>6. QED
  BY <1>3, <1>4, <1>5

LEMMA GotoType ==
    ASSUME ThreadTypeOK, NEW i \in Host,
           NextPiece(i) \/ \E pc \in {"recv", "data", "done"} : Goto(i, pc)
    PROVE  /\ wpc' \in [Host -> {"off", "send", "recv", "data", "done"}]
           /\ widx' \in [Host -> {1, 2}]
BY DEF ThreadTypeOK, NextPiece, Goto

LEMMA FailType ==
    ASSUME ThreadTypeOK, NEW i \in Host, NEW r \in 0 .. 2,
           Fail(i, r) \/ UNCHANGED ret
    PROVE  ret' \in [Host -> 0 .. 2]
BY DEF ThreadTypeOK, Fail

-----------------------------------------------------------------------------
(* Types, action by action.                                                *)

LEMMA CurrentType ==
    ASSUME TypeOK, Planned, NEW i \in Host, NEW k \in Commands,
           NEW pc \in {"send", "recv", "data"}, At(i, k, pc)
    PROVE  Current(i) \in Part
<1>1. avail \in [Host -> BOOLEAN] /\ widx[i] \in {1, 2}
      /\ parts[i] \in (Part \cup {NoPart}) \X (Part \cup {NoPart})
  BY DEF TypeOK, ClientTypeOK, ThreadTypeOK
<1>2. parts[i] = PlanFor(k, avail, i) /\ (widx[i] = 1 => parts[i][1] # NoPart)
  BY DEF Planned, At
<1>3. QED
  BY <1>1, <1>2, PlanType DEF Current

LEMMA SliceType ==
    ASSUME TypeOK, Planned, NEW i \in Host, At(i, "put", "data")
    PROVE  Slice(i) = Piece(Current(i), ncmds + 1) /\ Slice(i) \in Content
<1>1. lfile = Whole(ncmds + 1)
  BY DEF Planned, At
<1>2. Current(i) \in Part
  BY CurrentType DEF Commands
<1>3. ncmds + 1 \in Version
  BY SessionAssumption DEF Version, TypeOK, ClientTypeOK
<1>4. Slice(i) = Piece(Current(i), ncmds + 1)
  BY <1>1, <1>2, <1>3, WholeType DEF Slice
<1>5. QED
  BY <1>2, <1>3, <1>4 DEF Content, Piece

LEMMA ThreadSends ==
    ASSUME TypeOK, Planned, NEW i \in Host,
           PutRequest(i) \/ PutData(i) \/ GetRequest(i) \/ SimpleRequest(i)
    PROVE  TypeOK'
<1> USE DEF TypeOK
<1>1. CASE PutRequest(i)
  <2>1. <<Request("put", Current(i))>> \in Seq(Packet)
    BY <1>1, PacketType, CurrentType DEF PutRequest, Commands
  <2>2. NetTypeOK'
    BY <1>1, <2>1, SentType, SendFailedType DEF PutRequest, NetTypeOK
  <2>3. ThreadTypeOK'
    BY <1>1, GotoType, FailType DEF PutRequest, ThreadTypeOK, ThreadFrame
  <2>4. ServerTypeOK' /\ ClientTypeOK'
    BY <1>1 DEF PutRequest, ThreadFrame, ServerTypeOK, ClientTypeOK,
                srvVars, diskVars, boundVars
  <2> QED BY <2>2, <2>3, <2>4
<1>2. CASE PutData(i)
  <2>1. <<Data(Slice(i)), Eof>> \in Seq(Packet)
    BY <1>2, PacketType, SliceType DEF PutData
  <2>2. NetTypeOK'
    BY <1>2, <2>1, SentType, SendFailedType DEF PutData, NetTypeOK
  <2>3. ThreadTypeOK'
    BY <1>2, GotoType, FailType DEF PutData, ThreadTypeOK, ThreadFrame
  <2>4. ServerTypeOK' /\ ClientTypeOK'
    BY <1>2 DEF PutData, ThreadFrame, ServerTypeOK, ClientTypeOK,
                srvVars, diskVars, boundVars
  <2> QED BY <2>2, <2>3, <2>4
<1>3. CASE GetRequest(i)
  <2>1. <<Request("get", Current(i))>> \in Seq(Packet)
    BY <1>3, PacketType, CurrentType DEF GetRequest, Commands
  <2>2. NetTypeOK'
    BY <1>3, <2>1, SentType, SendFailedType DEF GetRequest, NetTypeOK
  <2>3. ThreadTypeOK'
    BY <1>3, GotoType, FailType DEF GetRequest, ThreadTypeOK, ThreadFrame
  <2>4. ServerTypeOK' /\ ClientTypeOK'
    BY <1>3 DEF GetRequest, ThreadFrame, ServerTypeOK, ClientTypeOK,
                srvVars, diskVars, boundVars
  <2> QED BY <2>2, <2>3, <2>4
<1>4. CASE SimpleRequest(i)
  <2> PICK k \in {"ls", "mkdir"} :
          /\ At(i, k, "send")
          /\ \/ Sent(i, <<Request(k, NoPart)>>) /\ Goto(i, "recv") /\ UNCHANGED ret
             \/ SendFailed(i) /\ Fail(i, 1) /\ Goto(i, "done")
    BY <1>4 DEF SimpleRequest
  <2>1. <<Request(k, NoPart)>> \in Seq(Packet)
    BY PacketType DEF Commands
  <2>2. NetTypeOK'
    BY <1>4, <2>1, SentType, SendFailedType DEF SimpleRequest, NetTypeOK
  <2>3. ThreadTypeOK'
    BY <1>4, GotoType, FailType DEF SimpleRequest, ThreadTypeOK, ThreadFrame
  <2>4. ServerTypeOK' /\ ClientTypeOK'
    BY <1>4 DEF SimpleRequest, ThreadFrame, ServerTypeOK, ClientTypeOK,
                srvVars, diskVars, boundVars
  <2> QED BY <2>2, <2>3, <2>4
<1>5. QED
  BY <1>1, <1>2, <1>3, <1>4

LEMMA LocalPieceType ==
    ASSUME ClientTypeOK, NEW p, NEW c, p \in Part => c \in Content,
           lpart' = [lpart EXCEPT ![p] = c]
    PROVE  lpart' \in [Part -> Content]
BY DEF ClientTypeOK

LEMMA ThreadReceives ==
    ASSUME TypeOK, NEW i \in Host,
           PutReply(i) \/ GetReply(i) \/ GetData(i) \/ SimpleReply(i)
    PROVE  TypeOK'
<1> USE DEF TypeOK
<1>1. CASE PutReply(i)
  <2>1. NetTypeOK'
    BY <1>1, RecvType DEF PutReply, NetTypeOK
  <2>2. ThreadTypeOK'
    BY <1>1, GotoType, FailType DEF PutReply, ThreadTypeOK, ThreadFrame
  <2>3. ServerTypeOK' /\ ClientTypeOK'
    BY <1>1 DEF PutReply, ThreadFrame, ServerTypeOK, ClientTypeOK,
                srvVars, diskVars, boundVars
  <2> QED BY <2>1, <2>2, <2>3
<1>2. CASE GetReply(i)
  <2>1. NetTypeOK'
    BY <1>2, RecvType DEF GetReply, NetTypeOK
  <2>2. ThreadTypeOK'
    BY <1>2, GotoType, FailType
       DEF GetReply, OpenLocalPiece, Refuse, ThreadTypeOK, ThreadFrame
  <2>3. lpart' \in [Part -> Content] /\ lfile' = lfile
    BY <1>2, LocalPieceType, PacketType
       DEF GetReply, OpenLocalPiece, Refuse, diskVars, ClientTypeOK
  <2>4. ServerTypeOK' /\ ClientTypeOK'
    BY <1>2, <2>3 DEF GetReply, ThreadFrame, ServerTypeOK, ClientTypeOK,
                      srvVars, boundVars
  <2> QED BY <2>1, <2>2, <2>4
<1>3. CASE GetData(i)
  <2>1. NetTypeOK'
    BY <1>3, RecvType DEF GetData, NetTypeOK
  <2>2. ThreadTypeOK'
    BY <1>3, GotoType, FailType DEF GetData, ThreadTypeOK, ThreadFrame
  <2>3. lpart' \in [Part -> Content]
    <3>1. CASE Received(i) /\ Incoming(i) # Eof
      BY <1>3, <3>1, RecvType, LocalPieceType, PacketType
         DEF GetData, Received, EndOfStream, RecvFailed
    <3>2. CASE Received(i) /\ Incoming(i) = Eof
      BY <1>3, <3>2 DEF GetData, Received, EndOfStream, RecvFailed, ClientTypeOK
    <3>3. CASE ~ Received(i)
      <4>1. PICK c \in {lpart[Current(i)], Torn} :
                lpart' = [lpart EXCEPT ![Current(i)] = c]
        BY <1>3, <3>3 DEF GetData
      <4>2. Current(i) \in Part => c \in Content
        BY <4>1, PacketType DEF ClientTypeOK
      <4>3. QED
        BY <4>1, <4>2, LocalPieceType
    <3>4. QED
      BY <3>1, <3>2, <3>3
  <2>4. ServerTypeOK' /\ ClientTypeOK'
    BY <1>3, <2>3 DEF GetData, ThreadFrame, ServerTypeOK, ClientTypeOK,
                      srvVars, boundVars
  <2> QED BY <2>1, <2>2, <2>4
<1>4. CASE SimpleReply(i)
  <2>1. NetTypeOK'
    BY <1>4, RecvType DEF SimpleReply, NetTypeOK
  <2>2. ThreadTypeOK'
    BY <1>4, GotoType, FailType DEF SimpleReply, ThreadTypeOK, ThreadFrame
  <2>3. ServerTypeOK' /\ ClientTypeOK'
    BY <1>4 DEF SimpleReply, ThreadFrame, ServerTypeOK, ClientTypeOK,
                srvVars, diskVars, boundVars
  <2> QED BY <2>1, <2>2, <2>3
<1>5. QED
  BY <1>1, <1>2, <1>3, <1>4

LEMMA StoreType ==
    ASSUME ServerTypeOK, NEW i \in Host, NEW p, NEW c, p \in Part => c \in Content,
           store' = [store EXCEPT ![i][p] = c]
    PROVE  store' \in [Host -> [Part -> Content]]
BY DEF ServerTypeOK

LEMMA HeadTailType ==
    ASSUME NetTypeOK, NEW i \in Host, c2s[i] # <<>>
    PROVE  /\ Head(c2s[i]) \in Packet
           /\ [c2s EXCEPT ![i] = Tail(@)] \in [Host -> Seq(Packet)]
<1>1. c2s[i] \in Seq(Packet)
  BY DEF NetTypeOK
<1>2. Head(c2s[i]) \in Packet /\ Tail(c2s[i]) \in Seq(Packet)
  BY <1>1, HeadTailProperties
<1>3. QED
  BY <1>2 DEF NetTypeOK

LEMMA AnsweredType ==
    ASSUME NetTypeOK, NEW i \in Host, NEW pkts \in Seq(Packet), Answered(i, pkts)
    PROVE  s2c' \in [Host -> Seq(Packet)]
<1>1. s2c[i] \in Seq(Packet)
  BY DEF NetTypeOK
<1>2. s2c[i] \o pkts \in Seq(Packet)
  BY <1>1, ConcatProperties
<1>3. QED
  BY <1>2 DEF Answered, NetTypeOK

LEMMA ServerActs ==
    ASSUME TypeOK, NEW i \in Host, Server(i)
    PROVE  TypeOK'
<1> USE DEF TypeOK
<1>1. CASE ServerRequest(i)
  <2>1. Head(c2s[i]) \in Packet /\ c2s' \in [Host -> Seq(Packet)]
    BY <1>1, HeadTailType DEF ServerRequest
  <2>2. CanFetch(i) \/ CanStore(i) => AskedPart(i) \in Part
    BY <2>1 DEF CanFetch, CanStore, Asked, AskedPart, Packet, Request, Reply, Data, Eof
  <2>3. s2c' \in [Host -> Seq(Packet)]
    <3>1. <<Reply(0)>> \in Seq(Packet) /\ <<Reply(1)>> \in Seq(Packet)
      BY PacketType
    <3>2. CASE SendPiece(i)
      <4>1. Data(store[i][AskedPart(i)]) \in Packet
        BY <2>2, <3>2, PacketType DEF SendPiece, ServerTypeOK
      <4>2. <<Reply(0), Data(store[i][AskedPart(i)]), Eof>> \in Seq(Packet)
        BY <4>1, PacketType
      <4>3. QED
        BY <3>2, <4>2, AnsweredType DEF SendPiece
    <3>3. CASE ~ SendPiece(i)
      BY <1>1, <3>1, <3>3, AnsweredType
         DEF ServerRequest, AcceptPut, MakeDir, ListDir, RefuseRequest
    <3>4. QED
      BY <3>2, <3>3
  <2>4. ServerTypeOK'
    <3>1. CASE AcceptPut(i)
      <4>1. store' \in [Host -> [Part -> Content]]
        BY <3>1, StoreType, PacketType DEF AcceptPut
      <4>2. QED
        BY <1>1, <2>2, <3>1, <4>1 DEF AcceptPut, ServerRequest, ServerTypeOK
    <3>2. CASE ~ AcceptPut(i)
      BY <1>1, <3>2 DEF ServerRequest, SendPiece, MakeDir, ListDir, RefuseRequest,
                        ServerTypeOK
    <3>3. QED
      BY <3>1, <3>2
  <2>5. NetTypeOK' /\ ThreadTypeOK' /\ ClientTypeOK'
    BY <1>1, <2>1, <2>3
       DEF ServerRequest, ServerFrame, NetTypeOK, ThreadTypeOK, ClientTypeOK,
           thrVars, diskVars, boundVars
  <2> QED BY <2>4, <2>5
<1>2. CASE ServerStore(i)
  <2>1. Head(c2s[i]) \in Packet /\ c2s' \in [Host -> Seq(Packet)]
    BY <1>2, HeadTailType DEF ServerStore
  <2>2. store' \in [Host -> [Part -> Content]]
    BY <1>2, <2>1, StoreType, PacketType DEF ServerStore, ServerTypeOK
  <2>3. ServerTypeOK'
    BY <1>2, <2>2 DEF ServerStore, ServerTypeOK
  <2>4. NetTypeOK' /\ ThreadTypeOK' /\ ClientTypeOK'
    BY <1>2, <2>1
       DEF ServerStore, ServerFrame, NetTypeOK, ThreadTypeOK, ClientTypeOK,
           thrVars, diskVars, boundVars
  <2> QED BY <2>3, <2>4
<1>3. CASE ServerHangup(i)
  BY <1>3 DEF ServerHangup, ServerFrame, ServerTypeOK, NetTypeOK, ThreadTypeOK,
              ClientTypeOK, thrVars, diskVars, boundVars
<1>4. QED
  BY <1>1, <1>2, <1>3 DEF Server

LEMMA ServerDiesType ==
    ASSUME TypeOK, NEW i \in Host, ServerDies(i)
    PROVE  /\ ServerTypeOK' /\ ThreadTypeOK'
           /\ c2s' \in [Host -> Seq(Packet)]
           /\ goal' \in {0} \cup Version
           /\ UNCHANGED <<main, cmd, avail, diskVars>>
<1> USE DEF TypeOK
<1>1. store' \in [Host -> [Part -> Content]]
  <2>1. CASE hpc[i] = "store"
    <3>1. PICK c \in {store[i][hpart[i]], Torn} :
              store' = [store EXCEPT ![i][hpart[i]] = c]
      BY <2>1 DEF ServerDies
    <3>2. hpart[i] \in Part => c \in Content
      BY <3>1, PacketType DEF ServerTypeOK
    <3>3. QED
      BY <3>1, <3>2, StoreType
  <2>2. CASE hpc[i] # "store"
    BY <2>2 DEF ServerDies, ServerTypeOK
  <2>3. QED
    BY <2>1, <2>2
<1>2. ServerTypeOK' /\ ThreadTypeOK'
  BY <1>1 DEF ServerDies, ServerTypeOK, ThreadTypeOK, thrVars
<1>3. c2s' \in [Host -> Seq(Packet)]
  BY EmptySeq DEF ServerDies, NetTypeOK
<1>4. QED
  BY <1>2, <1>3 DEF ServerDies, ClientTypeOK

LEMMA CrashType ==
    ASSUME TypeOK, NEW i \in Host, Crash(i) \/ ServerSigpipe(i)
    PROVE  TypeOK'
<1> USE DEF TypeOK
<1>1. ServerTypeOK' /\ ThreadTypeOK' /\ c2s' \in [Host -> Seq(Packet)]
      /\ goal' \in {0} \cup Version /\ UNCHANGED <<main, cmd, avail, diskVars>>
  BY ServerDiesType DEF Crash, ServerSigpipe
<1>2. CASE Crash(i)
  <2>1. s2c[i] \in Seq(Packet)
    BY DEF NetTypeOK
  <2>2. \A n \in 0 .. Len(s2c[i]) : SubSeq(s2c[i], 1, n) \in Seq(Packet)
    BY <2>1, SubSeqProperties, LenProperties
  <2>3. s2c' \in [Host -> Seq(Packet)]
    BY <1>2, <2>2 DEF Crash, NetTypeOK
  <2>4. conn' \in [Host -> {"closed", "open", "fin", "reset", "dead"}]
    BY <1>2, SessionAssumption DEF Crash, NetTypeOK
  <2>5. ClientTypeOK'
    BY <1>1, <1>2, SessionAssumption DEF Crash, ClientTypeOK, diskVars
  <2>6. QED
    BY <1>1, <2>3, <2>4, <2>5 DEF NetTypeOK
<1>3. CASE ServerSigpipe(i)
  BY <1>1, <1>3 DEF ServerSigpipe, NetTypeOK, ClientTypeOK, diskVars, boundVars
<1>4. QED
  BY <1>2, <1>3

LEMMA RestartType ==
    ASSUME TypeOK, NEW i \in Host, Restart(i)
    PROVE  TypeOK'
BY DEF TypeOK, Restart, ServerTypeOK, NetTypeOK, ThreadTypeOK, ClientTypeOK,
       netVars, thrVars, diskVars, boundVars

LEMMA ClientDiesType ==
    ASSUME TypeOK, ClientDies
    PROVE  TypeOK'
<1> USE DEF TypeOK
<1>1. lpart' \in [Part -> Content]
  BY PacketType DEF ClientDies, ClientTypeOK
<1>2. ThreadTypeOK'
  BY IdleType DEF ClientDies, ThreadTypeOK
<1>3. NetTypeOK'
  BY EmptySeq DEF ClientDies, NetTypeOK
<1>4. ServerTypeOK' /\ ClientTypeOK'
  BY <1>1 DEF ClientDies, ServerTypeOK, ClientTypeOK, srvVars, boundVars
<1>5. QED
  BY <1>2, <1>3, <1>4

LEMMA RelaunchType ==
    ASSUME TypeOK, Relaunch
    PROVE  TypeOK'
<1>1. nlaunches' \in 1 .. MaxLaunches
  BY SessionAssumption DEF Relaunch, TypeOK, ClientTypeOK
<1>2. QED
  BY <1>1 DEF TypeOK, Relaunch, ServerTypeOK, NetTypeOK, ThreadTypeOK,
              ClientTypeOK, srvVars, thrVars, diskVars

LEMMA MergedType ==
    ASSUME ClientTypeOK
    PROVE  Merged \in Seq(Content)
<1>1. IsFiniteSet(Part) /\ Cardinality(Part) = NumHosts
  BY HostPart, FS_Interval DEF Part
<1>2. Cardinality(Leading) \in Nat /\ Cardinality(Leading) <= NumHosts
  BY <1>1, FS_Subset, FS_CardinalityType DEF Leading
<1>3. \A k \in 1 .. Cardinality(Leading) : k - 1 \in Part
  BY <1>2, HostPart DEF Part
<1>4. Merged \in [1 .. Cardinality(Leading) -> Content]
  BY <1>3 DEF Merged, ClientTypeOK
<1>5. QED
  BY <1>2, <1>4, SeqDef

LEMMA JoinType ==
    ASSUME TypeOK, Join
    PROVE  TypeOK'
<1> USE DEF TypeOK
<1>1. StillAvailable \in [Host -> BOOLEAN]
  BY DEF StillAvailable, ClientTypeOK, ThreadTypeOK
<1>2. BackToPrompt => ThreadTypeOK' /\ main' = "prompt" /\ cmd' = "none"
  BY IdleType DEF BackToPrompt, ThreadTypeOK
<1>3. CASE JoinRetry
  <2>1. ThreadTypeOK'
    BY <1>1, <1>3, SpawnType DEF JoinRetry, Commands
  <2>2. QED
    BY <1>1, <1>3, <2>1 DEF JoinRetry, ServerTypeOK, NetTypeOK, ClientTypeOK,
                            srvVars, netVars, diskVars, boundVars
<1>4. CASE JoinAbort
  BY <1>2, <1>4 DEF JoinAbort, ServerTypeOK, NetTypeOK, ClientTypeOK,
                    srvVars, netVars, diskVars, boundVars
<1>5. CASE JoinMerge
  BY <1>2, <1>5, MergedType, PacketType
     DEF JoinMerge, ServerTypeOK, NetTypeOK, ClientTypeOK,
         srvVars, netVars, boundVars
<1>6. CASE JoinList
  BY <1>1, <1>2, <1>6 DEF JoinList, ServerTypeOK, NetTypeOK, ClientTypeOK,
                          srvVars, netVars, diskVars, boundVars
<1>7. CASE JoinOther
  <2>1. goal' \in {0} \cup Version
    BY <1>7, SessionAssumption DEF JoinOther, ClientTypeOK, Version
  <2>2. QED
    BY <1>2, <1>7, <2>1 DEF JoinOther, ServerTypeOK, NetTypeOK, ClientTypeOK,
                            srvVars, netVars, diskVars, boundVars
<1>8. QED
  BY <1>3, <1>4, <1>5, <1>6, <1>7 DEF Join

LEMMA CommandType ==
    ASSUME TypeOK, NEW k \in Commands, Command(k)
    PROVE  TypeOK'
<1> USE DEF TypeOK
<1>1. ThreadTypeOK'
  BY SpawnType DEF Command, ClientTypeOK
<1>2. ncmds' \in 0 .. MaxCommands /\ ncmds + 2 \in Version
  BY SessionAssumption DEF Command, ClientTypeOK, Version
<1>3. lfile' \in Seq(Content) /\ goal' \in {0} \cup Version
  BY <1>2, WholeType DEF Command, ClientTypeOK
<1>4. QED
  BY <1>1, <1>2, <1>3 DEF Command, ServerTypeOK, NetTypeOK, ClientTypeOK,
                          srvVars, netVars
-----------------------------------------------------------------------------
(* The plan the threads follow.                                            *)

LEMMA ThreadMoves ==
    ASSUME ThreadTypeOK, NEW i \in Host, Thread(i) \/ Server(i)
    PROVE  /\ UNCHANGED <<main, cmd, avail, parts, ncmds, lfile>>
           /\ \A j \in Host : /\ j # i => wpc'[j] = wpc[j] /\ ret'[j] = ret[j]
                              /\ wpc'[j] # "off" => wpc[j] # "off"
                              /\ widx'[j] = 1 => widx[j] = 1
<1>1. CASE Server(i)
  BY <1>1 DEF Server, ServerRequest, ServerStore, ServerHangup, ServerFrame,
              thrVars, diskVars, boundVars
<1>2. CASE PutRequest(i) \/ PutReply(i) \/ PutData(i)
  BY <1>2 DEF PutRequest, PutReply, PutData, ThreadFrame, At, Goto, NextPiece,
              Fail, ThreadTypeOK, diskVars, boundVars
<1>3. CASE GetRequest(i) \/ GetReply(i) \/ GetData(i)
  BY <1>3 DEF GetRequest, GetReply, GetData, OpenLocalPiece, Refuse, ThreadFrame,
              At, Goto, NextPiece, Fail, ThreadTypeOK, diskVars, boundVars
<1>4. CASE SimpleRequest(i) \/ SimpleReply(i)
  BY <1>4 DEF SimpleRequest, SimpleReply, ThreadFrame, At, Goto, NextPiece,
              Fail, ThreadTypeOK, diskVars, boundVars
<1>5. QED
  BY <1>1, <1>2, <1>3, <1>4 DEF Thread

LEMMA PlannedStep ==
    ASSUME TypeOK, Planned, [Next]_vars
    PROVE  Planned'
<1> USE DEF TypeOK
<1>1. ASSUME NEW k \in Commands, Command(k)
      PROVE  Planned'
  <2>1. avail \in [Host -> BOOLEAN] /\ Spawn(k, avail)
    BY <1>1 DEF Command, ClientTypeOK
  <2>2. k = "put" => lfile' = Whole(ncmds' + 1)
    BY <1>1 DEF Command, ClientTypeOK
  <2>3. cmd' = k /\ avail' = avail
    BY <1>1 DEF Command
  <2>4. PlanFor(cmd, avail, 0)' = PlanFor(k, avail, 0)
        /\ \A i \in Host : PlanFor(k, avail, i) = PlanFor(cmd', avail', i)
    BY <2>3
  <2>5. QED
    BY <2>1, <2>2, <2>3, <2>4, SpawnType DEF Planned, PlanFor, GetParts, StandsIn
<1>2. CASE JoinRetry
  <2>1. StillAvailable \in [Host -> BOOLEAN] /\ Spawn("get", StillAvailable)
    BY <1>2 DEF JoinRetry, StillAvailable, ClientTypeOK, ThreadTypeOK
  <2>2. avail' = StillAvailable /\ cmd' = "get" /\ "get" \in Commands
    BY <1>2 DEF JoinRetry, Commands
  <2>3. QED
    BY <2>1, <2>2, SpawnType DEF Planned, PlanFor, GetParts, StandsIn
<1>3. ASSUME main' # "join"
      PROVE  Planned'
  BY <1>3 DEF Planned
<1>4. CASE JoinAbort \/ JoinMerge \/ JoinList \/ JoinOther
  BY <1>3, <1>4 DEF JoinAbort, JoinMerge, JoinList, JoinOther, BackToPrompt
<1>5. ASSUME NEW i \in Host, Thread(i) \/ Server(i)
      PROVE  Planned'
  BY <1>5, ThreadMoves DEF Planned, PlanFor, GetParts, StandsIn
<1>6. ASSUME NEW i \in Host, Crash(i) \/ ServerSigpipe(i) \/ Restart(i)
      PROVE  Planned'
  BY <1>6 DEF Planned, PlanFor, GetParts, StandsIn, Crash, ServerSigpipe, Restart,
              ServerDies, thrVars, diskVars, boundVars
<1>7. CASE ClientDies \/ Relaunch
  BY <1>3, <1>7 DEF ClientDies, Relaunch
<1>8. CASE UNCHANGED vars
  BY <1>8 DEF Planned, PlanFor, GetParts, StandsIn, vars, thrVars, diskVars, boundVars
<1>9. QED
  BY <1>1, <1>2, <1>4, <1>5, <1>6, <1>7, <1>8 DEF Next, Join, Sigpipe, Interrupt
-----------------------------------------------------------------------------
(* The hosts the client has given up.                                      *)

\* What a thread may do to its connection and its result.
LEMMA ThreadAccounts ==
    ASSUME TypeOK, NEW i \in Host, Thread(i) \/ Server(i)
    PROVE  \A j \in Host :
               /\ conn'[j] = "closed" <=> conn[j] = "closed"
               /\ conn[j] \notin {"open", "reset"} => conn'[j] \notin {"open", "reset"}
               /\ ret'[j] = 1 /\ ret[j] # 1 => conn'[j] \notin {"open", "reset"}
<1> USE DEF TypeOK
<1>1. CASE Server(i)
  BY <1>1 DEF Server, ServerRequest, ServerStore, ServerHangup, ServerFrame, thrVars
<1>2. CASE PutRequest(i) \/ PutReply(i) \/ PutData(i)
  BY <1>2 DEF PutRequest, PutReply, PutData, Fail, ThreadTypeOK, NetTypeOK, Sent,
              SendFailed, Received, EndOfStream, RecvFailed, ConnectionError
<1>3. CASE GetRequest(i) \/ GetReply(i) \/ GetData(i)
  BY <1>3 DEF GetRequest, GetReply, GetData, OpenLocalPiece, Refuse, Fail,
              ThreadTypeOK, NetTypeOK, Sent,
              SendFailed, Received, EndOfStream, RecvFailed, ConnectionError
<1>4. CASE SimpleRequest(i) \/ SimpleReply(i)
  BY <1>4 DEF SimpleRequest, SimpleReply, Fail, ThreadTypeOK, NetTypeOK, Sent,
              SendFailed, Received, EndOfStream, RecvFailed, ConnectionError
<1>5. QED
  BY <1>1, <1>2, <1>3, <1>4 DEF Thread

LEMMA AccountedStep ==
    ASSUME TypeOK, Accounted, [Next]_vars
    PROVE  Accounted'
<1> USE DEF TypeOK
<1>1. ASSUME NEW k \in Commands, Command(k)
      PROVE  Accounted'
  BY <1>1 DEF Command, Spawn, Accounted, NoReturn, netVars
<1>2. CASE Join
  <2>1. CASE JoinRetry
    BY <2>1 DEF JoinRetry, Spawn, StillAvailable, Joined, Accounted, NoReturn,
                netVars, ClientTypeOK, ThreadTypeOK
  <2>2. CASE JoinList
    BY <2>2 DEF JoinList, BackToPrompt, StillAvailable, Joined, Accounted, NoReturn,
                netVars, ClientTypeOK, ThreadTypeOK
  <2>3. CASE JoinAbort \/ JoinMerge \/ JoinOther
    BY <2>3 DEF JoinAbort, JoinMerge, JoinOther, BackToPrompt, Joined, Accounted,
                NoReturn, netVars
  <2>4. QED
    BY <1>2, <2>1, <2>2, <2>3 DEF Join
<1>3. ASSUME NEW i \in Host, Thread(i) \/ Server(i)
      PROVE  Accounted'
  <2>1. main = "join" => Accounted'
    BY <1>3, ThreadMoves, ThreadAccounts DEF Accounted
  <2>2. CASE main # "join"
    <3>1. Server(i)
      BY <1>3, <2>2 DEF Thread, PutRequest, PutReply, PutData, GetRequest, GetReply,
                        GetData, SimpleRequest, SimpleReply, At
    <3>2. QED
      BY <3>1 DEF Server, ServerRequest, ServerStore, ServerHangup, ServerFrame,
                  thrVars, Accounted
  <2>3. QED
    BY <2>1, <2>2
<1>4. ASSUME NEW i \in Host, Crash(i) \/ ServerSigpipe(i) \/ Restart(i)
      PROVE  Accounted'
  <2>1. UNCHANGED <<main, avail, ret, wpc>>
    BY <1>4 DEF Crash, ServerSigpipe, Restart, ServerDies, thrVars
  <2>2. \A j \in Host : conn'[j] # conn[j] => conn[j] = "open" /\ conn'[j] \in FaultKinds
    BY <1>4 DEF Crash, ServerSigpipe, Restart, netVars, NetTypeOK
  <2>3. QED
    BY <2>1, <2>2, SessionAssumption DEF Accounted
<1>5. CASE ClientDies
  BY <1>5 DEF ClientDies, Accounted
<1>6. CASE Relaunch
  BY <1>6 DEF Relaunch, Accounted, thrVars, NoReturn, ServerTypeOK
<1>7. CASE UNCHANGED vars
  BY <1>7 DEF Accounted, vars, netVars, thrVars
<1>8. QED
  BY <1>1, <1>2, <1>3, <1>4, <1>5, <1>6, <1>7 DEF Next, Sigpipe, Interrupt
-----------------------------------------------------------------------------
(* Short queues.                                                           *)

LEMMA QueueFacts ==
    ASSUME NEW a, NEW b, NEW c
    PROVE  /\ <<a>> # <<>> /\ Head(<<a>>) = a /\ Tail(<<a>>) = <<>>
           /\ <<a, b>> # <<>> /\ Head(<<a, b>>) = a /\ Tail(<<a, b>>) = <<b>>
           /\ <<a, b, c>> # <<>> /\ Head(<<a, b, c>>) = a
           /\ Tail(<<a, b, c>>) = <<b, c>>
OBVIOUS

LEMMA QueueConcat ==
    ASSUME NEW a, NEW b, NEW c
    PROVE  /\ <<>> \o <<a>> = <<a>>
           /\ <<>> \o <<a, b>> = <<a, b>>
           /\ <<>> \o <<a, b, c>> = <<a, b, c>>
           /\ <<a>> \o <<b>> = <<a, b>>
           /\ <<a, b>> \o <<c>> = <<a, b, c>>
<1> DEFINE S == {a, b, c}
<1>1. <<>> \in Seq(S) /\ <<a>> \in Seq(S) /\ <<b>> \in Seq(S) /\ <<c>> \in Seq(S)
      /\ <<a, b>> \in Seq(S) /\ <<a, b, c>> \in Seq(S)
  OBVIOUS
<1>2. /\ <<>> \o <<a>> = <<a>>
      /\ <<>> \o <<a, b>> = <<a, b>>
      /\ <<>> \o <<a, b, c>> = <<a, b, c>>
  <2> HIDE DEF S
  <2> QED BY <1>1, ConcatEmptySeq
<1>3. <<a>> \o <<b>> = <<a, b>>
  <2>1. /\ <<a>> \o <<b>> \in Seq(S) /\ Len(<<a>> \o <<b>>) = 2
        /\ (<<a>> \o <<b>>)[1] = a /\ (<<a>> \o <<b>>)[2] = b
    <3> HIDE DEF S
    <3> QED BY <1>1, ConcatProperties
  <2>2. Len(<<a, b>>) = 2 /\ \A i \in 1 .. 2 : (<<a>> \o <<b>>)[i] = <<a, b>>[i]
    BY <2>1
  <2> HIDE DEF S
  <2> QED BY <1>1, <2>1, <2>2, SeqEqual
<1>4. <<a, b>> \o <<c>> = <<a, b, c>>
  <2>1. /\ <<a, b>> \o <<c>> \in Seq(S) /\ Len(<<a, b>> \o <<c>>) = 3
        /\ (<<a, b>> \o <<c>>)[1] = a /\ (<<a, b>> \o <<c>>)[2] = b
        /\ (<<a, b>> \o <<c>>)[3] = c
    <3> HIDE DEF S
    <3> QED BY <1>1, ConcatProperties
  <2>2. Len(<<a, b, c>>) = 3
        /\ \A i \in 1 .. 3 : (<<a, b>> \o <<c>>)[i] = <<a, b, c>>[i]
    BY <2>1
  <2> HIDE DEF S
  <2> QED BY <1>1, <2>1, <2>2, SeqEqual
<1>5. QED
  BY <1>2, <1>3, <1>4

LEMMA QueuePrefix ==
    ASSUME NEW a, NEW b, NEW c
    PROVE  /\ \A n \in 0 .. Len(<<>>) : SubSeq(<<>>, 1, n) = <<>>
           /\ \A n \in 0 .. Len(<<a>>) : SubSeq(<<a>>, 1, n) \in {<<>>, <<a>>}
           /\ \A n \in 0 .. Len(<<a, b>>) :
                  SubSeq(<<a, b>>, 1, n) \in {<<>>, <<a>>, <<a, b>>}
           /\ \A n \in 0 .. Len(<<a, b, c>>) :
                  SubSeq(<<a, b, c>>, 1, n) \in {<<>>, <<a>>, <<a, b>>, <<a, b, c>>}
<1> DEFINE S == {a, b, c}
<1>1. ASSUME NEW s, s[1] \in S
      PROVE  SubSeq(s, 1, 0) = <<>> /\ SubSeq(s, 1, 1) = <<s[1]>>
  <2>1. \A i \in 1 .. 0 : s[i] \in S
    OBVIOUS
  <2>2. \A i \in 1 .. 1 : s[i] \in S
    BY <1>1
  <2> HIDE DEF S
  <2>3. SubSeq(s, 1, 0) \in Seq(S) /\ Len(SubSeq(s, 1, 0)) = 0
    BY <2>1, SubSeqProperties
  <2>4. SubSeq(s, 1, 1) \in Seq(S) /\ Len(SubSeq(s, 1, 1)) = 1
        /\ SubSeq(s, 1, 1)[1] = s[1]
    BY <2>2, SubSeqProperties
  <2>5. <<s[1]>> \in Seq(S) /\ Len(<<s[1]>>) = 1
    BY <1>1
  <2>6. \A i \in 1 .. 1 : SubSeq(s, 1, 1)[i] = <<s[1]>>[i]
    BY <2>4
  <2>7. QED
    BY <2>3, <2>4, <2>5, <2>6, SeqEqual, EmptySeq
<1>2. ASSUME NEW s, s[1] \in S, s[2] \in S
      PROVE  SubSeq(s, 1, 2) = <<s[1], s[2]>>
  <2>1. \A i \in 1 .. 2 : s[i] \in S
    BY <1>2
  <2> HIDE DEF S
  <2>2. SubSeq(s, 1, 2) \in Seq(S) /\ Len(SubSeq(s, 1, 2)) = 2
        /\ SubSeq(s, 1, 2)[1] = s[1] /\ SubSeq(s, 1, 2)[2] = s[2]
    BY <2>1, SubSeqProperties
  <2>3. <<s[1], s[2]>> \in Seq(S) /\ Len(<<s[1], s[2]>>) = 2
    BY <1>2
  <2>4. \A i \in 1 .. 2 : SubSeq(s, 1, 2)[i] = <<s[1], s[2]>>[i]
    <3>1. \A i \in 1 .. 2 : i = 1 \/ i = 2
      OBVIOUS
    <3>2. <<s[1], s[2]>>[1] = s[1] /\ <<s[1], s[2]>>[2] = s[2]
      OBVIOUS
    <3>3. QED
      BY <2>2, <3>1, <3>2
  <2>5. QED
    BY <2>2, <2>3, <2>4, SeqEqual
<1>3. ASSUME NEW s, s[1] \in S, s[2] \in S, s[3] \in S
      PROVE  SubSeq(s, 1, 3) = <<s[1], s[2], s[3]>>
  <2>1. \A i \in 1 .. 3 : s[i] \in S
    BY <1>3
  <2> HIDE DEF S
  <2>2. SubSeq(s, 1, 3) \in Seq(S) /\ Len(SubSeq(s, 1, 3)) = 3
        /\ SubSeq(s, 1, 3)[1] = s[1] /\ SubSeq(s, 1, 3)[2] = s[2]
        /\ SubSeq(s, 1, 3)[3] = s[3]
    BY <2>1, SubSeqProperties
  <2>3. <<s[1], s[2], s[3]>> \in Seq(S) /\ Len(<<s[1], s[2], s[3]>>) = 3
    BY <1>3
  <2>4. \A i \in 1 .. 3 : SubSeq(s, 1, 3)[i] = <<s[1], s[2], s[3]>>[i]
    BY <2>2
  <2>5. QED
    BY <2>2, <2>3, <2>4, SeqEqual
<1>4. SubSeq(<<>>, 1, 0) = <<>>
  <2>1. \A i \in 1 .. 0 : <<>>[i] \in S
    OBVIOUS
  <2>2. SubSeq(<<>>, 1, 0) \in Seq(S) /\ Len(SubSeq(<<>>, 1, 0)) = 0
    BY <2>1, SubSeqProperties
  <2>3. QED
    BY <2>2, EmptySeq
<1>5. Len(<<>>) = 0 /\ Len(<<a>>) = 1 /\ Len(<<a, b>>) = 2 /\ Len(<<a, b, c>>) = 3
  OBVIOUS
<1>6. QED
  BY <1>1, <1>2, <1>3, <1>4, <1>5
-----------------------------------------------------------------------------
(* The states of one connection, step by step, without the variables.      *)

LEMMA PacketFacts ==
    /\ \A k, p : Request(k, p).kind = k
    /\ \A c : Data(c).kind = "data" /\ Data(c) # Eof /\ ~ Refused(Data(c))
    /\ Eof.kind = "eof" /\ Refused(Eof)
    /\ Reply(0).kind = "rep" /\ Reply(1).kind = "rep"
    /\ Refused(Reply(1)) /\ ~ Refused(Reply(0))
    /\ Reply(0) # Eof /\ Reply(1) # Eof
BY DEF Request, Data, Eof, Reply, Refused

LEMMA LiveIdle ==
    ASSUME NEW k, NEW t \in {"off", "send", "done"}, NEW in, NEW out, NEW s,
           Live(k, t, in, out, s)
    PROVE  /\ in = <<>>
           /\ \A l : \A u \in {"off", "send", "done"} : Live(l, u, in, out, s)
BY DEF Live

LEMMA LiveAsk ==
    ASSUME NEW k, NEW r \in Packet, r.kind = k, NEW in, NEW out, NEW s,
           Live(k, "send", in, out, s)
    PROVE  Live(k, "recv", in, out \o <<r>>, s)
<1>1. CASE s = "wait" /\ out = <<>>
  <2>1. out \o <<r>> = <<r>>
    BY <1>1, QueueConcat
  <2>2. QED
    BY <1>1, <2>1 DEF Live, Asks
<1>2. CASE s = "store" /\ out = <<Eof>>
  <2>1. out \o <<r>> = <<Eof, r>>
    BY <1>2, QueueConcat
  <2>2. QED
    BY <1>2, <2>1 DEF Live, RestThenAsks
<1>3. ASSUME NEW c \in Content, s = "store", out = <<Data(c), Eof>>
      PROVE  Live(k, "recv", in, out \o <<r>>, s)
  <2>1. out \o <<r>> = <<Data(c), Eof, r>>
    BY <1>3, QueueConcat
  <2>2. QED
    BY <1>3, <2>1 DEF Live, RestThenAsks
<1>4. QED
  BY <1>1, <1>2, <1>3 DEF Live, Rest

LEMMA LiveUpload ==
    ASSUME NEW c \in Content, NEW t \in {"send", "done"}, NEW in, NEW out, NEW s,
           Live("put", "data", in, out, s)
    PROVE  Live("put", t, in, out \o <<Data(c), Eof>>, s)
<1>1. in = <<>> /\ out = <<>> /\ s = "store"
  BY DEF Live
<1>2. out \o <<Data(c), Eof>> = <<Data(c), Eof>>
  BY <1>1, QueueConcat
<1>3. QED
  BY <1>1, <1>2 DEF Live, Rest

LEMMA LivePutReply ==
    ASSUME NEW in, NEW out, NEW s, in # <<>>, Live("put", "recv", in, out, s)
    PROVE  IF Refused(Head(in))
           THEN \A t \in {"send", "done"} : Live("put", t, Tail(in), out, s)
           ELSE Live("put", "data", Tail(in), out, s)
<1>1. out = <<>> /\ \/ s = "wait" /\ in = <<Reply(1)>>
                    \/ s = "store" /\ in = <<Reply(0)>>
  BY DEF Live
<1>2. Tail(in) = <<>>
  BY <1>1, QueueFacts
<1>3. CASE s = "wait" /\ in = <<Reply(1)>>
  <2>1. Refused(Head(in))
    BY <1>3, QueueFacts, PacketFacts
  <2>2. QED
    BY <1>1, <1>2, <1>3, <2>1 DEF Live
<1>4. CASE s = "store" /\ in = <<Reply(0)>>
  <2>1. ~ Refused(Head(in))
    BY <1>4, QueueFacts, PacketFacts
  <2>2. QED
    BY <1>1, <1>2, <1>4, <2>1 DEF Live
<1>5. QED
  BY <1>1, <1>3, <1>4

LEMMA LiveGetReply ==
    ASSUME NEW in, NEW out, NEW s, in # <<>>, Live("get", "recv", in, out, s)
    PROVE  IF Refused(Head(in))
           THEN Live("get", "done", Tail(in), out, s)
           ELSE Live("get", "data", Tail(in), out, s)
<1>1. out = <<>> /\ s = "wait"
  BY DEF Live
<1>2. CASE in = <<Reply(1)>>
  <2>1. Refused(Head(in)) /\ Tail(in) = <<>>
    BY <1>2, QueueFacts, PacketFacts
  <2>2. QED
    BY <1>1, <2>1 DEF Live
<1>3. ASSUME NEW c \in Content, in = <<Reply(0), Data(c), Eof>>
      PROVE  ~ Refused(Head(in)) /\ Live("get", "data", Tail(in), out, s)
  <2>1. Head(in) = Reply(0) /\ Tail(in) = <<Data(c), Eof>>
    BY <1>3, QueueFacts
  <2>2. QED
    BY <1>1, <2>1, PacketFacts DEF Live, Rest
<1>4. QED
  BY <1>2, <1>3 DEF Live

LEMMA RestStep ==
    ASSUME NEW q, Rest(q)
    PROVE  /\ q # <<>>
           /\ Head(q) = Eof => Tail(q) = <<>>
           /\ Head(q) # Eof => /\ Head(q).kind = "data"
                               /\ Tail(q) = <<Eof>> /\ Rest(Tail(q))
           /\ Head(q).kind \in {"data", "eof"}
<1>1. CASE q = <<Eof>>
  BY <1>1, QueueFacts, PacketFacts
<1>2. ASSUME NEW c \in Content, q = <<Data(c), Eof>>
      PROVE  q # <<>> /\ Head(q) = Data(c) /\ Tail(q) = <<Eof>>
  BY <1>2, QueueFacts
<1>3. QED
  BY <1>1, <1>2, PacketFacts DEF Rest

LEMMA LiveGetData ==
    ASSUME NEW in, NEW out, NEW s, Live("get", "data", in, out, s)
    PROVE  IF Head(in) = Eof
           THEN \A t \in {"send", "done"} : Live("get", t, Tail(in), out, s)
           ELSE Live("get", "data", Tail(in), out, s)
<1>1. out = <<>> /\ s = "wait" /\ Rest(in)
  BY DEF Live
<1>2. QED
  BY <1>1, RestStep DEF Live

LEMMA LiveSimpleReply ==
    ASSUME NEW k \in {"ls", "mkdir"}, NEW in, NEW out, NEW s, in # <<>>,
           Live(k, "recv", in, out, s)
    PROVE  Live(k, "done", Tail(in), out, s)
<1>1. out = <<>> /\ s = "wait" /\ (in = <<Reply(0)>> \/ in = <<Reply(1)>>)
  BY DEF Live
<1>2. Tail(in) = <<>>
  BY <1>1, QueueFacts
<1>3. QED
  BY <1>1, <1>2 DEF Live

LEMMA BrokenEmpty ==
    ASSUME NEW k, NEW t, NEW in, NEW out, NEW s, Broken(k, t, in, out, s)
    PROVE  /\ t \in {"off", "send", "done"} => in = <<>>
           /\ k = "put" /\ t = "data" => in = <<>>
           /\ in = <<>> => \A l, u : Broken(l, u, in, out, s)
BY DEF Broken

LEMMA BrokenReceive ==
    ASSUME NEW k, NEW t \in {"recv", "data"}, NEW in, NEW out, NEW s, in # <<>>,
           Broken(k, t, in, out, s)
    PROVE  /\ k # "get" => Tail(in) = <<>>
           /\ k = "get" /\ t = "recv" /\ Refused(Head(in)) => Tail(in) = <<>>
           /\ k = "get" /\ t = "recv" /\ ~ Refused(Head(in))
                  => Broken("get", "data", Tail(in), out, s)
           /\ k = "get" /\ t = "data" /\ Head(in) = Eof => Tail(in) = <<>>
           /\ k = "get" /\ t = "data" /\ Head(in) # Eof
                  => Broken("get", "data", Tail(in), out, s)
<1>1. out = <<>> /\ s = "wait"
  BY DEF Broken
<1>2. CASE in \in {<<Reply(0)>>, <<Reply(1)>>}
  <2>1. Tail(in) = <<>>
    BY <1>2, QueueFacts
  <2>2. QED
    BY <1>1, <2>1 DEF Broken
<1>3. ASSUME NEW c \in Content, t = "recv", k = "get", in = <<Reply(0), Data(c)>>
      PROVE  ~ Refused(Head(in)) /\ Broken("get", "data", Tail(in), out, s)
  <2>1. Head(in) = Reply(0) /\ Tail(in) = <<Data(c)>>
    BY <1>3, QueueFacts
  <2>2. QED
    BY <1>1, <2>1, PacketFacts DEF Broken
<1>4. ASSUME NEW c \in Content, t = "recv", k = "get", in = <<Reply(0), Data(c), Eof>>
      PROVE  ~ Refused(Head(in)) /\ Broken("get", "data", Tail(in), out, s)
  <2>1. Head(in) = Reply(0) /\ Tail(in) = <<Data(c), Eof>>
    BY <1>4, QueueFacts
  <2>2. QED
    BY <1>1, <2>1, PacketFacts DEF Broken, Rest
<1>5. ASSUME t = "data", k = "get", Rest(in)
      PROVE  /\ Head(in) = Eof => Tail(in) = <<>>
             /\ Head(in) # Eof => Broken("get", "data", Tail(in), out, s)
  BY <1>1, <1>5, RestStep DEF Broken
<1>6. ASSUME NEW c \in Content, t = "data", k = "get", in = <<Data(c)>>
      PROVE  Head(in) # Eof /\ Broken("get", "data", Tail(in), out, s)
  <2>1. Head(in) = Data(c) /\ Tail(in) = <<>>
    BY <1>6, QueueFacts
  <2>2. QED
    BY <1>1, <2>1, PacketFacts DEF Broken
<1>7. QED
  BY <1>2, <1>3, <1>4, <1>5, <1>6 DEF Broken

LEMMA LiveServe ==
    ASSUME NEW k \in Commands, NEW t, NEW in, NEW out, NEW c \in Content,
           out # <<>>, Live(k, t, in, out, "wait")
    PROVE  /\ Head(out).kind = k /\ Tail(out) = <<>>
           /\ Live(k, t, in \o <<Reply(1)>>, <<>>, "wait")
           /\ k = "put" => Live(k, t, in \o <<Reply(0)>>, <<>>, "store")
           /\ k = "get" => Live(k, t, in \o <<Reply(0), Data(c), Eof>>, <<>>, "wait")
           /\ k \in {"ls", "mkdir"} => Live(k, t, in \o <<Reply(0)>>, <<>>, "wait")
<1>1. t = "recv" /\ in = <<>> /\ Asks(out, k)
  BY DEF Live
<1>2. Head(out).kind = k /\ Tail(out) = <<>>
  BY <1>1, QueueFacts DEF Asks
<1>3. /\ in \o <<Reply(0)>> = <<Reply(0)>> /\ in \o <<Reply(1)>> = <<Reply(1)>>
      /\ in \o <<Reply(0), Data(c), Eof>> = <<Reply(0), Data(c), Eof>>
  BY <1>1, QueueConcat
<1>4. QED
  BY <1>1, <1>2, <1>3 DEF Live

LEMMA RestThenAsksStep ==
    ASSUME NEW q, NEW k, RestThenAsks(q, k)
    PROVE  /\ Head(q).kind \in {"data", "eof"}
           /\ Head(q) = Eof => Asks(Tail(q), k)
           /\ Head(q) # Eof => RestThenAsks(Tail(q), k)
<1>1. PICK r \in Packet :
          r.kind = k /\ (q = <<Eof, r>> \/ \E c \in Content : q = <<Data(c), Eof, r>>)
  BY DEF RestThenAsks
<1>2. CASE q = <<Eof, r>>
  <2>1. Head(q) = Eof /\ Tail(q) = <<r>>
    BY <1>2, QueueFacts
  <2>2. QED
    BY <1>1, <2>1, PacketFacts DEF Asks
<1>3. ASSUME NEW c \in Content, q = <<Data(c), Eof, r>>
      PROVE  Head(q) = Data(c) /\ RestThenAsks(Tail(q), k)
  <2>1. Head(q) = Data(c) /\ Tail(q) = <<Eof, r>>
    BY <1>3, QueueFacts
  <2>2. QED
    BY <1>1, <2>1 DEF RestThenAsks
<1>4. QED
  BY <1>1, <1>2, <1>3, PacketFacts

LEMMA LiveStore ==
    ASSUME NEW k, NEW t, NEW in, NEW out, out # <<>>, Live(k, t, in, out, "store")
    PROVE  IF Head(out) = Eof THEN Live(k, t, in, Tail(out), "wait")
                              ELSE Live(k, t, in, Tail(out), "store")
<1>1. CASE t \in {"off", "send", "done"} /\ in = <<>> /\ Rest(out)
  BY <1>1, RestStep DEF Live
<1>2. CASE t = "recv" /\ in = <<>> /\ RestThenAsks(out, k)
  BY <1>2, RestThenAsksStep DEF Live
<1>3. QED
  BY <1>1, <1>2 DEF Live

LEMMA DesertedServe ==
    ASSUME NEW t, NEW in, NEW out, out # <<>>, Deserted(t, in, out, "wait")
    PROVE  Tail(out) = <<>> /\ \A s : Deserted(t, in, Tail(out), s)
<1>1. PICK k \in Commands : Asks(out, k)
  BY DEF Deserted
<1>2. Tail(out) = <<>>
  BY <1>1, QueueFacts DEF Asks
<1>3. QED
  BY <1>2 DEF Deserted

LEMMA DesertedStore ==
    ASSUME NEW t, NEW in, NEW out, out # <<>>, Deserted(t, in, out, "store")
    PROVE  IF Head(out) = Eof THEN Deserted(t, in, Tail(out), "wait")
                              ELSE Deserted(t, in, Tail(out), "store")
<1>1. CASE Rest(out)
  BY <1>1, RestStep DEF Deserted
<1>2. ASSUME NEW k \in Commands, RestThenAsks(out, k)
      PROVE  IF Head(out) = Eof THEN Deserted(t, in, Tail(out), "wait")
                                ELSE Deserted(t, in, Tail(out), "store")
  BY <1>2, RestThenAsksStep DEF Deserted
<1>3. QED
  BY <1>1, <1>2 DEF Deserted

LEMMA LiveCrash ==
    ASSUME NEW k, NEW t, NEW in, NEW out, NEW s, Live(k, t, in, out, s),
           NEW n \in 0 .. Len(in)
    PROVE  Broken(k, t, SubSeq(in, 1, n), <<>>, "wait")
<1>1. CASE in = <<>>
  BY <1>1, QueuePrefix DEF Broken
<1>2. CASE t = "recv" /\ in \in {<<Reply(0)>>, <<Reply(1)>>}
  <2>1. SubSeq(in, 1, n) \in {<<>>, in}
    <3>1. CASE in = <<Reply(0)>>
      BY <3>1, QueuePrefix
    <3>2. CASE in = <<Reply(1)>>
      BY <3>2, QueuePrefix
    <3>3. QED
      BY <1>2, <3>1, <3>2
  <2>2. QED
    BY <1>2, <2>1 DEF Broken
<1>3. ASSUME NEW c \in Content, t = "recv", k = "get", in = <<Reply(0), Data(c), Eof>>
      PROVE  Broken(k, t, SubSeq(in, 1, n), <<>>, "wait")
  <2>1. SubSeq(in, 1, n) \in {<<>>, <<Reply(0)>>, <<Reply(0), Data(c)>>,
                              <<Reply(0), Data(c), Eof>>}
    BY <1>3, QueuePrefix
  <2>2. QED
    BY <1>3, <2>1 DEF Broken
<1>4. CASE t = "data" /\ k = "get" /\ in = <<Eof>>
  <2>1. SubSeq(in, 1, n) \in {<<>>, <<Eof>>}
    BY <1>4, QueuePrefix
  <2>2. QED
    BY <1>4, <2>1 DEF Broken, Rest
<1>5. ASSUME NEW c \in Content, t = "data", k = "get", in = <<Data(c), Eof>>
      PROVE  Broken(k, t, SubSeq(in, 1, n), <<>>, "wait")
  <2>1. SubSeq(in, 1, n) \in {<<>>, <<Data(c)>>, <<Data(c), Eof>>}
    BY <1>5, QueuePrefix
  <2>2. QED
    BY <1>5, <2>1 DEF Broken, Rest
<1>6. QED
  BY <1>1, <1>2, <1>3, <1>4, <1>5 DEF Live, Rest

LEMMA LeftBehind ==
    ASSUME NEW k, NEW t, NEW in, NEW out, NEW s, t = "recv" => k \in Commands,
           Live(k, t, in, out, s) \/ Broken(k, t, in, out, s) \/ Deserted(t, in, out, s)
    PROVE  Deserted("off", <<>>, out, s)
BY DEF Live, Broken, Deserted
-----------------------------------------------------------------------------
(* The streams of every host are in step with its two ends.                *)

\* A step of one host's thread or handler leaves the other hosts alone.
LEMMA OthersKeepShape ==
    ASSUME TypeOK, NEW i \in Host, NEW j \in Host, j # i, Thread(i) \/ Server(i)
    PROVE  /\ conn'[j] = conn[j] /\ wpc'[j] = wpc[j] /\ hpc'[j] = hpc[j]
           /\ s2c'[j] = s2c[j] /\ c2s'[j] = c2s[j]
<1> USE DEF TypeOK, NetTypeOK, ServerTypeOK, ThreadTypeOK
<1>1. CASE Server(i)
  BY <1>1 DEF Server, ServerRequest, ServerStore, ServerHangup, ServerFrame, thrVars,
              AcceptPut, SendPiece, MakeDir, ListDir, RefuseRequest, Answered
<1>2. CASE Thread(i)
  <2>1. wpc'[j] = wpc[j]
    BY <1>2, ThreadMoves
  <2>2. hpc'[j] = hpc[j]
    BY <1>2 DEF Thread, PutRequest, PutReply, PutData, GetRequest, GetReply, GetData,
                SimpleRequest, SimpleReply, ThreadFrame, srvVars
  <2>3. conn'[j] = conn[j] /\ s2c'[j] = s2c[j] /\ c2s'[j] = c2s[j]
    BY <1>2 DEF Thread, PutRequest, PutReply, PutData, GetRequest, GetReply, GetData,
                SimpleRequest, SimpleReply, Sent, SendFailed, ConnectionError,
                Received, EndOfStream, RecvFailed
  <2>4. QED
    BY <2>1, <2>2, <2>3
<1>3. QED
  BY <1>1, <1>2

LEMMA SentShape ==
    ASSUME TypeOK, Streams, NEW i \in Host, NEW pkts, Sent(i, pkts)
    PROVE  \/ /\ conn[i] = "open" /\ conn'[i] = "open"
              /\ c2s'[i] = c2s[i] \o pkts
              /\ Live(cmd, wpc[i], s2c[i], c2s[i], hpc[i])
           \/ /\ conn[i] = "fin" /\ conn'[i] \in {"fin", "dead"}
              /\ c2s'[i] = c2s[i]
              /\ Broken(cmd, wpc[i], s2c[i], c2s[i], hpc[i])
BY DEF Sent, Streams, Shape, TypeOK, NetTypeOK

LEMMA FailedShape ==
    ASSUME TypeOK, Streams, NEW i \in Host, ConnectionError(i)
    PROVE  /\ conn'[i] = "dead"
           /\ Broken(cmd, wpc[i], s2c[i], c2s[i], hpc[i])
BY DEF ConnectionError, Streams, Shape, TypeOK, NetTypeOK

\* A packet can only be received from a live or a broken connection.
LEMMA ReceivedShape ==
    ASSUME TypeOK, Streams, NEW i \in Host, Received(i)
    PROVE  /\ s2c[i] # <<>> /\ s2c'[i] = Tail(s2c[i]) /\ conn'[i] = conn[i]
           /\ \/ conn[i] = "open" /\ Live(cmd, wpc[i], s2c[i], c2s[i], hpc[i])
              \/ /\ conn[i] \in {"fin", "reset", "dead"}
                 /\ Broken(cmd, wpc[i], s2c[i], c2s[i], hpc[i])
BY DEF Received, Streams, Shape, Deserted, TypeOK, NetTypeOK

LEMMA SenderShape ==
    ASSUME TypeOK, Planned, Streams, NEW i \in Host,
           PutRequest(i) \/ PutData(i) \/ GetRequest(i) \/ SimpleRequest(i)
    PROVE  Shape(conn'[i], cmd', wpc'[i], s2c'[i], c2s'[i], hpc'[i])
<1>1. s2c'[i] = s2c[i] /\ hpc'[i] = hpc[i] /\ cmd' = cmd
  BY DEF PutRequest, PutData, GetRequest, SimpleRequest, ThreadFrame, srvVars
<1>2. ASSUME NEW k \in Commands, NEW r \in Packet, r.kind = k,
             At(i, k, "send"), Sent(i, <<r>>), Goto(i, "recv")
      PROVE  Shape(conn'[i], cmd', wpc'[i], s2c'[i], c2s'[i], hpc'[i])
  <2>1. cmd = k /\ wpc[i] = "send" /\ wpc'[i] = "recv"
    BY <1>2 DEF At, Goto, TypeOK, ThreadTypeOK
  <2>2. CASE conn[i] = "open"
    <3>1. conn'[i] = "open" /\ c2s'[i] = c2s[i] \o <<r>>
          /\ Live(k, "send", s2c[i], c2s[i], hpc[i])
      BY <1>2, <2>1, <2>2, SentShape
    <3>2. Live(k, "recv", s2c[i], c2s'[i], hpc[i])
      BY <1>2, <3>1, LiveAsk
    <3>3. QED
      BY <1>1, <2>1, <3>1, <3>2 DEF Shape
  <2>3. CASE conn[i] # "open"
    <3>1. conn'[i] \in {"fin", "dead"} /\ c2s'[i] = c2s[i]
          /\ Broken(k, "send", s2c[i], c2s[i], hpc[i])
      BY <1>2, <2>1, <2>3, SentShape
    <3>2. Broken(k, "recv", s2c[i], c2s[i], hpc[i])
      BY <3>1, BrokenEmpty
    <3>3. QED
      BY <1>1, <2>1, <3>1, <3>2 DEF Shape
  <2>4. QED
    BY <2>2, <2>3
<1>3. ASSUME SendFailed(i), wpc[i] = "send" \/ (wpc[i] = "data" /\ cmd = "put")
      PROVE  Shape(conn'[i], cmd', wpc'[i], s2c'[i], c2s'[i], hpc'[i])
  BY <1>1, <1>3, FailedShape, BrokenEmpty DEF SendFailed, Shape
<1>4. CASE PutRequest(i)
  <2>1. At(i, "put", "send") => Current(i) \in Part
    BY CurrentType DEF Commands
  <2>2. QED
    BY <1>2, <1>3, <1>4, <2>1, PacketType, PacketFacts DEF PutRequest, At, Commands
<1>5. CASE GetRequest(i)
  <2>1. At(i, "get", "send") => Current(i) \in Part
    BY CurrentType DEF Commands
  <2>2. QED
    BY <1>2, <1>3, <1>5, <2>1, PacketType, PacketFacts DEF GetRequest, At, Commands
<1>6. CASE SimpleRequest(i)
  BY <1>2, <1>3, <1>6, PacketType, PacketFacts DEF SimpleRequest, At, Commands
<1>7. CASE PutData(i)
  <2>1. cmd = "put" /\ wpc[i] = "data" /\ wpc'[i] \in {"send", "done"}
    BY <1>7 DEF PutData, At, NextPiece, Goto, TypeOK, ThreadTypeOK
  <2>2. Slice(i) \in Content
    BY <1>7, SliceType DEF PutData
  <2>3. CASE Sent(i, <<Data(Slice(i)), Eof>>)
    <3>1. CASE conn[i] = "open"
      <4>1. conn'[i] = "open" /\ c2s'[i] = c2s[i] \o <<Data(Slice(i)), Eof>>
            /\ Live("put", "data", s2c[i], c2s[i], hpc[i])
        BY <2>1, <2>3, <3>1, SentShape
      <4>2. Live("put", wpc'[i], s2c[i], c2s'[i], hpc[i])
        BY <2>1, <2>2, <4>1, LiveUpload
      <4>3. QED
        BY <1>1, <2>1, <4>1, <4>2 DEF Shape
    <3>2. CASE conn[i] # "open"
      <4>1. conn'[i] \in {"fin", "dead"} /\ c2s'[i] = c2s[i]
            /\ Broken("put", "data", s2c[i], c2s[i], hpc[i])
        BY <2>1, <2>3, <3>2, SentShape
      <4>2. Broken("put", wpc'[i], s2c[i], c2s[i], hpc[i])
        BY <4>1, BrokenEmpty
      <4>3. QED
        BY <1>1, <2>1, <4>1, <4>2 DEF Shape
    <3>3. QED
      BY <3>1, <3>2
  <2>4. QED
    BY <1>3, <1>7, <2>1, <2>3 DEF PutData
<1>8. QED
  BY <1>4, <1>5, <1>6, <1>7

LEMMA ReceiverShape ==
    ASSUME TypeOK, Streams, NEW i \in Host,
           PutReply(i) \/ GetReply(i) \/ GetData(i) \/ SimpleReply(i)
    PROVE  Shape(conn'[i], cmd', wpc'[i], s2c'[i], c2s'[i], hpc'[i])
<1>1. c2s'[i] = c2s[i] /\ hpc'[i] = hpc[i] /\ cmd' = cmd
  BY DEF PutReply, GetReply, GetData, SimpleReply, ThreadFrame, srvVars
\* Nothing to receive: the connection is broken and the stream stays empty.
<1>2. ASSUME EndOfStream(i) \/ RecvFailed(i)
      PROVE  Shape(conn'[i], cmd', wpc'[i], s2c'[i], c2s'[i], hpc'[i])
  <2>1. s2c[i] = <<>> /\ s2c'[i] = s2c[i] /\ conn'[i] \in {"fin", "dead"}
    BY <1>2 DEF EndOfStream, RecvFailed, ConnectionError, TypeOK, NetTypeOK
  <2>2. Broken(cmd, wpc[i], s2c[i], c2s[i], hpc[i])
    BY <1>2, FailedShape DEF EndOfStream, RecvFailed, Streams, Shape
  <2>3. Broken(cmd, wpc'[i], s2c[i], c2s[i], hpc[i])
    BY <2>1, <2>2, BrokenEmpty
  <2>4. QED
    BY <1>1, <2>1, <2>3 DEF Shape
\* A packet was received, from a live connection or from a broken one.
<1>3. ASSUME Received(i),
             conn[i] = "open" /\ Live(cmd, wpc[i], s2c[i], c2s[i], hpc[i])
                 => Live(cmd, wpc'[i], Tail(s2c[i]), c2s[i], hpc[i]),
             conn[i] # "open" /\ Broken(cmd, wpc[i], s2c[i], c2s[i], hpc[i])
                 => Broken(cmd, wpc'[i], Tail(s2c[i]), c2s[i], hpc[i])
      PROVE  Shape(conn'[i], cmd', wpc'[i], s2c'[i], c2s'[i], hpc'[i])
  BY <1>1, <1>3, ReceivedShape DEF Shape
<1>4. CASE PutReply(i)
  <2>1. cmd = "put" /\ wpc[i] = "recv"
    BY <1>4 DEF PutReply, At
  <2>2. CASE Received(i)
    <3>1. s2c[i] # <<>> /\ IF Refused(Head(s2c[i])) THEN wpc'[i] \in {"send", "done"}
                                                   ELSE wpc'[i] = "data"
      BY <1>4, <2>2 DEF PutReply, Received, EndOfStream, RecvFailed, Incoming,
                        NextPiece, Goto, TypeOK, ThreadTypeOK
    <3>2. Live("put", "recv", s2c[i], c2s[i], hpc[i])
              => Live("put", wpc'[i], Tail(s2c[i]), c2s[i], hpc[i])
      BY <3>1, LivePutReply
    <3>3. Broken("put", "recv", s2c[i], c2s[i], hpc[i])
              => Broken("put", wpc'[i], Tail(s2c[i]), c2s[i], hpc[i])
      BY <3>1, BrokenReceive DEF Broken
    <3>4. QED
      BY <1>3, <2>1, <2>2, <3>2, <3>3
  <2>3. QED
    BY <1>2, <1>4, <2>2 DEF PutReply
<1>5. CASE GetReply(i)
  <2>1. cmd = "get" /\ wpc[i] = "recv"
    BY <1>5 DEF GetReply, At
  <2>2. CASE Received(i)
    <3>1. s2c[i] # <<>> /\ IF Refused(Head(s2c[i])) THEN wpc'[i] = "done"
                                                   ELSE wpc'[i] = "data"
      BY <1>5, <2>2 DEF GetReply, Received, EndOfStream, RecvFailed, Incoming,
                        OpenLocalPiece, Refuse, Goto, TypeOK, ThreadTypeOK
    <3>2. Live("get", "recv", s2c[i], c2s[i], hpc[i])
              => Live("get", wpc'[i], Tail(s2c[i]), c2s[i], hpc[i])
      BY <3>1, LiveGetReply
    <3>3. Broken("get", "recv", s2c[i], c2s[i], hpc[i])
              => Broken("get", wpc'[i], Tail(s2c[i]), c2s[i], hpc[i])
      BY <3>1, BrokenReceive DEF Broken
    <3>4. QED
      BY <1>3, <2>1, <2>2, <3>2, <3>3
  <2>3. QED
    BY <1>2, <1>5, <2>2 DEF GetReply
<1>6. CASE GetData(i)
  <2>1. cmd = "get" /\ wpc[i] = "data"
    BY <1>6 DEF GetData, At
  <2>2. CASE Received(i)
    <3>1. s2c[i] # <<>> /\ IF Head(s2c[i]) = Eof THEN wpc'[i] \in {"send", "done"}
                                                ELSE wpc'[i] = "data"
      BY <1>6, <2>2 DEF GetData, Received, EndOfStream, RecvFailed, Incoming,
                        NextPiece, Goto, TypeOK, ThreadTypeOK
    <3>2. Live("get", "data", s2c[i], c2s[i], hpc[i])
              => Live("get", wpc'[i], Tail(s2c[i]), c2s[i], hpc[i])
      BY <3>1, LiveGetData
    <3>3. Broken("get", "data", s2c[i], c2s[i], hpc[i])
              => Broken("get", wpc'[i], Tail(s2c[i]), c2s[i], hpc[i])
      BY <3>1, BrokenReceive DEF Broken
    <3>4. QED
      BY <1>3, <2>1, <2>2, <3>2, <3>3
  <2>3. QED
    BY <1>2, <1>6, <2>2 DEF GetData
<1>7. CASE SimpleReply(i)
  <2>1. cmd \in {"ls", "mkdir"} /\ wpc[i] = "recv" /\ wpc'[i] = "done"
    BY <1>7 DEF SimpleReply, At, Goto, TypeOK, ThreadTypeOK
  <2>2. CASE Received(i)
    <3>1. s2c[i] # <<>>
      BY <2>2 DEF Received
    <3>2. Live(cmd, "recv", s2c[i], c2s[i], hpc[i])
              => Live(cmd, "done", Tail(s2c[i]), c2s[i], hpc[i])
      BY <2>1, <3>1, LiveSimpleReply
    <3>3. Broken(cmd, "recv", s2c[i], c2s[i], hpc[i])
              => Broken(cmd, "done", Tail(s2c[i]), c2s[i], hpc[i])
      BY <2>1, <3>1, BrokenReceive DEF Broken
    <3>4. QED
      BY <1>3, <2>1, <2>2, <3>2, <3>3
  <2>3. QED
    BY <1>2, <1>7, <2>2 DEF SimpleReply
<1>8. QED
  BY <1>4, <1>5, <1>6, <1>7

LEMMA ServerShape ==
    ASSUME TypeOK, Planned, Accounted, Streams, NEW i \in Host, Server(i)
    PROVE  Shape(conn'[i], cmd', wpc'[i], s2c'[i], c2s'[i], hpc'[i])
<1> DEFINE t == wpc[i]
           in == s2c[i]
           out == c2s[i]
<1>1. conn'[i] = conn[i] /\ cmd' = cmd /\ wpc'[i] = wpc[i]
  BY DEF Server, ServerRequest, ServerStore, ServerHangup, ServerFrame, thrVars
<1>2. conn[i] \in {"closed", "open", "fin", "reset", "dead"}
      /\ Shape(conn[i], cmd, t, in, out, hpc[i])
  BY DEF TypeOK, NetTypeOK, Streams
<1>3. CASE ServerRequest(i)
  <2>1. out # <<>> /\ hpc[i] = "wait" /\ c2s'[i] = Tail(out)
    BY <1>3 DEF ServerRequest, TypeOK, NetTypeOK
  <2>2. hpc'[i] \in {"wait", "store"}
    BY <1>3, <2>1 DEF ServerRequest, AcceptPut, SendPiece, MakeDir, ListDir,
                      RefuseRequest, TypeOK, ServerTypeOK
  <2>3. CASE conn[i] = "closed"
    <3>1. Deserted(t, in, out, "wait") /\ s2c'[i] = in
      BY <1>2, <1>3, <2>1, <2>3
         DEF Shape, ServerRequest, AcceptPut, SendPiece, MakeDir, ListDir,
             RefuseRequest, Answered, ClientGone
    <3>2. Deserted(t, in, Tail(out), hpc'[i])
      BY <2>1, <2>2, <3>1, DesertedServe
    <3>3. QED
      BY <1>1, <2>1, <2>3, <3>1, <3>2 DEF Shape
  <2>4. CASE conn[i] # "closed"
    <3>1. conn[i] = "open" /\ Live(cmd, t, in, out, "wait")
      BY <1>2, <2>1, <2>4 DEF Shape, Broken
    <3>2. t = "recv"
      BY <2>1, <3>1 DEF Live
    <3>3. cmd \in Commands
      BY <3>2 DEF Accounted, Planned, NoThread
    <3>4. PICK c \in Content : CanFetch(i) => c = store[i][AskedPart(i)]
      <4>1. Head(out) \in Packet
        BY <2>1, HeadTailType DEF TypeOK
      <4>2. CanFetch(i) => AskedPart(i) \in Part
        BY <4>1 DEF CanFetch, Asked, AskedPart, Packet, Request, Reply, Data, Eof
      <4>3. QED
        BY <4>2, PacketType DEF TypeOK, ServerTypeOK
    <3>5. /\ Head(out).kind = cmd /\ Tail(out) = <<>>
          /\ Live(cmd, t, in \o <<Reply(1)>>, <<>>, "wait")
          /\ cmd = "put" => Live(cmd, t, in \o <<Reply(0)>>, <<>>, "store")
          /\ cmd = "get" => Live(cmd, t, in \o <<Reply(0), Data(c), Eof>>, <<>>, "wait")
          /\ cmd \in {"ls", "mkdir"} => Live(cmd, t, in \o <<Reply(0)>>, <<>>, "wait")
      BY <2>1, <3>1, <3>3, LiveServe
    <3>6. \A pkts : Answered(i, pkts) => s2c'[i] = in \o pkts
      BY <2>4 DEF Answered, ClientGone, TypeOK, NetTypeOK
    <3>7. Live(cmd, t, s2c'[i], <<>>, hpc'[i])
      <4>1. CASE AcceptPut(i)
        <5>1. cmd = "put" /\ hpc'[i] = "store" /\ s2c'[i] = in \o <<Reply(0)>>
          BY <3>5, <3>6, <4>1 DEF AcceptPut, CanStore, Asked, TypeOK, ServerTypeOK
        <5>2. QED
          BY <3>5, <5>1
      <4>2. CASE SendPiece(i)
        <5>1. cmd = "get" /\ hpc'[i] = "wait"
              /\ s2c'[i] = in \o <<Reply(0), Data(c), Eof>>
          BY <2>1, <3>4, <3>5, <3>6, <4>2 DEF SendPiece, CanFetch, Asked
        <5>2. QED
          BY <3>5, <5>1
      <4>3. CASE MakeDir(i) \/ ListDir(i)
        <5>1. cmd \in {"ls", "mkdir"} /\ hpc'[i] = "wait"
              /\ s2c'[i] = in \o <<Reply(0)>>
          BY <2>1, <3>5, <3>6, <4>3 DEF MakeDir, ListDir, Asked
        <5>2. QED
          BY <3>5, <5>1
      <4>4. CASE RefuseRequest(i)
        <5>1. hpc'[i] = "wait" /\ s2c'[i] = in \o <<Reply(1)>>
          BY <2>1, <3>6, <4>4 DEF RefuseRequest
        <5>2. QED
          BY <3>5, <5>1
      <4>5. QED
        BY <1>3, <4>1, <4>2, <4>3, <4>4 DEF ServerRequest
    <3>8. QED
      BY <1>1, <2>1, <3>1, <3>5, <3>7 DEF Shape
  <2>5. QED
    BY <2>3, <2>4
<1>4. CASE ServerStore(i)
  <2>1. out # <<>> /\ hpc[i] = "store" /\ c2s'[i] = Tail(out) /\ s2c'[i] = in
        /\ IF Head(out) = Eof THEN hpc'[i] = "wait" ELSE hpc'[i] = "store"
    BY <1>4 DEF ServerStore, TypeOK, NetTypeOK, ServerTypeOK
  <2>2. CASE conn[i] = "closed"
    BY <1>1, <1>2, <2>1, <2>2, DesertedStore DEF Shape
  <2>3. CASE conn[i] = "open"
    BY <1>1, <1>2, <2>1, <2>3, LiveStore DEF Shape
  <2>4. QED
    BY <1>2, <2>1, <2>2, <2>3 DEF Shape, Broken
<1>5. CASE ServerHangup(i)
  <2>1. conn[i] = "closed" /\ out = <<>> /\ c2s'[i] = out /\ s2c'[i] = in
    BY <1>5 DEF ServerHangup, ClientGone
  <2>2. QED
    BY <1>1, <1>2, <2>1 DEF Shape, Deserted
<1>6. QED
  BY <1>3, <1>4, <1>5 DEF Server

LEMMA IdleShape ==
    ASSUME NEW co, NEW k, NEW t \in {"off", "send", "done"}, NEW in, NEW out, NEW s,
           Shape(co, k, t, in, out, s),
           NEW l, NEW u \in {"off", "send", "done"}, co = "closed" => u = "off"
    PROVE  Shape(co, l, u, in, out, s)
<1>1. co = "open" => Live(l, u, in, out, s)
  BY LiveIdle DEF Shape
<1>2. co \in {"fin", "reset", "dead"} => Broken(l, u, in, out, s)
  BY BrokenEmpty DEF Shape
<1>3. co = "closed" => Deserted(u, in, out, s)
  BY DEF Shape, Deserted
<1>4. QED
  BY <1>1, <1>2, <1>3 DEF Shape

LEMMA StreamsStep ==
    ASSUME SessionInv, [Next]_vars
    PROVE  Streams'
<1> USE DEF SessionInv
<1>1. ASSUME NEW k \in Commands, Command(k)
      PROVE  Streams'
  <2>1. UNCHANGED <<conn, s2c, c2s, hpc>> /\ main = "prompt"
    BY <1>1 DEF Command, netVars, srvVars
  <2>2. \A i \in Host : wpc[i] = "off" /\ wpc'[i] \in {"off", "send"}
                        /\ (conn[i] = "closed" => wpc'[i] = "off")
    BY <1>1, <2>1 DEF Accounted, NoThread, Command, Spawn
  <2>3. QED
    BY <2>1, <2>2, IdleShape DEF Streams
<1>2. CASE Join
  <2>1. UNCHANGED <<conn, s2c, c2s, hpc>> /\ main = "join"
        /\ \A i \in Host : wpc[i] \in {"off", "done"}
    BY <1>2 DEF Join, JoinRetry, JoinAbort, JoinMerge, JoinList, JoinOther, Joined,
                netVars, srvVars
  <2>2. \A i \in Host : wpc'[i] \in {"off", "send"}
                        /\ (conn[i] = "closed" => wpc'[i] = "off")
    BY <1>2, <2>1 DEF Join, JoinRetry, JoinAbort, JoinMerge, JoinList, JoinOther,
                BackToPrompt, NoThread, Spawn, StillAvailable, Accounted
  <2>3. QED
    BY <2>1, <2>2, IdleShape DEF Streams
<1>3. ASSUME NEW i \in Host, Thread(i) \/ Server(i)
      PROVE  Streams'
  <2>1. Shape(conn'[i], cmd', wpc'[i], s2c'[i], c2s'[i], hpc'[i])
    BY <1>3, SenderShape, ReceiverShape, ServerShape DEF Thread
  <2>2. \A j \in Host : j # i =>
            /\ conn'[j] = conn[j] /\ wpc'[j] = wpc[j] /\ hpc'[j] = hpc[j]
            /\ s2c'[j] = s2c[j] /\ c2s'[j] = c2s[j]
    BY <1>3, OthersKeepShape
  <2>3. cmd' = cmd
    BY <1>3, ThreadMoves DEF TypeOK
  <2>4. QED
    BY <2>1, <2>2, <2>3 DEF Streams
<1>4. ASSUME NEW i \in Host, ServerDies(i),
             Crash(i) \/ UNCHANGED <<conn, s2c>>,
             UNCHANGED <<conn, s2c>> => conn[i] # "open"
      PROVE  Streams'
  <2>1. UNCHANGED <<cmd, wpc>> /\ c2s'[i] = <<>> /\ hpc'[i] = "wait"
        /\ \A j \in Host : j # i => c2s'[j] = c2s[j] /\ hpc'[j] = hpc[j]
    BY <1>4 DEF ServerDies, thrVars, TypeOK, NetTypeOK, ServerTypeOK
  <2>2. \A j \in Host : j # i => conn'[j] = conn[j] /\ s2c'[j] = s2c[j]
    BY <1>4 DEF Crash, TypeOK, NetTypeOK
  <2>3. Shape(conn[i], cmd, wpc[i], s2c[i], c2s[i], hpc[i])
        /\ conn[i] \in {"closed", "open", "fin", "reset", "dead"}
    BY DEF Streams, TypeOK, NetTypeOK
  <2>4. CASE conn[i] = "open"
    <3>1. PICK n \in 0 .. Len(s2c[i]) : s2c'[i] = SubSeq(s2c[i], 1, n)
      BY <1>4, <2>4 DEF Crash, TypeOK, NetTypeOK
    <3>2. conn'[i] \in {"fin", "reset"}
      BY <1>4, <2>4, SessionAssumption DEF Crash, TypeOK, NetTypeOK
    <3>3. Live(cmd, wpc[i], s2c[i], c2s[i], hpc[i])
      BY <2>3, <2>4 DEF Shape
    <3>4. Broken(cmd, wpc[i], s2c'[i], <<>>, "wait")
      BY <3>1, <3>3, LiveCrash
    <3>5. Shape(conn'[i], cmd', wpc'[i], s2c'[i], c2s'[i], hpc'[i])
      BY <2>1, <3>2, <3>4 DEF Shape
    <3>6. QED
      BY <2>1, <2>2, <3>5 DEF Streams
  <2>5. CASE conn[i] # "open"
    <3>1. conn'[i] = conn[i] /\ s2c'[i] = s2c[i]
      BY <1>4, <2>5 DEF Crash
    <3>2. Shape(conn'[i], cmd', wpc'[i], s2c'[i], c2s'[i], hpc'[i])
      BY <2>1, <2>3, <2>5, <3>1 DEF Shape, Broken, Deserted
    <3>3. QED
      BY <2>1, <2>2, <3>2 DEF Streams
  <2>6. QED
    BY <2>4, <2>5
<1>5. ASSUME NEW i \in Host, Crash(i) \/ ServerSigpipe(i)
      PROVE  Streams'
  <2>1. conn[i] = "open" /\ Crash(i) => conn' # conn
    BY SessionAssumption DEF Crash, TypeOK, NetTypeOK
  <2>2. QED
    BY <1>4, <1>5, <2>1 DEF Crash, ServerSigpipe, ClientGone
<1>6. ASSUME NEW i \in Host, Restart(i)
      PROVE  Streams'
  BY <1>6 DEF Restart, netVars, thrVars, Streams
<1>7. CASE ClientDies
  <2>1. UNCHANGED <<c2s, hpc>>
        /\ \A i \in Host : conn'[i] = "closed" /\ s2c'[i] = <<>> /\ wpc'[i] = "off"
    BY <1>7 DEF ClientDies, srvVars, NoThread
  <2>2. \A i \in Host : wpc[i] = "recv" => cmd \in Commands
    BY DEF Accounted, Planned, NoThread
  <2>3. \A i \in Host : Deserted("off", <<>>, c2s[i], hpc[i])
    <3> SUFFICES ASSUME NEW i \in Host PROVE Deserted("off", <<>>, c2s[i], hpc[i])
      OBVIOUS
    <3>1. conn[i] \in {"closed", "open", "fin", "reset", "dead"}
      BY DEF TypeOK, NetTypeOK
    <3>2. \/ Live(cmd, wpc[i], s2c[i], c2s[i], hpc[i])
          \/ Broken(cmd, wpc[i], s2c[i], c2s[i], hpc[i])
          \/ Deserted(wpc[i], s2c[i], c2s[i], hpc[i])
      BY <3>1 DEF Streams, Shape
    <3>3. QED
      BY <2>2, <3>2, LeftBehind
  <2>4. QED
    BY <2>1, <2>3 DEF Streams, Shape
<1>8. CASE Relaunch
  <2>1. \A i \in Host : s2c[i] = <<>> /\ wpc[i] = "off"
    BY <1>8 DEF Relaunch, Accounted, NoThread, Streams, Shape, Deserted
  <2>2. UNCHANGED <<s2c, c2s, wpc, hpc>>
        /\ \A i \in Host : c2s[i] = <<>> /\ hpc[i] = "wait"
                           /\ conn'[i] \in {"open", "closed"}
    BY <1>8 DEF Relaunch, srvVars, thrVars
  <2>3. QED
    BY <2>1, <2>2 DEF Streams, Shape, Live, Deserted
<1>9. CASE UNCHANGED vars
  BY <1>9 DEF vars, srvVars, netVars, thrVars, Streams
<1>10. QED
  BY <1>1, <1>2, <1>3, <1>5, <1>6, <1>7, <1>8, <1>9 DEF Next, Sigpipe, Interrupt
-----------------------------------------------------------------------------
(* The theorems.                                                           *)

LEMMA InitInv == Init => SessionInv
<1> SUFFICES ASSUME Init PROVE SessionInv
  OBVIOUS
<1>1. ServerTypeOK
  <2>1. \A i \in Host, p \in Part :
            (IF goal = 1 /\ p \in Stored(i, HashValue) THEN Piece(p, 1) ELSE Absent)
                \in Content
    BY SessionAssumption DEF Content, Piece, Version
  <2>2. QED
    BY <2>1 DEF Init, ServerTypeOK
<1>2. NetTypeOK
  BY EmptySeq DEF Init, NetTypeOK
<1>3. ThreadTypeOK
  BY IdleType DEF Init, ThreadTypeOK
<1>4. ClientTypeOK
  BY EmptySeq, PacketType, SessionAssumption DEF Init, ClientTypeOK, Version
<1>5. Planned
  BY DEF Init, Planned
<1>6. Accounted
  BY DEF Init, Accounted, NoThread, NoReturn
<1>7. Streams
  BY DEF Init, Streams, Shape, Live, Deserted, NoThread
<1>8. QED
  BY <1>1, <1>2, <1>3, <1>4, <1>5, <1>6, <1>7 DEF SessionInv, TypeOK

LEMMA TypeStep ==
    ASSUME TypeOK, Planned, [Next]_vars
    PROVE  TypeOK'
<1>1. CASE UNCHANGED vars
  BY <1>1 DEF vars, srvVars, netVars, thrVars, diskVars, boundVars, TypeOK,
              ServerTypeOK, NetTypeOK, ThreadTypeOK, ClientTypeOK
<1>2. CASE Next
  BY <1>2, CommandType, JoinType, ThreadSends, ThreadReceives, ServerActs, CrashType,
     RestartType, ClientDiesType, RelaunchType DEF Next, Thread, Sigpipe, Interrupt
<1>3. QED
  BY <1>1, <1>2

LEMMA StepInv == SessionInv /\ [Next]_vars => SessionInv'
BY TypeStep, PlannedStep, AccountedStep, StreamsStep DEF SessionInv

(* The inductive invariant holds in every state the system reaches: the    *)
(* threads follow the plan, hosts are given up with reason, and the two    *)
(* ends and the streams of every connection are in step.                   *)
THEOREM SessionInvariant == Spec => []SessionInv
BY InitInv, StepInv, PTL DEF Spec

(* Every variable keeps its type, for any number of hosts and any bounds.  *)
THEOREM SessionTypeOK == Spec => []TypeOK
<1>1. SessionInv => TypeOK
  BY DEF SessionInv
<1>2. QED
  BY <1>1, SessionInvariant, PTL

(* No two threads of a GET ever write the same local piece file.           *)
THEOREM NoTwoWriters == Spec => []NoSharedPartFile
<1>1. SessionInv => NoSharedPartFile
  <2> SUFFICES ASSUME SessionInv, NEW i \in Host, NEW j \in Host, i # j,
                      At(i, "get", "data"), At(j, "get", "data")
               PROVE  Current(i) # Current(j)
    BY DEF NoSharedPartFile
  <2>1. avail \in [Host -> BOOLEAN] /\ avail[i] /\ avail[j]
        /\ parts[i] = GetParts(avail, i, HashValue)
        /\ parts[j] = GetParts(avail, j, HashValue)
    BY DEF SessionInv, TypeOK, ClientTypeOK, Planned, At, PlanFor
  <2>2. Current(i) \in Part /\ Current(j) \in Part
    BY CurrentType DEF SessionInv, Commands
  <2>3. widx[i] \in {1, 2} /\ widx[j] \in {1, 2}
    BY DEF SessionInv, TypeOK, ThreadTypeOK
  <2>4. Current(i) \in Fetched(avail, i, HashValue)
        /\ Current(j) \in Fetched(avail, j, HashValue)
    BY <2>1, <2>2, <2>3, HostPart DEF Current, Fetched, Named
  <2>5. QED
    BY <2>1, <2>4, HostPart, PlanDisjoint
<1>2. QED
  BY <1>1, SessionInvariant, PTL

(* A running client gives a host up only after its connection has failed.  *)
THEOREM NoHealthyHostGivenUp == Spec => []AvailAccurate
<1>1. SessionInv => AvailAccurate
  BY DEF SessionInv, Accounted, AvailAccurate
<1>2. QED
  BY <1>1, SessionInvariant, PTL

(* No packet is ever taken for one of another kind, although replies, file *)
(* data and requests share one stream and carry no identifiers: whatever   *)
(* crashes, and whatever the servers refuse.                               *)
THEOREM StreamsStayAligned == Spec => []StreamAligned
<1>1. SessionInv => StreamAligned
  <2> SUFFICES ASSUME SessionInv, NEW i \in Host
               PROVE  /\ s2c[i] # <<>> =>
                           \/ wpc[i] = "recv" /\ Head(s2c[i]).kind = "rep"
                           \/ /\ wpc[i] = "data" /\ cmd = "get"
                              /\ Head(s2c[i]).kind \in {"data", "eof"}
                      /\ c2s[i] # <<>> =>
                           IF hpc[i] = "wait" THEN Head(c2s[i]).kind \in Commands
                           ELSE Head(c2s[i]).kind \in {"data", "eof"}
    BY DEF StreamAligned
  <2>1. /\ conn[i] \in {"closed", "open", "fin", "reset", "dead"}
        /\ hpc[i] \in {"wait", "store"}
        /\ Shape(conn[i], cmd, wpc[i], s2c[i], c2s[i], hpc[i])
        /\ wpc[i] # "off" => cmd \in Commands
    BY DEF SessionInv, TypeOK, NetTypeOK, ServerTypeOK, Streams, Accounted, Planned,
           NoThread
  <2>2. \A q, k : Asks(q, k) => Head(q).kind = k
    BY QueueFacts DEF Asks
  <2>3. CASE conn[i] = "closed"
    BY <2>1, <2>2, <2>3, RestStep, RestThenAsksStep DEF Shape, Deserted
  <2>4. CASE conn[i] = "open"
    <3>1. Live(cmd, wpc[i], s2c[i], c2s[i], hpc[i])
      BY <2>1, <2>4 DEF Shape
    <3>2. \A c : Head(<<Reply(0), Data(c), Eof>>) = Reply(0)
      BY QueueFacts
    <3>3. s2c[i] # <<>> => \/ wpc[i] = "recv" /\ Head(s2c[i]).kind = "rep"
                           \/ /\ wpc[i] = "data" /\ cmd = "get"
                              /\ Head(s2c[i]).kind \in {"data", "eof"}
      BY <3>1, <3>2, QueueFacts, PacketFacts, RestStep DEF Live
    <3>4. c2s[i] # <<>> => IF hpc[i] = "wait" THEN Head(c2s[i]).kind \in Commands
                           ELSE Head(c2s[i]).kind \in {"data", "eof"}
      BY <2>1, <2>2, <3>1, RestStep, RestThenAsksStep DEF Live
    <3>5. QED
      BY <3>3, <3>4
  <2>5. CASE conn[i] \in {"fin", "reset", "dead"}
    <3>1. Broken(cmd, wpc[i], s2c[i], c2s[i], hpc[i])
      BY <2>1, <2>5 DEF Shape
    <3>2. \A c : Head(<<Reply(0), Data(c), Eof>>) = Reply(0)
                 /\ Head(<<Reply(0), Data(c)>>) = Reply(0)
                 /\ Head(<<Data(c)>>) = Data(c)
      BY QueueFacts
    <3>3. QED
      BY <3>1, <3>2, QueueFacts, PacketFacts, RestStep DEF Broken
  <2>6. QED
    BY <2>1, <2>3, <2>4, <2>5
<1>2. QED
  BY <1>1, SessionInvariant, PTL

-----------------------------------------------------------------------------
(***************************************************************************)
(* What becomes of a file that was stored: the replicas of a complete PUT  *)
(* are durable, a GET that merges has that file, and where dying servers   *)
(* reset their connections every GET that can be served does merge.        *)
(***************************************************************************)

-----------------------------------------------------------------------------
(* The packets of a stream.                                                *)

LEMMA PacketsShort ==
    ASSUME NEW a, NEW b, NEW c
    PROVE  /\ Packets(<<>>) = {} /\ Packets(<<a>>) = {a}
           /\ Packets(<<a, b>>) = {a, b} /\ Packets(<<a, b, c>>) = {a, b, c}
<1>1. Packets(<<>>) = {}
  BY DEF Packets
<1>2. Packets(<<a>>) = {a}
  <2>1. Len(<<a>>) = 1 /\ 1 .. 1 = {1} /\ <<a>>[1] = a
    OBVIOUS
  <2>2. QED
    BY <2>1 DEF Packets
<1>3. Packets(<<a, b>>) = {a, b}
  <2>1. Len(<<a, b>>) = 2 /\ 1 .. 2 = {1, 2} /\ <<a, b>>[1] = a /\ <<a, b>>[2] = b
    OBVIOUS
  <2>2. QED
    BY <2>1 DEF Packets
<1>4. Packets(<<a, b, c>>) = {a, b, c}
  <2>1. Len(<<a, b, c>>) = 3 /\ 1 .. 3 = {1, 2, 3}
        /\ <<a, b, c>>[1] = a /\ <<a, b, c>>[2] = b /\ <<a, b, c>>[3] = c
    OBVIOUS
  <2>2. QED
    BY <2>1 DEF Packets
<1>5. QED
  BY <1>1, <1>2, <1>3, <1>4

LEMMA PacketsTaken ==
    ASSUME NEW q \in Seq(Packet), q # <<>>
    PROVE  Head(q) \in Packets(q) /\ Packets(Tail(q)) \subseteq Packets(q)
<1>1. Len(q) \in Nat \ {0} /\ Head(q) = q[1]
      /\ Len(Tail(q)) = Len(q) - 1 /\ \A n \in 1 .. Len(Tail(q)) : Tail(q)[n] = q[n + 1]
  BY HeadTailProperties, EmptySeq, LenProperties
<1>2. \A n \in 1 .. Len(Tail(q)) : n + 1 \in 1 .. Len(q)
  BY <1>1
<1>3. QED
  BY <1>1, <1>2 DEF Packets

LEMMA PacketsSent ==
    ASSUME NEW q \in Seq(Packet), NEW r \in Seq(Packet)
    PROVE  /\ Packets(q \o r) \subseteq Packets(q) \cup Packets(r)
           /\ q # <<>> => q \o r # <<>> /\ Head(q \o r) = Head(q)
<1>1. /\ q \o r \in Seq(Packet) /\ Len(q \o r) = Len(q) + Len(r)
      /\ Len(q) \in Nat /\ Len(r) \in Nat
      /\ \A n \in 1 .. Len(q) + Len(r) :
             (q \o r)[n] = IF n <= Len(q) THEN q[n] ELSE r[n - Len(q)]
  BY ConcatProperties, LenProperties
<1>2. \A n \in 1 .. Len(q \o r) : (q \o r)[n] \in Packets(q) \cup Packets(r)
  <2> SUFFICES ASSUME NEW n \in 1 .. Len(q) + Len(r)
               PROVE  (q \o r)[n] \in Packets(q) \cup Packets(r)
    BY <1>1
  <2>1. CASE n <= Len(q)
    BY <1>1, <2>1 DEF Packets
  <2>2. CASE ~ n <= Len(q)
    <3>1. n - Len(q) \in 1 .. Len(r) /\ (q \o r)[n] = r[n - Len(q)]
      BY <1>1, <2>2
    <3>2. QED
      BY <3>1 DEF Packets
  <2>3. QED
    BY <2>1, <2>2
<1>3. ASSUME q # <<>> PROVE q \o r # <<>> /\ Head(q \o r) = Head(q)
  <2>1. Len(q) > 0 /\ Head(q) = q[1]
    BY <1>1, <1>3, HeadTailProperties, EmptySeq
  <2>2. Len(q \o r) > 0 /\ (q \o r)[1] = q[1]
    BY <1>1, <2>1
  <2>3. q \o r # <<>> /\ Head(q \o r) = (q \o r)[1]
    BY <1>1, <2>2, HeadTailProperties, EmptySeq
  <2>4. QED
    BY <2>1, <2>2, <2>3
<1>4. QED
  BY <1>2, <1>3 DEF Packets

LEMMA PacketsPrefix ==
    ASSUME NEW q \in Seq(Packet), NEW n \in 0 .. Len(q)
    PROVE  /\ Packets(SubSeq(q, 1, n)) \subseteq Packets(q)
           /\ SubSeq(q, 1, n) # <<>> => q # <<>> /\ Head(SubSeq(q, 1, n)) = Head(q)
<1>1. /\ Len(q) \in Nat /\ SubSeq(q, 1, n) \in Seq(Packet) /\ Len(SubSeq(q, 1, n)) = n
      /\ \A k \in 1 .. n : SubSeq(q, 1, n)[k] = q[k]
  BY LenProperties, SubSeqProperties
<1>2. ASSUME SubSeq(q, 1, n) # <<>>
      PROVE  q # <<>> /\ Head(SubSeq(q, 1, n)) = Head(q)
  <2>1. n > 0
    BY <1>1, <1>2, EmptySeq
  <2>2. q # <<>> /\ Head(q) = q[1] /\ Head(SubSeq(q, 1, n)) = SubSeq(q, 1, n)[1]
    BY <1>1, <1>2, <2>1, HeadTailProperties, EmptySeq
  <2>3. QED
    BY <1>1, <2>1, <2>2
<1>3. QED
  BY <1>1, <1>2 DEF Packets

LEMMA RestPackets ==
    ASSUME NEW q, Rest(q)
    PROVE  \A m \in Packets(q) : m.kind \in {"data", "eof"}
<1>1. CASE q = <<Eof>>
  <2>1. Packets(q) = {Eof}
    BY <1>1, PacketsShort
  <2>2. QED
    BY <2>1, PacketFacts
<1>2. ASSUME NEW c \in Content, q = <<Data(c), Eof>>
      PROVE  \A m \in Packets(q) : m.kind \in {"data", "eof"}
  <2>1. Packets(q) = {Data(c), Eof}
    BY <1>2, PacketsShort
  <2>2. QED
    BY <2>1, PacketFacts
<1>3. QED
  BY <1>1, <1>2 DEF Rest

\* Two packets are the same only if they carry the same.
LEMMA DataInjective ==
    /\ \A c, d : Data(c) = Data(d) => c = d
    /\ \A c : Written(Data(c)) = c
    /\ \A k, p : Request(k, p).arg[1] = p
    /\ \A p, v : Piece(p, v) # Absent \/ p = NoPart
BY DEF Data, Written, Request, Piece, Absent
-----------------------------------------------------------------------------
(* What each part of the invariant says of one host.                       *)

LEMMA SessionTypes ==
    ASSUME SessionInv
    PROVE  /\ conn \in [Host -> {"closed", "open", "fin", "reset", "dead"}]
           /\ c2s \in [Host -> Seq(Packet)] /\ s2c \in [Host -> Seq(Packet)]
           /\ store \in [Host -> [Part -> Content]] /\ dir \in [Host -> BOOLEAN]
           /\ hpc \in [Host -> {"wait", "store"}]
           /\ hpart \in [Host -> Part \cup {NoPart}]
           /\ wpc \in [Host -> {"off", "send", "recv", "data", "done"}]
           /\ widx \in [Host -> {1, 2}] /\ ret \in [Host -> 0 .. 2]
           /\ parts \in [Host -> (Part \cup {NoPart}) \X (Part \cup {NoPart})]
           /\ avail \in [Host -> BOOLEAN] /\ lpart \in [Part -> Content]
           /\ goal \in Nat /\ ncmds \in Nat
BY SessionAssumption
   DEF SessionInv, TypeOK, NetTypeOK, ServerTypeOK, ThreadTypeOK, ClientTypeOK, Version

\* The pieces of a thread, of a PUT and of a GET.
LEMMA ThreadPieces ==
    ASSUME SessionInv, NEW i \in Host, main = "join", wpc[i] # "off"
    PROVE  /\ avail[i] /\ conn[i] # "closed"
           /\ cmd = "put" => /\ Named(parts[i]) = Stored(i, HashValue)
                             /\ parts[i][1] \in Part /\ parts[i][2] \in Part
           /\ cmd = "get" => /\ Named(parts[i]) = Fetched(avail, i, HashValue)
                             /\ parts[i][2] \in Part
                             /\ Named(parts[i]) \subseteq Stored(i, HashValue)
           /\ cmd \in {"put", "get"} => Current(i) \in Named(parts[i])
           /\ Finished(i) \subseteq Named(parts[i])
<1>1. /\ avail \in [Host -> BOOLEAN] /\ avail[i] /\ cmd \in Commands
      /\ widx[i] \in {1, 2} /\ parts[i] = PlanFor(cmd, avail, i)
      /\ widx[i] = 1 => parts[i][1] # NoPart
  BY SessionTypes DEF SessionInv, Planned
<1>2. conn[i] # "closed"
  BY <1>1 DEF SessionInv, Accounted
<1>3. PlanFor(cmd, avail, i)[2] \in Part
      /\ (cmd = "put" => PlanFor(cmd, avail, i)[1] \in Part)
  BY <1>1, PlanType
<1>4. cmd = "put" => Named(parts[i]) = Stored(i, HashValue)
  BY <1>1 DEF PlanFor, Stored
<1>5. cmd = "get" => Named(parts[i]) = Fetched(avail, i, HashValue)
  BY <1>1 DEF PlanFor, Fetched
<1>6. cmd = "get" => Named(parts[i]) \subseteq Stored(i, HashValue)
  BY <1>1, <1>5, HostPart, FetchedSets
<1>7. Current(i) \in Named(parts[i])
  BY <1>1, <1>3, HostPart DEF Current, Named
<1>8. Finished(i) \subseteq Named(parts[i])
  BY DEF Finished
<1>9. QED
  BY <1>1, <1>2, <1>3, <1>4, <1>5, <1>6, <1>7, <1>8

LEMMA ShapeOf ==
    ASSUME SessionInv, NEW i \in Host
    PROVE  /\ conn[i] = "open" => Live(cmd, wpc[i], s2c[i], c2s[i], hpc[i])
           /\ conn[i] \in {"fin", "reset", "dead"}
                  => Broken(cmd, wpc[i], s2c[i], c2s[i], hpc[i])
           /\ conn[i] = "closed" => Deserted(wpc[i], s2c[i], c2s[i], hpc[i])
           /\ wpc[i] \in {"off", "send", "done"} => s2c[i] = <<>>
<1>1. Shape(conn[i], cmd, wpc[i], s2c[i], c2s[i], hpc[i])
      /\ conn[i] \in {"closed", "open", "fin", "reset", "dead"}
  BY SessionTypes DEF SessionInv, Streams
<1>2. wpc[i] \in {"off", "send", "done"} => s2c[i] = <<>>
  BY <1>1 DEF Shape, Live, Broken, Deserted
<1>3. QED
  BY <1>1, <1>2 DEF Shape

\* A step of one host's thread or handler leaves the other hosts alone.
LEMMA OthersUntouched ==
    ASSUME SessionInv, NEW i \in Host, Thread(i) \/ Server(i)
    PROVE  /\ \A j \in Host \ {i} :
                  /\ conn'[j] = conn[j] /\ wpc'[j] = wpc[j] /\ widx'[j] = widx[j]
                  /\ hpc'[j] = hpc[j] /\ hpart'[j] = hpart[j] /\ store'[j] = store[j]
                  /\ s2c'[j] = s2c[j] /\ c2s'[j] = c2s[j] /\ dir'[j] = dir[j]
                  /\ ret'[j] = ret[j]
           /\ UNCHANGED <<main, cmd, avail, parts, ncmds, goal>>
<1> USE SessionTypes
<1>1. UNCHANGED <<main, cmd, avail, parts, ncmds>>
      /\ \A j \in Host \ {i} : ret'[j] = ret[j]
  BY ThreadMoves DEF SessionInv, TypeOK
<1>2. \A j \in Host \ {i} :
          /\ conn'[j] = conn[j] /\ wpc'[j] = wpc[j] /\ hpc'[j] = hpc[j]
          /\ s2c'[j] = s2c[j] /\ c2s'[j] = c2s[j]
  BY OthersKeepShape DEF SessionInv
<1>3. CASE Server(i)
  <2>1. UNCHANGED <<widx, goal>>
    BY <1>3 DEF Server, ServerRequest, ServerStore, ServerHangup, ServerFrame, thrVars
  <2>2. \A j \in Host \ {i} :
            hpart'[j] = hpart[j] /\ store'[j] = store[j] /\ dir'[j] = dir[j]
    BY <1>3 DEF Server, ServerRequest, ServerStore, ServerHangup, AcceptPut, SendPiece,
                MakeDir, ListDir, RefuseRequest
  <2>3. QED
    BY <1>1, <1>2, <2>1, <2>2
<1>4. CASE Thread(i)
  <2>1. UNCHANGED <<hpart, store, dir, goal>>
    BY <1>4 DEF Thread, PutRequest, PutReply, PutData, GetRequest, GetReply, GetData,
                SimpleRequest, SimpleReply, ThreadFrame, srvVars
  <2>2. \A j \in Host \ {i} : widx'[j] = widx[j]
    BY <1>4 DEF Thread, PutRequest, PutReply, PutData, GetRequest, GetReply, GetData,
                SimpleRequest, SimpleReply, OpenLocalPiece, Refuse, NextPiece, Goto
  <2>3. QED
    BY <1>1, <1>2, <2>1, <2>2
<1>5. QED
  BY <1>3, <1>4

LEMMA ThreadRuns ==
    ASSUME SessionInv, NEW i \in Host, Thread(i)
    PROVE  /\ main = "join" /\ wpc[i] \in {"send", "recv", "data"} /\ cmd \in Commands
           /\ wpc'[i] \in {"send", "recv", "data", "done"}
           /\ UNCHANGED <<hpart, store, dir, hpc>>
           /\ wpc'[i] = wpc[i] => widx'[i] = widx[i]
<1> USE SessionTypes
<1>1. UNCHANGED <<hpart, store, dir, hpc>>
  BY DEF Thread, PutRequest, PutReply, PutData, GetRequest, GetReply, GetData,
         SimpleRequest, SimpleReply, ThreadFrame, srvVars
<1>2. main = "join" /\ wpc[i] \in {"send", "recv", "data"} /\ cmd \in Commands
  BY DEF Thread, PutRequest, PutReply, PutData, GetRequest, GetReply, GetData,
         SimpleRequest, SimpleReply, At, Commands
<1>3. CASE PutRequest(i) \/ PutReply(i) \/ PutData(i)
  BY <1>1, <1>2, <1>3 DEF PutRequest, PutReply, PutData, At, Goto, NextPiece
<1>4. CASE GetRequest(i) \/ GetReply(i) \/ GetData(i)
  BY <1>1, <1>2, <1>4 DEF GetRequest, GetReply, GetData, OpenLocalPiece, Refuse,
                          At, Goto, NextPiece
<1>5. CASE SimpleRequest(i) \/ SimpleReply(i)
  BY <1>1, <1>2, <1>5 DEF SimpleRequest, SimpleReply, At, Goto
<1>6. QED
  BY <1>3, <1>4, <1>5 DEF Thread

LEMMA NothingAsked ==
    ASSUME SessionInv, NEW i \in Host, conn[i] # "closed", wpc[i] # "recv"
    PROVE  /\ \A m \in Packets(c2s[i]) : m.kind \in {"data", "eof"}
           /\ wpc[i] = "data" => c2s[i] = <<>>
<1>1. \/ Live(cmd, wpc[i], s2c[i], c2s[i], hpc[i])
      \/ Broken(cmd, wpc[i], s2c[i], c2s[i], hpc[i])
  BY ShapeOf, SessionTypes
<1>2. c2s[i] = <<>> \/ (wpc[i] # "data" /\ Rest(c2s[i]))
  BY <1>1 DEF Live, Broken
<1>3. QED
  BY <1>2, PacketsShort, RestPackets

\* What a call of send leaves behind in the stream.
LEMMA SentPackets ==
    ASSUME SessionInv, NEW i \in Host, NEW r \in Seq(Packet),
           Sent(i, r) \/ SendFailed(i)
    PROVE  /\ Packets(c2s'[i]) \subseteq Packets(c2s[i]) \cup Packets(r)
           /\ c2s[i] # <<>> => c2s'[i] # <<>> /\ Head(c2s'[i]) = Head(c2s[i])
           /\ conn'[i] = "open" => /\ conn[i] = "open" /\ Sent(i, r)
                                   /\ c2s'[i] = c2s[i] \o r
<1>1. \/ conn'[i] = "open" /\ conn[i] = "open" /\ c2s'[i] = c2s[i] \o r /\ Sent(i, r)
      \/ conn'[i] \in {"fin", "dead"} /\ c2s'[i] = c2s[i]
  BY SessionTypes DEF Sent, SendFailed, ConnectionError
<1>2. c2s[i] \in Seq(Packet)
  BY SessionTypes
<1>3. QED
  BY <1>1, <1>2, PacketsSent
-----------------------------------------------------------------------------
(* Asking.                                                                 *)

LEMMA AskingSender ==
    ASSUME SessionInv, NEW i \in Host,
           PutRequest(i) \/ GetRequest(i) \/ SimpleRequest(i)
    PROVE  wpc'[i] = "recv" =>
               \A m \in Packets(c2s'[i]) :
                   m.kind \in {"put", "get"} => m.arg[1] = Current(i)'
<1> USE SessionTypes
<1>1. wpc[i] = "send" /\ main = "join"
  BY DEF PutRequest, GetRequest, SimpleRequest, At
<1>2. conn[i] # "closed" /\ \A m \in Packets(c2s[i]) : m.kind \in {"data", "eof"}
  BY <1>1, ThreadPieces, NothingAsked
<1>3. ASSUME NEW k \in Commands, NEW p, Request(k, p) \in Packet,
             k \in {"put", "get"} => p = Current(i),
             Sent(i, <<Request(k, p)>>) \/ SendFailed(i)
      PROVE  \A m \in Packets(c2s'[i]) : m.kind \in {"put", "get"} => m.arg[1] = Current(i)
  <2>1. <<Request(k, p)>> \in Seq(Packet)
    BY <1>3
  <2> DEFINE req == Request(k, p)
  <2>0. Packets(<<req>>) = {req}
    <3> HIDE DEF req
    <3> QED BY PacketsShort
  <2>2. Packets(c2s'[i]) \subseteq Packets(c2s[i]) \cup {Request(k, p)}
    BY <1>3, <2>1, <2>0, SentPackets
  <2>3. Request(k, p).kind = k /\ Request(k, p).arg[1] = p
    BY PacketFacts, DataInjective
  <2>4. QED
    BY <1>2, <1>3, <2>2, <2>3
<1>4. CASE PutRequest(i)
  <2>1. parts' = parts /\ widx' = widx /\ Current(i)' = Current(i)
    BY <1>4 DEF PutRequest, Goto, ThreadFrame, Current
  <2>2. At(i, "put", "send") /\ Current(i) \in Part
    BY <1>4, CurrentType DEF PutRequest, SessionInv, Commands
  <2>3. QED
    BY <1>3, <1>4, <2>1, <2>2, PacketType DEF PutRequest, Commands
<1>5. CASE GetRequest(i)
  <2>1. parts' = parts /\ widx' = widx /\ Current(i)' = Current(i)
    BY <1>5 DEF GetRequest, Goto, ThreadFrame, Current
  <2>2. At(i, "get", "send") /\ Current(i) \in Part
    BY <1>5, CurrentType DEF GetRequest, SessionInv, Commands
  <2>3. QED
    BY <1>3, <1>5, <2>1, <2>2, PacketType DEF GetRequest, Commands
<1>6. CASE SimpleRequest(i)
  <2>1. parts' = parts /\ widx' = widx /\ Current(i)' = Current(i)
    BY <1>6 DEF SimpleRequest, Goto, ThreadFrame, Current
  <2>2. QED
    BY <1>3, <1>6, <2>1, PacketType DEF SimpleRequest, Commands
<1>7. QED
  BY <1>4, <1>5, <1>6

LEMMA ServerTakes ==
    ASSUME SessionInv, NEW i \in Host, Server(i)
    PROVE  /\ UNCHANGED <<main, cmd, avail, parts, wpc, widx, ret, conn, lpart, lfile,
                          goal, ncmds>>
           /\ Packets(c2s'[i]) \subseteq Packets(c2s[i])
<1>1. UNCHANGED <<main, cmd, avail, parts, wpc, widx, ret, conn, lpart, lfile, goal, ncmds>>
  BY DEF Server, ServerRequest, ServerStore, ServerHangup, ServerFrame, thrVars,
         diskVars, boundVars
<1>2. c2s'[i] = c2s[i] \/ (c2s[i] # <<>> /\ c2s'[i] = Tail(c2s[i]))
  BY SessionTypes DEF Server, ServerRequest, ServerStore, ServerHangup
<1>3. c2s[i] \in Seq(Packet)
  BY SessionTypes
<1>4. QED
  BY <1>1, <1>2, <1>3, PacketsTaken

LEMMA AskingStep ==
    ASSUME SessionInv, Asking, [Next]_vars
    PROVE  Asking'
<1> USE SessionTypes
<1>1. ASSUME NEW k \in Commands, Command(k)
      PROVE  Asking'
  BY <1>1 DEF Command, Spawn, Asking
<1>2. CASE Join
  <2>1. CASE JoinRetry
    BY <2>1 DEF JoinRetry, Spawn, Asking
  <2>2. CASE JoinAbort \/ JoinMerge \/ JoinList \/ JoinOther
    BY <2>2 DEF JoinAbort, JoinMerge, JoinList, JoinOther, BackToPrompt, NoThread, Asking
  <2>3. QED
    BY <1>2, <2>1, <2>2 DEF Join
<1>3. ASSUME NEW i \in Host, Thread(i)
      PROVE  Asking'
  <2>1. /\ \A j \in Host \ {i} : wpc'[j] = wpc[j] /\ widx'[j] = widx[j] /\ c2s'[j] = c2s[j]
        /\ UNCHANGED <<main, avail, parts>> /\ wpc'[i] # "off"
    BY <1>3, OthersUntouched, ThreadRuns
  <2>2. \A j \in Host \ {i} : Current(j)' = Current(j)
    BY <2>1 DEF Current
  <2>3. wpc'[i] = "recv" => PutRequest(i) \/ GetRequest(i) \/ SimpleRequest(i)
    BY <1>3 DEF Thread, PutReply, PutData, GetReply, GetData, OpenLocalPiece, Refuse,
                SimpleReply, NextPiece, Goto
  <2>4. \A j \in Host : wpc'[j] = "recv" =>
            \A m \in Packets(c2s'[j]) : m.kind \in {"put", "get"} => m.arg[1] = Current(j)'
    <3>1. wpc'[i] = "recv" =>
              \A m \in Packets(c2s'[i]) : m.kind \in {"put", "get"} => m.arg[1] = Current(i)'
      BY <2>3, AskingSender
    <3>2. \A j \in Host \ {i} : wpc'[j] = "recv" =>
              \A m \in Packets(c2s'[j]) : m.kind \in {"put", "get"} => m.arg[1] = Current(j)'
      BY <2>1, <2>2 DEF Asking
    <3>3. QED
      BY <3>1, <3>2
  <2>5. main' = "join" => \A j \in Host : avail'[j] => wpc'[j] # "off"
    BY <2>1 DEF Asking
  <2>6. QED
    BY <2>4, <2>5 DEF Asking
<1>4. ASSUME NEW i \in Host, Server(i)
      PROVE  Asking'
  <2>1. /\ UNCHANGED <<main, avail, parts, wpc, widx>>
        /\ Packets(c2s'[i]) \subseteq Packets(c2s[i])
        /\ \A j \in Host \ {i} : c2s'[j] = c2s[j]
    BY <1>4, ServerTakes, OthersUntouched
  <2>2. \A j \in Host : Current(j)' = Current(j)
    BY <2>1 DEF Current
  <2>3. QED
    BY <2>1, <2>2 DEF Asking
<1>5. ASSUME NEW i \in Host, Crash(i) \/ ServerSigpipe(i)
      PROVE  Asking'
  <2>1. /\ UNCHANGED <<main, avail, parts, wpc, widx>> /\ c2s'[i] = <<>>
        /\ \A j \in Host \ {i} : c2s'[j] = c2s[j]
    BY <1>5 DEF Crash, ServerSigpipe, ServerDies, thrVars
  <2>2. \A j \in Host : Current(j)' = Current(j)
    BY <2>1 DEF Current
  <2>3. QED
    BY <2>1, <2>2, PacketsShort DEF Asking
<1>6. CASE (\E i \in Host : Restart(i)) \/ UNCHANGED vars
  <2>1. UNCHANGED <<main, avail, parts, wpc, widx, c2s>>
    BY <1>6 DEF Restart, vars, netVars, thrVars
  <2>2. QED
    BY <2>1 DEF Asking, Current
<1>7. CASE ClientDies
  BY <1>7 DEF ClientDies, NoThread, Asking
<1>8. CASE Relaunch
  BY <1>8 DEF Relaunch, thrVars, Asking, SessionInv, Accounted, NoThread
<1>9. QED
  BY <1>1, <1>2, <1>3, <1>4, <1>5, <1>6, <1>7, <1>8 DEF Next, Sigpipe, Interrupt
-----------------------------------------------------------------------------
(* Holding, step by step, without the variables.                           *)

LEMMA HoldingMore ==
    ASSUME NEW s, NEW hp, NEW q, NEW r, NEW c, NEW p, NEW v,
           q # <<>> => r # <<>> /\ Head(r) = Head(q), Holding(s, hp, q, c, p, v)
    PROVE  Holding(s, hp, r, c, p, v)
BY DEF Holding

\* A handler that waits has what it holds; one that stores has the other piece.
LEMMA HoldingIdle ==
    ASSUME NEW s, NEW hp, NEW q, NEW c, NEW p, NEW v
    PROVE  /\ s # "store" \/ hp # p => (Holding(s, hp, q, c, p, v) <=> c = Piece(p, v))
           /\ s = "store" /\ hp = p /\ Holding(s, hp, q, c, p, v) => q # <<>>
BY DEF Holding

LEMMA HoldingStored ==
    ASSUME NEW hp, NEW q, NEW c, NEW p, NEW v, Holding("store", hp, q, c, p, v),
           Head(q) # Eof => Tail(q) # <<>> /\ Head(Tail(q)) = Eof
    PROVE  /\ Head(q) = Eof => \A r, x : Holding("wait", x, r, c, p, v)
           /\ Head(q) # Eof =>
                  Holding("store", hp, Tail(q), IF hp = p THEN Written(Head(q)) ELSE c, p, v)
<1>1. Data(Piece(p, v)) # Eof /\ Written(Data(Piece(p, v))) = Piece(p, v)
  BY PacketFacts, DataInjective
<1>2. QED
  BY <1>1 DEF Holding

\* After the data of a piece its end is always next.
LEMMA DataThenEof ==
    ASSUME SessionInv, NEW i \in Host, hpc[i] = "store", c2s[i] # <<>>,
           Head(c2s[i]) # Eof
    PROVE  Tail(c2s[i]) # <<>> /\ Head(Tail(c2s[i])) = Eof
<1>1. Rest(c2s[i]) \/ \E k : RestThenAsks(c2s[i], k)
  BY ShapeOf, SessionTypes DEF Live, Broken, Deserted
<1>2. CASE Rest(c2s[i])
  <2>1. PICK c \in Content : c2s[i] = <<Data(c), Eof>>
    BY <1>2, QueueFacts DEF Rest
  <2>2. Tail(c2s[i]) = <<Eof>>
    BY <2>1, QueueFacts
  <2>3. <<Eof>> # <<>> /\ Head(<<Eof>>) = Eof
    OBVIOUS
  <2>4. QED
    BY <2>2, <2>3
<1>3. ASSUME NEW k, RestThenAsks(c2s[i], k)
      PROVE  Tail(c2s[i]) # <<>> /\ Head(Tail(c2s[i])) = Eof
  <2>1. PICK r \in Packet, c \in Content : c2s[i] = <<Data(c), Eof, r>>
    BY <1>3, QueueFacts DEF RestThenAsks
  <2>2. Tail(c2s[i]) = <<Eof, r>>
    BY <2>1, QueueFacts
  <2>3. <<Eof, r>> # <<>> /\ Head(<<Eof, r>>) = Eof
    OBVIOUS
  <2>4. QED
    BY <2>2, <2>3
<1>4. QED
  BY <1>1, <1>2, <1>3

\* What a host holds survives every packet its handler reads from the file.
LEMMA HoldsStore ==
    ASSUME SessionInv, NEW i \in Host, ServerStore(i), NEW p \in Part, NEW v,
           Holding(hpc[i], hpart[i], c2s[i], store[i][p], p, v)
    PROVE  Holding(hpc'[i], hpart'[i], c2s'[i], store'[i][p], p, v)
<1> USE SessionTypes
<1>1. hpc[i] = "store" /\ c2s[i] # <<>> /\ c2s'[i] = Tail(c2s[i])
  BY DEF ServerStore
<1>2. Head(c2s[i]) # Eof => Tail(c2s[i]) # <<>> /\ Head(Tail(c2s[i])) = Eof
  BY <1>1, DataThenEof
<1>3. CASE Head(c2s[i]) = Eof
  <2>1. hpc'[i] = "wait" /\ store'[i][p] = store[i][p]
    BY <1>3 DEF ServerStore
  <2>2. QED
    BY <1>1, <1>2, <1>3, <2>1, HoldingStored
<1>4. CASE Head(c2s[i]) # Eof
  <2>1. /\ hpc'[i] = "store" /\ hpart'[i] = hpart[i]
        /\ store'[i][p] = IF hpart[i] = p THEN Written(Head(c2s[i])) ELSE store[i][p]
    BY <1>1, <1>4 DEF ServerStore
  <2>2. QED
    BY <1>1, <1>2, <1>4, <2>1, HoldingStored
<1>5. QED
  BY <1>3, <1>4

LEMMA HoldsHangup ==
    ASSUME SessionInv, NEW i \in Host, ServerHangup(i), NEW p \in Part, NEW v,
           Holding(hpc[i], hpart[i], c2s[i], store[i][p], p, v)
    PROVE  Holding(hpc'[i], hpart'[i], c2s'[i], store'[i][p], p, v)
<1>1. hpc[i] = "store" /\ c2s[i] = <<>> /\ hpc'[i] = "wait" /\ store' = store
  BY SessionTypes DEF ServerHangup
<1>2. QED
  BY <1>1, HoldingIdle
-----------------------------------------------------------------------------
(* The promise.                                                            *)

LEMMA StoredParts ==
    ASSUME NEW i \in Host
    PROVE  Stored(i, HashValue) \subseteq Part
BY HostPart, FetchedSets, PiecesOfAHost, PlanCovers DEF Stored, PutParts, Named

\* The handler of a server, while the promise holds.
LEMMA SettledServer ==
    ASSUME SessionInv, Settled, goal # 0, NEW i \in Host, Server(i)
    PROVE  /\ dir'[i]
           /\ \A p \in Stored(i, HashValue) :
                  Holding(hpc'[i], hpart'[i], c2s'[i], store'[i][p], p, goal)
<1> USE SessionTypes
<1>1. /\ dir[i] /\ \A m \in Packets(c2s[i]) : m.kind # "put"
      /\ \A p \in Stored(i, HashValue) :
             Holding(hpc[i], hpart[i], c2s[i], store[i][p], p, goal)
  BY DEF Settled, Holds
<1>2. CASE ServerRequest(i)
  <2>1. hpc[i] = "wait" /\ c2s[i] # <<>> /\ c2s[i] \in Seq(Packet)
    BY <1>2 DEF ServerRequest
  <2>2. ~ AcceptPut(i)
    BY <1>1, <2>1, PacketsTaken DEF AcceptPut, CanStore, Asked
  <2>3. dir'[i] /\ hpc' = hpc /\ store' = store
    BY <1>1, <1>2, <2>2 DEF ServerRequest, SendPiece, MakeDir, ListDir, RefuseRequest
  <2>4. QED
    BY <1>1, <2>1, <2>3 DEF Holding
<1>3. CASE ServerStore(i)
  <2>1. dir' = dir
    BY <1>3 DEF ServerStore
  <2>2. QED
    BY <1>1, <1>3, <2>1, StoredParts, HoldsStore
<1>4. CASE ServerHangup(i)
  <2>1. dir' = dir
    BY <1>4 DEF ServerHangup
  <2>2. QED
    BY <1>1, <1>4, <2>1, StoredParts, HoldsHangup
<1>5. QED
  BY <1>2, <1>3, <1>4 DEF Server

LEMMA SettledStep ==
    ASSUME SessionInv, Uploading, Asking, Settled, [Next]_vars
    PROVE  Settled'
<1> USE SessionTypes
<1> DEFINE Kept(i) ==
        /\ dir'[i]
        /\ \A p \in Stored(i, HashValue) :
               Holding(hpc'[i], hpart'[i], c2s'[i], store'[i][p], p, goal)
        /\ \A m \in Packets(c2s'[i]) : m.kind # "put"
<1>1. ASSUME goal # 0 => goal' \in {0, goal} /\ cmd' # "put" /\ \A i \in Host : Kept(i),
             goal = 0 => goal' = 0
      PROVE  Settled'
  BY <1>1 DEF Settled, Holds
<1>2. ASSUME goal # 0 => goal' \in {0, goal} /\ cmd' # "put",
             goal = 0 => goal' = 0,
             UNCHANGED <<dir, hpc, hpart, store, c2s>>
      PROVE  Settled'
  <2>1. goal # 0 => \A i \in Host : Kept(i)
    BY <1>2 DEF Settled, Holds
  <2> HIDE DEF Kept
  <2>2. QED
    BY <1>1, <1>2, <2>1
<1> HIDE DEF Kept
<1>3. ASSUME NEW k \in Commands, Command(k)
      PROVE  Settled'
  <2>1. CASE k = "put"
    BY <1>3, <2>1 DEF Command, Settled
  <2>2. CASE k # "put"
    BY <1>2, <1>3, <2>2 DEF Command, netVars, srvVars
  <2>3. QED
    BY <2>1, <2>2
<1>4. CASE JoinRetry \/ JoinAbort \/ JoinMerge \/ JoinList
  BY <1>2, <1>4 DEF JoinRetry, JoinAbort, JoinMerge, JoinList, BackToPrompt,
                    netVars, srvVars, Settled
\* A PUT makes the promise: all its threads are through all their pieces.
<1>5. CASE JoinOther
  <2>1. cmd' = "none" /\ UNCHANGED <<dir, hpc, hpart, store, c2s>> /\ main = "join"
    BY <1>5 DEF JoinOther, Joined, BackToPrompt, netVars, srvVars
  <2>2. CASE goal' = goal
    BY <1>2, <2>1, <2>2
  <2>3. CASE goal' # goal
    <3>1. /\ cmd = "put" /\ goal' = ncmds + 1
          /\ \A i \in Host : avail[i] /\ conn[i] = "open" /\ dir[i] /\ i \in Accepts
      BY <1>5, <2>3 DEF JoinOther
    <3>2. \A i \in Host : wpc[i] = "done"
      BY <1>5, <3>1 DEF JoinOther, Joined, Asking
    <3>3. \A i \in Host : \A p \in Stored(i, HashValue) : Holds(i, p, ncmds + 1)
      <4> SUFFICES ASSUME NEW i \in Host, NEW p \in Stored(i, HashValue)
                   PROVE  Holds(i, p, ncmds + 1)
        OBVIOUS
      <4>1. Finished(i) = Stored(i, HashValue)
        BY <2>1, <3>1, <3>2, ThreadPieces DEF Finished
      <4>2. wpc[i] = "done" /\ conn[i] = "open" /\ dir[i] /\ i \in Accepts
        BY <3>1, <3>2
      <4>3. \A q \in Finished(i) : Holds(i, q, ncmds + 1)
        BY <2>1, <3>1, <4>2 DEF Uploading
      <4>4. QED
        BY <4>1, <4>3
    <3>4. \A i \in Host : \A m \in Packets(c2s[i]) : m.kind # "put"
      BY <3>1, <3>2, NothingAsked
    <3>5. QED
      BY <2>1, <3>1, <3>3, <3>4 DEF Settled, Holds
  <2>4. QED
    BY <2>2, <2>3
<1>6. ASSUME NEW i \in Host, Thread(i)
      PROVE  Settled'
  <2>1. UNCHANGED <<cmd, goal, dir, hpc, hpart, store>>
        /\ \A j \in Host \ {i} : c2s'[j] = c2s[j]
    BY <1>6, OthersUntouched, ThreadRuns
  <2>2. ASSUME goal # 0
        PROVE  /\ \A m \in Packets(c2s'[i]) : m.kind # "put"
               /\ c2s[i] # <<>> => c2s'[i] # <<>> /\ Head(c2s'[i]) = Head(c2s[i])
    <3>1. cmd # "put" /\ \A m \in Packets(c2s[i]) : m.kind # "put"
      BY <2>2 DEF Settled
    <3>2. CASE c2s' = c2s
      BY <3>1, <3>2
    <3>3. CASE c2s' # c2s
      <4>1. PICK k \in {"get", "ls", "mkdir"}, p \in Part \cup {NoPart} :
                Request(k, p) \in Packet /\ Sent(i, <<Request(k, p)>>)
        <5>1. GetRequest(i) \/ SimpleRequest(i)
          BY <1>6, <3>1, <3>3 DEF Thread, PutRequest, PutReply, PutData, GetReply, GetData,
                                  SimpleReply, At
        <5>2. CASE GetRequest(i)
          <6>1. Current(i) \in Part
            BY <5>2, CurrentType DEF GetRequest, SessionInv, Commands
          <6>2. QED
            BY <3>3, <5>2, <6>1, PacketType DEF GetRequest, SendFailed
        <5>3. CASE SimpleRequest(i)
          BY <3>3, <5>3, PacketType DEF SimpleRequest, SendFailed
        <5>4. QED
          BY <5>1, <5>2, <5>3
      <4> DEFINE req == Request(k, p)
      <4>2. req.kind = k /\ <<req>> \in Seq(Packet)
        BY <4>1, PacketFacts
      <4> HIDE DEF req
      <4>3. Packets(<<req>>) = {req}
        BY PacketsShort
      <4>4. Sent(i, <<req>>)
        BY <4>1 DEF req
      <4>5. QED
        BY <3>1, <4>2, <4>3, <4>4, SentPackets
    <3>4. QED
      BY <3>2, <3>3
  <2>3. ASSUME goal # 0, NEW j \in Host PROVE Kept(j)
    <3>1. c2s[j] # <<>> => c2s'[j] # <<>> /\ Head(c2s'[j]) = Head(c2s[j])
      BY <2>1, <2>2, <2>3
    <3>2. \A m \in Packets(c2s'[j]) : m.kind # "put"
      BY <2>1, <2>2, <2>3 DEF Settled
    <3>3. \A p \in Stored(j, HashValue) :
              Holding(hpc[j], hpart[j], c2s'[j], store[j][p], p, goal)
      BY <2>3, <3>1, HoldingMore DEF Settled, Holds
    <3>4. QED
      BY <2>1, <2>3, <3>2, <3>3 DEF Kept, Settled
  <2>4. QED
    BY <1>1, <2>1, <2>3 DEF Settled
<1>7. ASSUME NEW i \in Host, Server(i)
      PROVE  Settled'
  <2>1. /\ UNCHANGED <<cmd, goal>> /\ Packets(c2s'[i]) \subseteq Packets(c2s[i])
        /\ \A j \in Host \ {i} :
               /\ c2s'[j] = c2s[j] /\ dir'[j] = dir[j] /\ hpc'[j] = hpc[j]
               /\ hpart'[j] = hpart[j] /\ store'[j] = store[j]
    BY <1>7, ServerTakes, OthersUntouched
  <2>2. ASSUME goal # 0 PROVE Kept(i)
    BY <1>7, <2>1, <2>2, SettledServer DEF Kept, Settled
  <2>3. ASSUME goal # 0, NEW j \in Host \ {i} PROVE Kept(j)
    BY <2>1, <2>3 DEF Kept, Settled, Holds
  <2>4. QED
    BY <1>1, <2>1, <2>2, <2>3 DEF Settled
\* A server that dies while it stores takes the promise back.
<1>8. ASSUME NEW i \in Host, Crash(i) \/ ServerSigpipe(i)
      PROVE  Settled'
  <2>1. /\ UNCHANGED <<cmd, dir>> /\ c2s' = [c2s EXCEPT ![i] = <<>>]
        /\ hpc' = [hpc EXCEPT ![i] = "wait"] /\ hpart' = [hpart EXCEPT ![i] = NoPart]
        /\ IF hpc[i] = "store" THEN goal' = 0 ELSE UNCHANGED <<store, goal>>
    BY <1>8 DEF Crash, ServerSigpipe, ServerDies
  <2>2. CASE hpc[i] = "store"
    BY <2>1, <2>2 DEF Settled
  <2>3. CASE hpc[i] # "store"
    <3>1. ASSUME goal # 0, NEW j \in Host PROVE Kept(j)
      <4>1. CASE j = i
        <5>1. dir'[i] /\ hpc'[i] = "wait" /\ Packets(c2s'[i]) = {} /\ hpc[i] = "wait"
          BY <2>1, <2>3, <3>1, PacketsShort DEF Settled
        <5>2. \A p \in Stored(i, HashValue) : store'[i][p] = Piece(p, goal)
          BY <2>1, <2>3, <3>1, <5>1 DEF Settled, Holds, Holding
        <5>3. QED
          BY <4>1, <5>1, <5>2 DEF Kept, Holding
      <4>2. CASE j # i
        BY <2>1, <2>3, <3>1, <4>2 DEF Kept, Settled, Holds
      <4>3. QED
        BY <4>1, <4>2
    <3>2. QED
      BY <1>1, <2>1, <2>3, <3>1 DEF Settled
  <2>4. QED
    BY <2>2, <2>3
<1>9. ASSUME NEW i \in Host, Restart(i)
      PROVE  Settled'
  BY <1>2, <1>9 DEF Restart, netVars, Settled
<1>10. CASE ClientDies
  BY <1>2, <1>10 DEF ClientDies, srvVars, Settled
<1>11. CASE Relaunch
  BY <1>2, <1>11 DEF Relaunch, srvVars, Settled
<1>12. CASE UNCHANGED vars
  BY <1>2, <1>12 DEF vars, srvVars, netVars, Settled
<1>13. QED
  BY <1>3, <1>4, <1>5, <1>6, <1>7, <1>8, <1>9, <1>10, <1>11, <1>12
     DEF Next, Join, Sigpipe, Interrupt
-----------------------------------------------------------------------------
(* What a PUT leaves behind it.                                            *)

\* The clause of Uploading for host i, after a step.
UploadedNext(i) ==
    wpc'[i] # "off" /\ conn'[i] = "open" /\ dir'[i] /\ i \in Accepts =>
        /\ \A p \in Finished(i)' :
               Holding(hpc'[i], hpart'[i], c2s'[i], store'[i][p], p, ncmds' + 1)
        /\ s2c'[i] # <<Reply(1)>>
        /\ wpc'[i] = "data" \/ s2c'[i] # <<>> => hpart'[i] = Current(i)'

LEMMA UploadRequest ==
    ASSUME SessionInv, Uploading, NEW i \in Host, PutRequest(i)
    PROVE  UploadedNext(i)
<1> USE SessionTypes
<1>1. /\ main = "join" /\ cmd = "put" /\ wpc[i] = "send" /\ wpc'[i] = "recv"
      /\ UNCHANGED <<parts, widx, dir, hpc, hpart, store, ncmds, s2c>>
  BY DEF PutRequest, At, Goto, ThreadFrame, srvVars, boundVars
<1>2. Finished(i)' = Finished(i) /\ Current(i)' = Current(i)
  BY <1>1 DEF Finished, Current
<1>3. s2c[i] = <<>>
  BY <1>1, ShapeOf
<1>4. ASSUME conn'[i] = "open", dir[i], i \in Accepts
      PROVE  \A p \in Finished(i) :
                 Holding(hpc[i], hpart[i], c2s'[i], store[i][p], p, ncmds + 1)
  <2> DEFINE req == Request("put", Current(i))
  <2>1. <<req>> \in Seq(Packet)
    BY CurrentType, PacketType DEF PutRequest, SessionInv, Commands
  <2>2. Sent(i, <<req>>) \/ SendFailed(i)
    BY DEF PutRequest
  <2> HIDE DEF req
  <2>3. conn[i] = "open" /\ (c2s[i] # <<>> => c2s'[i] # <<>> /\ Head(c2s'[i]) = Head(c2s[i]))
    BY <1>4, <2>1, <2>2, SentPackets
  <2>4. \A p \in Finished(i) : Holding(hpc[i], hpart[i], c2s[i], store[i][p], p, ncmds + 1)
    BY <1>1, <1>4, <2>3 DEF Uploading, Holds
  <2>5. QED
    BY <2>3, <2>4, HoldingMore
<1>5. QED
  BY <1>1, <1>2, <1>3, <1>4 DEF UploadedNext

LEMMA UploadReply ==
    ASSUME SessionInv, Uploading, NEW i \in Host, PutReply(i)
    PROVE  UploadedNext(i)
<1> USE SessionTypes
<1>1. /\ main = "join" /\ cmd = "put" /\ wpc[i] = "recv"
      /\ UNCHANGED <<parts, dir, hpc, hpart, store, ncmds, c2s>>
  BY DEF PutReply, At, ThreadFrame, srvVars, boundVars
<1>2. SUFFICES ASSUME conn'[i] = "open", dir[i], i \in Accepts
               PROVE  UploadedNext(i)
  BY <1>1 DEF UploadedNext
<1>3. Received(i) /\ conn[i] = "open" /\ s2c[i] # <<>> /\ s2c'[i] = Tail(s2c[i])
  BY <1>2 DEF PutReply, EndOfStream, RecvFailed, ConnectionError, Received
<1>4. /\ \A p \in Finished(i) : Holding(hpc[i], hpart[i], c2s[i], store[i][p], p, ncmds + 1)
      /\ s2c[i] # <<Reply(1)>> /\ hpart[i] = Current(i)
  BY <1>1, <1>2, <1>3 DEF Uploading, Holds
<1>5. s2c[i] = <<Reply(0)>>
  BY <1>1, <1>3, <1>4, ShapeOf DEF Live
<1>6. Head(s2c[i]) = Reply(0) /\ Tail(s2c[i]) = <<>>
  BY <1>5, QueueFacts
<1>7. wpc'[i] = "data" /\ widx' = widx
  BY <1>3, <1>6, PacketFacts DEF PutReply, Incoming, Goto, EndOfStream, RecvFailed
<1>8. Finished(i)' = Finished(i) /\ Current(i)' = Current(i)
  BY <1>1, <1>7 DEF Finished, Current
<1>9. <<>> # <<Reply(1)>>
  OBVIOUS
<1>10. QED
  BY <1>1, <1>3, <1>4, <1>6, <1>8, <1>9 DEF UploadedNext

LEMMA UploadData ==
    ASSUME SessionInv, Uploading, NEW i \in Host, PutData(i)
    PROVE  UploadedNext(i)
<1> USE SessionTypes
<1>1. /\ main = "join" /\ cmd = "put" /\ wpc[i] = "data" /\ NextPiece(i)
      /\ UNCHANGED <<parts, dir, hpc, hpart, store, ncmds, s2c>>
  BY DEF PutData, At, ThreadFrame, srvVars, boundVars
<1>2. SUFFICES ASSUME conn'[i] = "open", dir[i], i \in Accepts
               PROVE  UploadedNext(i)
  BY <1>1 DEF UploadedNext
<1>3. Slice(i) = Piece(Current(i), ncmds + 1) /\ Slice(i) \in Content
  BY SliceType DEF PutData, SessionInv
<1> DEFINE data == Data(Slice(i))
<1>4. <<data, Eof>> \in Seq(Packet)
  BY <1>3, PacketType
<1>5. Sent(i, <<data, Eof>>) \/ SendFailed(i)
  BY DEF PutData
<1>6. conn[i] = "open" /\ c2s'[i] = c2s[i] \o <<data, Eof>>
  <2> HIDE DEF data
  <2> QED BY <1>2, <1>4, <1>5, SentPackets
<1>7. /\ \A p \in Finished(i) : Holding(hpc[i], hpart[i], c2s[i], store[i][p], p, ncmds + 1)
      /\ hpart[i] = Current(i)
  BY <1>1, <1>2, <1>6 DEF Uploading, Holds
<1>8. hpc[i] = "store" /\ c2s[i] = <<>> /\ s2c[i] = <<>>
  BY <1>1, <1>6, ShapeOf DEF Live
<1>9. c2s'[i] # <<>> /\ Head(c2s'[i]) = Data(Piece(Current(i), ncmds + 1))
  <2>1. c2s'[i] = <<data, Eof>>
    <3> HIDE DEF data
    <3> QED BY <1>6, <1>8, QueueConcat
  <2>2. <<data, Eof>> # <<>> /\ Head(<<data, Eof>>) = data
    OBVIOUS
  <2>3. QED
    BY <1>3, <2>1, <2>2
<1>10. wpc'[i] \in {"send", "done"}
       /\ \A p \in Finished(i)' : p = Current(i) \/ p \in Finished(i)
  BY <1>1 DEF NextPiece, Goto, Finished, Current, Named
<1>11. \A p \in Finished(i)' :
           Holding(hpc[i], hpart[i], c2s'[i], store[i][p], p, ncmds + 1)
  <2> SUFFICES ASSUME NEW p \in Finished(i)'
               PROVE  Holding(hpc[i], hpart[i], c2s'[i], store[i][p], p, ncmds + 1)
    OBVIOUS
  <2>1. CASE p = Current(i)
    BY <1>7, <1>8, <1>9, <2>1 DEF Holding
  <2>2. CASE p # Current(i)
    BY <1>7, <1>10, <2>2 DEF Holding
  <2>3. QED
    BY <2>1, <2>2
<1>12. <<>> # <<Reply(1)>>
  OBVIOUS
<1>13. QED
  BY <1>1, <1>8, <1>10, <1>11, <1>12 DEF UploadedNext

LEMMA UploadServer ==
    ASSUME SessionInv, Asking, Uploading, NEW i \in Host, Server(i),
           main = "join", cmd = "put"
    PROVE  UploadedNext(i)
<1> USE SessionTypes
<1>1. UNCHANGED <<wpc, widx, parts, conn, ncmds>>
  BY ServerTakes
<1>2. Finished(i)' = Finished(i) /\ Current(i)' = Current(i)
  BY <1>1 DEF Finished, Current
<1>3. SUFFICES ASSUME wpc[i] # "off", conn[i] = "open", dir'[i], i \in Accepts
               PROVE  UploadedNext(i)
  BY <1>1 DEF UploadedNext
<1>4. Live("put", wpc[i], s2c[i], c2s[i], hpc[i])
  BY <1>3, ShapeOf
<1>5. CASE ServerRequest(i)
  <2>1. hpc[i] = "wait" /\ c2s[i] # <<>> /\ c2s[i] \in Seq(Packet)
        /\ c2s'[i] = Tail(c2s[i])
    BY <1>5 DEF ServerRequest
  <2>2. wpc[i] = "recv" /\ s2c[i] = <<>> /\ Asks(c2s[i], "put")
    BY <1>4, <2>1 DEF Live
  <2>3. Head(c2s[i]).kind = "put"
    BY <2>2, QueueFacts DEF Asks
  <2>4. AskedPart(i) = Current(i)
    BY <2>1, <2>2, <2>3, PacketsTaken DEF Asking, AskedPart
  <2>5. dir[i] /\ AcceptPut(i)
    BY <1>3, <1>5, <2>3 DEF ServerRequest, SendPiece, MakeDir, ListDir, RefuseRequest,
                            AcceptPut, CanStore, CanFetch, Asked
  <2>6. \A p \in Finished(i) : p # Current(i) /\ store[i][p] = Piece(p, ncmds + 1)
    BY <1>3, <2>1, <2>2, <2>5 DEF Uploading, Holds, Holding, Finished
  <2>7. /\ hpc'[i] = "store" /\ hpart'[i] = Current(i)
        /\ \A p \in Finished(i) : store'[i][p] = store[i][p]
    BY <2>4, <2>5, <2>6 DEF AcceptPut
  <2>8. s2c'[i] = <<>> \o <<Reply(0)>>
    BY <1>3, <2>2, <2>5 DEF AcceptPut, Answered, ClientGone
  <2>9. s2c'[i] # <<Reply(1)>>
    <3>1. s2c'[i] = <<Reply(0)>>
      BY <2>8, QueueConcat
    <3>2. Head(<<Reply(0)>>) = Reply(0) /\ Head(<<Reply(1)>>) = Reply(1)
      BY QueueFacts
    <3>3. QED
      BY <3>1, <3>2, PacketFacts
  <2>10. \A p \in Finished(i) :
             Holding(hpc'[i], hpart'[i], c2s'[i], store'[i][p], p, ncmds + 1)
    BY <2>6, <2>7 DEF Holding
  <2>11. QED
    BY <1>1, <1>2, <2>7, <2>9, <2>10 DEF UploadedNext
<1>6. CASE ServerStore(i) \/ ServerHangup(i)
  <2>1. ServerStore(i) /\ dir' = dir /\ s2c' = s2c /\ c2s[i] # <<>> /\ hpc[i] = "store"
    BY <1>3, <1>6 DEF ServerStore, ServerHangup, ClientGone
  <2>2. wpc[i] # "data" /\ s2c[i] = <<>>
    BY <1>4, <2>1 DEF Live
  <2>3. \A p \in Finished(i) : p \in Part /\
            Holding(hpc[i], hpart[i], c2s[i], store[i][p], p, ncmds + 1)
    BY <1>3, <2>1, ThreadPieces, StoredParts DEF Uploading, Holds
  <2>4. \A p \in Finished(i) :
            Holding(hpc'[i], hpart'[i], c2s'[i], store'[i][p], p, ncmds + 1)
    BY <2>1, <2>3, HoldsStore
  <2>5. <<>> # <<Reply(1)>>
    OBVIOUS
  <2>6. QED
    BY <1>1, <1>2, <2>1, <2>2, <2>4, <2>5 DEF UploadedNext
<1>7. QED
  BY <1>5, <1>6 DEF Server

LEMMA UploadingStep ==
    ASSUME SessionInv, Asking, Uploading, [Next]_vars
    PROVE  Uploading'
<1> USE SessionTypes
<1>1. ASSUME main' = "join" /\ cmd' = "put" => \A i \in Host : UploadedNext(i)
      PROVE  Uploading'
  BY <1>1 DEF Uploading, UploadedNext, Holds
\* A host of which nothing changes.
<1>2. ASSUME NEW i \in Host, main = "join", cmd = "put",
             conn'[i] = "open" => conn[i] = "open" /\ s2c'[i] = s2c[i] /\ c2s'[i] = c2s[i]
                 /\ hpc'[i] = hpc[i] /\ hpart'[i] = hpart[i] /\ store'[i] = store[i],
             dir'[i] = dir[i], wpc'[i] = wpc[i], widx'[i] = widx[i],
             parts' = parts, ncmds' = ncmds
      PROVE  UploadedNext(i)
  <2>1. Finished(i)' = Finished(i) /\ Current(i)' = Current(i)
    BY <1>2 DEF Finished, Current
  <2>2. QED
    BY <1>2, <2>1 DEF Uploading, UploadedNext, Holds
<1>3. ASSUME NEW k \in Commands, Command(k), cmd' = "put", NEW i \in Host
      PROVE  UploadedNext(i)
  <2>1. k = "put" /\ Spawn("put", avail) /\ UNCHANGED <<conn, s2c>> /\ wpc[i] = "off"
    BY <1>3 DEF Command, netVars, SessionInv, Accounted, NoThread
  <2>2. wpc'[i] # "off" => /\ wpc'[i] = "send" /\ widx'[i] = 1 /\ avail[i]
    <3>1. PlanFor("put", avail, i)[1] \in Part
      BY PlanType DEF Commands
    <3>2. QED
      BY <2>1, <3>1, HostPart DEF Spawn
  <2>3. s2c[i] = <<>> /\ (wpc'[i] # "off" => Finished(i)' = {})
    BY <2>1, <2>2, ShapeOf DEF Finished
  <2>4. <<>> # <<Reply(1)>>
    OBVIOUS
  <2>5. QED
    BY <2>1, <2>2, <2>3, <2>4 DEF UploadedNext
<1>4. ASSUME Join, main' = "join"
      PROVE  cmd' # "put"
  BY <1>4 DEF Join, JoinRetry, JoinAbort, JoinMerge, JoinList, JoinOther, BackToPrompt
<1>5. ASSUME NEW i \in Host, Thread(i), cmd = "put", NEW j \in Host
      PROVE  UploadedNext(j)
  <2>1. PutRequest(i) \/ PutReply(i) \/ PutData(i)
    BY <1>5 DEF Thread, GetRequest, GetReply, GetData, SimpleRequest, SimpleReply, At
  <2>2. CASE j = i
    BY <2>1, <2>2, UploadRequest, UploadReply, UploadData
  <2>3. CASE j # i
    <3>1. /\ conn'[j] = conn[j] /\ s2c'[j] = s2c[j] /\ c2s'[j] = c2s[j]
          /\ hpc'[j] = hpc[j] /\ hpart'[j] = hpart[j] /\ store'[j] = store[j]
          /\ dir'[j] = dir[j] /\ wpc'[j] = wpc[j] /\ widx'[j] = widx[j]
          /\ UNCHANGED <<parts, ncmds>>
      BY <1>5, <2>3, OthersUntouched
    <3>2. main = "join"
      BY <1>5, ThreadRuns
    <3>3. QED
      BY <1>2, <1>5, <3>1, <3>2
  <2>4. QED
    BY <2>2, <2>3
<1>6. ASSUME NEW i \in Host, Server(i), main = "join", cmd = "put", NEW j \in Host
      PROVE  UploadedNext(j)
  <2>1. CASE j = i
    BY <1>6, <2>1, UploadServer
  <2>2. CASE j # i
    <3>1. /\ conn'[j] = conn[j] /\ s2c'[j] = s2c[j] /\ c2s'[j] = c2s[j]
          /\ hpc'[j] = hpc[j] /\ hpart'[j] = hpart[j] /\ store'[j] = store[j]
          /\ dir'[j] = dir[j] /\ wpc'[j] = wpc[j] /\ widx'[j] = widx[j]
          /\ UNCHANGED <<parts, ncmds>>
      BY <1>6, <2>2, OthersUntouched
    <3>2. QED
      BY <1>2, <1>6, <3>1
  <2>3. QED
    BY <2>1, <2>2
<1>7. ASSUME NEW i \in Host, Crash(i) \/ ServerSigpipe(i), main = "join", cmd = "put",
             NEW j \in Host
      PROVE  UploadedNext(j)
  <2>1. UNCHANGED <<dir, wpc, widx, parts, ncmds>>
    BY <1>7 DEF Crash, ServerSigpipe, ServerDies, thrVars, boundVars
  <2>2. conn'[i] # "open"
    BY <1>7, SessionAssumption DEF Crash, ServerSigpipe, ClientGone
  <2>3. \A l \in Host \ {i} :
            /\ conn'[l] = conn[l] /\ s2c'[l] = s2c[l] /\ c2s'[l] = c2s[l]
            /\ hpc'[l] = hpc[l] /\ hpart'[l] = hpart[l] /\ store'[l] = store[l]
    BY <1>7 DEF Crash, ServerSigpipe, ServerDies
  <2>4. QED
    BY <1>2, <1>7, <2>1, <2>2, <2>3
<1>8. ASSUME (\E i \in Host : Restart(i)) \/ UNCHANGED vars, main = "join", cmd = "put",
             NEW j \in Host
      PROVE  UploadedNext(j)
  <2>1. UNCHANGED <<conn, s2c, c2s, hpc, hpart, store, dir, wpc, widx, parts, ncmds>>
    BY <1>8 DEF Restart, vars, srvVars, netVars, thrVars, boundVars
  <2>2. QED
    BY <1>2, <1>8, <2>1
<1>9. ClientDies \/ Relaunch => main' # "join"
  BY DEF ClientDies, Relaunch
<1>10. CASE \E k \in Commands : Command(k)
  BY <1>1, <1>3, <1>10
<1>11. CASE Join
  BY <1>1, <1>4, <1>11
<1>12. CASE \E i \in Host : Thread(i)
  <2>1. cmd' = cmd
    BY <1>12, OthersUntouched
  <2>2. QED
    BY <1>1, <1>5, <1>12, <2>1
<1>13. CASE \E i \in Host : Server(i)
  <2>1. cmd' = cmd /\ main' = main
    BY <1>13, OthersUntouched
  <2>2. QED
    BY <1>1, <1>6, <1>13, <2>1
<1>14. CASE \E i \in Host : Crash(i) \/ ServerSigpipe(i)
  <2>1. cmd' = cmd /\ main' = main
    BY <1>14 DEF Crash, ServerSigpipe, ServerDies
  <2>2. QED
    BY <1>1, <1>7, <1>14, <2>1
<1>15. CASE (\E i \in Host : Restart(i)) \/ UNCHANGED vars
  <2>1. cmd' = cmd /\ main' = main
    BY <1>15 DEF Restart, vars
  <2>2. QED
    BY <1>1, <1>8, <1>15, <2>1
<1>16. CASE ClientDies \/ Relaunch
  BY <1>1, <1>9, <1>16
<1>17. QED
  BY <1>10, <1>11, <1>12, <1>13, <1>14, <1>15, <1>16 DEF Next, Sigpipe, Interrupt
-----------------------------------------------------------------------------
(* What a GET is sent.                                                     *)

\* The next packet for a thread of a GET, and the one after it.
LEMMA GetStream ==
    ASSUME SessionInv, NEW i \in Host, cmd = "get", s2c[i] # <<>>
    PROVE  /\ wpc[i] \in {"recv", "data"}
           /\ wpc[i] = "recv" =>
                  /\ Head(s2c[i]) \in {Reply(0), Reply(1)}
                  /\ Tail(s2c[i]) # <<>> => Head(Tail(s2c[i])) # Eof
           /\ wpc[i] = "data" =>
                  /\ Head(s2c[i]) # Eof => Head(s2c[i]).kind = "data"
                  /\ Head(s2c[i]) = Eof => Tail(s2c[i]) = <<>>
<1>1. wpc[i] \in {"recv", "data"}
  BY ShapeOf, SessionTypes
<1>2. \/ Live("get", wpc[i], s2c[i], c2s[i], hpc[i])
      \/ Broken("get", wpc[i], s2c[i], c2s[i], hpc[i])
  BY <1>1, ShapeOf, SessionTypes DEF Deserted
<1>3. CASE wpc[i] = "recv"
  <2>1. ASSUME NEW e \in {0, 1}, s2c[i] = <<Reply(e)>>
        PROVE  Head(s2c[i]) = Reply(e) /\ Tail(s2c[i]) = <<>>
    BY <2>1, QueueFacts
  <2>2. ASSUME NEW c, s2c[i] = <<Reply(0), Data(c)>> \/ s2c[i] = <<Reply(0), Data(c), Eof>>
        PROVE  Head(s2c[i]) = Reply(0) /\ Head(Tail(s2c[i])) = Data(c)
    <3>1. CASE s2c[i] = <<Reply(0), Data(c)>>
      <4>1. Head(s2c[i]) = Reply(0) /\ Tail(s2c[i]) = <<Data(c)>>
        BY <3>1, QueueFacts
      <4>2. QED
        BY <4>1, QueueFacts
    <3>2. CASE s2c[i] = <<Reply(0), Data(c), Eof>>
      <4>1. Head(s2c[i]) = Reply(0) /\ Tail(s2c[i]) = <<Data(c), Eof>>
        BY <3>2, QueueFacts
      <4>2. Head(<<Data(c), Eof>>) = Data(c)
        OBVIOUS
      <4>3. QED
        BY <4>1, <4>2
    <3>3. QED
      BY <2>2, <3>1, <3>2
  <2>3. \/ \E e \in {0, 1} : s2c[i] = <<Reply(e)>>
        \/ \E c : s2c[i] = <<Reply(0), Data(c)>> \/ s2c[i] = <<Reply(0), Data(c), Eof>>
    BY <1>2, <1>3 DEF Live, Broken
  <2>4. QED
    BY <1>3, <2>1, <2>2, <2>3, PacketFacts
<1>4. CASE wpc[i] = "data"
  <2>1. Rest(s2c[i]) \/ \E c : s2c[i] = <<Data(c)>>
    BY <1>2, <1>4 DEF Live, Broken
  <2>2. ASSUME NEW c, s2c[i] = <<Data(c)>>
        PROVE  Head(s2c[i]) = Data(c)
    BY <2>2, QueueFacts
  <2>3. QED
    BY <1>4, <2>1, <2>2, RestStep, PacketFacts
<1>5. QED
  BY <1>1, <1>3, <1>4

\* The clause of Downloading for host i, after a step that keeps the promise.
DownloadedNext(i) ==
    wpc'[i] # "off" =>
        /\ ret'[i] = 0 => \A p \in Finished(i)' : lpart'[p] = Piece(p, goal)
        /\ \A m \in Packets(s2c'[i]) :
               m.kind = "data" => m = Data(Piece(Current(i)', goal))
        /\ wpc'[i] = "data" /\ s2c'[i] # <<>> /\ Head(s2c'[i]) = Eof
               => lpart'[Current(i)'] = Piece(Current(i)', goal)

LEMMA DownloadRequest ==
    ASSUME SessionInv, Downloading, goal # 0, NEW i \in Host, GetRequest(i)
    PROVE  DownloadedNext(i)
<1> USE SessionTypes
<1>1. /\ main = "join" /\ cmd = "get" /\ wpc[i] = "send" /\ s2c' = s2c
      /\ UNCHANGED <<parts, lpart, widx>>
  BY DEF GetRequest, At, Goto, ThreadFrame, diskVars
<1>2. s2c'[i] = <<>> /\ Packets(s2c'[i]) = {}
  BY <1>1, ShapeOf, PacketsShort
<1>3. CASE wpc'[i] = "recv" /\ ret' = ret
  <2>1. Finished(i)' = Finished(i) /\ Current(i)' = Current(i)
    BY <1>1, <1>3 DEF Finished, Current
  <2>2. QED
    BY <1>1, <1>2, <1>3, <2>1 DEF Downloading, DownloadedNext
<1>4. CASE wpc'[i] = "done" /\ ret'[i] = 1
  BY <1>2, <1>4 DEF DownloadedNext
<1>5. QED
  BY <1>3, <1>4 DEF GetRequest, Goto, Fail

LEMMA DownloadReply ==
    ASSUME SessionInv, Downloading, goal # 0, NEW i \in Host, GetReply(i)
    PROVE  DownloadedNext(i)
<1> USE SessionTypes
<1>1. main = "join" /\ cmd = "get" /\ wpc[i] = "recv" /\ UNCHANGED parts
  BY DEF GetReply, At, ThreadFrame
<1>2. CASE Received(i)
  <2>1. s2c[i] # <<>> /\ s2c'[i] = Tail(s2c[i]) /\ s2c[i] \in Seq(Packet)
    BY <1>2 DEF Received
  <2>2. Packets(s2c'[i]) \subseteq Packets(s2c[i])
        /\ (s2c'[i] # <<>> => Head(s2c'[i]) # Eof)
    BY <1>1, <2>1, PacketsTaken, GetStream
  <2>3. /\ ret[i] = 0 => \A p \in Finished(i) : lpart[p] = Piece(p, goal)
        /\ \A m \in Packets(s2c[i]) : m.kind = "data" => m = Data(Piece(Current(i), goal))
    BY <1>1 DEF Downloading
  <2>4. CASE OpenLocalPiece(i)
    <3>1. wpc'[i] = "data" /\ widx' = widx /\ ret' = ret
          /\ lpart' = [lpart EXCEPT ![Current(i)] = Torn]
      BY <2>4 DEF OpenLocalPiece, Goto
    <3>2. Finished(i)' = Finished(i) /\ Current(i)' = Current(i)
          /\ Current(i) \notin Finished(i)
      BY <1>1, <3>1 DEF Finished, Current
    <3>3. \A p \in Finished(i) : lpart'[p] = lpart[p]
      BY <3>1, <3>2
    <3>4. QED
      BY <2>2, <2>3, <3>1, <3>2, <3>3 DEF DownloadedNext
  <2>5. CASE Refuse(i)
    <3>1. wpc'[i] = "done" /\ ret'[i] = 2 /\ widx' = widx
      BY <2>5 DEF Refuse, Fail, Goto
    <3>2. Current(i)' = Current(i)
      BY <1>1, <3>1 DEF Current
    <3>3. QED
      BY <2>2, <2>3, <3>1, <3>2 DEF DownloadedNext
  <2>6. QED
    BY <1>2, <2>1, <2>4, <2>5 DEF GetReply, EndOfStream, RecvFailed
<1>3. CASE ~ Received(i)
  <2>1. s2c'[i] = <<>> /\ Packets(s2c'[i]) = {}
    BY <1>3, PacketsShort DEF GetReply, EndOfStream, RecvFailed
  <2>2. CASE OpenLocalPiece(i)
    <3>1. wpc'[i] = "data" /\ widx' = widx /\ ret' = ret
          /\ lpart' = [lpart EXCEPT ![Current(i)] = Torn]
      BY <2>2 DEF OpenLocalPiece, Goto
    <3>2. Finished(i)' = Finished(i) /\ Current(i) \notin Finished(i)
      BY <1>1, <3>1 DEF Finished, Current
    <3>3. ret[i] = 0 => \A p \in Finished(i) : lpart'[p] = Piece(p, goal)
      <4>1. ret[i] = 0 => \A p \in Finished(i) : lpart[p] = Piece(p, goal)
        BY <1>1 DEF Downloading
      <4>2. \A p \in Finished(i) : lpart'[p] = lpart[p]
        BY <3>1, <3>2
      <4>3. QED
        BY <4>1, <4>2
    <3>4. QED
      BY <2>1, <3>1, <3>2, <3>3 DEF DownloadedNext
  <2>3. CASE wpc'[i] = "done" /\ ret'[i] # 0
    BY <2>1, <2>3 DEF DownloadedNext
  <2>4. QED
    BY <1>3, <2>2, <2>3 DEF GetReply, Refuse, Fail, Goto
<1>4. QED
  BY <1>2, <1>3

LEMMA DownloadData ==
    ASSUME SessionInv, Downloading, goal # 0, NEW i \in Host, GetData(i)
    PROVE  DownloadedNext(i)
<1> USE SessionTypes
<1>1. main = "join" /\ cmd = "get" /\ wpc[i] = "data" /\ UNCHANGED parts
  BY DEF GetData, At, ThreadFrame
<1>2. /\ ret[i] = 0 => \A p \in Finished(i) : lpart[p] = Piece(p, goal)
      /\ \A m \in Packets(s2c[i]) : m.kind = "data" => m = Data(Piece(Current(i), goal))
      /\ s2c[i] # <<>> /\ Head(s2c[i]) = Eof => lpart[Current(i)] = Piece(Current(i), goal)
  BY <1>1 DEF Downloading
<1>3. CASE Received(i)
  <2>1. s2c[i] # <<>> /\ s2c'[i] = Tail(s2c[i]) /\ s2c[i] \in Seq(Packet)
    BY <1>3 DEF Received
  <2>2. CASE Head(s2c[i]) = Eof
    <3>1. s2c'[i] = <<>> /\ Packets(s2c'[i]) = {}
      BY <1>1, <2>1, <2>2, GetStream, PacketsShort
    <3>2. NextPiece(i) /\ lpart' = lpart /\ ret' = ret
      BY <1>3, <2>1, <2>2 DEF GetData, Incoming, EndOfStream, RecvFailed
    <3>3. \A p \in Finished(i)' : p = Current(i) \/ p \in Finished(i)
      BY <1>1, <3>2 DEF NextPiece, Goto, Finished, Current, Named
    <3>4. QED
      BY <1>2, <2>1, <2>2, <3>1, <3>2, <3>3 DEF DownloadedNext
  <2>3. CASE Head(s2c[i]) # Eof
    <3>1. /\ wpc'[i] = "data" /\ widx' = widx /\ ret' = ret
          /\ lpart' = [lpart EXCEPT ![Current(i)] = Written(Head(s2c[i]))]
      BY <1>3, <2>1, <2>3 DEF GetData, Incoming, EndOfStream, RecvFailed, Goto
    <3>2. Head(s2c[i]) = Data(Piece(Current(i), goal))
      BY <1>1, <1>2, <2>1, <2>3, GetStream, PacketsTaken
    <3>3. Current(i) \in Part
      BY <1>1, CurrentType DEF At, SessionInv, Commands
    <3>4. lpart'[Current(i)] = Piece(Current(i), goal)
      BY <3>1, <3>2, <3>3, DataInjective
    <3>5. Finished(i)' = Finished(i) /\ Current(i)' = Current(i)
          /\ Current(i) \notin Finished(i)
      BY <1>1, <3>1 DEF Finished, Current
    <3>6. \A p \in Finished(i) : lpart'[p] = lpart[p]
      BY <3>1, <3>5
    <3>7. Packets(s2c'[i]) \subseteq Packets(s2c[i])
      BY <2>1, PacketsTaken
    <3>8. QED
      BY <1>2, <3>1, <3>4, <3>5, <3>6, <3>7 DEF DownloadedNext
  <2>4. QED
    BY <2>2, <2>3
<1>4. CASE ~ Received(i)
  <2>1. s2c'[i] = <<>> /\ Packets(s2c'[i]) = {}
    BY <1>4, PacketsShort DEF GetData, EndOfStream, RecvFailed
  <2>2. wpc'[i] = "done" /\ ret'[i] = 1
    BY <1>4 DEF GetData, Fail, Goto
  <2>3. QED
    BY <2>1, <2>2 DEF DownloadedNext
<1>5. QED
  BY <1>3, <1>4

\* The server answers for the piece it was asked for, with what it holds of it.
LEMMA DownloadServer ==
    ASSUME SessionInv, Asking, Downloading, Settled, goal # 0, NEW i \in Host, Server(i),
           main = "join", cmd = "get"
    PROVE  DownloadedNext(i)
<1> USE SessionTypes
<1>1. UNCHANGED <<wpc, widx, parts, ret, conn, lpart>>
  BY ServerTakes
<1>2. Finished(i)' = Finished(i) /\ Current(i)' = Current(i)
  BY <1>1 DEF Finished, Current
<1>3. SUFFICES ASSUME wpc[i] # "off" PROVE DownloadedNext(i)
  BY <1>1 DEF DownloadedNext
<1>4. conn[i] # "closed"
  BY <1>3, ThreadPieces
<1>5. /\ ret[i] = 0 => \A p \in Finished(i) : lpart[p] = Piece(p, goal)
      /\ \A m \in Packets(s2c[i]) : m.kind = "data" => m = Data(Piece(Current(i), goal))
      /\ wpc[i] = "data" /\ s2c[i] # <<>> /\ Head(s2c[i]) = Eof
             => lpart[Current(i)] = Piece(Current(i), goal)
  BY <1>3 DEF Downloading
<1>6. CASE s2c' = s2c
  BY <1>1, <1>2, <1>5, <1>6 DEF DownloadedNext
<1>7. CASE s2c' # s2c
  <2>1. ServerRequest(i) /\ hpc[i] = "wait" /\ c2s[i] # <<>> /\ c2s[i] \in Seq(Packet)
    BY <1>7 DEF Server, ServerRequest, ServerStore, ServerHangup
  <2>2. wpc[i] = "recv" /\ s2c[i] = <<>>
    BY <1>4, <2>1, ShapeOf DEF Live, Broken
  <2>3. ASSUME NEW e \in {0, 1}, Answered(i, <<Reply(e)>>)
        PROVE  \A m \in Packets(s2c'[i]) : m.kind # "data"
    <3>1. s2c'[i] = <<>> \o <<Reply(e)>>
      BY <1>4, <2>2, <2>3 DEF Answered, ClientGone
    <3>2. s2c'[i] = <<Reply(e)>>
      BY <3>1, QueueConcat
    <3>3. Packets(s2c'[i]) = {Reply(e)}
      BY <3>2, PacketsShort
    <3>4. QED
      BY <3>3, PacketFacts
  <2>4. ASSUME SendPiece(i)
        PROVE  \A m \in Packets(s2c'[i]) :
                   m.kind = "data" => m = Data(Piece(Current(i), goal))
    <3>1. Head(c2s[i]).kind = "get" /\ AskedPart(i) = Current(i)
      BY <2>1, <2>2, <2>4, PacketsTaken DEF SendPiece, CanFetch, Asked, AskedPart, Asking
    <3>2. Current(i) \in Stored(i, HashValue)
      BY <1>3, ThreadPieces
    <3>3. store[i][Current(i)] = Piece(Current(i), goal)
      BY <2>1, <3>2 DEF Settled, Holds, Holding
    <3> DEFINE data == Data(Piece(Current(i), goal))
    <3>4. s2c'[i] = <<>> \o <<Reply(0), data, Eof>>
      BY <1>4, <2>2, <2>4, <3>1, <3>3 DEF SendPiece, Answered, ClientGone
    <3>5. Packets(s2c'[i]) = {Reply(0), data, Eof}
      <4> HIDE DEF data
      <4>1. s2c'[i] = <<Reply(0), data, Eof>>
        BY <3>4, QueueConcat
      <4>2. Packets(<<Reply(0), data, Eof>>) = {Reply(0), data, Eof}
        BY PacketsShort
      <4>3. QED
        BY <4>1, <4>2
    <3>6. QED
      BY <3>5, PacketFacts
  <2>5. \A m \in Packets(s2c'[i]) : m.kind = "data" => m = Data(Piece(Current(i), goal))
    BY <2>1, <2>3, <2>4 DEF ServerRequest, AcceptPut, MakeDir, ListDir, RefuseRequest
  <2>6. QED
    BY <1>1, <1>2, <1>5, <2>2, <2>5 DEF DownloadedNext
<1>8. QED
  BY <1>6, <1>7

\* A thread writes the local piece it is working on, and no other.
LEMMA OnlyCurrentWritten ==
    ASSUME SessionInv, NEW i \in Host, Thread(i)
    PROVE  \A p \in Part : lpart'[p] # lpart[p] => cmd = "get" /\ p = Current(i)
<1> USE SessionTypes
<1>1. CASE PutRequest(i) \/ PutReply(i) \/ PutData(i)
  BY <1>1 DEF PutRequest, PutReply, PutData, diskVars
<1>2. CASE GetRequest(i) \/ GetReply(i) \/ GetData(i)
  BY <1>2 DEF GetRequest, GetReply, GetData, OpenLocalPiece, Refuse, At, diskVars
<1>3. CASE SimpleRequest(i) \/ SimpleReply(i)
  BY <1>3 DEF SimpleRequest, SimpleReply, diskVars
<1>4. QED
  BY <1>1, <1>2, <1>3 DEF Thread

LEMMA OthersDownload ==
    ASSUME SessionInv, Downloading, goal # 0, NEW i \in Host, Thread(i), cmd = "get",
           NEW j \in Host, j # i
    PROVE  DownloadedNext(j)
<1> USE SessionTypes
<1>1. main = "join" /\ wpc[i] # "off"
  BY ThreadRuns
<1>2. /\ s2c'[j] = s2c[j] /\ wpc'[j] = wpc[j] /\ widx'[j] = widx[j] /\ ret'[j] = ret[j]
      /\ parts' = parts
  BY OthersUntouched
<1>3. Finished(j)' = Finished(j) /\ Current(j)' = Current(j)
  BY <1>2 DEF Finished, Current
<1>4. SUFFICES ASSUME wpc[j] # "off" PROVE DownloadedNext(j)
  BY <1>2 DEF DownloadedNext
<1>5. /\ ret[j] = 0 => \A p \in Finished(j) : lpart[p] = Piece(p, goal)
      /\ \A m \in Packets(s2c[j]) : m.kind = "data" => m = Data(Piece(Current(j), goal))
      /\ wpc[j] = "data" /\ s2c[j] # <<>> /\ Head(s2c[j]) = Eof
             => lpart[Current(j)] = Piece(Current(j), goal)
  BY <1>1, <1>4 DEF Downloading
<1>6. \A p \in Finished(j) \cup {Current(j)} : lpart'[p] = lpart[p]
  <2>1. avail[i] /\ avail[j] /\ Current(i) \in Fetched(avail, i, HashValue)
    BY <1>1, <1>4, ThreadPieces
  <2>2. Finished(j) \cup {Current(j)} \subseteq Fetched(avail, j, HashValue)
    BY <1>1, <1>4, ThreadPieces
  <2>3. Fetched(avail, i, HashValue) \cap Fetched(avail, j, HashValue) = {}
    BY <2>1, HostPart, PlanDisjoint
  <2>4. Finished(j) \cup {Current(j)} \subseteq Part
    BY <1>1, <1>4, ThreadPieces, StoredParts
  <2>5. QED
    BY <2>1, <2>2, <2>3, <2>4, OnlyCurrentWritten
<1>7. QED
  BY <1>2, <1>3, <1>5, <1>6 DEF DownloadedNext

\* A round of a GET starts with nothing fetched and nothing in the streams.
LEMMA DownloadStart ==
    ASSUME SessionInv, NEW av \in [Host -> BOOLEAN], Spawn("get", av),
           UNCHANGED s2c, \A i \in Host : wpc[i] \in {"off", "done"}, NEW i \in Host
    PROVE  DownloadedNext(i)
<1> USE SessionTypes
<1>1. s2c'[i] = <<>> /\ Packets(s2c'[i]) = {}
  BY ShapeOf, PacketsShort
<1>2. wpc'[i] # "off" => wpc'[i] = "send" /\ Finished(i)' = {}
  <2>1. ASSUME wpc'[i] # "off"
        PROVE  /\ wpc'[i] = "send" /\ widx'[i] \in {1, 2}
               /\ widx'[i] = 2 => parts'[i][1] = NoPart
    BY <2>1 DEF Spawn
  <2>2. widx'[i] = 2 => Named(parts[i])' \ {Current(i)'} \subseteq {parts'[i][1]} \ {NoPart}
    BY DEF Named, Current
  <2>3. QED
    BY <2>1, <2>2 DEF Finished
<1>3. QED
  BY <1>1, <1>2 DEF DownloadedNext

LEMMA DownloadingStep ==
    ASSUME SessionInv, Asking, Downloading, Settled, [Next]_vars
    PROVE  Downloading'
<1> USE SessionTypes
<1>1. ASSUME main' = "join" /\ cmd' = "get" /\ goal' # 0
                 => goal' = goal /\ \A i \in Host : DownloadedNext(i)
      PROVE  Downloading'
  BY <1>1 DEF Downloading, DownloadedNext
<1>2. ASSUME UNCHANGED <<main, cmd, ret, lpart, wpc, widx, parts>>,
             goal' \in {0, goal},
             \A i \in Host : /\ Packets(s2c'[i]) \subseteq Packets(s2c[i])
                             /\ s2c'[i] # <<>> => s2c[i] # <<>> /\ Head(s2c'[i]) = Head(s2c[i])
      PROVE  Downloading'
  <2>1. \A i \in Host : Finished(i)' = Finished(i) /\ Current(i)' = Current(i)
    BY <1>2 DEF Finished, Current
  <2>2. ASSUME NEW i \in Host, main = "join", cmd = "get", goal # 0
        PROVE  DownloadedNext(i)
    BY <1>2, <2>1, <2>2 DEF Downloading, DownloadedNext
  <2>3. QED
    BY <1>1, <1>2, <2>2
<1>3. ASSUME NEW k \in Commands, Command(k)
      PROVE  Downloading'
  <2>1. ASSUME cmd' = "get", NEW i \in Host
        PROVE  DownloadedNext(i)
    <3>1. Spawn("get", avail) /\ s2c' = s2c /\ \A j \in Host : wpc[j] = "off"
      BY <1>3, <2>1 DEF Command, netVars, SessionInv, Accounted, NoThread
    <3>2. QED
      BY <3>1, DownloadStart
  <2>2. goal' # 0 => goal' = goal
    BY <1>3 DEF Command
  <2>3. QED
    BY <1>1, <2>1, <2>2
<1>4. CASE JoinRetry
  <2>1. /\ Spawn("get", StillAvailable) /\ UNCHANGED <<s2c, goal>>
        /\ \A j \in Host : wpc[j] \in {"off", "done"}
    BY <1>4 DEF JoinRetry, Joined, netVars
  <2>2. StillAvailable \in [Host -> BOOLEAN]
    BY DEF StillAvailable
  <2>3. QED
    BY <1>1, <2>1, <2>2, DownloadStart
<1>5. ASSUME main' # "join"
      PROVE  Downloading'
  BY <1>1, <1>5
<1>6. CASE JoinAbort \/ JoinMerge \/ JoinList \/ JoinOther
  BY <1>5, <1>6 DEF JoinAbort, JoinMerge, JoinList, JoinOther, BackToPrompt
<1>7. ASSUME NEW i \in Host, Thread(i)
      PROVE  Downloading'
  <2>1. UNCHANGED <<main, cmd, goal>>
    BY <1>7, OthersUntouched
  <2>2. ASSUME cmd = "get", goal # 0, NEW j \in Host
        PROVE  DownloadedNext(j)
    <3>1. CASE j = i
      <4>1. GetRequest(i) \/ GetReply(i) \/ GetData(i)
        BY <1>7, <2>2 DEF Thread, PutRequest, PutReply, PutData, SimpleRequest,
                          SimpleReply, At
      <4>2. QED
        BY <2>2, <3>1, <4>1, DownloadRequest, DownloadReply, DownloadData
    <3>2. CASE j # i
      BY <1>7, <2>2, <3>2, OthersDownload
    <3>3. QED
      BY <3>1, <3>2
  <2>3. QED
    BY <1>1, <2>1, <2>2
<1>8. ASSUME NEW i \in Host, Server(i)
      PROVE  Downloading'
  <2>1. UNCHANGED <<main, cmd, goal, ret, lpart, wpc, widx, parts>>
    BY <1>8, ServerTakes
  <2>2. ASSUME main = "join", cmd = "get", goal # 0, NEW j \in Host
        PROVE  DownloadedNext(j)
    <3>1. CASE j = i
      BY <1>8, <2>2, <3>1, DownloadServer
    <3>2. CASE j # i
      <4>1. s2c'[j] = s2c[j] /\ Finished(j)' = Finished(j) /\ Current(j)' = Current(j)
        BY <1>8, <2>1, <3>2, OthersUntouched DEF Finished, Current
      <4>2. QED
        BY <2>1, <2>2, <4>1 DEF Downloading, DownloadedNext
    <3>3. QED
      BY <3>1, <3>2
  <2>3. QED
    BY <1>1, <2>1, <2>2
<1>9. ASSUME NEW i \in Host, Crash(i) \/ ServerSigpipe(i)
      PROVE  Downloading'
  <2>1. /\ UNCHANGED <<main, cmd, ret, lpart, wpc, widx, parts>> /\ goal' \in {0, goal}
        /\ \A j \in Host \ {i} : s2c'[j] = s2c[j]
        /\ s2c'[i] = s2c[i] \/ \E n \in 0 .. Len(s2c[i]) : s2c'[i] = SubSeq(s2c[i], 1, n)
    BY <1>9 DEF Crash, ServerSigpipe, ServerDies, thrVars, diskVars
  <2>2. s2c[i] \in Seq(Packet)
    OBVIOUS
  <2>3. /\ Packets(s2c'[i]) \subseteq Packets(s2c[i])
        /\ s2c'[i] # <<>> => s2c[i] # <<>> /\ Head(s2c'[i]) = Head(s2c[i])
    BY <2>1, <2>2, PacketsPrefix
  <2>4. QED
    BY <1>2, <2>1, <2>3
<1>10. CASE (\E i \in Host : Restart(i)) \/ UNCHANGED vars
  BY <1>2, <1>10 DEF Restart, vars, netVars, thrVars, diskVars
<1>11. CASE ClientDies \/ Relaunch
  BY <1>5, <1>11 DEF ClientDies, Relaunch
<1>12. QED
  BY <1>3, <1>4, <1>6, <1>7, <1>8, <1>9, <1>10, <1>11 DEF Next, Join, Sigpipe, Interrupt
-----------------------------------------------------------------------------
(* The theorems.                                                           *)

LEMMA ReplicaInit == Init => ReplicaInv
<1> SUFFICES ASSUME Init PROVE ReplicaInv
  OBVIOUS
<1>1. SessionInv
  BY InitInv
<1>2. Asking
  BY DEF Init, Asking, NoThread
<1>3. Uploading /\ Downloading
  BY DEF Init, Uploading, Downloading
<1>4. Settled
  <2>1. \A i \in Host : \A p \in Stored(i, HashValue) :
            goal = 1 => store[i][p] = Piece(p, 1)
    BY StoredParts DEF Init
  <2>2. \A i \in Host : Packets(c2s[i]) = {} /\ hpc[i] = "wait"
    BY PacketsShort DEF Init
  <2>3. goal # 0 => goal = 1 /\ cmd # "put" /\ \A i \in Host : dir[i]
    BY DEF Init
  <2>4. QED
    BY <2>1, <2>2, <2>3 DEF Settled, Holds, Holding
<1>5. QED
  BY <1>1, <1>2, <1>3, <1>4 DEF ReplicaInv

LEMMA ReplicaStep == ReplicaInv /\ [Next]_vars => ReplicaInv'
BY StepInv, AskingStep, UploadingStep, DownloadingStep, SettledStep DEF ReplicaInv

(* A promise once made by a complete PUT is kept by both replicas, on their *)
(* way to disk or there, and by everything that a GET is sent.             *)
THEOREM ReplicaInvariant == Spec => []ReplicaInv
BY ReplicaInit, ReplicaStep, PTL DEF Spec

(* After a PUT in which every server took part and no thread saw an error, *)
(* every piece is on both servers that are to hold it as soon as their     *)
(* handlers are done, whatever crashes, restarts or is killed later.       *)
THEOREM ReplicasAreDurable == Spec => []ReplicaDurability
<1>1. ReplicaInv => ReplicaDurability
  BY DEF ReplicaInv, Settled, Holds, Holding, ReplicaDurability
<1>2. QED
  BY <1>1, ReplicaInvariant, PTL

LEMMA MergedWhole ==
    ASSUME NEW v \in Nat, \A p \in Part : lpart[p] = Piece(p, v)
    PROVE  Merged = Whole(v)
<1>1. \A p \in Part : lpart[p] # Absent
  BY DataInjective, HostPart
<1>2. Leading = Part
  BY <1>1 DEF Leading
<1>3. Cardinality(Part) = NumHosts
  BY HostPart, FS_Interval DEF Part
<1>4. \A k \in 1 .. NumHosts : k - 1 \in Part
  BY HostPart DEF Part
<1>5. QED
  BY <1>2, <1>3, <1>4 DEF Merged, Whole

\* All threads of a GET are done and none failed: every piece has been fetched.
LEMMA MergeComplete ==
    ASSUME ReplicaInv, goal # 0, main = "join", cmd = "get", Joined,
           ~ Returned(1), ~ Returned(2), Covered(avail, HashValue)
    PROVE  Merged = Whole(goal)
<1> USE SessionTypes DEF ReplicaInv
<1>1. ASSUME NEW p \in Part
      PROVE  lpart[p] = Piece(p, goal)
  <2>1. \E i \in Host : avail[i] /\ p \in Stored(i, HashValue)
    BY <1>1 DEF Covered
  <2>2. PICK i \in Host : avail[i] /\ p \in Fetched(avail, i, HashValue)
    BY <1>1, <2>1, HostPart, PlanCovers
  <2>3. wpc[i] = "done" /\ ret[i] = 0
    BY <2>2 DEF Asking, Joined, Returned
  <2>4. Finished(i) = Fetched(avail, i, HashValue)
    BY <2>3, ThreadPieces DEF Finished
  <2>5. QED
    BY <2>2, <2>3, <2>4 DEF Downloading
<1>2. QED
  BY <1>1, MergedWhole

(* A GET that ends by merging while each piece has an available host has   *)
(* restored the version of the last complete PUT.                          *)
THEOREM GetRestoresLastPut == Spec => GetReturnsLastPut
<1>1. ReplicaInv /\ [Next]_vars
          => [JoinMerge /\ goal # 0 /\ Covered(avail, HashValue)
                  => lfile' = Whole(goal)]_vars
  <2> SUFFICES ASSUME ReplicaInv, JoinMerge, goal # 0, Covered(avail, HashValue)
               PROVE  lfile' = Whole(goal)
    OBVIOUS
  <2>1. lfile' = Merged /\ main = "join" /\ cmd = "get" /\ Joined
        /\ ~ Returned(1) /\ ~ Returned(2)
    BY DEF JoinMerge, Joined
  <2>2. QED
    BY <2>1, MergeComplete
<1>2. QED
  BY <1>1, ReplicaInvariant, PTL DEF Spec, GetReturnsLastPut
-----------------------------------------------------------------------------
(* Servers that can be failed over: they know the user, and one that dies  *)
(* resets its connection.                                                  *)

\* The clauses of NoRefusal for host i, after a step that keeps the promise.
TrustedNext(i) ==
    /\ wpc'[i] \in {"recv", "data"} => conn'[i] # "dead"
    /\ goal' # 0 => ret'[i] # 2 /\ Reply(1) \notin Packets(s2c'[i])

\* A thread learns of a dead server from an error, never from the stream.
LEMMA NoEndOfStream ==
    ASSUME NoRefusal, NEW i \in Host
    PROVE  /\ \A r : Sent(i, r) => conn[i] = "open" /\ conn' = conn
           /\ cmd = "get" /\ wpc[i] \in {"recv", "data"} => ~ EndOfStream(i)
BY DEF NoRefusal, Sent, EndOfStream

LEMMA TrustedThread ==
    ASSUME ReplicaInv, NoRefusal, NEW i \in Host, Thread(i), cmd = "get"
    PROVE  TrustedNext(i)
<1> USE SessionTypes, NoEndOfStream DEF ReplicaInv
<1>1. /\ wpc[i] \in {"recv", "data"} => conn[i] # "dead"
      /\ goal # 0 => ret[i] # 2 /\ Reply(1) \notin Packets(s2c[i])
  BY DEF NoRefusal
<1>2. goal' = goal
  BY OthersUntouched
<1>3. CASE GetRequest(i)
  <2>1. s2c' = s2c /\ ret'[i] \in {ret[i], 1}
    BY <1>3 DEF GetRequest, ThreadFrame, Fail
  <2>2. wpc'[i] \in {"recv", "data"} => conn'[i] # "dead"
    BY <1>3 DEF GetRequest, Goto
  <2>3. QED
    BY <1>1, <1>2, <2>1, <2>2 DEF TrustedNext
<1>4. CASE GetReply(i) \/ GetData(i)
  <2>1. wpc[i] \in {"recv", "data"} /\ ~ EndOfStream(i) /\ s2c[i] \in Seq(Packet)
    BY <1>4 DEF GetReply, GetData, At
  <2>2. CASE Received(i)
    <3>1. s2c[i] # <<>> /\ conn' = conn /\ s2c'[i] = Tail(s2c[i])
      BY <2>2 DEF Received
    <3>2. Packets(s2c'[i]) \subseteq Packets(s2c[i]) /\ Head(s2c[i]) \in Packets(s2c[i])
      BY <2>1, <3>1, PacketsTaken
    <3>3. GetReply(i) /\ goal # 0 => ~ Refused(Incoming(i))
      <4>1. GetReply(i) => wpc[i] = "recv"
        BY DEF GetReply, At
      <4>2. wpc[i] = "recv" => Head(s2c[i]) \in {Reply(0), Reply(1)}
        BY <3>1, GetStream
      <4>3. QED
        BY <1>1, <3>2, <4>1, <4>2, PacketFacts DEF Refused, Incoming
    <3>4. goal # 0 => ret'[i] = ret[i]
      BY <1>4, <2>1, <2>2, <3>1, <3>3 DEF GetReply, GetData, RecvFailed, OpenLocalPiece
    <3>5. QED
      BY <1>1, <1>2, <2>1, <3>1, <3>2, <3>4 DEF TrustedNext
  <2>3. CASE RecvFailed(i) /\ ~ Received(i)
    <3>1. s2c' = s2c /\ wpc'[i] = "done" /\ ret'[i] = 1
      BY <1>4, <2>1, <2>3 DEF GetReply, GetData, RecvFailed, Fail, Goto
    <3>2. QED
      BY <1>1, <1>2, <3>1 DEF TrustedNext
  <2>4. QED
    BY <1>4, <2>1, <2>2, <2>3 DEF GetReply, GetData
<1>5. QED
  BY <1>3, <1>4 DEF Thread, PutRequest, PutReply, PutData, SimpleRequest, SimpleReply, At

\* A server that holds the pieces of the file refuses none of them.
LEMMA TrustedServer ==
    ASSUME ReplicaInv, NoRefusal, Accepts = Host, NEW i \in Host, Server(i), cmd = "get"
    PROVE  TrustedNext(i)
<1> USE SessionTypes DEF ReplicaInv
<1>1. UNCHANGED <<wpc, ret, conn, goal>>
  BY ServerTakes
<1>2. /\ wpc[i] \in {"recv", "data"} => conn[i] # "dead"
      /\ goal # 0 => ret[i] # 2 /\ Reply(1) \notin Packets(s2c[i])
  BY DEF NoRefusal
<1>3. CASE s2c' = s2c \/ goal = 0
  BY <1>1, <1>2, <1>3 DEF TrustedNext
<1>4. CASE s2c' # s2c /\ goal # 0
  <2>1. ServerRequest(i) /\ hpc[i] = "wait" /\ c2s[i] # <<>> /\ c2s[i] \in Seq(Packet)
    BY <1>4 DEF Server, ServerRequest, ServerStore, ServerHangup
  <2>2. conn[i] # "closed"
    BY <1>4, <2>1 DEF ServerRequest, AcceptPut, SendPiece, MakeDir, ListDir,
                      RefuseRequest, Answered, ClientGone
  <2>3. wpc[i] = "recv" /\ s2c[i] = <<>> /\ Asks(c2s[i], "get")
    BY <2>1, <2>2, ShapeOf DEF Live, Broken
  <2>4. Head(c2s[i]).kind = "get"
    <3>1. PICK r \in Packet : r.kind = "get" /\ c2s[i] = <<r>>
      BY <2>3 DEF Asks
    <3>2. QED
      BY <3>1, QueueFacts
  <2>5. AskedPart(i) = Current(i)
    BY <2>1, <2>3, <2>4, PacketsTaken DEF AskedPart, Asking
  <2>6. Current(i) \in Stored(i, HashValue)
    <3>1. main = "join"
      BY <2>3 DEF SessionInv, Accounted, NoThread
    <3>2. QED
      BY <2>3, <3>1, ThreadPieces
  <2>7. store[i][Current(i)] # Absent
    <3>1. store[i][Current(i)] = Piece(Current(i), goal)
      BY <1>4, <2>1, <2>6 DEF Settled, Holds, Holding
    <3>2. QED
      BY <2>6, <3>1, StoredParts, HostPart, DataInjective
  <2>8. CanFetch(i)
    BY <1>4, <2>4, <2>5, <2>7 DEF CanFetch, Asked, Settled
  <2>9. SendPiece(i)
    BY <2>1, <2>4, <2>8 DEF ServerRequest, AcceptPut, CanStore, MakeDir, ListDir,
                            RefuseRequest, Asked
  <2> DEFINE data == Data(store[i][AskedPart(i)])
  <2>10. s2c'[i] = <<>> \o <<Reply(0), data, Eof>>
    BY <2>2, <2>3, <2>9 DEF SendPiece, Answered, ClientGone
  <2>11. Packets(s2c'[i]) = {Reply(0), data, Eof}
    <3> HIDE DEF data
    <3>1. s2c'[i] = <<Reply(0), data, Eof>>
      BY <2>10, QueueConcat
    <3>2. Packets(<<Reply(0), data, Eof>>) = {Reply(0), data, Eof}
      BY PacketsShort
    <3>3. QED
      BY <3>1, <3>2
  <2>12. QED
    BY <1>1, <1>2, <2>11, PacketFacts DEF TrustedNext
<1>5. QED
  BY <1>3, <1>4

LEMMA NoRefusalStep ==
    ASSUME FaultKinds \subseteq {"reset"}, Accepts = Host,
           ReplicaInv, NoRefusal, [Next]_vars
    PROVE  NoRefusal'
<1> USE SessionTypes DEF ReplicaInv
<1>1. ASSUME \A i \in Host : conn'[i] # "fin",
             cmd' = "get" => \A i \in Host : TrustedNext(i)
      PROVE  NoRefusal'
  BY <1>1 DEF NoRefusal, TrustedNext
<1>2. ASSUME UNCHANGED <<cmd, ret>>, goal' \in {0, goal},
             \A i \in Host :
                 /\ \/ conn'[i] = conn[i] /\ wpc'[i] = wpc[i]
                    \/ conn'[i] \in {"open", "closed", "reset"}
                 /\ Packets(s2c'[i]) \subseteq Packets(s2c[i])
      PROVE  NoRefusal'
  BY <1>2 DEF NoRefusal
<1>3. ASSUME UNCHANGED <<conn, s2c>>, \A i \in Host : wpc[i] \in {"off", "done"},
             ret' = NoReturn, \A i \in Host : wpc'[i] \in {"off", "send"}
      PROVE  NoRefusal'
  <2>1. \A i \in Host : s2c[i] = <<>> /\ Packets(s2c[i]) = {}
    BY <1>3, ShapeOf, PacketsShort
  <2>2. \A i \in Host : wpc'[i] \notin {"recv", "data"} /\ ret'[i] = 0 /\ Packets(s2c'[i]) = {}
    BY <1>3, <2>1 DEF NoReturn
  <2>3. ASSUME NEW i \in Host PROVE TrustedNext(i)
    <3>1. ret'[i] # 2
      BY <2>2
    <3>2. Packets(s2c'[i]) = {}
      BY <2>2
    <3>3. QED
      BY <2>2, <3>1, <3>2 DEF TrustedNext
  <2>4. QED
    BY <1>1, <1>3, <2>3 DEF NoRefusal
<1>4. ASSUME NEW k \in Commands, Command(k)
      PROVE  NoRefusal'
  <2>1. \A i \in Host : wpc[i] = "off"
    BY <1>4 DEF Command, SessionInv, Accounted, NoThread
  <2>2. UNCHANGED <<conn, s2c>> /\ ret' = NoReturn /\ \A i \in Host : wpc'[i] \in {"off", "send"}
    BY <1>4 DEF Command, Spawn, netVars
  <2>3. QED
    BY <1>3, <2>1, <2>2
<1>5. CASE Join
  <2>1. \A i \in Host : wpc[i] \in {"off", "done"}
    BY <1>5 DEF Join, JoinRetry, JoinAbort, JoinMerge, JoinList, JoinOther, Joined
  <2>2. UNCHANGED <<conn, s2c>> /\ ret' = NoReturn /\ \A i \in Host : wpc'[i] \in {"off", "send"}
    BY <1>5 DEF Join, JoinRetry, JoinAbort, JoinMerge, JoinList, JoinOther, Spawn,
                BackToPrompt, NoThread, netVars
  <2>3. QED
    BY <1>3, <2>1, <2>2
<1>6. ASSUME NEW i \in Host, Thread(i)
      PROVE  NoRefusal'
  <2>1. cmd' = cmd /\ goal' = goal
        /\ \A j \in Host \ {i} : /\ conn'[j] = conn[j] /\ wpc'[j] = wpc[j]
                                 /\ s2c'[j] = s2c[j] /\ ret'[j] = ret[j]
    BY <1>6, OthersUntouched
  <2>2. conn'[i] # "fin"
    BY <1>6 DEF NoRefusal, Thread, PutRequest, PutReply, PutData, GetRequest, GetReply,
                GetData, SimpleRequest, SimpleReply, Sent, SendFailed, Received,
                EndOfStream, RecvFailed, ConnectionError
  <2>3. cmd = "get" => TrustedNext(i)
    BY <1>6, TrustedThread
  <2>4. \A j \in Host \ {i} : conn'[j] # "fin" /\ (cmd = "get" => TrustedNext(j))
    BY <2>1 DEF NoRefusal, TrustedNext
  <2>5. QED
    BY <1>1, <2>1, <2>2, <2>3, <2>4
<1>7. ASSUME NEW i \in Host, Server(i)
      PROVE  NoRefusal'
  <2>1. UNCHANGED <<main, cmd, conn, wpc, ret, goal>>
        /\ \A j \in Host \ {i} : s2c'[j] = s2c[j]
    BY <1>7, ServerTakes, OthersUntouched
  <2>2. cmd = "get" => TrustedNext(i)
    BY <1>7, TrustedServer
  <2>3. \A j \in Host \ {i} : cmd = "get" => TrustedNext(j)
    BY <2>1 DEF NoRefusal, TrustedNext
  <2>4. QED
    BY <1>1, <2>1, <2>2, <2>3 DEF NoRefusal
<1>8. ASSUME NEW i \in Host, Crash(i) \/ ServerSigpipe(i)
      PROVE  NoRefusal'
  <2>1. /\ UNCHANGED <<cmd, ret, wpc>> /\ goal' \in {0, goal}
        /\ \A j \in Host \ {i} : s2c'[j] = s2c[j] /\ conn'[j] = conn[j]
        /\ conn'[i] = conn[i] \/ conn'[i] = "reset"
        /\ s2c'[i] = s2c[i] \/ \E n \in 0 .. Len(s2c[i]) : s2c'[i] = SubSeq(s2c[i], 1, n)
    BY <1>8 DEF Crash, ServerSigpipe, ServerDies, thrVars
  <2>2. s2c[i] \in Seq(Packet)
    OBVIOUS
  <2>3. Packets(s2c'[i]) \subseteq Packets(s2c[i])
    BY <2>1, <2>2, PacketsPrefix
  <2>4. QED
    BY <1>2, <2>1, <2>3
<1>9. CASE (\E i \in Host : Restart(i)) \/ Relaunch \/ UNCHANGED vars
  BY <1>2, <1>9 DEF Restart, Relaunch, vars, netVars, thrVars
<1>10. CASE ClientDies
  BY <1>1, <1>10 DEF ClientDies
<1>11. QED
  BY <1>4, <1>5, <1>6, <1>7, <1>8, <1>9, <1>10 DEF Next, Sigpipe, Interrupt

(* With such servers a promise is kept and a GET is neither refused nor    *)
(* deceived by an end of stream.                                           *)
THEOREM FailoverInvariant ==
    ASSUME FaultKinds \subseteq {"reset"}, Accepts = Host
    PROVE  Spec => []FailoverInv
<1>1. Init => FailoverInv
  <2> SUFFICES ASSUME Init PROVE NoRefusal
    BY ReplicaInit DEF FailoverInv
  <2>1. cmd # "get" /\ \A i \in Host : conn[i] \in {"open", "closed"}
    BY DEF Init
  <2>2. QED
    BY <2>1 DEF NoRefusal
<1>2. FailoverInv /\ [Next]_vars => FailoverInv'
  BY ReplicaStep, NoRefusalStep DEF FailoverInv
<1>3. QED
  BY <1>1, <1>2, PTL DEF Spec

(* Fault tolerance: with such servers, a GET that comes back to the prompt *)
(* while each piece has a connected host has restored the version of the   *)
(* last complete PUT, whichever servers crashed on the way.                *)
THEOREM FailoverRestores ==
    ASSUME FaultKinds \subseteq {"reset"}, Accepts = Host
    PROVE  Spec => FailoverIntegrity
<1>1. FailoverInv /\ [Next]_vars
          => [main = "join" /\ cmd = "get" /\ main' = "prompt" /\ goal # 0
                  /\ Covered([i \in Host |-> conn[i] = "open"], HashValue)
                  => lfile' = Whole(goal)]_vars
  <2> SUFFICES ASSUME FailoverInv, Next, main = "join", cmd = "get", main' = "prompt",
                      goal # 0, Covered([i \in Host |-> conn[i] = "open"], HashValue)
               PROVE  lfile' = Whole(goal)
    OBVIOUS
  <2> USE SessionTypes DEF FailoverInv, ReplicaInv
  <2>1. \A i \in Host : (Thread(i) \/ Server(i)) => main' = main
    BY OthersUntouched
  <2>2. JoinAbort \/ JoinMerge
    BY <2>1 DEF Next, Join, Command, JoinRetry, JoinList, JoinOther, Crash, ServerSigpipe,
                ServerDies, Restart, Sigpipe, Interrupt, ClientDies, Relaunch
  <2>3. ~ Returned(2)
    BY DEF NoRefusal, Returned
  <2>4. lfile' = Merged /\ Joined /\ ~ Returned(1)
    BY <2>2, <2>3 DEF JoinAbort, JoinMerge
  <2>5. \A i \in Host : conn[i] = "open" => avail[i]
    BY DEF SessionInv, Accounted
  <2>6. Covered(avail, HashValue)
    BY <2>5 DEF Covered
  <2>7. QED
    BY <2>3, <2>4, <2>6, MergeComplete
<1>2. QED
  BY <1>1, FailoverInvariant, PTL DEF Spec, FailoverIntegrity
=============================================================================
