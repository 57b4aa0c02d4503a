----------------------------- MODULE DfcSession -----------------------------
(***************************************************************************)
(* One client of the distributed file store (dfc/client.c, dfc/server.c):  *)
(* the command loop of main with one thread per available server, the      *)
(* connection handler of every server, the TCP connections between them,   *)
(* and the crashes and restarts of either side.                            *)
(*                                                                         *)
(* One file is stored and fetched, in one directory.  A packet is a record *)
(* of a kind and an argument; all the data packets of one piece travel as  *)
(* one packet of kind "data".                                              *)
(***************************************************************************)
EXTENDS DfcPlacement, Sequences, FiniteSets

CONSTANTS
    HashValue,      \* md5_mod of the file's name
    Accepts,        \* servers whose server.conf knows this user and password
    FaultKinds,     \* how a dying server's connection looks to the client
    MaxCommands,    \* bound on the commands typed
    MaxFaults,      \* bound on the server crashes
    MaxLaunches     \* bound on the runs of the client

ASSUME SessionAssumption ==
    /\ HashValue \in Host
    /\ Accepts \subseteq Host
    /\ FaultKinds \subseteq {"fin", "reset"}
    /\ MaxCommands \in Nat /\ MaxFaults \in Nat /\ MaxLaunches \in Nat \ {0}

VARIABLES
    \* servers
    up,         \* the server process runs
    dir,        \* the directory of the file exists
    store,      \* contents of the piece files, by host and piece
    hpc,        \* connection_handler: "wait" for a packet, or "store" a file
    hpart,      \* the piece being stored
    \* connections, as the client sees them
    conn, c2s, s2c,
    \* client
    main,       \* "prompt", "join" (threads running) or "killed"
    cmd,        \* the command being executed
    avail,      \* conf.hosts[i].available
    parts,      \* tp->parts
    wpc,        \* where the thread of each host is
    widx,       \* its index i into tp->parts
    ret,        \* what it returns
    lpart,      \* local piece files
    lfile,      \* the local file: the contents of its pieces, in order
    \* ghost and bounds
    goal,       \* version every replica has promised to hold, 0 if none
    ncmds, nfaults, nlaunches

srvVars  == <<up, dir, store, hpc, hpart>>
netVars  == <<conn, c2s, s2c>>
thrVars  == <<parts, wpc, widx, ret>>
diskVars == <<lpart, lfile>>
boundVars == <<ncmds, nfaults, nlaunches>>
vars == <<srvVars, netVars, main, cmd, avail, thrVars, diskVars, goal, boundVars>>
-----------------------------------------------------------------------------
Piece(p, v) == <<p, v>>             \* piece p of version v of the file
Absent      == <<NoPart, 0>>        \* no such file
Torn        == <<NoPart, 1>>        \* truncated or only partly written

Version == 1 .. MaxCommands + 1
Content == (Part \X Version) \cup {Absent, Torn}

Whole(v) == [k \in 1 .. NumHosts |-> Piece(k - 1, v)]

Commands == {"put", "get", "ls", "mkdir"}

Request(k, p) == [kind |-> k, arg |-> <<p, 0>>]
Reply(errno)  == [kind |-> "rep", arg |-> <<errno, 0>>]
Data(c)       == [kind |-> "data", arg |-> c]
Eof           == [kind |-> "eof", arg |-> <<0, 0>>]

Packet ==
    {Request(k, p) : k \in {"put", "get"}, p \in Part}
        \cup {Request(k, NoPart) : k \in {"ls", "mkdir"}}
        \cup {Reply(0), Reply(1), Eof} \cup {Data(c) : c \in Content}

NeverRefused(m) == FALSE                            \* slip: errno not checked

\* The errno byte of a received packet is not 0.  (In a data packet that
\* byte is the low byte of the field eof.)
Refused(m) == m = Reply(1) \/ m = Eof

\* What receive_file has written when it took m for file data.
Written(m) == IF m.kind = "data" THEN m.arg ELSE Torn
-----------------------------------------------------------------------------
NoThread == [i \in Host |-> "off"]
NoParts  == [i \in Host |-> <<NoPart, NoPart>>]
NoReturn == [i \in Host |-> 0]

Init ==
    /\ up \in [Host -> BOOLEAN]
    /\ \E d \in BOOLEAN : dir = [i \in Host |-> d]
    /\ goal \in {0, 1}
    /\ goal = 1 => dir = [i \in Host |-> TRUE]
    /\ store = [i \in Host |-> [p \in Part |->
                   IF goal = 1 /\ p \in Stored(i, HashValue)
                   THEN Piece(p, 1) ELSE Absent]]
    /\ hpc = [i \in Host |-> "wait"] /\ hpart = [i \in Host |-> NoPart]
    /\ conn = [i \in Host |-> IF up[i] THEN "open" ELSE "closed"]
    /\ c2s = [i \in Host |-> <<>>] /\ s2c = [i \in Host |-> <<>>]
    /\ main = "prompt" /\ cmd = "none" /\ avail = up
    /\ parts = NoParts /\ wpc = NoThread /\ ret = NoReturn
    /\ widx = [i \in Host |-> 1]
    /\ lpart = [p \in Part |-> Absent] /\ lfile = <<>>
    /\ ncmds = 0 /\ nfaults = 0 /\ nlaunches = 1
-----------------------------------------------------------------------------
(* The client's main loop.                                                 *)

PlanFor(k, av, i) ==
    CASE k = "put" -> PutParts(i, HashValue)
      [] k = "get" -> GetParts(av, i, HashValue)
      [] OTHER     -> <<NoPart, SecondPart(i, 0)>>

\* One thread per available host; handle_get skips a first part of -1.
Spawn(k, av) ==
    /\ parts' = [i \in Host |-> IF av[i] THEN PlanFor(k, av, i) ELSE NoParts[i]]
    /\ widx' = [i \in Host |->
                   IF av[i] /\ PlanFor(k, av, i)[1] = NoPart THEN 2 ELSE 1]
    /\ wpc' = [i \in Host |-> IF av[i] THEN "send" ELSE "off"]
    /\ ret' = NoReturn

\* A typed command.  The user puts a file that has just been written.
Command(k) ==
    /\ main = "prompt" /\ ncmds < MaxCommands
    /\ main' = "join" /\ cmd' = k /\ ncmds' = ncmds + 1
    /\ Spawn(k, avail)
    /\ IF k = "put"
       THEN lfile' = Whole(ncmds + 2) /\ goal' = 0
       ELSE UNCHANGED <<lfile, goal>>
    /\ UNCHANGED <<srvVars, netVars, avail, lpart, nfaults, nlaunches>>

Joined == main = "join" /\ \A i \in Host : wpc[i] \in {"off", "done"}

Returned(r) == \E i \in Host : ret[i] = r

EveryError     == [i \in Host |-> avail[i] /\ ret[i] = 0]   \* slip: drops too many
NobodyDropped  == avail                                     \* slip: drops nobody
StillAvailable == [i \in Host |-> avail[i] /\ ret[i] # 1]

BackToPrompt ==
    /\ main' = "prompt" /\ cmd' = "none"
    /\ parts' = NoParts /\ wpc' = NoThread /\ ret' = NoReturn
    /\ widx' = [i \in Host |-> 1]

\* A host failed during a GET: drop it and plan the whole GET again.
JoinRetry ==
    /\ Joined /\ cmd = "get" /\ Returned(1)
    /\ avail' = StillAvailable
    /\ Spawn("get", StillAvailable)
    /\ UNCHANGED <<srvVars, netVars, main, cmd, diskVars, goal, boundVars>>

\* Some host refused: the GET ends and the local pieces stay behind.
JoinAbort ==
    /\ Joined /\ cmd = "get" /\ ~ Returned(1) /\ Returned(2)
    /\ BackToPrompt
    /\ UNCHANGED <<srvVars, netVars, avail, diskVars, goal, boundVars>>

\* merge_partitions stops at the first piece that is missing.
Leading == {p \in Part : \A q \in Part : q <= p => lpart[q] # Absent}
Merged  == [k \in 1 .. Cardinality(Leading) |-> lpart[k - 1]]

JoinMerge ==
    /\ Joined /\ cmd = "get" /\ ~ Returned(1) /\ ~ Returned(2)
    /\ lfile' = Merged
    /\ lpart' = [p \in Part |-> Absent]
    /\ BackToPrompt
    /\ UNCHANGED <<srvVars, netVars, avail, goal, boundVars>>

JoinList ==
    /\ Joined /\ cmd = "ls"
    /\ avail' = StillAvailable
    /\ BackToPrompt
    /\ UNCHANGED <<srvVars, netVars, diskVars, goal, boundVars>>

\* What a PUT or a MKDIR returned is not looked at.  The ghost records that
\* every server took part and none of them was seen to fail.
JoinOther ==
    /\ Joined /\ cmd \in {"put", "mkdir"}
    /\ goal' = IF cmd = "put" /\ \A i \in Host :
                      avail[i] /\ ret[i] = 0 /\ conn[i] = "open"
                          /\ dir[i] /\ i \in Accepts
               THEN ncmds + 1 ELSE goal
    /\ BackToPrompt
    /\ UNCHANGED <<srvVars, netVars, avail, diskVars, boundVars>>
-----------------------------------------------------------------------------
(* TCP as the client sees it.  A server that dies leaves its connection    *)
(* either "fin", closed in an orderly way, or "reset".  Sending on a "fin" *)
(* connection works and provokes a reset; the error of a reset connection  *)
(* is reported once; sending on a "dead" connection raises SIGPIPE.        *)

Sent(i, pkts) ==
    \/ /\ conn[i] = "open"
       /\ c2s' = [c2s EXCEPT ![i] = @ \o pkts]
       /\ UNCHANGED conn
    \/ /\ conn[i] = "fin"
       /\ \E k \in {"fin", "dead"} : conn' = [conn EXCEPT ![i] = k]
       /\ UNCHANGED c2s

ConnectionError(i) ==
    conn[i] = "reset" /\ conn' = [conn EXCEPT ![i] = "dead"]

SendFailed(i) == ConnectionError(i) /\ UNCHANGED c2s

Received(i) ==
    /\ s2c[i] # <<>>
    /\ s2c' = [s2c EXCEPT ![i] = Tail(@)]
    /\ UNCHANGED conn

Incoming(i) == Head(s2c[i])

EndOfStream(i) ==
    s2c[i] = <<>> /\ conn[i] \in {"fin", "dead"} /\ UNCHANGED <<conn, s2c>>

RecvFailed(i) == s2c[i] = <<>> /\ ConnectionError(i) /\ UNCHANGED s2c
-----------------------------------------------------------------------------
(* The client's threads.                                                   *)

At(i, k, pc) == main = "join" /\ cmd = k /\ wpc[i] = pc

Current(i) == parts[i][widx[i]]       \* the piece the thread is working on

Goto(i, pc) == wpc' = [wpc EXCEPT ![i] = pc] /\ UNCHANGED widx

NextPiece(i) ==
    IF widx[i] = 1
    THEN wpc' = [wpc EXCEPT ![i] = "send"] /\ widx' = [widx EXCEPT ![i] = 2]
    ELSE Goto(i, "done")

Fail(i, r) == ret' = [ret EXCEPT ![i] = r]

ThreadFrame == UNCHANGED <<srvVars, main, cmd, avail, parts, goal, boundVars>>

\* handle_put goes on after a failed send ...
PutRequest(i) ==
    /\ At(i, "put", "send")
    /\ \/ Sent(i, <<Request("put", Current(i))>>) /\ UNCHANGED ret
       \/ SendFailed(i) /\ Fail(i, 1)
    /\ Goto(i, "recv")
    /\ ThreadFrame /\ UNCHANGED <<s2c, diskVars>>

\* ... and takes the cleared buffer of a failed recv for an acceptance.
PutReply(i) ==
    /\ At(i, "put", "recv")
    /\ \/ /\ Received(i) /\ UNCHANGED ret
          /\ IF Refused(Incoming(i)) THEN NextPiece(i) ELSE Goto(i, "data")
       \/ EndOfStream(i) /\ UNCHANGED ret /\ Goto(i, "data")
       \/ RecvFailed(i) /\ Fail(i, 1) /\ Goto(i, "data")
    /\ ThreadFrame /\ UNCHANGED <<c2s, diskVars>>

SliceOfFirstPart(i) == lfile[parts[i][1] + 1]       \* slip: one offset for both

\* The slice of the local file that send_file reads.
Slice(i) == lfile[Current(i) + 1]

\* send_file; nobody looks at its result.
PutData(i) ==
    /\ At(i, "put", "data")
    /\ Sent(i, <<Data(Slice(i)), Eof>>) \/ SendFailed(i)
    /\ NextPiece(i)
    /\ ThreadFrame /\ UNCHANGED <<s2c, ret, diskVars>>

GetRequest(i) ==
    /\ At(i, "get", "send")
    /\ \/ Sent(i, <<Request("get", Current(i))>>) /\ Goto(i, "recv") /\ UNCHANGED ret
       \/ SendFailed(i) /\ Fail(i, 1) /\ Goto(i, "done")
    /\ ThreadFrame /\ UNCHANGED <<s2c, diskVars>>

OpenLocalPiece(i) ==
    /\ lpart' = [lpart EXCEPT ![Current(i)] = Torn]
    /\ Goto(i, "data")
    /\ UNCHANGED <<ret, lfile>>

Refuse(i) == Fail(i, 2) /\ Goto(i, "done") /\ UNCHANGED diskVars

\* At the end of the stream handle_get looks at what the buffer held before:
\* the previous reply, which was an acceptance, or uninitialised memory.
GetReply(i) ==
    /\ At(i, "get", "recv")
    /\ \/ /\ Received(i)
          /\ IF Refused(Incoming(i)) THEN Refuse(i) ELSE OpenLocalPiece(i)
       \/ /\ EndOfStream(i)
          /\ \/ OpenLocalPiece(i)
             \/ (widx[i] = 1 \/ parts[i][1] = NoPart) /\ Refuse(i)
       \/ /\ RecvFailed(i)
          /\ Fail(i, 1) /\ Goto(i, "done") /\ UNCHANGED diskVars
    /\ ThreadFrame /\ UNCHANGED c2s

\* receive_file.  When it fails the file is never closed, and what stdio
\* still buffers of it never reaches the disk.
GetData(i) ==
    /\ At(i, "get", "data")
    /\ \/ /\ Received(i) /\ UNCHANGED ret
          /\ IF Incoming(i) = Eof
             THEN NextPiece(i) /\ UNCHANGED lpart
             ELSE /\ Goto(i, "data")
                  /\ lpart' = [lpart EXCEPT ![Current(i)] = Written(Incoming(i))]
       \/ /\ EndOfStream(i) \/ RecvFailed(i)
          /\ \E c \in {lpart[Current(i)], Torn} :
                 lpart' = [lpart EXCEPT ![Current(i)] = c]
          /\ Fail(i, 1) /\ Goto(i, "done")
    /\ ThreadFrame /\ UNCHANGED <<c2s, lfile>>

SimpleRequest(i) ==
    /\ \E k \in {"ls", "mkdir"} :
           /\ At(i, k, "send")
           /\ \/ Sent(i, <<Request(k, NoPart)>>) /\ Goto(i, "recv") /\ UNCHANGED ret
              \/ SendFailed(i) /\ Fail(i, 1) /\ Goto(i, "done")
    /\ ThreadFrame /\ UNCHANGED <<s2c, diskVars>>

SimpleReply(i) ==
    /\ \E k \in {"ls", "mkdir"} : At(i, k, "recv")
    /\ \/ Received(i) /\ UNCHANGED ret
       \/ EndOfStream(i) /\ UNCHANGED ret
       \/ RecvFailed(i) /\ Fail(i, 1)
    /\ Goto(i, "done")
    /\ ThreadFrame /\ UNCHANGED <<c2s, diskVars>>

Thread(i) ==
    \/ PutRequest(i) \/ PutReply(i) \/ PutData(i)
    \/ GetRequest(i) \/ GetReply(i) \/ GetData(i)
    \/ SimpleRequest(i) \/ SimpleReply(i)
-----------------------------------------------------------------------------
(* The servers' connection handler.                                        *)

ClientGone(i) == conn[i] = "closed"

Answered(i, pkts) ==
    s2c' = IF ClientGone(i) THEN s2c ELSE [s2c EXCEPT ![i] = @ \o pkts]

ServerFrame == UNCHANGED <<conn, main, cmd, avail, thrVars, diskVars, goal, boundVars>>

Asked(i, k)  == Head(c2s[i]).kind = k /\ i \in Accepts
AskedPart(i) == Head(c2s[i]).arg[1]

CanStore(i) == Asked(i, "put") /\ dir[i]
CanFetch(i) == Asked(i, "get") /\ dir[i] /\ store[i][AskedPart(i)] # Absent

\* fopen "wb" empties the piece before the first byte of it has arrived.
AcceptPut(i) ==
    /\ CanStore(i)
    /\ store' = [store EXCEPT ![i][AskedPart(i)] = Torn]
    /\ hpc' = [hpc EXCEPT ![i] = "store"]
    /\ hpart' = [hpart EXCEPT ![i] = AskedPart(i)]
    /\ Answered(i, <<Reply(0)>>)
    /\ UNCHANGED dir

SendPiece(i) ==
    /\ CanFetch(i)
    /\ Answered(i, <<Reply(0), Data(store[i][AskedPart(i)]), Eof>>)
    /\ UNCHANGED <<dir, store, hpc, hpart>>

MakeDir(i) ==
    /\ Asked(i, "mkdir")
    /\ dir' = [dir EXCEPT ![i] = TRUE]
    /\ Answered(i, <<Reply(0)>>)
    /\ UNCHANGED <<store, hpc, hpart>>

ListDir(i) ==
    /\ Asked(i, "ls")
    /\ Answered(i, <<Reply(0)>>)
    /\ UNCHANGED <<dir, store, hpc, hpart>>

\* An unknown user (a data packet names none), no directory or no file.
RefuseRequest(i) ==
    /\ ~ CanStore(i) /\ ~ CanFetch(i) /\ ~ Asked(i, "mkdir") /\ ~ Asked(i, "ls")
    /\ Answered(i, <<Reply(1)>>)
    /\ UNCHANGED <<dir, store, hpc, hpart>>

\* One packet read as a request.
ServerRequest(i) ==
    /\ up[i] /\ hpc[i] = "wait" /\ c2s[i] # <<>>
    /\ \/ AcceptPut(i) \/ SendPiece(i) \/ MakeDir(i) \/ ListDir(i)
       \/ RefuseRequest(i)
    /\ c2s' = [c2s EXCEPT ![i] = Tail(@)]
    /\ UNCHANGED up /\ ServerFrame

\* One packet read by receive_file.
ServerStore(i) ==
    /\ up[i] /\ hpc[i] = "store" /\ c2s[i] # <<>>
    /\ LET m == Head(c2s[i])
       IN  IF m = Eof
           THEN /\ hpc' = [hpc EXCEPT ![i] = "wait"]
                /\ hpart' = [hpart EXCEPT ![i] = NoPart]
                /\ UNCHANGED store
           ELSE /\ store' = [store EXCEPT ![i][hpart[i]] = Written(m)]
                /\ UNCHANGED <<hpc, hpart>>
    /\ c2s' = [c2s EXCEPT ![i] = Tail(@)]
    /\ UNCHANGED <<up, dir, s2c>> /\ ServerFrame

\* The client is gone in the middle of an upload.
ServerHangup(i) ==
    /\ up[i] /\ hpc[i] = "store" /\ c2s[i] = <<>> /\ ClientGone(i)
    /\ hpc' = [hpc EXCEPT ![i] = "wait"]
    /\ hpart' = [hpart EXCEPT ![i] = NoPart]
    /\ UNCHANGED <<up, dir, store, c2s, s2c>> /\ ServerFrame

Server(i) == ServerRequest(i) \/ ServerStore(i) \/ ServerHangup(i)
-----------------------------------------------------------------------------
(* Crashes, restarts and signals.                                          *)

\* Of the file being stored, what is still in stdio's buffer is lost.
ServerDies(i) ==
    /\ up' = [up EXCEPT ![i] = FALSE]
    /\ hpc' = [hpc EXCEPT ![i] = "wait"]
    /\ hpart' = [hpart EXCEPT ![i] = NoPart]
    /\ IF hpc[i] = "store"
       THEN /\ \E c \in {store[i][hpart[i]], Torn} :
                   store' = [store EXCEPT ![i][hpart[i]] = c]
            /\ goal' = 0
       ELSE UNCHANGED <<store, goal>>
    /\ c2s' = [c2s EXCEPT ![i] = <<>>]
    /\ UNCHANGED <<dir, main, cmd, avail, thrVars, diskVars>>

\* A crash; the client may find less in the stream than the server wrote.
Crash(i) ==
    /\ up[i] /\ nfaults < MaxFaults
    /\ nfaults' = nfaults + 1 /\ UNCHANGED <<ncmds, nlaunches>>
    /\ ServerDies(i)
    /\ IF conn[i] = "open"
       THEN /\ \E k \in FaultKinds : conn' = [conn EXCEPT ![i] = k]
            /\ \E n \in 0 .. Len(s2c[i]) :
                   s2c' = [s2c EXCEPT ![i] = SubSeq(@, 1, n)]
       ELSE UNCHANGED <<conn, s2c>>

\* Sending a file to a client that is gone raises SIGPIPE in the server.
ServerSigpipe(i) ==
    /\ up[i] /\ hpc[i] = "wait" /\ c2s[i] # <<>> /\ ClientGone(i)
    /\ CanFetch(i)
    /\ ServerDies(i)
    /\ UNCHANGED <<conn, s2c, boundVars>>

Restart(i) ==
    /\ ~ up[i]
    /\ up' = [up EXCEPT ![i] = TRUE]
    /\ UNCHANGED <<dir, store, hpc, hpart, netVars, main, cmd, avail, thrVars,
                   diskVars, goal, boundVars>>

\* The client dies; stdio's buffers die with it.  What it sent stays sent.
ClientDies ==
    /\ main' = "killed" /\ cmd' = "none"
    /\ parts' = NoParts /\ wpc' = NoThread /\ ret' = NoReturn
    /\ widx' = [i \in Host |-> 1]
    /\ avail' = [i \in Host |-> FALSE]
    /\ conn' = [i \in Host |-> "closed"]
    /\ s2c' = [i \in Host |-> <<>>]
    /\ LET open == {Current(i) : i \in {j \in Host : At(j, "get", "data")}}
       IN  \E lost \in SUBSET open :
               lpart' = [p \in Part |-> IF p \in lost THEN Torn ELSE lpart[p]]
    /\ UNCHANGED <<srvVars, c2s, lfile, goal, boundVars>>

\* No SIGPIPE handler is installed.
Sigpipe(i) ==
    /\ \/ main = "join" /\ wpc[i] = "send" /\ conn[i] = "dead"
       \/ At(i, "put", "data") /\ conn[i] \in {"fin", "dead"}
    /\ ClientDies

\* The user stops the client; main has no other way out of its loop.
Interrupt ==
    /\ main # "killed" /\ nlaunches < MaxLaunches
    /\ ClientDies

\* The client is started again, once the servers have noticed that the old
\* one is gone; it connects to the servers that are up.
Relaunch ==
    /\ main = "killed" /\ nlaunches < MaxLaunches
    /\ \A i \in Host : c2s[i] = <<>> /\ hpc[i] = "wait"
    /\ nlaunches' = nlaunches + 1 /\ UNCHANGED <<ncmds, nfaults>>
    /\ main' = "prompt" /\ avail' = up
    /\ conn' = [i \in Host |-> IF up[i] THEN "open" ELSE "closed"]
    /\ UNCHANGED <<srvVars, c2s, s2c, cmd, thrVars, diskVars, goal>>
-----------------------------------------------------------------------------
Join == JoinRetry \/ JoinAbort \/ JoinMerge \/ JoinList \/ JoinOther

Next ==
    \/ \E k \in Commands : Command(k)
    \/ Join
    \/ \E i \in Host : Thread(i) \/ Server(i)
    \/ \E i \in Host : Crash(i) \/ ServerSigpipe(i) \/ Restart(i) \/ Sigpipe(i)
    \/ Interrupt \/ Relaunch

\* The threads, the joins and the running servers are never starved; nobody
\* promises that a command is typed or that anything crashes or comes back.
Fairness ==
    /\ WF_vars(Join)
    /\ \A i \in Host : WF_vars(Thread(i) \/ Sigpipe(i)) /\ WF_vars(Server(i))

Spec == Init /\ [][Next]_vars /\ Fairness
-----------------------------------------------------------------------------
ServerTypeOK ==
    /\ up \in [Host -> BOOLEAN] /\ dir \in [Host -> BOOLEAN]
    /\ store \in [Host -> [Part -> Content]]
    /\ hpc \in [Host -> {"wait", "store"}]
    /\ hpart \in [Host -> Part \cup {NoPart}]

NetTypeOK ==
    /\ conn \in [Host -> {"closed", "open", "fin", "reset", "dead"}]
    /\ c2s \in [Host -> Seq(Packet)] /\ s2c \in [Host -> Seq(Packet)]

ThreadTypeOK ==
    /\ parts \in [Host -> (Part \cup {NoPart}) \X (Part \cup {NoPart})]
    /\ wpc \in [Host -> {"off", "send", "recv", "data", "done"}]
    /\ widx \in [Host -> {1, 2}] /\ ret \in [Host -> 0 .. 2]

ClientTypeOK ==
    /\ main \in {"prompt", "join", "killed"}
    /\ cmd \in Commands \cup {"none"}
    /\ avail \in [Host -> BOOLEAN]
    /\ lpart \in [Part -> Content] /\ lfile \in Seq(Content)
    /\ goal \in {0} \cup Version
    /\ ncmds \in 0 .. MaxCommands /\ nfaults \in 0 .. MaxFaults
    /\ nlaunches \in 1 .. MaxLaunches

\* Every variable of the servers, the connections, the threads and the main
\* loop stays within the values the program's fields can hold.
TypeOK == ServerTypeOK /\ NetTypeOK /\ ThreadTypeOK /\ ClientTypeOK

\* No two threads of a GET write the same local piece file.
NoSharedPartFile ==
    \A i, j \in Host :
        i # j /\ At(i, "get", "data") /\ At(j, "get", "data")
            => Current(i) # Current(j)

\* A server is written off only when its connection has really failed.
AvailAccurate ==
    main # "killed" => \A i \in Host : ~ avail[i] => conn[i] \notin {"open", "reset"}

\* Replies, file data and requests carry no identifiers: both ends of a
\* connection always agree on what the next packet of the stream is.
StreamAligned ==
    \A i \in Host :
        /\ s2c[i] # <<>> =>
               \/ wpc[i] = "recv" /\ Head(s2c[i]).kind = "rep"
               \/ wpc[i] = "data" /\ cmd = "get" /\ Head(s2c[i]).kind \in {"data", "eof"}
        /\ c2s[i] # <<>> =>
               IF hpc[i] = "wait" THEN Head(c2s[i]).kind \in Commands
                                  ELSE Head(c2s[i]).kind \in {"data", "eof"}

\* Once a PUT has returned with every server taking part, each piece ends up
\* on both servers that are to hold it, whatever crashes later.
ReplicaDurability ==
    goal # 0 => \A i \in Host : hpc[i] = "wait" =>
        \A p \in Stored(i, HashValue) : store[i][p] = Piece(p, goal)

\* A GET that ends by merging while each piece has an available host leaves
\* the version of the last complete PUT, whatever the threads' order, the
\* retries and the pieces left behind by earlier GETs.
GetReturnsLastPut ==
    [][JoinMerge /\ goal # 0 /\ Covered(avail, HashValue)
           => lfile' = Whole(goal)]_vars

\* README.txt:29: with every replica in place, a GET that comes back to the
\* prompt while each piece has a connected host has restored the file.
FailoverIntegrity ==
    [][main = "join" /\ cmd = "get" /\ main' = "prompt" /\ goal # 0
           /\ Covered([i \in Host |-> conn[i] = "open"], HashValue)
           => lfile' = Whole(goal)]_vars

\* Every command comes back to the prompt (or the client is killed).
CommandReturns == (main = "join") ~> (main # "join")
-----------------------------------------------------------------------------
(* The inductive invariant behind the theorems of DfcSession_proofs.       *)

\* What the threads were told to do is the plan for the command and the
\* available hosts, and a PUT reads a file that is whole.
Planned ==
    main = "join" =>
        /\ cmd \in Commands
        /\ cmd = "put" => lfile = Whole(ncmds + 1)
        /\ \A i \in Host : wpc[i] # "off" =>
               /\ avail[i]
               /\ parts[i] = PlanFor(cmd, avail, i)
               /\ widx[i] = 1 => parts[i][1] # NoPart

\* Threads run only during a command; a host is given up, or about to be,
\* only after its connection has failed; a running client never closes one.
Accounted ==
    /\ main # "join" => wpc = NoThread /\ ret = NoReturn
    /\ main = "killed" => \A i \in Host : conn[i] = "closed"
    /\ main # "killed" => \A i \in Host :
           /\ ~ avail[i] \/ ret[i] = 1 => conn[i] \notin {"open", "reset"}
           /\ avail[i] => conn[i] # "closed"

\* The rest of a piece in transit, alone or before the next request.
Rest(q)    == q = <<Eof>> \/ \E c \in Content : q = <<Data(c), Eof>>
Asks(q, k) == \E r \in Packet : r.kind = k /\ q = <<r>>
RestThenAsks(q, k) ==
    \E r \in Packet : r.kind = k /\ ( \/ q = <<Eof, r>>
                                      \/ \E c \in Content : q = <<Data(c), Eof, r>> )

\* The states of one connection: command k, thread at t, streams in and out
\* (of the client), handler at s.  First with a live connection ...
Live(k, t, in, out, s) ==
    \/ /\ t \in {"off", "send", "done"} /\ in = <<>>
       /\ (s = "wait" /\ out = <<>>) \/ (s = "store" /\ Rest(out))
    \/ /\ t = "recv" /\ in = <<>>
       /\ (s = "wait" /\ Asks(out, k)) \/ (s = "store" /\ RestThenAsks(out, k))
    \/ /\ t = "recv" /\ out = <<>>
       /\ \/ s = "wait" /\ in = <<Reply(1)>>
          \/ s = "wait" /\ in = <<Reply(0)>> /\ k \in {"ls", "mkdir"}
          \/ s = "store" /\ in = <<Reply(0)>> /\ k = "put"
          \/ /\ s = "wait" /\ k = "get"
             /\ \E c \in Content : in = <<Reply(0), Data(c), Eof>>
    \/ t = "data" /\ k = "put" /\ s = "store" /\ in = <<>> /\ out = <<>>
    \/ t = "data" /\ k = "get" /\ s = "wait" /\ Rest(in) /\ out = <<>>

\* ... then after the server has died ...
Broken(k, t, in, out, s) ==
    /\ out = <<>> /\ s = "wait"
    /\ \/ in = <<>>
       \/ t = "recv" /\ in \in {<<Reply(0)>>, <<Reply(1)>>}
       \/ /\ t = "recv" /\ k = "get"
          /\ \E c \in Content : in \in {<<Reply(0), Data(c)>>, <<Reply(0), Data(c), Eof>>}
       \/ /\ t = "data" /\ k = "get"
          /\ Rest(in) \/ \E c \in Content : in = <<Data(c)>>

\* ... and after the client has gone, or where it never was connected.
Deserted(t, in, out, s) ==
    /\ t = "off" /\ in = <<>>
    /\ \/ out = <<>>
       \/ s = "wait" /\ \E k \in Commands : Asks(out, k)
       \/ s = "store" /\ (Rest(out) \/ \E k \in Commands : RestThenAsks(out, k))

Shape(co, k, t, in, out, s) ==
    /\ co = "open" => Live(k, t, in, out, s)
    /\ co \in {"fin", "reset", "dead"} => Broken(k, t, in, out, s)
    /\ co = "closed" => Deserted(t, in, out, s)

Streams ==
    \A i \in Host : Shape(conn[i], cmd, wpc[i], s2c[i], c2s[i], hpc[i])

\* The threads follow the plan, hosts are given up with reason, and the two
\* ends of each connection are in step with what is in transit between them.
SessionInv == TypeOK /\ Planned /\ Accounted /\ Streams
-----------------------------------------------------------------------------
(* What the streams carry: the invariant behind the durability theorems of *)
(* DfcSession_proofs.                                                      *)

Packets(q) == {q[n] : n \in 1 .. Len(q)}

\* A handler at s that stores piece hp, with stream q to come and contents c
\* of piece p so far, leaves version v of p behind.
Holding(s, hp, q, c, p, v) ==
    IF s = "store" /\ hp = p
    THEN q # <<>> /\ (Head(q) = Data(Piece(p, v)) \/ (Head(q) = Eof /\ c = Piece(p, v)))
    ELSE c = Piece(p, v)

Holds(i, p, v) == Holding(hpc[i], hpart[i], c2s[i], store[i][p], p, v)

\* The pieces the thread of host i has finished with.
Finished(i) ==
    IF wpc[i] = "done" THEN Named(parts[i])
    ELSE IF widx[i] = 2 THEN Named(parts[i]) \ {Current(i)} ELSE {}

\* Every available host has a thread, and it asks for its current piece.
Asking ==
    /\ main = "join" => \A i \in Host : avail[i] => wpc[i] # "off"
    /\ \A i \in Host : wpc[i] = "recv" =>
           \A m \in Packets(c2s[i]) :
               m.kind \in {"put", "get"} => m.arg[1] = Current(i)

\* On a connection that has not failed, to a server that takes the file, a
\* PUT leaves behind it the new version of each piece.
Uploading ==
    main = "join" /\ cmd = "put" => \A i \in Host :
        wpc[i] # "off" /\ conn[i] = "open" /\ dir[i] /\ i \in Accepts =>
            /\ \A p \in Finished(i) : Holds(i, p, ncmds + 1)
            /\ s2c[i] # <<Reply(1)>>
            /\ wpc[i] = "data" \/ s2c[i] # <<>> => hpart[i] = Current(i)

\* While the promise of a PUT holds, all that a GET is sent of a piece is the
\* version promised, and what its threads have finished with is in place.
Downloading ==
    main = "join" /\ cmd = "get" /\ goal # 0 => \A i \in Host :
        wpc[i] # "off" =>
            /\ ret[i] = 0 => \A p \in Finished(i) : lpart[p] = Piece(p, goal)
            /\ \A m \in Packets(s2c[i]) :
                   m.kind = "data" => m = Data(Piece(Current(i), goal))
            /\ wpc[i] = "data" /\ s2c[i] # <<>> /\ Head(s2c[i]) = Eof
                   => lpart[Current(i)] = Piece(Current(i), goal)

\* The promise itself: both replicas hold each piece and no PUT is under way.
Settled ==
    goal # 0 =>
        /\ cmd # "put"
        /\ \A i \in Host :
               /\ dir[i]
               /\ \A p \in Stored(i, HashValue) : Holds(i, p, goal)
               /\ \A m \in Packets(c2s[i]) : m.kind # "put"

\* A promise once made is on its way to both replicas and to every GET.
ReplicaInv == SessionInv /\ Asking /\ Uploading /\ Downloading /\ Settled

\* Where every server knows the user and a dying one resets its connection, no
\* thread of a GET is refused, nor deceived by an end of stream.
NoRefusal ==
    /\ \A i \in Host : conn[i] # "fin"
    /\ cmd = "get" => \A i \in Host :
           /\ wpc[i] \in {"recv", "data"} => conn[i] # "dead"
           /\ goal # 0 => ret[i] # 2 /\ Reply(1) \notin Packets(s2c[i])

\* The same for servers that can be failed over.
FailoverInv == ReplicaInv /\ NoRefusal
=============================================================================
