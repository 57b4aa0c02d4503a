------------------------------ MODULE UdpSession ------------------------------
(***************************************************************************)
(* The sessions of the UDP file server: the command loops of udp/client.c  *)
(* and udp/server.c, with the transfers they start.  Nothing is            *)
(* acknowledged, nothing times out, and each side reads whatever datagram  *)
(* comes next.  A datagram read as the other kind has the fields that its  *)
(* bytes make up (util.h): a data packet is a message of type 0, a message *)
(* a data packet without end-of-file that holds no part of the file.       *)
(***************************************************************************)
EXTENDS Integers, Sequences, FiniteSets, SequencesExt

CONSTANTS
    Client,
    Files,          \* file names, on every host
    Chunks,         \* chunks of each file
    MaxCommands,    \* bound on the commands a client sends
    MaxLost,        \* bound on the datagrams lost
    MaxOvertaken    \* bound on the datagrams delivered out of order

CMD_LS    == 1
CMD_PUT   == 2
CMD_GET   == 3
CMD_EXIT  == 4
CMD_UND   == 5
MSG_RESP  == 6
GET_START == 7
PUT_START == 8

NoFile == "no file"
Server == "server"

ASSUME SessionAssumption ==
    /\ NoFile \notin Files /\ Server \notin Client
    /\ Chunks \in Nat /\ MaxCommands \in Nat
    /\ MaxLost \in Nat /\ MaxOvertaken \in Nat

VARIABLES
    pc,             \* where each client is
    cmd,            \* its last command: type and operand
    asked,          \* the number of commands it has sent
    msg,            \* whether its msg pointer is set: never cleared
    fp,             \* the file it has open
    next,           \* the next data packet it sends
    reply,          \* the datagram it took for the last reply (observed)
    written,        \* what receive_file has written, for each host
    spc,            \* where the server is
    sfp,            \* the file it has open
    remote,         \* the client it answers
    snext,          \* the next data packet it sends
    inbox,          \* datagrams on their way to each host
    faults,         \* losses and overtakings so far, and whether one of them
                    \* was of more than data packets
    outcome         \* what each finished transfer has left (observed)

vars == <<pc, cmd, asked, msg, fp, next, reply, written, spc, sfp, remote,
          snext, inbox, faults, outcome>>
-----------------------------------------------------------------------------
(* Datagrams.  re is the command a message answers (observed): 0 for none. *)

Message(from, type, file, text, re) ==
    [kind |-> "msg", from |-> from, type |-> type, file |-> file,
     text |-> text, re |-> re]

\* Data packet n of the three passes over the file; the last is end-of-file.
Packets == 3 * Chunks + 1
Data(from, file, n) ==
    [kind |-> "data", from |-> from, type |-> 0, file |-> file,
     text |-> n < Packets, re |-> n]

Eof(d)   == d.kind = "data" /\ d.re = Packets
Chunk(d) == [from |-> d.from, file |-> d.file, number |-> ((d.re - 1) % Chunks) + 1]
Noise    == [from |-> Server, file |-> NoFile, number |-> 0]

\* A message leaves its text at an offset its text makes up.
Writes(d) == IF d.kind = "data" THEN {Chunk(d)} ELSE IF d.text THEN {Noise} ELSE {}

Whole(from, file) ==
    {[from |-> from, file |-> file, number |-> n] : n \in 1 .. Chunks}

Host == Client \cup {Server}
Post(to, d) == [inbox EXCEPT ![to] = Append(@, d)]
Take(h)     == [inbox EXCEPT ![h] = Tail(@)]

NoCommand == [type |-> 0, file |-> NoFile]

Init ==
    /\ pc = [c \in Client |-> "prompt"] /\ cmd = [c \in Client |-> NoCommand]
    /\ asked = [c \in Client |-> 0] /\ msg = [c \in Client |-> FALSE]
    /\ fp = [c \in Client |-> NoFile] /\ next = [c \in Client |-> 1]
    /\ reply = [c \in Client |-> Message(Server, MSG_RESP, NoFile, FALSE, 0)]
    /\ written = [h \in Host |-> {}]
    /\ spc = "ready" /\ sfp = NoFile /\ snext = 1
    /\ remote \in Client
    /\ inbox = [h \in Host |-> <<>>]
    /\ faults = [lost |-> 0, overtaken |-> 0, control |-> FALSE]
    /\ outcome = {}

ClientOnly == UNCHANGED <<spc, sfp, remote, snext, faults>>
ServerOnly == UNCHANGED <<pc, cmd, asked, msg, fp, next, reply, faults>>
-----------------------------------------------------------------------------
(* The client.                                                             *)

Commands == {[type |-> t, file |-> NoFile] : t \in {CMD_LS, CMD_EXIT, CMD_UND}}
            \cup {[type |-> t, file |-> f] : t \in {CMD_GET, CMD_PUT}, f \in Files}

\* One line typed: a get or put whose local file cannot be opened is not sent.
Command(c) ==
    /\ pc[c] = "prompt" /\ asked[c] < MaxCommands
    /\ \E k \in Commands :
          /\ cmd' = [cmd EXCEPT ![c] = k]
          /\ fp' = [fp EXCEPT ![c] = k.file]
          /\ msg' = [msg EXCEPT ![c] = @ \/ k.type \notin {CMD_LS, CMD_EXIT}]
          /\ written' = IF k.type = CMD_GET THEN [written EXCEPT ![c] = {}] ELSE written
          /\ inbox' = Post(Server, Message(c, k.type, k.file, msg'[c], asked[c] + 1))
    /\ asked' = [asked EXCEPT ![c] = @ + 1]
    /\ pc' = [pc EXCEPT ![c] = "waiting"]
    /\ UNCHANGED <<next, reply, outcome>> /\ ClientOnly

Closed(c) == pc' = [pc EXCEPT ![c] = "prompt"] /\ fp' = [fp EXCEPT ![c] = NoFile]

\* Whatever datagram comes next is the reply.
Reply(c) ==
    /\ pc[c] = "waiting" /\ inbox[c] # <<>>
    /\ LET d == Head(inbox[c])
       IN  /\ reply' = [reply EXCEPT ![c] = d]
           /\ \/ /\ d.type = GET_START /\ fp[c] # NoFile
                 /\ pc' = [pc EXCEPT ![c] = "receiving"] /\ UNCHANGED <<fp, next>>
              \/ /\ d.type = PUT_START /\ fp[c] # NoFile
                 /\ pc' = [pc EXCEPT ![c] = "sending"]
                 /\ next' = [next EXCEPT ![c] = 1] /\ UNCHANGED fp
              \/ /\ d.type \notin {GET_START, PUT_START} \/ fp[c] = NoFile
                 /\ Closed(c) /\ UNCHANGED next
    /\ inbox' = Take(c)
    /\ UNCHANGED <<cmd, asked, msg, written, outcome>> /\ ClientOnly

NoEof(d)  == d.kind = "data"                        \* slip: any data packet ends it
Ended(d)  == Eof(d)

\* A file opened for reading takes no writes.
ClientReceives(c) ==
    /\ pc[c] = "receiving" /\ inbox[c] # <<>>
    /\ LET d == Head(inbox[c])
       IN  IF Ended(d)
           THEN /\ Closed(c)
                /\ outcome' = outcome \cup {[host |-> c, from |-> Server,
                       file |-> fp[c], written |-> written[c]]}
                /\ UNCHANGED written
           ELSE /\ written' = IF cmd[c].type # CMD_GET THEN written
                              ELSE [written EXCEPT ![c] = @ \cup Writes(d)]
                /\ UNCHANGED <<pc, fp, outcome>>
    /\ inbox' = Take(c)
    /\ UNCHANGED <<cmd, asked, msg, next, reply>> /\ ClientOnly

ClientSends(c) ==
    /\ pc[c] = "sending"
    /\ inbox' = Post(Server, Data(c, fp[c], next[c]))
    /\ next' = [next EXCEPT ![c] = @ + 1]
    /\ IF next[c] = Packets THEN Closed(c) ELSE UNCHANGED <<pc, fp>>
    /\ UNCHANGED <<cmd, asked, msg, reply, written, outcome>> /\ ClientOnly

ClientStep(c) == Reply(c) \/ ClientReceives(c) \/ ClientSends(c)
-----------------------------------------------------------------------------
(* The server.                                                             *)

\* Any type that is not a command is echoed: a data packet too.
ServerCommand ==
    /\ spc = "ready" /\ inbox[Server] # <<>>
    /\ LET d  == Head(inbox[Server])
           re == IF d.kind = "msg" THEN d.re ELSE 0
           Answer(type) == [Take(Server) EXCEPT ![d.from] =
                Append(@, Message(Server, type, d.file, type = MSG_RESP, re))]
       IN  /\ remote' = d.from
           /\ \/ /\ d.type = CMD_GET /\ spc' = "sending" /\ sfp' = d.file
                 /\ snext' = 1 /\ inbox' = Answer(GET_START) /\ UNCHANGED written
              \/ /\ d.type = CMD_PUT /\ spc' = "receiving" /\ sfp' = d.file
                 /\ written' = [written EXCEPT ![Server] = {}]
                 /\ inbox' = Answer(PUT_START) /\ UNCHANGED snext
              \/ /\ d.type \in {CMD_GET, CMD_PUT}     \* fopen fails
                 /\ inbox' = Answer(MSG_RESP) /\ UNCHANGED <<spc, sfp, snext, written>>
              \/ /\ d.type \notin {CMD_GET, CMD_PUT}
                 /\ spc' = IF d.type = CMD_EXIT THEN "exited" ELSE "ready"
                 /\ inbox' = Answer(MSG_RESP) /\ UNCHANGED <<sfp, snext, written>>
    /\ UNCHANGED outcome /\ ServerOnly

SendsOn(n)    == n = Packets + 1                    \* slip: one packet too many
StopsShort(n) == n = Packets - 1                    \* slip: end-of-file not sent
LastPacket(n) == n = Packets

ServerSends ==
    /\ spc = "sending"
    /\ inbox' = Post(remote, Data(Server, sfp, snext))
    /\ IF LastPacket(snext) THEN spc' = "ready" /\ sfp' = NoFile ELSE UNCHANGED <<spc, sfp>>
    /\ snext' = snext + 1
    /\ UNCHANGED <<remote, written, outcome>> /\ ServerOnly

\* The sender of the last datagram is the remote, whoever it is.
ServerReceives ==
    /\ spc = "receiving" /\ inbox[Server] # <<>>
    /\ LET d == Head(inbox[Server])
       IN  /\ remote' = d.from
           /\ IF Ended(d)
              THEN /\ spc' = "ready" /\ sfp' = NoFile
                   /\ outcome' = outcome \cup {[host |-> Server, from |-> d.from,
                          file |-> sfp, written |-> written[Server]]}
                   /\ UNCHANGED written
              ELSE /\ written' = [written EXCEPT ![Server] = @ \cup Writes(d)]
                   /\ UNCHANGED <<spc, sfp, outcome>>
    /\ inbox' = Take(Server)
    /\ UNCHANGED snext /\ ServerOnly

ServerStep == ServerCommand \/ ServerSends \/ ServerReceives
-----------------------------------------------------------------------------
(* The network.                                                            *)

Control(d) == d.kind = "msg" \/ Eof(d)

Lose(h) ==
    /\ faults.lost < MaxLost
    /\ \E i \in 1 .. Len(inbox[h]) :
          /\ inbox' = [inbox EXCEPT ![h] = RemoveAt(@, i)]
          /\ faults' = [faults EXCEPT !.lost = @ + 1,
                            !.control = @ \/ Control(inbox[h][i])]
    /\ UNCHANGED <<pc, cmd, asked, msg, fp, next, reply, written, spc, sfp,
                   remote, snext, outcome>>

Overtake(h) ==
    /\ faults.overtaken < MaxOvertaken
    /\ \E i \in 1 .. Len(inbox[h]) - 1 :
          LET d == inbox[h][i]
              e == inbox[h][i + 1]
          IN  /\ inbox' = [inbox EXCEPT ![h] = [@ EXCEPT ![i] = e, ![i + 1] = d]]
              /\ faults' = [faults EXCEPT !.overtaken = @ + 1,
                                !.control = @ \/ Control(d) \/ Control(e)]
    /\ UNCHANGED <<pc, cmd, asked, msg, fp, next, reply, written, spc, sfp,
                   remote, snext, outcome>>

Next ==
    \/ \E c \in Client : Command(c) \/ ClientStep(c)
    \/ ServerStep
    \/ \E h \in Host : Lose(h) \/ Overtake(h)

\* The programs run; users type when they like.
Spec == /\ Init /\ [][Next]_vars
        /\ WF_vars(ServerStep) /\ \A c \in Client : WF_vars(ClientStep(c))
-----------------------------------------------------------------------------
Packet == [kind : {"msg", "data"}, from : Host, type : 0 .. PUT_START,
           file : Files \cup {NoFile}, text : BOOLEAN, re : Nat]
Part   == [from : Host, file : Files \cup {NoFile}, number : 0 .. Chunks]

TypeOK ==
    /\ pc \in [Client -> {"prompt", "waiting", "receiving", "sending"}]
    /\ cmd \in [Client -> Commands \cup {NoCommand}]
    /\ asked \in [Client -> 0 .. MaxCommands] /\ msg \in [Client -> BOOLEAN]
    /\ fp \in [Client -> Files \cup {NoFile}] /\ sfp \in Files \cup {NoFile}
    /\ next \in [Client -> 1 .. Packets + 1] /\ snext \in 1 .. Packets + 1
    /\ reply \in [Client -> Packet] /\ written \in [Host -> SUBSET Part]
    /\ spc \in {"ready", "sending", "receiving", "exited"} /\ remote \in Client
    /\ inbox \in [Host -> Seq(Packet)]
    /\ outcome \subseteq [host : Host, from : Host, file : Files, written : SUBSET Part]
    /\ faults \in [lost : 0 .. MaxLost, overtaken : 0 .. MaxOvertaken, control : BOOLEAN]

\* The datagram a client takes for the reply to a command was sent in answer
\* to that command, as long as data packets are all that is lost or overtaken.
ReplyAnswers ==
    ~ faults.control => \A c \in Client : pc[c] # "waiting" /\ asked[c] > 0 =>
        reply[c].kind = "msg" /\ reply[c].re = asked[c]

\* A transfer that has ended has left the whole file, and nothing else, from
\* the host it was asked of: of each chunk two copies of three may be lost.
FilesArrive ==
    ~ faults.control /\ faults.lost < 3 =>
        \A t \in outcome : t.written = Whole(t.from, t.file)

\* Between commands nothing is left over: no datagram on its way to a client
\* at its prompt, and no transfer that it has no part in any more.
NothingLeftOver ==
    ~ faults.control => \A c \in Client : pc[c] = "prompt" =>
        /\ inbox[c] = <<>>
        /\ \A i \in 1 .. Len(inbox[Server]) :
               inbox[Server][i].from = c => inbox[Server][i].kind = "data"
        /\ ~ (spc = "sending" /\ remote = c)

\* A command comes to an end, unless the server has been told to exit or
\* more than data packets has been lost or overtaken.
CommandsEnd ==
    \A c \in Client : (pc[c] # "prompt") ~>
        (pc[c] = "prompt" \/ spc = "exited" \/ faults.control)
-----------------------------------------------------------------------------
(* The invariants of the proofs.  Most of them are about one client and    *)
(* what is under way between it and the server.                            *)

Served(c) == spc = "sending" /\ remote = c

\* c has been told to start, and has not been told that this is over.
Downloads(c) ==
    \/ pc[c] = "receiving"
    \/ pc[c] = "waiting" /\ inbox[c] # <<>> /\ Head(inbox[c]).type = GET_START
Uploads(c) ==
    \/ pc[c] = "sending"
    \/ pc[c] = "waiting" /\ inbox[c] # <<>> /\ Head(inbox[c]).type = PUT_START
    \/ \E d \in ToSet(inbox[Server]) : d.kind = "data" /\ d.from = c

\* What needs no network to behave: who has which file open, and what
\* datagrams there are.
Placed ==
    /\ spc = "sending" => snext <= Packets
    /\ spc \in {"sending", "receiving"} => sfp \in Files
    /\ \A c \in Client :
           /\ pc[c] = "sending" => next[c] <= Packets
           /\ pc[c] \in {"sending", "receiving"} => fp[c] \in Files
    /\ \A d \in ToSet(inbox[Server]) :
           /\ d.from \in Client
           /\ d.type \in {CMD_GET, CMD_PUT} => d.file \in Files
    /\ \A h \in Host : \A d \in ToSet(inbox[h]) : d.kind = "data" => d.re \in 1 .. Packets

\* Of one client, data comes before a message, and end-of-file after the rest.
Sorted(q) ==
    \A i, j \in 1 .. Len(q) : i < j /\ q[i].from = q[j].from =>
        q[i].kind = "data" /\ (Eof(q[i]) => q[j].kind = "msg")

\* A command the server has not read is the one its client waits for.
Commanded ==
    \A d \in ToSet(inbox[Server]) : d.kind = "msg" =>
        /\ pc[d.from] = "waiting" /\ inbox[d.from] = <<>> /\ ~ Served(d.from)
        /\ d.type = cmd[d.from].type /\ d.file = fp[d.from] /\ d.re = asked[d.from]

\* A client that waits finds at most the reply first, and what it announces.
Answered(c) ==
    /\ pc[c] \in {"prompt", "sending"} => inbox[c] = <<>> /\ ~ Served(c)
    /\ pc[c] = "waiting" => fp[c] = cmd[c].file /\ (inbox[c] = <<>> => ~ Served(c))
    /\ pc[c] = "waiting" /\ inbox[c] # <<>> =>
           LET d == Head(inbox[c])
           IN  /\ d.kind = "msg" /\ d.re = asked[c]
               /\ \/ d.type = GET_START /\ cmd[c].type = CMD_GET /\ fp[c] # NoFile
                  \/ /\ d.type \in {PUT_START, MSG_RESP}
                     /\ d.type = PUT_START => cmd[c].type = CMD_PUT /\ fp[c] # NoFile
                     /\ Tail(inbox[c]) = <<>> /\ ~ Served(c)
               /\ \A e \in ToSet(Tail(inbox[c])) : e.kind = "data"
    /\ pc[c] = "receiving" =>
           cmd[c].type = CMD_GET /\ \A d \in ToSet(inbox[c]) : d.kind = "data"
    /\ pc[c] # "waiting" /\ asked[c] > 0 =>
           reply[c].kind = "msg" /\ reply[c].re = asked[c]

\* The end-of-file is the last datagram, and is still to come or there.
EndsWith(q, more) ==
    /\ \A i \in 1 .. Len(q) : Eof(q[i]) => i = Len(q) /\ ~ more
    /\ more \/ (q # <<>> /\ Eof(q[Len(q)]))

\* The server receives from whoever uploads: from one client.
OneUploads ==
    /\ \A c \in Client : Uploads(c) => spc = "receiving"
    /\ \A c, d \in Client : Uploads(c) /\ Uploads(d) => c = d
    /\ \A d \in ToSet(inbox[Server]) : d.kind = "data" =>
           /\ IF pc[d.from] = "sending" THEN ~ Eof(d)
              ELSE \E e \in ToSet(inbox[Server]) : Eof(e) /\ e.from = d.from
           /\ pc[d.from] = "waiting" => inbox[d.from] = <<>>

InStep ==
    /\ Sorted(inbox[Server]) /\ Commanded /\ OneUploads
    /\ \A c \in Client : Answered(c) /\ (Downloads(c) => EndsWith(inbox[c], Served(c)))

LoopInv == TypeOK /\ Placed /\ (~ faults.control => InStep)

\* The data packets in a queue q, and those of the first n that carry a chunk:
\* unless it is written (w), no more of them are missing than were lost.
Carries(q)     == {d.re : d \in {e \in ToSet(q) : e.kind = "data"}}
CopiesOf(k, n) == {m \in 1 .. n : m # Packets /\ ((m - 1) % Chunks) + 1 = k}
Arriving(q, w, lost, from, file, n) ==
    /\ Carries(q) \subseteq 1 .. n
    /\ \A d \in ToSet(q) : d.kind = "data" => d.from = from /\ d.file = file
    /\ w \subseteq Whole(from, file)
    /\ \A k \in 1 .. Chunks :
           \/ [from |-> from, file |-> file, number |-> k] \in w
           \/ Cardinality(CopiesOf(k, n) \ Carries(q)) <= lost

\* What each transfer has sent so far: nothing before the reply is read.
SentUp(c)   == IF pc[c] = "waiting" /\ inbox[c] # <<>> THEN 0 ELSE next[c] - 1
SentDown(c) == IF Served(c) THEN snext - 1 ELSE Packets

CarriedDown(c) ==
    /\ pc[c] = "waiting" /\ cmd[c].type = CMD_GET => written[c] = {}
    /\ Downloads(c) => Arriving(inbox[c], written[c], faults.lost,
                                Server, fp[c], SentDown(c))
    /\ Served(c) => sfp = fp[c]

\* Not with two clients: the server takes the messages of one for the data of
\* the other.
CarriedUp(c) ==
    /\ Uploads(c) => Arriving(inbox[Server], written[Server], faults.lost,
                              c, sfp, SentUp(c))
    /\ Uploads(c) /\ (pc[c] = "sending" \/ inbox[c] # <<>>) => sfp = fp[c]
    /\ \A d \in ToSet(inbox[Server]) :
           d.kind = "data" /\ d.from = c /\ pc[c] # "sending" => next[c] = Packets + 1

\* What one client gets and puts arrives whole.
FileInv ==
    /\ LoopInv /\ FilesArrive
    /\ ~ faults.control => \A c \in Client : CarriedDown(c) /\ CarriedUp(c)
=============================================================================
