-------------------------------- MODULE Proxy --------------------------------
(***************************************************************************)
(* The web proxy (proxy/proxy.c): main accepts and starts a thread for     *)
(* each connection; a thread reads one request, connects to the server the *)
(* URI names, passes the request on and relays the answer until the server *)
(* closes.  A thread is named after the connection it was started for.     *)
(***************************************************************************)
EXTENDS Integers, Sequences, FiniteSets

CONSTANTS
    Conn,           \* client connections
    Host,           \* hosts that gethostbyname finds
    Uris,           \* addresses clients ask for: [http, host, port], port 0 if absent
    MaxChunks       \* bound on what a server sends on one connection

DEFAULT_PORT == 80
NoHost       == "unknown host"
NoConn       == "no connection"

Uri   == [http : BOOLEAN, host : Host \cup {NoHost}, port : Nat]
NoUri == [http |-> FALSE, host |-> NoHost, port |-> 0]

ASSUME ProxyAssumption ==
    /\ Uris \subseteq Uri \ {NoUri}
    /\ NoHost \notin Host /\ NoConn \notin Conn
    /\ MaxChunks \in Nat

VARIABLES
    client,         \* the client's end of each connection
    request,        \* what it has sent, or NoRequest
    heap,           \* the cells main allocates for accepted descriptors
    pc,             \* where each thread is
    connfd,         \* the connection the thread works on
    address,        \* what parse_address found
    hostent,        \* the static buffer gethostbyname returns
    proxyfd,        \* the server the thread is connected to
    served,         \* that server: "idle", "asked" or "closed"
    sent,           \* chunks it has sent
    total_size,     \* chunks the thread has received
    got,            \* chunks that have been sent to each client
    refused,        \* clients that were sent the error message
    open,           \* descriptors of the process: client side and server side
    alive           \* the process runs

vars == <<client, request, heap, pc, connfd, address, hostent, proxyfd, served,
          sent, total_size, got, refused, open, alive>>
-----------------------------------------------------------------------------
NoRequest == [get |-> FALSE, uri |-> NoUri]
Requests  == [get : BOOLEAN, uri : Uris]
Nowhere   == [host |-> NoHost, port |-> 0]

Init ==
    /\ client = [c \in Conn |-> "none"] /\ request = [c \in Conn |-> NoRequest]
    /\ heap = [c \in Conn |-> NoConn] /\ pc = [c \in Conn |-> "none"]
    /\ connfd = [c \in Conn |-> NoConn] /\ address = [c \in Conn |-> Nowhere]
    /\ hostent = NoHost /\ proxyfd = [c \in Conn |-> Nowhere]
    /\ served = [c \in Conn |-> "idle"] /\ sent = [c \in Conn |-> 0]
    /\ total_size = [c \in Conn |-> 0] /\ got = [c \in Conn |-> <<>>]
    /\ refused = {} /\ open = {} /\ alive = TRUE
-----------------------------------------------------------------------------
(* Clients and servers.                                                    *)

Connect(c) ==
    /\ alive /\ client[c] = "none"
    /\ client' = [client EXCEPT ![c] = "open"]
    /\ UNCHANGED <<request, heap, pc, connfd, address, hostent, proxyfd, served,
                   sent, total_size, got, refused, open, alive>>

Ask(c) ==
    /\ client[c] = "open" /\ request[c] = NoRequest
    /\ \E r \in Requests : request' = [request EXCEPT ![c] = r]
    /\ UNCHANGED <<client, heap, pc, connfd, address, hostent, proxyfd, served,
                   sent, total_size, got, refused, open, alive>>

\* A client closes, or resets the connection.
Leave(c) ==
    /\ client[c] = "open"
    /\ \E s \in {"fin", "reset"} : client' = [client EXCEPT ![c] = s]
    /\ UNCHANGED <<request, heap, pc, connfd, address, hostent, proxyfd, served,
                   sent, total_size, got, refused, open, alive>>

Answer(t) ==
    /\ served[t] = "asked" /\ sent[t] < MaxChunks
    /\ sent' = [sent EXCEPT ![t] = @ + 1]
    /\ UNCHANGED <<client, request, heap, pc, connfd, address, hostent, proxyfd,
                   served, total_size, got, refused, open, alive>>

CloseUpstream(t) ==
    /\ served[t] = "asked" /\ served' = [served EXCEPT ![t] = "closed"]
    /\ UNCHANGED <<client, request, heap, pc, connfd, address, hostent, proxyfd,
                   sent, total_size, got, refused, open, alive>>
-----------------------------------------------------------------------------
(* main and the start of a thread.                                         *)

OneCell(c) == CHOOSE d \in Conn : TRUE              \* slip: int connfd in main
Cell(c)    == c

accept(c) ==
    /\ alive /\ client[c] # "none" /\ pc[c] = "none"
    /\ heap' = [heap EXCEPT ![Cell(c)] = c]
    /\ pc' = [pc EXCEPT ![c] = "started"]
    /\ open' = open \cup {<<"client", c>>}
    /\ UNCHANGED <<client, request, connfd, address, hostent, proxyfd, served,
                   sent, total_size, got, refused, alive>>

connection_handler(t) ==
    /\ alive /\ pc[t] = "started"
    /\ connfd' = [connfd EXCEPT ![t] = heap[Cell(t)]]
    /\ pc' = [pc EXCEPT ![t] = "reading"]
    /\ UNCHANGED <<client, request, heap, address, hostent, proxyfd, served,
                   sent, total_size, got, refused, open, alive>>
-----------------------------------------------------------------------------
(* read_request.                                                           *)

parse_address(u) ==
    [host |-> u.host, port |-> IF u.port = 0 THEN DEFAULT_PORT ELSE u.port]

\* send on the client's socket: whether it arrives, and what becomes of it.
send(c) ==
    CASE client[c] = "open"  -> UNCHANGED <<client, alive>>
      [] client[c] = "fin"   -> /\ \E s \in {"fin", "dead"} :
                                       client' = [client EXCEPT ![c] = s]
                                /\ UNCHANGED alive
      [] client[c] = "reset" -> /\ client' = [client EXCEPT ![c] = "dead"]
                                /\ UNCHANGED alive
      [] client[c] = "dead"  -> alive' = FALSE /\ UNCHANGED client
      [] OTHER               -> UNCHANGED <<client, alive>>

\* Returning -1 ends the thread and leaves the connection open.
GiveUp(t) ==
    /\ pc' = [pc EXCEPT ![t] = "lost"]
    /\ UNCHANGED address

Parse(t, r) ==
    \/ /\ ~ r.get
       /\ GiveUp(t) /\ UNCHANGED <<client, refused, alive>>
    \/ /\ r.get /\ ~ r.uri.http
       /\ send(connfd[t])
       /\ refused' = refused \cup {connfd[t]}
       /\ GiveUp(t)
    \/ /\ r.get /\ r.uri.http
       /\ address' = [address EXCEPT ![t] = parse_address(r.uri)]
       /\ pc' = [pc EXCEPT ![t] = "looking up"]
       /\ UNCHANGED <<client, refused, alive>>

\* When recv fails (the reset is reported once) the buffer, never initialised,
\* is parsed all the same: it may hold the request of an earlier thread.
read_request(t) ==
    /\ alive /\ pc[t] = "reading"
    /\ LET c == connfd[t]
       IN  \/ /\ client[c] \in {"open", "fin"} /\ request[c] # NoRequest
              /\ Parse(t, request[c])
           \/ /\ client[c] = "fin" /\ request[c] = NoRequest
              /\ GiveUp(t) /\ UNCHANGED <<client, refused, alive>>
           \/ /\ client[c] = "reset" /\ client' = [client EXCEPT ![c] = "dead"]
              /\ UNCHANGED <<pc, address, refused, alive>>
           \/ /\ client[c] = "dead"
              /\ \E r \in Requests : Parse(t, r)
    /\ UNCHANGED <<request, heap, connfd, hostent, proxyfd, served, sent,
                   total_size, got, open>>
-----------------------------------------------------------------------------
(* open_clientfd, in two steps: the result of gethostbyname is in a buffer *)
(* all threads share.                                                      *)

Failed(t) ==
    /\ pc' = [pc EXCEPT ![t] = "relaying"]
    /\ UNCHANGED <<proxyfd, served>>

gethostbyname(t) ==
    /\ alive /\ pc[t] = "looking up"
    /\ open' = open \cup {<<"server", t>>}
    /\ \/ /\ address[t].host \in Host
          /\ hostent' = address[t].host
          /\ pc' = [pc EXCEPT ![t] = "connecting"]
          /\ UNCHANGED <<proxyfd, served>>
       \/ Failed(t) /\ UNCHANGED hostent
    /\ UNCHANGED <<client, request, heap, connfd, address, sent, total_size,
                   got, refused, alive>>

\* bcopy, connect and, in send_request, the request.
connect(t) ==
    /\ alive /\ pc[t] = "connecting"
    /\ \/ /\ proxyfd' = [proxyfd EXCEPT ![t] =
                             [host |-> hostent, port |-> address[t].port % 2^16]]
          /\ served' = [served EXCEPT ![t] = "asked"]
          /\ pc' = [pc EXCEPT ![t] = "relaying"]
       \/ Failed(t)
    /\ UNCHANGED <<client, request, heap, connfd, address, hostent, sent,
                   total_size, got, refused, open, alive>>
-----------------------------------------------------------------------------
(* The loop of connection_handler.                                         *)

Chunk(t, n) == [server |-> t, number |-> n]

Relay(t) ==
    /\ alive /\ pc[t] = "relaying" /\ total_size[t] < sent[t]
    /\ total_size' = [total_size EXCEPT ![t] = @ + 1]
    /\ send(connfd[t])
    /\ got' = IF client[connfd[t]] # "open" THEN got
              ELSE [got EXCEPT ![connfd[t]] = Append(@, Chunk(t, total_size[t] + 1))]
    /\ UNCHANGED <<request, heap, pc, connfd, address, hostent, proxyfd, served,
                   sent, refused, open>>

EndsEarly(t) == served[t] \in {"idle", "closed"}     \* slip: data still unread
\* recv returns 0, or -1 at once on the descriptor of a failed open_clientfd.
Ends(t)      == served[t] \in {"idle", "closed"} /\ total_size[t] = sent[t]

Kept(t)     == {<<"server", t>>}                    \* slip: proxyfd not closed
\* close(-1) closes nothing: the socket of a failed attempt stays open.
Unclosed(t) == IF served[t] = "idle" THEN {<<"server", t>>} ELSE {}

Finish(t) ==
    /\ alive /\ pc[t] = "relaying" /\ Ends(t)
    /\ pc' = [pc EXCEPT ![t] = "done"]
    /\ open' = open \ ({<<"client", connfd[t]>>, <<"server", t>>} \ Unclosed(t))
    /\ UNCHANGED <<client, request, heap, connfd, address, hostent, proxyfd,
                   served, sent, total_size, got, refused, alive>>
-----------------------------------------------------------------------------
Thread(t) ==
    \/ connection_handler(t) \/ read_request(t) \/ gethostbyname(t)
    \/ connect(t) \/ Relay(t) \/ Finish(t)

Others(c) == Connect(c) \/ Ask(c) \/ Leave(c) \/ Answer(c)

Next == \E c \in Conn : accept(c) \/ Thread(c) \/ Others(c) \/ CloseUpstream(c)

\* Threads are scheduled, and servers end their answers at last.
Spec == /\ Init /\ [][Next]_vars
        /\ \A c \in Conn : WF_vars(accept(c)) /\ WF_vars(Thread(c))
                           /\ WF_vars(CloseUpstream(c))
-----------------------------------------------------------------------------
Destination == [host : Host \cup {NoHost}, port : Nat]
States == {"none", "started", "reading", "looking up", "connecting",
           "relaying", "done", "lost"}

TypeOK ==
    /\ client \in [Conn -> {"none", "open", "fin", "reset", "dead"}]
    /\ request \in [Conn -> Requests \cup {NoRequest}]
    /\ heap \in [Conn -> Conn \cup {NoConn}] /\ pc \in [Conn -> States]
    /\ connfd \in [Conn -> Conn \cup {NoConn}]
    /\ address \in [Conn -> Destination] /\ hostent \in Host \cup {NoHost}
    /\ proxyfd \in [Conn -> Destination]
    /\ served \in [Conn -> {"idle", "asked", "closed"}]
    /\ sent \in [Conn -> 0 .. MaxChunks] /\ total_size \in [Conn -> 0 .. MaxChunks]
    /\ got \in [Conn -> Seq([server : Conn, number : Nat])]
    /\ refused \subseteq Conn /\ open \subseteq {"client", "server"} \X Conn
    /\ alive \in BOOLEAN

\* A client gets, in order and once each, the chunks that one server sent to
\* the thread started for it, however many threads run and whichever starts
\* first; if it stays to the end it has all that the server sent.
Relayed(c) ==
    /\ \A n \in 1 .. Len(got[c]) : got[c][n] = Chunk(c, n)
    /\ client[c] = "open" => Len(got[c]) = total_size[c]
    /\ pc[c] = "done" /\ client[c] = "open" => Len(got[c]) = sent[c]

RelayFaithful == \A c \in Conn : Relayed(c)

\* Of the threads that have ended, those that passed the request on leave no
\* descriptor behind; one that gave up leaves its connection, one whose
\* open_clientfd failed its socket.
LeftOpen(t) ==
    CASE pc[t] = "lost"                       -> {<<"client", t>>}
      [] pc[t] = "done" /\ served[t] = "idle" -> {<<"server", t>>}
      [] OTHER                                -> {}

OnlyFailuresLeak ==
    \A t \in Conn : pc[t] \in {"done", "lost"} =>
        {d \in open : d[2] = t} = LeftOpen(t)

\* A GET for an address the proxy understands is carried through to the close
\* of its connection, whatever the other clients and threads do, unless the
\* client leaves or the proxy is killed.
GetIsServed ==
    \A c \in Conn :
        (client[c] = "open" /\ request[c].get /\ request[c].uri.http) ~>
        (pc[c] = "done" \/ client[c] # "open" \/ ~ alive)
-----------------------------------------------------------------------------
(* The inductive invariant behind the theorems of Proxy_proofs: what the   *)
(* place of a thread says of its connection, its counts and descriptors.   *)

Begun(t)   == pc[t] \notin {"none", "started"}

OwnConn(t) ==
    /\ pc[t] = "started" => heap[t] = t
    /\ Begun(t) => connfd[t] = t
    /\ pc[t] # "none" => client[t] # "none"

Counted(t) ==
    /\ Len(got[t]) <= total_size[t] /\ total_size[t] <= sent[t]
    /\ pc[t] \notin {"relaying", "done"} => served[t] = "idle"
    /\ served[t] = "idle" => sent[t] = 0
    /\ pc[t] = "done" => total_size[t] = sent[t] /\ served[t] # "asked"

Descriptors(t) ==
    /\ <<"client", t>> \in open <=> pc[t] \notin {"none", "done"}
    /\ <<"server", t>> \in open <=>
          (\/ pc[t] \in {"connecting", "relaying"}
           \/ pc[t] = "done" /\ served[t] = "idle")

ProxyInv ==
    /\ TypeOK
    /\ \A t \in Conn : OwnConn(t) /\ Counted(t) /\ Descriptors(t)
    /\ RelayFaithful
=============================================================================
