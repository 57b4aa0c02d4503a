----------------------------- MODULE HttpServer -----------------------------
(***************************************************************************)
(* The event loop of http_server/server.c: one thread, one epoll instance, *)
(* non-blocking sockets.  Each action of the server is one call of         *)
(* handle_accept, handle_in or handle_out; the clients connect, send and   *)
(* leave at any time.                                                      *)
(*                                                                         *)
(* A request is what parse_http_req makes of it (module HttpRequest).      *)
(* Lengths are in bytes; a file is known by its length.                    *)
(***************************************************************************)
EXTENDS Integers, Sequences, FiniteSets

CONSTANTS
    Conn,           \* connections clients may make
    Requests,       \* requests clients may send
    File,           \* paths under the document root
    FileSize,       \* the length of the file at each of them, or Missing
    BufSize,        \* BUF_SIZE
    HeaderSize,     \* bytes of a response header
    ErrorSize,      \* bytes of an error page
    WrapSize,       \* bytes append_post_reponse puts around the data: 29
    MaxFds,         \* descriptors left for connections and files
    EpollSizeMax,   \* EPOLL_SIZE_MAX
    MaxRequests,    \* bound on the requests a client sends
    MaxShort        \* bound on sends that take less than the buffer

Missing == -1
NoFile  == "no file"

GET  == 1
POST == 2

ERR_BAD_REQUEST     == 1
ERR_NOT_FOUND       == 2
ERR_NOT_IMPLEMENTED == 4

Parsed == [method : {0, GET, POST}, file : File \cup {NoFile}, html : BOOLEAN, post : Nat,
           error_code : {0, ERR_BAD_REQUEST, ERR_NOT_IMPLEMENTED}]

\* parse_http_req accepts only the two methods, with a path.
ASSUME ServerAssumption ==
    /\ FileSize \in [File -> Nat \cup {Missing}]
    /\ Requests \subseteq Parsed
    /\ \A r \in Requests :
           r.error_code = 0 => r.method \in {GET, POST} /\ r.file \in File
    /\ BufSize \in Nat \ {0} /\ HeaderSize \in Nat \ {0}
    /\ ErrorSize \in Nat /\ WrapSize \in Nat \ {0}
    /\ MaxFds \in Nat /\ EpollSizeMax \in Nat
    /\ MaxRequests \in Nat /\ MaxShort \in Nat

VARIABLES
    peer,           \* the client's end of each connection, seen from here
    sent,           \* what the client has sent on it
    inbox,          \* what recv will return: pieces of requests
    io,             \* the epoll_io_t of the connection
    resp,           \* the current or the last response (observed, not stored)
    events_count,
    alive,          \* the server process runs
    shorts          \* short sends so far

vars == <<peer, sent, inbox, io, resp, events_count, alive, shorts>>
-----------------------------------------------------------------------------
NoReq  == [method |-> 0, file |-> NoFile, html |-> FALSE,
           post |-> 0, error_code |-> 0]
NoBuf  == [head |-> 0, body |-> 0, post |-> 0]
NoResp == [begun |-> FALSE, announced |-> 0, delivered |-> 0, spoiled |-> FALSE,
           posted |-> 0, code |-> 0]

\* calloc(1, sizeof(epoll_io_t)), registered for EPOLLIN or EPOLLOUT
Idle == [mask |-> "in", req |-> NoReq, fd |-> FALSE, pos |-> 0, buf |-> NoBuf]
Unregistered == [Idle EXCEPT !.mask = "none"]

\* What is left of a request when its first segment is already gone.
BadRequest == [NoReq EXCEPT !.error_code = ERR_BAD_REQUEST]

\* io_data->buf and io_data->size: so much header, so much body.
Buffer(h, b) == [head |-> h, body |-> b, post |-> 0]
BufLen(b)    == b.head + b.body
Pending(i)   == i.buf # NoBuf

Registered == {c \in Conn : io[c].mask # "none"}
FdsInUse   == Cardinality(Registered) + Cardinality({c \in Conn : io[c].fd})

Init ==
    /\ peer = [c \in Conn |-> "none"]
    /\ sent = [c \in Conn |-> <<>>]
    /\ inbox = [c \in Conn |-> <<>>]
    /\ io = [c \in Conn |-> Unregistered]
    /\ resp = [c \in Conn |-> NoResp]
    /\ events_count = 1
    /\ alive = TRUE /\ shorts = 0
-----------------------------------------------------------------------------
(* The clients.                                                            *)

Connect(c) ==
    /\ alive /\ peer[c] = "none"
    /\ peer' = [peer EXCEPT ![c] = "open"]
    /\ UNCHANGED <<sent, inbox, io, resp, events_count, alive, shorts>>

MidRequest(c) == sent[c] # <<>> /\ sent[c][Len(sent[c])].part = "head"

\* A request goes out whole, or its data (or its rest) in a second segment.
Send(c) ==
    /\ peer[c] = "open"
    /\ \E s \in IF MidRequest(c)
                THEN {[req |-> sent[c][Len(sent[c])].req, part |-> "tail"]}
                ELSE [req : Requests, part : {"whole", "head"}] :
          /\ Len(SelectSeq(sent[c], LAMBDA t : t.part # "tail")) < MaxRequests
             \/ s.part = "tail"
          /\ sent' = [sent EXCEPT ![c] = Append(@, s)]
          /\ inbox' = [inbox EXCEPT ![c] = Append(@, s)]
    /\ UNCHANGED <<peer, io, resp, events_count, alive, shorts>>

\* The client closes ("fin"), or closes with data unread ("reset").
Leave(c) ==
    /\ peer[c] = "open"
    /\ \E p \in {"fin", "reset"} : peer' = [peer EXCEPT ![c] = p]
    /\ UNCHANGED <<sent, inbox, io, resp, events_count, alive, shorts>>
-----------------------------------------------------------------------------
\* At either limit the connection stays in the backlog.
handle_accept(c) ==
    /\ alive /\ peer[c] # "none" /\ io[c].mask = "none"
    /\ events_count < EpollSizeMax /\ FdsInUse < MaxFds
    /\ io' = [io EXCEPT ![c] = Idle]
    /\ events_count' = events_count + 1
    /\ UNCHANGED <<peer, sent, inbox, resp, alive, shorts>>

CutShort(r) == [r EXCEPT !.post = 0]
AllReceived == Requests \cup {CutShort(r) : r \in Requests} \cup {BadRequest}

\* slip: the empty line ends the request
HeadersOnly(q) == IF q[1].part = "tail" THEN BadRequest ELSE CutShort(q[1].req)

\* What parse_http_req sees in all that recv returned: the first request.
Received(q) ==
    CASE q[1].part = "whole" -> q[1].req
      [] q[1].part = "head"  -> IF Len(q) > 1 THEN q[1].req
                                ELSE CutShort(q[1].req)
      [] q[1].part = "tail"  -> BadRequest

\* When recv returns 0 or an error nothing happens, and the connection stays.
handle_in(c) ==
    /\ alive /\ io[c].mask = "in"
    /\ IF inbox[c] # <<>>
       THEN /\ io' = [io EXCEPT ![c].mask = "out", ![c].req = Received(inbox[c])]
            /\ inbox' = [inbox EXCEPT ![c] = <<>>]
            /\ resp' = [resp EXCEPT ![c] = NoResp]
            /\ UNCHANGED peer
       ELSE /\ peer[c] = "reset" /\ peer' = [peer EXCEPT ![c] = "dead"]
            /\ UNCHANGED <<io, inbox, resp>>
    /\ UNCHANGED <<sent, events_count, alive, shorts>>
-----------------------------------------------------------------------------
KeepsEpollOut(s) == [s EXCEPT !.req = NoReq, !.fd = FALSE, !.buf = NoBuf]
                                                    \* slip: mask not reset
KeepsFile(s)     == [Idle EXCEPT !.fd = s.fd]       \* slip: file left open
reset_epoll(s)   == Idle

\* The response once n bytes of s.buf have gone out.  A cut is for ever: the
\* rest of the buffer is freed with it.
Delivered(r, b, n) ==
    [r EXCEPT !.delivered = @ + (IF n > b.head THEN n - b.head ELSE 0),
              !.posted = @ + b.post,
              !.spoiled = @ \/ n < BufLen(b)]

\* send_data for the io_data s with response r; SIGPIPE has its default action.
SendTaken(c, s, r, more) ==
    /\ peer[c] \in {"open", "fin"}
    /\ \E n \in 1 .. BufLen(s.buf) :
          /\ n < BufLen(s.buf) => shorts < MaxShort
          /\ shorts' = IF n < BufLen(s.buf) THEN shorts + 1 ELSE shorts
          /\ resp' = [resp EXCEPT ![c] = Delivered(r, s.buf, n)]
    /\ io' = [io EXCEPT ![c] = IF more THEN [s EXCEPT !.buf = NoBuf]
                                       ELSE reset_epoll(s)]
    /\ \E p \in IF peer[c] = "fin" THEN {"fin", "dead"} ELSE {"open"} :
          peer' = [peer EXCEPT ![c] = p]
    /\ UNCHANGED alive

\* EAGAIN: the buffer stays, but that more was to follow is forgotten.
SendAgain(c, s, r, more) ==
    /\ peer[c] \in {"open", "fin"} /\ shorts < MaxShort
    /\ shorts' = shorts + 1
    /\ io' = [io EXCEPT ![c] = s]
    /\ resp' = [resp EXCEPT ![c] = [r EXCEPT !.spoiled = @ \/ more]]
    /\ UNCHANGED <<peer, alive>>

SendFails(c, s, r, more) ==
    /\ peer[c] = "reset" /\ peer' = [peer EXCEPT ![c] = "dead"]
    /\ io' = [io EXCEPT ![c] = reset_epoll(s)]
    /\ resp' = [resp EXCEPT ![c] = [r EXCEPT !.spoiled = TRUE]]
    /\ UNCHANGED <<alive, shorts>>

SendKills(c, s, r, more) ==
    /\ peer[c] = "dead" /\ alive' = FALSE
    /\ UNCHANGED <<peer, io, resp, shorts>>

send_data(c, s, r, more) ==
    \/ SendTaken(c, s, r, more)
    \/ SendAgain(c, s, r, more)
    \/ SendFails(c, s, r, more)
    \/ SendKills(c, s, r, more)
-----------------------------------------------------------------------------
(* handle_out, one action for each of its ways.                            *)

SkipsClosed(c) == alive /\ io[c].mask = "out" /\ peer[c] = "open"
                                                    \* slip: as if EPOLLRDHUP
Writable(c)    == alive /\ io[c].mask = "out"
Elsewhere   == UNCHANGED <<sent, inbox, events_count>>

\* The buffer EAGAIN left is sent as if it were the last one.
SendPending(c) ==
    /\ Writable(c) /\ Pending(io[c])
    /\ send_data(c, io[c], resp[c], FALSE)
    /\ Elsewhere

\* open fails for a missing file and when no descriptor is free.
Opens(f) == FileSize[f] # Missing /\ FdsInUse < MaxFds

PostOmitted(r)   == FileSize[r.file]                \* slip: POST forgotten
ContentLength(r) ==
    FileSize[r.file] + (IF r.method = POST THEN WrapSize + r.post ELSE 0)

AppendsAnyway(r) == r.html                          \* slip: method not tested
Appends(r)       == r.method = POST /\ r.html
Appended(r)      == IF Appends(r) THEN WrapSize + r.post ELSE 0

\* A POST of another type announces data that nothing will append.
StartFile(c) ==
    /\ Writable(c) /\ ~ Pending(io[c]) /\ ~ io[c].fd
    /\ io[c].req.error_code = 0 /\ Opens(io[c].req.file)
    /\ LET r == io[c].req
       IN  send_data(c, [io[c] EXCEPT !.fd = TRUE, !.pos = 0,
                                      !.buf = Buffer(HeaderSize, 0)],
                     [NoResp EXCEPT !.begun = TRUE, !.announced = ContentLength(r),
                         !.spoiled = r.method = POST /\ ~ Appends(r)],
                     TRUE)
    /\ Elsewhere

StartError(c) ==
    /\ Writable(c) /\ ~ Pending(io[c]) /\ ~ io[c].fd
    /\ LET r    == io[c].req
           code == IF r.error_code = 0 THEN ERR_NOT_FOUND ELSE r.error_code
       IN  /\ r.error_code = 0 => ~ Opens(r.file)
           /\ send_data(c, [io[c] EXCEPT !.buf = Buffer(HeaderSize, ErrorSize)],
                        [NoResp EXCEPT !.begun = TRUE, !.announced = ErrorSize,
                            !.code = code],
                        FALSE)
    /\ Elsewhere

Unread(i) == FileSize[i.req.file] - i.pos

\* read: the offset moves with what is read, not with what is sent.
SendChunk(c) ==
    /\ Writable(c) /\ ~ Pending(io[c]) /\ io[c].fd /\ Unread(io[c]) > 0
    /\ LET n == IF Unread(io[c]) < BufSize THEN Unread(io[c]) ELSE BufSize
       IN  send_data(c, [io[c] EXCEPT !.pos = @ + n, !.buf = Buffer(0, n)],
                     resp[c], TRUE)
    /\ Elsewhere

SendPost(c) ==
    /\ Writable(c) /\ ~ Pending(io[c]) /\ io[c].fd /\ Unread(io[c]) = 0
    /\ Appends(io[c].req)
    /\ send_data(c, [io[c] EXCEPT !.buf =
                        [Buffer(0, Appended(io[c].req)) EXCEPT !.post = io[c].req.post]],
                 resp[c], FALSE)
    /\ Elsewhere

EndOfFile(c) ==
    /\ Writable(c) /\ ~ Pending(io[c]) /\ io[c].fd /\ Unread(io[c]) = 0
    /\ ~ Appends(io[c].req)
    /\ io' = [io EXCEPT ![c] = reset_epoll(io[c])]
    /\ UNCHANGED <<peer, resp, alive, shorts>> /\ Elsewhere

handle_out(c) ==
    \/ SendPending(c) \/ StartFile(c) \/ StartError(c)
    \/ SendChunk(c) \/ SendPost(c) \/ EndOfFile(c)
-----------------------------------------------------------------------------
Client(c)  == Connect(c) \/ Send(c) \/ Leave(c)
Handler(c) == handle_accept(c) \/ handle_in(c) \/ handle_out(c)

Next == \E c \in Conn : Client(c) \/ Handler(c)

\* Every round of the loop handles every ready descriptor.
Spec == Init /\ [][Next]_vars /\ \A c \in Conn : WF_vars(Handler(c))
-----------------------------------------------------------------------------
Segment == [req : Requests, part : {"whole", "head", "tail"}]
Io      == [mask : {"none", "in", "out"}, req : Parsed, fd : BOOLEAN,
            pos : Nat, buf : [head : Nat, body : Nat, post : Nat]]
Resp    == [begun : BOOLEAN, announced : Nat, delivered : Nat,
            spoiled : BOOLEAN, posted : Nat, code : Nat]

\* The epoll_io_t of each connection and the event loop's own state.
TypeOK ==
    /\ peer \in [Conn -> {"none", "open", "fin", "reset", "dead"}]
    /\ sent \in [Conn -> Seq(Segment)] /\ inbox \in [Conn -> Seq(Segment)]
    /\ io \in [Conn -> Io] /\ resp \in [Conn -> Resp]
    /\ events_count \in Nat /\ alive \in BOOLEAN /\ shorts \in 0 .. MaxShort

\* handle_out dereferences io_data->req without a test: a connection is
\* registered for EPOLLOUT exactly while it has a request, and when it goes
\* back to EPOLLIN no request, file or buffer of the last response is left.
RequestAtHand ==
    \A c \in Conn : IF io[c].mask = "out" THEN io[c].req # NoReq
                                          ELSE io[c] \in {Idle, Unregistered}

\* What handle_out still means to send of the response it has begun.
StillToSend(i, p) ==
    CASE i.mask # "out" \/ ~ p.begun                 -> 0
      [] i.mask = "out" /\ p.begun /\ Pending(i)     -> i.buf.body
      [] i.mask = "out" /\ p.begun /\ ~ Pending(i)   ->
             Unread(i) + Appended(i.req)

Conserved(i, p) ==
    /\ p.delivered + StillToSend(i, p) <= p.announced
    /\ p.begun /\ ~ p.spoiled => p.delivered + StillToSend(i, p) = p.announced

\* The body is read, sent, cut and appended to in many steps; what has gone
\* out and what is still meant to never exceed the Content-Length, and make
\* it up exactly unless the response was spoiled.
LengthHonoured == \A c \in Conn : Conserved(io[c], resp[c])

\* The data of a POST that arrives in one segment has gone out, all of it, when
\* its response has ended with success: however the file, the data and the
\* sends of both are cut into buffers.
PostDataAppended ==
    \A c \in Conn : Len(sent[c]) = 1 /\ sent[c][1].part = "whole" =>
        LET r == sent[c][1].req
        IN  /\ r.error_code = 0 /\ Appends(r)
            /\ io[c].mask = "in" /\ resp[c].begun /\ resp[c].code = 0
            /\ ~ resp[c].spoiled
            => resp[c].posted = r.post

\* A request on an accepted connection is read and its response ended, as
\* long as the server lives, whatever the other connections do.
EveryRequestEnds ==
    \A c \in Conn : (io[c].mask # "none" /\ inbox[c] # <<>>) ~>
                    ((inbox[c] = <<>> /\ io[c].mask = "in") \/ ~ alive)

(* The refinement: between two requests a connection is idle, it is asked   *)
(* until the response has begun, and then answering.                        *)
Phase(c) == CASE io[c].mask # "out"                   -> "idle"
              [] io[c].mask = "out" /\ ~ resp[c].begun -> "asked"
              [] OTHER                                -> "answering"

Exchange == INSTANCE HttpExchange WITH
    Lengths <- {ErrorSize} \cup {ContentLength(r) : r \in {q \in AllReceived :
                                     q.error_code = 0 /\ FileSize[q.file] # Missing}},
    phase   <- [c \in Conn |-> Phase(c)],
    left    <- [c \in Conn |-> resp[c].announced - resp[c].delivered],
    spoiled <- [c \in Conn |-> resp[c].spoiled]

\* One response per request taken, never longer than announced, and shorter
\* only if a send was cut or refused, the client left, or a POST of a type
\* other than text/html announced data that is not appended.
ResponsesKeepPromise == Exchange!Spec
-----------------------------------------------------------------------------
(* The inductive invariant behind the theorems of HttpServer_proofs: what   *)
(* the struct of a connection and its response look like between handlers.  *)
Sound(i, p) ==
    /\ IF i.mask = "out" THEN i.req \in AllReceived \ {NoReq}
                         ELSE i \in {Idle, Unregistered}
    /\ ~ p.begun => p = NoResp /\ ~ i.fd /\ ~ Pending(i)
    /\ i.mask = "out" /\ p.begun => i.fd \/ Pending(i)
    /\ i.fd => i.req.error_code = 0 /\ i.pos <= FileSize[i.req.file]
    /\ Pending(i) => BufLen(i.buf) > 0
    /\ Conserved(i, p)

ServerInv == TypeOK /\ \A c \in Conn : Sound(io[c], resp[c])

\* Of the data of a POST nothing has gone out before its own buffer does, and
\* the only buffer that waits for another try unspoiled is that one.
PostUnderWay(i, p, r) ==
    Appends(r) /\ p.begun /\ p.code = 0 /\ ~ p.spoiled =>
        p.posted = 0 /\ (Pending(i) => i.buf.post = r.post)

\* The only request of a client waits, is being answered or has been answered.
PostTracked(c) ==
    /\ sent[c] = <<>> => inbox[c] = <<>> /\ resp[c] = NoResp /\ io[c].mask # "out"
    /\ Len(sent[c]) = 1 /\ sent[c][1].part = "whole" =>
           \/ inbox[c] = sent[c] /\ resp[c] = NoResp /\ io[c].mask # "out"
           \/ /\ inbox[c] = <<>> /\ io[c].mask = "out"
              /\ io[c].req = sent[c][1].req
              /\ PostUnderWay(io[c], resp[c], io[c].req)
           \/ /\ inbox[c] = <<>> /\ io[c].mask # "out"
              /\ Appends(sent[c][1].req) /\ resp[c].begun /\ resp[c].code = 0
                     /\ ~ resp[c].spoiled => resp[c].posted = sent[c][1].req.post

\* The same with what the data of a first request goes through.
PostInv == ServerInv /\ \A c \in Conn : PostTracked(c)
=============================================================================
