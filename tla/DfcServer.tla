------------------------------ MODULE DfcServer ------------------------------
(***************************************************************************)
(* One server of the distributed file store with several clients at a time *)
(* (dfc/server.c): main starts a thread for each connection; the threads   *)
(* share the users' directories and the piece files in them, without any   *)
(* locking.  A chunk is what stdio reads or writes at a time.              *)
(***************************************************************************)
EXTENDS Integers, Sequences, FiniteSets, DfcConfig

CONSTANTS
    Conn,           \* connections
    Client,         \* who uses a connection, by their configuration
    ClientConf,     \* the client.conf of each
    ServerConf,     \* server.conf
    MaxChunks,      \* bound on the chunks of a file
    MaxRequests     \* bound on the requests of all the clients

\* Types of request.
CMD_PUT   == 2
CMD_GET   == 3
CMD_MKDIR == 4

\* conf.users, and their names.
users == init_server_config(ServerConf)
User  == {users[u].username : u \in 1 .. Len(users)}

Nobody == "nobody"

ASSUME ServerAssumption ==
    /\ DOMAIN ClientConf = Client /\ Nobody \notin User \cup Client
    /\ MaxChunks \in Nat \ {0} /\ MaxRequests \in Nat
    /\ IsFile(ServerConf)
    /\ \A k \in Client : IsFile(ClientConf[k]) /\ HasKeys(ClientConf[k])

VARIABLES
    cell,           \* the cells main allocates for accepted sockets
    pc,             \* where the thread of each connection is
    sock,           \* the connection the thread works on
    req,            \* the request at hand
    errno,          \* of the reply
    fp,             \* the file the thread has open: its user, and the mode
    pos,            \* its position in it
    upload,         \* chunks the client has still to send
    got,            \* chunks the client has received for this request
    dirs,           \* users whose directory exists
    file,           \* each user's piece file: chunks; <<>> also if absent
    exists,         \* users whose piece file exists
    alone,          \* users whose file was last opened for writing, and not
                    \* opened so since, by one thread (observed)
    nreqs

vars == <<cell, pc, sock, req, errno, fp, pos, upload, got, dirs, file, exists,
          alone, nreqs>>
-----------------------------------------------------------------------------
(* A chunk is known by its request, the client that sent it, its number,   *)
(* and the number of chunks of the upload.                                 *)

NoReq  == [client |-> Nobody, type |-> 0, id |-> 0, len |-> 0]
Closed == [user |-> Nobody, mode |-> "rb"]

Chunk(r, k) == [id |-> r.id, client |-> r.client, number |-> k, of |-> r.len]
Whole(r)    == [k \in 1 .. r.len |-> Chunk(r, k)]

Init ==
    /\ cell = [c \in Conn |-> Nobody] /\ pc = [c \in Conn |-> "none"]
    /\ sock = [c \in Conn |-> Nobody] /\ req = [c \in Conn |-> NoReq]
    /\ errno = [c \in Conn |-> 0] /\ fp = [c \in Conn |-> Closed]
    /\ pos = [c \in Conn |-> 0] /\ upload = [c \in Conn |-> <<>>]
    /\ got = [c \in Conn |-> <<>>]
    /\ dirs = {} /\ file = [u \in User |-> <<>>] /\ exists = {}
    /\ alone = User /\ nreqs = 0

Disk == <<dirs, file, exists, alone>>
-----------------------------------------------------------------------------
(* main, and what clients send.                                            *)

Accept(c) ==
    /\ pc[c] = "none"
    /\ cell' = [cell EXCEPT ![c] = c] /\ pc' = [pc EXCEPT ![c] = "started"]
    /\ UNCHANGED <<sock, req, errno, fp, pos, upload, got, Disk, nreqs>>

connection_handler(c) ==
    /\ pc[c] = "started"
    /\ sock' = [sock EXCEPT ![c] = cell[c]] /\ pc' = [pc EXCEPT ![c] = "wait"]
    /\ UNCHANGED <<cell, req, errno, fp, pos, upload, got, Disk, nreqs>>

Requests ==
    [client : Client, type : {CMD_PUT, CMD_GET, CMD_MKDIR},
     id : {nreqs + 1}, len : 1 .. MaxChunks]

\* The next request of a client that has the answer to its last one.  An
\* upload follows the acceptance.
Request(c) ==
    /\ pc[c] = "wait" /\ req[c] = NoReq /\ nreqs < MaxRequests
    /\ \E r \in Requests :
          /\ req' = [req EXCEPT ![c] = r]
          /\ upload' = [upload EXCEPT ![c] = IF r.type = CMD_PUT THEN Whole(r) ELSE <<>>]
    /\ got' = [got EXCEPT ![c] = <<>>]
    /\ nreqs' = nreqs + 1
    /\ UNCHANGED <<cell, pc, sock, errno, fp, pos, Disk>>
-----------------------------------------------------------------------------
(* One request.                                                            *)

\* A client fills in the header of its requests from its configuration.
Header == [k \in Client |-> init_client_config(ClientConf[k])]
Name(c) == Header[req[c].client].username

Known(c) == check_user(users, Name(c), Header[req[c].client].password) > 0

WhereLeft(c) == pos[c]                              \* slip: pos is static
Start(c)     == 0

\* After the reply: a file that is open is transferred, whatever errno says.
Reply(c, err, f) ==
    /\ errno' = [errno EXCEPT ![c] = err]
    /\ fp' = [fp EXCEPT ![c] = f]
    /\ pos' = [pos EXCEPT ![c] = Start(c)]
    /\ pc' = [pc EXCEPT ![c] =
                 CASE req[c].type = CMD_GET /\ f # Closed -> "sending"
                   [] req[c].type = CMD_PUT /\ f # Closed -> "receiving"
                   [] OTHER                               -> "close"]

Check(c) ==
    /\ pc[c] = "wait" /\ req[c] # NoReq
    /\ IF Known(c)
       THEN /\ pc' = [pc EXCEPT ![c] = "stat"]
            /\ errno' = [errno EXCEPT ![c] = 0]
            /\ UNCHANGED <<fp, pos>>
       ELSE Reply(c, 1, fp[c])
    /\ UNCHANGED <<cell, sock, req, upload, got, Disk, nreqs>>

\* create_dir looks first ...
Stat(c) ==
    /\ pc[c] = "stat"
    /\ pc' = [pc EXCEPT ![c] = IF Name(c) \in dirs THEN "serve" ELSE "mkdir"]
    /\ UNCHANGED <<cell, sock, req, errno, fp, pos, upload, got, Disk, nreqs>>

\* ... and fails when another thread has made the directory since.
Mkdir(c) ==
    /\ pc[c] = "mkdir"
    /\ IF Name(c) \in dirs
       THEN Reply(c, 1, fp[c]) /\ UNCHANGED dirs
       ELSE /\ dirs' = dirs \cup {Name(c)}
            /\ pc' = [pc EXCEPT ![c] = "serve"] /\ UNCHANGED <<errno, fp, pos>>
    /\ UNCHANGED <<cell, sock, req, upload, got, file, exists, alone, nreqs>>

\* slip: fopen "r+b"
Overwritten(u) == file[u]
Truncated(u)   == <<>>                              \* fopen "wb"

Opened(u, m) == [user |-> u, mode |-> m]

Writing(u) == {c \in Conn : fp[c] = Opened(u, "wb")}

Serve(c) ==
    LET u == Name(c)
    IN  /\ pc[c] = "serve"
        /\ \/ /\ req[c].type = CMD_MKDIR            \* a subdirectory
              /\ \E err \in {0, 1} : Reply(c, err, fp[c])
              /\ UNCHANGED Disk
           \/ /\ req[c].type = CMD_GET
              /\ IF u \in exists THEN Reply(c, errno[c], Opened(u, "rb"))
                                 ELSE Reply(c, 1, Closed)
              /\ UNCHANGED Disk
           \/ /\ req[c].type = CMD_PUT
              /\ Reply(c, errno[c], Opened(u, "wb"))
              /\ file' = [file EXCEPT ![u] = Truncated(u)]
              /\ exists' = exists \cup {u}
              /\ alone' = IF Writing(u) = {} THEN alone \cup {u} ELSE alone \ {u}
              /\ UNCHANGED dirs
        /\ UNCHANGED <<cell, sock, req, upload, got, nreqs>>

\* send_file, up to the end of the file as it is then.
Send(c) ==
    /\ pc[c] = "sending"
    /\ IF pos[c] < Len(file[fp[c].user])
       THEN /\ got' = [got EXCEPT ![sock[c]] = Append(@, file[fp[c].user][pos[c] + 1])]
            /\ pos' = [pos EXCEPT ![c] = @ + 1]
            /\ UNCHANGED pc
       ELSE pc' = [pc EXCEPT ![c] = "close"] /\ UNCHANGED <<got, pos>>
    /\ UNCHANGED <<cell, sock, req, errno, fp, upload, Disk, nreqs>>

Hole == Chunk(NoReq, 0)

\* slip: eof is not looked at, recv waits for more
NeverEof(c) == FALSE
Eof(c)      == upload[sock[c]] = <<>>

\* receive_file: writing beyond the end leaves a hole.
Receive(c) ==
    LET u == fp[c].user
    IN  /\ pc[c] = "receiving"
        /\ \/ /\ Eof(c)
              /\ pc' = [pc EXCEPT ![c] = "close"]
              /\ UNCHANGED <<file, pos, upload>>
           \/ /\ upload[sock[c]] # <<>>
              /\ file' = [file EXCEPT ![u] =
                     [k \in 1 .. IF pos[c] < Len(@) THEN Len(@) ELSE pos[c] + 1 |->
                         IF k = pos[c] + 1 THEN Head(upload[sock[c]])
                         ELSE IF k <= Len(@) THEN @[k] ELSE Hole]]
              /\ pos' = [pos EXCEPT ![c] = @ + 1]
              /\ upload' = [upload EXCEPT ![sock[c]] = Tail(@)]
              /\ UNCHANGED pc
        /\ UNCHANGED <<cell, sock, req, errno, fp, got, dirs, exists, alone, nreqs>>

Dangling(c) == fp[c]                                \* slip: fp = 0 forgotten
NoFile(c)   == Closed

\* fclose, fp = 0, and the buffer cleared for the next request.
Close(c) ==
    /\ pc[c] = "close"
    /\ fp' = [fp EXCEPT ![c] = NoFile(c)]
    /\ req' = [req EXCEPT ![c] = NoReq]
    /\ pc' = [pc EXCEPT ![c] = "wait"]
    /\ upload' = [upload EXCEPT ![c] = <<>>]
    /\ UNCHANGED <<cell, sock, errno, pos, got, Disk, nreqs>>

Thread(c) ==
    \/ connection_handler(c) \/ Check(c) \/ Stat(c) \/ Mkdir(c) \/ Serve(c)
    \/ Send(c) \/ Receive(c) \/ Close(c)

Next == \E c \in Conn : Accept(c) \/ Request(c) \/ Thread(c)

\* Threads are scheduled, and a client sends the upload it has announced.
Spec == Init /\ [][Next]_vars /\ \A c \in Conn : WF_vars(Thread(c))
-----------------------------------------------------------------------------
AChunk == [id : 0 .. MaxRequests, client : Client \cup {Nobody}, number : 0 .. MaxChunks,
           of : 0 .. MaxChunks]

\* Threads, files and what is on the wire stay within their values.
TypeOK ==
    /\ cell \in [Conn -> Conn \cup {Nobody}] /\ sock \in [Conn -> Conn \cup {Nobody}]
    /\ pc \in [Conn -> {"none", "started", "wait", "stat", "mkdir", "serve",
                        "sending", "receiving", "close"}]
    /\ req \in [Conn -> [client : Client \cup {Nobody},
                         type : {0, CMD_PUT, CMD_GET, CMD_MKDIR},
                         id : 0 .. MaxRequests, len : 0 .. MaxChunks]]
    /\ errno \in [Conn -> {0, 1}]
    /\ fp \in [Conn -> [user : User \cup {Nobody}, mode : {"rb", "wb"}]]
    /\ pos \in [Conn -> 0 .. MaxChunks]
    /\ upload \in [Conn -> Seq(AChunk)] /\ got \in [Conn -> Seq(AChunk)]
    /\ dirs \subseteq User /\ file \in [User -> Seq(AChunk)]
    /\ exists \subseteq User /\ alone \subseteq User
    /\ nreqs \in 0 .. MaxRequests

\* The lines of a file that say what key means, and what the last of them says.
Says(conf, key)   == {n \in 1 .. Len(conf) : Len(conf[n]) >= 2 /\ conf[n][1].word = key}
LastOf(conf, key) == IF Says(conf, key) = {} THEN Empty
                     ELSE conf[Max(Says(conf, key))][2]

Entries(u) == {n \in 1 .. Len(ServerConf) : Len(ServerConf[n]) >= 2 /\ ServerConf[n][1] = u}

\* The owners of u's directory: the clients whose configuration names u and has
\* the password of the first line of server.conf that names u.
Owners ==
    [u \in User |->
        {k \in Client : /\ LastOf(ClientConf[k], "username") = u
                        /\ LastOf(ClientConf[k], "password") = ServerConf[Min(Entries(u))][2]}]

Owns(k, u) == u \in User /\ k \in Owners[u]

\* What is stored for a user was put by an owner of that user's directory and
\* is read by one, whatever else the configuration files say and however many
\* threads share the directories; and no upload of an owner is turned away but
\* for a directory another thread has made in between.
OnlyOwners ==
    /\ \A u \in User : \A k \in 1 .. Len(file[u]) :
           file[u][k] = Hole \/ Owns(file[u][k].client, u)
    /\ \A c \in Conn : pc[c] \in {"sending", "receiving"} => Owns(req[c].client, fp[c].user)
    /\ \A c \in Conn :
           pc[c] = "close" /\ req[c].type = CMD_PUT /\ fp[c] = Closed =>
               ~Owns(req[c].client, Name(c)) \/ Name(c) \in dirs

\* A file no two threads have written at a time is one upload, whole (here
\* clients stay for the whole of an upload; DfcSession lets them die): nothing
\* of an earlier, longer one is left, and nothing of the threads that write
\* other files or read this one has got into it.
WholeIfAlone ==
    \A u \in alone : Writing(u) = {} /\ file[u] # <<>> =>
        /\ Len(file[u]) = file[u][1].of
        /\ \A k \in 1 .. Len(file[u]) : file[u][k] = [file[u][1] EXCEPT !.number = k]

\* A client that has been refused is sent no file, though what decides is
\* not errno but whether a file is open.
RefusedGetsNothing ==
    \A c \in Conn : errno[c] = 1 /\ pc[c] \in {"sending", "receiving", "close"} =>
        pc[c] = "close" /\ got[c] = <<>>

\* Whoever else reads or writes the same file, every request comes to an end.
RequestEnds == \A c \in Conn : (pc[c] = "wait" /\ req[c] # NoReq) ~> (req[c] = NoReq)
=============================================================================
