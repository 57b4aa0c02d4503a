--------------------------- MODULE DfcServer_proofs ---------------------------
(* What a server of the file store does for any clients, configuration     *)
(* files and number of threads.                                            *)
EXTENDS DfcServer, WellFoundedInduction, TLAPS

\* Client k is let in, as user u.
Admits(k, u) ==
    /\ k \in Client
    /\ Header[k].username = u /\ check_user(users, u, Header[k].password) > 0

AtWork == {"stat", "mkdir", "serve", "sending", "receiving"}

\* A thread works on its own connection; past check_user it works for a user
\* it has admitted, has nothing to report, and its file is that user's; only
\* then has it a file open, and nothing was sent before.
Admitted(c) ==
    /\ req[c] # NoReq => req[c].client \in Client
    /\ pc[c] = "started" => cell[c] = c
    /\ pc[c] \notin {"none", "started"} => sock[c] = c
    /\ pc[c] \notin {"sending", "receiving", "close"} => fp[c] = Closed
    /\ pc[c] \in AtWork => errno[c] = 0 /\ Admits(req[c].client, Name(c))
    /\ pc[c] \in {"sending", "receiving"} => fp[c].user = Name(c)

Unserved(c) ==
    /\ pc[c] \in {"none", "started"} => req[c] = NoReq
    /\ pc[c] = "wait" /\ req[c] # NoReq => got[c] = <<>>
    /\ pc[c] \in {"stat", "mkdir", "serve"} => got[c] = <<>>
    /\ pc[c] = "close" /\ errno[c] = 1 => got[c] = <<>>

\* What is still to be uploaded comes from the client at hand, and fits.
Uploading(c) ==
    /\ \A k \in 1 .. Len(upload[c]) : upload[c][k].client = req[c].client
    /\ Len(upload[c]) <= MaxChunks
    /\ pc[c] = "receiving" => pos[c] + Len(upload[c]) <= MaxChunks

ThreadInv(c) == Admitted(c) /\ Unserved(c) /\ Uploading(c)

Stored ==
    \A u \in User :
        /\ Len(file[u]) <= MaxChunks
        /\ \A k \in 1 .. Len(file[u]) :
               file[u][k] = Hole \/ Admits(file[u][k].client, u)

IInv == TypeOK /\ Stored /\ \A c \in Conn : ThreadInv(c)
-----------------------------------------------------------------------------
LEMMA AdmittedIsUser ==
  ASSUME NEW k, NEW u, Admits(k, u)
  PROVE  u \in User
<1>1. PICK n \in 1 .. Len(users) : users[n].username = u
  BY DEF Admits, check_user
<1>. QED BY <1>1 DEF User

LEMMA KnownIsAdmitted ==
  ASSUME NEW c \in Conn, req[c].client \in Client
  PROVE  Known(c) <=> Admits(req[c].client, Name(c))
BY DEF Known, Admits, Name

\* What a request sends is its own, and nothing else is long.
LEMMA WholeUpload ==
  ASSUME NEW r \in Requests, nreqs \in Nat, nreqs < MaxRequests
  PROVE  /\ Whole(r) \in Seq(AChunk) /\ Len(Whole(r)) <= MaxChunks
         /\ \A k \in 1 .. Len(Whole(r)) : Whole(r)[k].client = r.client
<1> USE ServerAssumption
<1>1. r.len \in 1 .. MaxChunks /\ r.client \in Client /\ r.id = nreqs + 1
  BY DEF Requests
<1>2. \A k \in 1 .. r.len : Chunk(r, k) \in AChunk
  BY <1>1 DEF Chunk, AChunk
<1>3. Len(Whole(r)) = r.len /\ Whole(r) \in Seq(AChunk)
  BY <1>1, <1>2 DEF Whole
<1>. QED BY <1>1, <1>3 DEF Whole, Chunk

\* A step of one thread leaves the others as they are.
Same(c) ==
    /\ cell'[c] = cell[c] /\ pc'[c] = pc[c] /\ sock'[c] = sock[c]
    /\ req'[c] = req[c] /\ errno'[c] = errno[c] /\ fp'[c] = fp[c]
    /\ pos'[c] = pos[c] /\ upload'[c] = upload[c] /\ got'[c] = got[c]

LEMMA SameThread ==
  ASSUME NEW c \in Conn, ThreadInv(c), Same(c)
  PROVE  ThreadInv(c)'
BY DEF ThreadInv, Admitted, Unserved, Uploading, Same, Name, Admits

\* What is stored stays as it is where the disk does.
LEMMA SameStored ==
  ASSUME Stored, UNCHANGED file
  PROVE  Stored'
BY DEF Stored, Admits, Hole, Chunk

LEMMA AcceptStep ==
  ASSUME IInv, NEW c \in Conn, Accept(c)
  PROVE  IInv'
<1> USE DEF IInv
<1>1. TypeOK'
  BY DEF Accept, Disk, TypeOK
<1>2. Stored'
  BY SameStored DEF Accept, Disk
<1>3. ASSUME NEW d \in Conn PROVE ThreadInv(d)'
  <2>1. CASE d # c
    BY <2>1, SameThread DEF Same, Accept, Disk, TypeOK
  <2>2. CASE d = c
    BY <2>2 DEF Accept, TypeOK, ThreadInv, Admitted, Unserved, Uploading, AtWork
  <2>. QED BY <2>1, <2>2
<1>. QED BY <1>1, <1>2, <1>3

LEMMA HandlerStep ==
  ASSUME IInv, NEW c \in Conn, connection_handler(c)
  PROVE  IInv'
<1> USE DEF IInv
<1>1. TypeOK'
  BY DEF connection_handler, Disk, TypeOK
<1>2. Stored'
  BY SameStored DEF connection_handler, Disk
<1>3. ASSUME NEW d \in Conn PROVE ThreadInv(d)'
  <2>1. CASE d # c
    BY <2>1, SameThread DEF Same, connection_handler, Disk, TypeOK
  <2>2. CASE d = c
    BY <2>2 DEF connection_handler, TypeOK, ThreadInv, Admitted, Unserved, Uploading, AtWork
  <2>. QED BY <2>1, <2>2
<1>. QED BY <1>1, <1>2, <1>3

LEMMA RequestStep ==
  ASSUME IInv, NEW c \in Conn, Request(c)
  PROVE  IInv'
<1> USE DEF IInv
<1>1. PICK r \in Requests :
         /\ req' = [req EXCEPT ![c] = r]
         /\ upload' = [upload EXCEPT ![c] = IF r.type = CMD_PUT THEN Whole(r) ELSE <<>>]
  BY DEF Request
<1>2. nreqs \in Nat /\ nreqs < MaxRequests /\ MaxRequests \in Nat
  BY ServerAssumption DEF Request, TypeOK
<1>3. /\ upload'[c] \in Seq(AChunk) /\ Len(upload'[c]) <= MaxChunks
      /\ \A k \in 1 .. Len(upload'[c]) : upload'[c][k].client = req'[c].client
  BY <1>1, <1>2, WholeUpload, ServerAssumption DEF TypeOK
<1>4. r \in [client : Client \cup {Nobody}, type : {0, CMD_PUT, CMD_GET, CMD_MKDIR},
             id : 0 .. MaxRequests, len : 0 .. MaxChunks]
  BY <1>2, ServerAssumption DEF Requests
<1>5. TypeOK'
  BY <1>1, <1>2, <1>3, <1>4 DEF Request, Disk, TypeOK
<1>6. Stored'
  BY SameStored DEF Request, Disk
<1>7. ASSUME NEW d \in Conn PROVE ThreadInv(d)'
  <2>1. CASE d # c
    BY <1>1, <2>1, SameThread DEF Same, Request, Disk, TypeOK
  <2>2. CASE d = c
    <3>1. req'[d] = r /\ r.client \in Client
      BY <1>1, <2>2 DEF Requests, TypeOK
    <3>. QED BY <1>3, <2>2, <3>1 DEF Request, TypeOK, ThreadInv, Admitted, Unserved, Uploading,
                                     AtWork
  <2>. QED BY <2>1, <2>2
<1>. QED BY <1>5, <1>6, <1>7

\* A reply changes what is the thread's own; with no file and nothing sent the
\* thread is done.
LEMMA ReplyEffect ==
  ASSUME TypeOK, NEW c \in Conn, NEW err \in {0, 1},
         NEW f \in [user : User \cup {Nobody}, mode : {"rb", "wb"}], Reply(c, err, f)
  PROVE  /\ errno' \in [Conn -> {0, 1}] /\ errno'[c] = err
         /\ fp' \in [Conn -> [user : User \cup {Nobody}, mode : {"rb", "wb"}]]
         /\ fp'[c] = f
         /\ pos' \in [Conn -> 0 .. MaxChunks] /\ pos'[c] = 0
         /\ pc' \in [Conn -> {"none", "started", "wait", "stat", "mkdir", "serve",
                              "sending", "receiving", "close"}]
         /\ pc'[c] \in {"sending", "receiving", "close"}
         /\ f = Closed => pc'[c] = "close"
         /\ \A d \in Conn \ {c} : /\ errno'[d] = errno[d] /\ fp'[d] = fp[d]
                                  /\ pos'[d] = pos[d] /\ pc'[d] = pc[d]
BY ServerAssumption DEF Reply, Start, TypeOK, Closed

LEMMA CheckStep ==
  ASSUME IInv, NEW c \in Conn, Check(c)
  PROVE  IInv'
<1> USE DEF IInv
<1>1. ThreadInv(c) /\ fp[c] = Closed /\ got[c] = <<>> /\ sock[c] = c
  BY DEF Check, ThreadInv, Admitted, Unserved
<1>2. Stored'
  BY SameStored DEF Check, Disk
<1>3. CASE Known(c)
  <2>1. TypeOK'
    BY <1>3 DEF Check, Disk, TypeOK
  <2>2. ASSUME NEW d \in Conn PROVE ThreadInv(d)'
    <3>1. CASE d # c
      BY <1>3, <3>1, SameThread DEF Same, Check, Disk, TypeOK
    <3>2. CASE d = c
      <4>1. Admits(req[c].client, Name(c))
        BY <1>3, KnownIsAdmitted DEF Check, ThreadInv, Admitted
      <4>2. pc'[c] = "stat" /\ errno'[c] = 0
        BY <1>3 DEF Check, TypeOK
      <4>. QED BY <1>1, <1>3, <3>2, <4>1, <4>2 DEF Check, ThreadInv, Admitted, Unserved,
                                                   Uploading, AtWork, Name, Admits
    <3>. QED BY <3>1, <3>2
  <2>. QED BY <1>2, <2>1, <2>2
<1>4. CASE ~ Known(c)
  <2>1. Reply(c, 1, fp[c]) /\ UNCHANGED <<cell, sock, req, upload, got, Disk, nreqs>>
    BY <1>4 DEF Check
  <2>2. fp[c] \in [user : User \cup {Nobody}, mode : {"rb", "wb"}]
    BY DEF TypeOK
  <2>3. TypeOK'
    BY <2>1, <2>2, ReplyEffect DEF Disk, TypeOK
  <2>4. ASSUME NEW d \in Conn PROVE ThreadInv(d)'
    <3>1. CASE d # c
      BY <2>1, <2>2, <3>1, ReplyEffect, SameThread DEF Same
    <3>2. CASE d = c
      <4>1. pc'[c] = "close"
        BY <1>1, <2>1, <2>2, ReplyEffect
      <4>. QED BY <1>1, <2>1, <3>2, <4>1 DEF ThreadInv, Admitted, Unserved, Uploading, AtWork
    <3>. QED BY <3>1, <3>2
  <2>. QED BY <1>2, <2>3, <2>4
<1>. QED BY <1>3, <1>4

LEMMA StatStep ==
  ASSUME IInv, NEW c \in Conn, Stat(c)
  PROVE  IInv'
<1> USE DEF IInv
<1>1. TypeOK'
  BY DEF Stat, Disk, TypeOK
<1>2. Stored'
  BY SameStored DEF Stat, Disk
<1>3. ASSUME NEW d \in Conn PROVE ThreadInv(d)'
  <2>1. CASE d # c
    BY <2>1, SameThread DEF Same, Stat, Disk, TypeOK
  <2>2. CASE d = c
    <3>1. pc'[c] \in {"serve", "mkdir"}
      BY DEF Stat, TypeOK
    <3>. QED BY <2>2, <3>1 DEF Stat, TypeOK, ThreadInv, Admitted, Unserved, Uploading,
                               AtWork, Name, Admits
  <2>. QED BY <2>1, <2>2
<1>. QED BY <1>1, <1>2, <1>3

LEMMA MkdirStep ==
  ASSUME IInv, NEW c \in Conn, Mkdir(c)
  PROVE  IInv'
<1> USE DEF IInv
<1>1. /\ ThreadInv(c) /\ fp[c] = Closed /\ got[c] = <<>> /\ sock[c] = c
      /\ errno[c] = 0 /\ Admits(req[c].client, Name(c))
  BY DEF Mkdir, ThreadInv, Admitted, Unserved, AtWork
<1>2. Stored'
  BY SameStored DEF Mkdir
<1>3. Name(c) \in User
  BY <1>1, AdmittedIsUser
<1>4. CASE Name(c) \in dirs
  <2>1. Reply(c, 1, fp[c])
        /\ UNCHANGED <<cell, sock, req, upload, got, dirs, file, exists, alone, nreqs>>
    BY <1>4 DEF Mkdir
  <2>2. fp[c] \in [user : User \cup {Nobody}, mode : {"rb", "wb"}]
    BY DEF TypeOK
  <2>3. TypeOK'
    BY <2>1, <2>2, ReplyEffect DEF TypeOK
  <2>4. ASSUME NEW d \in Conn PROVE ThreadInv(d)'
    <3>1. CASE d # c
      BY <2>1, <2>2, <3>1, ReplyEffect, SameThread DEF Same
    <3>2. CASE d = c
      <4>1. pc'[c] = "close"
        BY <1>1, <2>1, <2>2, ReplyEffect
      <4>. QED BY <1>1, <2>1, <3>2, <4>1 DEF ThreadInv, Admitted, Unserved, Uploading, AtWork
    <3>. QED BY <3>1, <3>2
  <2>. QED BY <1>2, <2>3, <2>4
<1>5. CASE Name(c) \notin dirs
  <2>0. dirs' \subseteq User
    BY <1>3, <1>5 DEF Mkdir, TypeOK
  <2>1. TypeOK'
    BY <1>5, <2>0 DEF Mkdir, TypeOK
  <2>2. ASSUME NEW d \in Conn PROVE ThreadInv(d)'
    <3>1. CASE d # c
      BY <1>5, <3>1, SameThread DEF Same, Mkdir, TypeOK
    <3>2. CASE d = c
      <4>1. pc'[c] = "serve"
        BY <1>5 DEF Mkdir, TypeOK
      <4>. QED BY <1>1, <1>5, <3>2, <4>1 DEF Mkdir, ThreadInv, Admitted, Unserved,
                                             Uploading, AtWork, Name, Admits
    <3>. QED BY <3>1, <3>2
  <2>. QED BY <1>2, <2>1, <2>2
<1>. QED BY <1>4, <1>5

LEMMA SendStep ==
  ASSUME IInv, NEW c \in Conn, Send(c)
  PROVE  IInv'
<1> USE DEF IInv
<1>1. ThreadInv(c) /\ sock[c] = c /\ fp[c].user \in User /\ errno[c] = 0
  BY AdmittedIsUser DEF Send, ThreadInv, Admitted, AtWork
<1>2. Stored'
  BY SameStored DEF Send, Disk
<1>3. CASE pos[c] < Len(file[fp[c].user])
  <2>1. /\ got' = [got EXCEPT ![c] = Append(@, file[fp[c].user][pos[c] + 1])]
        /\ pos' = [pos EXCEPT ![c] = @ + 1]
        /\ UNCHANGED <<pc, cell, sock, req, errno, fp, upload, Disk, nreqs>>
    BY <1>1, <1>3 DEF Send
  <2>2. Len(file[fp[c].user]) <= MaxChunks /\ file[fp[c].user] \in Seq(AChunk)
    BY <1>1 DEF Stored, TypeOK
  <2>3. pos[c] + 1 \in 0 .. MaxChunks /\ file[fp[c].user][pos[c] + 1] \in AChunk
    BY <1>3, <2>2, ServerAssumption DEF TypeOK
  <2>4. TypeOK'
    <3>1. got' \in [Conn -> Seq(AChunk)]
      <4>1. got \in [Conn -> Seq(AChunk)]
        BY DEF TypeOK
      <4>2. Append(got[c], file[fp[c].user][pos[c] + 1]) \in Seq(AChunk)
        BY <2>3, <4>1
      <4>. QED BY <2>1, <4>1, <4>2
    <3>2. pos' \in [Conn -> 0 .. MaxChunks]
      BY <2>1, <2>3 DEF TypeOK
    <3>3. UNCHANGED <<pc, cell, sock, req, errno, fp, upload, nreqs, dirs, file, exists, alone>>
      BY <2>1 DEF Disk
    <3>. QED BY <3>1, <3>2, <3>3 DEF TypeOK
  <2>5. ASSUME NEW d \in Conn PROVE ThreadInv(d)'
    <3>1. CASE d # c
      BY <2>1, <3>1, SameThread DEF Same, TypeOK
    <3>2. CASE d = c
      BY <1>1, <2>1, <3>2 DEF Send, ThreadInv, Admitted, Unserved, Uploading, AtWork,
                              Name, Admits
    <3>. QED BY <3>1, <3>2
  <2>. QED BY <1>2, <2>4, <2>5
<1>4. CASE ~ pos[c] < Len(file[fp[c].user])
  <2>1. TypeOK'
    BY <1>4 DEF Send, Disk, TypeOK
  <2>2. ASSUME NEW d \in Conn PROVE ThreadInv(d)'
    <3>1. CASE d # c
      BY <1>4, <3>1, SameThread DEF Same, Send, Disk, TypeOK
    <3>2. CASE d = c
      <4>1. pc'[c] = "close"
        BY <1>4 DEF Send, TypeOK
      <4>. QED BY <1>1, <1>4, <3>2, <4>1 DEF Send, ThreadInv, Admitted, Unserved,
                                             Uploading, AtWork
    <3>. QED BY <3>1, <3>2
  <2>. QED BY <1>2, <2>1, <2>2
<1>. QED BY <1>3, <1>4

LEMMA CloseStep ==
  ASSUME IInv, NEW c \in Conn, Close(c)
  PROVE  IInv'
<1> USE DEF IInv
<1>1. /\ NoReq \in [client : Client \cup {Nobody}, type : {0, CMD_PUT, CMD_GET, CMD_MKDIR},
                    id : 0 .. MaxRequests, len : 0 .. MaxChunks]
      /\ Closed \in [user : User \cup {Nobody}, mode : {"rb", "wb"}]
  BY ServerAssumption DEF NoReq, Closed
<1>2. TypeOK'
  BY <1>1 DEF Close, NoFile, Disk, TypeOK
<1>3. Stored'
  BY SameStored DEF Close, Disk
<1>4. ASSUME NEW d \in Conn PROVE ThreadInv(d)'
  <2>1. CASE d # c
    BY <2>1, SameThread DEF Same, Close, Disk, TypeOK
  <2>2. CASE d = c
    <3>1. pc'[c] = "wait" /\ fp'[c] = Closed /\ req'[c] = NoReq /\ upload'[c] = <<>>
      BY DEF Close, NoFile, TypeOK
    <3>2. sock'[c] = c
      BY DEF Close, ThreadInv, Admitted
    <3>. QED BY <2>2, <3>1, <3>2, ServerAssumption DEF ThreadInv, Admitted, Unserved,
                                                       Uploading, AtWork
  <2>. QED BY <2>1, <2>2
<1>. QED BY <1>2, <1>3, <1>4

LEMMA ServeStep ==
  ASSUME IInv, NEW c \in Conn, Serve(c)
  PROVE  IInv'
<1> USE DEF IInv
<1> DEFINE u == Name(c)
<1>1. /\ ThreadInv(c) /\ fp[c] = Closed /\ got[c] = <<>> /\ sock[c] = c
      /\ errno[c] = 0 /\ Admits(req[c].client, u)
  BY DEF Serve, ThreadInv, Admitted, Unserved, AtWork
<1>2. u \in User
  BY <1>1, AdmittedIsUser
<1>3. /\ UNCHANGED <<cell, sock, req, upload, got, nreqs>>
      /\ \E err \in {0, 1} :
         \E f \in {Closed, Opened(u, "rb"), Opened(u, "wb")} :
            Reply(c, err, f) /\ (f # Closed => err = 0)
      /\ \/ UNCHANGED Disk
         \/ /\ file' = [file EXCEPT ![u] = <<>>] /\ exists' = exists \cup {u}
            /\ alone' \in {alone \cup {u}, alone \ {u}} /\ UNCHANGED dirs
  BY <1>1 DEF Serve, Truncated, Disk
<1>4. PICK err \in {0, 1}, f \in {Closed, Opened(u, "rb"), Opened(u, "wb")} :
         Reply(c, err, f) /\ (f # Closed => err = 0)
  BY <1>3
<1>5. /\ f \in [user : User \cup {Nobody}, mode : {"rb", "wb"}]
      /\ f # Closed => f.user = u
  BY <1>2 DEF Opened, Closed
<1> HIDE DEF u
<1>6. /\ file' \in [User -> Seq(AChunk)] /\ dirs' \subseteq User
      /\ exists' \subseteq User /\ alone' \subseteq User
  <2>1. CASE UNCHANGED Disk
    BY <2>1 DEF Disk, TypeOK
  <2>2. CASE /\ file' = [file EXCEPT ![u] = <<>>] /\ exists' = exists \cup {u}
             /\ alone' \in {alone \cup {u}, alone \ {u}} /\ UNCHANGED dirs
    <3>1. file' \in [User -> Seq(AChunk)]
      BY <1>2, <2>2 DEF TypeOK
    <3>2. dirs' \subseteq User /\ exists' \subseteq User /\ alone' \subseteq User
      BY <1>2, <2>2 DEF TypeOK
    <3>. QED BY <3>1, <3>2
  <2>. QED BY <1>3, <2>1, <2>2
<1>7. TypeOK'
  <2>1. /\ errno' \in [Conn -> {0, 1}] /\ pos' \in [Conn -> 0 .. MaxChunks]
        /\ fp' \in [Conn -> [user : User \cup {Nobody}, mode : {"rb", "wb"}]]
        /\ pc' \in [Conn -> {"none", "started", "wait", "stat", "mkdir", "serve",
                             "sending", "receiving", "close"}]
    BY <1>4, <1>5, ReplyEffect
  <2>2. UNCHANGED <<cell, sock, req, upload, got, nreqs>>
    BY <1>3
  <2> HIDE DEF IInv
  <2>3. TypeOK
    BY DEF IInv
  <2>. QED BY <1>6, <2>1, <2>2, <2>3 DEF TypeOK
<1>8. Stored'
  <2>1. CASE UNCHANGED Disk
    BY <2>1, SameStored DEF Disk
  <2>2. CASE file' = [file EXCEPT ![u] = <<>>]
    BY <1>2, <2>2, ServerAssumption DEF Stored, TypeOK, Admits, Hole, Chunk
  <2>. QED BY <1>3, <2>1, <2>2
<1>9. ASSUME NEW d \in Conn PROVE ThreadInv(d)'
  <2>1. CASE d # c
    BY <1>3, <1>4, <1>5, <2>1, ReplyEffect, SameThread DEF Same
  <2>2. CASE d = c
    <3>1. /\ pc'[c] \in {"sending", "receiving", "close"} /\ fp'[c] = f /\ pos'[c] = 0
          /\ errno'[c] = err /\ (f = Closed => pc'[c] = "close")
      BY <1>4, <1>5, ReplyEffect
    <3>2. Name(c)' = u /\ Admits(req'[c].client, u)
      BY <1>1, <1>3 DEF Name, u, Admits
    <3>3. Admitted(c)'
      BY <1>1, <1>3, <1>4, <1>5, <3>1, <3>2 DEF Admitted, AtWork, Admits
    <3>4. Unserved(c)'
      BY <1>1, <1>3, <3>1 DEF Unserved
    <3>5. Uploading(c)'
      BY <1>1, <1>3, <3>1, ServerAssumption DEF Uploading, ThreadInv, TypeOK
    <3>. QED BY <2>2, <3>3, <3>4, <3>5 DEF ThreadInv
  <2>. QED BY <2>1, <2>2
<1>. QED BY <1>7, <1>8, <1>9

\* A chunk written at position p of a file, with holes before it if need be.
WithChunk(f, p, x) ==
    [k \in 1 .. IF p < Len(f) THEN Len(f) ELSE p + 1 |->
        IF k = p + 1 THEN x ELSE IF k <= Len(f) THEN f[k] ELSE Hole]

LEMMA WriteChunk ==
  ASSUME NEW f \in Seq(AChunk), NEW x \in AChunk, NEW p \in Nat
  PROVE  /\ WithChunk(f, p, x) \in Seq(AChunk)
         /\ Len(WithChunk(f, p, x)) = IF p < Len(f) THEN Len(f) ELSE p + 1
         /\ \A k \in 1 .. Len(WithChunk(f, p, x)) :
                \/ WithChunk(f, p, x)[k] \in {x, Hole}
                \/ k \in 1 .. Len(f) /\ WithChunk(f, p, x)[k] = f[k]
<1> DEFINE M == IF p < Len(f) THEN Len(f) ELSE p + 1
           g == [k \in 1 .. M |->
                    IF k = p + 1 THEN x ELSE IF k <= Len(f) THEN f[k] ELSE Hole]
<1>1. M \in Nat
  OBVIOUS
<1>2. Hole \in AChunk
  BY ServerAssumption DEF Hole, Chunk, NoReq, AChunk
<1>3. \A k \in 1 .. M : /\ g[k] \in AChunk
                        /\ g[k] \in {x, Hole} \/ (k \in 1 .. Len(f) /\ g[k] = f[k])
  BY <1>1, <1>2
<1> HIDE DEF M
<1>4. g \in Seq(AChunk) /\ Len(g) = M
  BY <1>1, <1>3
<1>5. \A k \in 1 .. Len(g) : g[k] \in {x, Hole} \/ (k \in 1 .. Len(f) /\ g[k] = f[k])
  BY <1>3, <1>4
<1>. QED BY <1>4, <1>5 DEF M, WithChunk

LEMMA ReceiveStep ==
  ASSUME IInv, NEW c \in Conn, Receive(c)
  PROVE  IInv'
<1> USE DEF IInv
<1> DEFINE u == fp[c].user
<1>1. /\ ThreadInv(c) /\ sock[c] = c /\ errno[c] = 0 /\ pc[c] = "receiving"
      /\ u = Name(c) /\ Admits(req[c].client, u)
  BY DEF Receive, ThreadInv, Admitted, AtWork
<1>2. u \in User
  BY <1>1, AdmittedIsUser
<1> HIDE DEF u
<1>3. CASE upload[c] = <<>>
  <2>1. /\ pc' = [pc EXCEPT ![c] = "close"]
        /\ UNCHANGED <<file, pos, upload, cell, sock, req, errno, fp, got, dirs,
                       exists, alone, nreqs>>
    BY <1>1, <1>3 DEF Receive
  <2>2. TypeOK'
    BY <2>1 DEF TypeOK
  <2>3. Stored'
    BY <2>1, SameStored
  <2>4. ASSUME NEW d \in Conn PROVE ThreadInv(d)'
    <3>1. CASE d # c
      BY <2>1, <3>1, SameThread DEF Same, TypeOK
    <3>2. CASE d = c
      <4>1. pc'[c] = "close"
        BY <2>1 DEF TypeOK
      <4>. QED BY <1>1, <2>1, <3>2, <4>1 DEF ThreadInv, Admitted, Unserved, Uploading,
                                             AtWork
    <3>. QED BY <3>1, <3>2
  <2>. QED BY <2>2, <2>3, <2>4
<1>4. CASE upload[c] # <<>>
  <2> DEFINE x == Head(upload[c])
             f == file[u]
             g == WithChunk(f, pos[c], x)
  <2>1. /\ file' = [file EXCEPT ![u] = g]
        /\ pos' = [pos EXCEPT ![c] = @ + 1]
        /\ upload' = [upload EXCEPT ![c] = Tail(@)]
        /\ UNCHANGED <<pc, cell, sock, req, errno, fp, got, dirs, exists, alone, nreqs>>
    BY <1>1, <1>2, <1>4 DEF Receive, Eof, u, TypeOK, WithChunk
  <2>2. upload[c] \in Seq(AChunk) /\ f \in Seq(AChunk) /\ pos[c] \in 0 .. MaxChunks
    BY <1>2 DEF TypeOK
  <2>3. /\ x \in AChunk /\ x.client = req[c].client
        /\ Tail(upload[c]) \in Seq(AChunk)
        /\ Len(Tail(upload[c])) = Len(upload[c]) - 1 /\ Len(Tail(upload[c])) \in Nat
        /\ \A k \in 1 .. Len(Tail(upload[c])) : Tail(upload[c])[k].client = req[c].client
    BY <1>1, <1>4, <2>2 DEF ThreadInv, Uploading
  <2>4. pos[c] + 1 <= MaxChunks /\ pos[c] + 1 + Len(Tail(upload[c])) <= MaxChunks
    BY <1>1, <1>4, <2>2, <2>3, ServerAssumption DEF ThreadInv, Uploading
  <2>5. /\ g \in Seq(AChunk)
        /\ Len(g) = IF pos[c] < Len(f) THEN Len(f) ELSE pos[c] + 1
        /\ \A k \in 1 .. Len(g) : g[k] \in {x, Hole} \/ (k \in 1 .. Len(f) /\ g[k] = f[k])
    <3>1. pos[c] \in Nat
      BY <2>2
    <3>2. x \in AChunk /\ f \in Seq(AChunk)
      BY <2>2, <2>3
    <3> HIDE DEF x, f
    <3>. QED BY <3>1, <3>2, WriteChunk
  <2> HIDE DEF g, x
  <2>6. TypeOK'
    <3>1. file' \in [User -> Seq(AChunk)]
      BY <1>2, <2>1, <2>5 DEF TypeOK
    <3>2. pos' \in [Conn -> 0 .. MaxChunks]
      BY <2>1, <2>2, <2>4, ServerAssumption DEF TypeOK
    <3>3. upload' \in [Conn -> Seq(AChunk)]
      BY <2>1, <2>3 DEF TypeOK
    <3>. QED BY <2>1, <3>1, <3>2, <3>3 DEF TypeOK
  <2>7. Stored'
    <3>1. ASSUME NEW v \in User
          PROVE  /\ Len(file'[v]) <= MaxChunks
                 /\ \A k \in 1 .. Len(file'[v]) :
                        file'[v][k] = Hole \/ Admits(file'[v][k].client, v)
      <4>1. CASE v # u
        BY <1>2, <2>1, <4>1 DEF Stored, TypeOK
      <4>2. CASE v = u
        <5>1. file'[v] = g
          BY <1>2, <2>1, <4>2 DEF TypeOK
        <5>2. Len(g) <= MaxChunks
          BY <1>2, <2>2, <2>4, <2>5 DEF Stored
        <5>3. ASSUME NEW k \in 1 .. Len(g)
              PROVE  g[k] = Hole \/ Admits(g[k].client, u)
          BY <1>1, <1>2, <2>3, <2>5 DEF Stored
        <5>. QED BY <4>2, <5>1, <5>2, <5>3
      <4>. QED BY <4>1, <4>2
    <3>. QED BY <3>1 DEF Stored, Admits, Hole, Chunk
  <2>8. ASSUME NEW d \in Conn PROVE ThreadInv(d)'
    <3>1. CASE d # c
      BY <2>1, <3>1, SameThread DEF Same, TypeOK
    <3>2. CASE d = c
      <4>1. pc'[c] = pc[c] /\ upload'[c] = Tail(upload[c]) /\ pos'[c] = pos[c] + 1
        BY <2>1 DEF TypeOK
      <4>2. Admitted(c)'
        BY <1>1, <2>1, <4>1 DEF ThreadInv, Admitted, AtWork, Admits, Name
      <4>3. Unserved(c)'
        BY <1>1, <2>1, <4>1 DEF Unserved
      <4>4. Uploading(c)'
        <5>1. \A k \in 1 .. Len(upload'[c]) : upload'[c][k].client = req'[c].client
          BY <2>1, <2>3, <4>1
        <5>2. Len(upload'[c]) <= MaxChunks /\ pos'[c] + Len(upload'[c]) <= MaxChunks
          BY <2>2, <2>3, <2>4, <4>1, ServerAssumption
        <5>. QED BY <5>1, <5>2 DEF Uploading
      <4>. QED BY <3>2, <4>2, <4>3, <4>4 DEF ThreadInv
    <3>. QED BY <3>1, <3>2
  <2>. QED BY <2>6, <2>7, <2>8
<1>. QED BY <1>3, <1>4
-----------------------------------------------------------------------------
LEMMA IInvInit ==
  ASSUME Init
  PROVE  IInv
<1>1. TypeOK
  BY ServerAssumption DEF Init, TypeOK, NoReq, Closed
<1>2. Stored
  BY ServerAssumption DEF Init, Stored
<1>3. ASSUME NEW c \in Conn PROVE ThreadInv(c)
  BY ServerAssumption DEF Init, ThreadInv, Admitted, Unserved, Uploading, AtWork
<1>. QED BY <1>1, <1>2, <1>3 DEF IInv

LEMMA IInvStep ==
  ASSUME IInv, [Next]_vars
  PROVE  IInv'
<1>1. CASE UNCHANGED vars
  <2>1. TypeOK'
    BY <1>1 DEF IInv, vars, TypeOK
  <2>2. Stored'
    BY <1>1, SameStored DEF IInv, vars
  <2>3. ASSUME NEW c \in Conn PROVE ThreadInv(c)'
    BY <1>1, SameThread DEF IInv, vars, Same
  <2>. QED BY <2>1, <2>2, <2>3 DEF IInv
<1>2. ASSUME NEW c \in Conn, Accept(c) \/ Request(c) \/ Thread(c)
      PROVE  IInv'
  BY <1>2, AcceptStep, RequestStep, HandlerStep, CheckStep, StatStep, MkdirStep,
     ServeStep, SendStep, ReceiveStep, CloseStep DEF Thread
<1>. QED BY <1>1, <1>2 DEF Next

\* The inductive invariant: whose connection, directory and file every thread
\* works on, and from whom every stored chunk is.
THEOREM DfcServerInvariant == Spec => []IInv
<1>. QED BY IInvInit, IInvStep, PTL DEF Spec

\* Threads, files and what is on the wire stay within their values.
THEOREM DfcServerTypeOK == Spec => []TypeOK
<1>1. IInv => TypeOK
  BY DEF IInv
<1>. QED BY <1>1, DfcServerInvariant, PTL

\* A client that has been refused is sent no file, whatever the other clients
\* do and the configuration files say (connection_handler of dfc/server.c).
THEOREM RefusedNeverServed == Spec => []RefusedGetsNothing
<1>1. IInv => RefusedGetsNothing
  BY DEF IInv, RefusedGetsNothing, ThreadInv, Admitted, Unserved, AtWork
<1>. QED BY <1>1, DfcServerInvariant, PTL
-----------------------------------------------------------------------------
(* The configuration files.                                                *)

\* Induction over the natural numbers, for a set instead of a formula.
Below == {p \in Nat \X Nat : p[1] < p[2]}

LEMMA BelowWF == IsWellFoundedOn(Below, Nat)
<1>1. IsWellFoundedOn(OpToRel(<, Nat), Nat)
  BY NatLessThanWellFounded
<1>2. OpToRel(<, Nat) = Below
  BY DEF OpToRel, Below
<1>. QED BY <1>1, <1>2

LEMMA NatHasLeast ==
  ASSUME NEW T, T \subseteq Nat, T # {}
  PROVE  \E m \in T : \A k \in T : m <= k
<1>1. PICK m \in T : \A k \in T : ~ (<<k, m>> \in Below)
  BY BelowWF, WFMin
<1>2. \A k \in T : ~ (k < m)
  BY <1>1 DEF Below
<1>. QED BY <1>2

LEMMA NatByInduction ==
  ASSUME NEW S, 0 \in S, \A n \in Nat : n \in S => n + 1 \in S
  PROVE  Nat \subseteq S
<1> DEFINE T == Nat \ S
<1>1. SUFFICES ASSUME T # {} PROVE FALSE
  OBVIOUS
<1>2. PICK m \in T : \A k \in T : m <= k
  BY <1>1, NatHasLeast
<1>3. m - 1 \in Nat /\ m - 1 \notin T
  BY <1>2
<1>. QED BY <1>3

-----------------------------------------------------------------------------
\* One line of a file of either kind, what there is before the first line, and
\* what defines the fold of both over the lines.
ReadLine(kind, conf, words) ==
    IF kind = "server" THEN ServerLine(conf, words) ELSE ClientLine(conf, words)

NoLine(kind) == IF kind = "server" THEN <<>> ELSE NoConf

LineFold(kind, lines, g, s) ==
    IF s = {} THEN NoLine(kind) ELSE ReadLine(kind, g[s \ {Max(s)}], lines[Max(s)])

Folds(kind, lines, n, g) ==
    g = [s \in SUBSET (1 .. n) |-> LineFold(kind, lines, g, s)]

LEMMA MaxIsLast ==
  ASSUME NEW n \in Nat, NEW s \in SUBSET (1 .. n), n \in s
  PROVE  Max(s) = n
<1>1. \A x \in s : (\A y \in s : x >= y) => x = n
  OBVIOUS
<1>2. n \in s /\ \A y \in s : n >= y
  OBVIOUS
<1>. QED BY <1>1, <1>2, Zenon DEF Max

LEMMA LineFoldSolved ==
  ASSUME NEW kind, NEW lines
  PROVE  \A n \in Nat : \E g : g = [s \in SUBSET (1 .. n) |-> LineFold(kind, lines, g, s)]
<1> DEFINE S == {n \in Nat : \E g : g = [s \in SUBSET (1 .. n) |-> LineFold(kind, lines, g, s)]}
<1>1. 0 \in S
  <2> DEFINE g == [s \in SUBSET (1 .. 0) |-> NoLine(kind)]
  <2>1. \A s \in SUBSET (1 .. 0) : s = {}
    OBVIOUS
  <2>2. g = [s \in SUBSET (1 .. 0) |-> LineFold(kind, lines, g, s)]
    BY <2>1, Zenon DEF LineFold
  <2>. QED BY <2>2
<1>2. ASSUME NEW n \in Nat, n \in S PROVE n + 1 \in S
  <2>1. PICK g : g = [s \in SUBSET (1 .. n) |-> LineFold(kind, lines, g, s)]
    BY <1>2
  <2> DEFINE h == [s \in SUBSET (1 .. n + 1) |->
                      IF n + 1 \in s THEN ReadLine(kind, g[s \ {n + 1}], lines[n + 1]) ELSE g[s]]
  <2>2. ASSUME NEW s \in SUBSET (1 .. n + 1), n + 1 \notin s PROVE s \in SUBSET (1 .. n)
    BY <2>2
  <2>3. ASSUME NEW s \in SUBSET (1 .. n) PROVE h[s] = g[s] /\ n + 1 \notin s
    <3>1. s \in SUBSET (1 .. n + 1) /\ n + 1 \notin s
      OBVIOUS
    <3>. QED BY <3>1
  <2>4. ASSUME NEW s \in SUBSET (1 .. n + 1) PROVE h[s] = LineFold(kind, lines, h, s)
    <3>1. CASE n + 1 \in s
      <4>1. Max(s) = n + 1 /\ s # {}
        BY <3>1, MaxIsLast, n + 1 \in Nat
      <4>2. s \ {n + 1} \in SUBSET (1 .. n)
        BY <2>2
      <4>3. h[s \ {n + 1}] = g[s \ {n + 1}]
        BY <2>3, <4>2
      <4>4. h[s] = ReadLine(kind, g[s \ {n + 1}], lines[n + 1])
        BY <3>1
      <4> HIDE DEF h
      <4>. QED BY <4>1, <4>3, <4>4 DEF LineFold
    <3>2. CASE n + 1 \notin s
      <4>1. s \in SUBSET (1 .. n) /\ s \ {Max(s)} \in SUBSET (1 .. n)
        BY <2>2, <3>2
      <4>2. h[s] = g[s] /\ h[s \ {Max(s)}] = g[s \ {Max(s)}]
        BY <2>3, <4>1
      <4>3. g[s] = LineFold(kind, lines, g, s)
        BY <2>1, <4>1
      <4> HIDE DEF h
      <4>. QED BY <4>2, <4>3 DEF LineFold
    <3>. QED BY <3>1, <3>2
  <2>5. h = [s \in SUBSET (1 .. n + 1) |-> LineFold(kind, lines, h, s)]
    <3>1. h = [s \in SUBSET (1 .. n + 1) |-> h[s]]
      OBVIOUS
    <3> HIDE DEF h
    <3>. QED BY <2>4, <3>1
  <2> HIDE DEF h
  <2>6. \E f : f = [s \in SUBSET (1 .. n + 1) |-> LineFold(kind, lines, f, s)]
    BY <2>5
  <2>. QED BY <2>6
<1> HIDE DEF S
<1>3. Nat \subseteq S
  BY <1>1, <1>2, NatByInduction
<1>. QED BY <1>3 DEF S

\* A solution of it reads one line after the other.
LEMMA LineByLine ==
  ASSUME NEW kind, NEW lines, IsFile(lines),
         NEW g, Folds(kind, lines, Len(lines), g)
  PROVE  \E f : /\ f[0] = NoLine(kind) /\ f[Len(lines)] = g[1 .. Len(lines)]
                /\ \A n \in 0 .. Len(lines) - 1 : f[n + 1] = ReadLine(kind, f[n], lines[n + 1])
<1> DEFINE f == [n \in 0 .. Len(lines) |-> g[1 .. n]]
<1>1. Len(lines) \in Nat
  BY DEF IsFile
<1>2. ASSUME NEW n \in 0 .. Len(lines) PROVE 1 .. n \in SUBSET (1 .. Len(lines))
  BY <1>1
<1>3. ASSUME NEW n \in 0 .. Len(lines) - 1
      PROVE  f[n + 1] = ReadLine(kind, f[n], lines[n + 1])
  <2>1. n + 1 \in Nat /\ n + 1 \in 1 .. n + 1 /\ n + 1 \in 0 .. Len(lines) /\ n \in 0 .. Len(lines)
    BY <1>1
  <2>2. Max(1 .. n + 1) = n + 1
    BY <2>1, MaxIsLast
  <2>3. (1 .. n + 1) \ {n + 1} = 1 .. n
    BY <1>1
  <2>4. g[1 .. n + 1] = LineFold(kind, lines, g, 1 .. n + 1)
    BY <1>2, <2>1 DEF Folds
  <2>5. g[1 .. n + 1] = ReadLine(kind, g[1 .. n], lines[n + 1])
    BY <2>1, <2>2, <2>3, <2>4 DEF LineFold
  <2>. QED BY <2>1, <2>5
<1>4. f[0] = NoLine(kind)
  <2>1. 1 .. 0 = {} /\ 0 \in 0 .. Len(lines)
    BY <1>1
  <2>2. g[1 .. 0] = LineFold(kind, lines, g, 1 .. 0)
    BY <1>2, <2>1 DEF Folds
  <2>. QED BY <2>1, <2>2 DEF LineFold
<1>5. f[Len(lines)] = g[1 .. Len(lines)]
  BY <1>1
<1> HIDE DEF f
<1>. QED BY <1>3, <1>4, <1>5

LEMMA ServerFileRead ==
  ASSUME NEW lines, IsFile(lines)
  PROVE  \E f : /\ f[0] = <<>> /\ f[Len(lines)] = init_server_config(lines)
                /\ \A n \in 0 .. Len(lines) - 1 : f[n + 1] = ServerLine(f[n], lines[n + 1])
<1> DEFINE Step(g, s) == IF s = {} THEN <<>> ELSE ServerLine(g[s \ {Max(s)}], lines[Max(s)])
           g == CHOOSE g : g = [s \in SUBSET DOMAIN lines |-> Step(g, s)]
<1>1. Len(lines) \in Nat /\ DOMAIN lines = 1 .. Len(lines)
  BY DEF IsFile
<1>2. init_server_config(lines) = g[DOMAIN lines]
  BY DEF init_server_config, FoldLeft, MapThenFoldSet
<1>3. \A h, s : Step(h, s) = LineFold("server", lines, h, s)
  BY DEF LineFold, ReadLine, NoLine
<1> HIDE DEF Step
<1>4. \E h : h = [s \in SUBSET DOMAIN lines |-> Step(h, s)]
  <2>1. PICK h : h = [s \in SUBSET (1 .. Len(lines)) |-> LineFold("server", lines, h, s)]
    BY <1>1, LineFoldSolved
  <2>2. h = [s \in SUBSET DOMAIN lines |-> Step(h, s)]
    BY <1>1, <1>3, <2>1, Zenon
  <2>. QED BY <2>2
<1>5. g = [s \in SUBSET (1 .. Len(lines)) |-> Step(g, s)]
  BY <1>1, <1>4
<1> HIDE DEF g
<1>6. Folds("server", lines, Len(lines), g)
  BY <1>3, <1>5, Zenon DEF Folds
<1>7. \E f : /\ f[0] = NoLine("server") /\ f[Len(lines)] = g[1 .. Len(lines)]
             /\ \A n \in 0 .. Len(lines) - 1 :
                    f[n + 1] = ReadLine("server", f[n], lines[n + 1])
  BY <1>6, LineByLine
<1>. QED BY <1>1, <1>2, <1>7 DEF ReadLine, NoLine

LEMMA ClientFileRead ==
  ASSUME NEW lines, IsFile(lines)
  PROVE  \E f : /\ f[0] = NoConf /\ f[Len(lines)] = init_client_config(lines)
                /\ \A n \in 0 .. Len(lines) - 1 : f[n + 1] = ClientLine(f[n], lines[n + 1])
<1> DEFINE Step(g, s) == IF s = {} THEN NoConf ELSE ClientLine(g[s \ {Max(s)}], lines[Max(s)])
           g == CHOOSE g : g = [s \in SUBSET DOMAIN lines |-> Step(g, s)]
<1>1. Len(lines) \in Nat /\ DOMAIN lines = 1 .. Len(lines)
  BY DEF IsFile
<1>2. init_client_config(lines) = g[DOMAIN lines]
  BY DEF init_client_config, FoldLeft, MapThenFoldSet
<1>3. \A h, s : Step(h, s) = LineFold("client", lines, h, s)
  BY DEF LineFold, ReadLine, NoLine
<1> HIDE DEF Step
<1>4. \E h : h = [s \in SUBSET DOMAIN lines |-> Step(h, s)]
  <2>1. PICK h : h = [s \in SUBSET (1 .. Len(lines)) |-> LineFold("client", lines, h, s)]
    BY <1>1, LineFoldSolved
  <2>2. h = [s \in SUBSET DOMAIN lines |-> Step(h, s)]
    BY <1>1, <1>3, <2>1, Zenon
  <2>. QED BY <2>2
<1>5. g = [s \in SUBSET (1 .. Len(lines)) |-> Step(g, s)]
  BY <1>1, <1>4
<1> HIDE DEF g
<1>6. Folds("client", lines, Len(lines), g)
  BY <1>3, <1>5, Zenon DEF Folds
<1>7. \E f : /\ f[0] = NoLine("client") /\ f[Len(lines)] = g[1 .. Len(lines)]
             /\ \A n \in 0 .. Len(lines) - 1 :
                    f[n + 1] = ReadLine("client", f[n], lines[n + 1])
  BY <1>6, LineByLine
<1>. QED BY <1>1, <1>2, <1>7 DEF ReadLine, NoLine
-----------------------------------------------------------------------------
\* What the first n lines of client.conf say: the last of those with a key counts.
SaidBy(lines, n, key) ==
    {m \in 1 .. n : Len(lines[m]) >= 2 /\ lines[m][1].word = key}

SaysLast(lines, n, key, v) ==
    \/ SaidBy(lines, n, key) = {} /\ v = Empty
    \/ \E m \in SaidBy(lines, n, key) :
           v = lines[m][2] /\ \A j \in SaidBy(lines, n, key) : j <= m

ReadSoFar(lines, n, conf) ==
    /\ conf = [username |-> conf.username, password |-> conf.password, hosts |-> conf.hosts]
    /\ SaysLast(lines, n, "username", conf.username)
    /\ SaysLast(lines, n, "password", conf.password)

LEMMA KeyWord ==
  ASSUME NEW w, w = Written(w.word, w.caps, w.colon), NEW key
  PROVE  strcmp(Key(w), key) <=> w.word = key
<1> DEFINE r == Key(w)
<1>1. w \in [word : {w.word}, caps : {w.caps}, colon : {w.colon}]
  BY DEF Written
<1>2. r \in [word : {w.word}, caps : {FALSE}, colon : {FALSE}]
  BY <1>1 DEF Key, lower, strip
<1> HIDE DEF r
<1>3. r.word = w.word /\ r.caps = FALSE /\ r.colon = FALSE
  BY <1>2
<1>4. r = [word |-> w.word, caps |-> FALSE, colon |-> FALSE]
  BY <1>2, <1>3
<1>5. strcmp(r, key) <=> w.word = key
  BY <1>4 DEF strcmp, Written
<1>. QED BY <1>5 DEF r

\* A line that says nothing of key, and one that does.
LEMMA SaysOther ==
  ASSUME NEW lines, NEW n \in Nat, NEW key, NEW v, SaysLast(lines, n, key, v),
         ~ (Len(lines[n + 1]) >= 2 /\ lines[n + 1][1].word = key)
  PROVE  SaysLast(lines, n + 1, key, v)
<1>1. SaidBy(lines, n + 1, key) = SaidBy(lines, n, key)
  BY DEF SaidBy
<1>. QED BY <1>1 DEF SaysLast

LEMMA SaysThis ==
  ASSUME NEW lines, NEW n \in Nat, NEW key,
         Len(lines[n + 1]) >= 2 /\ lines[n + 1][1].word = key
  PROVE  SaysLast(lines, n + 1, key, lines[n + 1][2])
<1>1. n + 1 \in SaidBy(lines, n + 1, key) /\ \A j \in SaidBy(lines, n + 1, key) : j <= n + 1
  BY DEF SaidBy
<1>. QED BY <1>1 DEF SaysLast

LEMMA ClientLineRead ==
  ASSUME NEW lines, IsFile(lines), HasKeys(lines), NEW n \in 0 .. Len(lines) - 1,
         NEW conf, ReadSoFar(lines, n, conf)
  PROVE  ReadSoFar(lines, n + 1, ClientLine(conf, lines[n + 1]))
<1> DEFINE words == lines[n + 1]
           new   == ClientLine(conf, words)
<1> SUFFICES ReadSoFar(lines, n + 1, new)
  OBVIOUS
<1>1. n \in Nat /\ Len(words) \in Nat /\ n + 1 \in 1 .. Len(lines)
  BY DEF IsFile
<1>2. CASE Len(words) < 2
  <2>1. new = conf /\ ~ (Len(words) >= 2)
    BY <1>1, <1>2 DEF ClientLine
  <2> HIDE DEF new
  <2>. QED BY <1>1, <2>1, SaysOther DEF ReadSoFar
<1>3. CASE Len(words) >= 2
  <2>1. \A key : strcmp(Key(words[1]), key) <=> words[1].word = key
    <3>1. words[1] = Written(words[1].word, words[1].caps, words[1].colon)
      BY <1>1, <1>3 DEF HasKeys
    <3>. QED BY <3>1, KeyWord
  <2>2. CASE words[1].word = "username"
    <3>1. new = [conf EXCEPT !.username = words[2]]
      BY <1>1, <1>3, <2>1, <2>2 DEF ClientLine
    <3>2. /\ new.username = words[2] /\ new.password = conf.password
          /\ new = [username |-> new.username, password |-> new.password, hosts |-> new.hosts]
      BY <3>1 DEF ReadSoFar
    <3>3. words[1].word # "password"
      BY <2>2
    <3> HIDE DEF new
    <3>4. SaysLast(lines, n + 1, "username", words[2])
      BY <1>1, <1>3, <2>2, SaysThis
    <3>5. SaysLast(lines, n + 1, "password", conf.password)
      BY <1>1, <3>3, SaysOther DEF ReadSoFar
    <3>. QED BY <3>2, <3>4, <3>5 DEF ReadSoFar
  <2>3. CASE words[1].word = "password"
    <3>1. new = [conf EXCEPT !.password = words[2]]
      BY <1>1, <1>3, <2>1, <2>3 DEF ClientLine
    <3>2. /\ new.password = words[2] /\ new.username = conf.username
          /\ new = [username |-> new.username, password |-> new.password, hosts |-> new.hosts]
      BY <3>1 DEF ReadSoFar
    <3>3. words[1].word # "username"
      BY <2>3
    <3> HIDE DEF new
    <3>4. SaysLast(lines, n + 1, "password", words[2])
      BY <1>1, <1>3, <2>3, SaysThis
    <3>5. SaysLast(lines, n + 1, "username", conf.username)
      BY <1>1, <3>3, SaysOther DEF ReadSoFar
    <3>. QED BY <3>2, <3>4, <3>5 DEF ReadSoFar
  <2>4. CASE words[1].word \notin {"username", "password"}
    <3>1. \/ new = conf
          \/ new = [conf EXCEPT !.hosts = Append(@, split_first(words[3]))]
      BY <1>1, <1>3, <2>1, <2>4 DEF ClientLine
    <3>2. /\ new.username = conf.username /\ new.password = conf.password
          /\ new = [username |-> new.username, password |-> new.password, hosts |-> new.hosts]
      BY <3>1 DEF ReadSoFar
    <3>3. words[1].word # "username" /\ words[1].word # "password"
      BY <2>4
    <3> HIDE DEF new
    <3>4. SaysLast(lines, n + 1, "username", conf.username)
      BY <1>1, <3>3, SaysOther DEF ReadSoFar
    <3>5. SaysLast(lines, n + 1, "password", conf.password)
      BY <1>1, <3>3, SaysOther DEF ReadSoFar
    <3>. QED BY <3>2, <3>4, <3>5 DEF ReadSoFar
  <2>. QED BY <2>2, <2>3, <2>4
<1>. QED BY <1>1, <1>2, <1>3

\* init_client_config takes from the file what the last lines of each key say.
LEMMA ClientConfRead ==
  ASSUME NEW lines, IsFile(lines), HasKeys(lines)
  PROVE  /\ init_client_config(lines).username = LastOf(lines, "username")
         /\ init_client_config(lines).password = LastOf(lines, "password")
<1>1. PICK f : /\ f[0] = NoConf /\ f[Len(lines)] = init_client_config(lines)
               /\ \A n \in 0 .. Len(lines) - 1 : f[n + 1] = ClientLine(f[n], lines[n + 1])
  BY ClientFileRead
<1> DEFINE S == {n \in Nat : n <= Len(lines) => ReadSoFar(lines, n, f[n])}
<1>2. Len(lines) \in Nat
  BY DEF IsFile
<1>3. 0 \in S
  BY <1>1 DEF ReadSoFar, SaysLast, SaidBy, NoConf
<1>4. ASSUME NEW n \in Nat, n \in S PROVE n + 1 \in S
  <2>1. CASE n + 1 <= Len(lines)
    <3>1. n \in 0 .. Len(lines) - 1 /\ ReadSoFar(lines, n, f[n])
      BY <1>2, <1>4, <2>1
    <3>2. ReadSoFar(lines, n + 1, f[n + 1])
      BY <1>1, <3>1, ClientLineRead
    <3>. QED BY <3>2
  <2>. QED BY <1>2, <2>1
<1> HIDE DEF S
<1>5. Nat \subseteq S
  BY <1>3, <1>4, NatByInduction
<1>6. ReadSoFar(lines, Len(lines), init_client_config(lines))
  BY <1>1, <1>2, <1>5 DEF S
<1>7. ASSUME NEW key, NEW v, SaysLast(lines, Len(lines), key, v)
      PROVE  v = LastOf(lines, key)
  <2>1. Says(lines, key) = SaidBy(lines, Len(lines), key)
    BY DEF Says, SaidBy
  <2>2. CASE Says(lines, key) = {}
    BY <1>7, <2>1, <2>2 DEF LastOf, SaysLast
  <2>3. CASE Says(lines, key) # {}
    <3>1. PICK m \in Says(lines, key) : v = lines[m][2] /\ \A j \in Says(lines, key) : j <= m
      BY <1>7, <2>1, <2>3 DEF SaysLast
    <3>2. Says(lines, key) \in SUBSET (1 .. m) /\ m \in Nat
      BY <1>2, <3>1 DEF Says
    <3>3. Max(Says(lines, key)) = m
      BY <3>1, <3>2, MaxIsLast
    <3>. QED BY <2>3, <3>1, <3>3 DEF LastOf
  <2>. QED BY <2>2, <2>3
<1>. QED BY <1>6, <1>7 DEF ReadSoFar
-----------------------------------------------------------------------------
\* The users that the first n lines of server.conf make: one for each line of two
\* words or more, in the order of the lines.
Full(lines, n) == {m \in 1 .. n : Len(lines[m]) >= 2}

UserOf(words) == [username |-> words[1], password |-> words[2]]

InOrder(lines, n, us, at) ==
    /\ at \in [1 .. Len(us) -> Full(lines, n)]
    /\ \A i, j \in 1 .. Len(us) : i < j => at[i] < at[j]
    /\ \A m \in Full(lines, n) : \E i \in 1 .. Len(us) : at[i] = m
    /\ \A i \in 1 .. Len(us) : us[i] = UserOf(lines[at[i]])

Registered(lines, n, us) ==
    /\ us \in Seq({UserOf(lines[m]) : m \in 1 .. Len(lines)})
    /\ \E at : InOrder(lines, n, us, at)

LEMMA ServerLineRead ==
  ASSUME NEW lines, IsFile(lines), NEW n \in 0 .. Len(lines) - 1,
         NEW us, Registered(lines, n, us)
  PROVE  Registered(lines, n + 1, ServerLine(us, lines[n + 1]))
<1> DEFINE words == lines[n + 1]
           new   == ServerLine(us, words)
           W     == {UserOf(lines[m]) : m \in 1 .. Len(lines)}
<1> SUFFICES Registered(lines, n + 1, new)
  OBVIOUS
<1>1. n \in Nat /\ Len(words) \in Nat /\ n + 1 \in 1 .. Len(lines)
  BY DEF IsFile
<1>2. us \in Seq(W)
  BY DEF Registered
<1>3. PICK at : InOrder(lines, n, us, at)
  BY DEF Registered
<1>4. CASE Len(words) < 2
  <2>1. new = us
    BY <1>4 DEF ServerLine
  <2>2. Full(lines, n + 1) = Full(lines, n)
    BY <1>1, <1>4 DEF Full
  <2> HIDE DEF new
  <2>3. InOrder(lines, n + 1, us, at)
    BY <1>3, <2>2 DEF InOrder
  <2>. QED BY <1>2, <2>1, <2>3 DEF Registered
<1>5. CASE Len(words) >= 2
  <2>1. new = Append(us, UserOf(words)) /\ UserOf(words) \in W
    BY <1>1, <1>5 DEF ServerLine, UserOf
  <2> HIDE DEF W, new
  <2>2. /\ new \in Seq(W) /\ Len(us) \in Nat /\ Len(new) = Len(us) + 1
        /\ \A i \in 1 .. Len(us) : new[i] = us[i]
        /\ new[Len(us) + 1] = UserOf(words)
    BY <1>2, <2>1
  <2> DEFINE to == [i \in 1 .. Len(us) + 1 |-> IF i <= Len(us) THEN at[i] ELSE n + 1]
  <2>3. /\ n + 1 \in Full(lines, n + 1) /\ Full(lines, n + 1) = Full(lines, n) \cup {n + 1}
        /\ \A m \in Full(lines, n) : m < n + 1
    BY <1>1, <1>5 DEF Full
  <2>4. /\ \A i \in 1 .. Len(us) : to[i] = at[i] /\ at[i] \in Full(lines, n)
        /\ to[Len(us) + 1] = n + 1 /\ DOMAIN to = 1 .. Len(us) + 1
        /\ to = [i \in DOMAIN to |-> to[i]]
    <3>1. \A i \in 1 .. Len(us) : at[i] \in Full(lines, n)
      BY <1>3 DEF InOrder
    <3>2. to = [i \in DOMAIN to |-> to[i]]
      OBVIOUS
    <3>3. \A i \in 1 .. Len(us) : to[i] = at[i]
      BY <2>2
    <3>4. to[Len(us) + 1] = n + 1 /\ DOMAIN to = 1 .. Len(us) + 1
      BY <2>2
    <3>. QED BY <3>1, <3>2, <3>3, <3>4
  <2>5. \A i \in 1 .. Len(us) + 1 : i \in 1 .. Len(us) \/ i = Len(us) + 1
    BY <2>2
  <2> HIDE DEF to
  <2>6. to \in [1 .. Len(us) + 1 -> Full(lines, n + 1)]
    <3>1. \A i \in 1 .. Len(us) + 1 : to[i] \in Full(lines, n + 1)
      BY <2>3, <2>4, <2>5
    <3>. QED BY <2>4, <3>1
  <2>7. \A i, j \in 1 .. Len(us) + 1 : i < j => to[i] < to[j]
    <3>1. ASSUME NEW i \in 1 .. Len(us) + 1, NEW j \in 1 .. Len(us) + 1, i < j
          PROVE  to[i] < to[j]
      <4>1. i \in 1 .. Len(us)
        BY <2>2, <3>1
      <4>2. CASE j \in 1 .. Len(us)
        BY <1>3, <2>4, <3>1, <4>1, <4>2 DEF InOrder
      <4>3. CASE j = Len(us) + 1
        BY <2>3, <2>4, <4>1, <4>3
      <4>. QED BY <2>5, <4>2, <4>3
    <3>. QED BY <3>1
  <2>8. \A m \in Full(lines, n + 1) : \E i \in 1 .. Len(us) + 1 : to[i] = m
    <3>1. ASSUME NEW m \in Full(lines, n) PROVE \E i \in 1 .. Len(us) + 1 : to[i] = m
      <4>1. PICK i \in 1 .. Len(us) : at[i] = m
        BY <1>3, <3>1 DEF InOrder
      <4>. QED BY <2>2, <2>4, <4>1
    <3>2. Len(us) + 1 \in 1 .. Len(us) + 1
      BY <2>2
    <3>. QED BY <2>3, <2>4, <3>1, <3>2
  <2>9. \A i \in 1 .. Len(us) + 1 : new[i] = UserOf(lines[to[i]])
    <3>1. \A i \in 1 .. Len(us) : new[i] = UserOf(lines[to[i]])
      BY <1>3, <2>2, <2>4 DEF InOrder
    <3>. QED BY <2>2, <2>4, <2>5, <3>1
  <2>10. InOrder(lines, n + 1, new, to)
    BY <2>2, <2>6, <2>7, <2>8, <2>9 DEF InOrder
  <2>. QED BY <2>2, <2>10 DEF Registered, W
<1>. QED BY <1>1, <1>4, <1>5

LEMMA UsersRead == Registered(ServerConf, Len(ServerConf), users)
<1> DEFINE lines == ServerConf
<1>1. IsFile(lines) /\ Len(lines) \in Nat
  BY ServerAssumption DEF IsFile
<1>2. PICK f : /\ f[0] = <<>> /\ f[Len(lines)] = init_server_config(lines)
               /\ \A n \in 0 .. Len(lines) - 1 : f[n + 1] = ServerLine(f[n], lines[n + 1])
  BY <1>1, ServerFileRead
<1> HIDE DEF lines
<1> DEFINE S == {n \in Nat : n <= Len(lines) => Registered(lines, n, f[n])}
<1>3. 0 \in S
  <2>1. Full(lines, 0) = {} /\ Len(<<>>) = 0 /\ 1 .. 0 = {}
    BY DEF Full
  <2>2. InOrder(lines, 0, <<>>, [i \in 1 .. 0 |-> i])
    BY <2>1 DEF InOrder
  <2>3. Registered(lines, 0, <<>>)
    BY <2>2 DEF Registered
  <2>. QED BY <1>2, <2>3
<1>4. ASSUME NEW n \in Nat, n \in S PROVE n + 1 \in S
  <2>1. CASE n + 1 <= Len(lines)
    <3>1. n \in 0 .. Len(lines) - 1 /\ Registered(lines, n, f[n])
      BY <1>1, <1>4, <2>1
    <3>2. Registered(lines, n + 1, f[n + 1])
      BY <1>1, <1>2, <3>1, ServerLineRead
    <3>. QED BY <3>2
  <2>. QED BY <1>1, <2>1
<1> HIDE DEF S
<1>5. Nat \subseteq S
  BY <1>3, <1>4, NatByInduction
<1>. QED BY <1>1, <1>2, <1>5 DEF S, users, lines

\* The first line that names a user decides what check_user says of a password.
LEMMA FirstEntryDecides ==
  ASSUME NEW u \in User, NEW p
  PROVE  check_user(users, u, p) > 0 <=> p = ServerConf[Min(Entries(u))][2]
<1> DEFINE N == Len(ServerConf)
<1>1. PICK at : InOrder(ServerConf, N, users, at)
  BY UsersRead DEF Registered
<1>2. N \in Nat /\ \A n \in 1 .. N : Len(ServerConf[n]) \in Nat
  BY ServerAssumption DEF IsFile
<1>3. Len(users) \in Nat
  BY UsersRead DEF Registered
<1>4. \A i \in 1 .. Len(users) : /\ at[i] \in Full(ServerConf, N)
                                 /\ users[i].username = ServerConf[at[i]][1]
                                 /\ users[i].password = ServerConf[at[i]][2]
  <2>1. ASSUME NEW i \in 1 .. Len(users)
        PROVE  at[i] \in Full(ServerConf, N) /\ users[i] = UserOf(ServerConf[at[i]])
    BY <1>1 DEF InOrder
  <2>2. \A words : UserOf(words).username = words[1] /\ UserOf(words).password = words[2]
    BY DEF UserOf
  <2>. QED BY <2>1, <2>2
<1> DEFINE Named == {i \in 1 .. Len(users) : users[i].username = u}
<1>5. \A i \in Named : at[i] \in Entries(u)
  BY <1>4 DEF Full, Entries
<1>6. \A m \in Entries(u) : \E i \in Named : at[i] = m
  <2>1. ASSUME NEW m \in Entries(u) PROVE \E i \in Named : at[i] = m
    <3>1. m \in Full(ServerConf, N) /\ ServerConf[m][1] = u
      BY DEF Entries, Full
    <3>2. PICK i \in 1 .. Len(users) : at[i] = m
      BY <1>1, <3>1 DEF InOrder
    <3>. QED BY <1>4, <3>1, <3>2
  <2>. QED BY <2>1
<1>7. PICK v \in Named : \A w \in Named : v <= w
  <2>1. Named # {} /\ Named \subseteq Nat
    BY DEF User
  <2>. QED BY <2>1, NatHasLeast
<1>8. \A w \in Named : at[v] <= at[w]
  <2>1. \A i \in 1 .. Len(users) : at[i] \in Nat
    BY <1>2, <1>4 DEF Full
  <2>2. \A w \in Named : w = v \/ v < w
    BY <1>3, <1>7
  <2>3. \A w \in Named : v < w => at[v] < at[w]
    BY <1>1, <1>7 DEF InOrder
  <2>. QED BY <1>7, <2>1, <2>2, <2>3
<1>9. Min(Entries(u)) = at[v]
  <2>1. at[v] \in Entries(u) /\ \A m \in Entries(u) : at[v] <= m
    BY <1>5, <1>6, <1>7, <1>8
  <2>2. \A m \in Entries(u) : m \in Nat
    BY <1>2 DEF Entries
  <2>3. \A x \in Entries(u) : (\A y \in Entries(u) : x <= y) => x = at[v]
    BY <2>1, <2>2
  <2>. QED BY <2>1, <2>3, Zenon DEF Min
<1>10. check_user(users, u, p) > 0 <=> users[v].password = p
  <2>1. (\E i \in Named : users[i].password = p /\ \A w \in Named : i <= w)
        <=> users[v].password = p
    BY <1>3, <1>7
  <2>. QED BY <2>1 DEF check_user
<1>. QED BY <1>4, <1>7, <1>9, <1>10
-----------------------------------------------------------------------------
\* check_user admits the owners of a directory and nobody else.
LEMMA AdmitsOwners ==
  ASSUME NEW k, NEW u
  PROVE  Admits(k, u) <=> Owns(k, u)
<1>1. CASE k \in Client /\ u \in User
  <2>1. /\ Header[k].username = LastOf(ClientConf[k], "username")
        /\ Header[k].password = LastOf(ClientConf[k], "password")
    BY <1>1, ClientConfRead, ServerAssumption DEF Header
  <2>2. check_user(users, u, Header[k].password) > 0
        <=> Header[k].password = ServerConf[Min(Entries(u))][2]
    BY <1>1, FirstEntryDecides
  <2>. QED BY <1>1, <2>1, <2>2 DEF Admits, Owns, Owners
<1>2. CASE k \notin Client \/ u \notin User
  BY <1>2, AdmittedIsUser DEF Admits, Owns, Owners
<1>. QED BY <1>1, <1>2

\* A PUT that is answered without a file was not admitted, or found the
\* directory made by another thread.
TurnedAway ==
    \A c \in Conn :
        pc[c] = "close" /\ req[c].type = CMD_PUT /\ fp[c] = Closed =>
            ~ Admits(req[c].client, Name(c)) \/ Name(c) \in dirs

LEMMA TurnedAwayThread ==
  ASSUME IInv, NEW c \in Conn, Thread(c), pc'[c] = "close",
         req[c].type = CMD_PUT, fp'[c] = Closed
  PROVE  ~ Admits(req[c].client, Name(c)) \/ Name(c) \in dirs
<1> USE DEF IInv
<1>1. /\ ThreadInv(c) /\ pc \in [Conn -> {"none", "started", "wait", "stat", "mkdir", "serve",
                                          "sending", "receiving", "close"}]
      /\ DOMAIN fp = Conn
  BY DEF TypeOK
<1>2. CASE connection_handler(c) \/ Stat(c) \/ Close(c)
  BY <1>1, <1>2 DEF connection_handler, Stat, Close
<1>3. CASE Check(c)
  <2>1. ~ Known(c)
    BY <1>1, <1>3 DEF Check
  <2>2. req[c].client \in Client
    BY <1>1, <1>3 DEF Check, ThreadInv, Admitted
  <2>. QED BY <2>1, <2>2, KnownIsAdmitted
<1>4. CASE Mkdir(c)
  BY <1>1, <1>4 DEF Mkdir
<1>5. CASE Serve(c)
  <2>1. fp'[c] = Opened(Name(c), "wb")
    BY <1>1, <1>5 DEF Serve, Reply, CMD_PUT, CMD_GET, CMD_MKDIR
  <2>. QED BY <2>1 DEF Opened, Closed
<1>6. CASE Send(c) \/ Receive(c)
  <2>1. fp'[c] = fp[c] /\ pc[c] \in {"sending", "receiving"}
    BY <1>6 DEF Send, Receive
  <2>2. fp[c].user \in User
    BY <1>1, <2>1, AdmittedIsUser DEF ThreadInv, Admitted, AtWork
  <2>. QED BY <2>1, <2>2, ServerAssumption DEF Closed
<1>. QED BY <1>2, <1>3, <1>4, <1>5, <1>6 DEF Thread

LEMMA TurnedAwayStep ==
  ASSUME IInv, TurnedAway, [Next]_vars
  PROVE  TurnedAway'
<1>1. SUFFICES ASSUME NEW d \in Conn,
                      pc'[d] = "close", req'[d].type = CMD_PUT, fp'[d] = Closed
               PROVE  ~ Admits(req'[d].client, Name(d)') \/ Name(d)' \in dirs'
  BY DEF TurnedAway, Admits
<1>2. dirs \subseteq dirs' /\ \A r : r = req'[d] => Name(d)' = Header[r.client].username
  BY DEF Next, Accept, Request, Thread, connection_handler, Check, Stat, Mkdir, Serve, Send,
         Receive, Close, Disk, vars, Name
<1>3. CASE pc'[d] = pc[d] /\ req'[d] = req[d] /\ fp'[d] = fp[d]
  BY <1>1, <1>2, <1>3 DEF TurnedAway, Name, Admits
<1>4. ASSUME NEW c \in Conn, Accept(c) \/ Request(c) \/ Thread(c)
      PROVE  \/ pc'[d] = pc[d] /\ req'[d] = req[d] /\ fp'[d] = fp[d]
             \/ c = d /\ Thread(c) /\ req'[d] = req[d]
  <2>1. CASE c # d
    BY <1>4, <2>1 DEF Accept, Request, Thread, connection_handler, Check, Stat, Mkdir, Serve,
       Send, Receive, Close, Reply, Disk, IInv, TypeOK
  <2>2. CASE c = d /\ (Accept(c) \/ Request(c))
    BY <1>1, <2>2 DEF Accept, Request, IInv, TypeOK
  <2>3. CASE c = d /\ Thread(c)
    <3>1. ~ Close(c)
      BY <1>1, <2>3 DEF Close, IInv, TypeOK
    <3>. QED BY <2>3, <3>1 DEF Thread, connection_handler, Check, Stat, Mkdir, Serve, Send, Receive
  <2>. QED BY <1>4, <2>1, <2>2, <2>3
<1>5. ASSUME Thread(d), req'[d] = req[d]
      PROVE  ~ Admits(req'[d].client, Name(d)') \/ Name(d)' \in dirs'
  <2>1. ~ Admits(req[d].client, Name(d)) \/ Name(d) \in dirs
    BY <1>1, <1>5, TurnedAwayThread
  <2>. QED BY <1>2, <1>5, <2>1 DEF Name, Admits
<1>6. CASE UNCHANGED vars
  BY <1>3, <1>6 DEF vars
<1>. QED BY <1>3, <1>4, <1>5, <1>6 DEF Next

\* Whatever the two configuration files say and however many threads share the
\* directories, what a user's file holds was put by an owner of the directory, by
\* the reading of the files in OnlyOwners (init_client_config and
\* init_server_config of dfc/config.c, check_user of dfc/server.c), only owners
\* are sent it, and none of their uploads is turned away but for a directory made
\* in between.
THEOREM OwnersOnly == Spec => []OnlyOwners
<1>1. IInv /\ TurnedAway => OnlyOwners
  <2> SUFFICES ASSUME IInv, TurnedAway PROVE OnlyOwners
    OBVIOUS
  <2>1. \A u \in User : \A k \in 1 .. Len(file[u]) :
            file[u][k] = Hole \/ Owns(file[u][k].client, u)
    BY AdmitsOwners DEF IInv, Stored
  <2>2. ASSUME NEW c \in Conn, pc[c] \in {"sending", "receiving"}
        PROVE  Owns(req[c].client, fp[c].user)
    <3>1. Admits(req[c].client, fp[c].user)
      BY <2>2 DEF IInv, ThreadInv, Admitted, AtWork
    <3>. QED BY <3>1, AdmitsOwners
  <2>3. \A c \in Conn :
            pc[c] = "close" /\ req[c].type = CMD_PUT /\ fp[c] = Closed =>
                ~ Owns(req[c].client, Name(c)) \/ Name(c) \in dirs
    BY AdmitsOwners DEF TurnedAway
  <2>. QED BY <2>1, <2>2, <2>3 DEF OnlyOwners
<1>2. Init => TurnedAway
  BY DEF Init, TurnedAway
<1>3. Spec => [](IInv /\ TurnedAway)
  <2>1. Init => IInv /\ TurnedAway
    BY IInvInit, <1>2
  <2>2. IInv /\ TurnedAway /\ [Next]_vars => (IInv /\ TurnedAway)'
    BY IInvStep, TurnedAwayStep
  <2>. QED BY <2>1, <2>2, PTL DEF Spec
<1>. QED BY <1>1, <1>3, PTL

-----------------------------------------------------------------------------
(* What is in a file that no two threads have written at a time.           *)

\* The chunks of r that have been written when a thread is at p, and the
\* others.
Behind(r, p) == [k \in 1 .. p |-> Chunk(r, k)]
Ahead(r, p)  == [k \in 1 .. r.len - p |-> Chunk(r, p + k)]

\* A thread that takes a file has the rest of the upload before it, and only
\* such a thread has a file open for writing.
UploadInv(c) ==
    /\ pc[c] \in {"wait", "stat", "mkdir", "serve"} /\ req[c].type = CMD_PUT =>
           upload[c] = Whole(req[c])
    /\ pc[c] = "receiving" =>
           fp[c].mode = "wb" /\ pos[c] <= req[c].len /\ upload[c] = Ahead(req[c], pos[c])
    /\ fp[c].mode = "wb" => pc[c] \in {"receiving", "close"}

Progress(c) == IF pc[c] = "receiving" THEN pos[c] ELSE req[c].len

OneUpload(f) ==
    f # <<>> => /\ Len(f) = f[1].of
                /\ \A k \in 1 .. Len(f) : f[k] = [f[1] EXCEPT !.number = k]

\* The one writer of a file has written it as far as it has come.
AloneInv ==
    \A u \in alone :
        /\ \A c, d \in Writing(u) : c = d
        /\ \A c \in Writing(u) : file[u] = Behind(req[c], Progress(c))
        /\ Writing(u) = {} => OneUpload(file[u])

WriteInv == AloneInv /\ \A c \in Conn : UploadInv(c)

LEMMA UploadParts ==
  ASSUME NEW r, r.len \in Nat
  PROVE  /\ Behind(r, 0) = <<>> /\ Behind(r, r.len) = Whole(r)
         /\ Ahead(r, 0) = Whole(r) /\ OneUpload(Whole(r))
<1>1. Behind(r, r.len) = Whole(r) /\ Ahead(r, 0) = Whole(r)
  BY DEF Behind, Ahead, Whole
<1>2. Behind(r, 0) = <<>>
  BY DEF Behind
<1>3. OneUpload(Whole(r))
  <2>1. Len(Whole(r)) = r.len /\ \A k \in 1 .. r.len : Whole(r)[k] = Chunk(r, k)
    BY DEF Whole
  <2>2. Whole(r) # <<>> => 1 \in 1 .. r.len
    BY <1>2, <1>1 DEF Whole
  <2>3. Chunk(r, 1).of = r.len /\ \A k : Chunk(r, k) = [Chunk(r, 1) EXCEPT !.number = k]
    BY DEF Chunk
  <2>. QED BY <2>1, <2>2, <2>3 DEF OneUpload
<1>. QED BY <1>1, <1>2, <1>3

LEMMA SameSequence ==
  ASSUME NEW S, NEW s \in Seq(S), NEW t \in Seq(S), Len(s) = Len(t),
         \A k \in 1 .. Len(s) : s[k] = t[k]
  PROVE  s = t
OBVIOUS

ChunksOf(r) == {Chunk(r, k) : k \in Nat}

LEMMA AheadSequence ==
  ASSUME NEW r, r.len \in Nat, NEW p \in Nat, p <= r.len
  PROVE  /\ Ahead(r, p) \in Seq(ChunksOf(r))
         /\ Len(Ahead(r, p)) = r.len - p
         /\ \A k \in 1 .. r.len - p : Ahead(r, p)[k] = Chunk(r, p + k)
<1>1. r.len - p \in Nat /\ \A k \in 1 .. r.len - p : Chunk(r, p + k) \in ChunksOf(r)
  BY DEF ChunksOf
<1>. QED BY <1>1 DEF Ahead

LEMMA AheadTaken ==
  ASSUME NEW r, r.len \in Nat, NEW p \in Nat, p <= r.len
  PROVE  /\ Ahead(r, p) = <<>> => p = r.len
         /\ Ahead(r, p) # <<>> => /\ p + 1 <= r.len
                                  /\ Head(Ahead(r, p)) = Chunk(r, p + 1)
                                  /\ Tail(Ahead(r, p)) = Ahead(r, p + 1)
<1> DEFINE n == r.len - p
           S == ChunksOf(r)
           q == Ahead(r, p)
           t == Ahead(r, p + 1)
<1>1. n \in Nat /\ q \in Seq(S) /\ Len(q) = n /\ \A k \in 1 .. n : q[k] = Chunk(r, p + k)
  BY AheadSequence
<1> HIDE DEF S, q, t
<1>2. q = <<>> => p = r.len
  BY <1>1
<1>3. ASSUME q # <<>>
      PROVE  p + 1 <= r.len /\ Head(q) = Chunk(r, p + 1) /\ Tail(q) = t
  <2>1. n > 0 /\ p + 1 <= r.len /\ r.len - (p + 1) = n - 1
    BY <1>1, <1>3
  <2>2. Head(q) = Chunk(r, p + 1)
    BY <1>1, <1>3, <2>1
  <2>3. /\ Tail(q) \in Seq(S) /\ Len(Tail(q)) = n - 1
        /\ \A k \in 1 .. n - 1 : Tail(q)[k] = q[k + 1]
    BY <1>1, <1>3
  <2>4. t \in Seq(S) /\ Len(t) = n - 1
        /\ \A k \in 1 .. n - 1 : t[k] = Chunk(r, (p + 1) + k)
    <3>1. p + 1 \in Nat /\ p + 1 <= r.len
      BY <2>1
    <3>2. /\ t \in Seq(S) /\ Len(t) = r.len - (p + 1)
          /\ \A k \in 1 .. r.len - (p + 1) : t[k] = Chunk(r, (p + 1) + k)
      BY <3>1, AheadSequence, Zenon DEF t, S
    <3>. QED BY <2>1, <3>2
  <2>5. ASSUME NEW k \in 1 .. n - 1 PROVE Tail(q)[k] = t[k]
    <3>1. k + 1 \in 1 .. n /\ p + (k + 1) = (p + 1) + k
      BY <1>1
    <3>. QED BY <1>1, <2>3, <2>4, <3>1
  <2>6. Tail(q) = t
    BY <2>3, <2>4, <2>5, SameSequence
  <2>. QED BY <2>1, <2>2, <2>6
<1>. QED BY <1>2, <1>3 DEF q, t

LEMMA BehindWritten ==
  ASSUME NEW r, NEW p \in Nat
  PROVE  WithChunk(Behind(r, p), p, Chunk(r, p + 1)) = Behind(r, p + 1)
<1>1. Len(Behind(r, p)) = p /\ \A k \in 1 .. p : Behind(r, p)[k] = Chunk(r, k)
  BY DEF Behind
<1>. QED BY <1>1 DEF WithChunk, Behind

\* The thread of another connection, and a step that leaves the files alone.
LEMMA SameUpload ==
  ASSUME NEW c \in Conn, UploadInv(c), pc'[c] = pc[c], fp'[c] = fp[c],
         req'[c] = req[c], pos'[c] = pos[c], upload'[c] = upload[c]
  PROVE  UploadInv(c)'
BY DEF UploadInv, Whole, Ahead, Chunk

LEMMA SameWriters ==
  ASSUME AloneInv, UNCHANGED <<file, alone>>,
         \A c \in Conn :
             \/ fp[c].mode # "wb" /\ fp'[c].mode # "wb"
             \/ fp'[c] = fp[c] /\ pc'[c] = pc[c] /\ req'[c] = req[c] /\ pos'[c] = pos[c]
  PROVE  AloneInv'
<1>1. \A u : Writing(u)' = Writing(u)
  BY DEF Writing, Opened
<1>2. \A u : \A c \in Writing(u) : req'[c] = req[c] /\ Progress(c)' = Progress(c)
  BY DEF Writing, Opened, Progress
<1>3. \A r, p : Behind(r, p)' = Behind(r, p)
  BY DEF Behind, Chunk
<1>4. ASSUME NEW u \in alone
      PROVE  /\ \A c, d \in Writing(u) : c = d
             /\ \A c \in Writing(u) : file'[u] = Behind(req'[c], Progress(c)')
             /\ Writing(u) = {} => OneUpload(file'[u])
  BY <1>2, <1>4 DEF AloneInv
<1>. QED BY <1>1, <1>2, <1>4 DEF AloneInv, OneUpload, Behind, Chunk

\* Every step but the opening of a file for writing, a chunk and the closing.
LEMMA QuietStep ==
  ASSUME IInv, WriteInv, NEW c \in Conn,
         Accept(c) \/ Request(c) \/ connection_handler(c) \/ Check(c) \/ Stat(c)
             \/ Mkdir(c) \/ Send(c)
  PROVE  WriteInv'
<1> USE DEF IInv
<1>1. /\ ThreadInv(c) /\ UploadInv(c) /\ AloneInv
      /\ pc \in [Conn -> {"none", "started", "wait", "stat", "mkdir", "serve",
                          "sending", "receiving", "close"}]
      /\ DOMAIN fp = Conn /\ DOMAIN pos = Conn /\ DOMAIN req = Conn
      /\ DOMAIN upload = Conn /\ DOMAIN errno = Conn
  BY DEF WriteInv, TypeOK
<1>2. /\ pc[c] \in {"none", "started", "wait", "stat", "mkdir", "sending"}
      /\ fp[c].mode # "wb"
  BY <1>1 DEF UploadInv, Accept, Request, connection_handler, Check, Stat, Mkdir, Send
<1>3. /\ UNCHANGED <<file, alone>> /\ fp'[c].mode # "wb" /\ pc'[c] # "receiving"
      /\ \A d \in Conn \ {c} : /\ pc'[d] = pc[d] /\ fp'[d] = fp[d] /\ req'[d] = req[d]
                               /\ pos'[d] = pos[d] /\ upload'[d] = upload[d]
  <2>1. CASE Check(c) \/ Mkdir(c)
    <3>1. fp[c] = Closed
      BY <1>1, <2>1 DEF Check, Mkdir, ThreadInv, Admitted
    <3>2. CASE Check(c)
      BY <1>1, <1>2, <3>1, <3>2 DEF Check, Reply, Disk
    <3>3. CASE Mkdir(c)
      BY <1>1, <1>2, <3>1, <3>3 DEF Mkdir, Reply
    <3>. QED BY <2>1, <3>2, <3>3
  <2>2. CASE ~ (Check(c) \/ Mkdir(c))
    BY <1>1, <1>2, <2>2 DEF Accept, Request, connection_handler, Stat, Send, Disk
  <2>. QED BY <2>1, <2>2
<1>4. AloneInv'
  BY <1>1, <1>2, <1>3, SameWriters
<1>5. UploadInv(c)'
  <2>1. CASE Request(c)
    <3>1. PICK r \in Requests :
              /\ req' = [req EXCEPT ![c] = r]
              /\ upload' = [upload EXCEPT ![c] = IF r.type = CMD_PUT THEN Whole(r) ELSE <<>>]
      BY <2>1 DEF Request
    <3>2. req'[c] = r /\ (r.type = CMD_PUT => upload'[c] = Whole(r))
      BY <1>1, <3>1
    <3>. QED BY <1>3, <3>2 DEF UploadInv, Whole, Chunk
  <2>2. CASE ~ Request(c)
    <3>1. /\ upload'[c] = upload[c] /\ req'[c] = req[c]
          /\ pc'[c] \in {"wait", "stat", "mkdir", "serve"} =>
                 pc[c] \in {"wait", "stat", "mkdir", "serve"} \/ req[c] = NoReq
      BY <1>1, <2>2 DEF Accept, connection_handler, Check, Stat, Mkdir, Send, Reply,
                        ThreadInv, Unserved
    <3>2. NoReq.type # CMD_PUT
      BY DEF NoReq, CMD_PUT
    <3>. QED BY <1>1, <1>3, <3>1, <3>2 DEF UploadInv, Whole, Chunk
  <2>. QED BY <2>1, <2>2
<1>6. ASSUME NEW d \in Conn, d # c PROVE UploadInv(d)'
  BY <1>3, <1>6, SameUpload DEF WriteInv
<1>. QED BY <1>4, <1>5, <1>6 DEF WriteInv

LEMMA ServeWrites ==
  ASSUME IInv, WriteInv, NEW c \in Conn, Serve(c)
  PROVE  WriteInv'
<1> USE DEF IInv
<1> DEFINE u == Name(c)
<1>1. /\ UploadInv(c) /\ AloneInv /\ pc[c] = "serve" /\ fp[c] = Closed
      /\ Admits(req[c].client, u)
      /\ pc \in [Conn -> {"none", "started", "wait", "stat", "mkdir", "serve",
                          "sending", "receiving", "close"}]
      /\ DOMAIN fp = Conn /\ DOMAIN pos = Conn /\ file \in [User -> Seq(AChunk)]
      /\ alone \subseteq User
  BY DEF WriteInv, TypeOK, Serve, ThreadInv, Admitted, AtWork
<1>2. u \in User /\ Closed.mode = "rb"
  BY <1>1, AdmittedIsUser DEF Closed
<1> HIDE DEF u
<1>3. /\ UNCHANGED <<req, upload>>
      /\ \A d \in Conn \ {c} : pc'[d] = pc[d] /\ fp'[d] = fp[d] /\ pos'[d] = pos[d]
  BY <1>1 DEF Serve, Reply
<1>4. \A d \in Conn \ {c} : UploadInv(d)'
  BY <1>3, SameUpload DEF WriteInv
<1>5. CASE req[c].type # CMD_PUT
  <2>1. /\ UNCHANGED <<file, alone>> /\ fp'[c].mode # "wb"
        /\ pc'[c] \in {"sending", "close"}
    BY <1>1, <1>2, <1>5 DEF Serve, Reply, Opened, Disk
  <2>2. AloneInv'
    BY <1>1, <1>2, <1>3, <2>1, SameWriters
  <2>3. UploadInv(c)'
    BY <2>1 DEF UploadInv
  <2>. QED BY <1>4, <2>2, <2>3 DEF WriteInv
<1>6. CASE req[c].type = CMD_PUT
  <2>1. /\ Reply(c, errno[c], Opened(u, "wb")) /\ file' = [file EXCEPT ![u] = <<>>]
        /\ alone' = IF Writing(u) = {} THEN alone \cup {u} ELSE alone \ {u}
    BY <1>6 DEF Serve, Truncated, u, CMD_PUT, CMD_GET, CMD_MKDIR
  <2>2. Opened(u, "wb") # Closed /\ Opened(u, "wb").mode = "wb" /\ Opened(u, "wb").user = u
    BY <1>2 DEF Opened
  <2>3. fp'[c] = Opened(u, "wb") /\ pos'[c] = 0 /\ pc'[c] = "receiving"
    BY <1>1, <1>6, <2>1, <2>2 DEF Reply, Start, CMD_PUT, CMD_GET
  <2>4. req[c].len \in Nat
    BY ServerAssumption DEF TypeOK
  <2>5. /\ Behind(req[c], 0) = <<>> /\ upload[c] = Ahead(req[c], 0)
    BY <1>1, <1>6, <2>4, UploadParts DEF UploadInv
  <2>6. UploadInv(c)'
    <3>1. Ahead(req'[c], pos'[c]) = upload'[c]
      BY <1>3, <2>3, <2>5
    <3>. QED BY <1>3, <2>2, <2>3, <2>4, <3>1 DEF UploadInv, Ahead, Chunk
  <2>7. ASSUME NEW v \in alone'
        PROVE  /\ \A d, e \in Writing(v)' : d = e
               /\ \A d \in Writing(v)' : file'[v] = Behind(req'[d], Progress(d)')
               /\ Writing(v)' = {} => OneUpload(file'[v])
    <3>1. CASE v = u
      <4>1. Writing(u) = {}
        BY <2>1, <2>7, <3>1
      <4>2. Writing(v)' = {c}
        BY <1>1, <1>3, <2>3, <3>1, <4>1 DEF Writing
      <4>3. file'[v] = <<>> /\ Behind(req'[c], Progress(c)') = <<>>
        BY <1>1, <1>2, <1>3, <2>1, <2>3, <2>5, <3>1 DEF Progress
      <4>. QED BY <4>2, <4>3
    <3>2. CASE v # u
      <4>1. v \in alone /\ file'[v] = file[v]
        BY <1>1, <2>1, <2>7, <3>2
      <4>2. Writing(v)' = Writing(v) /\ c \notin Writing(v)
        BY <1>1, <1>2, <1>3, <2>2, <2>3, <3>2 DEF Writing, Opened
      <4>3. \A d \in Writing(v) : req'[d] = req[d] /\ Progress(d)' = Progress(d)
        BY <1>3, <4>2 DEF Progress, Writing
      <4>. QED BY <1>1, <4>1, <4>2, <4>3 DEF AloneInv
    <3>. QED BY <3>1, <3>2
  <2>8. AloneInv'
    BY <2>7 DEF AloneInv, OneUpload, Behind, Chunk
  <2>. QED BY <1>4, <2>6, <2>8 DEF WriteInv
<1>. QED BY <1>5, <1>6

LEMMA CloseWrites ==
  ASSUME IInv, WriteInv, NEW c \in Conn, Close(c)
  PROVE  WriteInv'
<1> USE DEF IInv
<1>1. /\ AloneInv /\ pc[c] = "close" /\ fp'[c] = Closed /\ Closed.mode = "rb"
      /\ pc'[c] = "wait" /\ req'[c] = NoReq /\ UNCHANGED <<file, alone, pos>>
      /\ \A d \in Conn \ {c} : /\ pc'[d] = pc[d] /\ fp'[d] = fp[d] /\ pos'[d] = pos[d]
                               /\ req'[d] = req[d] /\ upload'[d] = upload[d]
  BY DEF WriteInv, TypeOK, Close, NoFile, Disk, Closed
<1>2. \A d \in Conn \ {c} : UploadInv(d)'
  BY <1>1, SameUpload DEF WriteInv
<1>3. UploadInv(c)'
  BY <1>1 DEF UploadInv, NoReq, CMD_PUT
<1>4. ASSUME NEW v \in alone
      PROVE  /\ \A d, e \in Writing(v)' : d = e
             /\ \A d \in Writing(v)' : file[v] = Behind(req'[d], Progress(d)')
             /\ Writing(v)' = {} => OneUpload(file[v])
  <2>1. Writing(v)' = Writing(v) \ {c}
    BY <1>1 DEF Writing, Opened
  <2>2. \A d \in Writing(v) \ {c} : req'[d] = req[d] /\ Progress(d)' = Progress(d)
    BY <1>1 DEF Progress, Writing
  <2>3. c \in Writing(v) => OneUpload(file[v])
    <3>1. ASSUME c \in Writing(v) PROVE file[v] = Behind(req[c], req[c].len)
      BY <1>1, <1>4, <3>1 DEF AloneInv, Progress
    <3>2. req[c].len \in Nat
      BY ServerAssumption DEF TypeOK
    <3>. QED BY <3>1, <3>2, UploadParts
  <2>4. /\ \A d, e \in Writing(v) : d = e
        /\ \A d \in Writing(v) : file[v] = Behind(req[d], Progress(d))
        /\ Writing(v) = {} => OneUpload(file[v])
    BY <1>1, <1>4 DEF AloneInv
  <2>. QED BY <2>1, <2>2, <2>3, <2>4
<1>5. AloneInv'
  BY <1>1, <1>4 DEF AloneInv, OneUpload, Behind, Chunk
<1>. QED BY <1>2, <1>3, <1>5 DEF WriteInv

LEMMA ReceiveWrites ==
  ASSUME IInv, WriteInv, NEW c \in Conn, Receive(c)
  PROVE  WriteInv'
<1> USE DEF IInv
<1> DEFINE u == fp[c].user
           r == req[c]
           p == pos[c]
<1>1. /\ UploadInv(c) /\ AloneInv /\ pc[c] = "receiving" /\ sock[c] = c
      /\ u = Name(c) /\ Admits(r.client, u)
  BY DEF WriteInv, Receive, ThreadInv, Admitted, AtWork
<1>2. /\ u \in User /\ r.len \in Nat /\ p \in Nat /\ p <= r.len
      /\ upload[c] = Ahead(r, p) /\ fp[c] = Opened(u, "wb")
      /\ file \in [User -> Seq(AChunk)] /\ alone \subseteq User
      /\ pc \in [Conn -> {"none", "started", "wait", "stat", "mkdir", "serve",
                          "sending", "receiving", "close"}]
      /\ DOMAIN pos = Conn /\ DOMAIN upload = Conn
  <2>1. u \in User
    BY <1>1, AdmittedIsUser
  <2>2. fp[c] \in [user : User \cup {Nobody}, mode : {"rb", "wb"}] /\ fp[c].mode = "wb"
    BY <1>1 DEF UploadInv, TypeOK
  <2>3. fp[c] = Opened(u, "wb")
    BY <2>2 DEF Opened
  <2>4. r.len \in Nat /\ p \in Nat
    BY ServerAssumption DEF TypeOK
  <2>. QED BY <1>1, <2>1, <2>3, <2>4 DEF UploadInv, TypeOK
<1> HIDE DEF u
<1>3. UNCHANGED <<fp, req, alone>> /\ \A v : Writing(v)' = Writing(v)
  BY DEF Receive, Writing
<1>4. /\ \A d \in Conn \ {c} : pc'[d] = pc[d] /\ pos'[d] = pos[d] /\ upload'[d] = upload[d]
      /\ \A v \in User \ {u} : file'[v] = file[v]
  BY <1>1, <1>2 DEF Receive, u
<1>5. \A d \in Conn \ {c} : UploadInv(d)'
  BY <1>3, <1>4, SameUpload DEF WriteInv
<1>6. ASSUME UploadInv(c)', u \in alone => file'[u] = Behind(r, Progress(c)')
      PROVE  WriteInv'
  <2>1. ASSUME NEW v \in alone
        PROVE  /\ \A d, e \in Writing(v) : d = e
               /\ \A d \in Writing(v) : file'[v] = Behind(req[d], Progress(d)')
               /\ Writing(v) = {} => OneUpload(file'[v])
    <3>1. CASE v = u
      <4>1. c \in Writing(v) /\ \A d, e \in Writing(v) : d = e
        BY <1>1, <1>2, <2>1, <3>1 DEF AloneInv, Writing
      <4>. QED BY <1>6, <2>1, <3>1, <4>1
    <3>2. CASE v # u
      <4>1. c \notin Writing(v)
        BY <1>2, <3>2 DEF Writing, Opened, u
      <4>2. \A d \in Writing(v) : Progress(d)' = Progress(d)
        BY <1>3, <1>4, <4>1 DEF Progress, Writing
      <4>. QED BY <1>1, <1>2, <1>4, <2>1, <3>2, <4>2 DEF AloneInv
    <3>. QED BY <3>1, <3>2
  <2>2. AloneInv'
    BY <1>3, <2>1 DEF AloneInv, OneUpload, Behind, Chunk
  <2>. QED BY <1>5, <1>6, <2>2 DEF WriteInv
<1>7. u \in alone => file[u] = Behind(r, p)
  BY <1>1, <1>2 DEF AloneInv, Writing, Progress
<1>8. CASE upload[c] = <<>>
  <2>1. pc'[c] = "close" /\ UNCHANGED <<file, pos, upload>>
    BY <1>1, <1>2, <1>8 DEF Receive, Eof
  <2>2. p = r.len
    BY <1>2, <1>8, AheadTaken
  <2>3. UploadInv(c)' /\ Progress(c)' = p
    BY <1>3, <2>1, <2>2 DEF UploadInv, Progress
  <2>. QED BY <1>6, <1>7, <2>1, <2>3
<1>9. CASE upload[c] # <<>>
  <2>1. /\ pc' = pc /\ pos'[c] = p + 1 /\ upload'[c] = Tail(upload[c])
        /\ file'[u] = WithChunk(file[u], p, Head(upload[c]))
    <3> DEFINE x == Head(upload[c])
               g == WithChunk(file[u], p, x)
    <3>1. /\ file' = [file EXCEPT ![u] = g]
          /\ pos' = [pos EXCEPT ![c] = @ + 1]
          /\ upload' = [upload EXCEPT ![c] = Tail(@)] /\ pc' = pc
      BY <1>1, <1>2, <1>9 DEF Receive, Eof, u, WithChunk
    <3> HIDE DEF g
    <3>2. file'[u] = g
      BY <1>2, <3>1
    <3>. QED BY <1>2, <3>1, <3>2 DEF g
  <2>2. /\ p + 1 <= r.len /\ Head(upload[c]) = Chunk(r, p + 1)
        /\ upload'[c] = Ahead(r, p + 1)
    BY <1>2, <1>9, <2>1, AheadTaken
  <2>3. UploadInv(c)'
    <3>1. upload'[c] = Ahead(req'[c], pos'[c]) /\ fp'[c].mode = "wb" /\ pc'[c] = "receiving"
          /\ pos'[c] <= req'[c].len
      BY <1>1, <1>2, <1>3, <2>1, <2>2 DEF Opened
    <3>. QED BY <3>1 DEF UploadInv, Ahead, Chunk
  <2>4. u \in alone => file'[u] = Behind(r, p + 1)
    BY <1>2, <1>7, <2>1, <2>2, BehindWritten
  <2>5. Progress(c)' = p + 1
    BY <1>1, <2>1 DEF Progress
  <2>. QED BY <1>6, <2>3, <2>4, <2>5
<1>. QED BY <1>8, <1>9

LEMMA WriteInit ==
  ASSUME Init
  PROVE  WriteInv
<1>1. \A c \in Conn : UploadInv(c)
  BY DEF Init, UploadInv, NoReq, Closed, CMD_PUT
<1>2. \A u \in User : Writing(u) = {} /\ OneUpload(file[u])
  BY DEF Init, Writing, Opened, Closed, OneUpload
<1>3. AloneInv
  BY <1>2 DEF Init, AloneInv
<1>. QED BY <1>1, <1>3 DEF WriteInv

LEMMA WriteStep ==
  ASSUME IInv, WriteInv, [Next]_vars
  PROVE  WriteInv'
<1>1. CASE UNCHANGED vars
  <2>1. AloneInv'
    BY <1>1, SameWriters DEF WriteInv, vars, Disk
  <2>2. ASSUME NEW c \in Conn PROVE UploadInv(c)'
    BY <1>1, SameUpload DEF WriteInv, vars
  <2>. QED BY <2>1, <2>2 DEF WriteInv
<1>2. ASSUME NEW c \in Conn, Accept(c) \/ Request(c) \/ Thread(c)
      PROVE  WriteInv'
  BY <1>2, QuietStep, ServeWrites, ReceiveWrites, CloseWrites DEF Thread
<1>. QED BY <1>1, <1>2 DEF Next

\* A file that one thread at a time has opened for writing is, once that thread
\* has closed it, one upload and all of it, however many other threads read it
\* or write other files (receive_file and connection_handler of dfc/server.c).
THEOREM AloneIsWhole == Spec => []WholeIfAlone
<1>1. WriteInv => WholeIfAlone
  BY DEF WriteInv, AloneInv, OneUpload, WholeIfAlone
<1>2. Spec => [](IInv /\ WriteInv)
  <2>1. Init => IInv /\ WriteInv
    BY IInvInit, WriteInit
  <2>2. IInv /\ WriteInv /\ [Next]_vars => (IInv /\ WriteInv)'
    BY IInvStep, WriteStep
  <2>. QED BY <2>1, <2>2, PTL DEF Spec
<1>. QED BY <1>1, <1>2, PTL
=============================================================================
