-------------------------- MODULE HttpServer_proofs --------------------------
(***************************************************************************)
(* Proofs about HttpServer: the invariant of a connection, and that every  *)
(* step of the event loop is a step of HttpExchange or invisible there.    *)
(***************************************************************************)
EXTENDS HttpServer, TLAPS

USE DEF GET, POST, ERR_BAD_REQUEST, ERR_NOT_FOUND, ERR_NOT_IMPLEMENTED,
        Missing

-----------------------------------------------------------------------------
(* What parse_http_req can return.                                         *)

\* A request, cut short or not, is a request; an accepted one names a file
\* and has one of the two methods.
LEMMA ReceivedParsed ==
    ASSUME NEW r \in AllReceived
    PROVE  /\ r \in Parsed
           /\ r.error_code = 0 => r.method \in {GET, POST} /\ r.file \in File
<1>1. CASE r \in Requests
  BY <1>1, ServerAssumption
<1>2. ASSUME NEW q \in Requests, r = CutShort(q)
      PROVE  /\ r \in Parsed
             /\ r.error_code = 0 => r.method \in {GET, POST} /\ r.file \in File
  <2>1. q \in Parsed /\ (q.error_code = 0 => q.method \in {GET, POST} /\ q.file \in File)
    BY ServerAssumption
  <2>2. r = [q EXCEPT !.post = 0]
    BY <1>2 DEF CutShort
  <2> QED
    BY <2>1, <2>2 DEF Parsed
<1>3. CASE r = BadRequest
  <2>1. NoReq \in Parsed
    BY DEF NoReq, Parsed
  <2>2. BadRequest \in Parsed
    BY <2>1 DEF BadRequest, Parsed
  <2>3. BadRequest.error_code = 1
    BY DEF BadRequest, NoReq
  <2> QED
    BY <1>3, <2>2, <2>3
<1> QED
  BY <1>1, <1>2, <1>3 DEF AllReceived

\* Whatever the segments are, the parser sees a request that is not empty.
LEMMA ReceivedOne ==
    ASSUME NEW q \in Seq(Segment), q # <<>>
    PROVE  Received(q) \in AllReceived \ {NoReq}
<1>1. q[1] \in Segment
  OBVIOUS
<1>2. q[1].req \in Requests /\ q[1].part \in {"whole", "head", "tail"}
  BY <1>1 DEF Segment
<1>3. Received(q) \in {q[1].req, CutShort(q[1].req), BadRequest}
  BY <1>2 DEF Received
<1>4. {q[1].req, CutShort(q[1].req), BadRequest} \subseteq AllReceived
  BY <1>2 DEF AllReceived
<1>5. NoReq \notin {q[1].req, CutShort(q[1].req), BadRequest}
  BY <1>2, ServerAssumption DEF CutShort, BadRequest, NoReq, Parsed
<1> QED
  BY <1>3, <1>4, <1>5

LEMMA LengthTyped ==
    ASSUME NEW r \in AllReceived, r.error_code = 0, FileSize[r.file] # Missing
    PROVE  /\ FileSize[r.file] \in Nat /\ ContentLength(r) \in Nat
           /\ ContentLength(r) = FileSize[r.file]
                + (IF r.method = POST THEN WrapSize + r.post ELSE 0)
  BY ReceivedParsed, ServerAssumption DEF ContentLength, Parsed

LEMMA IdleTyped == Idle \in Io /\ Unregistered \in Io /\ NoResp \in Resp
  BY DEF Idle, Unregistered, Io, NoReq, Parsed, NoBuf, NoResp, Resp

LEMMA IdleSound ==
    ASSUME NEW p \in Resp, p.begun, p.delivered <= p.announced,
           ~ p.spoiled => p.delivered = p.announced
    PROVE  Sound(Idle, p)
  BY DEF Sound, Idle, Unregistered, Pending, NoBuf, NoReq, Conserved,
         StillToSend, Resp
-----------------------------------------------------------------------------
(* The steps.                                                              *)

\* The struct and the response are ready for a send: the buffer is filled,
\* and with the l bytes to be read and appended later it makes up what is owed.
Prepared(s, r, more, l) ==
    /\ s \in Io /\ r \in Resp /\ more \in BOOLEAN /\ l \in Nat
    /\ s.mask = "out" /\ s.req \in AllReceived \ {NoReq} /\ r.begun
    /\ BufLen(s.buf) > 0
    /\ IF more THEN s.fd /\ l = Unread(s) + Appended(s.req) ELSE l = 0
    /\ s.fd => s.req.error_code = 0 /\ s.pos <= FileSize[s.req.file]
    /\ r.delivered + s.buf.body + l <= r.announced
    /\ ~ r.spoiled => r.delivered + s.buf.body + l = r.announced

LEMMA DeliveredTyped ==
    ASSUME NEW b \in [head : Nat, body : Nat, post : Nat], NEW r \in Resp,
           NEW n \in 1 .. BufLen(b)
    PROVE  /\ Delivered(r, b, n) \in Resp
           /\ Delivered(r, b, n).begun = r.begun
           /\ Delivered(r, b, n).announced = r.announced
           /\ Delivered(r, b, n).spoiled = (r.spoiled \/ n < BufLen(b))
           /\ Delivered(r, b, n).delivered <= r.delivered + b.body
           /\ Delivered(r, b, n).delivered >= r.delivered
           /\ n = BufLen(b) => Delivered(r, b, n).delivered = r.delivered + b.body
<1> DEFINE k == IF n > b.head THEN n - b.head ELSE 0
           q == Delivered(r, b, n)
<1>0. BufLen(b) = b.head + b.body /\ b.head \in Nat /\ b.body \in Nat /\ b.post \in Nat
  BY DEF BufLen
<1>1. k \in 0 .. b.body /\ (n = BufLen(b) => k = b.body)
  BY <1>0
<1>2. q = [r EXCEPT !.delivered = @ + k, !.posted = @ + b.post, !.spoiled = @ \/ n < BufLen(b)]
  BY DEF Delivered
<1> HIDE DEF k, q
<1>3. /\ q.begun = r.begun /\ q.announced = r.announced /\ q.delivered = r.delivered + k
      /\ q.posted = r.posted + b.post /\ q.spoiled = (r.spoiled \/ n < BufLen(b))
      /\ q.code = r.code
  BY <1>2 DEF Resp
<1>4. q = [begun |-> q.begun, announced |-> q.announced, delivered |-> q.delivered,
           spoiled |-> q.spoiled, posted |-> q.posted, code |-> q.code]
  BY <1>2 DEF Resp
<1>5. q \in Resp
  <2>1. /\ r.begun \in BOOLEAN /\ r.announced \in Nat /\ r.delivered \in Nat
        /\ r.posted \in Nat /\ r.code \in Nat
    BY DEF Resp
  <2>2. q.spoiled \in BOOLEAN
    BY <1>3
  <2>3. q.delivered \in Nat /\ q.posted \in Nat
    BY <2>1, <1>0, <1>1, <1>3
  <2>4. q.begun \in BOOLEAN /\ q.announced \in Nat /\ q.code \in Nat
    BY <2>1, <1>3
  <2> QED
    BY <2>2, <2>3, <2>4, <1>4 DEF Resp
<1>6. /\ q.delivered <= r.delivered + b.body /\ q.delivered >= r.delivered
      /\ n = BufLen(b) => q.delivered = r.delivered + b.body
  <2>1. r.delivered \in Nat
    BY DEF Resp
  <2>2. /\ q.delivered = r.delivered + k /\ b.body \in Nat
        /\ k \in 0 .. b.body /\ (n = BufLen(b) => k = b.body)
    BY <1>0, <1>1, <1>3
  <2>3. q.delivered <= r.delivered + b.body
    BY <2>1, <2>2
  <2>4. q.delivered >= r.delivered
    BY <2>1, <2>2
  <2> QED
    BY <2>1, <2>2, <2>3, <2>4
<1> QED
  BY <1>3, <1>5, <1>6 DEF q

SendResult(c) ==
    /\ io' \in [Conn -> Io] /\ resp' \in [Conn -> Resp]
    /\ peer' \in [Conn -> {"none", "open", "fin", "reset", "dead"}]
    /\ alive' \in BOOLEAN /\ shorts' \in 0 .. MaxShort
    /\ \A d \in Conn \ {c} : io'[d] = io[d] /\ resp'[d] = resp[d]
    /\ Sound(io'[c], resp'[c])

\* The new struct and response are named; the rest follows.
LEMMA SendUpdates ==
    ASSUME NEW c \in Conn, io \in [Conn -> Io], resp \in [Conn -> Resp],
           NEW i \in Io, NEW q \in Resp, Sound(i, q),
           io' = [io EXCEPT ![c] = i], resp' = [resp EXCEPT ![c] = q],
           peer' \in [Conn -> {"none", "open", "fin", "reset", "dead"}],
           alive' \in BOOLEAN, shorts' \in 0 .. MaxShort
    PROVE  SendResult(c)
<1>1. io'[c] = i /\ resp'[c] = q
  OBVIOUS
<1>2. /\ io' \in [Conn -> Io] /\ resp' \in [Conn -> Resp]
      /\ \A d \in Conn \ {c} : io'[d] = io[d] /\ resp'[d] = resp[d]
  OBVIOUS
<1> QED
  BY <1>1, <1>2 DEF SendResult

\* send_data, however the send turns out, leaves a sound connection.
LEMMA SendSound ==
    ASSUME TypeOK, NEW c \in Conn, NEW s, NEW r, NEW more, NEW l,
           Prepared(s, r, more, l), send_data(c, s, r, more),
           Sound(io[c], resp[c])
    PROVE  SendResult(c)
<1>0. /\ io \in [Conn -> Io] /\ resp \in [Conn -> Resp]
      /\ peer \in [Conn -> {"none", "open", "fin", "reset", "dead"}]
      /\ alive \in BOOLEAN /\ shorts \in 0 .. MaxShort
  BY DEF TypeOK
<1>1. /\ s \in Io /\ r \in Resp /\ more \in BOOLEAN /\ BufLen(s.buf) > 0
      /\ s.buf \in [head : Nat, body : Nat, post : Nat] /\ r.begun
      /\ s.mask = "out" /\ s.req \in AllReceived \ {NoReq}
  BY DEF Prepared, Io
<1>2. l \in Nat
  BY DEF Prepared
<1>a. /\ BufLen(s.buf) \in Nat /\ s.buf.body \in Nat
      /\ r.delivered \in Nat /\ r.announced \in Nat /\ MaxShort \in Nat
      /\ r.spoiled \in BOOLEAN
  BY <1>1, ServerAssumption DEF BufLen, Resp
<1>b. /\ r.delivered + s.buf.body + l <= r.announced
      /\ ~ r.spoiled => r.delivered + s.buf.body + l = r.announced
  BY DEF Prepared
<1>3. CASE SendTaken(c, s, r, more)
  <2>1. PICK n \in 1 .. BufLen(s.buf) :
            /\ n < BufLen(s.buf) => shorts < MaxShort
            /\ shorts' = IF n < BufLen(s.buf) THEN shorts + 1 ELSE shorts
            /\ resp' = [resp EXCEPT ![c] = Delivered(r, s.buf, n)]
    BY <1>3 DEF SendTaken
  <2> DEFINE q == Delivered(r, s.buf, n)
  <2>2. /\ q \in Resp /\ q.begun /\ q.announced = r.announced
        /\ q.spoiled = (r.spoiled \/ n < BufLen(s.buf))
        /\ q.delivered <= r.delivered + s.buf.body
        /\ n = BufLen(s.buf) => q.delivered = r.delivered + s.buf.body
    BY <1>1, DeliveredTyped
  <2>3. resp' = [resp EXCEPT ![c] = q]
    BY <2>1
  <2>4. shorts' \in 0 .. MaxShort
    BY <1>0, <1>a, <2>1
  <2>5. /\ peer' \in [Conn -> {"none", "open", "fin", "reset", "dead"}]
        /\ alive' \in BOOLEAN
    BY <1>0, <1>3 DEF SendTaken
  <2> HIDE DEF q
  <2>6. q.delivered \in Nat /\ q.announced \in Nat
    BY <2>2 DEF Resp
  <2>7. q.delivered + l <= q.announced
    BY <1>2, <1>a, <1>b, <2>2, <2>6
  <2>8. ASSUME ~ q.spoiled PROVE q.delivered + l = q.announced
    <3>1. ~ r.spoiled /\ ~ (n < BufLen(s.buf))
      BY <2>2, <2>8
    <3>2. n = BufLen(s.buf)
      BY <1>a, <3>1
    <3> QED
      BY <1>b, <2>2, <3>1, <3>2
  <2>9. CASE more
    <3> DEFINE t == [s EXCEPT !.buf = NoBuf]
    <3>1. io' = [io EXCEPT ![c] = t]
      BY <1>3, <2>9 DEF SendTaken
    <3>2. t \in Io /\ t.buf = NoBuf /\ t.req = s.req /\ t.fd = s.fd
          /\ t.pos = s.pos /\ t.mask = "out"
      BY <1>1 DEF Io, NoBuf
    <3>3. StillToSend(t, q) = l
      <4>1. StillToSend(t, q) = Unread(t) + Appended(t.req)
        BY <2>2, <3>2 DEF StillToSend, Pending
      <4>2. l = Unread(s) + Appended(s.req)
        BY <2>9 DEF Prepared
      <4> QED
        BY <4>1, <4>2, <3>2 DEF Unread
    <3>4. Conserved(t, q)
      BY <3>3, <2>7, <2>8 DEF Conserved
    <3>5. s.fd /\ s.req.error_code = 0 /\ s.pos <= FileSize[s.req.file]
      BY <2>9 DEF Prepared
    <3>6. Sound(t, q)
      BY <3>2, <3>4, <3>5, <2>2, <1>1 DEF Sound, Pending
    <3> HIDE DEF t
    <3> QED
      BY <3>1, <3>2, <3>6, <2>2, <2>3, <2>4, <2>5, <1>0, SendUpdates
  <2>10. CASE ~ more
    <3>1. io' = [io EXCEPT ![c] = Idle]
      BY <1>3, <2>10 DEF SendTaken, reset_epoll
    <3>2. l = 0
      BY <2>10 DEF Prepared
    <3>3. q.delivered <= q.announced /\ (~ q.spoiled => q.delivered = q.announced)
      BY <2>6, <2>7, <2>8, <3>2
    <3>4. Sound(Idle, q)
      BY <2>2, <3>3, IdleSound
    <3> QED
      BY <3>1, <3>4, <2>2, <2>3, <2>4, <2>5, <1>0, IdleTyped, SendUpdates
  <2> QED
    BY <2>9, <2>10, <1>1
<1>4. CASE SendAgain(c, s, r, more)
  <2> DEFINE q == [r EXCEPT !.spoiled = @ \/ more]
  <2>1. /\ io' = [io EXCEPT ![c] = s] /\ resp' = [resp EXCEPT ![c] = q]
        /\ peer' = peer /\ alive' = alive
        /\ shorts < MaxShort /\ shorts' = shorts + 1
    BY <1>4 DEF SendAgain
  <2>2. q \in Resp /\ q.begun /\ q.announced = r.announced
        /\ q.delivered = r.delivered /\ q.spoiled = (r.spoiled \/ more)
    BY <1>1 DEF Resp
  <2>3. Pending(s)
    BY <1>1 DEF Pending, NoBuf, BufLen
  <2> HIDE DEF q
  <2>4. StillToSend(s, q) = s.buf.body
    BY <1>1, <2>2, <2>3 DEF StillToSend
  <2>5. ~ more => l = 0
    BY DEF Prepared
  <2>6. q.delivered + s.buf.body <= q.announced
    BY <1>2, <1>a, <1>b, <2>2
  <2>7. ASSUME ~ q.spoiled PROVE q.delivered + s.buf.body = q.announced
    <3>1. ~ r.spoiled /\ ~ more
      BY <2>2, <2>7
    <3> QED
      BY <1>a, <1>b, <2>2, <2>5, <3>1
  <2>8. Conserved(s, q)
    BY <2>4, <2>6, <2>7 DEF Conserved
  <2>9. Sound(s, q)
    BY <1>1, <2>2, <2>3, <2>8 DEF Sound, Prepared
  <2>10. shorts' \in 0 .. MaxShort
    BY <1>0, <1>a, <2>1
  <2> QED
    BY <1>0, <1>1, <2>1, <2>2, <2>9, <2>10, SendUpdates
<1>5. CASE SendFails(c, s, r, more)
  <2> DEFINE q == [r EXCEPT !.spoiled = TRUE]
  <2>1. /\ io' = [io EXCEPT ![c] = Idle] /\ resp' = [resp EXCEPT ![c] = q]
        /\ peer' = [peer EXCEPT ![c] = "dead"] /\ alive' = alive
        /\ shorts' = shorts
    BY <1>5 DEF SendFails, reset_epoll
  <2>2. q \in Resp /\ q.begun /\ q.announced = r.announced
        /\ q.delivered = r.delivered /\ q.spoiled
    BY <1>1 DEF Resp
  <2> HIDE DEF q
  <2>3. q.delivered <= q.announced
    BY <1>2, <1>a, <1>b, <2>2
  <2>4. Sound(Idle, q)
    BY <2>2, <2>3, IdleSound
  <2>5. peer' \in [Conn -> {"none", "open", "fin", "reset", "dead"}]
    BY <1>0, <2>1
  <2> QED
    BY <1>0, <2>1, <2>2, <2>4, <2>5, IdleTyped, SendUpdates
<1>6. CASE SendKills(c, s, r, more)
  BY <1>0, <1>6 DEF SendKills, SendResult
<1> QED
  BY <1>3, <1>4, <1>5, <1>6 DEF send_data
-----------------------------------------------------------------------------
(* Each way of handle_out prepares its send.                               *)

\* What the invariant says of a connection that is being answered.
LEMMA AnsweringFacts ==
    ASSUME ServerInv, NEW c \in Conn, io[c].mask = "out"
    PROVE  /\ io[c] \in Io /\ resp[c] \in Resp /\ Sound(io[c], resp[c])
           /\ io[c].req \in AllReceived \ {NoReq}
           /\ ~ resp[c].begun => resp[c] = NoResp
           /\ io[c].fd => /\ resp[c].begun /\ io[c].req.error_code = 0
                         /\ io[c].pos <= FileSize[io[c].req.file]
  BY DEF ServerInv, TypeOK, Sound

LEMMA PendingPrepared ==
    ASSUME ServerInv, NEW c \in Conn, io[c].mask = "out", Pending(io[c])
    PROVE  Prepared(io[c], resp[c], FALSE, 0)
<1>1. /\ io[c] \in Io /\ resp[c] \in Resp /\ Sound(io[c], resp[c])
      /\ io[c].req \in AllReceived \ {NoReq} /\ resp[c].begun
  BY AnsweringFacts DEF Sound
<1>2. StillToSend(io[c], resp[c]) = io[c].buf.body
  BY <1>1 DEF StillToSend
<1>3. io[c].buf.body \in Nat /\ resp[c].delivered \in Nat
  BY <1>1 DEF Io, Resp
<1>4. /\ resp[c].delivered + io[c].buf.body + 0 <= resp[c].announced
      /\ ~ resp[c].spoiled =>
             resp[c].delivered + io[c].buf.body + 0 = resp[c].announced
  BY <1>1, <1>2, <1>3 DEF Sound, Conserved
<1>5. BufLen(io[c].buf) > 0
      /\ (io[c].fd => io[c].req.error_code = 0 /\ io[c].pos <= FileSize[io[c].req.file])
  BY <1>1 DEF Sound
<1> QED
  BY <1>1, <1>4, <1>5 DEF Prepared

\* The struct and the response of StartFile, StartError, SendChunk, SendPost.
FileStruct(c) == [io[c] EXCEPT !.fd = TRUE, !.pos = 0, !.buf = Buffer(HeaderSize, 0)]
FileResp(r)   == [NoResp EXCEPT !.begun = TRUE, !.announced = ContentLength(r),
                     !.spoiled = r.method = POST /\ ~ Appends(r)]

LEMMA FilePrepared ==
    ASSUME ServerInv, NEW c \in Conn, io[c].mask = "out",
           io[c].req.error_code = 0, FileSize[io[c].req.file] # Missing,
           NEW r, r = io[c].req
    PROVE  Prepared(FileStruct(c), FileResp(r), TRUE, FileSize[r.file] + Appended(r))
<1> DEFINE s == FileStruct(c)
           p == FileResp(r)
           l == FileSize[r.file] + Appended(r)
<1>1. io[c] \in Io /\ r \in AllReceived \ {NoReq}
  BY AnsweringFacts
<1>2. /\ r \in Parsed /\ r.method \in {GET, POST} /\ r.file \in File
      /\ FileSize[r.file] \in Nat /\ ContentLength(r) \in Nat
      /\ ContentLength(r) = FileSize[r.file]
            + (IF r.method = POST THEN WrapSize + r.post ELSE 0)
  BY <1>1, ReceivedParsed, LengthTyped
<1>3. /\ HeaderSize \in Nat \ {0} /\ WrapSize \in Nat /\ r.post \in Nat
  BY <1>2, ServerAssumption DEF Parsed
<1>4. /\ s.mask = "out" /\ s.req = r /\ s.fd = TRUE /\ s.pos = 0
      /\ s.buf = Buffer(HeaderSize, 0)
  BY <1>1 DEF Io, FileStruct
<1>5. Buffer(HeaderSize, 0) \in [head : Nat, body : Nat, post : Nat]
      /\ Buffer(HeaderSize, 0).body = 0 /\ BufLen(Buffer(HeaderSize, 0)) > 0
  BY <1>3 DEF Buffer, BufLen
<1>6. s \in Io
  BY <1>1, <1>5 DEF Io, FileStruct
<1>7. /\ p.begun = TRUE /\ p.announced = ContentLength(r) /\ p.delivered = 0
      /\ p.spoiled = (r.method = POST /\ ~ Appends(r))
      /\ p.posted = 0 /\ p.code = 0
  BY DEF FileResp, NoResp
<1>8. p \in Resp
  <2>1. [NoResp EXCEPT !.begun = TRUE, !.announced = ContentLength(r)]
            \in Resp
    BY <1>2 DEF NoResp, Resp
  <2>2. p = [[NoResp EXCEPT !.begun = TRUE, !.announced = ContentLength(r)]
                EXCEPT !.spoiled = r.method = POST /\ ~ Appends(r)]
    BY DEF FileResp, NoResp
  <2> QED
    BY <2>1, <2>2 DEF Resp
<1>9. Appended(r) \in Nat /\ l \in Nat
  BY <1>2, <1>3 DEF Appended
<1>10. /\ l <= ContentLength(r)
       /\ ~ (r.method = POST /\ ~ Appends(r)) => l = ContentLength(r)
  <2>1. CASE r.method = POST /\ Appends(r)
    BY <2>1, <1>2, <1>3 DEF Appended
  <2>2. CASE r.method = POST /\ ~ Appends(r)
    BY <2>2, <1>2, <1>3 DEF Appended
  <2>3. CASE r.method # POST
    BY <2>3, <1>2, <1>3 DEF Appended, Appends
  <2> QED
    BY <2>1, <2>2, <2>3
<1>11. Unread(s) = FileSize[r.file]
  BY <1>2, <1>4 DEF Unread
<1> HIDE DEF s, p
<1>12. l = Unread(s) + Appended(s.req)
  BY <1>4, <1>11
<1> HIDE DEF l
<1>13. p.delivered + s.buf.body + l = l
  BY <1>4, <1>5, <1>7, <1>9
<1>14. /\ p.delivered + s.buf.body + l <= p.announced
       /\ ~ p.spoiled => p.delivered + s.buf.body + l = p.announced
  BY <1>7, <1>10, <1>13
<1>15. s.req.error_code = 0 /\ s.pos <= FileSize[s.req.file]
  BY <1>2, <1>4
<1>16. Prepared(s, p, TRUE, l)
  BY <1>1, <1>4, <1>5, <1>6, <1>7, <1>8, <1>9, <1>12, <1>14, <1>15 DEF Prepared
<1> QED
  BY <1>16 DEF s, p, l

ErrorStruct(c)  == [io[c] EXCEPT !.buf = Buffer(HeaderSize, ErrorSize)]
ErrorResp(e) == [NoResp EXCEPT !.begun = TRUE, !.announced = ErrorSize, !.code = e]

LEMMA ErrorPrepared ==
    ASSUME ServerInv, NEW c \in Conn, io[c].mask = "out", ~ io[c].fd,
           NEW e \in Nat
    PROVE  Prepared(ErrorStruct(c), ErrorResp(e), FALSE, 0)
<1> DEFINE s == ErrorStruct(c)
           p == ErrorResp(e)
<1>1. io[c] \in Io /\ io[c].req \in AllReceived \ {NoReq} /\ io[c].mask = "out"
  BY AnsweringFacts
<1>2. HeaderSize \in Nat \ {0} /\ ErrorSize \in Nat
  BY ServerAssumption
<1>3. /\ Buffer(HeaderSize, ErrorSize) \in [head : Nat, body : Nat, post : Nat]
      /\ Buffer(HeaderSize, ErrorSize).body = ErrorSize
      /\ BufLen(Buffer(HeaderSize, ErrorSize)) > 0
  BY <1>2 DEF Buffer, BufLen
<1>4. /\ s.mask = "out" /\ s.req = io[c].req /\ s.fd = io[c].fd /\ s \in Io
      /\ s.buf = Buffer(HeaderSize, ErrorSize)
  BY <1>1, <1>3 DEF Io, ErrorStruct
<1>5. /\ p.begun /\ p.announced = ErrorSize /\ p.delivered = 0 /\ p \in Resp
  BY <1>2 DEF ErrorResp, NoResp, Resp
<1> HIDE DEF s, p
<1>7. p.delivered + s.buf.body + 0 = p.announced
  BY <1>2, <1>3, <1>4, <1>5
<1>8. p.announced <= p.announced
  BY <1>2, <1>5
<1>9. Prepared(s, p, FALSE, 0)
  BY <1>1, <1>3, <1>4, <1>5, <1>7, <1>8 DEF Prepared
<1> QED
  BY <1>9 DEF s, p
\* A connection whose file is open and whose buffer is free.
LEMMA ReadingFacts ==
    ASSUME ServerInv, NEW c \in Conn, io[c].mask = "out",
           ~ Pending(io[c]), io[c].fd, NEW r, r = io[c].req, NEW u, u = Unread(io[c])
    PROVE  /\ io[c] \in Io /\ resp[c] \in Resp /\ resp[c].begun
           /\ r \in AllReceived \ {NoReq} /\ r.error_code = 0 /\ r.post \in Nat
           /\ FileSize[r.file] \in Nat /\ io[c].pos \in Nat /\ u \in Nat
           /\ u = FileSize[r.file] - io[c].pos /\ Appended(r) \in Nat
           /\ StillToSend(io[c], resp[c]) = u + Appended(r)
           /\ resp[c].delivered + (u + Appended(r)) <= resp[c].announced
           /\ ~ resp[c].spoiled =>
                  resp[c].delivered + (u + Appended(r)) = resp[c].announced
<1>1. /\ io[c] \in Io /\ resp[c] \in Resp /\ Sound(io[c], resp[c])
      /\ r \in AllReceived \ {NoReq} /\ resp[c].begun
      /\ r.error_code = 0 /\ io[c].pos <= FileSize[r.file]
  BY AnsweringFacts
<1>2. r \in Parsed /\ r.file \in File
  BY <1>1, ReceivedParsed
<1>3. io[c].pos \in Nat /\ r.post \in Nat
  BY <1>1, <1>2 DEF Io, Parsed
<1>4. FileSize[r.file] \in Nat
  BY <1>1, <1>2, <1>3, ServerAssumption
<1>5. u = FileSize[r.file] - io[c].pos /\ u \in Nat
  BY <1>1, <1>3, <1>4 DEF Unread
<1>6. Appended(r) \in Nat
  BY <1>3, ServerAssumption DEF Appended
<1>7. StillToSend(io[c], resp[c]) = u + Appended(r)
  BY <1>1 DEF StillToSend
<1> QED
  BY <1>1, <1>3, <1>4, <1>5, <1>6, <1>7 DEF Sound, Conserved

ChunkStruct(c, n) == [io[c] EXCEPT !.pos = @ + n, !.buf = Buffer(0, n)]

LEMMA ChunkPrepared ==
    ASSUME ServerInv, NEW c \in Conn, io[c].mask = "out",
           ~ Pending(io[c]), io[c].fd, NEW u, u = Unread(io[c]),
           NEW n \in Nat, 0 < n, n <= u
    PROVE  Prepared(ChunkStruct(c, n), resp[c], TRUE, (u - n) + Appended(io[c].req))
<1> DEFINE s == ChunkStruct(c, n)
           p == resp[c]
           r == io[c].req
           l == (u - n) + Appended(r)
<1>1. /\ io[c] \in Io /\ p \in Resp /\ p.begun
      /\ r \in AllReceived \ {NoReq} /\ r.error_code = 0
      /\ FileSize[r.file] \in Nat /\ io[c].pos \in Nat /\ u \in Nat
      /\ u = FileSize[r.file] - io[c].pos /\ Appended(r) \in Nat
      /\ p.delivered + (u + Appended(r)) <= p.announced
      /\ ~ p.spoiled => p.delivered + (u + Appended(r)) = p.announced
  BY ReadingFacts
<1>2. /\ Buffer(0, n) \in [head : Nat, body : Nat, post : Nat]
      /\ Buffer(0, n).body = n /\ BufLen(Buffer(0, n)) > 0
  BY DEF Buffer, BufLen
<1>3. /\ s.mask = "out" /\ s.req = r /\ s.fd = io[c].fd /\ s.pos = io[c].pos + n
      /\ s.buf = Buffer(0, n) /\ s \in Io
  <2> DEFINE k == io[c].pos + n
             b == Buffer(0, n)
  <2>1. k \in Nat
    BY <1>1
  <2>2. s = [io[c] EXCEPT !.pos = k, !.buf = b]
    BY <1>1 DEF ChunkStruct, Io
  <2>3. b \in [head : Nat, body : Nat, post : Nat]
    BY <1>2
  <2> HIDE DEF k, b, s
  <2>4. /\ s.mask = "out" /\ s.req = r /\ s.fd = io[c].fd /\ s.pos = k /\ s.buf = b
    BY <1>1, <2>2 DEF Io
  <2>5. s \in Io
    BY <1>1, <2>1, <2>2, <2>3 DEF Io
  <2> QED
    BY <2>4, <2>5 DEF k, b
<1>4. Unread(s) = u - n
  BY <1>1, <1>3 DEF Unread
<1>5. l \in Nat /\ p.delivered \in Nat
  BY <1>1 DEF Resp
<1> HIDE DEF s
<1>6. l = Unread(s) + Appended(s.req)
  BY <1>3, <1>4
<1>7. p.delivered + s.buf.body + l = p.delivered + (u + Appended(r))
  BY <1>1, <1>2, <1>3, <1>5
<1>8. s.pos <= FileSize[s.req.file]
  BY <1>1, <1>3
<1> HIDE DEF l
<1>9. Prepared(s, p, TRUE, l)
  BY <1>1, <1>2, <1>3, <1>5, <1>6, <1>7, <1>8 DEF Prepared
<1> QED
  BY <1>9 DEF s, l

PostStruct(c) == [io[c] EXCEPT !.buf = [Buffer(0, Appended(io[c].req)) EXCEPT
                                            !.post = io[c].req.post]]

LEMMA PostPrepared ==
    ASSUME ServerInv, NEW c \in Conn, io[c].mask = "out",
           ~ Pending(io[c]), io[c].fd, Unread(io[c]) = 0, Appends(io[c].req)
    PROVE  Prepared(PostStruct(c), resp[c], FALSE, 0)
<1> DEFINE s == PostStruct(c)
           p == resp[c]
           r == io[c].req
           b == [Buffer(0, Appended(r)) EXCEPT !.post = r.post]
<1>1. /\ io[c] \in Io /\ p \in Resp /\ p.begun
      /\ r \in AllReceived \ {NoReq} /\ r.error_code = 0 /\ r.post \in Nat
      /\ io[c].pos \in Nat /\ FileSize[r.file] \in Nat
      /\ 0 = FileSize[r.file] - io[c].pos /\ Appended(r) \in Nat
      /\ p.delivered + (0 + Appended(r)) <= p.announced
      /\ ~ p.spoiled => p.delivered + (0 + Appended(r)) = p.announced
  BY ReadingFacts
<1>2. Appended(r) > 0
  BY <1>1, ServerAssumption DEF Appended
<1>3. /\ b \in [head : Nat, body : Nat, post : Nat]
      /\ b.body = Appended(r) /\ b.head = 0
  BY <1>1 DEF Buffer
<1>4. BufLen(b) > 0
  BY <1>1, <1>2, <1>3 DEF BufLen
<1> HIDE DEF b
<1>5. /\ s.mask = "out" /\ s.req = r /\ s.fd = io[c].fd /\ s.pos = io[c].pos
      /\ s.buf = b /\ s \in Io
  BY <1>1, <1>3 DEF Io, PostStruct, b
<1>6. p.delivered \in Nat
  BY <1>1 DEF Resp
<1> HIDE DEF s
<1>7. p.delivered + s.buf.body + 0 = p.delivered + (0 + Appended(r))
  BY <1>1, <1>3, <1>5, <1>6
<1>8. s.pos <= FileSize[s.req.file]
  BY <1>1, <1>5
<1>9. Prepared(s, p, FALSE, 0)
  BY <1>1, <1>4, <1>5, <1>7, <1>8 DEF Prepared
<1> QED
  BY <1>9 DEF s
-----------------------------------------------------------------------------
(* The invariant.                                                          *)

LEMMA OutSound ==
    ASSUME ServerInv, NEW c \in Conn, handle_out(c)
    PROVE  SendResult(c)
<1> DEFINE r == io[c].req
<1>1. TypeOK /\ Sound(io[c], resp[c]) /\ alive
  BY DEF ServerInv, handle_out, SendPending, StartFile, StartError, SendChunk,
         SendPost, EndOfFile, Writable
<1>2. CASE SendPending(c)
  <2>1. io[c].mask = "out" /\ Pending(io[c]) /\ send_data(c, io[c], resp[c], FALSE)
    BY <1>2 DEF SendPending, Writable
  <2>2. Prepared(io[c], resp[c], FALSE, 0)
    BY <2>1, PendingPrepared
  <2> QED
    BY <1>1, <2>1, <2>2, SendSound
<1>3. CASE StartFile(c)
  <2>1. /\ io[c].mask = "out" /\ r.error_code = 0 /\ FileSize[r.file] # Missing
        /\ send_data(c, FileStruct(c), FileResp(r), TRUE)
    BY <1>3 DEF StartFile, Writable, Opens, FileStruct, FileResp
  <2>2. Prepared(FileStruct(c), FileResp(r), TRUE, FileSize[r.file] + Appended(r))
    BY <2>1, FilePrepared
  <2> QED
    BY <1>1, <2>1, <2>2, SendSound
<1>4. CASE StartError(c)
  <2> DEFINE e == IF r.error_code = 0 THEN ERR_NOT_FOUND ELSE r.error_code
  <2>1. /\ io[c].mask = "out" /\ ~ io[c].fd
        /\ send_data(c, ErrorStruct(c), ErrorResp(e), FALSE)
    BY <1>4 DEF StartError, Writable, ErrorStruct, ErrorResp
  <2>2. e \in Nat
    BY <2>1, AnsweringFacts, ReceivedParsed DEF Parsed
  <2>3. Prepared(ErrorStruct(c), ErrorResp(e), FALSE, 0)
    BY <2>1, <2>2, ErrorPrepared
  <2> QED
    BY <1>1, <2>1, <2>3, SendSound
<1>5. CASE SendChunk(c)
  <2> DEFINE u == Unread(io[c])
             n == IF u < BufSize THEN u ELSE BufSize
  <2>1. /\ io[c].mask = "out" /\ ~ Pending(io[c]) /\ io[c].fd /\ u > 0
        /\ send_data(c, ChunkStruct(c, n), resp[c], TRUE)
    BY <1>5 DEF SendChunk, Writable, ChunkStruct
  <2>2. u \in Nat
    BY <2>1, ReadingFacts
  <2> HIDE DEF u
  <2>3. n \in Nat /\ 0 < n /\ n <= u
    BY <2>1, <2>2, ServerAssumption
  <2> HIDE DEF n
  <2>4. Prepared(ChunkStruct(c, n), resp[c], TRUE, (u - n) + Appended(r))
    BY <2>1, <2>3, ChunkPrepared DEF u
  <2> QED
    BY <1>1, <2>1, <2>4, SendSound
<1>6. CASE SendPost(c)
  <2>1. /\ io[c].mask = "out" /\ ~ Pending(io[c]) /\ io[c].fd
        /\ Unread(io[c]) = 0 /\ Appends(io[c].req)
        /\ send_data(c, PostStruct(c), resp[c], FALSE)
    BY <1>6 DEF SendPost, Writable, PostStruct
  <2>2. Prepared(PostStruct(c), resp[c], FALSE, 0)
    BY <2>1, PostPrepared
  <2> QED
    BY <1>1, <2>1, <2>2, SendSound
<1>7. CASE EndOfFile(c)
  <2>1. /\ io[c].mask = "out" /\ ~ Pending(io[c]) /\ io[c].fd
        /\ Unread(io[c]) = 0 /\ ~ Appends(io[c].req)
        /\ io' = [io EXCEPT ![c] = Idle] /\ resp' = [resp EXCEPT ![c] = resp[c]]
        /\ peer' = peer /\ alive' = alive /\ shorts' = shorts
    BY <1>1, <1>7 DEF EndOfFile, Writable, reset_epoll, TypeOK
  <2>2. Appended(io[c].req) = 0
    BY <2>1 DEF Appended
  <2>3. /\ resp[c] \in Resp /\ resp[c].begun
        /\ resp[c].delivered + (0 + 0) <= resp[c].announced
        /\ ~ resp[c].spoiled => resp[c].delivered + (0 + 0) = resp[c].announced
    BY <2>1, <2>2, ReadingFacts
  <2>4. resp[c].delivered \in Nat
    BY <2>3 DEF Resp
  <2>5. Sound(Idle, resp[c])
    BY <2>3, <2>4, IdleSound
  <2> QED
    BY <1>1, <2>1, <2>3, <2>5, IdleTyped, SendUpdates DEF TypeOK
<1> QED
  BY <1>2, <1>3, <1>4, <1>5, <1>6, <1>7 DEF handle_out

LEMMA AskedTyped ==
    ASSUME NEW q \in Parsed
    PROVE  LET i == [Idle EXCEPT !.mask = "out", !.req = q]
           IN  /\ i \in Io /\ i.mask = "out" /\ i.req = q
               /\ i.fd = FALSE /\ i.buf = NoBuf
<1> DEFINE i == [Idle EXCEPT !.mask = "out", !.req = q]
<1>1. Idle \in Io /\ Idle.fd = FALSE /\ Idle.buf = NoBuf
  BY IdleTyped DEF Idle
<1>2. i.mask = "out" /\ i.req = q /\ i.fd = Idle.fd /\ i.buf = Idle.buf
  BY <1>1 DEF Io
<1>3. i \in Io
  BY <1>1 DEF Io
<1> HIDE DEF i
<1> QED
  BY <1>1, <1>2, <1>3 DEF i

LEMMA ServerInvInit == Init => ServerInv
<1> SUFFICES ASSUME Init PROVE ServerInv
  OBVIOUS
<1>1. TypeOK
  BY IdleTyped, ServerAssumption DEF Init, TypeOK, Segment
<1>2. Sound(Unregistered, NoResp)
  BY DEF Sound, Unregistered, Idle, NoResp, Pending, NoBuf, Conserved, StillToSend
<1> QED
  BY <1>1, <1>2 DEF Init, ServerInv

LEMMA ServerInvStep == ServerInv /\ [Next]_vars => ServerInv'
<1> SUFFICES ASSUME ServerInv, [Next]_vars PROVE ServerInv'
  OBVIOUS
<1>0. TypeOK /\ \A c \in Conn : Sound(io[c], resp[c])
  BY DEF ServerInv
<1>1. ASSUME NEW c \in Conn, Connect(c) PROVE ServerInv'
  BY <1>0, <1>1 DEF ServerInv, Connect, TypeOK
<1>2. ASSUME NEW c \in Conn, Send(c) PROVE ServerInv'
  <2>1. PICK g \in (IF MidRequest(c)
                    THEN {[req |-> sent[c][Len(sent[c])].req, part |-> "tail"]}
                    ELSE [req : Requests, part : {"whole", "head"}]) :
            /\ sent' = [sent EXCEPT ![c] = Append(@, g)]
            /\ inbox' = [inbox EXCEPT ![c] = Append(@, g)]
    BY <1>2 DEF Send
  <2>2. sent[c] \in Seq(Segment) /\ inbox[c] \in Seq(Segment)
    BY <1>0 DEF TypeOK
  <2>3. g \in Segment
    <3>1. CASE MidRequest(c)
      <4>1. sent[c][Len(sent[c])] \in Segment
        BY <2>2, <3>1 DEF MidRequest
      <4> QED
        BY <2>1, <3>1, <4>1 DEF Segment
    <3>2. CASE ~ MidRequest(c)
      BY <2>1, <3>2 DEF Segment
    <3> QED
      BY <3>1, <3>2
  <2>4. sent' \in [Conn -> Seq(Segment)] /\ inbox' \in [Conn -> Seq(Segment)]
    BY <1>0, <2>1, <2>2, <2>3 DEF TypeOK
  <2> QED
    BY <1>0, <1>2, <2>4 DEF ServerInv, Send, TypeOK
<1>3. ASSUME NEW c \in Conn, Leave(c) PROVE ServerInv'
  BY <1>0, <1>3 DEF ServerInv, Leave, TypeOK
<1>4. ASSUME NEW c \in Conn, handle_accept(c) PROVE ServerInv'
  <2>1. Sound(Idle, resp[c])
    <3>1. Sound(io[c], resp[c]) /\ io[c].mask = "none"
      BY <1>0, <1>4 DEF handle_accept
    <3> QED
      BY <3>1 DEF Sound, Idle, Unregistered, Conserved, StillToSend, Pending
  <2>2. TypeOK'
    BY <1>0, <1>4, IdleTyped DEF handle_accept, TypeOK
  <2> QED
    BY <1>0, <1>4, <2>1, <2>2 DEF ServerInv, handle_accept, TypeOK
<1>5. ASSUME NEW c \in Conn, handle_in(c) PROVE ServerInv'
  <2>1. CASE inbox[c] # <<>>
    <3> DEFINE i == [io[c] EXCEPT !.mask = "out", !.req = Received(inbox[c])]
    <3>1. io' = [io EXCEPT ![c] = i] /\ resp' = [resp EXCEPT ![c] = NoResp]
      BY <1>0, <1>5, <2>1 DEF handle_in, TypeOK
    <3>2. Received(inbox[c]) \in AllReceived \ {NoReq}
      BY <1>0, <2>1, ReceivedOne DEF TypeOK
    <3>3. io[c] \in Io /\ io[c].mask = "in" /\ Sound(io[c], resp[c])
      BY <1>0, <1>5 DEF handle_in, TypeOK
    <3>4. io[c] = Idle
      BY <3>3 DEF Sound, Unregistered, Idle
    <3>5. /\ i \in Io /\ i.mask = "out" /\ i.req = Received(inbox[c])
          /\ i.fd = FALSE /\ i.buf = NoBuf
      <4>1. Received(inbox[c]) \in Parsed
        BY <3>2, ReceivedParsed
      <4>2. i = [Idle EXCEPT !.mask = "out", !.req = Received(inbox[c])]
        BY <3>4
      <4> HIDE DEF i
      <4> QED
        BY <4>1, <4>2, AskedTyped
    <3> HIDE DEF i
    <3>6. Sound(i, NoResp)
      BY <3>2, <3>5 DEF Sound, Pending, Conserved, StillToSend, NoResp
    <3>7. inbox' = [inbox EXCEPT ![c] = <<>>] /\ peer' = peer
      BY <1>5, <2>1 DEF handle_in
    <3>8. TypeOK'
      BY <1>0, <1>5, <3>1, <3>5, <3>7, IdleTyped DEF handle_in, TypeOK
    <3> QED
      BY <1>0, <3>1, <3>6, <3>8 DEF ServerInv, TypeOK
  <2>2. CASE inbox[c] = <<>>
    BY <1>0, <1>5, <2>2 DEF ServerInv, handle_in, TypeOK
  <2> QED
    BY <2>1, <2>2
<1>6. ASSUME NEW c \in Conn, handle_out(c) PROVE ServerInv'
  <2>1. SendResult(c)
    BY <1>6, OutSound
  <2>2. UNCHANGED <<sent, inbox, events_count>>
    BY <1>6 DEF handle_out, SendPending, StartFile, StartError, SendChunk,
                SendPost, EndOfFile, Elsewhere
  <2>3. TypeOK'
    BY <1>0, <2>1, <2>2 DEF SendResult, TypeOK
  <2>4. ASSUME NEW d \in Conn PROVE Sound(io'[d], resp'[d])
    <3>1. CASE d = c
      BY <2>1, <3>1 DEF SendResult
    <3>2. CASE d # c
      BY <1>0, <2>1, <3>2 DEF SendResult
    <3> QED
      BY <3>1, <3>2
  <2> QED
    BY <2>3, <2>4 DEF ServerInv
<1>7. CASE UNCHANGED vars
  BY <1>0, <1>7 DEF ServerInv, vars, TypeOK
<1> QED
  BY <1>1, <1>2, <1>3, <1>4, <1>5, <1>6, <1>7 DEF Next, Client, Handler

\* ServerInv holds for any number of connections, files and requests.
THEOREM ServerInvariant == Spec => []ServerInv
<1>1. Init => ServerInv
  BY ServerInvInit
<1>2. ServerInv /\ [Next]_vars => ServerInv'
  BY ServerInvStep
<1> QED
  BY <1>1, <1>2, PTL DEF Spec

\* The event loop keeps its types.
THEOREM ServerTypeOK == Spec => []TypeOK
<1>1. ServerInv => TypeOK
  BY DEF ServerInv
<1> QED
  BY <1>1, ServerInvariant, PTL

\* handle_out never dereferences a request that is not there, and an idle
\* connection holds no file and no buffer (server.c:144-163, 236-301).
THEOREM RequestAlwaysAtHand == Spec => []RequestAtHand
<1>1. ServerInv => RequestAtHand
  BY DEF ServerInv, RequestAtHand, Sound
<1> QED
  BY <1>1, ServerInvariant, PTL

\* Content-Length is never exceeded, and met unless the response was spoiled.
THEOREM LengthAlwaysHonoured == Spec => []LengthHonoured
<1>1. ServerInv => LengthHonoured
  BY DEF ServerInv, LengthHonoured, Sound
<1> QED
  BY <1>1, ServerInvariant, PTL
-----------------------------------------------------------------------------
(* The data of a POST.                                                     *)

\* A connection whose response is p has the data of request r still to send,
\* or has sent it.
PostKept(i, p, r) ==
    \/ i.mask = "out" /\ i.req = r /\ PostUnderWay(i, p, r)
    \/ i.mask # "out" /\ (Appends(r) /\ p.begun /\ p.code = 0 /\ ~ p.spoiled
                              => p.posted = r.post)

\* A buffer that nothing follows holds the data, and no other one does.
PostReady(s, p, more) ==
    /\ s \in Io /\ p \in Resp /\ s.mask = "out"
    /\ Appends(s.req) /\ p.begun /\ p.code = 0 /\ ~ p.spoiled =>
           p.posted = 0 /\ s.buf.post = IF more THEN 0 ELSE s.req.post

LEMMA PostSend ==
    ASSUME TypeOK, NEW c \in Conn, NEW s, NEW p, NEW more \in BOOLEAN,
           PostReady(s, p, more), send_data(c, s, p, more),
           io[c].mask = "out", io[c].req = s.req, PostUnderWay(io[c], resp[c], s.req)
    PROVE  PostKept(io'[c], resp'[c], s.req)
<1> DEFINE r == s.req
<1>1. /\ io \in [Conn -> Io] /\ resp \in [Conn -> Resp]
      /\ s \in Io /\ p \in Resp /\ s.mask = "out"
      /\ s.buf \in [head : Nat, body : Nat, post : Nat] /\ r.post \in Nat
  BY DEF TypeOK, PostReady, Io, Parsed
<1>2. Appends(r) /\ p.begun /\ p.code = 0 /\ ~ p.spoiled =>
          p.posted = 0 /\ s.buf.post = IF more THEN 0 ELSE r.post
  BY DEF PostReady
<1>3. p.posted \in Nat /\ p.spoiled \in BOOLEAN
  BY <1>1 DEF Resp
<1>4. CASE SendTaken(c, s, p, more)
  <2>1. PICK n \in 1 .. BufLen(s.buf) : resp'[c] = Delivered(p, s.buf, n)
    BY <1>1, <1>4 DEF SendTaken
  <2>2. /\ resp'[c].begun = p.begun /\ resp'[c].code = p.code
        /\ resp'[c].posted = p.posted + s.buf.post
        /\ resp'[c].spoiled = (p.spoiled \/ n < BufLen(s.buf))
    BY <1>1, <2>1 DEF Delivered, Resp
  <2>3. Appends(r) /\ resp'[c].begun /\ resp'[c].code = 0 /\ ~ resp'[c].spoiled
            => resp'[c].posted = IF more THEN 0 ELSE r.post
    <3> SUFFICES ASSUME Appends(r), resp'[c].begun, resp'[c].code = 0, ~ resp'[c].spoiled
                 PROVE  resp'[c].posted = IF more THEN 0 ELSE r.post
      OBVIOUS
    <3>1. p.begun /\ p.code = 0 /\ ~ p.spoiled
      BY <2>2
    <3>2. p.posted = 0 /\ s.buf.post = IF more THEN 0 ELSE r.post
      BY <1>2, <3>1
    <3>3. QED
      BY <1>1, <2>2, <3>2
  <2>4. CASE more
    <3>1. io'[c] = [s EXCEPT !.buf = NoBuf]
      BY <1>1, <1>4, <2>4 DEF SendTaken
    <3>2. io'[c].mask = "out" /\ io'[c].req = r /\ ~ Pending(io'[c])
      BY <1>1, <3>1 DEF Io, Pending
    <3>3. QED
      BY <2>3, <2>4, <3>2 DEF PostKept, PostUnderWay
  <2>5. CASE ~ more
    <3>1. io'[c] = Idle
      BY <1>1, <1>4, <2>5 DEF SendTaken, reset_epoll
    <3>2. QED
      BY <2>3, <2>5, <3>1 DEF PostKept, Idle
  <2>6. QED
    BY <2>4, <2>5
<1>5. CASE SendAgain(c, s, p, more)
  <2>1. io'[c] = s /\ resp'[c] = [p EXCEPT !.spoiled = @ \/ more]
    BY <1>1, <1>5 DEF SendAgain
  <2>2. /\ resp'[c].begun = p.begun /\ resp'[c].code = p.code
        /\ resp'[c].posted = p.posted /\ resp'[c].spoiled = (p.spoiled \/ more)
    BY <1>1, <2>1 DEF Resp
  <2>3. QED
    BY <1>1, <1>2, <2>1, <2>2 DEF PostKept, PostUnderWay
<1>6. CASE SendFails(c, s, p, more)
  <2>1. io'[c] = Idle /\ resp'[c] = [p EXCEPT !.spoiled = TRUE]
    BY <1>1, <1>6 DEF SendFails, reset_epoll
  <2>2. resp'[c].spoiled
    BY <1>1, <2>1 DEF Resp
  <2>3. QED
    BY <2>1, <2>2 DEF PostKept, Idle
<1>7. CASE SendKills(c, s, p, more)
  BY <1>7 DEF SendKills, PostKept
<1>8. QED
  BY <1>4, <1>5, <1>6, <1>7 DEF send_data

LEMMA PostOut ==
    ASSUME ServerInv, NEW c \in Conn, handle_out(c),
           PostUnderWay(io[c], resp[c], io[c].req)
    PROVE  PostKept(io'[c], resp'[c], io[c].req)
<1> DEFINE r == io[c].req
<1>1. /\ TypeOK /\ io[c].mask = "out" /\ io[c] \in Io /\ resp[c] \in Resp
      /\ r \in AllReceived \ {NoReq} /\ r \in Parsed
  BY AnsweringFacts, ReceivedParsed
     DEF ServerInv, handle_out, SendPending, StartFile, StartError, SendChunk,
         SendPost, EndOfFile, Writable
<1>2. ASSUME NEW s, NEW p, NEW more \in BOOLEAN, s.req = r,
             PostReady(s, p, more), send_data(c, s, p, more)
      PROVE  PostKept(io'[c], resp'[c], r)
  BY <1>1, <1>2, PostSend
<1>3. CASE SendPending(c)
  <2>1. Pending(io[c]) /\ send_data(c, io[c], resp[c], FALSE)
    BY <1>3 DEF SendPending
  <2>2. PostReady(io[c], resp[c], FALSE)
    BY <1>1, <2>1 DEF PostReady, PostUnderWay
  <2>3. QED
    BY <1>2, <2>1, <2>2
<1>4. CASE StartFile(c)
  <2> DEFINE s == FileStruct(c)
             p == FileResp(r)
  <2>1. r.error_code = 0 /\ FileSize[r.file] # Missing /\ send_data(c, s, p, TRUE)
    BY <1>4 DEF StartFile, Opens, FileStruct, FileResp
  <2>2. Prepared(s, p, TRUE, FileSize[r.file] + Appended(r))
    BY <1>1, <2>1, FilePrepared
  <2>3. s.req = r /\ s.buf.post = 0
    BY <1>1 DEF FileStruct, Buffer, Io
  <2>4. p.posted = 0
    BY DEF FileResp, NoResp
  <2>5. PostReady(s, p, TRUE)
    BY <2>2, <2>3, <2>4 DEF PostReady, Prepared
  <2> HIDE DEF s, p
  <2>6. QED
    BY <1>2, <2>1, <2>3, <2>5
<1>5. CASE StartError(c)
  <2> DEFINE e == IF r.error_code = 0 THEN ERR_NOT_FOUND ELSE r.error_code
             s == ErrorStruct(c)
             p == ErrorResp(e)
  <2>1. ~ io[c].fd /\ send_data(c, s, p, FALSE)
    BY <1>5 DEF StartError, ErrorStruct, ErrorResp
  <2>2. e \in Nat /\ e # 0
    BY <1>1 DEF Parsed
  <2>3. Prepared(s, p, FALSE, 0)
    BY <1>1, <2>1, <2>2, ErrorPrepared
  <2>4. s.req = r
    BY <1>1 DEF ErrorStruct, Io
  <2>5. p.code = e
    BY DEF ErrorResp, NoResp
  <2>6. PostReady(s, p, FALSE)
    BY <2>2, <2>3, <2>5 DEF PostReady, Prepared
  <2> HIDE DEF s, p
  <2>7. QED
    BY <1>2, <2>1, <2>4, <2>6
<1>6. CASE SendChunk(c)
  <2> DEFINE n == IF Unread(io[c]) < BufSize THEN Unread(io[c]) ELSE BufSize
             s == ChunkStruct(c, n)
  <2>1. /\ ~ Pending(io[c]) /\ io[c].fd /\ Unread(io[c]) > 0
        /\ send_data(c, s, resp[c], TRUE)
    BY <1>6 DEF SendChunk, ChunkStruct
  <2>2. Unread(io[c]) \in Nat
    BY <1>1, <2>1, ReadingFacts
  <2>3. n \in Nat /\ 0 < n /\ n <= Unread(io[c])
    BY <2>1, <2>2, ServerAssumption
  <2> HIDE DEF n
  <2>4. Prepared(s, resp[c], TRUE, (Unread(io[c]) - n) + Appended(r))
    BY <1>1, <2>1, <2>3, ChunkPrepared
  <2>5. s.req = r /\ s.buf.post = 0
    BY <1>1 DEF ChunkStruct, Buffer, Io
  <2>6. PostReady(s, resp[c], TRUE)
    BY <2>1, <2>4, <2>5 DEF PostReady, Prepared, PostUnderWay
  <2> HIDE DEF s
  <2>7. QED
    BY <1>2, <2>1, <2>5, <2>6
<1>7. CASE SendPost(c)
  <2> DEFINE s == PostStruct(c)
  <2>1. /\ ~ Pending(io[c]) /\ io[c].fd /\ Unread(io[c]) = 0 /\ Appends(r)
        /\ send_data(c, s, resp[c], FALSE)
    BY <1>7 DEF SendPost, PostStruct
  <2>2. Prepared(s, resp[c], FALSE, 0)
    BY <1>1, <2>1, PostPrepared
  <2>3. s.req = r /\ s.buf.post = r.post
    BY <1>1 DEF PostStruct, Buffer, Io
  <2>4. PostReady(s, resp[c], FALSE)
    BY <2>1, <2>2, <2>3 DEF PostReady, Prepared, PostUnderWay
  <2> HIDE DEF s
  <2>5. QED
    BY <1>2, <2>1, <2>3, <2>4
<1>8. CASE EndOfFile(c)
  BY <1>1, <1>8 DEF EndOfFile, reset_epoll, Idle, PostKept
<1>9. QED
  BY <1>3, <1>4, <1>5, <1>6, <1>7, <1>8 DEF handle_out

LEMMA PostInit == Init => \A c \in Conn : PostTracked(c)
BY DEF Init, PostTracked, Unregistered, Idle

LEMMA PostStep ==
    ASSUME ServerInv, \A c \in Conn : PostTracked(c), [Next]_vars
    PROVE  \A c \in Conn : PostTracked(c)'
<1>0. /\ TypeOK /\ io \in [Conn -> Io] /\ resp \in [Conn -> Resp]
      /\ sent \in [Conn -> Seq(Segment)] /\ inbox \in [Conn -> Seq(Segment)]
      /\ \A c \in Conn : PostTracked(c) /\ Sound(io[c], resp[c])
  BY DEF ServerInv, TypeOK
<1>1. ASSUME NEW c \in Conn, \A d \in Conn \ {c} : /\ sent'[d] = sent[d] /\ inbox'[d] = inbox[d]
                                                  /\ io'[d] = io[d] /\ resp'[d] = resp[d],
             PostTracked(c)'
      PROVE  \A d \in Conn : PostTracked(d)'
  <2>1. ASSUME NEW d \in Conn \ {c} PROVE PostTracked(d)'
    BY <1>0, <1>1 DEF PostTracked
  <2>2. QED
    BY <1>1, <2>1
<1>2. CASE UNCHANGED <<sent, inbox, io, resp>>
  BY <1>0, <1>2 DEF PostTracked
<1>3. ASSUME NEW c \in Conn, Connect(c) \/ Leave(c)
      PROVE  \A d \in Conn : PostTracked(d)'
  BY <1>2, <1>3 DEF Connect, Leave
<1>4. ASSUME NEW c \in Conn, Send(c)
      PROVE  \A d \in Conn : PostTracked(d)'
  <2>1. PICK g : /\ sent' = [sent EXCEPT ![c] = Append(@, g)]
                 /\ inbox' = [inbox EXCEPT ![c] = Append(@, g)]
    BY <1>4 DEF Send
  <2>2. UNCHANGED <<io, resp>>
    BY <1>4 DEF Send
  <2>3. /\ sent'[c] = Append(sent[c], g) /\ inbox'[c] = Append(inbox[c], g)
        /\ sent[c] \in Seq(Segment)
    BY <1>0, <2>1
  <2>4. sent'[c] # <<>> /\ (Len(sent'[c]) = 1 => sent[c] = <<>>)
    BY <2>3
  <2>5. PostTracked(c)'
    BY <1>0, <2>2, <2>3, <2>4 DEF PostTracked
  <2>6. QED
    BY <1>0, <1>1, <2>1, <2>2, <2>5
<1>5. ASSUME NEW c \in Conn, handle_accept(c)
      PROVE  \A d \in Conn : PostTracked(d)'
  <2>1. /\ io[c].mask = "none" /\ UNCHANGED <<sent, inbox, resp>>
        /\ io' = [io EXCEPT ![c] = Idle]
    BY <1>5 DEF handle_accept
  <2>2. io'[c].mask = "in"
    BY <1>0, <2>1 DEF Idle
  <2>3. PostTracked(c)'
    BY <1>0, <2>1, <2>2 DEF PostTracked
  <2>4. QED
    BY <1>0, <1>1, <2>1, <2>3
<1>6. ASSUME NEW c \in Conn, handle_in(c)
      PROVE  \A d \in Conn : PostTracked(d)'
  <2>1. CASE inbox[c] = <<>>
    BY <1>2, <1>6, <2>1 DEF handle_in
  <2>2. CASE inbox[c] # <<>>
    <3>1. /\ io[c].mask = "in" /\ sent' = sent /\ inbox' = [inbox EXCEPT ![c] = <<>>]
          /\ io' = [io EXCEPT ![c].mask = "out", ![c].req = Received(inbox[c])]
          /\ resp' = [resp EXCEPT ![c] = NoResp]
      BY <1>6, <2>2 DEF handle_in
    <3>2. /\ inbox'[c] = <<>> /\ io'[c].mask = "out" /\ ~ resp'[c].begun
          /\ io'[c].req = Received(inbox[c])
      BY <1>0, <3>1 DEF Io, NoResp
    <3>3. ASSUME Len(sent[c]) = 1, sent[c][1].part = "whole"
          PROVE  io'[c].req = sent[c][1].req
      <4>1. inbox[c] = sent[c]
        BY <1>0, <2>2, <3>3 DEF PostTracked
      <4>2. QED
        BY <3>2, <3>3, <4>1 DEF Received
    <3>4. sent[c] # <<>>
      BY <1>0, <2>2 DEF PostTracked
    <3>5. PostTracked(c)'
      BY <3>1, <3>2, <3>3, <3>4 DEF PostTracked, PostUnderWay
    <3>6. QED
      BY <1>0, <1>1, <3>1, <3>5
  <2>3. QED
    BY <2>1, <2>2
<1>7. ASSUME NEW c \in Conn, handle_out(c)
      PROVE  \A d \in Conn : PostTracked(d)'
  <2>1. /\ io[c].mask = "out" /\ UNCHANGED <<sent, inbox>>
        /\ \A d \in Conn \ {c} : io'[d] = io[d] /\ resp'[d] = resp[d]
    <3>1. SendResult(c)
      BY <1>7, OutSound
    <3>2. QED
      BY <1>7, <3>1 DEF SendResult, handle_out, SendPending, StartFile, StartError,
                        SendChunk, SendPost, EndOfFile, Elsewhere, Writable
  <2>2. ASSUME Len(sent[c]) = 1, sent[c][1].part = "whole"
        PROVE  /\ inbox[c] = <<>>
               /\ PostKept(io'[c], resp'[c], sent[c][1].req)
    <3>1. /\ inbox[c] = <<>> /\ io[c].req = sent[c][1].req
          /\ PostUnderWay(io[c], resp[c], io[c].req)
      BY <1>0, <2>1, <2>2 DEF PostTracked
    <3>2. QED
      BY <1>7, <3>1, PostOut
  <2>3. sent[c] # <<>>
    BY <1>0, <2>1 DEF PostTracked
  <2>4. PostTracked(c)'
    BY <2>1, <2>2, <2>3 DEF PostTracked, PostKept
  <2>5. QED
    BY <1>1, <2>1, <2>4
<1>8. CASE UNCHANGED vars
  BY <1>2, <1>8 DEF vars
<1>9. QED
  BY <1>3, <1>4, <1>5, <1>6, <1>7, <1>8 DEF Next, Client, Handler

\* The connection's invariant with what the data of its first request goes
\* through: kept, for any number of connections and any cut of the sends.
THEOREM PostInvariant == Spec => []PostInv
<1>1. Init => PostInv
  BY ServerInvInit, PostInit DEF PostInv
<1>2. PostInv /\ [Next]_vars => PostInv'
  BY ServerInvStep, PostStep DEF PostInv
<1>3. QED
  BY <1>1, <1>2, PTL DEF Spec

\* The data of a POST that came in one segment has gone out, once and whole,
\* when its response has ended with success (server.c:188-215, 268-301).
THEOREM PostDataGoesOut == Spec => []PostDataAppended
<1>1. PostInv => PostDataAppended
  <2> SUFFICES ASSUME PostInv, NEW c \in Conn, Len(sent[c]) = 1, sent[c][1].part = "whole",
                      Appends(sent[c][1].req), io[c].mask = "in", resp[c].begun,
                      resp[c].code = 0, ~ resp[c].spoiled
               PROVE  resp[c].posted = sent[c][1].req.post
    BY DEF PostDataAppended
  <2>1. resp[c] # NoResp
    BY DEF NoResp
  <2>2. QED
    BY <2>1 DEF PostInv, PostTracked
<1>2. QED
  BY <1>1, PostInvariant, PTL
-----------------------------------------------------------------------------
(* The refinement of HttpExchange.                                         *)

PhaseOf   == [d \in Conn |-> Phase(d)]
LeftOf    == [d \in Conn |-> resp[d].announced - resp[d].delivered]
SpoiledOf == [d \in Conn |-> resp[d].spoiled]

AllLengths == {ErrorSize} \cup {ContentLength(r) : r \in {q \in AllReceived :
                  q.error_code = 0 /\ FileSize[q.file] # Missing}}

Others(c) == \A d \in Conn \ {c} : io'[d] = io[d] /\ resp'[d] = resp[d]

\* Exchange!Deliver, seen from here.
Delivers(c, owed) ==
    \E n \in 0 .. owed, s \in BOOLEAN, t \in {"answering", "idle"} :
        /\ SpoiledOf[c] => s
        /\ t = "idle" /\ ~ s => n = owed
        /\ PhaseOf' = [PhaseOf EXCEPT ![c] = t]
        /\ LeftOf' = [LeftOf EXCEPT ![c] = owed - n]
        /\ SpoiledOf' = [SpoiledOf EXCEPT ![c] = s]

LEMMA DeliversRefines ==
    ASSUME NEW c, NEW owed, Delivers(c, owed)
    PROVE  /\ PhaseOf[c] = "answering" /\ owed = LeftOf[c] => Exchange!Continue(c)
           /\ PhaseOf[c] = "asked" /\ owed \in AllLengths => Exchange!Announce(c)
  BY DEF Delivers, PhaseOf, LeftOf, SpoiledOf, AllLengths, Exchange!Continue,
         Exchange!Announce, Exchange!Deliver

\* What a send does to a response r, as the exchange sees it.
Shows(c, r) ==
    /\ resp'[c].begun /\ resp'[c].announced = r.announced
    /\ resp'[c].delivered >= r.delivered
    /\ r.spoiled => resp'[c].spoiled
    /\ io'[c].mask \in {"in", "out"}

LEMMA SendShows ==
    ASSUME TypeOK, NEW c \in Conn, NEW s \in Io, NEW r \in Resp, NEW more,
           r.begun, s.mask = "out", send_data(c, s, r, more)
    PROVE  (io' = io /\ resp' = resp) \/ Shows(c, r)
<1>0. /\ io \in [Conn -> Io] /\ resp \in [Conn -> Resp]
      /\ s.buf \in [head : Nat, body : Nat, post : Nat] /\ r.delivered \in Nat
  BY DEF TypeOK, Io, Resp
<1>1. CASE SendTaken(c, s, r, more)
  <2>1. PICK n \in 1 .. BufLen(s.buf) :
            resp' = [resp EXCEPT ![c] = Delivered(r, s.buf, n)]
    BY <1>1 DEF SendTaken
  <2>2. resp'[c] = Delivered(r, s.buf, n)
    BY <1>0, <2>1
  <2>3. /\ resp'[c].begun /\ resp'[c].announced = r.announced
        /\ resp'[c].delivered >= r.delivered /\ (r.spoiled => resp'[c].spoiled)
    <3>1. /\ Delivered(r, s.buf, n).begun = r.begun
          /\ Delivered(r, s.buf, n).announced = r.announced
          /\ Delivered(r, s.buf, n).spoiled = (r.spoiled \/ n < BufLen(s.buf))
          /\ Delivered(r, s.buf, n).delivered >= r.delivered
      BY <1>0, DeliveredTyped
    <3> QED
      BY <2>2, <3>1
  <2>4. io'[c].mask \in {"in", "out"}
    <3>1. CASE more
      <4>1. io'[c] = [s EXCEPT !.buf = NoBuf]
        BY <1>0, <1>1, <3>1 DEF SendTaken
      <4> QED
        BY <4>1 DEF Io
    <3>2. CASE ~ more
      <4>1. io'[c] = Idle
        BY <1>0, <1>1, <3>2 DEF SendTaken, reset_epoll
      <4> QED
        BY <4>1 DEF Idle
    <3> QED
      BY <3>1, <3>2
  <2> QED
    BY <2>3, <2>4 DEF Shows
<1>2. CASE SendAgain(c, s, r, more)
  <2>1. resp'[c] = [r EXCEPT !.spoiled = @ \/ more] /\ io'[c] = s
    BY <1>0, <1>2 DEF SendAgain
  <2>2. /\ resp'[c].begun /\ resp'[c].announced = r.announced
        /\ resp'[c].delivered = r.delivered /\ (r.spoiled => resp'[c].spoiled)
    BY <2>1 DEF Resp
  <2> QED
    BY <1>0, <2>1, <2>2 DEF Shows
<1>3. CASE SendFails(c, s, r, more)
  <2>1. resp'[c] = [r EXCEPT !.spoiled = TRUE] /\ io'[c] = Idle
    BY <1>0, <1>3 DEF SendFails, reset_epoll
  <2>2. /\ resp'[c].begun /\ resp'[c].announced = r.announced
        /\ resp'[c].delivered = r.delivered /\ resp'[c].spoiled
    BY <2>1 DEF Resp
  <2>3. Idle.mask = "in"
    BY DEF Idle
  <2> QED
    BY <1>0, <2>1, <2>2, <2>3 DEF Shows
<1>4. CASE SendKills(c, s, r, more)
  BY <1>4 DEF SendKills
<1> QED
  BY <1>1, <1>2, <1>3, <1>4 DEF send_data

\* The bytes that are still owed of r are owed, or gone, after the step.
LEMMA ShownDelivers ==
    ASSUME ServerInv, ServerInv', NEW c \in Conn, NEW r \in Resp,
           Shows(c, r), Others(c), resp[c].spoiled => r.spoiled,
           NEW owed, owed = r.announced - r.delivered
    PROVE  Delivers(c, owed)
<1> DEFINE k == resp'[c].delivered - r.delivered
           p == IF io'[c].mask = "out" THEN "answering" ELSE "idle"
           q == resp'[c]
<1>1. /\ resp' \in [Conn -> Resp] /\ resp \in [Conn -> Resp]
      /\ q \in Resp /\ Conserved(io'[c], q)
  BY DEF ServerInv, TypeOK, Sound
<1>2. /\ r.announced \in Nat /\ r.delivered \in Nat /\ q.delivered \in Nat
      /\ q.announced = r.announced /\ q.delivered >= r.delivered
  BY <1>1 DEF Resp, Shows
<1>3. q.delivered <= q.announced
      /\ (io'[c].mask # "out" /\ ~ q.spoiled => q.delivered = q.announced)
  <2>1. StillToSend(io'[c], q) \in Nat
    <3>1. io'[c] \in Io /\ Sound(io'[c], q)
      BY DEF ServerInv, TypeOK
    <3>2. CASE io'[c].mask # "out"
      BY <3>2 DEF StillToSend
    <3>3. CASE io'[c].mask = "out" /\ Pending(io'[c])
      BY <3>1, <3>3 DEF StillToSend, Io, Shows
    <3>4. CASE io'[c].mask = "out" /\ ~ Pending(io'[c])
      <4>1. /\ io'[c].fd /\ io'[c].req \in AllReceived
            /\ io'[c].req.error_code = 0
            /\ io'[c].pos <= FileSize[io'[c].req.file] /\ io'[c].pos \in Nat
        BY <3>1, <3>4 DEF Sound, Io, Shows
      <4>2. FileSize[io'[c].req.file] \in Nat
        <5>1. io'[c].req.file \in File
          BY <4>1, ReceivedParsed
        <5>2. FileSize[io'[c].req.file] \in Nat \cup {-1}
          BY <5>1, ServerAssumption
        <5> QED
          BY <4>1, <5>2
      <4>3. Unread(io'[c]) \in Nat
        BY <4>1, <4>2 DEF Unread
      <4>4. Appended(io'[c].req) \in Nat
        BY <4>1, ReceivedParsed, ServerAssumption DEF Appended, Parsed
      <4>5. StillToSend(io'[c], q) = Unread(io'[c]) + Appended(io'[c].req)
        BY <3>4 DEF StillToSend, Shows
      <4> QED
        BY <4>3, <4>4, <4>5
    <3> QED
      BY <3>2, <3>3, <3>4
  <2>2. io'[c].mask # "out" => StillToSend(io'[c], q) = 0
    BY DEF StillToSend
  <2>3. q.begun /\ q.announced \in Nat
    BY <1>1 DEF Shows, Resp
  <2>4. q.delivered + StillToSend(io'[c], q) <= q.announced
        /\ (~ q.spoiled => q.delivered + StillToSend(io'[c], q) = q.announced)
    BY <1>1, <2>3 DEF Conserved
  <2> QED
    BY <1>2, <2>1, <2>2, <2>3, <2>4
<1>4. k \in 0 .. owed /\ owed - k = q.announced - q.delivered
      /\ (p = "idle" /\ ~ q.spoiled => k = owed)
  BY <1>2, <1>3
<1>5. PhaseOf' = [PhaseOf EXCEPT ![c] = p]
  BY DEF PhaseOf, Phase, Others, Shows
<1>6. LeftOf' = [LeftOf EXCEPT ![c] = owed - k]
  BY <1>4 DEF LeftOf, Others
<1>7. SpoiledOf' = [SpoiledOf EXCEPT ![c] = q.spoiled]
  BY DEF SpoiledOf, Others
<1>8. q.spoiled \in BOOLEAN /\ p \in {"answering", "idle"}
  BY <1>1 DEF Resp
<1>9. SpoiledOf[c] => q.spoiled
  BY DEF SpoiledOf, Shows
<1> HIDE DEF k, p, q
<1> QED
  BY <1>4, <1>5, <1>6, <1>7, <1>8, <1>9, Zenon DEF Delivers
-----------------------------------------------------------------------------
(* The steps of the server.                                                *)

Seen == <<PhaseOf, LeftOf, SpoiledOf>>

LEMMA OthersKept ==
    ASSUME TypeOK, NEW c \in Conn, NEW s, NEW r, NEW more, send_data(c, s, r, more)
    PROVE  Others(c)
  BY DEF TypeOK, send_data, SendTaken, SendAgain, SendFails, SendKills, Others

\* A send for a response that has already begun.
LEMMA SendContinues ==
    ASSUME ServerInv, ServerInv', NEW c \in Conn, NEW s \in Io, NEW more,
           io[c].mask = "out", resp[c].begun, s.mask = "out",
           send_data(c, s, resp[c], more)
    PROVE  UNCHANGED Seen \/ Exchange!Continue(c)
<1>1. TypeOK /\ resp[c] \in Resp
  BY DEF ServerInv, TypeOK
<1>2. (io' = io /\ resp' = resp) \/ Shows(c, resp[c])
  BY <1>1, SendShows
<1>3. CASE io' = io /\ resp' = resp
  BY <1>3 DEF Seen, PhaseOf, LeftOf, SpoiledOf, Phase
<1>4. CASE Shows(c, resp[c])
  <2>0. Others(c)
    BY <1>1, OthersKept
  <2>1. PhaseOf[c] = "answering" /\ LeftOf[c] = resp[c].announced - resp[c].delivered
    BY DEF PhaseOf, Phase, LeftOf
  <2>2. Delivers(c, LeftOf[c])
    BY <1>1, <1>4, <2>0, <2>1, ShownDelivers
  <2> QED
    BY <2>1, <2>2, DeliversRefines
<1> QED
  BY <1>2, <1>3, <1>4

\* A send that begins a response.
LEMMA SendAnnounces ==
    ASSUME ServerInv, ServerInv', NEW c \in Conn, NEW s \in Io, NEW r \in Resp,
           NEW more, io[c].mask = "out", ~ resp[c].begun, s.mask = "out",
           r.begun, r.delivered = 0, r.announced \in AllLengths,
           send_data(c, s, r, more)
    PROVE  UNCHANGED Seen \/ Exchange!Announce(c)
<1>1. TypeOK /\ resp[c] = NoResp /\ r.announced \in Nat
  BY AnsweringFacts DEF ServerInv, Resp
<1>2. (io' = io /\ resp' = resp) \/ Shows(c, r)
  BY <1>1, SendShows
<1>3. CASE io' = io /\ resp' = resp
  BY <1>3 DEF Seen, PhaseOf, LeftOf, SpoiledOf, Phase
<1>4. CASE Shows(c, r)
  <2>1. ~ resp[c].spoiled
    BY <1>1 DEF NoResp
  <2>2. Others(c) /\ r.announced = r.announced - r.delivered
    BY <1>1, OthersKept
  <2>3. Delivers(c, r.announced)
    BY <1>1, <1>4, <2>1, <2>2, ShownDelivers
  <2>4. PhaseOf[c] = "asked"
    BY DEF PhaseOf, Phase
  <2> QED
    BY <2>3, <2>4, DeliversRefines
<1> QED
  BY <1>2, <1>3, <1>4

LEMMA OutRefines ==
    ASSUME ServerInv, ServerInv', NEW c \in Conn, handle_out(c)
    PROVE  UNCHANGED Seen \/ Exchange!Continue(c) \/ Exchange!Announce(c)
<1> DEFINE r == io[c].req
<1>1. /\ io[c].mask = "out" /\ io[c] \in Io /\ resp[c] \in Resp
      /\ Sound(io[c], resp[c]) /\ r \in AllReceived
  BY AnsweringFacts DEF handle_out, SendPending, StartFile, StartError, SendChunk,
         SendPost, EndOfFile, Writable
<1>2. CASE SendPending(c)
  BY <1>1, <1>2, SendContinues DEF SendPending, Sound
<1>3. CASE StartFile(c)
  <2>1. /\ r.error_code = 0 /\ FileSize[r.file] # Missing
        /\ ~ Pending(io[c]) /\ ~ io[c].fd
        /\ send_data(c, FileStruct(c), FileResp(r), TRUE)
    BY <1>3 DEF StartFile, Opens, FileStruct, FileResp
  <2>2. Prepared(FileStruct(c), FileResp(r), TRUE, FileSize[r.file] + Appended(r))
    BY <1>1, <2>1, FilePrepared
  <2>3. /\ FileStruct(c) \in Io /\ FileStruct(c).mask = "out"
        /\ FileResp(r) \in Resp /\ FileResp(r).begun
    BY <2>2 DEF Prepared
  <2>4. FileResp(r).delivered = 0 /\ FileResp(r).announced = ContentLength(r)
    BY DEF FileResp, NoResp
  <2>5. ContentLength(r) \in AllLengths
    BY <1>1, <2>1 DEF AllLengths
  <2>6. ~ resp[c].begun
    BY <1>1, <2>1 DEF Sound
  <2> QED
    BY <1>1, <2>1, <2>3, <2>4, <2>5, <2>6, SendAnnounces
<1>4. CASE StartError(c)
  <2> DEFINE e == IF r.error_code = 0 THEN ERR_NOT_FOUND ELSE r.error_code
  <2>1. /\ ~ Pending(io[c]) /\ ~ io[c].fd
        /\ send_data(c, ErrorStruct(c), ErrorResp(e), FALSE)
    BY <1>4 DEF StartError, ErrorStruct, ErrorResp
  <2>2. e \in Nat
    BY <1>1, ReceivedParsed DEF Parsed
  <2>3. Prepared(ErrorStruct(c), ErrorResp(e), FALSE, 0)
    BY <1>1, <2>1, <2>2, ErrorPrepared
  <2>4. /\ ErrorStruct(c) \in Io /\ ErrorStruct(c).mask = "out"
        /\ ErrorResp(e) \in Resp /\ ErrorResp(e).begun
    BY <2>3 DEF Prepared
  <2>5. ErrorResp(e).delivered = 0 /\ ErrorResp(e).announced = ErrorSize
    BY DEF ErrorResp, NoResp
  <2>6. ErrorSize \in AllLengths
    BY DEF AllLengths
  <2>7. ~ resp[c].begun
    BY <1>1, <2>1 DEF Sound
  <2> QED
    BY <1>1, <2>1, <2>4, <2>5, <2>6, <2>7, SendAnnounces
<1>5. CASE SendChunk(c)
  <2> DEFINE u == Unread(io[c])
             n == IF u < BufSize THEN u ELSE BufSize
  <2>1. /\ io[c].fd /\ ~ Pending(io[c]) /\ u > 0
        /\ send_data(c, ChunkStruct(c, n), resp[c], TRUE)
    BY <1>5 DEF SendChunk, ChunkStruct
  <2>2. u \in Nat
    BY <1>1, <2>1, ReadingFacts
  <2> HIDE DEF u
  <2>3. n \in Nat /\ 0 < n /\ n <= u
    BY <2>1, <2>2, ServerAssumption
  <2> HIDE DEF n
  <2>4. Prepared(ChunkStruct(c, n), resp[c], TRUE, (u - n) + Appended(r))
    BY <1>1, <2>1, <2>3, ChunkPrepared DEF u
  <2>5. ChunkStruct(c, n) \in Io /\ ChunkStruct(c, n).mask = "out" /\ resp[c].begun
    BY <2>4 DEF Prepared
  <2> QED
    BY <1>1, <2>1, <2>5, SendContinues
<1>6. CASE SendPost(c)
  <2>1. /\ io[c].fd /\ ~ Pending(io[c]) /\ Unread(io[c]) = 0 /\ Appends(r)
        /\ send_data(c, PostStruct(c), resp[c], FALSE)
    BY <1>6 DEF SendPost, PostStruct
  <2>2. Prepared(PostStruct(c), resp[c], FALSE, 0)
    BY <1>1, <2>1, PostPrepared
  <2>3. PostStruct(c) \in Io /\ PostStruct(c).mask = "out" /\ resp[c].begun
    BY <2>2 DEF Prepared
  <2> QED
    BY <1>1, <2>1, <2>3, SendContinues
<1>7. CASE EndOfFile(c)
  <2>1. /\ io[c].fd /\ Unread(io[c]) = 0 /\ ~ Appends(r) /\ ~ Pending(io[c])
        /\ io' = [io EXCEPT ![c] = Idle] /\ resp' = resp
    BY <1>7 DEF EndOfFile, reset_epoll
  <2>2. resp[c].begun /\ io \in [Conn -> Io]
    BY <1>1, <2>1 DEF Sound, ServerInv, TypeOK
  <2>3. Shows(c, resp[c]) /\ Others(c)
    <3>1. io'[c] = Idle /\ Idle.mask = "in"
      BY <2>1, <2>2 DEF Idle
    <3>2. resp[c].delivered \in Nat
      BY <1>1 DEF Resp
    <3> QED
      BY <2>1, <2>2, <3>1, <3>2 DEF Shows, Others
  <2>4. PhaseOf[c] = "answering" /\ LeftOf[c] = resp[c].announced - resp[c].delivered
    BY <1>1, <2>2 DEF PhaseOf, Phase, LeftOf
  <2>5. Delivers(c, LeftOf[c])
    BY <1>1, <2>3, <2>4, ShownDelivers
  <2> QED
    BY <2>4, <2>5, DeliversRefines
<1> QED
  BY <1>2, <1>3, <1>4, <1>5, <1>6, <1>7 DEF handle_out

LEMMA InRefines ==
    ASSUME ServerInv, NEW c \in Conn, handle_in(c)
    PROVE  UNCHANGED Seen \/ Exchange!Ask(c)
<1>0. io \in [Conn -> Io] /\ resp \in [Conn -> Resp] /\ io[c].mask = "in"
  BY DEF ServerInv, TypeOK, handle_in
<1>1. CASE inbox[c] = <<>>
  BY <1>1 DEF handle_in, Seen, PhaseOf, LeftOf, SpoiledOf, Phase
<1>2. CASE inbox[c] # <<>>
  <2>1. /\ io' = [io EXCEPT ![c].mask = "out", ![c].req = Received(inbox[c])]
        /\ resp' = [resp EXCEPT ![c] = NoResp]
    BY <1>2 DEF handle_in
  <2>2. io'[c].mask = "out" /\ \A d \in Conn \ {c} : io'[d] = io[d]
    BY <1>0, <2>1 DEF Io
  <2>3. resp'[c] = NoResp /\ \A d \in Conn \ {c} : resp'[d] = resp[d]
    BY <1>0, <2>1
  <2>4. PhaseOf[c] = "idle"
    BY <1>0 DEF PhaseOf, Phase
  <2>8. /\ ~ resp'[c].begun /\ resp'[c].announced = 0 /\ resp'[c].delivered = 0
        /\ resp'[c].spoiled = FALSE
    BY <2>3 DEF NoResp
  <2>5. PhaseOf' = [PhaseOf EXCEPT ![c] = "asked"]
    <3>1. Phase(c)' = "asked" /\ \A d \in Conn \ {c} : Phase(d)' = Phase(d)
      BY <2>2, <2>3, <2>8 DEF Phase
    <3> QED
      BY <3>1 DEF PhaseOf
  <2>6. LeftOf' = [LeftOf EXCEPT ![c] = 0]
    <3>1. \A d \in Conn : resp'[d].announced - resp'[d].delivered =
              IF d = c THEN 0 ELSE resp[d].announced - resp[d].delivered
      BY <2>3, <2>8
    <3> QED
      BY <3>1 DEF LeftOf
  <2>7. SpoiledOf' = [SpoiledOf EXCEPT ![c] = FALSE]
    BY <2>3, <2>8 DEF SpoiledOf
  <2> QED
    BY <2>4, <2>5, <2>6, <2>7 DEF Exchange!Ask, PhaseOf, LeftOf, SpoiledOf
<1> QED
  BY <1>1, <1>2

LEMMA AcceptRefines ==
    ASSUME ServerInv, NEW c \in Conn, handle_accept(c)
    PROVE  UNCHANGED Seen
<1>1. io \in [Conn -> Io] /\ io[c].mask = "none" /\ resp' = resp
      /\ io' = [io EXCEPT ![c] = Idle] /\ Idle.mask = "in"
  BY DEF ServerInv, TypeOK, handle_accept, Idle
<1>2. \A d \in Conn : Phase(d)' = Phase(d)
  BY <1>1 DEF Phase
<1> QED
  BY <1>1, <1>2 DEF Seen, PhaseOf, LeftOf, SpoiledOf

LEMMA StepRefines ==
    ASSUME ServerInv, ServerInv', [Next]_vars
    PROVE  Exchange!Next \/ UNCHANGED Seen
<1>1. ASSUME NEW c \in Conn, Client(c) PROVE UNCHANGED Seen
  BY <1>1 DEF Client, Connect, Send, Leave, Seen, PhaseOf, LeftOf, SpoiledOf, Phase
<1>2. ASSUME NEW c \in Conn, Handler(c)
      PROVE  UNCHANGED Seen \/ Exchange!Ask(c) \/ Exchange!Announce(c)
                 \/ Exchange!Continue(c)
  BY <1>2, AcceptRefines, InRefines, OutRefines DEF Handler
<1>3. CASE UNCHANGED vars
  BY <1>3 DEF vars, Seen, PhaseOf, LeftOf, SpoiledOf, Phase
<1> QED
  BY <1>1, <1>2, <1>3 DEF Next, Exchange!Next

\* The event loop implements the exchange, for any number of connections,
\* files, requests and buffer sizes: one response per request, never longer
\* than its Content-Length and shorter only when it is spoiled.
THEOREM ServerImplementsExchange == Spec => ResponsesKeepPromise
<1>1. Init => Exchange!Init
  BY DEF Init, Exchange!Init, Phase, Unregistered, Idle, NoResp
<1>2. ServerInv /\ ServerInv' /\ [Next]_vars => [Exchange!Next]_(Exchange!vars)
  BY StepRefines DEF Exchange!vars, Seen, PhaseOf, LeftOf, SpoiledOf
<1> QED
  BY <1>1, <1>2, ServerInvariant, PTL DEF Spec, ResponsesKeepPromise, Exchange!Spec
=============================================================================
