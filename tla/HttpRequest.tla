----------------------------- MODULE HttpRequest -----------------------------
(***************************************************************************)
(* What the web server makes of its configuration file (http_server/       *)
(* config.c) and of the text of each request (http.c): one action for each *)
(* line of the file, and one for each loop of parse_http_req's iterations. *)
(*                                                                         *)
(* Names, types and values are abstract words.  A word in a line may be    *)
(* written with capitals or with blanks around it; lower and strip undo    *)
(* that, and strcmp tells the difference.                                  *)
(***************************************************************************)
EXTENDS Integers, Sequences, SequencesExt

CONSTANTS
    Configs,        \* configuration files: sequences of directives
    Texts           \* requests as they arrive

GET  == 1
POST == 2

ERR_BAD_REQUEST     == 1
ERR_NOT_FOUND       == 2
ERR_NOT_IMPLEMENTED == 4

NoWord == "none"
Html   == [name |-> "index", ext |-> "html"]
Root   == [name |-> "/", ext |-> NoWord]

\* split leaves no blanks around a key and no empty words, so neither an extension
\* nor a type is NoWord; a header has a name and a value.
IsSequence(s) == s \in Seq(ToSet(s))
IsWord(w)     == w = [word |-> w.word, caps |-> w.caps, blanks |-> w.blanks]

ASSUME RequestAssumption ==
    /\ \A c \in Configs : IsSequence(c) /\ \A n \in 1 .. Len(c) :
          /\ IsWord(c[n].key) /\ c[n].key.blanks = FALSE /\ IsSequence(c[n].args)
          /\ c[n].key.word = "contenttype" => NoWord \notin ToSet(c[n].args)
    /\ \A t \in Texts :
          /\ t.line.words \in Nat /\ IsSequence(t.headers) /\ IsSequence(t.data)
          /\ \A n \in 1 .. Len(t.headers) :
                 IsWord(t.headers[n].name) /\ IsWord(t.headers[n].value)

VARIABLES
    directives,     \* lines of the configuration file still to be read
    config,         \* the whole file (observed)
    conf,           \* config_t
    k,              \* init_config's count of content types
    stage,          \* where the program is
    text,           \* the request at hand
    left,           \* its lines still to be looked at
    req,            \* http_req_t
    resp            \* http_resp_header_t

parserVars == <<directives, config, conf, k, stage, text, left, req, resp>>
-----------------------------------------------------------------------------
(* Words and lines.                                                        *)

Written(w, caps, blanks) == [word |-> w, caps |-> caps, blanks |-> blanks]
lower(w)     == [w EXCEPT !.caps = FALSE]
strip(w)     == [w EXCEPT !.blanks = FALSE]
strcmp(w, s) == w = Written(s, FALSE, FALSE)

\* Text is a sequence of words and "\n"; the lines of a text, at least one.
NextWord(ls, w) == IF w = "\n" THEN Append(ls, <<>>)
                   ELSE [ls EXCEPT ![Len(ls)] = Append(@, w)]
split(t)        == FoldLeft(NextWord, << <<>> >>, t)

split_first(h) == <<h.name, h.value>>
-----------------------------------------------------------------------------
NoReq  == [method |-> 0, version |-> 0, keep_alive |-> FALSE, error_code |-> 0,
           uri |-> Root, content_type |-> NoWord, post_data |-> <<>>]
NoResp == [version |-> 0, status_code |-> 0, keep_alive |-> FALSE,
           content_type |-> NoWord]

NoText == [line |-> [words |-> 0, method |-> NoWord, uri |-> Root, version |-> NoWord],
           headers |-> <<>>, blank |-> FALSE, data |-> <<>>]

ParserInit ==
    /\ config \in Configs /\ directives = config
    /\ conf = [port |-> 80, root |-> ".", index |-> Html,
               file_extensions |-> <<"html">>, content_types |-> <<"text/html">>,
               count_content_types |-> 0]
    /\ k = 0 /\ stage = "config"
    /\ text = NoText /\ left = <<>> /\ req = NoReq /\ resp = NoResp
-----------------------------------------------------------------------------
(* init_config.                                                            *)

\* Slot j, counted from 0, of an array that grows as it is written.
Put(a, j, x) == IF j < Len(a) THEN [a EXCEPT ![j + 1] = x] ELSE Append(a, x)

Completes(d)   == Len(d.args) > 1

\* An extension without a type stays in a slot that the next one overwrites.
ContentType(d) ==
    IF d.args = <<>> THEN UNCHANGED <<conf, k>>
    ELSE /\ conf' = [conf EXCEPT
                !.file_extensions = Put(@, k, d.args[1]),
                !.content_types   = IF Len(d.args) > 1 THEN Put(@, k, d.args[2]) ELSE @]
         /\ k' = IF Completes(d) THEN k + 1 ELSE k

\* A setting takes the first word that is not empty, if there is one.
Set(d, field) ==
    /\ conf' = IF d.args = <<>> THEN conf ELSE
               CASE field = "port"  -> [conf EXCEPT !.port = d.args[1] % 2^16]
                 [] field = "root"  -> [conf EXCEPT !.root = d.args[1]]
                 [] field = "index" -> [conf EXCEPT !.index = d.args[1]]
    /\ UNCHANGED k

ReadDirective ==
    /\ stage = "config" /\ directives # <<>>
    /\ LET d == Head(directives)
           key == lower(d.key)
       IN  \/ strcmp(key, "listen") /\ Set(d, "port")
           \/ strcmp(key, "documentroot") /\ Set(d, "root")
           \/ strcmp(key, "directoryindex") /\ Set(d, "index")
           \/ strcmp(key, "contenttype") /\ ContentType(d)
           \/ /\ \A s \in {"listen", "documentroot", "directoryindex", "contenttype"} :
                     ~ strcmp(key, s)
              /\ UNCHANGED <<conf, k>>
    /\ directives' = Tail(directives)
    /\ UNCHANGED <<config, stage, text, left, req, resp>>

\* The default type is not counted; the default port is not accepted.
ConfigRead ==
    /\ stage = "config" /\ directives = <<>>
    /\ conf' = [conf EXCEPT !.count_content_types = k]
    /\ stage' = IF conf.port < 1024 THEN "exit" ELSE "ready"
    /\ UNCHANGED <<directives, config, k, text, left, req, resp>>
-----------------------------------------------------------------------------
(* parse_http_req.                                                         *)

LastSlot(c, ext) == {j \in 1 .. c.count_content_types :
                        /\ c.file_extensions[j] = ext
                        /\ \A i \in j + 1 .. c.count_content_types :
                               c.file_extensions[i] # ext}  \* slip: no return
FirstSlot(c, ext) == {j \in 1 .. c.count_content_types :
                        /\ c.file_extensions[j] = ext
                        /\ \A i \in 1 .. j - 1 : c.file_extensions[i] # ext}

get_content_type(c, uri) ==
    IF uri.ext = NoWord \/ FirstSlot(c, uri.ext) = {} THEN NoWord
    ELSE c.content_types[CHOOSE j \in FirstSlot(c, uri.ext) : TRUE]

Method(w)  == CASE w = "GET" -> GET [] w = "POST" -> POST [] OTHER -> 0
Version(w) == CASE w = "HTTP/1.1" -> 11 [] w = "HTTP/1.0" -> 10 [] OTHER -> 0
Target(w)  == IF w = Root THEN conf.index ELSE w

NoTypeCheck(l, type) ==                             \* slip: type not tested
    IF Version(l.version) = 0 THEN ERR_BAD_REQUEST
    ELSE IF Method(l.method) = 0 THEN ERR_NOT_IMPLEMENTED ELSE 0
\* In the order of the code, the last error found is the one that stays.
ErrorCode(l, type) ==
    IF Version(l.version) = 0 THEN ERR_BAD_REQUEST
    ELSE IF Method(l.method) = 0 \/ type = NoWord THEN ERR_NOT_IMPLEMENTED ELSE 0

RequestLine ==
    /\ stage = "ready"
    /\ \E t \in Texts :
          /\ text' = t
          /\ LET type == get_content_type(conf, Target(t.line.uri))
             IN  IF t.line.words < 3
                 THEN /\ req' = [NoReq EXCEPT !.error_code = ERR_BAD_REQUEST]
                      /\ stage' = "parsed" /\ left' = <<>>
                 ELSE /\ req' = [NoReq EXCEPT
                            !.method = Method(t.line.method),
                            !.uri = Target(t.line.uri), !.content_type = type,
                            !.version = Version(t.line.version),
                            !.error_code = ErrorCode(t.line, type)]
                      /\ stage' = "headers" /\ left' = t.headers
    /\ UNCHANGED <<directives, config, conf, k, resp>>

HeaderLine ==
    /\ stage = "headers" /\ left # <<>>
    /\ LET p == split_first([name  |-> lower(Head(left).name),
                             value |-> lower(Head(left).value)])
       IN  req' = IF strcmp(strip(p[1]), "connection")
                  THEN [req EXCEPT !.keep_alive = strcmp(strip(p[2]), "keep-alive")]
                  ELSE req
    /\ left' = Tail(left)
    /\ UNCHANGED <<directives, config, conf, k, stage, text, resp>>

\* The empty line, or the end of a text without one.
HeadersEnd ==
    /\ stage = "headers" /\ left = <<>>
    /\ IF text.blank THEN stage' = "data" /\ left' = split(text.data)
                     ELSE stage' = "parsed" /\ left' = <<>>
    /\ UNCHANGED <<directives, config, conf, k, text, req, resp>>

EndlAlways(rest) == <<"\n">>                        \* slip: i != n - 1 forgotten
Endl(rest)       == IF rest # <<>> THEN <<"\n">> ELSE <<>>

DataLine ==
    /\ stage = "data" /\ left # <<>>
    /\ req' = [req EXCEPT !.post_data = @ \o Head(left) \o Endl(Tail(left))]
    /\ left' = Tail(left)
    /\ stage' = IF Tail(left) = <<>> THEN "parsed" ELSE "data"
    /\ UNCHANGED <<directives, config, conf, k, text, resp>>
-----------------------------------------------------------------------------
(* The header of the response; found says whether open succeeded.          *)

err_status_code == [e \in 0 .. 4 |-> <<200, 400, 404, 500, 501>>[e + 1]]

Respond ==
    /\ stage = "parsed"
    /\ \E found \in BOOLEAN :
          LET e == IF req.error_code = 0 /\ ~ found THEN ERR_NOT_FOUND
                   ELSE req.error_code
          IN  /\ req' = [req EXCEPT !.error_code = e]
              /\ resp' = [version |-> req.version, keep_alive |-> req.keep_alive,
                          status_code |-> err_status_code[e],
                          content_type |-> IF e = 0 THEN req.content_type
                                           ELSE "text/html"]
    /\ stage' = "answered"
    /\ UNCHANGED <<directives, config, conf, k, text, left>>

\* reset_epoll frees the request; the connection waits for the next one.
Reset ==
    /\ stage = "answered" /\ stage' = "ready"
    /\ text' = NoText /\ req' = NoReq /\ resp' = NoResp
    /\ UNCHANGED <<directives, config, conf, k, left>>

ParserNext ==
    \/ ReadDirective \/ ConfigRead
    \/ RequestLine \/ HeaderLine \/ HeadersEnd \/ DataLine \/ Respond \/ Reset

ParserSpec == ParserInit /\ [][ParserNext]_parserVars
-----------------------------------------------------------------------------
\* The directives of the file with this key that say something.
Said(key) == {n \in 1 .. Len(config) : config[n].key.word = key /\ config[n].args # <<>>}
Typed     == {n \in Said("contenttype") : Len(config[n].args) > 1}

LastSaid(key) == config[Max(Said(key))].args[1]
Extension(n)  == config[n].args[1]

\* Once the file is read, and whatever requests follow, each setting is that
\* of its last directive, and an extension has the type of the first complete
\* ContentType line that names it: an incomplete line disturbs no other.
ConfigHonoured ==
    stage \notin {"config", "exit"} =>
        /\ Said("listen") # {} /\ conf.port = LastSaid("listen") % 2^16
        /\ Said("documentroot") # {} => conf.root = LastSaid("documentroot")
        /\ Said("directoryindex") # {} => conf.index = LastSaid("directoryindex")
        /\ \A n \in Typed :
               get_content_type(conf, [name |-> "x", ext |-> Extension(n)]) =
                   config[Min({m \in Typed : Extension(m) = Extension(n)})].args[2]

Connections(t) == {n \in 1 .. Len(t.headers) : t.headers[n].name.word = "connection"}

\* When the lines have been taken apart and put together again, the data is
\* that of the client, byte for byte, and the last Connection header counts.
RequestUnderstood ==
    stage = "parsed" /\ text.line.words >= 3 =>
        /\ req.post_data = IF text.blank THEN text.data ELSE <<>>
        /\ req.keep_alive =
               (/\ Connections(text) # {}
                /\ text.headers[Max(Connections(text))].value.word = "keep-alive")

Served(uri) == \E n \in Typed : Extension(n) = uri.ext

Defects(t) ==
    IF t.line.words < 3 THEN {"format"}
    ELSE (IF t.line.method \in {"GET", "POST"} THEN {} ELSE {"method"})
         \cup (IF Served(Target(t.line.uri)) THEN {} ELSE {"type"})
         \cup (IF t.line.version \in {"HTTP/1.0", "HTTP/1.1"} THEN {} ELSE {"version"})

\* README.txt:46-49: a request without defect is served, or its file is
\* missing; one with a wrong format is answered 400, one of an unsupported
\* method or file type 501 (unless its version is unsupported too).
DefectsRefused ==
    stage = "answered" =>
        /\ (resp.status_code \in {200, 404}) = (Defects(text) = {})
        /\ Defects(text) = {"format"} => resp.status_code = 400
        /\ Defects(text) # {} /\ Defects(text) \subseteq {"method", "type"} =>
               resp.status_code = 501
=============================================================================
