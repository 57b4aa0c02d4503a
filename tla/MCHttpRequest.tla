---------------------------- MODULE MCHttpRequest ----------------------------
EXTENDS HttpRequest

Plain(w) == Written(w, FALSE, FALSE)
Name(e)  == [name |-> "page", ext |-> e]

D(key, args) == [key |-> Written(key, TRUE, FALSE), args |-> args]
Listens == D("listen", <<8888>>)

Directive ==
    {D("listen", <<9000>>), D("listen", <<>>), D("documentroot", <<"www">>),
     D("directoryindex", <<Name("txt")>>), D("directoryindex", <<Name("html"), Name("txt")>>),
     D("contenttype", <<"html", "text/html">>), D("contenttype", <<"txt", "text/plain">>),
     D("contenttype", <<"html", "text/odd">>), D("contenttype", <<"txt">>),
     D("contenttype", <<>>), D("loglevel", <<"2">>)}

TypeLines == {d \in Directive : d.key.word = "contenttype"}

\* Files of up to three directives after Listen; and one without it.
AllConfigs == {<<Listens>>, <<D("documentroot", <<"www">>)>>}
              \cup {<<Listens, a>> : a \in Directive}
              \cup {<<Listens, a, b>> : a, b \in Directive}
              \cup {<<Listens, a, b, c>> : a \in Directive, b, c \in TypeLines}

Line(n, m, u, v) == [words |-> n, method |-> m, uri |-> u, version |-> v]
Text(l, h, b, d) == [line |-> l, headers |-> h, blank |-> b, data |-> d]

Good == Line(3, "POST", Name("html"), "HTTP/1.1")
Lines == {Line(n, m, u, v) : n \in {0, 2, 3, 4}, m \in {"GET", "POST", "HEAD"},
             u \in {Root, Name("html"), Name("txt"), Name(NoWord)},
             v \in {"HTTP/1.0", "HTTP/1.1", "HTTP/0.9"}}

Header(n, v) == [name |-> Written(n, TRUE, TRUE), value |-> Written(v, TRUE, TRUE)]
Headers == {Header("connection", "keep-alive"), Header("connection", "close"),
            Header("host", "h")}

LineTexts == {Text(l, <<>>, TRUE, <<>>) : l \in Lines}
BodyTexts == {Text(Good, h, b, d) :
                 h \in SeqOf(Headers, 2), b \in BOOLEAN, d \in SeqOf({"a", "\n"}, 3)}
RequestTexts == LineTexts \cup BodyTexts
=============================================================================
