---------------------------- MODULE MCHttpServer ----------------------------
(* Values of the constants of HttpServer for TLC. *)
EXTENDS HttpServer, TLC

MCRequest(m, f, h, p, e) ==
    [method |-> m, file |-> f, html |-> h, post |-> p, error_code |-> e]

GetPage  == MCRequest(GET, "page", TRUE, 0, 0)
PostPage == MCRequest(POST, "page", TRUE, 1, 0)

MCFile     == {"page"}
MCFileSize == ("page" :> 3)

SomeRequests == {GetPage, PostPage}
=============================================================================
