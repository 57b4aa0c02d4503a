----------------------------- MODULE MCDfcServer -----------------------------
EXTENDS DfcServer

CONSTANTS c1, c2

As(w)  == Written(w, FALSE, FALSE)
Caps(w) == Written(w, TRUE, TRUE)

\* Comments, a line cut short, and users named more than once.
MCServerConf ==
    <<Comment, <<"alice", "p">>, <<"bob">>, <<"bob", "q">>, <<"alice", "q">>>>

\* alice with her password, and with that of a later line; bob after other
\* lines for the same keys; and a name without a password.
MCClientConf == [
    right |-> <<<<Caps("server"), "DFS1", <<"h1", 10001>>>>, <<Caps("username"), "alice">>,
                <<Caps("password"), "p">>>>,
    later |-> <<<<As("password"), "q">>, Comment, <<As("username"), "alice">>,
                <<As("other"), "p">>>>,
    twice |-> <<<<As("username"), "alice">>, <<As("password"), "p">>, <<As("password"), "q">>,
                <<As("username"), "bob">>, <<As("password")>>>>,
    cut   |-> <<<<As("username"), "bob">>, <<As("password")>>>>]

MCClient == DOMAIN MCClientConf
=============================================================================
