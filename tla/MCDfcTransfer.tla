---------------------------- MODULE MCDfcTransfer ----------------------------
EXTENDS DfcTransfer, DfcConfig

\* client.conf: three servers, a line of one that is cut short, a comment.
MCClientConf ==
    <<<<Written("server", TRUE, FALSE), "DFS1", <<"h1", 10001>>>>,
      <<Written("server", TRUE, TRUE), "DFS2", <<"h2">>>>,
      <<Written("server", FALSE, FALSE), "DFS3">>, Comment,
      <<Written("server", FALSE, TRUE), "DFS4", <<"h4", 10004>>>>>>

MCNumHosts == Len(init_client_config(MCClientConf).hosts)

AllSizes == 0 .. 10
=============================================================================
