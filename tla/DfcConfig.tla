------------------------------ MODULE DfcConfig ------------------------------
(***************************************************************************)
(* The two configuration files of the distributed file store, dfc/config.c *)
(* and what they decide together: the servers, in the order that places    *)
(* the pieces, and whether a server knows the client (check_user).         *)
(*                                                                         *)
(* A line is the sequence of its words.  Blanks around a line and between  *)
(* words are gone after strip and split; the first word of a client's line *)
(* may be written with capitals and a colon.                               *)
(***************************************************************************)
EXTENDS Integers, Sequences, SequencesExt

Written(w, caps, colon) == [word |-> w, caps |-> caps, colon |-> colon]
lower(w)     == [w EXCEPT !.caps = FALSE]
strip(w)     == [w EXCEPT !.colon = FALSE]
strcmp(w, s) == w = Written(s, FALSE, FALSE)

\* An address is a name and, after a colon, a port; atoi of none is 0.
split_first(a) == [ip |-> a[1], port |-> IF Len(a) > 1 THEN a[2] % 2^16 ELSE 0]

\* A line of comment has no words.
Comment == <<>>

\* A file has so many lines, a line so many words; those of the client begin with
\* a word in this form.
IsFile(lines)  == /\ Len(lines) \in Nat /\ DOMAIN lines = 1 .. Len(lines)
                  /\ \A n \in 1 .. Len(lines) : Len(lines[n]) \in Nat
HasKeys(lines) == \A n \in 1 .. Len(lines) : Len(lines[n]) > 0 =>
                      lines[n][1] = Written(lines[n][1].word, lines[n][1].caps,
                                            lines[n][1].colon)

Empty  == "none"                    \* a field of conf that no line has set
NoConf == [username |-> Empty, password |-> Empty, hosts |-> <<>>]

Key(w) == lower(strip(w))

\* The last line that sets a name or a password counts.
ClientLine(conf, words) ==
    IF Len(words) < 2 THEN conf
    ELSE LET key == Key(words[1])
         IN  CASE strcmp(key, "username") -> [conf EXCEPT !.username = words[2]]
               [] strcmp(key, "password") -> [conf EXCEPT !.password = words[2]]
               [] strcmp(key, "server") /\ Len(words) >= 3 ->
                      [conf EXCEPT !.hosts = Append(@, split_first(words[3]))]
               [] OTHER -> conf

init_client_config(lines) == FoldLeft(ClientLine, NoConf, lines)

ServerLine(users, words) ==
    IF Len(words) < 2 THEN users
    ELSE Append(users, [username |-> words[1], password |-> words[2]])

init_server_config(lines) == FoldLeft(ServerLine, <<>>, lines)

\* slip: a wrong password does not end the search
AnyEntry(users, name, password) ==
    IF \E u \in 1 .. Len(users) : users[u] = [username |-> name, password |-> password]
    THEN 1 ELSE -1

\* The first entry of that name decides.
check_user(users, name, password) ==
    LET named == {u \in 1 .. Len(users) : users[u].username = name}
    IN  IF \E u \in named : users[u].password = password /\ \A v \in named : u <= v
        THEN 1 ELSE -1
=============================================================================
