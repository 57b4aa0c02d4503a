---------------------------- MODULE DfcPlacement ----------------------------
(***************************************************************************)
(* Which pieces of a file each host stores and which pieces a GET fetches  *)
(* from each host: the arithmetic of dfc/client.c.  The file is split into *)
(* as many pieces as there are hosts, every piece is stored twice, and the *)
(* client decides from its own "available" flags whom to ask for what.     *)
(***************************************************************************)
EXTENDS Integers

CONSTANT NumHosts       \* conf.nh, the number of servers of client.conf

ASSUME NumHostsAssumption == NumHosts \in Nat \ {0}

Host   == 0 .. NumHosts - 1
Part   == 0 .. NumHosts - 1
NoPart == -1            \* parts[0] when only one piece is asked for

-----------------------------------------------------------------------------
\* The two pieces host i stores of a file whose name hashes to h.
FirstPart(i, h)  == (i - h + NumHosts) % NumHosts

SecondPart(i, h) == (i - h + 1 + NumHosts) % NumHosts

Successor(i) == IF i = NumHosts - 1 THEN 0 ELSE i + 1       \* slip: wrong way

Predecessor(i) == IF i = 0 THEN NumHosts - 1 ELSE i - 1

StandsInNever(avail, i)   == FALSE                  \* slip: no flag at all
StandsInNoWrap(avail, i)  == i # 0 /\ ~ avail[Predecessor(i)]   \* slip: flag = 0 at first

\* The loop's "flag" when it reaches host i: the host before it, cyclically,
\* is unavailable, so host i has to stand in for it.
StandsIn(avail, i) == ~ avail[Predecessor(i)]

PutParts(i, h) == <<FirstPart(i, h), SecondPart(i, h)>>

GetParts(avail, i, h) ==
    <<IF StandsIn(avail, i) THEN FirstPart(i, h) ELSE NoPart, SecondPart(i, h)>>

\* The pieces a thread works on; -1 is skipped.
Named(parts) == {parts[1], parts[2]} \ {NoPart}

Stored(i, h)         == Named(PutParts(i, h))
Fetched(avail, i, h) == Named(GetParts(avail, i, h))

\* Every piece has an available host that stores it.
Covered(avail, h) ==
    \A p \in Part : \E i \in Host : avail[i] /\ p \in Stored(i, h)
=============================================================================
