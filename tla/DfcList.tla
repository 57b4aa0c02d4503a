------------------------------- MODULE DfcList -------------------------------
(***************************************************************************)
(* The LIST command of the distributed file store's client: the words of   *)
(* the command line, the directory the packet names, the servers' answers  *)
(* (list_dir) and the list of files main makes of them, in place, in the   *)
(* very array p that holds the words and then the answers.                 *)
(*                                                                         *)
(* A word of p is a plain one, or the name of a piece file, ".name.part".  *)
(***************************************************************************)
EXTENDS Integers, Sequences

CONSTANTS
    NumHosts,       \* conf.nh
    Names,          \* names of files
    Directories,    \* operands that are typed
    Size,           \* BUF_SIZE, the words p has room for
    MaxAnswer       \* bound on the piece files listed

Nothing == "none"
NoPart  == -1

ASSUME ListAssumption ==
    /\ NumHosts \in Nat \ {0} /\ Nothing \notin Names \cup Directories
    /\ MaxAnswer \in Nat /\ Size \in Nat /\ Size >= 3 /\ MaxAnswer <= Size

Index == 1 .. Size
Part  == 0 .. NumHosts - 1

VARIABLES
    pc,             \* "prompt", "asked", "scan" or "printed"
    p,              \* the array of words
    msg,            \* whether msg points at the second word: never cleared
    operand,        \* the operand of the command typed last (observed)
    pkt,            \* the directory the packet names
    answer,         \* the piece files the servers have listed (observed)
    n, i, j,        \* as in main, from 1
    count,          \* the pieces that were seen of each file of the list
    shown           \* what has been printed: names, and whether complete

vars == <<pc, p, msg, operand, pkt, answer, n, i, j, count, shown>>
-----------------------------------------------------------------------------
Plain(w)    == [name |-> w, part |-> NoPart]
Pieces      == [name : Names, part : Part]
Typed       == {"list", "mkdir", "get", "put"} \cup Directories
Word        == Pieces \cup {Plain(w) : w \in Names \cup Typed \cup {Nothing}}

Empty == [k \in Index |-> Plain(Nothing)]

Init ==
    /\ pc = "prompt" /\ p = Empty /\ msg = FALSE
    /\ operand = Nothing /\ pkt = Nothing
    /\ answer = <<>> /\ n = 0 /\ i = 1 /\ j = 0
    /\ count = [k \in Index |-> {}] /\ shown = <<>>
-----------------------------------------------------------------------------
(* The prompt.                                                             *)

KeepsWords(k) == p[k]                               \* slip: p is not cleared
Cleared(k)    == Plain(Nothing)

\* The words of the line, in an array that was cleared.
Line(command, directory) ==
    [k \in Index |->
        IF k = 1 THEN Plain(command)
        ELSE IF k = 2 /\ directory # Nothing THEN Plain(directory) ELSE Cleared(k)]

\* LIST alone goes without an operand; a packet gets what msg points at.
Command ==
    /\ pc \in {"prompt", "printed"}
    /\ \E command \in {"list", "mkdir", "get", "put"}, d \in Directories \cup {Nothing} :
          /\ p' = Line(command, d) /\ operand' = d
          /\ msg' = (msg \/ (command \in {"list", "mkdir"} /\ d # Nothing))
          /\ IF d = Nothing /\ command # "list"
             THEN pc' = "prompt" /\ UNCHANGED pkt
             ELSE /\ pkt' = IF msg' THEN p'[2].name ELSE Nothing
                  /\ pc' = IF command = "list" THEN "asked" ELSE "prompt"
    /\ shown' = <<>> /\ answer' = <<>> /\ n' = 0 /\ i' = 1 /\ j' = 0
    /\ count' = [k \in Index |-> {}]
-----------------------------------------------------------------------------
(* The answers.                                                            *)

\* Each piece is on two servers, and readdir lists in any order.
Answers ==
    {a \in UNION {[1 .. l -> Pieces] : l \in 0 .. MaxAnswer} :
        \A k, l, m \in 1 .. Len(a) : a[k] = a[l] /\ a[l] = a[m] => k = l \/ l = m \/ k = m}

\* The answers in a row, split into the words of p; count and j cleared.
Answered ==
    /\ pc = "asked"
    /\ answer' \in Answers
    /\ n' = Len(answer')
    /\ p' = [k \in Index |-> IF k <= n' THEN answer'[k] ELSE p[k]]
    /\ i' = 1 /\ j' = 0 /\ count' = [k \in Index |-> {}]
    /\ pc' = "scan"
    /\ UNCHANGED <<msg, operand, pkt, shown>>

Bit(part)  == {part}                                \* 1 << pi

Found(name)     == {k \in 1 .. j : p[k] = Plain(name)}

\* parse_partition_name, and the file's place among those found before.
Scan ==
    /\ pc = "scan" /\ i <= n
    /\ LET name == p[i].name
           bit  == Bit(p[i].part)
       IN  IF Found(name) # {}
           THEN /\ count' = [k \in Index |-> IF k \in Found(name) THEN count[k] \cup bit
                                             ELSE count[k]]
                /\ UNCHANGED <<p, j>>
           ELSE /\ p' = [p EXCEPT ![j + 1] = Plain(name)]
                /\ count' = [count EXCEPT ![j + 1] = @ \cup bit]
                /\ j' = j + 1
    /\ i' = i + 1
    /\ UNCHANGED <<pc, msg, operand, pkt, answer, n, shown>>

AnyPieces(pieces) == {0, 1} \subseteq pieces        \* slip: half of the bits
Complete(pieces)  == pieces = {0, 1, 2, 3}          \* count[i] == 15

ShowList ==
    /\ pc = "scan" /\ i > n
    /\ shown' = [k \in 1 .. j |-> [name |-> p[k].name, complete |-> Complete(count[k])]]
    /\ pc' = "printed"
    /\ UNCHANGED <<p, msg, operand, pkt, answer, n, i, j, count>>

Next == Command \/ Answered \/ Scan \/ ShowList

Spec == Init /\ [][Next]_vars
-----------------------------------------------------------------------------
\* The array and its counters stay within their bounds.
TypeOK ==
    /\ pc \in {"prompt", "asked", "scan", "printed"}
    /\ p \in [Index -> Word] /\ msg \in BOOLEAN
    /\ operand \in Directories \cup {Nothing}
    /\ pkt \in Names \cup Typed \cup {Nothing}
    /\ answer \in Seq(Pieces)
    /\ n \in 0 .. MaxAnswer /\ i \in 1 .. MaxAnswer + 1 /\ j \in 0 .. MaxAnswer
    /\ count \in [Index -> SUBSET Part]
    /\ shown \in Seq([name : Names, complete : BOOLEAN])

\* LIST names the directory that was typed and no other, whatever commands
\* came before: msg still points into p when no operand is given.
AsksForOperand == pc \in {"asked", "scan", "printed"} => pkt = operand

\* In the list every file that a server has a piece of stands once; it is
\* complete just when the servers have all its pieces.
Listed(f)     == {k \in 1 .. Len(shown) : shown[k].name = f}
PartsOf(f, m) == {answer[k].part : k \in {l \in 1 .. m : answer[l].name = f}}

ListingRight ==
    pc = "printed" =>
        /\ \A k, l \in 1 .. Len(shown) : shown[k].name = shown[l].name => k = l
        /\ \A f \in Names : Listed(f) # {} <=> PartsOf(f, n) # {}
        /\ \A k \in 1 .. Len(shown) :
               shown[k].complete <=> PartsOf(shown[k].name, n) = Part
-----------------------------------------------------------------------------
(* The inductive invariant behind the theorems of DfcList_proofs.          *)

\* The list never overtakes the scan: the words still to be scanned are the
\* answers, those before j the files seen so far with the pieces seen so far.
InPlace ==
    pc = "scan" =>
        /\ n = Len(answer) /\ j < i /\ i <= n + 1
        /\ \A k \in i .. n : p[k] = answer[k]
        /\ \A k \in 1 .. j : /\ p[k] \in {Plain(f) : f \in Names}
                             /\ count[k] = PartsOf(p[k].name, i - 1)
        /\ \A k, l \in 1 .. j : p[k] = p[l] => k = l
        /\ \A k \in Index : k > j => count[k] = {}
        /\ \A l \in 1 .. i - 1 : \E k \in 1 .. j : p[k].name = answer[l].name
        /\ \A k \in 1 .. j : \E l \in 1 .. i - 1 : p[k].name = answer[l].name

ListInv == TypeOK /\ AsksForOperand /\ InPlace
=============================================================================
