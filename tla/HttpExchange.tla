---------------------------- MODULE HttpExchange ----------------------------
(***************************************************************************)
(* What the web server promises on each connection, whatever it does       *)
(* inside: a request is followed by one response; the response announces a *)
(* length and never carries more; it ends when it has carried all of it,   *)
(* unless it has been spoiled.                                             *)
(***************************************************************************)
EXTENDS Integers

CONSTANTS
    Conn,           \* connections
    Lengths         \* the lengths a response may announce

VARIABLES phase, left, spoiled

vars == <<phase, left, spoiled>>

Init ==
    /\ phase = [c \in Conn |-> "idle"]
    /\ left = [c \in Conn |-> 0]
    /\ spoiled = [c \in Conn |-> FALSE]

Ask(c) ==
    /\ phase[c] = "idle"
    /\ phase' = [phase EXCEPT ![c] = "asked"]
    /\ left' = [left EXCEPT ![c] = 0]
    /\ spoiled' = [spoiled EXCEPT ![c] = FALSE]

\* Some of the owed bytes are handed over, perhaps none; the response may be
\* spoiled on the way, and ends early only if it is.
Deliver(c, owed) ==
    \E k \in 0 .. owed, s \in BOOLEAN, p \in {"answering", "idle"} :
        /\ spoiled[c] => s
        /\ p = "idle" /\ ~ s => k = owed
        /\ phase' = [phase EXCEPT ![c] = p]
        /\ left' = [left EXCEPT ![c] = owed - k]
        /\ spoiled' = [spoiled EXCEPT ![c] = s]

Announce(c) == phase[c] = "asked" /\ \E n \in Lengths : Deliver(c, n)

Continue(c) == phase[c] = "answering" /\ Deliver(c, left[c])

Next == \E c \in Conn : Ask(c) \/ Announce(c) \/ Continue(c)

Spec == Init /\ [][Next]_vars
=============================================================================
