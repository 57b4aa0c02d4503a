------------------------------- MODULE MCProxy -------------------------------
EXTENDS Proxy

CONSTANTS h1, h2

Good(h)  == [http |-> TRUE, host |-> h, port |-> 0]
AllUris  == {Good(h1), [Good(h2) EXCEPT !.port = 8080], Good(NoHost),
             [Good(h1) EXCEPT !.http = FALSE]}
=============================================================================
