---------------------------- MODULE MCUdpSession ----------------------------
EXTENDS UdpSession

CONSTANTS c1, c2, f1, f2
=============================================================================
