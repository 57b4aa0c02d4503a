---------------------------- MODULE MCDfcSession ----------------------------
(* Constants of the session's small instances.                             *)
EXTENDS DfcSession

MCHosts == 0 .. NumHosts - 1
=============================================================================
