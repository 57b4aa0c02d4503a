------------------------------ MODULE MCDfcList ------------------------------
EXTENDS DfcList

TwoFiles == {"a", "b"}
=============================================================================
