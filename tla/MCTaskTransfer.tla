--------------------------- MODULE MCTaskTransfer ---------------------------
EXTENDS TaskTransfer
=============================================================================
