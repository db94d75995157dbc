---------------------------- MODULE MCBackfill ----------------------------
EXTENDS TxBackfill
=============================================================================
