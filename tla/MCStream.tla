------------------------------ MODULE MCStream ------------------------------
EXTENDS ClusterStream
=============================================================================
