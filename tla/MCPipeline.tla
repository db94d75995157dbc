----------------------------- MODULE MCPipeline -----------------------------
EXTENDS MempoolPipeline, TLC

TxSymmetry == Permutations(TxId)
=============================================================================
