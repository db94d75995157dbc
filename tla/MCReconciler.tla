---------------------------- MODULE MCReconciler ----------------------------
EXTENDS MempoolReconciler, TLC

TxSymmetry == Permutations(TxId)
=============================================================================
