----------------------------- MODULE MCReaders -----------------------------
EXTENDS DeltaReaders, TLC

TxSymmetry == Permutations(TxId)
=============================================================================
