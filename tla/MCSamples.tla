----------------------------- MODULE MCSamples -----------------------------
EXTENDS Samples
=============================================================================
