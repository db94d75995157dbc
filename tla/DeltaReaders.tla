---------------------------- MODULE DeltaReaders ----------------------------
(***************************************************************************)
(* The two readers of what the reconciler flushes: the subscriber to       *)
(* mempool.delta, which gets each batch's net effect, and the samplers,    *)
(* which count the rows.  Each has its own model of the writer, with what  *)
(* it can tell apart (the journal's contents; the time), so a behaviour    *)
(* follows one of them with the other as it starts.                        *)
(***************************************************************************)
EXTENDS MempoolStream, Samples

VARIABLE reader   \* the reader that a behaviour follows

readersVars == <<reader, vars, samplesVars>>

ReadersInit ==
    /\ reader \in {"subscriber", "samplers"}
    /\ MempoolStreamInit /\ SamplesInit

ReadersNext ==
    \/ reader = "subscriber" /\ MempoolStreamNext /\ UNCHANGED <<reader, samplesVars>>
    \/ reader = "samplers" /\ SamplesNext /\ UNCHANGED <<reader, vars>>

ReadersSpec == ReadersInit /\ [][ReadersNext]_readersVars
=============================================================================
