----------------------------- MODULE Operations -----------------------------
(***************************************************************************)
(* What runs beside the flow of the data: the node's health, the life of   *)
(* the process, the observer's watchers with their connections and the     *)
(* websocket of a browser.  The four have no state in common, so a         *)
(* behaviour follows one of them, with the others as they start: what one  *)
(* does is independent of the rest.                                        *)
(***************************************************************************)
EXTENDS NodeHealth, Lifecycle, Observer, WsConnection

VARIABLE part   \* the part that a behaviour follows

vars == <<part, healthVars, lifecycleVars, observerVars, wsVars>>

OperationsInit ==
    /\ part \in {"health", "lifecycle", "observer", "websocket"}
    /\ HealthInit /\ LifecycleInit /\ ObserverInit /\ WsInit
    /\ part # "health" => node = [up |-> FALSE, sync |-> "ibd",
                                  version |-> CHOOSE v \in Version : TRUE]
    /\ part # "lifecycle" => missing = 0
    /\ part # "observer" => ~alive /\ diagram = NoPoints

OfHealth(step) ==
    part = "health" /\ step /\ UNCHANGED <<part, lifecycleVars, observerVars, wsVars>>
OfLifecycle(step) ==
    part = "lifecycle" /\ step /\ UNCHANGED <<part, healthVars, observerVars, wsVars>>
OfObserver(step) ==
    part = "observer" /\ step /\ UNCHANGED <<part, healthVars, lifecycleVars, wsVars>>
OfWebsocket(step) ==
    part = "websocket" /\ step /\ UNCHANGED <<part, healthVars, lifecycleVars, observerVars>>

OperationsNext ==
    \/ OfHealth(HealthNext) \/ OfLifecycle(LifecycleNext)
    \/ OfObserver(ObserverNext) \/ OfWebsocket(WsNext)

OperationsSpec == OperationsInit /\ [][OperationsNext]_vars

\* The tasks are scheduled, timeouts fire, and a call returns or fails.  The
\* browser reads its socket, opens another when it breaks, and runs the effects of
\* a render.  Nothing is assumed of blocks and of the tasks that shutdown waits
\* for.  A behaviour has one part, so a condition can speak of a step of each.
FairOperations ==
    /\ OperationsSpec
    /\ WF_vars(\/ OfHealth(Starting) \/ OfLifecycle(Shutdown)
               \/ OfObserver(Reconnects) \/ OfWebsocket(BrowserSteps))
    /\ WF_vars(OfHealth(Polling) \/ OfObserver(Polls) \/ OfWebsocket(LoopSends))
    /\ WF_vars(OfHealth(HealthJob) \/ OfWebsocket(handle_client_frame))
    /\ WF_vars(OfHealth(ConsumeStatus))

\* Every variable has its type, the phases go together, and what is queued for a
\* browser keeps within its bound (the four modules' own invariants).
OperationsTypeOK == HealthTypeOK /\ LifecycleTypeOK /\ ObserverTypeOK /\ WsTypeOK
=============================================================================
