----------------------------- MODULE MCEventBus -----------------------------
(* Three publishing requests over two topics and a channel of one, so that  *)
(* the channel is full, drops and is closed with events still in it.        *)
EXTENDS EventBus, TLC

CONSTANTS r1, r2, r3, iam, tenant

MCRequests == {r1, r2, r3}
MCTopics == {iam, tenant}
MCTopicOf == (r1 :> iam) @@ (r2 :> tenant) @@ (r3 :> tenant)
MCHandlers == (iam :> 2) @@ (tenant :> 1)
=============================================================================
