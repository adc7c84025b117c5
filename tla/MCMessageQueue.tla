--------------------------- MODULE MCMessageQueue ---------------------------
EXTENDS MessageQueue
CONSTANTS lo, hi, idle, v1, v2, k1, k2
MCThread == {lo, hi, idle}
MCQueue == {"recv", "send"}
MCInitPrio == lo :> 1 @@ hi :> 0 @@ idle :> 2
=============================================================================
