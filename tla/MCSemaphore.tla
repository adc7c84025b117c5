----------------------------- MODULE MCSemaphore -----------------------------
EXTENDS Semaphore
CONSTANTS lo, mid, hi, idle
MCThread == {lo, mid, hi, idle}
MCQueue == {"susp"}
MCInitPrio == lo :> 2 @@ mid :> 1 @@ hi :> 0 @@ idle :> 3
=============================================================================
