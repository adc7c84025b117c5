------------------------------- MODULE MCEvent -------------------------------
EXTENDS Event
CONSTANTS lo, hi, idle, b1, b2
MCThread == {lo, hi, idle}
MCQueue == {"susp"}
MCInitPrio == lo :> 1 @@ hi :> 0 @@ idle :> 2
=============================================================================
