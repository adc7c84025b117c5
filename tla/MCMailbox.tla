------------------------------ MODULE MCMailbox ------------------------------
EXTENDS Mailbox
CONSTANTS lo, hi, idle, v1, v2
MCThread == {lo, hi, idle}
MCQueue == {"recv", "send"}
MCInitPrio == lo :> 1 @@ hi :> 0 @@ idle :> 2
=============================================================================
