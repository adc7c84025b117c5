------------------------------- MODULE MCMutex -------------------------------
EXTENDS Mutex
CONSTANTS lo, mid, hi, top, idle, m1, m2
MCThread == {lo, mid, hi, idle}
MCThread4 == {lo, mid, hi, top, idle}
MCMutexes == {m1, m2}
MCMutex1 == {m1}
MCOrder == {<<m1, m2>>}
MCCycle == {<<m1, m2>>, <<m2, m1>>}
MCInitPrio == lo :> 2 @@ mid :> 1 @@ hi :> 0 @@ idle :> 3
MCInitPrio4 == lo :> 3 @@ mid :> 2 @@ hi :> 1 @@ top :> 0 @@ idle :> 4
=============================================================================
