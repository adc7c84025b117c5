---------------------------- MODULE MCWorkQueue ----------------------------
EXTENDS WorkQueue
CONSTANTS w1, w2, c1, c2
MCWorks == {w1, w2}
MCClients == {c1, c2}
\* no item lies on an address that is a multiple of 64 KiB
MCLowCleared == [w \in MCWorks |-> Stray]
=============================================================================
