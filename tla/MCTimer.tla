------------------------------ MODULE MCTimer ------------------------------
EXTENDS Timer, TLC
CONSTANTS h1, s1, s2
MCTimers == {h1, s1, s2}
MCSoft == {s1, s2}
MCSymmetry == Permutations(MCSoft)
=============================================================================
