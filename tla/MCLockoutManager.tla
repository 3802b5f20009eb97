------------------------- MODULE MCLockoutManager --------------------------
EXTENDS LockoutManager, TLC

CONSTANTS A, B
PrioritiesAB == <<A, B>>
=============================================================================
