--------------------------- MODULE MCLockoutRedis ----------------------------
(* Instances of LockoutRedis for TLC.                                      *)
EXTENDS LockoutRedis
=============================================================================
