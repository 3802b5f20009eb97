--------------------------- MODULE MCChallengeGame ---------------------------
(* The game of a challenger that is right against any opponent, for TLC.   *)
EXTENDS ChallengeGame, MCMachine

\* The execution that waits in t1.
ReachedWaiting == [p \in 0 .. 5 |-> CASE p = 0 -> t0 [] p = 1 -> t1 [] OTHER -> Unreachable]
=============================================================================
