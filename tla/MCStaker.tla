------------------------------ MODULE MCStaker -------------------------------
(* Instances of Staker for TLC.                                            *)
EXTENDS Staker, TLC

CONSTANTS me, o1, o2

OthersSymmetry == Permutations(Others)

\* One assertion: nodes differ in who stakes on them, and in whether they are
\* correct.
OneAssertion == {[gasUsed |-> 0, inboxCount |-> 1, sendCount |-> 0]}

\* The others make a node and stake again, against a validator that makes
\* nodes all the time only once.
TwoOfOthers == [s \in Strategies |-> 2]
FewerOfOthers == [s \in Strategies |-> IF s = MakeNodes THEN 1 ELSE 2]
=============================================================================
