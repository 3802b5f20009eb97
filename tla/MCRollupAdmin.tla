---------------------------- MODULE MCRollupAdmin ----------------------------
(***************************************************************************)
(* Instances of RollupAdmin for TLC.                                       *)
(***************************************************************************)
EXTENDS RollupAdmin, TLC

ValidatorSymmetry == Permutations(Validators)

\* One assertion, without sends
OneAssertion == {[gasUsed |-> 0, inboxCount |-> 1, sendCount |-> 0]}
=============================================================================
