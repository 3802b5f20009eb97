------------------------------ MODULE MCRollup ------------------------------
(***************************************************************************)
(* Instances of Rollup for TLC.                                            *)
(***************************************************************************)
EXTENDS Rollup, TLC

ValidatorSymmetry == Permutations(Validators)

\* One assertion, which uses gas: behaviours differ in who stakes where and when.
OneAssertion == {[gasUsed |-> 1, inboxCount |-> 1, sendCount |-> 1]}
=============================================================================
