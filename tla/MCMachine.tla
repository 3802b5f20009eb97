------------------------------ MODULE MCMachine ------------------------------
(***************************************************************************)
(* An execution for TLC.  The machine starts in t0 and takes steps of 1,   *)
(* 2, 1 and 1 gas; b1 .. b5 are states it never has.  A state's gas is the *)
(* digit in its name.                                                      *)
(***************************************************************************)
EXTENDS Integers

CONSTANTS t0, t1, t3, t4, t5, b1, b3, b5
States == {t0, t1, t3, t4, t5, b1, b3, b5}
StateGas == [s \in States |-> CASE s = t0 -> 0 [] s \in {t1, b1} -> 1 [] s \in {t3, b3} -> 3
                                [] s = t4 -> 4 [] s \in {t5, b5} -> 5]
MachineStep(s) == CASE s = t0 -> t1 [] s = t1 -> t3 [] s = t3 -> t4 [] s = t4 -> t5
                    [] s = b1 -> b3 [] s = b3 -> b5

\* Every position of the assertion is reached.
EndStates == {t5, b5}
StepTo == [s \in States \ EndStates |-> MachineStep(s)]
Reached == [p \in 0 .. 5 |-> CASE p = 0 -> t0 [] p = 1 -> t1 [] p \in 2 .. 3 -> t3
                               [] p = 4 -> t4 [] p = 5 -> t5]

\* The machine waits in t1 for a message that the assertion does not have.
WaitingStates == {t1, t5, b5}
StepToWaiting == [s \in States \ WaitingStates |-> MachineStep(s)]
=============================================================================
