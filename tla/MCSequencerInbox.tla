-------------------------- MODULE MCSequencerInbox --------------------------
(* Instances of SequencerInbox for TLC.                                    *)
EXTENDS SequencerInbox

\* A window that ends with the block it began in, and one of a block more.
ShortDelays == {[blocks |-> 0, seconds |-> 1], [blocks |-> 1, seconds |-> 1]}
=============================================================================
