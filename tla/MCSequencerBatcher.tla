------------------------- MODULE MCSequencerBatcher -------------------------
(* A small instance of SequencerBatcher. *)
EXTENDS SequencerBatcher

MCMaxDelay == [blocks |-> 2, seconds |-> 2]
=============================================================================
