--------------------------- MODULE MCInboxReader ----------------------------
(***************************************************************************)
(* An instance of InboxReader for TLC.  NoTx is a model value, so that no  *)
(* transaction of the model is it.                                         *)
(***************************************************************************)
EXTENDS InboxReader, TLC
=============================================================================
