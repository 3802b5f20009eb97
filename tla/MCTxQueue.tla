------------------------------ MODULE MCTxQueue ------------------------------
(* Small instances of TxQueue. *)
EXTENDS TxQueue

CONSTANTS c1, c2, c3, c4

\* Two calls send the same transaction, without data, which may fail; the data
\* of the others fill a batch each.
MCCalls == {c1, c2, c3, c4}
MCTxHash == c1 :> "a" @@ c2 :> "b" @@ c3 :> "c" @@ c4 :> "c"
MCTxSize == c1 :> 2 @@ c2 :> 2 @@ c3 :> 0 @@ c4 :> 0

\* The instance of the stuck holder: the transactions with data may fail too.
ThreeCalls == {c1, c2, c3}
ThreeTxHash == c1 :> "a" @@ c2 :> "b" @@ c3 :> "c"
ThreeTxSize == c1 :> 2 @@ c2 :> 2 @@ c3 :> 0
=============================================================================
