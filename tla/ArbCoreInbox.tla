---------------------------- MODULE ArbCoreInbox -----------------------------
(***************************************************************************)
(* The inbox of ArbCore (arb-avm-cpp/data_storage/src/arbcore.cpp): the    *)
(* delayed messages and the sequencer's batch items of a node, and         *)
(* addMessages, the one transaction that changes them.  When it throws,    *)
(* the core is in error and the node has to be started again.              *)
(*                                                                         *)
(* An accumulator is the sequence of what it commits to, so that a list    *)
(* is the accumulator of its last element.                                 *)
(***************************************************************************)
EXTENDS Naturals, Sequences, SequencesExt, FiniteSetsExt

CONSTANT NoTx                 \* the tx of an item that sequences delayed messages

ASSUME NoTxAssumption == NoTx \notin Nat

VARIABLES
  delayedDb,                  \* the delayed messages
  db                          \* the batch items

\* A batch item: a transaction, or the delayed messages up to the last one of
\* delayedAcc; at is the L1 block of its last message.
Messages == [id : Nat, fork : Nat]
Items == [tx : Nat \cup {NoTx}, delayedAcc : Seq(Messages), at : Nat]
Item(tx, delayedAcc, at) == [tx |-> tx, delayedAcc |-> delayedAcc, at |-> at]

\* totalDelayedMessagesSequencedImpl
TotalDelayedSequenced(items) ==
  LET sequencing == {i \in DOMAIN items : items[i].tx = NoTx}
  IN IF sequencing = {} THEN 0 ELSE Len(items[Max(sequencing)].delayedAcc)

\* How far two lists are the same
Agree(s, t) == Max({n \in 0 .. Min({Len(s), Len(t)}) : SubSeq(s, 1, n) = SubSeq(t, 1, n)})

\* The items that stay: all when the new ones are among them, else the ones
\* before the first that differs.
KeptItems(new) == IF IsPrefix(new, db) THEN db ELSE SubSeq(db, 1, Agree(new, db))

\* The delayed messages from first on become those of acc.  The ones before
\* are the same, and so are the ones that the items have sequenced.
DelayedFit(acc, first, items) ==
  \/ IsPrefix(acc, delayedDb)
  \/ /\ IsPrefix(SubSeq(acc, 1, first - 1), delayedDb)
     /\ Agree(acc, delayedDb) >= TotalDelayedSequenced(items)

NewDelayed(acc) == IF IsPrefix(acc, delayedDb) THEN delayedDb ELSE acc

\* What a new item says of the delayed messages is recomputed from the
\* database.
ItemsFit(delayed, new, kept) ==
  \A i \in Len(kept) + 1 .. Len(new) :
    new[i].tx = NoTx =>
      /\ IsPrefix(new[i].delayedAcc, delayed)
      /\ Len(new[i].delayedAcc) > TotalDelayedSequenced(SubSeq(new, 1, i - 1))

\* addMessages, with the items after prevAcc and the delayed messages of acc
\* from first on: nothing that throws
Acceptable(prevAcc, items, acc, first) ==
  LET new == prevAcc \o items
      kept == IF items = <<>> THEN db ELSE KeptItems(new)
  IN /\ items # <<>> => IsPrefix(prevAcc, db)
     /\ Len(acc) >= first => DelayedFit(acc, first, kept)
     /\ items # <<>> => ItemsFit(NewDelayed(acc), new, kept)

AddMessages(prevAcc, items, acc) ==
  LET new == prevAcc \o items
      kept == KeptItems(new)
  IN /\ db' = IF items = <<>> THEN db ELSE kept \o SubSeq(new, Len(kept) + 1, Len(new))
     /\ delayedDb' = NewDelayed(acc)
=============================================================================
