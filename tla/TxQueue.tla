------------------------------ MODULE TxQueue ------------------------------
(***************************************************************************)
(* SequencerBatcher.SendTransaction: the user transactions of the          *)
(* sequencer.  Every RPC call runs it in a goroutine of its own: it puts   *)
(* its transaction in a channel of QueueCap places, takes the message      *)
(* delivery mutex, and the holder of the mutex sequences everybody's       *)
(* transactions, which answers the calls that wait.                        *)
(*                                                                         *)
(* An item of the channel is the call that sent it.  An accumulator        *)
(* commits to everything before it and is modelled by the length of db.    *)
(***************************************************************************)
EXTENDS Integers, Sequences, FiniteSets, SequencesExt

CONSTANTS
  Calls,            \* the calls of SendTransaction
  NoCall,
  TxHash,           \* [Calls -> hashes], two calls may send the same transaction
  TxSize,           \* [Calls -> Nat], len(tx.Data())
  MayFail,          \* the hashes whose execution may fail
  MaxTxDataSize, QueueCap,
  MaxTroubles       \* bound: internal errors, losses of the lockout, cancelled calls

ASSUME TxQueueAssumption ==
  /\ NoCall \notin Calls
  /\ TxSize \in [Calls -> 0 .. MaxTxDataSize]     \* "oversized data"
  /\ MaxTxDataSize \in Nat /\ QueueCap \in Nat \ {0}
  /\ MaxTroubles \in Nat
  /\ DOMAIN TxHash = Calls

VARIABLES
  call,             \* where each call is: "new", "queued", "holding", "returned"
  answers,          \* what has been sent to each call's resultChan
  returned,         \* what each call returned
  txQueue,          \* the channel
  mutex,            \* the holder of MessageDeliveryMutex
  shouldSequence,   \* LockoutManager.ShouldSequence()
  cancelled,        \* the calls whose ctx.Err() is not nil
  step,             \* where the holder is
  taken,            \* queueItem
  batchTxs, seenOwnTx, emptiedQueue,
  results,          \* txResults, by hash: is the transaction to be included
  originalAcc, sequencedBatchItems,
  db,               \* the messages in the node's database
  feed,             \* what was broadcast, [prevAcc, items]
  faults, losses    \* how often each happened

holderVars == <<taken, batchTxs, seenOwnTx, emptiedQueue, results, originalAcc,
                sequencedBatchItems>>
envVars == <<shouldSequence, cancelled, losses>>
vars == <<call, answers, returned, txQueue, mutex, step, holderVars, envVars, db,
          feed, faults>>

Init ==
  /\ call = [c \in Calls |-> "new"]
  /\ answers = [c \in Calls |-> <<>>]
  /\ returned = [c \in Calls |-> "none"]
  /\ txQueue = <<>> /\ mutex = NoCall
  /\ shouldSequence = TRUE /\ cancelled = {} /\ losses = 0
  /\ step = "idle" /\ taken = NoCall
  /\ batchTxs = <<>> /\ seenOwnTx = FALSE /\ emptiedQueue = TRUE
  /\ results = <<>> /\ originalAcc = 0 /\ sequencedBatchItems = <<>>
  /\ db = <<>> /\ feed = <<>>
  /\ faults = 0

(***************************************************************************)
(* Messages, and what their execution does.  A transaction that has been   *)
(* executed does not execute again.  The results are looked up by hash, so *)
(* a hash that stands twice in a message has the result of the second.     *)
(***************************************************************************)
EndOfBlock == [kind |-> "endOfBlock"]
Txs(outcomes) == [kind |-> "txs", txs |-> outcomes]
Outcome(h, ok) == [hash |-> h, included |-> ok]

Included(msgs) ==
  {o.hash : o \in {p \in UNION {ToSet(msgs[i].txs) :
                                 i \in {j \in DOMAIN msgs : msgs[j].kind = "txs"}} :
                     p.included}}

Hashes(cs) == {TxHash[cs[i]] : i \in DOMAIN cs}
Twice(cs, h) == \E i, j \in DOMAIN cs : i # j /\ TxHash[cs[i]] = h /\ TxHash[cs[j]] = h

\* shouldIncludeTxResult of each transaction, when cs is executed after db
TxResults(cs) ==
  {r \in [Hashes(cs) -> BOOLEAN] :
     \A h \in Hashes(cs) :
       /\ (h \in Included(db) \/ Twice(cs, h)) => ~r[h]
       /\ (h \notin Included(db) /\ ~Twice(cs, h) /\ h \notin MayFail) => r[h]}

Troubles == faults + losses + Cardinality(cancelled)

(***************************************************************************)
(* The calls before and after the mutex.                                   *)
(***************************************************************************)
\* b.txQueue <- item blocks while the channel is full
Enqueue(c) ==
  /\ call[c] = "new"
  /\ Len(txQueue) < QueueCap
  /\ txQueue' = Append(txQueue, c)
  /\ call' = [call EXCEPT ![c] = "queued"]
  /\ UNCHANGED <<answers, returned, mutex, step, holderVars, envVars, db, feed, faults>>

Return(c, value) ==
  /\ call' = [call EXCEPT ![c] = "returned"]
  /\ returned' = [returned EXCEPT ![c] = value]

\* The mutex is free: the call returns if it must not sequence or is answered
\* already, and otherwise begins to gather a batch.
LockWithoutLockout(c) ==
  /\ call[c] = "queued" /\ mutex = NoCall
  /\ ~shouldSequence
  /\ Return(c, "error")
  /\ UNCHANGED <<answers, txQueue, mutex, step, holderVars, envVars, db, feed, faults>>

\* Mutant: the answer left by another thread is not looked at.
LockAnswered_Ignored(c) == FALSE
LockAnswered(c) == answers[c] # <<>>

LockAndReturn(c) ==
  /\ call[c] = "queued" /\ mutex = NoCall
  /\ shouldSequence
  /\ LockAnswered(c)
  /\ Return(c, Head(answers[c]))
  /\ UNCHANGED <<answers, txQueue, mutex, step, holderVars, envVars, db, feed, faults>>

LockAndSequence(c) ==
  /\ call[c] = "queued" /\ mutex = NoCall
  /\ shouldSequence
  /\ ~LockAnswered(c)
  /\ mutex' = c /\ step' = "take"
  /\ call' = [call EXCEPT ![c] = "holding"]
  /\ UNCHANGED <<answers, returned, txQueue, holderVars, envVars, db, feed, faults>>

Unlock ==
  /\ mutex' = NoCall /\ step' = "idle"
  /\ taken' = NoCall /\ batchTxs' = <<>> /\ seenOwnTx' = FALSE /\ emptiedQueue' = TRUE
  /\ results' = <<>> /\ originalAcc' = 0 /\ sequencedBatchItems' = <<>>

(***************************************************************************)
(* Gathering the batch.  Other calls put items into the channel meanwhile. *)
(***************************************************************************)
Answer(c, value) == answers' = [answers EXCEPT ![c] = Append(@, value)]
AnswerAll(cs, value) ==
  answers' = [c \in Calls |->
                answers[c] \o [i \in 1 .. Cardinality({j \in DOMAIN cs : cs[j] = c}) |-> value]]

BatchDataSize == FoldLeft(LAMBDA n, c : n + TxSize[c], 0, batchTxs)

TakeItem ==
  /\ step = "take"
  /\ txQueue # <<>>
  /\ taken' = Head(txQueue) /\ txQueue' = Tail(txQueue)
  /\ step' = "place"
  /\ UNCHANGED <<call, answers, returned, mutex, batchTxs, seenOwnTx, emptiedQueue,
                 results, originalAcc, sequencedBatchItems, envVars, db, feed, faults>>

\* The item of a caller who has gone is answered and dropped.
PlaceCancelled ==
  /\ step = "place"
  /\ taken \in cancelled
  /\ Answer(taken, "error")
  /\ seenOwnTx' = (seenOwnTx \/ taken = mutex)
  /\ taken' = NoCall /\ step' = "take"
  /\ UNCHANGED <<call, returned, txQueue, mutex, batchTxs, emptiedQueue, results,
                 originalAcc, sequencedBatchItems, envVars, db, feed, faults>>

Fits(c) == BatchDataSize + TxSize[c] <= MaxTxDataSize

\* An item that does not fit ends the batch; it goes back into the channel, or
\* is refused if the channel has filled up meanwhile.
PlaceBack ==
  /\ step = "place"
  /\ taken \notin cancelled
  /\ ~Fits(taken)
  /\ \/ /\ Len(txQueue) < QueueCap
        /\ txQueue' = Append(txQueue, taken)
        /\ UNCHANGED <<answers, seenOwnTx>>
     \/ /\ Len(txQueue) = QueueCap
        /\ Answer(taken, "error")      \* "sequencer overloaded"
        /\ seenOwnTx' = (seenOwnTx \/ taken = mutex)
        /\ UNCHANGED txQueue
  /\ emptiedQueue' = FALSE
  /\ taken' = NoCall /\ step' = "gathered"
  /\ UNCHANGED <<call, returned, mutex, batchTxs, results, originalAcc,
                 sequencedBatchItems, envVars, db, feed, faults>>

\* The item joins the batch, unless its transaction is in it already.
PlaceInBatch ==
  /\ step = "place"
  /\ taken \notin cancelled
  /\ Fits(taken)
  /\ IF TxHash[taken] \in Hashes(batchTxs)
     THEN Answer(taken, "error") /\ UNCHANGED batchTxs
     ELSE batchTxs' = Append(batchTxs, taken) /\ UNCHANGED answers
  /\ seenOwnTx' = (seenOwnTx \/ taken = mutex)
  /\ taken' = NoCall /\ step' = "take"
  /\ UNCHANGED <<call, returned, txQueue, mutex, emptiedQueue, results, originalAcc,
                 sequencedBatchItems, envVars, db, feed, faults>>

QueueDrained ==
  /\ step = "take"
  /\ txQueue = <<>>
  /\ step' = "gathered"
  /\ UNCHANGED <<call, answers, returned, txQueue, mutex, holderVars, envVars, db, feed,
                 faults>>

\* The holder's transaction is not in the channel any more: another thread took
\* it and failed.  Mutant: it is left to that thread.
RetriesOwnTx_Never == FALSE
RetriesOwnTx == ~seenOwnTx /\ emptiedQueue /\ Fits(mutex)

BeginBatch ==
  /\ step = "gathered"
  /\ LET cs == IF RetriesOwnTx THEN Append(batchTxs, mutex) ELSE batchTxs
     IN  /\ batchTxs' = cs
         /\ step' = IF cs = <<>> THEN "await" ELSE "deliver"
  /\ seenOwnTx' = (seenOwnTx \/ RetriesOwnTx)
  /\ originalAcc' = Len(db)
  /\ sequencedBatchItems' = <<>>
  /\ UNCHANGED <<call, answers, returned, txQueue, mutex, taken, emptiedQueue, results,
                 envVars, db, feed, faults>>

(***************************************************************************)
(* Sequencing it: first as one message, and if a transaction of it fails,  *)
(* each by itself.                                                         *)
(***************************************************************************)
DeliverBatch ==
  /\ step = "deliver"
  /\ \E r \in TxResults(batchTxs) :
       /\ results' = r
       /\ db' = Append(db, Txs([i \in DOMAIN batchTxs |->
                                  Outcome(TxHash[batchTxs[i]], r[TxHash[batchTxs[i]]])]))
  /\ step' = "results"
  /\ UNCHANGED <<call, answers, returned, txQueue, mutex, taken, batchTxs, seenOwnTx,
                 emptiedQueue, originalAcc, sequencedBatchItems, envVars, feed, faults>>

Succeeded(c) == results[TxHash[c]]
SuccessCount == Cardinality({i \in DOMAIN batchTxs : Succeeded(batchTxs[i])})

AllSucceeded ==
  /\ step = "results"
  /\ SuccessCount = Len(batchTxs)
  /\ AnswerAll(batchTxs, "ok")
  /\ sequencedBatchItems' = <<Last(db)>>
  /\ step' = "endOfBlock"
  /\ UNCHANGED <<call, returned, txQueue, mutex, taken, batchTxs, seenOwnTx, emptiedQueue,
                 results, originalAcc, envVars, db, feed, faults>>

\* Mutant: the message that failed is not taken out again.
ReorgOut_Kept == db
ReorgOut == Front(db)

SomeFailed ==
  /\ step = "results"
  /\ SuccessCount < Len(batchTxs)
  /\ db' = ReorgOut
  /\ IF SuccessCount = 0
     THEN AnswerAll(batchTxs, "error") /\ step' = "await"
     ELSE UNCHANGED answers /\ step' = "single"
  /\ UNCHANGED <<call, returned, txQueue, mutex, holderVars, envVars, feed, faults>>

\* The rest of batchTxs is processed one by one.
SkipFailed ==
  /\ step = "single" /\ batchTxs # <<>>
  /\ ~Succeeded(Head(batchTxs))
  /\ Answer(Head(batchTxs), "error")
  /\ batchTxs' = Tail(batchTxs)
  /\ UNCHANGED <<call, returned, txQueue, mutex, step, taken, seenOwnTx, emptiedQueue,
                 results, originalAcc, sequencedBatchItems, envVars, db, feed, faults>>

DeliverSingle ==
  /\ step = "single" /\ batchTxs # <<>>
  /\ Succeeded(Head(batchTxs))
  /\ \E r \in TxResults(<<Head(batchTxs)>>) :
       db' = Append(db, Txs(<<Outcome(TxHash[Head(batchTxs)], r[TxHash[Head(batchTxs)]])>>))
  /\ step' = "judge"
  /\ UNCHANGED <<call, answers, returned, txQueue, mutex, holderVars, envVars, feed, faults>>

JudgeSingle ==
  /\ step = "judge"
  /\ IF Last(db).txs[1].included
     THEN /\ Answer(Head(batchTxs), "ok")
          /\ sequencedBatchItems' = Append(sequencedBatchItems, Last(db))
          /\ UNCHANGED db
     ELSE /\ Answer(Head(batchTxs), "error")
          /\ db' = ReorgOut
          /\ UNCHANGED sequencedBatchItems
  /\ batchTxs' = Tail(batchTxs)
  /\ step' = "single"
  /\ UNCHANGED <<call, returned, txQueue, mutex, taken, seenOwnTx, emptiedQueue, results,
                 originalAcc, envVars, feed, faults>>

DeliverEndOfBlock ==
  /\ \/ step = "endOfBlock"
     \/ step = "single" /\ batchTxs = <<>>
  /\ db' = Append(db, EndOfBlock)
  /\ sequencedBatchItems' = Append(sequencedBatchItems, EndOfBlock)
  /\ step' = "broadcast"
  /\ UNCHANGED <<call, answers, returned, txQueue, mutex, taken, batchTxs, seenOwnTx,
                 emptiedQueue, results, originalAcc, envVars, feed, faults>>

\* The next batch is gathered unless the holder's transaction has been seen.
\* Mutant: the accumulator the items follow is read after they were delivered.
BroadcastAcc_Late == Len(db)
BroadcastAcc == originalAcc

BroadcastItems ==
  /\ step = "broadcast"
  /\ feed' = Append(feed, [prevAcc |-> BroadcastAcc, items |-> sequencedBatchItems])
  /\ step' = IF seenOwnTx THEN "await" ELSE "take"
  /\ batchTxs' = <<>> /\ emptiedQueue' = TRUE
  /\ UNCHANGED <<call, answers, returned, txQueue, mutex, taken, seenOwnTx, results,
                 originalAcc, sequencedBatchItems, envVars, db, faults>>

\* return <-startResultChan: blocks, with the mutex, until there is an answer
Await ==
  /\ step = "await"
  /\ answers[mutex] # <<>>
  /\ Return(mutex, Head(answers[mutex]))
  /\ Unlock
  /\ UNCHANGED <<answers, txQueue, envVars, db, feed, faults>>

\* Any of the calls of the database, the machine or the feed returns an error:
\* the holder returns it and leaves everything as it is.
InternalError ==
  /\ step \in {"deliver", "results", "single", "judge", "endOfBlock", "broadcast"}
  /\ Troubles < MaxTroubles
  /\ faults' = faults + 1
  /\ Return(mutex, "error")
  /\ Unlock
  /\ UNCHANGED <<answers, txQueue, envVars, db, feed>>

(***************************************************************************)
(* The lockout manager, and the RPC clients.                               *)
(***************************************************************************)
LoseLockout ==
  /\ shouldSequence /\ Troubles < MaxTroubles
  /\ shouldSequence' = FALSE /\ losses' = losses + 1
  /\ UNCHANGED <<call, answers, returned, txQueue, mutex, step, holderVars, cancelled, db,
                 feed, faults>>

GainLockout ==
  /\ ~shouldSequence
  /\ shouldSequence' = TRUE
  /\ UNCHANGED <<call, answers, returned, txQueue, mutex, step, holderVars, cancelled,
                 losses, db, feed, faults>>

\* The context of a call is looked at when its item is taken, so it only
\* matters that it was cancelled before.
Cancel(c) ==
  /\ Troubles < MaxTroubles
  /\ Contains(txQueue, c) /\ c \notin cancelled
  /\ cancelled' = cancelled \cup {c}
  /\ UNCHANGED <<call, answers, returned, txQueue, mutex, step, holderVars, shouldSequence,
                 losses, db, feed, faults>>

HolderStep ==
  \/ TakeItem \/ PlaceCancelled \/ PlaceBack \/ PlaceInBatch \/ QueueDrained
  \/ BeginBatch \/ DeliverBatch \/ AllSucceeded \/ SomeFailed
  \/ SkipFailed \/ DeliverSingle \/ JudgeSingle
  \/ DeliverEndOfBlock \/ BroadcastItems \/ Await

Lock(c) == LockWithoutLockout(c) \/ LockAndReturn(c) \/ LockAndSequence(c)

Next ==
  \/ \E c \in Calls : Enqueue(c) \/ Lock(c) \/ Cancel(c)
  \/ HolderStep
  \/ InternalError
  \/ LoseLockout
  \/ GainLockout

Spec == Init /\ [][Next]_vars

\* Go's scheduler never leaves all goroutines that can run idle.
FairSpec ==
  Spec /\ WF_vars(HolderStep \/ \E c \in Calls : Enqueue(c) \/ Lock(c))

-----------------------------------------------------------------------------
Values == {"ok", "error"}
Steps == {"idle", "take", "place", "gathered", "deliver", "results", "single", "judge",
          "endOfBlock", "broadcast", "await"}
Messages ==
  [kind : {"endOfBlock"}]
    \cup [kind : {"txs"},
          txs : Seq([hash : {TxHash[c] : c \in Calls}, included : BOOLEAN])]

\* The types of the queue, the calls and the holder's state.
TypeOK ==
  /\ call \in [Calls -> {"new", "queued", "holding", "returned"}]
  /\ answers \in [Calls -> Seq(Values)]
  /\ returned \in [Calls -> Values \cup {"none"}]
  /\ txQueue \in Seq(Calls) /\ Len(txQueue) <= QueueCap
  /\ mutex \in Calls \cup {NoCall} /\ taken \in Calls \cup {NoCall}
  /\ step \in Steps
  /\ batchTxs \in Seq(Calls)
  /\ originalAcc \in Nat /\ sequencedBatchItems \in Seq(Messages)
  /\ db \in Seq(Messages)
  /\ feed \in Seq([prevAcc : Nat, items : Seq(Messages)])
  /\ shouldSequence \in BOOLEAN /\ seenOwnTx \in BOOLEAN /\ emptiedQueue \in BOOLEAN
  /\ cancelled \subseteq Calls /\ faults \in Nat /\ losses \in Nat

\* A call is answered at most once, whichever threads sequence, refuse or retry
\* its transaction: resultChan has one place, and a second answer would block
\* the holder of the mutex for ever (the sends on resultChan in
\* SendTransaction).
AnsweredOnce == \A c \in Calls : Len(answers[c]) <= 1

Quiet == mutex = NoCall

\* What a caller is told is true: an ok means that the transaction has been
\* executed; and unless something failed inside or the lockout was lost, an
\* executed transaction was answered with an ok.
AnswersTruthful ==
  /\ \A c \in Calls :
       (returned[c] = "ok" \/ answers[c] = <<"ok">>) => TxHash[c] \in Included(db)
  /\ (Quiet /\ faults = 0 /\ losses = 0) =>
       \A h \in Included(db) : \E c \in Calls : TxHash[c] = h /\ answers[c] = <<"ok">>

\* Where the first n broadcasts end
FeedEnd(n) == IF n = 0 THEN 0 ELSE feed[n].prevAcc + Len(feed[n].items)

\* The feed says what the database holds: each broadcast continues the database
\* at the accumulator it names, nothing that was broadcast is taken back, and
\* without an internal error the broadcasts leave nothing out
\* (originalAcc and sequencedBatchItems in SendTransaction).
FeedFollowsDb ==
  /\ \A i \in DOMAIN feed :
       /\ FeedEnd(i) <= Len(db)
       /\ feed[i].items = SubSeq(db, feed[i].prevAcc + 1, FeedEnd(i))
  /\ (Quiet /\ faults = 0) =>
       /\ \A i \in DOMAIN feed : feed[i].prevAcc = FeedEnd(i - 1)
       /\ FeedEnd(Len(feed)) = Len(db)

\* Every call that has got its transaction into the queue returns in the end,
\* whatever other calls meet: errors, cancelled contexts, a full queue, a lost
\* lockout (SendTransaction).
QueuedCallsReturn == <>[](\A c \in Calls : call[c] \in {"new", "returned"})

\* A transaction that was put back because the batch was full is answered
\* later ("Put the tx back in the queue so it can be included later").
PutBackAnswered ==
  \A c \in Calls :
    (step = "gathered" /\ ~emptiedQueue /\ Contains(txQueue, c)) ~>
      (answers[c] # <<>> \/ call[c] = "returned")
=============================================================================
