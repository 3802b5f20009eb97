----------------------------- MODULE InboxReader -----------------------------
(***************************************************************************)
(* The inbox reader of a node (arb-node-core/monitor/inboxReader.go): a    *)
(* loop that reads the delayed messages and the batches of a window of L1  *)
(* blocks with two calls, compares them with the database, goes back when  *)
(* they do not fit and delivers them to ArbCore when they do; and between  *)
(* its passes over L1 takes the items that the sequencer broadcasts.       *)
(*                                                                         *)
(* Around it L1 grows and is reorganised, and the sequencer sequences,     *)
(* broadcasts and posts, and may lose what it has not posted to the next   *)
(* one.  The node is not itself a sequencer.                               *)
(***************************************************************************)
EXTENDS ArbCoreInbox, FiniteSets, FiniteSetsExt

CONSTANTS
  DelayBlocks,                \* inboxReaderDelayBlocks
  TargetDelay,                \* delayedMessagesTargetDelay of the sequencer
  Windows,                    \* the values of blocksToFetch
  BackStep,                   \* blocks to go back in a reorg (10)
  Recheck,                    \* blocks to read again at the start (20)
  MaxBlocks, MaxDelayed, MaxItems, MaxReorg, MaxFaults   \* bounds

\* What the delays are for: L1 does not reorganise the blocks that the
\* sequencer or the reader rely on (configuration.go 599, 620).
ASSUME DepthAssumption == MaxReorg <= DelayBlocks /\ MaxReorg <= TargetDelay
ASSUME ConstantAssumption ==
  /\ {DelayBlocks, TargetDelay, BackStep, Recheck, MaxReorg} \subseteq Nat
  /\ Windows \subseteq Nat \ {0}
  /\ {MaxBlocks, MaxDelayed, MaxItems, MaxFaults} \subseteq Nat

VARIABLES
  chain,                      \* L1: the delayed inbox and the batch items after every block
  log,                        \* the items of the sequencer
  late,                       \* broadcasts of earlier sequencers on their way: the log up to each
  \* the reader
  pc, from, to, currentHeight, reorgingDelayed, reorgingSequencer,
  delayedMessages,            \* the answer to LookupMessagesInRange
  caughtUp, temporarilyParanoid, missingFeedDelayedReference,
  sequencerFeedQueue,         \* [prevAcc, items]
  lastAcc,                    \* ir.lastAcc, with ir.lastCount
  coreError,                  \* addMessages has thrown
  faults                      \* how often something went wrong

envVars == <<chain, log, late>>
coreVars == <<delayedDb, db, coreError>>
passVars == <<to, currentHeight, reorgingDelayed, reorgingSequencer, delayedMessages>>
windowVars == <<from, passVars>>
feedVars == <<sequencerFeedQueue, lastAcc, missingFeedDelayedReference>>
modeVars == <<caughtUp, temporarilyParanoid>>
readerVars == <<coreVars, pc, windowVars, feedVars, modeVars>>
vars == <<envVars, faults, readerVars>>

FirstMessageBlock == 1

\* The inboxes after block n
Delayed(n) == IF n < FirstMessageBlock THEN <<>> ELSE chain[n].delayed
Batches(n) == IF n < FirstMessageBlock THEN <<>> ELSE chain[n].batches
Height == Len(chain)

\* The chain's first delayed message is sequenced by the first batch.
Genesis ==
  LET init == <<[id |-> 1, fork |-> 0]>>
  IN [delayed |-> init, batches |-> <<Item(NoTx, init, 1)>>]

NoMessages == [acc |-> <<>>, first |-> 1]
EmptyQueue == [prevAcc |-> <<>>, items |-> <<>>]

Init ==
  /\ chain = <<Genesis>>
  /\ log = Genesis.batches /\ late = {}
  /\ delayedDb = <<>> /\ db = <<>> /\ coreError = FALSE
  /\ pc = "start" /\ from = 0 /\ to = 0 /\ currentHeight = 0
  /\ reorgingDelayed = FALSE /\ reorgingSequencer = FALSE
  /\ delayedMessages = NoMessages
  /\ caughtUp = FALSE /\ temporarilyParanoid = FALSE /\ missingFeedDelayedReference = FALSE
  /\ sequencerFeedQueue = EmptyQueue /\ lastAcc = <<>>
  /\ faults = 0

-----------------------------------------------------------------------------
(***************************************************************************)
(* L1 and the sequencer.                                                   *)
(***************************************************************************)
NewDelayedMessage == [id |-> Len(Delayed(Height)) + 1, fork |-> faults]

GoesWrong == faults < MaxFaults /\ faults' = faults + 1

\* A block, perhaps with a delayed message, perhaps with a batch of what is
\* left to post
Mine ==
  LET delayed == Delayed(Height)
      posted == Batches(Height)
  IN /\ Height < MaxBlocks
     /\ \E more \in {<<>>, <<NewDelayedMessage>>}, n \in Len(posted) .. Len(log) :
          /\ Len(delayed \o more) <= MaxDelayed
          /\ IsPrefix(posted, log)
          /\ \A i \in Len(posted) + 1 .. n : IsPrefix(log[i].delayedAcc, delayed)
          /\ chain' = Append(chain, [delayed |-> delayed \o more, batches |-> SubSeq(log, 1, n)])
     /\ UNCHANGED <<log, late, faults, readerVars>>

\* The newest blocks are replaced by as many empty ones.
Reorg ==
  /\ GoesWrong
  /\ \E kept \in 1 .. Height - 1 :
       /\ Height - kept <= MaxReorg
       /\ chain' = [n \in 1 .. Height |-> chain[Min({n, kept})]]
  /\ UNCHANGED <<log, late, readerVars>>

SequenceTx ==
  /\ Len(log) < MaxItems
  /\ log' = Append(log, Item(faults, <<>>, Height))
  /\ UNCHANGED <<chain, late, faults, readerVars>>

\* deliverDelayedMessages of the sequencer: what is TargetDelay deep
SequenceDelayed ==
  LET deep == Delayed(Height - TargetDelay)
  IN /\ Len(log) < MaxItems
     /\ Height > TargetDelay
     /\ Len(deep) > TotalDelayedSequenced(log)
     /\ log' = Append(log, Item(NoTx, deep, Height - TargetDelay))
     /\ UNCHANGED <<chain, late, faults, readerVars>>

\* Another sequencer takes over and does not know the last items, which may
\* still arrive from the feed of its predecessor.
Handover ==
  /\ GoesWrong
  /\ \E n \in Len(Batches(Height)) .. Len(log) - 1 :
       /\ log' = SubSeq(log, 1, n)
       /\ late' = late \cup {SubSeq(log, 1, k) : k \in n + 1 .. Len(log)}
  /\ UNCHANGED <<chain, readerVars>>

-----------------------------------------------------------------------------
(***************************************************************************)
(* The reader.                                                             *)
(***************************************************************************)
Running(place) == ~coreError /\ pc = place

\* Feed items that the database has are dropped.
UnreadItems ==
  LET all == sequencerFeedQueue.prevAcc \o sequencerFeedQueue.items
  IN IF Len(db) > Len(sequencerFeedQueue.prevAcc) /\ IsPrefix(db, all)
     THEN [prevAcc |-> db, items |-> SubSeq(all, Len(db) + 1, Len(all))]
     ELSE sequencerFeedQueue
Normal(q) == IF q.items = <<>> THEN EmptyQueue ELSE q

\* getNextBlockToRead
Start ==
  /\ Running("start")
  /\ lastAcc' = db
  /\ from' = IF db = <<>> THEN FirstMessageBlock
             ELSE Max({0, Last(db).at - Recheck})
  /\ sequencerFeedQueue' = Normal(UnreadItems)
  /\ missingFeedDelayedReference' = FALSE
  /\ pc' = "height"
  /\ UNCHANGED <<envVars, faults, coreVars, passVars, modeVars>>

\* The variables of a pass go out of scope.
PassOver ==
  /\ to' = 0 /\ currentHeight' = 0
  /\ reorgingDelayed' = FALSE /\ reorgingSequencer' = FALSE
  /\ delayedMessages' = NoMessages

\* The loop begins again after an error, and is paranoid from then on.
Errs ==
  /\ pc' = "start" /\ from' = 0 /\ PassOver
  /\ temporarilyParanoid' = TRUE
  /\ missingFeedDelayedReference' = FALSE

\* GetCountsAndAccumulators: the latest accumulator is not the one that the
\* database has at its place.
Differs(list, latest) == Len(latest) <= Len(list) /\ ~IsPrefix(latest, list)

BeginPass ==
  /\ Running("height")
  /\ currentHeight' = Max({1, Height - DelayBlocks})
  /\ pc' = "counts"
  /\ UNCHANGED <<envVars, faults, coreVars, from, to, reorgingDelayed, reorgingSequencer,
                 delayedMessages, feedVars, modeVars>>

CompareCounts ==
  /\ Running("counts")
  /\ reorgingDelayed' =
       (temporarilyParanoid \/ missingFeedDelayedReference
          \/ (caughtUp /\ Differs(delayedDb, Delayed(Height))))
  /\ reorgingSequencer' = (temporarilyParanoid \/ (caughtUp /\ Differs(db, Batches(Height))))
  /\ pc' = "window"
  /\ UNCHANGED <<envVars, faults, coreVars, from, to, currentHeight, delayedMessages, feedVars,
                 modeVars>>

Reorging == reorgingDelayed \/ reorgingSequencer

EndPass ==
  /\ Running("window")
  /\ from >= currentHeight /\ ~Reorging
  /\ missingFeedDelayedReference' = FALSE
  /\ pc' = "feed"
  /\ PassOver
  /\ UNCHANGED <<envVars, faults, coreVars, from, sequencerFeedQueue, lastAcc, modeVars>>

\* LookupMessagesInRange
LookupDelayed(blocksToFetch) ==
  LET start == IF from >= currentHeight THEN Max({0, currentHeight - blocksToFetch}) ELSE from
      end == Min({start + blocksToFetch, currentHeight})
  IN /\ Running("window")
     /\ from < currentHeight \/ Reorging
     /\ from' = start /\ to' = end
     /\ delayedMessages' = [acc |-> Delayed(Min({end, Height})),
                             first |-> Len(Delayed(start - 1)) + 1]
     /\ pc' = "batches"
     /\ UNCHANGED <<envVars, faults, coreVars, currentHeight, reorgingDelayed,
                    reorgingSequencer, feedVars, modeVars>>

\* LookupBatchesInRange: the blocks of the window that have a batch
BatchBlocks == {n \in from .. Min({to, Height}) : Batches(n) # Batches(n - 1)}
\* Mutant: the counts are compared, not the accumulators.
NewBatchBlocks_ByCount == {n \in BatchBlocks : Len(Batches(n)) > Len(db)}
\* The ones whose accumulators the database does not have
NewBatchBlocks == {n \in BatchBlocks : ~IsPrefix(Batches(n), db)}

FirstBeforeAcc(blocks) == Batches(Min(blocks) - 1)

HasDelayed == Len(delayedMessages.acc) >= delayedMessages.first

ReorgsSequencer ==
  IF BatchBlocks = {} THEN reorgingSequencer ELSE ~IsPrefix(FirstBeforeAcc(BatchBlocks), db)
ReorgsDelayed ==
  IF ~HasDelayed THEN reorgingDelayed
  ELSE ~IsPrefix(SubSeq(delayedMessages.acc, 1, delayedMessages.first - 1), delayedDb)

\* addMessages: a batch reads delayed messages that the database does not have.
MissingDelayed ==
  /\ ~HasDelayed
  /\ \E n \in NewBatchBlocks : \E i \in Len(Batches(n - 1)) + 1 .. Len(Batches(n)) :
       ~IsPrefix(Batches(n)[i].delayedAcc, delayedDb)

\* Where the next window starts
NextFrom(blocksToFetch) ==
  IF to + blocksToFetch >= currentHeight THEN Min({from + blocksToFetch \div 2, to}) ELSE to + 1

\* getPrevBlockForReorg
GoesBack(delayed, sequencer) ==
  \/ /\ from = FirstMessageBlock                        \* "can't get older messages"
     /\ Errs
  \/ /\ from # FirstMessageBlock
     /\ from' = Max({FirstMessageBlock, from - BackStep})
     /\ reorgingDelayed' = delayed /\ reorgingSequencer' = sequencer
     /\ to' = 0 /\ delayedMessages' = NoMessages
     /\ pc' = "window"
     /\ UNCHANGED <<currentHeight, temporarilyParanoid, missingFeedDelayedReference>>

\* The new items are dropped from the feed queue.
WithoutDuplicates(prevAcc, new) ==
  LET q == sequencerFeedQueue
      all == q.prevAcc \o q.items
      n == Agree(new, all)
  IN IF Len(q.prevAcc) < Len(prevAcc) \/ n <= Len(q.prevAcc) THEN q
     ELSE Normal([prevAcc |-> SubSeq(all, 1, n), items |-> SubSeq(all, n + 1, Len(all))])

\* addMessages: what is new is delivered.
Deliver(blocks) ==
  LET prevAcc == IF blocks = {} THEN <<>> ELSE FirstBeforeAcc(blocks)
      new == IF blocks = {} THEN <<>> ELSE Batches(Max(blocks))
      items == SubSeq(new, Len(prevAcc) + 1, Len(new))
      delayed == IF HasDelayed THEN delayedMessages.acc ELSE <<>>
  IN /\ coreError' = ~Acceptable(prevAcc, items, delayed, delayedMessages.first)
     /\ IF coreError' THEN UNCHANGED <<db, delayedDb, lastAcc, sequencerFeedQueue>>
        ELSE /\ AddMessages(prevAcc, items, delayed)
             /\ lastAcc' = IF items = <<>> THEN lastAcc ELSE new
             /\ sequencerFeedQueue' = WithoutDuplicates(prevAcc, new)

\* LookupBatchesInRange and the rest of the inner loop
LookupBatches(blocksToFetch) ==
  LET back == ReorgsSequencer \/ ReorgsDelayed
  IN /\ Running("batches")
     /\ \/ /\ ~back /\ ~MissingDelayed
           /\ \E blocks \in {NewBatchBlocks} : Deliver(blocks)
           /\ from' = NextFrom(blocksToFetch)
           /\ reorgingDelayed' = FALSE /\ reorgingSequencer' = FALSE
           /\ caughtUp' \in {caughtUp, caughtUp \/ to = currentHeight}
           /\ to' = 0 /\ delayedMessages' = NoMessages
           /\ pc' = "window"
           /\ UNCHANGED <<currentHeight, temporarilyParanoid, missingFeedDelayedReference>>
        \/ /\ back \/ MissingDelayed
           /\ GoesBack(ReorgsDelayed \/ ~back, ReorgsSequencer)
           /\ UNCHANGED <<coreVars, lastAcc, sequencerFeedQueue, caughtUp>>
     /\ UNCHANGED <<envVars, faults>>

\* A call fails.
ReadFails ==
  /\ ~coreError /\ pc \in {"height", "counts", "window", "batches"}
  /\ GoesWrong
  /\ Errs
  /\ UNCHANGED <<envVars, coreVars, sequencerFeedQueue, lastAcc, caughtUp>>

\* The node's process dies and starts again with its database.
Restart ==
  /\ ~coreError
  /\ GoesWrong
  /\ pc' = "start" /\ from' = 0 /\ PassOver
  /\ caughtUp' = FALSE /\ temporarilyParanoid' = FALSE
  /\ sequencerFeedQueue' = EmptyQueue /\ lastAcc' = <<>> /\ missingFeedDelayedReference' = FALSE
  /\ UNCHANGED <<envVars, coreVars>>

-----------------------------------------------------------------------------
(***************************************************************************)
(* The feed.                                                               *)
(***************************************************************************)
Queued(prevAcc, item) ==
  LET q == sequencerFeedQueue
  IN IF q.items = <<>> \/ q.prevAcc \o q.items # prevAcc \/ prevAcc = lastAcc
     THEN [prevAcc |-> prevAcc, items |-> <<item>>]
     ELSE [q EXCEPT !.items = Append(@, item)]

\* Mutant: queued items are delivered wherever they belong.
Continues_Anywhere(q) == q.items # <<>> /\ Len(q.prevAcc) <= Len(db)
Continues(q) == q.items # <<>> /\ q.prevAcc = lastAcc

\* Mutant: nobody looks whether the delayed messages are there.
NeedsDelayed_Never(q) == FALSE
\* The last item tells how many delayed messages it needs.
NeedsDelayed(q) == Len(delayedDb) < TotalDelayedSequenced(q.prevAcc \o q.items)

\* deliverQueueItems
DeliverQueueItems(q) ==
  \/ /\ ~Continues(q)
     /\ sequencerFeedQueue' = q
     /\ missingFeedDelayedReference' = FALSE
     /\ UNCHANGED <<coreVars, lastAcc>>
  \/ /\ Continues(q) /\ NeedsDelayed(q)
     /\ sequencerFeedQueue' = q
     /\ missingFeedDelayedReference' = TRUE
     /\ UNCHANGED <<coreVars, lastAcc>>
  \/ /\ Continues(q) /\ ~NeedsDelayed(q)
     /\ sequencerFeedQueue' = EmptyQueue
     /\ missingFeedDelayedReference' = FALSE
     /\ coreError' = ~Acceptable(q.prevAcc, q.items, <<>>, 1)
     /\ IF coreError' THEN UNCHANGED <<db, delayedDb, lastAcc>>
        ELSE AddMessages(q.prevAcc, q.items, <<>>) /\ lastAcc' = q.prevAcc \o q.items

\* What the feeds may bring: each item with those that it was sequenced after
Broadcasts == late \cup {SubSeq(log, 1, n) : n \in 1 .. Len(log)}

\* An item arrives, as it was broadcast, perhaps again, perhaps not the first,
\* perhaps after another sequencer took over.
FeedItem(items) ==
  LET q == Queued(Front(items), Last(items))
  IN /\ Running("feed")
     /\ late' = late \ {items}
     /\ \/ /\ DeliverQueueItems(q)
           /\ pc' = IF missingFeedDelayedReference' THEN "height" ELSE "feed"
        \/ /\ sequencerFeedQueue' = q             \* more is waiting in the channel
           /\ UNCHANGED <<coreVars, lastAcc, missingFeedDelayedReference, pc>>
     /\ UNCHANGED <<chain, log, faults, windowVars, modeVars>>

\* Five seconds are over.
EndFeed ==
  /\ Running("feed")
  /\ DeliverQueueItems(sequencerFeedQueue)
  /\ pc' = "height"
  /\ UNCHANGED <<envVars, faults, windowVars, modeVars>>

EnvStep == Mine \/ Reorg \/ SequenceTx \/ SequenceDelayed \/ Handover
ReaderStep ==
  \/ Start \/ BeginPass \/ CompareCounts \/ EndPass \/ EndFeed
  \/ \E w \in Windows : LookupDelayed(w) \/ LookupBatches(w)
Next == EnvStep \/ ReaderStep \/ ReadFails \/ Restart \/ \E items \in Broadcasts : FeedItem(items)

Spec == Init /\ [][Next]_vars
FairSpec == Spec /\ WF_vars(ReaderStep)

-----------------------------------------------------------------------------
Queues == [prevAcc : Seq(Items), items : Seq(Items)]

\* The types of the variables
TypeOK ==
  /\ chain \in Seq([delayed : Seq(Messages), batches : Seq(Items)]) /\ chain # <<>>
  /\ log \in Seq(Items) /\ late \subseteq Seq(Items)
  /\ delayedDb \in Seq(Messages) /\ db \in Seq(Items) /\ coreError \in BOOLEAN
  /\ pc \in {"start", "height", "counts", "window", "batches", "feed"}
  /\ from \in Nat /\ to \in Nat /\ currentHeight \in Nat /\ faults \in Nat
  /\ reorgingDelayed \in BOOLEAN /\ reorgingSequencer \in BOOLEAN
  /\ caughtUp \in BOOLEAN /\ temporarilyParanoid \in BOOLEAN
  /\ missingFeedDelayedReference \in BOOLEAN
  /\ delayedMessages \in [acc : Seq(Messages), first : Nat \ {0}]
  /\ sequencerFeedQueue \in Queues /\ lastAcc \in Seq(Items)

\* What the reader delivers is never refused by ArbCore, which would stop the
\* node: the checks of inboxReader.go (319-363, 573-581, 480-493), made before
\* the delivery and on answers of two calls that L1 may have moved between,
\* are enough for those that addMessages makes, as long as L1 reorganises no
\* deeper than DelayBlocks and TargetDelay.
CoreNeverFails == ~coreError

\* The position that the reader keeps (ir.lastAcc) is the end of the database
\* whenever it reads the feed: a feed item is never delivered behind the end,
\* where it would reorganise what was read from L1 (inboxReader.go 436, 480).
LastAccIsEnd == pc # "start" => lastAcc = db

\* When L1 and the sequencer come to rest the database gets every batch of
\* the blocks that are deep enough, and with it the delayed messages that the
\* batch reads: no feed item that L1 contradicts stays in the way, and what a
\* failed pass or a restart has skipped is found again.  (Block currentHeight
\* itself waits for the next one when it is the first of a window, line 284;
\* delayed messages that no batch has read are not promised: a node that
\* starts again may begin behind them, see the README.)
Confirmed == Height - DelayBlocks - 1
FollowsChain == <>[]IsPrefix(Batches(Confirmed), db)
=============================================================================
