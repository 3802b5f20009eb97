-------------------------- MODULE SequencerBatcher --------------------------
(***************************************************************************)
(* The publishing half of SequencerBatcher: the messages a sequencer has   *)
(* put into its database and broadcast are packed into batches and sent to *)
(* SequencerInbox.sol, which rebuilds them from the packed form and checks *)
(* that it arrives at the same accumulator.  The main loop (Start) runs    *)
(* beside SendTransaction, the lockout manager and the inbox reader; its   *)
(* batches wait in the mempool and land blocks later, or never.            *)
(*                                                                         *)
(* L1 is module SequencerInbox.  block is the block that is being filled;  *)
(* clients see the mined blocks below it.  An accumulator is the sequence  *)
(* of the hash steps it commits to.                                        *)
(*                                                                         *)
(* The other sequencer keeps a database of its own: it hears what this one *)
(* broadcasts as long as it continues what it has, and reads L1.  Messages *)
(* that are given a new time (reorgToNewTimestamp) are not broadcast again.*)
(***************************************************************************)
EXTENDS Integers, Sequences, FiniteSets, SequencesExt

CONSTANTS
  Self, Other,                  \* fromAddress, and another sequencer
  ZeroAddress,                  \* the sender of an implicit end-of-block message
  NoTime,
  MaxDelay,                     \* maxDelayBlocks, maxDelaySeconds: [blocks, seconds]
  BlockTime,                    \* the seconds an L1 block takes
  UpdateTimestampInterval,      \* blocks before messages get a new time
  DelayedMessagesTargetDelay,   \* blocks before a delayed message is sequenced
  MaxL1Reorg,                   \* bound: blocks an L1 reorg may replace
  MaxL1BackwardsReorg,          \* blocks by which messages may be ahead of L1 (12)
  MaxBatchGasCost,              \* in items
  ParallelPublishingBatches,
  ShouldReorgGaps,              \* consecutive attempts before a reorg (10)
  LastDelivery,                 \* bound: the last block with a delayed message
  MaxBlock, MaxDelayed, MaxSends, MaxHandovers      \* bounds

ASSUME BatcherAssumption ==
  /\ MaxDelay \in [blocks : Nat, seconds : Nat]
  /\ BlockTime \in Nat \ {0}
  /\ UpdateTimestampInterval \in Nat
  /\ DelayedMessagesTargetDelay \in Nat /\ MaxL1Reorg \in Nat
  /\ MaxL1Reorg <= DelayedMessagesTargetDelay /\ MaxL1BackwardsReorg \in Nat
  /\ MaxBatchGasCost \in Nat \ {0} /\ ParallelPublishingBatches \in Nat \ {0}
  /\ ShouldReorgGaps \in Nat
  /\ \A b \in {LastDelivery, MaxBlock, MaxDelayed, MaxSends, MaxHandovers} : b \in Nat

VARIABLES
  block, delayedInbox,                          \* L1, as in SequencerInbox
  l1Items, messageCount, totalDelayedMessagesRead,
  mined,            \* the state at the newest mined block, [items, count, nonce]
  nonce,            \* of the account Self
  pool,             \* the batches of Self in the mempool
  delayedDb,        \* the delayed messages in the database
  db,               \* the batch items in the database
  otherDb,          \* those in the other sequencer's
  shouldSequence,   \* LockoutManager.ShouldSequence()
  latestChainTime,  \* the time the next messages are given
  step,             \* where Start is
  chainTime, creatingBatch, dontPublishBlockNum, prevMsgCount, nextNonce,
  consecutiveShouldReorgGaps,
  sends, handovers, \* how often each happened
  parted            \* messages were retimed that had landed, or the other
                    \* sequencer went on from messages as they were before

l1Vars == <<block, delayedInbox, l1Items, messageCount, totalDelayedMessagesRead, mined, nonce>>
dbVars == <<delayedDb, db, otherDb, parted>>
roundVars == <<chainTime, creatingBatch, dontPublishBlockNum, prevMsgCount, nextNonce>>
loopVars == <<step, roundVars>>
envVars == <<shouldSequence, sends, handovers>>
vars == <<l1Vars, pool, dbVars, envVars, latestChainTime, loopVars, consecutiveShouldReorgGaps>>

\* An item of a database is a hash step of the inbox with the number of delayed
\* messages read so far, TotalDelayedCount.
BatchItem(msg, total) == [msg |-> msg, total |-> total]
Msgs(items) == [i \in DOMAIN items |-> items[i].msg]

\* What the accumulator of the inbox commits to.
log == Msgs(l1Items)

Time(b) == [block |-> b, seconds |-> b * BlockTime]

L1 == INSTANCE SequencerInbox WITH
        timestamp <- block * BlockTime,
        Sequencers <- {Self, Other}, NoBatch <- NoTime,
        Delays <- {MaxDelay}, BlockTimes <- {BlockTime}, WordBits <- 30,
        MaxMessages <- 0, MaxItems <- 0, MaxSections <- 0,
        inboxAccs <- <<>>, isSequencer <- {Self, Other}, maxDelay <- MaxDelay,
        isShutdownForNitro <- FALSE, inFlight <- pool

\* getChainTime: the newest mined block
NewestChainTime == Time(block - 1)

Init ==
  /\ block = 1
  /\ delayedInbox = <<[l1BlockNumber |-> 0, l1Timestamp |-> 0]>>
  /\ l1Items = <<>> /\ messageCount = 0 /\ totalDelayedMessagesRead = 0
  /\ mined = [items |-> <<>>, count |-> 0, nonce |-> 0]
  /\ nonce = 0 /\ pool = {}
  /\ delayedDb = <<>> /\ db = <<>> /\ otherDb = <<>> /\ parted = FALSE
  /\ shouldSequence = TRUE /\ sends = 0 /\ handovers = 0
  /\ latestChainTime = NewestChainTime
  /\ step = "wait" /\ chainTime = NoTime /\ creatingBatch = FALSE
  /\ dontPublishBlockNum = NoTime /\ prevMsgCount = 0 /\ nextNonce = 0
  /\ consecutiveShouldReorgGaps = 0

(***************************************************************************)
(* The databases.                                                          *)
(***************************************************************************)
EndSeqNum(item) ==
  IF item.msg.kind = "item" THEN item.msg.seqNum
  ELSE item.msg.count + item.msg.to - item.msg.from - 1
MessageCount(items) == IF items = <<>> THEN 0 ELSE EndSeqNum(Last(items)) + 1
TotalDelayedSequenced(items) == IF items = <<>> THEN 0 ELSE Last(items).total

SequencerMessage(sender, seqNum, time) ==
  L1!Item(sender, seqNum, time.block, time.seconds)

\* The items are keyed by their last sequence numbers: GetSequencerBatchItems
\* seeks the first that is at least count and reads on to the end.
SeekItem(count) == Cardinality({i \in DOMAIN db : EndSeqNum(db[i]) < count})
ItemsFrom(count) == SubSeq(db, SeekItem(count) + 1, Len(db))
ItemsBefore(count) == SubSeq(db, 1, SeekItem(count))

\* A broadcast reaches a database that it continues; any other one waits for
\* L1 to bring what is missing.
Hears(copy, base, items) == IF copy = base THEN copy \o items ELSE copy

\* A message of users' transactions and its end of block, as SendTransaction
\* leaves them.
UserItems(base, sender, time) ==
  LET n == MessageCount(base)
      total == TotalDelayedSequenced(base)
  IN  <<BatchItem(SequencerMessage(sender, n, time), total),
        BatchItem(SequencerMessage(sender, n + 1, time), total)>>

SendTransaction ==
  /\ shouldSequence
  /\ sends < MaxSends
  /\ TotalDelayedSequenced(db) > 0                 \* "chain not yet initialized"
  /\ sends' = sends + 1
  /\ LET items == UserItems(db, Self, latestChainTime)
     IN  db' = db \o items /\ otherDb' = Hears(otherDb, db, items)
  /\ UNCHANGED <<l1Vars, pool, delayedDb, shouldSequence, handovers, parted, latestChainTime,
                 loopVars, consecutiveShouldReorgGaps>>

(***************************************************************************)
(* Delayed messages are sequenced once they are old enough, and the L1     *)
(* node confirms at that depth what the database says.                     *)
(***************************************************************************)
\* getDelayedMessagesToSequence, a binary search: block numbers never decrease
DelayedCount(messages, b) == Cardinality({i \in DOMAIN messages : messages[i].l1BlockNumber <= b})

\* Mutant: the accumulator of the database is trusted.
DelayedConfirmed_Trusted(n, b) == TRUE
DelayedConfirmed(n, b) ==
  /\ DelayedCount(delayedInbox, b) >= n
  /\ SubSeq(delayedInbox, 1, n) = SubSeq(delayedDb, 1, n)

DelayedToSequence(time) ==
  DelayedCount(delayedDb, time.block - DelayedMessagesTargetDelay)
DelayedDue(time) == DelayedToSequence(time) > TotalDelayedSequenced(db)

\* batchItem and endBlockBatchItem
DelayedItems(old, new) ==
  LET n == MessageCount(db)
  IN  <<BatchItem(L1!DelayedSpan(n, old, new, SubSeq(delayedDb, 1, new)), new),
        BatchItem(SequencerMessage(ZeroAddress, n + new - old, latestChainTime), new)>>

DeliverDelayedMessages(time) ==
  LET new == DelayedToSequence(time)
      items == DelayedItems(TotalDelayedSequenced(db), new)
  IN  /\ DelayedDue(time)
      /\ DelayedConfirmed(new, time.block - DelayedMessagesTargetDelay)
      /\ db' = db \o items /\ otherDb' = Hears(otherDb, db, items)

(***************************************************************************)
(* The lockout manager.  While another sequencer has the lockout its       *)
(* messages arrive by the feed and it publishes them; before this one      *)
(* sequences again, it sequences delayed messages (bypassLockout).         *)
(***************************************************************************)
LoseLockout ==
  /\ shouldSequence /\ handovers < MaxHandovers
  /\ shouldSequence' = FALSE /\ handovers' = handovers + 1
  /\ UNCHANGED <<l1Vars, pool, dbVars, sends, latestChainTime, loopVars, consecutiveShouldReorgGaps>>

GainLockout ==
  /\ ~shouldSequence
  /\ shouldSequence' = TRUE
  /\ \/ DeliverDelayedMessages(NewestChainTime)
     \/ ~DelayedDue(NewestChainTime) /\ UNCHANGED <<db, otherDb>>
  /\ UNCHANGED <<l1Vars, pool, delayedDb, sends, handovers, parted, latestChainTime, loopVars,
                 consecutiveShouldReorgGaps>>

\* The other sequencer goes on from its own database.
OtherSequences ==
  /\ ~shouldSequence
  /\ sends < MaxSends
  /\ TotalDelayedSequenced(otherDb) > 0
  /\ sends' = sends + 1
  /\ LET items == UserItems(otherDb, Other, NewestChainTime)
     IN  otherDb' = otherDb \o items /\ db' = Hears(db, otherDb, items)
  /\ parted' = (parted \/ otherDb # db)
  /\ UNCHANGED <<l1Vars, pool, delayedDb, shouldSequence, handovers, latestChainTime, loopVars,
                 consecutiveShouldReorgGaps>>

\* It publishes its own messages, as it has timed them.
OtherPublishes ==
  /\ IsPrefix(l1Items, otherDb)
  /\ \E n \in Len(l1Items) + 1 .. Len(otherDb) :
       LET rest == Msgs(SubSeq(otherDb, Len(l1Items) + 1, n))
       IN  /\ \A i \in DOMAIN rest :
                /\ rest[i].kind = "item" /\ rest[i].sender = Other
                /\ L1!SectionInWindow(rest[i])
           /\ l1Items' = SubSeq(otherDb, 1, n)
           /\ messageCount' = messageCount + Len(rest)
  /\ UNCHANGED <<block, delayedInbox, totalDelayedMessagesRead, mined, nonce, pool,
                 dbVars, envVars, latestChainTime, loopVars, consecutiveShouldReorgGaps>>

(***************************************************************************)
(* Packing items into the sections of a batch: the loop of publishBatch.   *)
(* sent are the items taken, n the transactions of the section that is     *)
(* open, time and start its metadata.                                      *)
(***************************************************************************)
EmptyBatch ==
  [sections |-> <<>>, sent |-> <<>>, txs |-> 0, gas |-> 0, n |-> 0, time |-> NoTime,
   start |-> 0, skipping |-> FALSE, all |-> TRUE, stop |-> FALSE, error |-> FALSE]

Section(n, time, total, acc) ==
  [numItems |-> n, l1BlockNumber |-> time.block, l1Timestamp |-> time.seconds,
   newTotal |-> total, delayedAcc |-> acc]

MessageTime(msg) == [block |-> msg.l1BlockNumber, seconds |-> msg.l1Timestamp]

\* Messages of another time begin a new section.  Mutant: they do not.
TimeChanges_Never(b, msg) == FALSE
TimeChanges(b, msg) == b.time # NoTime /\ b.time # MessageTime(msg)

PackMessage(b, item) ==
  LET flush == TimeChanges(b, item.msg)
      opened == IF flush
                THEN [b EXCEPT !.sections = Append(@, Section(b.n, b.time, b.start, <<>>)),
                               !.n = 0]
                ELSE b
      timed == IF b.time = NoTime \/ flush
               THEN [opened EXCEPT !.time = MessageTime(item.msg), !.start = item.total]
               ELSE opened
      taken == [timed EXCEPT !.sent = Append(@, item)]
  IN  IF b.skipping
      THEN [taken EXCEPT
              !.sections = Append(@, Section(timed.n, timed.time, item.total,
                                             SubSeq(delayedDb, 1, item.total))),
              !.n = 0, !.time = NoTime, !.start = 0, !.skipping = FALSE]
      ELSE [taken EXCEPT !.n = @ + 1, !.txs = @ + 1]

\* Where the batch ends before an item: the gas limit, and the newest block.
FullBefore(b) == b.sent # <<>> /\ b.gas + 1 >= MaxBatchGasCost /\ ~b.skipping
TooFresh(b, msg, dontPublish) ==
  dontPublish # NoTime /\ msg.l1BlockNumber >= dontPublish.block /\ ~b.skipping

Foreign(msg) == msg.kind = "item" /\ msg.sender \notin {ZeroAddress, Self}

PackItem(b, item, dontPublish) ==
  LET msg == item.msg
  IN  CASE b.stop \/ b.error -> b
        [] Foreign(msg) -> IF b.txs > 0 THEN [b EXCEPT !.stop = TRUE]
                           ELSE [b EXCEPT !.error = TRUE]
        [] ~Foreign(msg) /\ FullBefore(b) -> [b EXCEPT !.stop = TRUE, !.all = FALSE]
        [] msg.kind = "delayed" /\ ~FullBefore(b) ->
             IF b.skipping THEN [b EXCEPT !.error = TRUE]
             ELSE [b EXCEPT !.skipping = TRUE, !.sent = Append(@, item), !.gas = @ + 1]
        [] OTHER ->
             IF TooFresh(b, msg, dontPublish) THEN [b EXCEPT !.stop = TRUE]
             ELSE IF b.skipping /\ msg.sender # ZeroAddress THEN [b EXCEPT !.error = TRUE]
             ELSE PackMessage([b EXCEPT !.gas = @ + 1], item)

Pack(items, dontPublish) ==
  LET b == FoldLeft(LAMBDA x, item : PackItem(x, item, dontPublish), EmptyBatch, items)
  IN  IF b.n = 0 THEN [b EXCEPT !.error = @ \/ b.skipping]
      ELSE [b EXCEPT !.sections = Append(@, Section(b.n, b.time, b.start, <<>>)),
                     !.error = @ \/ b.skipping]

(***************************************************************************)
(* SequencerBatch.GetItems, by which every other node unpacks a batch.     *)
(* The number of delayed messages before the batch is not in it: what the  *)
(* sections do not account for was read by the first.                      *)
(***************************************************************************)
FirstSectionReads(unaccounted) == IF unaccounted > 0 THEN unaccounted - 1 ELSE 0

StartTotal(sections, beforeCount, afterCount) ==
  LET Later(i) == LET read == sections[i].newTotal - sections[i - 1].newTotal
                  IN  sections[i].numItems + read + (IF read > 0 THEN 1 ELSE 0)
      later == FoldLeft(LAMBDA n, i : n + Later(i), 0,
                        [i \in 1 .. Len(sections) - 1 |-> i + 1])
  IN  sections[1].newTotal
        - FirstSectionReads(afterCount - beforeCount - later - sections[1].numItems)

GetItems(sender, sections, beforeCount, afterCount) ==
  LET AddSection(r, s) ==
        LET time == [block |-> s.l1BlockNumber, seconds |-> s.l1Timestamp]
            read == s.newTotal - r.total
            txs == [i \in 1 .. s.numItems |->
                      BatchItem(SequencerMessage(sender, r.seqNum + i - 1, time), r.total)]
            n == r.seqNum + s.numItems
        IN  IF read > 0
            THEN [items |-> r.items \o txs \o
                    <<BatchItem(L1!DelayedSpan(n, r.total, s.newTotal, s.delayedAcc), s.newTotal),
                      BatchItem(SequencerMessage(ZeroAddress, n + read, time), s.newTotal)>>,
                  seqNum |-> n + read + 1, total |-> s.newTotal]
            ELSE [items |-> r.items \o txs, seqNum |-> n, total |-> r.total]
  IN  FoldLeft(AddSection,
               [items |-> <<>>, seqNum |-> beforeCount,
                total |-> StartTotal(sections, beforeCount, afterCount)],
               sections).items

(***************************************************************************)
(* The main loop.                                                          *)
(***************************************************************************)
\* A new block: its time is kept, and a batch may be created in this round.
\* The intervals, the estimate of the batch's gas and the gas price are left
\* open: any round may create a batch that the lockout and the limit allow.
\* The message count and the nonce are asked for later, but at this block.
BeginRound ==
  /\ step = "wait"
  /\ chainTime # NoTime => NewestChainTime.block > chainTime.block
  /\ chainTime' = NewestChainTime
  /\ \E create \in BOOLEAN :
       creatingBatch' = (create /\ shouldSequence /\ Cardinality(pool) < ParallelPublishingBatches)
  /\ \/ shouldSequence /\ step' = "delayed"
     \/ ~creatingBatch' /\ step' = "update"
  /\ prevMsgCount' = (IF creatingBatch' THEN mined.count ELSE 0)
  /\ nextNonce' = (IF creatingBatch' THEN mined.nonce ELSE 0)
  /\ UNCHANGED <<l1Vars, pool, dbVars, envVars, latestChainTime, dontPublishBlockNum,
                 consecutiveShouldReorgGaps>>

EndRound ==
  /\ step' = "wait"
  /\ creatingBatch' = FALSE /\ dontPublishBlockNum' = NoTime
  /\ prevMsgCount' = 0 /\ nextNonce' = 0
  /\ UNCHANGED chainTime

\* deliverDelayedMessages, which returns an error if the lockout has gone
\* meanwhile or L1 does not confirm the messages: the round ends.
SequenceDelayed ==
  /\ step = "delayed"
  /\ shouldSequence
  /\ DeliverDelayedMessages(chainTime)
  /\ step' = "sequencedDelayed"
  /\ UNCHANGED <<l1Vars, pool, delayedDb, parted, envVars, latestChainTime, roundVars,
                 consecutiveShouldReorgGaps>>

NothingDelayed ==
  /\ step = "delayed"
  /\ shouldSequence
  /\ ~DelayedDue(chainTime)
  /\ step' = "update"
  /\ UNCHANGED <<l1Vars, pool, dbVars, envVars, latestChainTime, roundVars,
                 consecutiveShouldReorgGaps>>

DelayedFails ==
  /\ step = "delayed"
  /\ \/ ~shouldSequence
     \/ /\ DelayedDue(chainTime)
        /\ ~DelayedConfirmed(DelayedToSequence(chainTime),
                             chainTime.block - DelayedMessagesTargetDelay)
  /\ EndRound
  /\ UNCHANGED <<l1Vars, pool, dbVars, envVars, latestChainTime, consecutiveShouldReorgGaps>>

\* latestChainTime moves on, at the latest every updateTimestampInterval blocks
UpdateChainTime ==
  /\ step \in {"update", "sequencedDelayed"}
  /\ IF \/ chainTime.block >= latestChainTime.block + UpdateTimestampInterval
        \/ creatingBatch \/ step = "sequencedDelayed"
     THEN latestChainTime' = chainTime
     ELSE UNCHANGED latestChainTime
  /\ IF creatingBatch
     THEN /\ step' = "publish"
          /\ dontPublishBlockNum' = chainTime
          /\ UNCHANGED <<chainTime, creatingBatch, prevMsgCount, nextNonce>>
     ELSE EndRound
  /\ UNCHANGED <<l1Vars, pool, dbVars, envVars, consecutiveShouldReorgGaps>>

ToPublish == Pack(ItemsFrom(prevMsgCount), dontPublishBlockNum)
Publishable(b) == ~b.error /\ b.sent # <<>>

\* Nothing to publish, or the items cannot be packed.
PublishNothing ==
  /\ step = "publish"
  /\ ~Publishable(ToPublish)
  /\ EndRound
  /\ UNCHANGED <<l1Vars, pool, dbVars, envVars, latestChainTime, consecutiveShouldReorgGaps>>

\* L1 would not take a section any more, or it is ahead of L1.  Mutant: messages
\* are given up a block before L1 refuses them.
Outdated_Early(b) ==
  \E i \in DOMAIN b.sections :
    \/ block - b.sections[i].l1BlockNumber >= MaxDelay.blocks
    \/ block * BlockTime - b.sections[i].l1Timestamp >= MaxDelay.seconds
Outdated(b) ==
  \E i \in DOMAIN b.sections :
    \/ NewestChainTime.block - b.sections[i].l1BlockNumber > MaxDelay.blocks
    \/ NewestChainTime.seconds - b.sections[i].l1Timestamp > MaxDelay.seconds
    \/ b.sections[i].l1BlockNumber - NewestChainTime.block > MaxL1BackwardsReorg
    \/ b.sections[i].l1Timestamp - NewestChainTime.seconds > MaxL1BackwardsReorg * 15

\* The time of everything from prevMsgCount on is rewritten (reorgToNewTimestamp),
\* but only when that has been seen ShouldReorgGaps times in a row.
GapsConsistent == consecutiveShouldReorgGaps + 1 >= ShouldReorgGaps

Retimed(items) ==
  [i \in DOMAIN items |->
     IF items[i].msg.kind = "delayed" THEN items[i]
     ELSE [items[i] EXCEPT !.msg.l1BlockNumber = NewestChainTime.block,
                           !.msg.l1Timestamp = NewestChainTime.seconds]]

PublishOutdated ==
  /\ step = "publish"
  /\ Publishable(ToPublish) /\ Outdated(ToPublish)
  /\ IF GapsConsistent
     THEN /\ db' = ItemsBefore(prevMsgCount) \o Retimed(ItemsFrom(prevMsgCount))
          /\ parted' = (parted \/ messageCount > prevMsgCount)
          /\ consecutiveShouldReorgGaps' = 0
     ELSE /\ consecutiveShouldReorgGaps' = consecutiveShouldReorgGaps + 1
          /\ UNCHANGED <<db, parted>>
  /\ EndRound
  /\ UNCHANGED <<l1Vars, pool, delayedDb, otherDb, envVars, latestChainTime>>

\* The batch is sent with the next nonce and takes the first n items.  The
\* mempool may hold one with this nonce already, which it replaces.  The round
\* goes on until all items are sent; one that was begun because a batch was full
\* ends when no other is.
Batch(n, sections) ==
  LET before == ItemsBefore(prevMsgCount)
      items == SubSeq(ItemsFrom(prevMsgCount), 1, n)
  IN  [nonce |-> nextNonce, before |-> before, items |-> items, sections |-> sections,
       afterAcc |-> Msgs(before \o items)]

PublishBatch ==
  /\ step = "publish"
  /\ Publishable(ToPublish) /\ ~Outdated(ToPublish)
  /\ nextNonce >= nonce
  /\ \E n \in DOMAIN ItemsFrom(prevMsgCount) :
       /\ n = Len(ToPublish.sent)
       /\ pool' = {t \in pool : t.nonce # nextNonce} \cup {Batch(n, ToPublish.sections)}
  /\ \/ /\ ~ToPublish.all /\ Cardinality(pool') < ParallelPublishingBatches
        /\ prevMsgCount' = EndSeqNum(Last(ToPublish.sent)) + 1
        /\ nextNonce' = nextNonce + 1
        /\ UNCHANGED <<step, chainTime, creatingBatch, dontPublishBlockNum>>
     \/ EndRound
  /\ consecutiveShouldReorgGaps' = 0
  /\ UNCHANGED <<l1Vars, dbVars, envVars, latestChainTime>>

\* Sending fails: the nonce is used, the mempool keeps what it has, or L1 cannot
\* be reached.
PublishRefused ==
  /\ step = "publish"
  /\ Publishable(ToPublish) /\ ~Outdated(ToPublish)
  /\ EndRound
  /\ consecutiveShouldReorgGaps' = 0
  /\ UNCHANGED <<l1Vars, pool, dbVars, envVars, latestChainTime>>

(***************************************************************************)
(* L1: the batches of the account run in the order of their nonces.        *)
(***************************************************************************)
LandBatch ==
  \E t \in pool :
    /\ t.nonce = nonce
    /\ LET run == L1!RunBatch(Self, t.sections)
       IN  IF run.ok /\ run.count > messageCount /\ run.log = t.afterAcc
           THEN /\ l1Items' = t.before \o t.items
                /\ messageCount' = run.count /\ totalDelayedMessagesRead' = run.total
           ELSE UNCHANGED <<l1Items, messageCount, totalDelayedMessagesRead>>
    /\ nonce' = nonce + 1
    /\ pool' = pool \ {t}
    /\ UNCHANGED <<block, delayedInbox, mined, dbVars, envVars, latestChainTime,
                   loopVars, consecutiveShouldReorgGaps>>

MineBlock ==
  /\ block < MaxBlock
  /\ block' = block + 1
  /\ mined' = [items |-> l1Items, count |-> messageCount, nonce |-> nonce]
  /\ UNCHANGED <<delayedInbox, l1Items, messageCount, totalDelayedMessagesRead, nonce, pool,
                 dbVars, envVars, latestChainTime, loopVars, consecutiveShouldReorgGaps>>

DeliverDelayed ==
  /\ Len(delayedInbox) < MaxDelayed /\ block <= LastDelivery
  /\ delayedInbox' = Append(delayedInbox, [l1BlockNumber |-> block,
                                           l1Timestamp |-> block * BlockTime])
  /\ UNCHANGED <<block, l1Items, messageCount, totalDelayedMessagesRead, mined, nonce,
                 pool, dbVars, envVars, latestChainTime, loopVars, consecutiveShouldReorgGaps>>

\* An L1 reorg takes away a delayed message of a recent block.
ReorgDelayed ==
  /\ Len(delayedInbox) > totalDelayedMessagesRead
  /\ Last(delayedInbox).l1BlockNumber > block - 1 - MaxL1Reorg
  /\ delayedInbox' = Front(delayedInbox)
  /\ UNCHANGED <<block, l1Items, messageCount, totalDelayedMessagesRead, mined, nonce,
                 pool, dbVars, envVars, latestChainTime, loopVars, consecutiveShouldReorgGaps>>

\* The inbox reader brings the delayed messages of mined blocks.
ReadDelayed ==
  /\ delayedDb' = SubSeq(delayedInbox, 1, DelayedCount(delayedInbox, block - 1))
  /\ delayedDb' # delayedDb
  /\ UNCHANGED <<l1Vars, pool, db, otherDb, parted, envVars, latestChainTime, loopVars,
                 consecutiveShouldReorgGaps>>

\* The readers bring the batches of mined blocks.  What they contradict is
\* replaced, and what followed it is gone.
ReadBatches ==
  /\ ~IsPrefix(mined.items, db)
  /\ db' = mined.items
  /\ UNCHANGED <<l1Vars, pool, delayedDb, otherDb, parted, envVars, latestChainTime, loopVars,
                 consecutiveShouldReorgGaps>>

OtherReadsBatches ==
  /\ ~IsPrefix(mined.items, otherDb)
  /\ otherDb' = mined.items
  /\ UNCHANGED <<l1Vars, pool, delayedDb, db, parted, envVars, latestChainTime, loopVars,
                 consecutiveShouldReorgGaps>>

Next ==
  \/ SendTransaction
  \/ LoseLockout \/ GainLockout
  \/ OtherSequences \/ OtherPublishes
  \/ BeginRound
  \/ SequenceDelayed \/ NothingDelayed \/ DelayedFails
  \/ UpdateChainTime
  \/ PublishNothing \/ PublishOutdated \/ PublishBatch \/ PublishRefused
  \/ LandBatch
  \/ MineBlock \/ DeliverDelayed \/ ReorgDelayed
  \/ ReadDelayed \/ ReadBatches \/ OtherReadsBatches

Spec == Init /\ [][Next]_vars

-----------------------------------------------------------------------------
Times == [block : Nat, seconds : Nat]

\* The types of the batcher's state and of the L1 it sees.
TypeOK ==
  /\ block \in Nat /\ nonce \in Nat
  /\ messageCount \in Nat /\ totalDelayedMessagesRead \in Nat
  /\ mined.count \in Nat /\ mined.nonce \in Nat
  /\ delayedInbox \in Seq(L1!Message) /\ delayedDb \in Seq(L1!Message)
  /\ latestChainTime \in Times /\ chainTime \in Times \cup {NoTime}
  /\ dontPublishBlockNum \in Times \cup {NoTime}
  /\ creatingBatch \in BOOLEAN /\ parted \in BOOLEAN /\ shouldSequence \in BOOLEAN
  /\ prevMsgCount \in Nat /\ nextNonce \in Nat
  /\ consecutiveShouldReorgGaps \in Nat

\* The L1 inbox and the database do not part: whatever lands is what the database
\* says was sequenced, although batches wait in the mempool, are replaced and
\* overtaken, the lockout moves on, and items that have become too old are given
\* a new time while batches with the old one are still under way (publishBatch,
\* reorgToNewTimestamp).  Two things can part them: a retiming in a round that
\* began before the messages landed, for prevMsgCount is then outdated, and the
\* other sequencer's going on from messages that were retimed here only.
PublishedMatchesSequenced == ~parted => IsPrefix(log, Msgs(db))

\* The sections of every batch that L1 may still take mean the items they were
\* made from, to the contract (CalcL2Batch, IncludeDelayedMessages) and to the
\* nodes that unpack them (SequencerBatch.GetItems).
BatchesUnpackToItems ==
  \A t \in {u \in pool : IsPrefix(l1Items, u.before)} :
    LET AddSection(run, s) ==
          LET items == L1!CalcL2Batch(run, Self, s)
          IN  IF s.newTotal > run.total
              THEN L1!IncludeDelayedMessages(items, s.newTotal, s.l1BlockNumber,
                                             s.l1Timestamp, s.delayedAcc)
              ELSE items
        contract == FoldLeft(AddSection,
                             [ok |-> TRUE, log |-> Msgs(t.before),
                              count |-> MessageCount(t.before),
                              total |-> TotalDelayedSequenced(t.before)],
                             t.sections)
    IN  /\ contract.log = t.afterAcc
        /\ GetItems(Self, t.sections, MessageCount(t.before), contract.count) = t.items

\* A delayed message that has been sequenced stays in the L1 inbox as it was,
\* although the reader's copy may be outdated when it is sequenced and L1 may
\* reorganize blocks younger than the target delay (deliverDelayedMessages).
SequencedDelayedSettled ==
  \A i \in DOMAIN db :
    db[i].msg.kind = "delayed" =>
      /\ db[i].msg.to <= Len(delayedInbox)
      /\ db[i].msg.delayedAcc = SubSeq(delayedInbox, 1, db[i].msg.to)
=============================================================================
