--------------------------- MODULE SequencerInbox ---------------------------
(***************************************************************************)
(* The two inboxes of the rollup on L1: the delayed inbox that Bridge.sol  *)
(* keeps, to which anyone can add, and the sequencer inbox                 *)
(* (SequencerInbox.sol), which fixes the order the messages are executed   *)
(* in.  A sequencer builds a batch off chain against the inboxes it sees   *)
(* and the transaction lands later, when blocks have passed, messages have *)
(* been forced in, another sequencer's batch has landed or an L1 reorg has *)
(* taken away a delayed message.                                           *)
(*                                                                         *)
(* An accumulator is a hash over everything before it: it is modelled by   *)
(* what it commits to.  A delayed accumulator is the sequence of delayed   *)
(* messages; the running accumulator of the sequencer inbox is the         *)
(* sequence of hash steps, log; inboxAccs holds, for each batch, how long  *)
(* log was at its end.                                                     *)
(***************************************************************************)
EXTENDS Integers, Sequences, SequencesExt

CONSTANTS
  Sequencers,           \* the addresses that may be made sequencers
  ZeroAddress,          \* address(0), the sender of an end-of-block message
  NoBatch,              \* no batch transaction in flight
  Delays,               \* the windows tried, [blocks : Nat, seconds : Nat]
  BlockTimes,           \* the seconds an L1 block may take
  WordBits,             \* width of a uint256
  MaxBlock, MaxDelayed, MaxMessages, MaxItems, MaxSections,  \* bounds
  LastDelivery          \* bound: the last block in which a message is delivered

ASSUME InboxAssumption ==
  /\ Delays # {} /\ Delays \subseteq [blocks : Nat, seconds : Nat]
  /\ BlockTimes # {} /\ BlockTimes \subseteq Nat \ {0}
  /\ WordBits \in Nat /\ MaxBlock < 2 ^ WordBits
  /\ \A b \in {MaxBlock, MaxDelayed, MaxMessages, MaxItems, MaxSections, LastDelivery} :
       b \in Nat

VARIABLES
  block, timestamp,             \* of the L1 block that runs the transactions
  delayedInbox,                 \* Bridge.inboxAccs, as the messages delivered
  log, inboxAccs, messageCount, totalDelayedMessagesRead,
  isSequencer, maxDelay, isShutdownForNitro,
  inFlight                      \* the batch transaction each sequencer has sent

inboxVars == <<log, inboxAccs, messageCount, totalDelayedMessagesRead>>
clockVars == <<block, timestamp>>
adminVars == <<isSequencer, maxDelay, isShutdownForNitro>>
vars == <<clockVars, delayedInbox, inboxVars, adminVars, inFlight>>

\* Addition of uint256, which Solidity 0.6 does not check.
Plus(a, b) == (a + b) % 2 ^ WordBits

\* Bridge.inboxAccs(n - 1), the accumulator of the first n delayed messages
DelayedAcc(n) == SubSeq(delayedInbox, 1, n)

Init ==
  /\ block = 0 /\ timestamp = 0
  /\ delayedInbox = <<>>
  /\ log = <<>> /\ inboxAccs = <<>>
  /\ messageCount = 0 /\ totalDelayedMessagesRead = 0
  /\ isSequencer \in {{s} : s \in Sequencers}
  /\ maxDelay \in Delays
  /\ isShutdownForNitro = FALSE
  /\ inFlight = [s \in Sequencers |-> NoBatch]

(***************************************************************************)
(* The L1 chain: blocks follow each other; a message is delivered to the   *)
(* bridge; a reorg drops the newest delayed message.  (A reorg that drops  *)
(* one already read drops its reading with it: the state goes back to an   *)
(* earlier one, with the batches in flight kept.)                          *)
(***************************************************************************)
AdvanceBlock ==
  /\ block < MaxBlock
  /\ block' = block + 1
  /\ \E dt \in BlockTimes : timestamp' = timestamp + dt
  /\ UNCHANGED <<delayedInbox, inboxVars, adminVars, inFlight>>

DeliverMessageToInbox ==
  /\ Len(delayedInbox) < MaxDelayed
  /\ block <= LastDelivery
  /\ delayedInbox' =
       Append(delayedInbox, [l1BlockNumber |-> block, l1Timestamp |-> timestamp])
  /\ UNCHANGED <<clockVars, inboxVars, adminVars, inFlight>>

DropDelayedMessage ==
  /\ Len(delayedInbox) > totalDelayedMessagesRead
  /\ delayedInbox' = Front(delayedInbox)
  /\ UNCHANGED <<clockVars, inboxVars, adminVars, inFlight>>

(***************************************************************************)
(* One section of a batch.  run is what the loop of                        *)
(* addSequencerL2BatchImpl carries: the accumulator, the message count,    *)
(* and totalDelayedMessagesRead, which each section writes to storage.     *)
(***************************************************************************)
Item(sender, seqNum, l1BlockNumber, l1Timestamp) ==
  [kind |-> "item", sender |-> sender, seqNum |-> seqNum,
   l1BlockNumber |-> l1BlockNumber, l1Timestamp |-> l1Timestamp]
DelayedSpan(count, from, to, delayedAcc) ==
  [kind |-> "delayed", count |-> count, from |-> from, to |-> to,
   delayedAcc |-> delayedAcc]

CalcL2Batch(run, sender, s) ==
  [run EXCEPT
     !.log = @ \o [i \in 1 .. s.numItems |->
                     Item(sender, run.count + i - 1, s.l1BlockNumber, s.l1Timestamp)],
     !.count = @ + s.numItems]

\* Mutants: no end-of-block message; it is not counted.
IncludeDelayedMessages_NoEndOfBlock(run, to, l1BlockNumber, l1Timestamp, delayedAcc) ==
  [run EXCEPT
     !.log = Append(@, DelayedSpan(run.count, run.total, to, delayedAcc)),
     !.count = run.count + to - run.total, !.total = to]
IncludeDelayedMessages_OffByOne(run, to, l1BlockNumber, l1Timestamp, delayedAcc) ==
  LET end == run.count + to - run.total
  IN  [run EXCEPT
         !.log = @ \o <<DelayedSpan(run.count, run.total, to, delayedAcc),
                        Item(ZeroAddress, end, l1BlockNumber, l1Timestamp)>>,
         !.count = end, !.total = to]
IncludeDelayedMessages(run, to, l1BlockNumber, l1Timestamp, delayedAcc) ==
  LET end == run.count + to - run.total
  IN  [run EXCEPT
         !.log = @ \o <<DelayedSpan(run.count, run.total, to, delayedAcc),
                        Item(ZeroAddress, end, l1BlockNumber, l1Timestamp)>>,
         !.count = end + 1, !.total = to]

\* DELAYED_TOO_FAR and DELAYED_ACC.  Mutant: the accumulator is not compared.
DelayedAccMatches_LengthOnly(to, delayedAcc) == to <= Len(delayedInbox)
DelayedAccMatches(to, delayedAcc) ==
  to <= Len(delayedInbox) /\ delayedAcc = DelayedAcc(to)

\* BLOCK_TOO_OLD, BLOCK_TOO_NEW, TIME_TOO_OLD, TIME_TOO_NEW
SectionInWindow(s) ==
  /\ Plus(s.l1BlockNumber, maxDelay.blocks) >= block
  /\ s.l1BlockNumber <= block
  /\ Plus(s.l1Timestamp, maxDelay.seconds) >= timestamp
  /\ s.l1Timestamp <= timestamp

\* DELAYED_BACKWARDS, MUST_DELAYED_INIT, MUST_DELAYED_INIT_START.
SectionReads(run, s) ==
  s.newTotal >= run.total /\ s.newTotal >= 1 /\ (run.total >= 1 \/ s.numItems = 0)

RunSection(run, sender, s) ==
  LET items == CalcL2Batch(run, sender, s)
      reads == s.newTotal > run.total
  IN  IF /\ run.ok
         /\ SectionInWindow(s) /\ SectionReads(run, s)
         /\ reads => DelayedAccMatches(s.newTotal, s.delayedAcc)
      THEN IF reads
           THEN IncludeDelayedMessages(items, s.newTotal, s.l1BlockNumber,
                                       s.l1Timestamp, s.delayedAcc)
           ELSE items
      ELSE [run EXCEPT !.ok = FALSE]

RunStart ==
  [ok |-> TRUE, log |-> log, count |-> messageCount, total |-> totalDelayedMessagesRead]
RunBatch(sender, sections) ==
  LET runs[i \in 0 .. Len(sections)] ==
        IF i = 0 THEN RunStart ELSE RunSection(runs[i - 1], sender, sections[i])
  IN  runs[Len(sections)]

PushAcc(run) ==
  /\ log' = run.log
  /\ inboxAccs' = Append(inboxAccs, Len(run.log))
  /\ messageCount' = run.count
  /\ totalDelayedMessagesRead' = run.total

(***************************************************************************)
(* A sequencer's batch.  SendBatch is the batcher's publishBatch: it       *)
(* computes, from the inboxes as they are now, the accumulator the batch   *)
(* must end with.  The contract recomputes it when the transaction runs;   *)
(* any failed require reverts the transaction.  Batches that would revert  *)
(* now are not sent: one that succeeds later ends with the accumulator of  *)
(* then and so, but for the times in its sections, may be sent then.       *)
(***************************************************************************)
Sections ==
  LET stamps == {[l1BlockNumber |-> block, l1Timestamp |-> timestamp]}
                  \cup (IF delayedInbox = <<>> THEN {} ELSE {Last(delayedInbox)})
  IN  {[numItems |-> n, l1BlockNumber |-> t.l1BlockNumber, l1Timestamp |-> t.l1Timestamp,
        newTotal |-> d, delayedAcc |-> DelayedAcc(d)] :
         n \in 0 .. MaxItems, t \in stamps,
         d \in totalDelayedMessagesRead .. Len(delayedInbox)}

SendBatch(sender) ==
  /\ inFlight[sender] = NoBatch
  /\ \E n \in 1 .. MaxSections : \E sections \in [1 .. n -> Sections] :
       LET run == RunBatch(sender, sections)
       IN  /\ run.ok
           /\ messageCount < run.count /\ run.count <= MaxMessages
           /\ inFlight' = [inFlight EXCEPT ![sender] =
                             [sections |-> sections, afterAcc |-> run.log]]
  /\ UNCHANGED <<clockVars, delayedInbox, inboxVars, adminVars>>

\* whenNotShutdownForNitro
BatchesAccepted == ~isShutdownForNitro

BatchAllowed(sender) ==
  LET run == RunBatch(sender, inFlight[sender].sections)
  IN  /\ BatchesAccepted
      /\ sender \in isSequencer                 \* ONLY_SEQUENCER
      /\ run.ok
      /\ run.count > messageCount               \* EMPTY_BATCH
      /\ run.log = inFlight[sender].afterAcc    \* AFTER_ACC

AddSequencerL2Batch(sender) ==
  /\ inFlight[sender] # NoBatch
  /\ BatchAllowed(sender)
  /\ PushAcc(RunBatch(sender, inFlight[sender].sections))
  /\ inFlight' = [inFlight EXCEPT ![sender] = NoBatch]
  /\ UNCHANGED <<clockVars, delayedInbox, adminVars>>

RevertBatch(sender) ==
  /\ inFlight[sender] # NoBatch
  /\ ~BatchAllowed(sender)
  /\ inFlight' = [inFlight EXCEPT ![sender] = NoBatch]
  /\ UNCHANGED <<clockVars, delayedInbox, inboxVars, adminVars>>

(***************************************************************************)
(* Delayed messages forced in without the sequencer: by anyone once the    *)
(* last of them is older than the window, by the owner at the shutdown.    *)
(***************************************************************************)
\* Mutant: a single unread message is not enough.
ReadsForward_OffByOne(n) == n > totalDelayedMessagesRead + 1
ReadsForward(n) == n > totalDelayedMessagesRead

ForceInclusionImpl(n) ==
  /\ ReadsForward(n)                            \* DELAYED_BACKWARDS
  /\ n <= Len(delayedInbox)                     \* DELAYED_TOO_FAR
  /\ PushAcc(IncludeDelayedMessages(RunStart, n, block, timestamp, DelayedAcc(n)))

\* MAX_DELAY_BLOCKS, MAX_DELAY_TIME, for the last message that is included.
\* Mutant: for the first one.
WindowExpired_First(n) ==
  LET m == delayedInbox[totalDelayedMessagesRead + 1]
  IN  /\ Plus(m.l1BlockNumber, maxDelay.blocks) < block
      /\ Plus(m.l1Timestamp, maxDelay.seconds) < timestamp
WindowExpired(n) ==
  LET m == delayedInbox[n]
  IN  /\ Plus(m.l1BlockNumber, maxDelay.blocks) < block
      /\ Plus(m.l1Timestamp, maxDelay.seconds) < timestamp

ForceInclusion ==
  /\ ~isShutdownForNitro
  /\ \E n \in totalDelayedMessagesRead + 1 .. Len(delayedInbox) :
       WindowExpired(n) /\ ForceInclusionImpl(n)
  /\ UNCHANGED <<clockVars, delayedInbox, adminVars, inFlight>>

ShutdownForNitro ==
  /\ ~isShutdownForNitro
  /\ isShutdownForNitro' = TRUE
  /\ \/ UNCHANGED inboxVars
     \/ \E n \in totalDelayedMessagesRead + 1 .. Len(delayedInbox) : ForceInclusionImpl(n)
  /\ UNCHANGED <<clockVars, delayedInbox, isSequencer, maxDelay, inFlight>>

UndoShutdownForNitro ==
  /\ isShutdownForNitro
  /\ isShutdownForNitro' = FALSE
  /\ UNCHANGED <<clockVars, delayedInbox, inboxVars, isSequencer, maxDelay, inFlight>>

(***************************************************************************)
(* The rollup's settings.                                                  *)
(***************************************************************************)
SetIsSequencer ==
  /\ isSequencer' \in SUBSET Sequencers
  /\ \E addr \in Sequencers : isSequencer' \ {addr} = isSequencer \ {addr}
  /\ UNCHANGED <<clockVars, delayedInbox, inboxVars, maxDelay, isShutdownForNitro, inFlight>>

SetMaxDelay ==
  /\ maxDelay' \in Delays
  /\ UNCHANGED <<clockVars, delayedInbox, inboxVars, isSequencer, isShutdownForNitro, inFlight>>

Next ==
  \/ AdvanceBlock
  \/ DeliverMessageToInbox
  \/ DropDelayedMessage
  \/ \E s \in Sequencers : SendBatch(s)
  \/ \E s \in Sequencers : AddSequencerL2Batch(s)
  \/ \E s \in Sequencers : RevertBatch(s)
  \/ ForceInclusion
  \/ ShutdownForNitro
  \/ UndoShutdownForNitro
  \/ SetIsSequencer
  \/ SetMaxDelay

Spec == Init /\ [][Next]_vars

\* L1 produces blocks, and somebody calls forceInclusion when he can: it is
\* open to any address and needs no sequencer.
FairSpec == Spec /\ WF_vars(AdvanceBlock) /\ WF_vars(ForceInclusion)

(***************************************************************************)
(* proveInboxContainsMessage, which the rollup asks when a node is         *)
(* created.  A batch's end is proved by opening the last hash step of its  *)
(* accumulator, which must be an item.                                     *)
(***************************************************************************)
EndProvable(i) == inboxAccs[i] \in DOMAIN log /\ log[inboxAccs[i]].kind = "item"
EndCount(i) == IF i = 0 THEN 0 ELSE log[inboxAccs[i]].seqNum + 1
ProveInboxContainsMessage(i, count) ==
  /\ i > 1 => EndProvable(i - 1)
  /\ EndProvable(i)
  /\ EndCount(i - 1) < count /\ count <= EndCount(i)

-----------------------------------------------------------------------------
Message == [l1BlockNumber : Nat, l1Timestamp : Nat]
Step ==
  [kind : {"item"}, sender : Sequencers \cup {ZeroAddress}, seqNum : Nat,
   l1BlockNumber : Nat, l1Timestamp : Nat]
    \cup [kind : {"delayed"}, count : Nat, from : Nat, to : Nat, delayedAcc : Seq(Message)]
Section ==
  [numItems : Nat, l1BlockNumber : Nat, l1Timestamp : Nat, newTotal : Nat,
   delayedAcc : Seq(Message)]
Batch == [sections : Seq(Section), afterAcc : Seq(Step)]

\* The types of the state of the two inboxes (the storage of Bridge.sol and
\* SequencerInbox.sol).
TypeOK ==
  /\ block \in Nat /\ timestamp \in Nat
  /\ delayedInbox \in Seq(Message)
  /\ log \in Seq(Step) /\ inboxAccs \in Seq(Nat)
  /\ messageCount \in Nat /\ totalDelayedMessagesRead \in Nat
  /\ isSequencer \subseteq Sequencers /\ maxDelay \in Delays
  /\ isShutdownForNitro \in BOOLEAN
  /\ inFlight \in [Sequencers -> {NoBatch} \cup Batch]

StepStart(e) == IF e.kind = "item" THEN e.seqNum ELSE e.count
StepEnd(e) == IF e.kind = "item" THEN e.seqNum + 1 ELSE e.count + e.to - e.from
LogEnd(i) == IF i = 0 THEN 0 ELSE StepEnd(log[i])

\* The hash steps give the messages the numbers 0, 1, 2, ... without a gap or
\* an overlap, however batches, sections and forced inclusions follow each
\* other, and messageCount is the next free number (calcL2Batch,
\* includeDelayedMessages).
MessagesNumbered ==
  /\ \A i \in DOMAIN log : StepStart(log[i]) = LogEnd(i - 1)
  /\ messageCount = LogEnd(Len(log))

Spans == {i \in DOMAIN log : log[i].kind = "delayed"}

\* Every delayed message that has been read stands in the sequencer inbox
\* exactly once, in the bridge's order and with the bridge's content, even when
\* an L1 reorg replaced a delayed message under a batch in flight
\* (includeDelayedMessages).
DelayedReadOnceInOrder ==
  /\ totalDelayedMessagesRead <= Len(delayedInbox)
  /\ \A i \in Spans :
       /\ log[i].from < log[i].to /\ log[i].to <= totalDelayedMessagesRead
       /\ log[i].delayedAcc = DelayedAcc(log[i].to)
       /\ \A j \in Spans : i < j => log[i].to <= log[j].from
  /\ \A n \in 1 .. totalDelayedMessagesRead :
       \E i \in Spans : log[i].from < n /\ n <= log[i].to

\* Every message count up to messageCount is proved by exactly one batch, the
\* one that holds the message, so an assertion about any number of messages can
\* be tied to one inbox state (proveInboxContainsMessageImp,
\* proveSeqBatchMsgCount).
EveryCountProvable ==
  \A count \in 1 .. messageCount :
    \E i \in DOMAIN inboxAccs :
      /\ ProveInboxContainsMessage(i, count)
      /\ \A j \in DOMAIN inboxAccs \ {i} : ~ProveInboxContainsMessage(j, count)

\* forceInclusion takes no message from the sequencer while it is still in the
\* sequencer's window: the call checks one message only, but every message it
\* includes is older than the window.
ForcedOnlyAfterWindow ==
  [][\A n \in totalDelayedMessagesRead + 1 .. totalDelayedMessagesRead' :
       (inFlight' = inFlight /\ ~isShutdownForNitro') =>
         /\ block - delayedInbox[n].l1BlockNumber > maxDelay.blocks
         /\ timestamp - delayedInbox[n].l1Timestamp > maxDelay.seconds]_vars

\* A sequencer cannot censor: every delayed message that stays in the bridge is
\* read in the end, by the sequencer or by forceInclusion, unless the inbox is
\* shut down.
DelayedEventuallyRead ==
  \A n \in 1 .. MaxDelayed :
    Len(delayedInbox) >= n ~>
      \/ totalDelayedMessagesRead >= n
      \/ Len(delayedInbox) < n
      \/ isShutdownForNitro
=============================================================================
