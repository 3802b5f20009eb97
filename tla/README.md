# TLA+ models of the Arbitrum classic rollup

This directory holds a TLA+ development of the Arbitrum classic rollup: models of
the L1 contracts that carry its protocol and of the programs that sequencers and
validators run beside them, translated from their source; TLC configurations that
check them on small instances; and TLAPS proofs of the properties that matter most,
for every size of the system.

## 1. The system

Arbitrum classic is an optimistic rollup.  Users' messages enter through an
inbox on L1; validators execute them on the AVM off chain and assert the result
in nodes of a tree kept by an L1 contract; a wrong assertion is beaten in an
interactive challenge; a confirmed node releases L2-to-L1 messages through the
outbox.

### 1.1 Components

| component | source (under `packages/`) | state | operations |
| --- | --- | --- | --- |
| Rollup, user facet | `arb-bridge-eth/contracts/rollup/{RollupCore,Node,Rollup,RollupLib}.sol`, `facets/RollupUser.sol` | node tree, three node counters, staker list and map, zombies, withdrawable funds | newStake, addToDeposit, reduceDeposit, returnOldDeposit, withdrawStakerFunds, stakeOnExistingNode, stakeOnNewNode, confirmNextNode, rejectNextNode, createChallenge, completeChallenge, removeZombie, removeOldZombies |
| Rollup, admin facet | `rollup/facets/RollupAdmin.sol` | pause flag, validator whitelist, parameters, shutdown block | pause/resume, setters, forceResolveChallenge, forceRefundStaker, forceCreateNode, forceConfirmNode, shutdownForNitro |
| Challenge | `challenge/{Challenge,ChallengeLib}.sol`, `libraries/MerkleLib.sol` | commitment root, whose turn, two clocks | bisectExecution, proveContinuedExecution, oneStepProveExecution, timeout, clearChallenge |
| Sequencer inbox | `bridge/SequencerInbox.sol` | accumulator per batch, message count, delayed messages read, delay window, shutdown flag | addSequencerL2Batch, forceInclusion, setMaxDelay, setIsSequencer, shutdownForNitro, proveInboxContainsMessage |
| Bridge | `bridge/Bridge.sol` | delayed-inbox accumulators, allowed inboxes and outboxes, active outbox | deliverMessageToInbox, executeCall, setInbox, setOutbox |
| Inbox | `bridge/Inbox.sol` | whitelist, pause flag | sendL2Message, depositEth, createRetryableTicket: each ends in deliverMessageToInbox |
| Outbox | `bridge/Outbox.sol` | one Merkle root and spent set per confirmed batch, call context | processOutgoingMessages, executeTransaction |
| Nitro migration | `bridge/NitroMigrator.sol` | the step reached | configureDeployment, nitroStep1, nitroStep2, nitroStep3 |
| One-step proof | `arch/OneStepProof*.sol` | none (pure) | executeStep |
| Inbox reader | `arb-node-core/monitor/inboxReader.go` | feed queue, block range, caught-up flag | getMessages, deliverQueueItems, addMessages, reorg search |
| Staker | `arb-node-core/staker/{staker,validator}.go` | strategy, the nodes it was told of or has checked | Act: resolve nodes, advance stake, handle conflicts |
| Validator helpers | `arb-bridge-eth/contracts/validator/{Validator,ValidatorUtils}.sol` | none but the wallet's owner | executeTransactions, returnOldDeposits, timeoutChallenges; views |
| Challenger | `arb-node-core/challenge/*.go` | position in the bisection | HandleConflict |
| Sequencer lockout | `arb-rpc-node/rpc/{lockout,redis}.go` | redis keys, hold/release state | lockoutManager, ShouldSequence |
| Sequencer batcher | `arb-rpc-node/batcher/sequencerBatcher.go` | tx queue, delivery mutex, chain time, counters of the main loop | SendTransaction, deliverDelayedMessages, publishBatch, reorgToNewTimestamp |
| Aggregating batchers | `arb-rpc-node/batcher/{batcher,forwardingBatcher}.go` | pending transactions | SendTransaction |
| Feed | `arb-util/{broadcaster,broadcastclient,wsbroadcastserver}` | catch-up buffer, client set | broadcast, confirm, register/unregister |
| ArbCore | `arb-avm-cpp/data_storage/src/arbcore.cpp` | message, log and send store, machine checkpoints | addMessages, reorg, machine thread |
| AVM | `arb-avm-cpp/{avm,avm_values}` | machine state | one function per opcode |
| Node RPC | `arb-rpc-node/{web3,aggregator,txdb,snapshot,blockcache}` | caches of L2 blocks | queries |
| Token bridge | `arb-bridge-peripherals/contracts/tokenbridge` | gateway maps, escrow | outboundTransfer, finalizeInboundTransfer |

### 1.2 How they interact

* A user's message goes `Inbox -> Bridge.deliverMessageToInbox` (delayed
  inbox).  A sequencer's batch goes straight to `SequencerInbox`, which also
  pulls in delayed messages; anyone may force them in after the delay window.
* `RollupUser.stakeOnNewNode` asks `SequencerInbox.proveInboxContainsMessage`
  up to which message the assertion reads, and writes an event into the delayed
  inbox through `RollupEventBridge`, as do newStake, confirmation and rejection.
* `createChallenge` deploys a `Challenge`, which calls back
  `completeChallenge(winner, loser)` once.
* `confirmNode` passes the sends of the confirmed node to `Outbox`.
* Off chain, the sequencer's batcher feeds the broadcaster; the inbox readers of
  the nodes read the feed and L1 and hand messages to ArbCore; the staker reads
  ArbCore and drives the rollup through the validator wallet contract.

### 1.3 What is hard

On L1, transactions of validators who do not trust each other interleave in any
order; the code relies on counters (`stakerCount`, counts of zombies) where the
protocol speaks of sets of stakers; deadlines of nodes move when siblings appear;
challenges overlap with the resolution of the nodes they are about; a prepared
batch lands after the inbox changed under it.

Off chain, every program acts on what it has read a moment ago.  A validator's
calls are mined after others have moved; a sequencer's answer from redis may be
late or lost; a batch waits in the mempool while the lockout passes to another
sequencer; the goroutines of the RPC calls sequence each other's transactions under
one mutex; a node reads L1 with several calls while L1 is reorganised, and the feed
promises what L1 has not confirmed yet.

`PROJECT.json` lists each such place as a hazard, with the properties that watch it.

### 1.4 What makes each part correct

| part | properties |
| --- | --- |
| Rollup | stakes are paths of the tree; a confirmed node has every active staker on it; a rejected node has none, and some rival has; every sibling had its own challenge window; the funds held are the funds owed |
| Administration | repairs leave the rollup usable and take nobody's stake; after a shutdown everything pending can be confirmed |
| Challenge | the disputed segment shrinks, the clocks account for every block, the game ends, and a punctual party that is right wins |
| Sequencer inbox | every message has one number, each delayed message is read once and in order, a delayed message gets in whatever the sequencer does, every message count can be proved to the rollup |
| Outbox | an output is executed once, with the context of its own sender |
| Staker | one punctual validator is enough for nothing wrong to be confirmed, and it does not lose its stake |
| Lockout | one sequencer at a time, a successor starts after the last message of its predecessor, and some sequencer takes over in the end |
| Batcher | every caller gets one true answer; the order promised on the feed is the order posted on L1; a batch unpacks to what was packed |
| Reader | what it hands to ArbCore is accepted, and ends up as the L1 order whatever it saw before |

## 2. Plan

Written so far, in this order:

1. `Rollup`, `Rollup_proofs`: the user facet, its inductive invariant and the
   theorems of section 5.  `Rollup_proofs` also holds the theorems about the two modules
   that build on `Rollup`, `RollupAdmin` and `Staker`: they use its lemmas.
2. `SequencerInbox`, `SequencerInbox_proofs`: both inboxes, with batches prepared off
   chain that land late.
3. `Challenge`, `ChallengeGame`, `Challenge_proofs`: the contract, and the
   validator's challenger playing in it against any opponent.
4. `RollupAdmin`: the owner's calls over `Rollup`.
5. `Lease`, `LockoutRedis`, `LockoutRedis_proofs`: what the lockout promises, and the
   keys in redis that are shown to implement it.
6. `LockoutManager`, `LockoutManager_proofs`: the manager of each sequencer, over
   `Lease`.
7. `TxQueue`, `TxQueue_proofs`: the concurrent calls of `SendTransaction`.
8. `SequencerBatcher`, `SequencerBatcher_proofs`: the main loop of the batcher, over
   `SequencerInbox`.
9. `ArbCoreInbox`, `InboxReader`, `InboxReader_proofs`: a node that follows L1 and the
   feed.
10. `Staker`: the validator's loop, over `Rollup`.

Next, the most important first:

11. A proof that a punctual validator is never too late (`OnlyCorrectConfirmed` and the
    first half of `StakeIsSafe` of `Staker`), which needs a bound on the turns
    that the others can cost it, and so an assumption that relates its patience to the
    confirmation period.
12. `Outbox`: entries of confirmed nodes, outputs spent once, and the call context under
    nested calls (`Outbox.sol:197`); composed with `Rollup`.
13. The migration steps over `RollupAdmin` and `SequencerInbox`
    (`NitroMigrator.sol:242`), with batches in flight when the inbox is shut down
    (`SequencerInbox.sol:152`); the setters of parameters.
14. `Feed`: the catch-up buffer and the registration of clients
    (`wsbroadcastserver/clientmanager.go:167`).
15. `StakerLists`: `_stakerList` and `_stakerMap` with swap-and-pop
    (`RollupCore.sol:464`), refining the set of stakers of `Rollup`; a comparison of
    `currentRequiredStake` (`RollupUser.sol:484`) with exact arithmetic over its table.

## 3. The modules

A transaction on L1 is atomic and reverts as a whole when a `require` fails.  So
an external function is one action, and each `require` is a conjunct of its
guard; the name of the error code stands beside it where the source has one.
Reading a destroyed node reverts as well, so `live` appears in guards.

### 3.1 `Rollup`

The variables have the names of the contract's fields.  A `Node` contract is
split into functions from node numbers: `prev`, `afterState`, deadline,
proposed block, `latestChildNumber`, `noChildConfirmedBeforeBlock`, `stakers`,
and the set `live` of those not destroyed.  `stakerCount` is the cardinality of
`stakers[n]`.  Hashes (state hash, challenge hash, node hash) are the values
they commit to; a call with data that do not match reverts, so it is no step.

One action per transaction: `NewStake`, `AddToDeposit`, `ReduceDeposit`,
`ReturnOldDeposit`, `WithdrawStakerFunds`, `StakeOnExistingNode`,
`StakeOnNewNode`, `ConfirmNextNode`, `RejectChildOfConfirmed` and
`RejectOutright` (the two branches of `rejectNextNode`), `CreateChallenge` and
`ForfeitLateChallenge` (the branch where the challenger came too late, which
settles at once), `CompleteChallenge`, `RemoveZombie`, `RemoveOldZombies`.
`AdvanceBlock` mines a block and `SequencerBatch` extends the inbox.  The
challenge itself is abstracted to "one of the two parties wins"; module
`Challenge` says which.  `confirmNextNode` and the first branch of
`rejectNextNode` begin with `removeOldZombies(0)`, which is part of their actions.
`ConfirmRequirements` and `ReturnRequirements` are the `require`s of `confirmNextNode`
and `returnOldDeposit`, which `RollupAdmin` asks about on their own.

Funds are amounts of the one stake token; `balance` is what the contract holds.
`currentRequiredStake` is translated with its
tables and its saturation checks, over words of `WordBits` bits.

### 3.2 `RollupAdmin`

Extends `Rollup` with `Pause`, `Resume`, `ForceResolveChallenge`,
`ForceRefundStaker`, `ForceCreateNode`, `ForceConfirmNode`, `ShutdownForNitro`,
`UndoShutdownForNitro`.  The variable `owner` is fixed in `AdminInit` and says which
discipline the owner keeps: `"any"` makes every owner call at any time,
`"repairs"` makes the repair of the repository's test, `"migrates"` makes one final
shutdown, which leaves alternatives and stakers as they are.

Inputs left out: refunding an address that is not a staker
(`RollupAdmin.sol:270`; it would remove the first entry of the list in its
place), and resolving a challenge between an address and itself, which frees
one party only.  Both are mistakes of the owner that the code does not check, hence
the guards `a \in stakerSet` and `a # b`, which are not the code's.  The first
damages the list of stakers, which `Rollup` has as a set (item 15 of the plan is about
the list); the second leaves the address of a destroyed challenge with the other party.

`"any"` is the whole of this facet: `OwnerTakesNothing` and the theorem about it put no
discipline on the owner.  The properties of repairs (`RepairedNotStuck`,
`RepairedConsistent`) are about the calls of the repository's test in any order and
number, with its two rules: a challenge is resolved before a party of it is refunded
(a refund that comes first leaves the other party in a challenge that can never end),
and a node is confirmed by force when no staker is left.  `ShutdownNotStuck` is about a
shutdown that meets neither alternatives nor challenges; 4.3 says what may follow one
that destroys them.

### 3.3 `Challenge` and `ChallengeGame`

A challenge state is a sequence of `n` segments with the gas `offset` and the
claimed machine state `cut` at each boundary; the Merkle root is the sequence
it commits to, so proving a segment is naming its index.  `n = 0` is the empty
root left by a winning proof.  The machine is a constant: `Gas` of each state,
`Succ` of one step, `Blocked` where it cannot step.  Actions: `BisectExecution`,
`ProveContinuedExecution`, `OneStepProveExecution`, `Timeout`, `ClearChallenge`,
`AdvanceBlock`.  A claim may be any state or `Unreachable`, so the opponent may lie
in every way the contract lets through.

`ChallengeGame` fixes the true execution `Truth` and lets one party be right:
`FirstDivergence` and `HandleChallenge` are `handleChallenge` of
`arb-node-core/challenge`, the other party makes any accepted move.

### 3.4 `SequencerInbox`

`log` is the sequence of accumulator steps (a sequencer's item, or a span of
delayed messages), and `inboxAccs[i]` the length of the log that the accumulator
of batch `i` commits to.  A delayed accumulator is a prefix of the delayed inbox.  The
sequencer prepares a batch off chain (`SendBatch`); it lands later
(`AddSequencerL2Batch`) or reverts (`RevertBatch`).  In between,
`ForceInclusion`, `DropDelayedMessage` (an L1 reorganisation takes back the
newest delayed message, not yet read), `SetMaxDelay`, `SetIsSequencer`,
`ShutdownForNitro` and `UndoShutdownForNitro` may happen.  `SendBatch` sends only what
would succeed at once: a batch that fails now and succeeds later ends with the
accumulator of then, so nothing but older times in its sections is lost.  Sums that the code
leaves unchecked are taken modulo `2 ^ WordBits`.  `RunBatch` is the loop over the
sections of a batch: a recursive function of the number of sections done.

### 3.5 `Lease` and `LockoutRedis`

`Lease` is what the manager counts on: the key is some sequencer's or no one's, and
a sequencer that counts on the lockout (`has`) is the one whose key it is.
`Grant`, `Stray` (the key is set and its client does not know), `Lapse`, `Expire`.

`LockoutRedis` is `redis.go`.  `lockKey` and `lockTTL` are the key in redis and the
time it has left; `lockLeft[s]` is the time left until the client's `*hasLockUntil`
(zero once it has passed, or is the zero time); `cmd[s]` the attempt the client
waits for; `late` the attempts that are still on their way though their client has
given them up or died.  Time is counted in ticks, all as differences to now, so
the state is finite.

`AcquireOrUpdateLockout` and `ReleaseLockout` start a call.  Its attempt is
`Answered` (redis executes it and the call returns), `Retried` (`withRetry` got an
error) or `GivenUp` (the context ended); `Killed` ends the process.  An attempt that was
given up, or repeated because its answer was lost, still arrives (`LateArrives`) or
not (`LateLost`).  An attempt arrives
within `MaxLatency` of its start: this is what the option `max-latency` stands for.
The `until` of an attempt is the deadline of its context, which `withRetry`
looks at before each repetition; `SetNX` has no deadline of its own.

The manager is abstracted to a client that makes any call at any time.  The
liveliness keys use the same methods, one key per sequencer, and are left out.

`crossed` is a history variable.  It becomes true when redis executes a deletion while
another renewal or deletion of the same sequencer is still on its way (`Crosses`): that
one will find the key gone, or another's, and not look.  Lost answers, repeated
acquisitions and renewals, late requests and crashes do not set it.  `ImplementsLease` is
`Lease` with `key <- lockKey` and `has <-` the sequencers whose `lockLeft` is positive, up
to the first such crossing; 4.3 shows what happens after one.

### 3.6 `LockoutManager`

`lockout.go`, over `Lease`.  `pc[s]` is where the loop of sequencer `s` is; one action per
stretch between two waits: `KeepAlive`, `Select`, `Acquire`, `CatchUp`,
`SequenceDelayedMessages`, `Ready`, `Publish`, `MakeWay`, `Release`, `Follow`,
and `Fails` for the fatal error after a takeover that did not succeed.  `live`, `latest` and
`published` are the liveliness keys, the position in redis and the messages it
counts; `lively` are the sequencers whose `livelinessExpiresAt` has not come, which may
be later or earlier than redis drops the key; `currentBatcher`, `selectedSeq`,
`lastLockedSeqNum`, `targetSeqNum` have the names of the code.  The calls of a node (`SendTransaction`, `LockDelivery`,
`Sequence`) and its inbox reader (`Receive`) run beside the loop and take the
same two mutexes, in their own order.

Faults, `MaxFaults` of them in any place: a process crashes (and restarts), a takeover
fails, an answer to an acquisition is lost (the repeated `SetNX` then finds the
sequencer's own key in the way), or redis is out of reach of a running sequencer for so
long that its lockout or liveliness ends (`LockoutLapses`, `LivelinessLapses`).  Besides,
keys that nobody attends to expire, the position among them (`PositionExpires`: it reads
as 0 from then on, `redis.go:193`), and the last attempt of a dead process may still
arrive (`LateAttempt`).  That a lockout is one sequencer's at a time is `Lease`'s promise,
with the limit of 3.5; that a sequencer which has found that it should sequence does so
before its lockout ends is what the option `max-latency` is for.

`clean` says that the order of the messages was never put at risk.  `Risks` marks the four
steps that do so: a lockout ends while its sequencer has messages that the position does
not count; the position expires before every sequencer has what it counted; a
sequencer regains the lockout with its own batcher still in place and messages of the
position missing (`lockout.go:160` makes it skip the catch-up); delayed messages are
sequenced after the lockout has ended (200 does not ask).

### 3.7 `TxQueue`

`SendTransaction`.  A call is one goroutine; `txQueue` is the Go channel, `mutex` the
holder of `MessageDeliveryMutex`, `step` where the holder is; the other variables
of the holder are its locals (`batchTxs`, `seenOwnTx`, `emptiedQueue`,
`originalAcc`, ...).  Between any two steps of the holder other calls enqueue, so each
access to the channel is an action: `TakeItem`, then one of `PlaceCancelled`,
`PlaceBack`, `PlaceInBatch`, or `QueueDrained`; then `BeginBatch`, `DeliverBatch`,
`AllSucceeded` or `SomeFailed` with the repetition one by one (`SkipFailed`,
`DeliverSingle`, `JudgeSingle`), `DeliverEndOfBlock`, `BroadcastItems`, and `Await`,
which blocks with the mutex held.  `InternalError` is any of the errors that make the
holder return early.  `answers[c]` is all that was sent to the call's `resultChan`.

### 3.8 `SequencerBatcher`

The main loop `Start` and what it publishes, over the state and the arithmetic of
`SequencerInbox`.  A round is `BeginRound`, then the delayed messages
(`SequenceDelayed`, `NothingDelayed`, `DelayedFails`), then `UpdateChainTime`, then
`PublishBatch`, `PublishRefused`, `PublishOutdated` or `PublishNothing` until all
items are sent.  `Pack` is the loop of `publishBatch` and `GetItems` is
`SequencerBatch.GetItems`, by which other nodes unpack it.  `pool` is the mempool:
batches with a nonce, which land in order and whose failure uses the nonce
(`LandBatch`).  L1 mines, delivers and takes back delayed messages; the lockout goes
to another sequencer, who sequences and publishes too.  It has a database of its own
(`otherDb`): each hears what the other broadcasts as long as it continues what it has, and
reads L1.  Messages that get a new time (`reorgToNewTimestamp`) are not broadcast again, so
the other one keeps and publishes them as they were.  When a
batch is created (interval, gas price, gas estimate) is left open, and so is why sending
one fails.

`parted` is a history variable for the two ways in which L1 and the database come
apart: messages get a new time in a round that began before they landed, so that
`prevMsgCount` points behind them (1048); and the other sequencer goes on from a database
that differs from this one.

### 3.9 `ArbCoreInbox` and `InboxReader`

`ArbCoreInbox` is `addMessages` of `arbcore.cpp` as a guard (`Acceptable`: nothing
throws) and an effect (`AddMessages`: what is kept, what is replaced).  An
accumulator is the sequence it commits to.

`InboxReader` is `inboxReader.go`: `Start`, `BeginPass`, `CompareCounts`, `LookupDelayed`,
`LookupBatches` (with delivery or the way back, `GoesBack`), `EndPass`, and between
passes `FeedItem` and `EndFeed`; `ReadFails` is an error of any call, `Restart` a new process on
the old database.  Each call to L1 is an action, and L1 may move
between any two.  The environment mines blocks with delayed messages and
batches, replaces up to `MaxReorg` of the newest blocks by as many others, empty ones that
later blocks may fill, sequences and broadcasts, or hands over to a sequencer that lacks the
last items; what its predecessor broadcast may arrive long after (`late`).  What a
sequencer writes into the core of its own node, past the reader, is not modelled: the node
is one that follows.

### 3.10 `Staker`

Extends `Rollup`.  `Me` runs the code, the others make any transaction.  `Act` reads
the rollup and chooses `calls`; `Mine` decides whether the wallet's transaction
succeeds as a whole (`CallSucceeds` for each call, in the state the calls before it
leave), and `Call` then executes them one by one with the actions of `Rollup`, with
nothing in between.  `ReturnOldDeposits` and `TimeoutChallenges` are the wallet's two
batch calls that skip what fails.  `Watch` is a turn of a validator that is not active: it only
remembers (`bringActiveUntilNode`, `inactiveLastCheckedNode`).  `correct` is the set of nodes that
follow from the chain's messages.  `Patience` bounds the blocks for which the
loop waits for its turn, or its transaction for the miner; `shouldAct`'s wait for a
better gas price lies within it.

Abstractions: the reads of one turn see one state; the node has caught up;
`DontChallenge` is off; a destination for withdrawals is set; a challenge that `Me`
is in ends with `Me` as the winner, which is `RightWins` of `ChallengeGame` and holds
within the limit of finding 1.

## 4. What TLC checks

| run | bounds | shows |
| --- | --- | --- |
| `rollup_tree` | 3 validators, 3 nodes besides genesis, 7 blocks, uneven stakes | the tree, the stakes, the zombies, what confirmation and rejection may do, conservation of funds, the clocks of challenges |
| `admin` | 2 validators, 2 nodes, 3 blocks, three kinds of owner | no owner call takes funds, and the balance covers all that is owed whatever the owner calls; a disciplined repair keeps the tree sound and usable; after a shutdown something can be confirmed or returned as long as a staker is ahead |
| `inbox_batches` | 1 sequencer, batches of 2 sections, 2 delayed messages, 5 messages, 3 blocks | numbering, reading of delayed messages, forced inclusion, provability (shutdowns between them included), and that a delayed message is read in the end |
| `challenge_game` | gas 0..5, 8 machine states, degree 2, clocks 1 and 2 | the party that is right keeps a move, loses only by delay and wins if punctual |
| `challenge_unreachable` | the same with a machine that waits for a message before the end of the segment | finding 1 |
| `lockout` | 2 sequencers, timeout 3, latency 1 | until a deletion crosses with another attempt: the keys in redis implement `Lease` and nobody touches another's lockout, whatever is slow, late, lost or repeated; always: an abandoned lockout expires |
| `lockout_manager` | 2 sequencers, 1 message, 1 fault (crash, failed takeover, lost answer, lost contact) | no two sequencers disagree on a message unless one of four steps put the order at risk; no circle of forwarding; some node sequences again and again, unless all are in the deadlock of their mutexes |
| `tx_queue` | 4 calls, two of them of one transaction, one that may fail, queue of 2, 2 troubles (errors, cancelled calls, lost lockouts) | one true answer per call, a feed that follows the database, and every queued call returns |
| `tx_queue_put_back` | 3 calls, two of which fill a batch each and may fail | finding 2 |
| `batcher` | 6 blocks, 2 delayed messages, 1 call, 1 handover, batches of 4 items, 2 in parallel, delay window 2, retiming at the first attempt | L1 stays a prefix of what was sequenced, retimed messages included, unless one of two steps parts them; batches unpack to what was packed; sequenced delayed messages are settled |
| `inbox_reader` | 5 blocks, 2 delayed messages, 2 items, reorganisations of 1 block, 1 fault, windows of 2 | ArbCore accepts all it is given, the feed is appended only at the end, and the node ends up with L1's batches |
| `staker` | 3 validators, 4 nodes (2 own), 8 blocks, confirm period 5, patience 1, all four strategies | nothing wrong is confirmed while one punctual validator with `StakeLatest` or `Defensive` is there, and the stake of a punctual one is safe with every strategy |

### 4.1 Why the bounds are enough

* `rollup_tree`: three validators and three nodes give a node with two rival
  children, a winner, a loser turned zombie, and a bystander who stakes late; with two
  nodes under one and one under the other, resolution crosses branches.  Seven
  blocks outlast two confirmation periods of two blocks, so deadlines, late
  siblings and late challenges all occur.  `AddToDeposit` makes the two stakes of a
  challenge uneven, so that the winner's part, the half and the rest of a lost
  stake differ.  Larger trees are left to the proofs.
* `admin`: two nodes and two validators give an alternative, a challenge, and a node
  that a forced confirmation skips.
* A batch of two sections exercises the hand-over of counts between sections; two
  delayed messages tell "first", "last" and "all" apart.  Delivery stops after
  block `LastDelivery`, so the last message's window ends within `MaxBlock`.
* A disputed segment of gas 5 with degree 2 takes up to three bisections, has segments of
  odd length, of length one, and steps that use more than one gas.
* `lockout` (416,556 states): two sequencers are one with attempts under way and one that
  acquires meanwhile.  A timeout of 3 is the least that `TimeAssumption` allows for a latency
  of 1, hence the tightest case.  That `crossed` is met, and needed, was seen by leaving it
  out: without it two sequencers have the lockout after 12 states; without it for renewals
  only, `OwnLockoutOnly` fails after 9.
* `lockout_manager` (527,606 states): two sequencers suffice for handovers that cross, for a
  circle, and for a position read before its writer is done; the fault may come at every
  place of the loop.  With 2 messages it was checked once (4,135,820 states).  All four risks
  are met, and needed: leaving out one of them breaks `HandoverKeepsOrder` after 19, 22, 33 and 19
  states (in the order of 3.6).
* `tx_queue`: two calls send one transaction, which may fail; the transactions of the two
  others fill a batch each, so one of them is put back or, when the queue of two has filled up
  meanwhile, refused.  The full ones do not fail in this run: that case is finding 2.
* `batcher` (1,579,729 states): a delay window of two blocks within six lets items grow too
  old, be retimed at the first attempt, and be published afterwards, by this sequencer or,
  with their old times, by the other one; two batches in parallel may
  be overtaken or replaced.  The code retimes at the tenth of consecutive attempts
  (`ShouldReorgGaps`); an attempt that only counts ends the round and changes nothing else,
  so the run covers it by rounds that publish nothing.  Both ways of `parted` are met, and needed: leaving one out breaks
  `PublishedMatchesSequenced` after 16 and 23 states.  Checked once with
  `ShouldReorgGaps` 2: 7 blocks and 2 delayed messages (3.73 million states), and 7 blocks, 1
  delayed message and 2 calls (2.1 million).  Times never run ahead of L1 in the model, whose
  head does not move back, so the half of the test that is about messages ahead
  (901-903) is written and never met.
* `inbox_reader` (1,026,582 states): five blocks hold a batch before, in and after a reorganised block;
  safety was also checked with 5 blocks, 2 items, 2 faults and reorganisations, delays and
  target delay of 2.  Larger instances are left to the proofs.
* `staker`: the others have two nodes of their own, enough for a wrong node, a wrong
  child of it, or a younger correct sibling.  With a patience of 1 a confirm period of 4
  blocks is too short: a plan that reverts because one of its nodes was confirmed
  meanwhile costs the turn, and a wrong node's deadline passes.  5 is enough, hence
  the tightest case.
* `MaxSequenced`, `MaxMessages`, and in `Rollup` `MaxDelayed` (how often somebody stakes
  anew) and `MaxBalance` (what can be at stake) make the state finite.

`CHECK_DEADLOCK FALSE` is set where the system may stop: a decided challenge, an
inbox or a batcher at its bound of blocks, a queue all of whose calls have returned,
sequencers that are all in the deadlock of their mutexes.

### 4.2 Fairness

* `inbox_batches`: blocks are mined, and `forceInclusion` is called by anybody who
  waits for the message.  Nothing is assumed of the sequencer or of the owner, whose delay
  changes are among the two values tried.
* `challenge_game`: blocks are mined, anybody calls `timeout`, and the
  right party's node keeps calling its challenger.  Nothing is assumed of the opponent.
* `lockout`: time passes, and an attempt ends when its latency is over.  Nothing is
  assumed of the managers: they may die, or never release.
* `lockout_manager`: each goroutine goes on when it can, what is broadcast arrives, keys expire,
  and a process that died is started again.  A goroutine that waits for a mutex is not
  promised to get it: two may wait for each other (`Stuck`) until their process is started
  again, which is not assumed of one that runs.  `SequencingResumes` holds nevertheless while
  one node is not stuck, because the keys of the others expire.
* `tx_queue`: some goroutine that can run does, no more: a call may be overtaken at the
  mutex for ever while others come.  Nothing makes a client call or cancel.
* `inbox_reader`: the reader's loop goes on.  L1 need not grow, and the feed need not
  deliver anything.

The other runs check safety only.

### 4.3 Findings

1. `challenge_unreachable`.  `docs/Rollup_Protocol.md` says "An honest staker will
   never lose a challenge".  `bisectExecution` rejects an unreachable first cut but
   takes any cuts after it, so an opponent may claim a reachable state behind an
   unreachable one.  Where the positions are truly unreachable, the only segment
   with a false end then starts at an unreachable cut, which no move can open:
   the party that is right has no accepted move and times out.
   `RightHasMove` and `RightNotBeaten` are proved under the assumption
   that the machine reaches every cut, which is what the run drops;
   `AsserterHasMove` holds without it.
2. `tx_queue_put_back`.  A transaction that does not fit into the batch is put back into
   the channel, under the comment "Put the tx back in the queue so it can be included
   later" (`sequencerBatcher.go:338`).  When this is the holder's own transaction and
   every transaction of the batch fails, the holder takes the branch of line 485 and
   waits for its own answer.  Only a later holder of the delivery mutex could send
   it, and the mutex is held by the one who waits: the sequencer stops.

Other things learnt while modelling, which no run of this project contradicts or
depends on:

*Contracts.*  `STAKED_ON_TARGET`, `INVALID_PREV` and the `DELAYED_BACKWARDS` of
batches are redundant (without them the other checks of the call give the same
safety).  The youngest child of the latest confirmed node can never be rejected
(`OlderSiblingLive`), and node creation relies on it.  The clocks given to a new
challenge cannot underflow.  A delay near `2^256` would open the window of forced
inclusion at once (`SequencerInbox.sol:134`).  The bisection degree is a storage
variable of the rollup (`Rollup.sol:159`) and a constant of the challenger
(`execution.go:17`), so `DegreeAssumption` is the owner's to keep.
`shutdownForNitro` reverts when a rejected node lies between the latest confirmed
and the latest created one, and accepts a final node that does not descend from the
confirmed one.  With `destroyAlternatives` it may leave a state in which the
pending nodes cannot all be confirmed, which `nitroStep2` expects
(`RollupAdmin.sol:395`, `NitroMigrator.sol:74`): it withdraws the stakers whose
latest node it destroyed but leaves them on the nodes that remain, and the counts
of `confirmNextNode` never match again.  If the shutdown is undone, such a validator may stake
again and create a node beside the one it was left on; it is then on both, can be named
as both parties of a challenge and forfeits to itself, which leaves the contract with more
than it owes (TLC: 15 states, with one validator and 3 nodes).  Less than it owes it never has
(`OwnerTakesNothingHolds`).  Without it there may still be pending nodes
that nobody can confirm: a child of the latest confirmed node that its only staker
left, by losing a challenge, has no staker, and in a shutdown nobody can stake on it.
So `ShutdownNotStuck` speaks of the nodes up to the last that a staker is on.
`forceConfirmNode` of the confirmed node destroys it.  Time spent paused counts for the deadlines of nodes, although the
comment at `RollupAdmin.sol:62` says otherwise.

*Lockout.*  A renewal or deletion does not look at the value of the key and is
repeated when its answer was lost (`redis.go:57-76`, 124, 158).  Lost answers alone do no
harm: the key that is written or deleted again is still the sequencer's own, for the
deadline of the call ends before the key does.  A deletion ends it at once, and then whatever
else that sequencer has under way hits the key of its successor, or sets
it for one that has gone.  A sequencer deletes, its answer is lost and the deletion is
repeated; the other one acquires between the two, the repetition deletes its key, and the
first one acquires again: both have the lockout, although the comment at
`redis.go:138` says that it "isn't overrun when it is used".  The properties and
theorems of the lockout hold up to such a crossing.  The manager takes `b.mutex`
and then the delivery mutex (`lockout.go:200`; at 232 too when it has kept `b.mutex`
from an earlier turn), a transaction takes them in the other order (`sequencerBatcher.go:287,299`); a sequencer with a call left from an earlier
lockout can stop there (`Stuck` is reached in `lockout_manager`) until it is started
again.  Its keys expire and another takes over; the other one may stop in the same way, and
then nobody sequences (TLC finds both stuck after 47 states).  Each of the four risks of 3.6 does
lose the order: most simply, a sequencer dies before it publishes its position, and its
successor gives the same numbers to other messages; or a sequencer regains the lockout while
`currentBatcher` is still its own and does not catch up (`lockout.go:160`).  The catch-up
compares counts, not accumulators (170), and the position reads as 0 once its key has expired.
The mutex taken for a lockout that could not be acquired is kept over turns in which the
selected sequencer stays the same (`lockout.go:230`), and the node's callers wait for as long.

*Batcher.*  Calls that fail `ShouldSequence` (299-301) leave their items in the
channel, where they take up its places and may be sequenced after their sender got
an error.  An error after the delivery to the database and before the broadcast
leaves a gap in the feed.  The estimate of the batch's gas is reset although items
were held back (802-804, 946-953).  Retiming (1010-1052) changes messages that have
been broadcast.  It starts from the message count that the round read when it began: a batch
that lands meanwhile is retimed in the database although it is on L1, until the reader
puts that right.  And it is not broadcast: another sequencer that takes over goes on from the
messages as they were, and what it publishes replaces them.  These are the two ways of
`parted` (3.8).

*Reader.*  A restarted node may begin behind a delayed message it has not read, when a
feed item's block is more than the recheck distance ahead (`inboxReader.go:542-548`):
this is why `FollowsChain` speaks of batches.  Reorganisations deeper than the
configured delays are fatal for the node: the delayed messages and the batches of a window
are looked up in two calls, and only the delay keeps a reorganisation from coming between
them (`inboxReader.go:295`).  `CoreNeverFails` and `FollowsChain` are about the others.

*Staker.*  `OnlyCorrectConfirmed` is promised for `StakeLatest` and `Defensive` only:
with `MakeNodes`, `removeOldStakers` ends the turn early whenever deposits are
refundable, which others can bring about again and again.  A younger sibling that is equally
correct must be treated as wrong.  No staker is ever behind the latest confirmed
node, so `findStakerConflict` never calls a destroyed one.  `getStakers` of
`ValidatorUtils.sol` returns wrong pages after the first (it uses the end index as
a count), which matters from 1024 stakers on.

## 5. What is proved

For any finite set of validators, any parameters and any bounds (the `ASSUME`s of
`Rollup`), from `Spec` alone:

* `TypeCorrect`.
* `TreeInvariant`: `TreeInv` (in `Rollup_proofs`) is inductive.  The counting checks of
  `confirmNextNode` and `rejectNextNode` are right only because of facts that no
  single transaction establishes: node numbers grow along the tree; the
  unresolved nodes and the latest confirmed one are live; a staker's nodes are
  exactly the live path to its latest node; an active staker's path passes through
  the latest confirmed node; a zombie left behind the first unresolved node is
  on no live node above it; and the two parties of a challenge are staked on different
  children of one node.  Each rests on others, so they are
  proved together, one lemma per transaction.  It says of `live` only that the
  nodes still to be called are there (`NodesInPlace`, `SiblingsInPlace`) and nothing of
  what is below, because an owner who forces a confirmation skips nodes and leaves them;
  that the validators alone leave none is `NothingSkipped`, proved on top of it.
* From it: `StakesArePaths`, `NodeCreationNotWedged`, `ChallengesStayMatched`,
  `ConfirmationIsUnanimous`, `RejectionIsJustified`.  `CountsMeanSets` is the
  step from counts to sets: it turns the equality of cardinalities in the code into
  the inclusion of sets in the property.  `RejectedHadRival`: a child of the latest
  confirmed node is rejected only if an active staker is on an unresolved sibling of it;
  the witness that the caller names passes through the confirmed node, as every
  active staker does.
* `TimeInvariant`: `TimeInv` relates the blocks at which nodes were proposed, their
  deadlines and their parents' `noChildConfirmedBeforeBlock`.  A deadline may be moved
  by a younger sibling and a challenge is started against the deadline of the older
  node, so the bound on the clocks (`TimelyChallenges`) and the window of each
  sibling (`SiblingsHadWindow`) need all of them.  `TimelyChallenges` also says that no checked
  subtraction of `createChallenge` fails for two unresolved siblings, which would leave
  them beyond challenge.
* `FundsAreConserved`: what the contract holds is the sum of the stakes and of
  the withdrawable funds, for any number of validators.  The invariant adds that nobody
  but a staker has a stake, which newStake would otherwise overwrite.  The sum is a fold, whose
  value is moved by one member at a time with `SumFunctionOnSet` lemmas that are
  proved by a least counterexample on cardinality.

For the same constants and an owner who acts between any of these transactions
(`AdminSpec` of `RollupAdmin`):

* `AdminTypeCorrect`, and `OwnerTakesNothingHolds`: whatever the owner calls, no
  validator ends a call with less, staked and withdrawable together, and the balance
  covers all that is staked and withdrawable.  Equality is not what holds of an owner who may
  call anything (4.3, *Contracts*), since its calls break the tree; `CoverInv` needs nothing of
  the tree, only that nobody but a staker has a stake or is in a challenge.  The
  shutdown moves the stakes of many at once (`SumTransfer`).
* `AdminKeepsOrder`: unless the owner calls anything at any time, `OrderInv` is inductive,
  which is `TreeInv`, `FundsInv`, and that nobody is staked on a node to come
  (`NothingAhead`).  A repair leaves the tree in a state in which no transaction of
  validators alone could: nodes confirmed out of order, zombies on nodes that were
  skipped.  `TreeInv` holds of it, so all lemmas about the validators' transactions
  can be used again after any number of repairs.  `RepairsConserveFunds`,
  `RepairsDoNotWedge` and `RepairsKeepConsistency` follow.
* `ShutdownCanBeCompleted`: `MigrationInv` says that after the shutdown the rollup stays
  paused, no staker is in a challenge and the unresolved nodes form one line.  That
  the line has no gap follows from the loop of `shutdownForNitro`, whose path is a
  recursive function (`PathExists`, `PathLinear`).  If a deposit cannot be returned, every
  staker is ahead; on a line, and with stakes that are paths, each of them is on
  the first unresolved node, and no zombie but those counted is (`SetsMeanCounts`,
  `CountsMeanSets` the other way round), so `confirmNextNode` passes.

For any strategies, any patience and any bounds (`StakerSpec` of `Staker`):

* `NeverOnWrongNode`: `StakedOnCorrect`, the second half of `StakeIsSafe`.  It is not
  inductive because Act reads the rollup, and its calls run later.  `StakerInv`
  therefore says of the calls that wait what makes them safe to run in any
  state they can succeed in: each stake is on a correct node and each creation is after one
  (`Leads`); the calls stand in an order in which only the last may create and only the
  first may stake anew (`Orderly`); and a new stake, which lands on whatever is the
  latest confirmed node by then, is sent with a call that fails unless that node is
  the correct one (`NewStakeTied`).  It turns into `MinedTied` when all calls are found to
  succeed: a creation is then made where Me stands.  The others cannot disturb this
  (`Undisturbed`): they change no parent and move nobody else's stake.  The nodes on the
  way are a recursive function, defined because a child has a higher number
  than its parent (`SuccessorsExist`, `SuccessorsCorrect`).

For any times, delays, batch sizes and bounds, if no reorganisation is deeper than the target delay
(`SequencerBatcher`):

* `SequencedDelayedStays`: `BatcherInv` says that the delayed inbox is in the order of
  its blocks, and that each span of the database is a prefix of it that no reorganisation
  reaches (`Settled`).  The binary search of ArbCore is a count of messages;
  `CountIsPosition` makes it a position, and the comparison of accumulators in
  `deliverDelayedMessages` turns what the reader's copy says into a fact about L1.

For any machine, any degree of at least two and any clocks:

* `ChallengeTypeCorrect`, `ClocksAddUp`, `DisputeNarrows`: the contract.
* `TruthIsKept`: the invariant of the game.  On its turn the right party faces a
  true start and a false end; it answers with nothing but truth, so the opponent
  must lie again somewhere (`WrongMustLie`) or run out of moves.
* `RightHasMove`, `RightNotBeaten`, under `AllReached` (finding 1), and
  `AsserterHasMove` without it.

For any sequencers, and any timeout of more than twice the latency:

* `LockoutTypeCorrect`.
* `LockInvariant`, in every state before a crossing, whatever answers are lost.  `LockInv`
  says how long things last: the key of a holder outlives its belief by `MaxLatency`
  (`Margin`); a renewal or deletion that is waited for ends before the key does, and so
  does any repetition its deadline still allows (`PendingInTime`); so does one that
  was given up or repeated (`LateInTime`).  Exclusion alone is not inductive: that a late
  deletion hits nobody else depends on when its client last knew the key its own.
* From it, up to the same point: `OneHolder`, `NoForeignWrite`, and `RedisImplementsLease`:
  every step of `LockoutRedis` is a step of `Lease` or leaves `key` and `has` alone.  `LockoutManager` is
  written over the steps of `Lease`, so this is where the two halves of the lockout meet.

For any number of calls, any queue, batch and database (`TxQueue`):

* `QueueTypes`, and `QueueInvariant`: `QueueInv` says where each call is at every step of the
  holder of the delivery mutex: in the channel, in the holder's hands, in its batch, or
  answered, in one of them and once.  Putting back, refusing and the repetition
  one by one move calls between these places, and a call may be answered at three
  places of the code.  `CallsAnsweredOnce` follows.
* `FeedIsFaithful`: every broadcast is what the database holds at the accumulator it names,
  is never taken back, and without an internal error nothing is left out.  `FeedInv` says
  what the locals of the holder (`originalAcc`, the items to broadcast) mean for the
  database between its steps.
* `CallersToldTheTruth`: an ok means that the transaction has been executed for good, and
  what was executed was answered with an ok unless something failed inside.

For any sequencers and any number of crashes, failed takeovers, lost answers and losses of
contact (`LockoutManager`):

* `ManagerTypes`, and `LoopsInvariant`: what a loop holds, knows and forwards to at each place
  of its code, and which mutex is whose.
* `CallsGoNowhereInCircles`: no two nodes forward their calls to each other.  A node begins to forward only to the one whose name is in redis, and
  the name in redis is never that of a node that forwards (`KeyInv`).
* `HandoversKeepOrder`: until one of the four risks of 3.6 is taken, two
  sequencers never give one position to different messages.  `LockoutInv` ties the
  lockout to the place of the loop; `PositionInv` says what a position in redis, or its
  absence, means for the messages that it counted; `OrderInv` says that before anyone sequences nobody
  has more than what is counted in redis, and afterwards the one with the lockout has
  all that is counted and all that anybody has.

For any batches, delays and times (`SequencerInbox`):

* `InboxTypes`, and `InboxInvariant`: `InboxInv` says that each item of the log has the
  number that follows, that the spans of delayed messages stand in order and cover
  what was read (`Good`), and that the batches cut the log into parts that end in an
  item and are not empty (`CutAt`).  Batches are a recursive
  function over their sections.  That this function has the value its equation
  says, and that a section keeps `Good`, is shown by taking the least section that
  would not.
* `NumbersHaveNoGap`, `DelayedMessagesReadOnce` (the spans partition the messages read, in
  order), `CountsAreProvable` (every message count lies in a batch that proves it).
* `ForcedMessagesAreOld`: a forced message has waited for the whole delay window, for times
  up to any `T`, if no window ends beyond `2 ^ WordBits`.  A delay near that
  limit is the exception noted in 4.3.

For any chain, items and reorganisations within the configured delays (`InboxReader`):

* `ReaderTypes`, and `ReaderInvariant`: `ReaderInv` divides the chain at the depth that
  reorganisations cannot reach.  Every item, posted, in the feed, or in the database, reads
  only delayed messages of the settled part and reads them in order; the database's delayed
  messages are a prefix of it; between the two lookups of a window the delayed
  messages found are those of the chain as it still is.
* `CoreAcceptsAll`: ArbCore throws at nothing the reader hands it.  `DeliveryFits` and
  `FeedFits` are the two places where it is handed something: each item continues what
  the database keeps, or replaces it from a batch on.
* `ReaderKnowsEnd`: `lastAcc`, by which the reader decides whether the feed continues the
  database, is always the end of it.

The assumptions on the constants are the `ASSUME`s of the modules: types; a
positive degree, clocks and times as named there; `TimeAssumption` for the lockout's
timeout; `DepthAssumption`, that reorganisations are no deeper than the delays of the
reader and of the sequencer (deeper ones are fatal for the node, 4.3).

Only model-checked:

* all liveness (`DelayedEventuallyRead`, `RightWins`, `OrphanedLockoutEnds`,
  `SequencingResumes`, `QueuedCallsReturn`, `FollowsChain`): fairness and `ENABLED` are out
  of the prover's reach;
* `BatchesUnpackToItems` of `SequencerBatcher`, which compares two loops over the items of a
  batch: induction over data;
* `PublishedMatchesSequenced` of `SequencerBatcher`: its invariant would have to relate every
  batch in the mempool to the databases before and after each retiming;
* `OnlyCorrectConfirmed` and the first half of `StakeIsSafe` (the validator loses no
  challenge for being late): both depend on how many turns the others can cost it within a
  confirmation period (`staker` in 4.1, item 11 of the plan).

## 6. What is not modelled

* The AVM, the one-step proof and ArbCore's store: sequential interpreters over 256-bit
  values and a database.  `Challenge` takes the machine as a constant and
  relies on the one-step proof to execute it correctly.
* `Inbox.sol`: it forwards to the bridge; its pause flag and whitelist guard
  calls whose effect is modelled.
* Setters of parameters: `Rollup` has the parameters as constants.
* Outbox, feed, and the migration across its contracts: planned above.
* The aggregating batchers: one collects transactions for the delayed inbox, the other
  passes each on to the sequencer.
* Token bridge: an application over the inbox and the outbox, after the outbox.
* RPC, configuration, deployment, generated bindings: no protocol state.

On coverage: of the repository's 73,415 lines of Go (without tests) about half are
bindings generated from the contracts, and most of the rest serves RPC, storage and
configuration.  The contracts, where the protocol is, are Solidity and ArbCore is
C++.  The map names what is translated, in all three languages; no faithful
model of this system would cover a large share of the Go lines.
