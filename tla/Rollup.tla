------------------------------- MODULE Rollup -------------------------------
(***************************************************************************)
(* The rollup contract: the tree of asserted nodes, the stakers on it, the *)
(* challenges between them and the funds they put at stake, as driven by   *)
(* the transactions of the validators (RollupUser.sol over RollupCore.sol  *)
(* and Node.sol).  A transaction is one step; a require that fails is a    *)
(* transaction that reverts, so it is a guard.                             *)
(*                                                                         *)
(* The Challenge contract is abstracted to "one of its two parties wins".  *)
(* The sequencer inbox, the bridge's delayed inbox and the outbox are      *)
(* counts.  State hashes, accumulators and node hashes are abstracted to   *)
(* the values they commit to: a call whose proof data do not match reverts *)
(* and is no step.                                                         *)
(***************************************************************************)
EXTENDS Integers, FiniteSets, Functions

CONSTANTS
  Validators,               \* the whitelisted addresses (isValidator)
  Owner,                    \* the rollup's owner, credited with half of a lost stake
  NoChallenge,              \* address(0) in Staker.currentChallenge
  ConfirmPeriodBlocks,
  ExtraChallengeTimeBlocks,
  AvmGasSpeedLimitPerBlock,
  BaseStake,
  MinimumAssertionPeriod,   \* 75 in Rollup.initialize
  MaxSendCount,             \* MAX_SEND_COUNT, 100
  WordBits,                 \* width of a uint256
  Amounts,                  \* the deposits that are tried
  Assertions,               \* the after-states that are asserted
  MaxBlock, MaxNodes, MaxSequenced, MaxDelayed, MaxBalance   \* bounds

NodeNums == 0 .. MaxNodes
Accounts == Validators \cup {Owner}
AssertedState == [gasUsed : Nat, inboxCount : Nat, sendCount : Nat]
ExecutionState ==
  [gasUsed : Nat, inboxCount : Nat, sendCount : Nat, inboxMaxCount : Nat]
Challenges ==
  [asserter : Validators, challenger : Validators,
   asserterNode : NodeNums, challengerNode : NodeNums,
   asserterTime : Int, challengerTime : Int]

ASSUME AddressAssumption ==
  /\ IsFiniteSet(Validators)
  /\ Owner \notin Validators
  /\ NoChallenge \notin Challenges
ASSUME ConfigAssumption ==
  /\ ConfirmPeriodBlocks \in Nat \ {0}
  /\ ExtraChallengeTimeBlocks \in Nat
  /\ AvmGasSpeedLimitPerBlock \in Nat \ {0}
  /\ BaseStake \in Nat \ {0}
  /\ MinimumAssertionPeriod \in Nat
  /\ MaxSendCount \in Nat
  /\ WordBits \in Nat \ {0}
ASSUME InputAssumption ==
  /\ Amounts \subseteq Nat
  /\ Assertions \subseteq AssertedState
ASSUME BoundAssumption ==
  /\ MaxBlock \in Nat \ {0}               \* the chain starts at block 1
  /\ MaxNodes \in Nat
  /\ MaxSequenced \in Nat
  /\ MaxDelayed \in Nat
  /\ MaxBalance \in Nat

VARIABLES
  block,                        \* block.number
  paused,                       \* Pausable: the owner has paused the rollup
  shutdownForNitroBlock,        \* MaxBlock + 1 stands for uint256.max: not shut down
  latestConfirmed, firstUnresolvedNode, latestNodeCreated,
  \* The nodes, each a contract of its own; what a destroyed node held is
  \* kept as a record of the past and no action reads it.
  live,                         \* the numbers n with _nodes[n] # address(0)
  prev, deadlineBlock, proposedBlock, afterState,      \* fixed at creation
  noChildConfirmedBeforeBlock, firstChildBlock, latestChildNumber,
  stakers,                      \* Node.stakers; stakerCount is its cardinality
  \* _stakerList and _stakerMap
  stakerSet, latestStakedNode, amountStaked, currentChallenge,
  \* _zombies
  zombies, zombieNode,
  withdrawable,                 \* _withdrawableFunds
  balance,                      \* the funds the contract holds
  sequencedCount,               \* SequencerInbox.messageCount
  delayedCount,                 \* Bridge.inboxAccs.length
  outboxCount                   \* the L2-to-L1 messages handed to the outbox

chainVars    == <<latestConfirmed, firstUnresolvedNode, latestNodeCreated>>
nodeConsts   == <<prev, deadlineBlock, proposedBlock, afterState>>
childVars    == <<noChildConfirmedBeforeBlock, firstChildBlock, latestChildNumber>>
stakerVars   == <<stakerSet, latestStakedNode, amountStaked, currentChallenge>>
zombieVars   == <<zombies, zombieNode>>
fundVars     == <<withdrawable, balance>>
adminVars    == <<paused, shutdownForNitroBlock>>
messageVars  == <<sequencedCount, delayedCount, outboxCount>>
vars == <<block, adminVars, chainVars, live, nodeConsts, childVars, stakers,
          stakerVars, zombieVars, fundVars, messageVars>>

(***************************************************************************)
(* What the conditions of the code ask.                                    *)
(***************************************************************************)
Unresolved == firstUnresolvedNode .. latestNodeCreated

ShutdownForNitroMode == block >= shutdownForNitroBlock
WhenNotPaused == ~paused
WhenInShutdownModeOrNotPaused == ~paused \/ ShutdownForNitroMode

\* Mutant: the node's own deadline counts in a shutdown too.
DeadlineBlock_Own(n) == deadlineBlock[n]
DeadlineBlock(n) ==
  IF ShutdownForNitroMode THEN shutdownForNitroBlock ELSE deadlineBlock[n]

PastDeadline(n) == block >= DeadlineBlock(n)

\* Mutant: the node's own deadline is asked again, not its newest child's.
PastChildConfirmDeadline_OwnDeadline(n) == PastDeadline(n)
PastChildConfirmDeadline(n) ==
  ShutdownForNitroMode \/ block >= noChildConfirmedBeforeBlock[n]

UnresolvedExists ==
  latestConfirmed < firstUnresolvedNode /\ firstUnresolvedNode <= latestNodeCreated

\* Mutant: IN_CHAL is not checked.
UnchallengedStaker_AnyStaker(a) == a \in stakerSet
UnchallengedStaker(a) == a \in stakerSet /\ currentChallenge[a] = NoChallenge

\* Mutant: off by one, the first unresolved node counts as resolved.
OldZombies_OffByOne == {z \in zombies : zombieNode[z] <= firstUnresolvedNode}
OldZombies == {z \in zombies : zombieNode[z] < firstUnresolvedNode}

\* countStakedZombies once removeOldZombies(0) has run
CountStakedZombies(n) == Cardinality({z \in zombies \ OldZombies : z \in stakers[n]})

\* Mutant: one staker on the node is enough.
AllStaked_SomeStaker(n) == Cardinality(stakers[n]) > CountStakedZombies(n)
AllStaked(n) ==
  Cardinality(stakers[n]) = Cardinality(stakerSet) + CountStakedZombies(n)

\* Mutant: all the zombies are counted, not those on the node.
OnlyZombiesStaked_AllZombies(n) == Cardinality(stakers[n]) <= Cardinality(zombies)
OnlyZombiesStaked(n) == Cardinality(stakers[n]) = CountStakedZombies(n)

(***************************************************************************)
(* currentRequiredStake: BaseStake times 2^(age / ConfirmPeriodBlocks),    *)
(* the exponent in tenths by a table of fractions, age being the blocks    *)
(* since the first unresolved node could be decided.  A product that does  *)
(* not fit a word yields MaxUint, a stake nobody can pay; the code detects *)
(* it by dividing the wrapped product back, which for a power of two and   *)
(* for a non-zero factor is exactly the test against the largest word.     *)
(***************************************************************************)
MaxUint == 2 ^ WordBits - 1
Numerators ==
  <<1, 122971, 128977, 80017, 207329, 114243, 314252, 129988, 224562, 162163>>
Denominators ==
  <<1, 114736, 112281, 64994, 157126, 80782, 207329, 80017, 128977, 86901>>

StakeAfter(age) ==
  LET periodsPassed  == (age * 10) \div ConfirmPeriodBlocks
      doublings      == periodsPassed \div 10
      tenth          == (periodsPassed % 10) + 1
      baseMultiplier == 2 ^ doublings
      quotient       == (baseMultiplier * Numerators[tenth]) \div Denominators[tenth]
      multiplier     == IF quotient = 0 THEN 1 ELSE quotient
  IN  IF \/ doublings >= WordBits - 1
         \/ Numerators[tenth] > MaxUint \div baseMultiplier
         \/ multiplier > MaxUint \div BaseStake
      THEN MaxUint
      ELSE BaseStake * multiplier

CurrentRequiredStake ==
  IF \/ firstUnresolvedNode - 1 = latestNodeCreated
     \/ block < DeadlineBlock(firstUnresolvedNode)
  THEN BaseStake
  ELSE StakeAfter(block - DeadlineBlock(firstUnresolvedNode))

-----------------------------------------------------------------------------
Init ==
  /\ block = 1
  /\ paused = FALSE
  /\ shutdownForNitroBlock = MaxBlock + 1
  /\ latestConfirmed = 0
  /\ firstUnresolvedNode = 1
  /\ latestNodeCreated = 0
  /\ live = {0}
  /\ prev = [n \in NodeNums |-> 0]
  /\ deadlineBlock = [n \in NodeNums |-> IF n = 0 THEN block ELSE 0]
  /\ proposedBlock = [n \in NodeNums |-> IF n = 0 THEN block ELSE 0]
  /\ afterState = [n \in NodeNums |->
       [gasUsed |-> 0, inboxCount |-> 0, sendCount |-> 0,
        inboxMaxCount |-> IF n = 0 THEN 1 ELSE 0]]
  /\ noChildConfirmedBeforeBlock = deadlineBlock
  /\ firstChildBlock = [n \in NodeNums |-> 0]
  /\ latestChildNumber = [n \in NodeNums |-> 0]
  /\ stakers = [n \in NodeNums |-> {}]
  /\ stakerSet = {}
  /\ latestStakedNode = [a \in Validators |-> 0]
  /\ amountStaked = [a \in Validators |-> 0]
  /\ currentChallenge = [a \in Validators |-> NoChallenge]
  /\ zombies = {}
  /\ zombieNode = [a \in Validators |-> 0]
  /\ withdrawable = [a \in Accounts |-> 0]
  /\ balance = 0
  /\ sequencedCount = 0
  /\ delayedCount = 1            \* rollupInitialized
  /\ outboxCount = 0

-----------------------------------------------------------------------------
(***************************************************************************)
(* The world the contract lives in: L1 blocks are mined, the sequencer     *)
(* (or anyone, by force inclusion) adds messages to the inbox.             *)
(***************************************************************************)
AdvanceBlock ==
  /\ block < MaxBlock
  /\ block' = block + 1
  /\ UNCHANGED <<adminVars, chainVars, live, nodeConsts, childVars, stakers,
                 stakerVars, zombieVars, fundVars, messageVars>>

SequencerBatch ==
  /\ \E count \in sequencedCount + 1 .. MaxSequenced : sequencedCount' = count
  /\ UNCHANGED <<block, adminVars, chainVars, live, nodeConsts, childVars, stakers,
                 stakerVars, zombieVars, fundVars, delayedCount, outboxCount>>

-----------------------------------------------------------------------------
(***************************************************************************)
(* Stakes and funds.                                                       *)
(***************************************************************************)
NewStake(a, amount) ==
  /\ WhenNotPaused
  /\ balance + amount <= MaxBalance
  /\ delayedCount < MaxDelayed
  /\ a \notin stakerSet
  /\ a \notin zombies
  /\ amount >= CurrentRequiredStake
  /\ stakerSet' = stakerSet \cup {a}
  /\ latestStakedNode' = [latestStakedNode EXCEPT ![a] = latestConfirmed]
  /\ amountStaked' = [amountStaked EXCEPT ![a] = amount]
  /\ currentChallenge' = [currentChallenge EXCEPT ![a] = NoChallenge]
  /\ balance' = balance + amount
  /\ delayedCount' = delayedCount + 1          \* stakeCreated
  /\ UNCHANGED <<block, adminVars, chainVars, live, nodeConsts, childVars, stakers,
                 zombieVars, withdrawable, sequencedCount, outboxCount>>

AddToDeposit(a, amount) ==
  /\ WhenNotPaused
  /\ balance + amount <= MaxBalance
  /\ UnchallengedStaker(a)
  /\ amountStaked' = [amountStaked EXCEPT ![a] = @ + amount]
  /\ balance' = balance + amount
  /\ UNCHANGED <<block, adminVars, chainVars, live, nodeConsts, childVars, stakers,
                 stakerSet, latestStakedNode, currentChallenge, zombieVars,
                 withdrawable, messageVars>>

\* increaseWithdrawableFunds
IncreaseWithdrawable(a, amount) ==
  withdrawable' = [withdrawable EXCEPT ![a] = @ + amount]

\* The target is raised to the required stake, so what remains is any amount
\* from there up to the present stake (TOO_LITTLE_STAKE).
ReduceDeposit(a, remaining) ==
  /\ WhenNotPaused
  /\ UnchallengedStaker(a)
  /\ remaining >= CurrentRequiredStake
  /\ remaining <= amountStaked[a]
  /\ amountStaked' = [amountStaked EXCEPT ![a] = remaining]
  /\ IncreaseWithdrawable(a, amountStaked[a] - remaining)
  /\ UNCHANGED <<block, adminVars, chainVars, live, nodeConsts, childVars, stakers,
                 stakerSet, latestStakedNode, currentChallenge, zombieVars,
                 balance, messageVars>>

ReturnRequirements(a) ==
  /\ WhenInShutdownModeOrNotPaused
  /\ latestStakedNode[a] <= latestConfirmed    \* TOO_RECENT
  /\ UnchallengedStaker(a)

\* Any validator may call this for any staker a.
ReturnOldDeposit(a) ==
  /\ ReturnRequirements(a)
  /\ IncreaseWithdrawable(a, amountStaked[a])
  /\ stakerSet' = stakerSet \ {a}
  /\ latestStakedNode' = [latestStakedNode EXCEPT ![a] = 0]
  /\ amountStaked' = [amountStaked EXCEPT ![a] = 0]
  /\ UNCHANGED <<block, adminVars, chainVars, live, nodeConsts, childVars, stakers,
                 currentChallenge, zombieVars, balance, messageVars>>

WithdrawStakerFunds(a) ==
  /\ WhenInShutdownModeOrNotPaused
  /\ withdrawable' = [withdrawable EXCEPT ![a] = 0]
  /\ balance' = balance - withdrawable[a]
  /\ UNCHANGED <<block, adminVars, chainVars, live, nodeConsts, childVars, stakers,
                 stakerVars, zombieVars, messageVars>>

-----------------------------------------------------------------------------
(***************************************************************************)
(* Nodes are created and staked on.                                        *)
(***************************************************************************)
\* max(parent's deadline, block + period) + the blocks it takes to check the
\* assertion, and no earlier than the deadline of the older sibling
MaxOf(x, y) == IF x > y THEN x ELSE y
CheckTime(gasUsed) ==
  (gasUsed + AvmGasSpeedLimitPerBlock - 1) \div AvmGasSpeedLimitPerBlock
NodeDeadline(p, gasUsed) ==
  LET own == MaxOf(block + ConfirmPeriodBlocks, DeadlineBlock(p)) + CheckTime(gasUsed)
      olderSibling == latestChildNumber[p]
  IN  IF olderSibling # 0 THEN MaxOf(own, DeadlineBlock(olderSibling)) ELSE own

\* The conditions on an assertion that node p is followed by the state after.
\* The subtractions are SafeMath's: a negative difference reverts.
AssertionAllowed(p, after) ==
  LET before    == afterState[p]
      timeSince == block - proposedBlock[p]
      gasUsed   == after.gasUsed - before.gasUsed
      sends     == after.sendCount - before.sendCount
  IN  /\ timeSince >= MinimumAssertionPeriod                        \* TIME_DELTA
      /\ gasUsed >= 0
      /\ sends >= 0
      /\ \/ after.inboxCount >= before.inboxMaxCount                \* TOO_SMALL
         \/ gasUsed >= timeSince * AvmGasSpeedLimitPerBlock
         \/ sends = MaxSendCount
      /\ sends <= MaxSendCount                                      \* TOO_MANY_SENDS
      /\ gasUsed <= timeSince * AvmGasSpeedLimitPerBlock * 4        \* TOO_LARGE
      /\ after.inboxCount <= sequencedCount                         \* INBOX_PAST_END

StakeOnExistingNode(a, n) ==
  /\ WhenNotPaused
  /\ a \in stakerSet
  /\ n \in Unresolved
  /\ n \in live
  /\ latestStakedNode[a] = prev[n]
  /\ a \notin stakers[n]                       \* ALREADY_STAKED
  /\ stakers' = [stakers EXCEPT ![n] = @ \cup {a}]
  /\ latestStakedNode' = [latestStakedNode EXCEPT ![a] = n]
  /\ \/ /\ stakers[n] = {}
        /\ prev[n] \in live
        /\ noChildConfirmedBeforeBlock' =
             [noChildConfirmedBeforeBlock EXCEPT ![prev[n]] = block + ConfirmPeriodBlocks]
     \/ /\ stakers[n] # {}
        /\ UNCHANGED noChildConfirmedBeforeBlock
  /\ UNCHANGED <<block, adminVars, chainVars, live, nodeConsts, firstChildBlock,
                 latestChildNumber, stakerSet, amountStaked, currentChallenge,
                 zombieVars, fundVars, messageVars>>

StakeOnNewNode(a, after) ==
  LET p == latestStakedNode[a]
      n == latestNodeCreated + 1
  IN  /\ WhenNotPaused
      /\ n <= MaxNodes
      /\ a \in stakerSet
      /\ p \in live
      /\ AssertionAllowed(p, after)
      /\ latestChildNumber[p] \in {0} \cup live
      /\ latestNodeCreated' = n
      /\ live' = live \cup {n}
      /\ prev' = [prev EXCEPT ![n] = p]
      /\ deadlineBlock' = [deadlineBlock EXCEPT
           ![n] = NodeDeadline(p, after.gasUsed - afterState[p].gasUsed)]
      /\ proposedBlock' = [proposedBlock EXCEPT ![n] = block]
      /\ afterState' = [afterState EXCEPT
           ![n] = [gasUsed |-> after.gasUsed, inboxCount |-> after.inboxCount,
                   sendCount |-> after.sendCount, inboxMaxCount |-> sequencedCount]]
      /\ firstChildBlock' = [firstChildBlock EXCEPT ![p] = IF @ = 0 THEN block ELSE @]
      /\ latestChildNumber' = [latestChildNumber EXCEPT ![p] = n]
      \* stakeOnNode: a is the node's first staker
      /\ stakers' = [stakers EXCEPT ![n] = {a}]
      /\ latestStakedNode' = [latestStakedNode EXCEPT ![a] = n]
      /\ noChildConfirmedBeforeBlock' = [noChildConfirmedBeforeBlock EXCEPT
           ![n] = deadlineBlock'[n],
           ![p] = block + ConfirmPeriodBlocks]
      /\ delayedCount' = delayedCount + 1      \* nodeCreated
      /\ UNCHANGED <<block, adminVars, latestConfirmed, firstUnresolvedNode,
                     stakerSet, amountStaked, currentChallenge, zombieVars,
                     fundVars, sequencedCount, outboxCount>>

-----------------------------------------------------------------------------
(***************************************************************************)
(* Nodes are resolved in the order of their numbers.                       *)
(***************************************************************************)
\* destroyNode
DestroyNode(n) == n \in live /\ live' = live \ {n}

\* The sends confirmed with node n
SendsOf(n) == afterState[n].sendCount - afterState[prev[n]].sendCount

ConfirmRequirements ==
  LET n == firstUnresolvedNode
  IN  /\ WhenInShutdownModeOrNotPaused
      /\ UnresolvedExists
      /\ stakerSet # {}                        \* NO_STAKERS
      /\ {n, latestConfirmed} \subseteq live   \* both are called
      /\ PastDeadline(n)
      /\ PastChildConfirmDeadline(latestConfirmed)
      /\ prev[n] = latestConfirmed             \* INVALID_PREV
      /\ AllStaked(n)                          \* NOT_ALL_STAKED

ConfirmNextNode ==
  LET n == firstUnresolvedNode
  IN  /\ ConfirmRequirements
      /\ zombies' = zombies \ OldZombies
      /\ zombieNode' = [a \in Validators |-> IF a \in OldZombies THEN 0 ELSE zombieNode[a]]
      \* the node's sends go to the outbox, the old node is destroyed
      /\ outboxCount' = outboxCount + SendsOf(n)
      /\ DestroyNode(latestConfirmed)
      /\ latestConfirmed' = n
      /\ firstUnresolvedNode' = n + 1
      /\ delayedCount' = delayedCount + 1      \* nodeConfirmed
      /\ UNCHANGED <<block, adminVars, latestNodeCreated, nodeConsts, childVars,
                     stakers, stakerVars, fundVars, sequencedCount>>

\* _rejectNextNode and the event
DestroyFirstUnresolved ==
  /\ DestroyNode(firstUnresolvedNode)
  /\ firstUnresolvedNode' = firstUnresolvedNode + 1
  /\ delayedCount' = delayedCount + 1          \* nodeRejected

\* The witness is a staker, on an unresolved node, and not on node n.
\* Mutant: that its node is unresolved (requireUnresolved) is not checked.
OnAnotherBranch_AnyNode(witness, n) == witness \in stakerSet /\ witness \notin stakers[n]
OnAnotherBranch(witness, n) ==
  /\ witness \in stakerSet
  /\ latestStakedNode[witness] \in Unresolved
  /\ witness \notin stakers[n]                 \* STAKED_ON_TARGET

\* The first unresolved node is a child of the latest confirmed one: the
\* witness is a staker on another branch, and no staker is left on the node.
RejectChildOfConfirmed(witness) ==
  LET n == firstUnresolvedNode
  IN  /\ WhenNotPaused
      /\ UnresolvedExists
      /\ prev[n] = latestConfirmed
      /\ OnAnotherBranch(witness, n)
      /\ PastDeadline(n)
      /\ PastChildConfirmDeadline(latestConfirmed)
      /\ OnlyZombiesStaked(n)
      /\ zombies' = zombies \ OldZombies
      /\ zombieNode' = [a \in Validators |-> IF a \in OldZombies THEN 0 ELSE zombieNode[a]]
      /\ DestroyFirstUnresolved
      /\ UNCHANGED <<block, adminVars, latestConfirmed, latestNodeCreated, nodeConsts,
                     childVars, stakers, stakerVars, fundVars, sequencedCount,
                     outboxCount>>

\* It is not: its branch lost already, and it is rejected outright.
RejectOutright ==
  /\ WhenNotPaused
  /\ UnresolvedExists
  /\ prev[firstUnresolvedNode] # latestConfirmed
  /\ DestroyFirstUnresolved
  /\ UNCHANGED <<block, adminVars, latestConfirmed, latestNodeCreated, nodeConsts,
                 childVars, stakers, stakerVars, zombieVars, fundVars,
                 sequencedCount, outboxCount>>

-----------------------------------------------------------------------------
(***************************************************************************)
(* Challenges between stakers on two children of one node.                 *)
(***************************************************************************)
\* The block by which both nodes had to be proposed.  Mutant: the window is
\* what is left of it when the challenge is made.
CommonEndTime_FromNow(n1) ==
  firstChildBlock[prev[n1]] + (DeadlineBlock(n1) - block) + ExtraChallengeTimeBlocks
CommonEndTime(n1) ==
  firstChildBlock[prev[n1]] + (DeadlineBlock(n1) - proposedBlock[n1])
    + ExtraChallengeTimeBlocks

ChallengeAllowed(a1, a2, n1, n2) ==
  /\ WhenNotPaused
  /\ n1 < n2                                   \* WRONG_ORDER
  /\ n2 <= latestNodeCreated
  /\ latestConfirmed < n1
  /\ n1 \in live
  /\ n2 \in live
  /\ prev[n1] = prev[n2]                       \* DIFF_PREV
  /\ prev[n1] \in live
  /\ UnchallengedStaker(a1)
  /\ UnchallengedStaker(a2)
  /\ a1 \in stakers[n1]
  /\ a2 \in stakers[n2]
  /\ DeadlineBlock(n1) >= proposedBlock[n1]    \* SafeMath

CreateChallenge(a1, a2, n1, n2) ==
  LET challenge ==
        [asserter |-> a1, challenger |-> a2, asserterNode |-> n1, challengerNode |-> n2,
         asserterTime   |-> CommonEndTime(n1) - proposedBlock[n1],
         challengerTime |-> CommonEndTime(n1) - proposedBlock[n2]]
  IN  /\ ChallengeAllowed(a1, a2, n1, n2)
      /\ CommonEndTime(n1) >= proposedBlock[n2]
      /\ currentChallenge' = [currentChallenge EXCEPT ![a1] = challenge, ![a2] = challenge]
      /\ UNCHANGED <<block, adminVars, chainVars, live, nodeConsts, childVars, stakers,
                     stakerSet, latestStakedNode, amountStaked, zombieVars, fundVars,
                     messageVars>>

\* What of the loser's stake is lost.
StakeLost(winner, loser) ==
  IF amountStaked[loser] > amountStaked[winner]
  THEN amountStaked[winner] ELSE amountStaked[loser]

\* The owner's half.  Mutant: rounded down like the winner's.
OwnerShare_RoundedDown(lost) == lost \div 2
OwnerShare(lost) == lost - lost \div 2

\* completeChallengeImpl: the loser keeps what it staked beyond the winner,
\* half of the rest goes to the winner and half to the owner.
SettleChallenge(winner, loser) ==
  LET lost == StakeLost(winner, loser)
  IN  /\ amountStaked' = [amountStaked EXCEPT ![winner] = @ + lost \div 2, ![loser] = 0]
      /\ withdrawable' = [withdrawable EXCEPT ![loser] = @ + (amountStaked[loser] - lost),
                                              ![Owner] = @ + OwnerShare(lost)]
      /\ currentChallenge' =
           [currentChallenge EXCEPT ![winner] = NoChallenge, ![loser] = NoChallenge]
      /\ zombies' = zombies \cup {loser}
      /\ zombieNode' = [zombieNode EXCEPT ![loser] = latestStakedNode[loser]]
      /\ stakerSet' = stakerSet \ {loser}
      /\ latestStakedNode' = [latestStakedNode EXCEPT ![loser] = 0]

\* createChallenge over a node that was proposed too late
ForfeitLateChallenge(a1, a2, n1, n2) ==
  /\ ChallengeAllowed(a1, a2, n1, n2)
  /\ CommonEndTime(n1) < proposedBlock[n2]
  /\ SettleChallenge(a1, a2)
  /\ UNCHANGED <<block, adminVars, chainVars, live, nodeConsts, childVars, stakers,
                 balance, messageVars>>

\* The challenge contract calls back with its two parties, one as the winner.
CompleteChallenge(winner, loser) ==
  LET challenge == currentChallenge[winner]
  IN  /\ WhenNotPaused
      /\ challenge # NoChallenge               \* NO_CHAL
      /\ challenge = currentChallenge[loser]   \* DIFF_IN_CHAL
      /\ \/ winner = challenge.asserter /\ loser = challenge.challenger
         \/ winner = challenge.challenger /\ loser = challenge.asserter
      /\ SettleChallenge(winner, loser)
      /\ UNCHANGED <<block, adminVars, chainVars, live, nodeConsts, childVars, stakers,
                     balance, messageVars>>

-----------------------------------------------------------------------------
(***************************************************************************)
(* Zombies, the losers of challenges, are taken off the nodes they staked  *)
(* on.  removeZombie walks back from the latest of those nodes; the model  *)
(* takes one node per call (maxNodes = 1), and a call for k nodes is k of  *)
(* them.                                                                   *)
(***************************************************************************)
RemoveZombie(z) ==
  LET n == zombieNode[z]
      unresolved == n >= firstUnresolvedNode
      last == IF unresolved THEN prev[n] ELSE n
  IN  /\ WhenNotPaused
      /\ z \in zombies
      /\ \/ /\ unresolved
            /\ n \in live
            /\ z \in stakers[n]                \* NOT_STAKED
            /\ stakers' = [stakers EXCEPT ![n] = @ \ {z}]
         \/ /\ ~unresolved
            /\ UNCHANGED stakers
      /\ \/ /\ last < firstUnresolvedNode
            /\ zombies' = zombies \ {z}
            /\ zombieNode' = [zombieNode EXCEPT ![z] = 0]
         \/ /\ last >= firstUnresolvedNode
            /\ zombieNode' = [zombieNode EXCEPT ![z] = last]
            /\ UNCHANGED zombies
      /\ UNCHANGED <<block, adminVars, chainVars, live, nodeConsts, childVars,
                     stakerVars, fundVars, messageVars>>

\* The list order decides which zombies a start index spares: any subset.
RemoveOldZombies(Z) ==
  /\ WhenInShutdownModeOrNotPaused
  /\ Z \subseteq OldZombies
  /\ zombies' = zombies \ Z
  /\ zombieNode' = [a \in Validators |-> IF a \in Z THEN 0 ELSE zombieNode[a]]
  /\ UNCHANGED <<block, adminVars, chainVars, live, nodeConsts, childVars, stakers,
                 stakerVars, fundVars, messageVars>>

-----------------------------------------------------------------------------
StakeStep ==
  \E a \in Validators :
    \/ \E amount \in Amounts : NewStake(a, amount) \/ AddToDeposit(a, amount)
    \/ \E remaining \in 0 .. amountStaked[a] : ReduceDeposit(a, remaining)
    \/ ReturnOldDeposit(a)
    \/ WithdrawStakerFunds(a)
    \/ \E n \in NodeNums : StakeOnExistingNode(a, n)
    \/ \E after \in Assertions : StakeOnNewNode(a, after)

ResolveStep ==
  \/ ConfirmNextNode
  \/ \E witness \in Validators : RejectChildOfConfirmed(witness)
  \/ RejectOutright

ChallengeStep ==
  \/ \E a1, a2 \in stakerSet, n1, n2 \in live :
       CreateChallenge(a1, a2, n1, n2) \/ ForfeitLateChallenge(a1, a2, n1, n2)
  \/ \E winner, loser \in Validators : CompleteChallenge(winner, loser)

ZombieStep ==
  \/ \E z \in Validators : RemoveZombie(z)
  \/ \E Z \in SUBSET zombies : RemoveOldZombies(Z)

Next ==
  \/ AdvanceBlock
  \/ SequencerBatch
  \/ StakeStep
  \/ ResolveStep
  \/ ChallengeStep
  \/ ZombieStep

Spec == Init /\ [][Next]_vars

-----------------------------------------------------------------------------
(***************************************************************************)
(* Properties.                                                             *)
(***************************************************************************)
\* Every variable has its type (the fields of RollupCore, Node and Staker).
TypeOK ==
  /\ block \in Nat
  /\ paused \in BOOLEAN
  /\ shutdownForNitroBlock \in Nat
  /\ latestConfirmed \in NodeNums
  /\ firstUnresolvedNode \in Nat
  /\ latestNodeCreated \in NodeNums
  /\ live \subseteq NodeNums
  /\ prev \in [NodeNums -> NodeNums]
  /\ deadlineBlock \in [NodeNums -> Nat]
  /\ proposedBlock \in [NodeNums -> Nat]
  /\ afterState \in [NodeNums -> ExecutionState]
  /\ noChildConfirmedBeforeBlock \in [NodeNums -> Nat]
  /\ firstChildBlock \in [NodeNums -> Nat]
  /\ latestChildNumber \in [NodeNums -> NodeNums]
  /\ stakers \in [NodeNums -> SUBSET Validators]
  /\ stakerSet \subseteq Validators
  /\ latestStakedNode \in [Validators -> NodeNums]
  /\ amountStaked \in [Validators -> Nat]
  /\ currentChallenge \in [Validators -> Challenges \cup {NoChallenge}]
  /\ zombies \subseteq Validators
  /\ zombieNode \in [Validators -> NodeNums]
  /\ withdrawable \in [Accounts -> Nat]
  /\ balance \in Int
  /\ sequencedCount \in Nat
  /\ delayedCount \in Nat
  /\ outboxCount \in Int

\* The node contracts that exist are the latest confirmed one and all the
\* unresolved ones, so no call the rollup makes on a node it still needs can
\* hit a destroyed contract; nodes are numbered after their parents.
NodeLifecycle ==
  /\ latestConfirmed < firstUnresolvedNode
  /\ firstUnresolvedNode <= latestNodeCreated + 1
  /\ live = {latestConfirmed} \cup Unresolved
  /\ \A n \in 1 .. latestNodeCreated : prev[n] < n

\* Where a holder of a stake, real or zombie, stands
Position(a) == IF a \in zombies THEN zombieNode[a] ELSE latestStakedNode[a]

\* "recall staking on node requires staking on all of its parents"
\* (rejectNextNode): the unresolved nodes an address is staked on are one
\* path of the tree that ends at its position, zombies being taken off from
\* the end; and only stakers and zombies are on unresolved nodes.
StakeChain ==
  /\ stakerSet \cap zombies = {}
  /\ \A n \in Unresolved : stakers[n] \subseteq stakerSet \cup zombies
  /\ \A a \in stakerSet \cup zombies :
       /\ Position(a) <= latestNodeCreated
       /\ Position(a) \in Unresolved => a \in stakers[Position(a)]
       /\ \A n \in Unresolved : a \in stakers[n] =>
            /\ n <= Position(a)
            /\ prev[n] \in Unresolved => a \in stakers[prev[n]]
            /\ \A m \in Unresolved : m < n /\ a \in stakers[m] => m <= prev[n]

\* Confirming a node leaves no staker behind: each stands on the latest
\* confirmed node or on an unresolved one, and the path it is staked on
\* starts at a child of the latest confirmed node.
StakersDescendFromConfirmed ==
  \A a \in stakerSet :
    /\ latestStakedNode[a] \in {latestConfirmed} \cup Unresolved
    /\ \A n \in Unresolved : a \in stakers[n] =>
         prev[n] \in {latestConfirmed} \cup Unresolved

\* A staker can always assert a new node: the older sibling whose deadline
\* createNewNode reads has not been destroyed.  It could be, if the last
\* child of the latest confirmed node could be rejected.
OlderSiblingLive ==
  \A p \in live : latestChildNumber[p] \in {0} \cup live

\* A challenge has two distinct parties, both know it, both are stakers,
\* and the nodes it is about are unresolved children of one node with each
\* party still staked on its own: nobody is confirmed or rejected, and no
\* party refunded, under an open challenge.
ChallengesMatched ==
  \A a \in Validators : currentChallenge[a] # NoChallenge =>
    LET c == currentChallenge[a]
    IN  /\ a \in {c.asserter, c.challenger}
        /\ c.asserter # c.challenger
        /\ {c.asserter, c.challenger} \subseteq stakerSet
        /\ currentChallenge[c.asserter] = c
        /\ currentChallenge[c.challenger] = c
        /\ c.asserterNode < c.challengerNode
        /\ {c.asserterNode, c.challengerNode} \subseteq Unresolved
        /\ prev[c.asserterNode] = prev[c.challengerNode]
        /\ c.asserter \in stakers[c.asserterNode]
        /\ c.challenger \in stakers[c.challengerNode]

\* The contract holds exactly what it owes: settling challenges, refunding
\* and withdrawing neither creates nor strands funds.
FundsConserved ==
  balance = SumFunctionOnSet(amountStaked, Validators)
              + SumFunctionOnSet(withdrawable, Accounts)

\* The clocks of a challenge are no larger for the later node, and a node
\* proposed within a confirmation period of its oldest sibling is given at
\* least the extra challenge time and the time to check the other node.  The
\* checked subtractions of createChallenge fail for no two unresolved siblings:
\* their stakers can be brought into a challenge, or the later one forfeits.
TimelyChallengerHasTime ==
  /\ \A n1, n2 \in Unresolved : n1 < n2 /\ prev[n1] = prev[n2] =>
       /\ proposedBlock[n1] <= DeadlineBlock(n1)
       /\ proposedBlock[n2] <= CommonEndTime(n1) => proposedBlock[n1] <= CommonEndTime(n1)
  /\ \A a \in stakerSet : currentChallenge[a] # NoChallenge =>
       LET c == currentChallenge[a]
       IN  /\ 0 <= c.challengerTime
           /\ c.challengerTime <= c.asserterTime
           /\ proposedBlock[c.challengerNode]
                <= firstChildBlock[prev[c.challengerNode]] + ConfirmPeriodBlocks
                => c.challengerTime >= ExtraChallengeTimeBlocks
                     + CheckTime(afterState[c.asserterNode].gasUsed
                                   - afterState[prev[c.asserterNode]].gasUsed)

Confirms(n) == n = firstUnresolvedNode /\ latestConfirmed' = n
Rejects(n) ==
  n = firstUnresolvedNode /\ firstUnresolvedNode' = n + 1 /\ latestConfirmed' = latestConfirmed

\* "All non-zombie stakers are staked on this node" (confirmNextNode): what
\* the code compares is counts, what is meant is that everybody agrees.
ConfirmUnanimous ==
  [][\A n \in NodeNums : Confirms(n) => stakerSet # {} /\ stakerSet \subseteq stakers[n]]_vars

\* No node is confirmed before each of its siblings, competing with it for
\* the place after the latest confirmed node, has been there for the
\* confirmation period.
EverySiblingHadWindow ==
  [][latestConfirmed' # latestConfirmed =>
       \A m \in 1 .. latestNodeCreated :
         prev[m] = latestConfirmed => proposedBlock[m] + ConfirmPeriodBlocks <= block]_vars

\* No node is rejected under a staker, also when it is rejected outright
\* with no check that nobody is staked on it.
RejectedUnstaked ==
  [][\A n \in NodeNums : Rejects(n) => stakers[n] \cap stakerSet = {}]_vars

\* "*Some* staker is staked on a sibling" (rejectNextNode): a child of the
\* latest confirmed node is rejected only if a staker is on another child.
RejectionHasStakedSibling ==
  [][\A n \in NodeNums : Rejects(n) /\ prev[n] = latestConfirmed =>
       \E m \in Unresolved : /\ m # n
                             /\ prev[m] = latestConfirmed
                             /\ stakers[m] \cap stakerSet # {}]_vars
====
