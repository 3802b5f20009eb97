--------------------------- MODULE Rollup_proofs ----------------------------
(***************************************************************************)
(* Proofs about Rollup, and about the two modules that build on it.        *)
(*                                                                         *)
(* The safety of node resolution rests on one inductive invariant,         *)
(* TreeInv, which says how the stakes lie on the tree of nodes.  On it     *)
(* rest TimeInv, which relates the blocks nodes are proposed and decided   *)
(* at to the clocks of challenges, and FundsInv, for the funds the         *)
(* contract holds.                                                         *)
(*                                                                         *)
(* Of RollupAdmin: what the owner's calls leave intact of all that.        *)
(*                                                                         *)
(* Of Staker: that the validator is never staked on a wrong node.          *)
(***************************************************************************)
EXTENDS RollupAdmin, Staker, FiniteSetTheorems, WellFoundedInduction, SequenceTheorems, TLAPS

(***************************************************************************)
(* Type correctness.                                                       *)
(***************************************************************************)

\* A node's deadline is a block number no earlier than a confirmation period
\* from now and the time it takes to check the assertion (nodeDeadline).
LEMMA NodeDeadlineType ==
  ASSUME TypeOK, NEW p \in NodeNums, NEW gas \in Nat
  PROVE  /\ CheckTime(gas) \in Nat
         /\ NodeDeadline(p, gas) \in Nat
         /\ NodeDeadline(p, gas) >= block + ConfirmPeriodBlocks + CheckTime(gas)
<1>1. CheckTime(gas) \in Nat
  <2>1. gas + AvmGasSpeedLimitPerBlock - 1 \in Nat
    BY ConfigAssumption
  <2> QED
    BY <2>1, ConfigAssumption DEF CheckTime
<1>2. /\ block \in Nat /\ ConfirmPeriodBlocks \in Nat
      /\ \A n \in NodeNums : DeadlineBlock(n) \in Nat
      /\ latestChildNumber[p] \in NodeNums
  BY ConfigAssumption DEF TypeOK, DeadlineBlock
<1> QED
  BY <1>1, <1>2 DEF NodeDeadline, MaxOf

\* The transactions that only move stakes and funds keep the types.
LEMMA StakeStepType == TypeOK /\ StakeStep => TypeOK'
<1> SUFFICES ASSUME TypeOK, StakeStep PROVE TypeOK'
  OBVIOUS
<1> USE DEF TypeOK, Accounts
<1>1. PICK a \in Validators :
        \/ \E amount \in Amounts : NewStake(a, amount) \/ AddToDeposit(a, amount)
        \/ \E remaining \in 0 .. amountStaked[a] : ReduceDeposit(a, remaining)
        \/ ReturnOldDeposit(a)
        \/ WithdrawStakerFunds(a)
        \/ \E n \in NodeNums : StakeOnExistingNode(a, n)
        \/ \E after \in Assertions : StakeOnNewNode(a, after)
  BY DEF StakeStep
<1>2. ASSUME NEW amount \in Amounts, NewStake(a, amount) PROVE TypeOK'
  <2>1. amount \in Nat
    BY InputAssumption
  <2> QED
    BY <1>2, <2>1 DEF NewStake, adminVars, chainVars, nodeConsts, childVars, zombieVars
<1>3. ASSUME NEW amount \in Amounts, AddToDeposit(a, amount) PROVE TypeOK'
  <2>1. amount \in Nat
    BY InputAssumption
  <2> QED
    BY <1>3, <2>1 DEF AddToDeposit, adminVars, chainVars, nodeConsts, childVars,
      zombieVars, messageVars
<1>4. ASSUME NEW remaining \in 0 .. amountStaked[a], ReduceDeposit(a, remaining)
      PROVE  TypeOK'
  BY <1>4 DEF ReduceDeposit, IncreaseWithdrawable, adminVars, chainVars, nodeConsts,
    childVars, zombieVars, messageVars
<1>5. ASSUME ReturnOldDeposit(a) PROVE TypeOK'
  <2>1. 0 \in NodeNums
    BY BoundAssumption DEF NodeNums
  <2> QED
    BY <1>5, <2>1 DEF ReturnOldDeposit, IncreaseWithdrawable, adminVars, chainVars,
      nodeConsts, childVars, zombieVars, messageVars
<1>6. ASSUME WithdrawStakerFunds(a) PROVE TypeOK'
  BY <1>6 DEF WithdrawStakerFunds, adminVars, chainVars, nodeConsts, childVars,
    stakerVars, zombieVars, messageVars
<1>7. ASSUME NEW n \in NodeNums, StakeOnExistingNode(a, n) PROVE TypeOK'
  <2>1. block + ConfirmPeriodBlocks \in Nat
    BY ConfigAssumption
  <2>2. noChildConfirmedBeforeBlock' \in [NodeNums -> Nat]
    BY <1>7, <2>1 DEF StakeOnExistingNode
  <2> QED
    BY <1>7, <2>2 DEF StakeOnExistingNode, adminVars, chainVars, nodeConsts,
      zombieVars, fundVars, messageVars
<1>8. ASSUME NEW after \in Assertions, StakeOnNewNode(a, after) PROVE TypeOK'
  <2> DEFINE p == latestStakedNode[a]
             n == latestNodeCreated + 1
  <2>1. /\ p \in NodeNums
        /\ n \in NodeNums
        /\ after \in AssertedState
        /\ after.gasUsed - afterState[p].gasUsed \in Nat
    <3>1. p \in NodeNums /\ after \in AssertedState
      BY InputAssumption
    <3>2. n \in NodeNums
      <4> HIDE DEF TypeOK
      <4>1. latestNodeCreated \in 0 .. MaxNodes /\ n <= MaxNodes
        BY <1>8 DEF StakeOnNewNode, TypeOK, NodeNums
      <4> QED
        BY <4>1, BoundAssumption DEF NodeNums
    <3>3. afterState[p] \in ExecutionState
      BY <3>1
    <3>4. after.gasUsed - afterState[p].gasUsed >= 0
      BY <1>8 DEF StakeOnNewNode, AssertionAllowed
    <3>5. after.gasUsed \in Nat /\ afterState[p].gasUsed \in Nat
      BY <3>1, <3>3 DEF AssertedState, ExecutionState
    <3> QED
      BY <3>1, <3>2, <3>4, <3>5
  <2>2. /\ deadlineBlock' \in [NodeNums -> Nat]
        /\ deadlineBlock'[n] \in Nat
    BY <1>8, <2>1, NodeDeadlineType DEF StakeOnNewNode
  <2>3. afterState' \in [NodeNums -> ExecutionState]
    BY <1>8, <2>1 DEF StakeOnNewNode, AssertedState, ExecutionState
  <2>4. noChildConfirmedBeforeBlock' \in [NodeNums -> Nat]
    BY <1>8, <2>1, <2>2, ConfigAssumption DEF StakeOnNewNode
  <2>5. /\ latestNodeCreated' \in NodeNums
        /\ live' \subseteq NodeNums
        /\ prev' \in [NodeNums -> NodeNums]
        /\ proposedBlock' \in [NodeNums -> Nat]
        /\ firstChildBlock' \in [NodeNums -> Nat]
        /\ latestChildNumber' \in [NodeNums -> NodeNums]
        /\ stakers' \in [NodeNums -> SUBSET Validators]
        /\ latestStakedNode' \in [Validators -> NodeNums]
        /\ delayedCount' \in Nat
    BY <1>8, <2>1 DEF StakeOnNewNode
  <2> QED
    BY <1>8, <2>2, <2>3, <2>4, <2>5 DEF StakeOnNewNode, adminVars, zombieVars, fundVars
<1> QED
  BY <1>1, <1>2, <1>3, <1>4, <1>5, <1>6, <1>7, <1>8

\* So do the transactions that resolve nodes.
LEMMA ResolveStepType == TypeOK /\ ResolveStep => TypeOK'
<1> SUFFICES ASSUME TypeOK, ResolveStep PROVE TypeOK'
  OBVIOUS
<1> USE DEF TypeOK
<1>1. UnresolvedExists => firstUnresolvedNode \in NodeNums
  <2> HIDE DEF TypeOK
  <2>1. firstUnresolvedNode \in Nat /\ latestNodeCreated \in 0 .. MaxNodes
    BY DEF TypeOK, NodeNums
  <2> QED
    BY <2>1, BoundAssumption DEF NodeNums, UnresolvedExists
<1>2. 0 \in NodeNums
  BY BoundAssumption DEF NodeNums
<1>3. ASSUME ConfirmNextNode PROVE TypeOK'
  <2>1. outboxCount' \in Int
    <3>1. afterState[firstUnresolvedNode] \in ExecutionState
      BY <1>1, <1>3 DEF ConfirmNextNode, ConfirmRequirements
    <3>2. afterState[prev[firstUnresolvedNode]] \in ExecutionState
      BY <1>1, <1>3 DEF ConfirmNextNode, ConfirmRequirements
    <3> QED
      BY <1>3, <3>1, <3>2 DEF ConfirmNextNode, SendsOf, ExecutionState
  <2>2. zombieNode' \in [Validators -> NodeNums] /\ zombies' \subseteq Validators
    BY <1>2, <1>3 DEF ConfirmNextNode
  <2> QED
    BY <1>1, <1>3, <2>1, <2>2 DEF ConfirmNextNode, ConfirmRequirements, DestroyNode, adminVars, nodeConsts,
      childVars, stakerVars, fundVars
<1>4. ASSUME NEW w \in Validators, RejectChildOfConfirmed(w) PROVE TypeOK'
  <2>1. zombieNode' \in [Validators -> NodeNums] /\ zombies' \subseteq Validators
    BY <1>2, <1>4 DEF RejectChildOfConfirmed
  <2> QED
    BY <1>4, <2>1 DEF RejectChildOfConfirmed, DestroyFirstUnresolved, DestroyNode,
      adminVars, nodeConsts, childVars, stakerVars, fundVars
<1>5. ASSUME RejectOutright PROVE TypeOK'
  BY <1>5 DEF RejectOutright, DestroyFirstUnresolved, DestroyNode, adminVars,
    nodeConsts, childVars, stakerVars, zombieVars, fundVars
<1> QED
  BY <1>3, <1>4, <1>5 DEF ResolveStep

\* What a loser forfeits, and the halves it is split into, are amounts.
LEMMA StakeLostType ==
  ASSUME TypeOK, NEW w \in Validators, NEW l \in Validators
  PROVE  /\ StakeLost(w, l) \in Nat
         /\ StakeLost(w, l) <= amountStaked[l]
         /\ OwnerShare(StakeLost(w, l)) \in Nat
         /\ StakeLost(w, l) \div 2 \in Nat
<1>1. amountStaked[w] \in Nat /\ amountStaked[l] \in Nat
  BY DEF TypeOK
<1>2. StakeLost(w, l) \in Nat /\ StakeLost(w, l) <= amountStaked[l]
  BY <1>1 DEF StakeLost
<1> QED
  BY <1>2 DEF OwnerShare

\* What completeChallengeImpl writes has its type: stakes are split into naturals.
LEMMA SettleChallengeType ==
  ASSUME TypeOK, NEW w \in Validators, NEW l \in Validators, SettleChallenge(w, l)
  PROVE  /\ stakerSet' \subseteq Validators
         /\ latestStakedNode' \in [Validators -> NodeNums]
         /\ amountStaked' \in [Validators -> Nat]
         /\ currentChallenge' \in [Validators -> Challenges \cup {NoChallenge}]
         /\ zombies' \subseteq Validators
         /\ zombieNode' \in [Validators -> NodeNums]
         /\ withdrawable' \in [Accounts -> Nat]
<1>1. 0 \in NodeNums
  BY BoundAssumption DEF NodeNums
<1>2. w # Owner /\ l # Owner
  BY AddressAssumption
<1>3. /\ amountStaked \in [Validators -> Nat]
      /\ withdrawable \in [Accounts -> Nat]
      /\ amountStaked[l] - StakeLost(w, l) \in Nat
  BY StakeLostType DEF TypeOK
<1>4. amountStaked' \in [Validators -> Nat]
  BY <1>3, StakeLostType DEF SettleChallenge
<1>5. withdrawable' \in [Accounts -> Nat]
  <2>1. l \in Accounts /\ Owner \in Accounts
    BY DEF Accounts
  <2>2. withdrawable' = [withdrawable EXCEPT
                           ![l] = @ + (amountStaked[l] - StakeLost(w, l)),
                           ![Owner] = @ + OwnerShare(StakeLost(w, l))]
    BY DEF SettleChallenge
  <2> QED
    BY <1>2, <1>3, <2>1, <2>2, StakeLostType
<1> QED
  BY <1>1, <1>4, <1>5 DEF SettleChallenge, TypeOK

\* Creating, completing and forfeiting a challenge keep the types.
LEMMA ChallengeStepType == TypeOK /\ ChallengeStep => TypeOK'
<1> SUFFICES ASSUME TypeOK, ChallengeStep PROVE TypeOK'
  OBVIOUS
<1> USE DEF adminVars, chainVars, nodeConsts, childVars, messageVars
<1>1. ASSUME NEW a1 \in Validators, NEW a2 \in Validators,
             NEW n1 \in NodeNums, NEW n2 \in NodeNums, CreateChallenge(a1, a2, n1, n2)
      PROVE  TypeOK'
  <2>1. /\ CommonEndTime(n1) - proposedBlock[n1] \in Int
        /\ CommonEndTime(n1) - proposedBlock[n2] \in Int
    BY ConfigAssumption DEF TypeOK, CommonEndTime, DeadlineBlock
  <2>2. currentChallenge' \in [Validators -> Challenges \cup {NoChallenge}]
    BY <1>1, <2>1 DEF CreateChallenge, Challenges, TypeOK
  <2> QED
    BY <1>1, <2>2 DEF CreateChallenge, TypeOK, zombieVars, fundVars
<1>2. ASSUME NEW a1 \in Validators, NEW a2 \in Validators, SettleChallenge(a1, a2),
             UNCHANGED <<block, adminVars, chainVars, live, nodeConsts, childVars,
                         stakers, balance, messageVars>>
      PROVE  TypeOK'
  BY <1>2, SettleChallengeType DEF TypeOK
<1>3. stakerSet \subseteq Validators /\ live \subseteq NodeNums
  BY DEF TypeOK
<1> QED
  BY <1>1, <1>2, <1>3 DEF ChallengeStep, ForfeitLateChallenge, CompleteChallenge

\* Removing zombies keeps the types.
LEMMA ZombieStepType == TypeOK /\ ZombieStep => TypeOK'
<1> SUFFICES ASSUME TypeOK, ZombieStep PROVE TypeOK'
  OBVIOUS
<1> USE DEF adminVars, chainVars, nodeConsts, childVars, stakerVars, fundVars, messageVars
<1>1. 0 \in NodeNums
  BY BoundAssumption DEF NodeNums
<1>2. ASSUME NEW z \in Validators, RemoveZombie(z) PROVE TypeOK'
  <2>1. zombieNode[z] \in NodeNums /\ prev[zombieNode[z]] \in NodeNums
    BY DEF TypeOK
  <2>2. stakers' \in [NodeNums -> SUBSET Validators]
    BY <1>2, <2>1 DEF RemoveZombie, TypeOK
  <2>3. zombies' \subseteq Validators /\ zombieNode' \in [Validators -> NodeNums]
    BY <1>1, <1>2, <2>1 DEF RemoveZombie, TypeOK
  <2> QED
    BY <1>2, <2>2, <2>3 DEF RemoveZombie, TypeOK
<1>3. ASSUME NEW Z \in SUBSET zombies, RemoveOldZombies(Z) PROVE TypeOK'
  BY <1>1, <1>3 DEF RemoveOldZombies, TypeOK
<1> QED
  BY <1>2, <1>3 DEF ZombieStep

\* The initial node and the empty maps have their types.
LEMMA TypeInit == Init => TypeOK
<1> SUFFICES ASSUME Init PROVE TypeOK
  OBVIOUS
<1>1. 0 \in NodeNums /\ MaxBlock + 1 \in Nat
  BY BoundAssumption DEF NodeNums
<1>2. afterState \in [NodeNums -> ExecutionState]
  BY DEF Init, ExecutionState
<1>3. deadlineBlock \in [NodeNums -> Nat]
  BY DEF Init
<1>4. /\ prev \in [NodeNums -> NodeNums]
      /\ latestChildNumber \in [NodeNums -> NodeNums]
      /\ stakers \in [NodeNums -> SUBSET Validators]
      /\ zombieNode \in [Validators -> NodeNums]
      /\ latestStakedNode \in [Validators -> NodeNums]
      /\ currentChallenge \in [Validators -> Challenges \cup {NoChallenge}]
  BY <1>1 DEF Init
<1>5. /\ proposedBlock \in [NodeNums -> Nat]
      /\ firstChildBlock \in [NodeNums -> Nat]
      /\ noChildConfirmedBeforeBlock \in [NodeNums -> Nat]
      /\ amountStaked \in [Validators -> Nat]
      /\ withdrawable \in [Accounts -> Nat]
  BY <1>3 DEF Init
<1>6. paused \in BOOLEAN
  BY Zenon DEF Init
<1>7. /\ block \in Nat /\ shutdownForNitroBlock \in Nat
      /\ latestConfirmed \in NodeNums /\ firstUnresolvedNode \in Nat
      /\ latestNodeCreated \in NodeNums /\ live \subseteq NodeNums
      /\ stakerSet \subseteq Validators /\ zombies \subseteq Validators
      /\ balance \in Int /\ sequencedCount \in Nat /\ delayedCount \in Nat
      /\ outboxCount \in Int
  BY <1>1 DEF Init
<1> QED
  BY <1>2, <1>3, <1>4, <1>5, <1>6, <1>7 DEF TypeOK

\* Every transaction keeps the types, one group of transactions at a time.
LEMMA TypeStep == TypeOK /\ [Next]_vars => TypeOK'
<1> SUFFICES ASSUME TypeOK, [Next]_vars PROVE TypeOK'
  OBVIOUS
<1> USE DEF adminVars, chainVars, nodeConsts, childVars, stakerVars, zombieVars,
        fundVars, messageVars
<1>1. ASSUME AdvanceBlock PROVE TypeOK'
  BY <1>1 DEF AdvanceBlock, TypeOK
<1>2. ASSUME SequencerBatch PROVE TypeOK'
  <2>1. sequencedCount' \in Nat
    BY <1>2, BoundAssumption DEF SequencerBatch, TypeOK
  <2> QED
    BY <1>2, <2>1 DEF SequencerBatch, TypeOK
<1>3. ASSUME UNCHANGED vars PROVE TypeOK'
  BY <1>3 DEF TypeOK, vars
<1> QED
  BY <1>1, <1>2, <1>3, StakeStepType, ResolveStepType, ChallengeStepType, ZombieStepType
     DEF Next

\* Every variable keeps its type, for all constants: no stake, no refund and
\* no deadline the contract computes becomes negative, which in the code
\* would be a SafeMath revert.
THEOREM TypeCorrect == Spec => []TypeOK
<1> QED
  BY TypeInit, TypeStep, PTL DEF Spec

(***************************************************************************)
(* Two facts about numbers and counts.                                     *)
(***************************************************************************)
LEMMA LeastNumber ==
  ASSUME NEW T, T \subseteq Nat, T # {}
  PROVE  \E x \in T : \A y \in T : x <= y
<1> DEFINE R == OpToRel(<, Nat)
<1>1. PICK x \in T : \A y \in T : ~(<<y, x>> \in R)
  <2>1. IsWellFoundedOn(R, Nat)
    BY NatLessThanWellFounded, Zenon DEF R
  <2> HIDE DEF R
  <2> QED
    BY <2>1, WFMin, Zenon
<1>2. \A y \in T : ~(y < x)
  BY <1>1 DEF OpToRel
<1> QED
  BY <1>2

\* Counting the stakers of a node is enough to know who is not staked on it,
\* when only stakers and zombies are.
LEMMA StakerCounts ==
  ASSUME NEW S \in SUBSET Validators, NEW Z \in SUBSET Validators, S \cap Z = {},
         NEW N \in SUBSET (S \cup Z), NEW NZ, NZ = {z \in Z : z \in N}
  PROVE  /\ Cardinality(N) = Cardinality(S) + Cardinality(NZ) => S \subseteq N
         /\ Cardinality(N) = Cardinality(NZ) => N \cap S = {}
<1> DEFINE NS == N \cap S
<1>1. /\ IsFiniteSet(S) /\ Cardinality(S) \in Nat
      /\ IsFiniteSet(NS) /\ Cardinality(NS) \in Nat
      /\ IsFiniteSet(NZ) /\ Cardinality(NZ) \in Nat
  <2>1. /\ NS \in SUBSET Validators /\ NZ \in SUBSET Validators
        /\ IsFiniteSet(Validators)
    BY AddressAssumption
  <2> HIDE DEF NS
  <2>2. IsFiniteSet(S) /\ IsFiniteSet(NS) /\ IsFiniteSet(NZ)
    BY <2>1, FS_Subset
  <2> QED
    BY <2>2, FS_CardinalityType, Zenon
<1>2. NS \cup NZ = N /\ NS \cap NZ = {} /\ NS \in SUBSET S
  OBVIOUS
<1> HIDE DEF NS
<1>3. Cardinality(N) = Cardinality(NS) + Cardinality(NZ)
  <2>1. Cardinality(NS \cup NZ) = Cardinality(NS) + Cardinality(NZ) - Cardinality(NS \cap NZ)
    BY <1>1, FS_Union, Zenon
  <2>2. Cardinality(NS \cap NZ) = 0 /\ NS \cup NZ = N
    BY <1>2, FS_EmptySet
  <2>3. Cardinality(N) = Cardinality(NS) + Cardinality(NZ) - 0
    BY <2>1, <2>2, Zenon
  <2> QED
    BY <1>1, <2>3
<1>4. Cardinality(S) = Cardinality(NS) => S = NS
  BY <1>1, <1>2, FS_Subset
<1>5. Cardinality(NS) = 0 => NS = {}
  BY <1>1, FS_EmptySet
<1>6. /\ Cardinality(N) = Cardinality(S) + Cardinality(NZ) => Cardinality(S) = Cardinality(NS)
      /\ Cardinality(N) = Cardinality(NZ) => Cardinality(NS) = 0
  BY <1>1, <1>3
<1> QED
  BY <1>4, <1>5, <1>6 DEF NS

(***************************************************************************)
(* The inductive invariant.                                                *)
(***************************************************************************)

\* latestChildNumber is the largest number of a child, 0 if there is none.
ChildLinks ==
  /\ \A p \in NodeNums : latestChildNumber[p] # 0 =>
       /\ latestChildNumber[p] \in 1 .. latestNodeCreated
       /\ prev[latestChildNumber[p]] = p
  /\ \A n \in 1 .. latestNodeCreated : n <= latestChildNumber[prev[n]]

\* The nodes the rollup may still call exist, and beyond the latest confirmed
\* one no others do.  Nothing is said of nodes below it, which the owner's
\* forced confirmations may leave behind (RollupAdmin).
NodesInPlace ==
  /\ latestConfirmed < firstUnresolvedNode
  /\ firstUnresolvedNode <= latestNodeCreated + 1
  /\ {latestConfirmed} \cup Unresolved \subseteq live
  /\ \A n \in live : n > latestConfirmed => n \in Unresolved
  /\ \A n \in 1 .. latestNodeCreated : prev[n] < n

\* The older sibling that the creation of a node reads exists.
SiblingsInPlace ==
  \A p \in {latestConfirmed} \cup Unresolved : latestChildNumber[p] \in {0} \cup live

TreeInv ==
  /\ NodesInPlace
  /\ ChildLinks
  /\ StakeChain
  /\ StakersDescendFromConfirmed
  /\ SiblingsInPlace
  /\ ChallengesMatched

treeVars == <<chainVars, live, prev, latestChildNumber, stakers, stakerSet,
              latestStakedNode, currentChallenge, zombieVars>>

\* What the types and the lifecycle say of node numbers
LEMMA Numbers ==
  ASSUME TypeOK, NodesInPlace
  PROVE  /\ latestConfirmed \in Nat
         /\ firstUnresolvedNode \in Nat
         /\ latestNodeCreated \in Nat
         /\ latestNodeCreated <= MaxNodes
         /\ latestConfirmed < firstUnresolvedNode
         /\ firstUnresolvedNode <= latestNodeCreated + 1
         /\ \A n : n \in Unresolved <=>
              /\ n \in Nat
              /\ firstUnresolvedNode <= n
              /\ n <= latestNodeCreated
         /\ \A n \in Unresolved : /\ n \in NodeNums
                                  /\ n \in 1 .. latestNodeCreated
                                  /\ prev[n] \in Nat
                                  /\ prev[n] \in NodeNums
                                  /\ prev[n] < n
<1>1. /\ latestConfirmed \in 0 .. MaxNodes
      /\ firstUnresolvedNode \in Nat
      /\ latestNodeCreated \in 0 .. MaxNodes
      /\ MaxNodes \in Nat
  BY BoundAssumption DEF TypeOK, NodeNums
<1>2. \A n \in Unresolved : n \in 0 .. MaxNodes /\ n \in 1 .. latestNodeCreated
  BY <1>1 DEF Unresolved, NodesInPlace
<1>3. \A n \in 0 .. MaxNodes : prev[n] \in 0 .. MaxNodes
  BY DEF TypeOK, NodeNums
<1> QED
  BY <1>1, <1>2, <1>3 DEF NodesInPlace, Unresolved, NodeNums

\* The two nodes of a challenge are unresolved.
LEMMA AboveConfirmed ==
  ASSUME TypeOK, NodesInPlace, NEW n1 \in NodeNums, NEW n2 \in NodeNums,
         n1 \in live, n2 \in live, latestConfirmed < n1, n1 < n2
  PROVE  n1 \in Unresolved /\ n2 \in Unresolved
<1>1. n1 \in Nat /\ n2 \in Nat /\ latestConfirmed \in Nat
  BY DEF TypeOK, NodeNums
<1>2. n1 > latestConfirmed /\ n2 > latestConfirmed
  BY <1>1
<1> QED
  BY <1>2 DEF NodesInPlace

\* The tree of one confirmed node without stakers.
LEMMA TreeInit == Init => TreeInv
<1> SUFFICES ASSUME Init PROVE TreeInv
  OBVIOUS
<1>1. Unresolved = {}
  BY DEF Init, Unresolved
<1>2. NodesInPlace
  BY <1>1 DEF Init, NodesInPlace
<1>3. ChildLinks
  BY DEF Init, ChildLinks
<1>4. StakeChain /\ StakersDescendFromConfirmed
  BY <1>1 DEF Init, StakeChain, StakersDescendFromConfirmed
<1>5. SiblingsInPlace
  BY <1>1, BoundAssumption DEF Init, SiblingsInPlace, NodeNums
<1>6. ChallengesMatched
  BY DEF Init, ChallengesMatched
<1> QED
  BY <1>2, <1>3, <1>4, <1>5, <1>6 DEF TreeInv

\* Deposits, withdrawals and batches do not touch what TreeInv reads.
LEMMA TreeUnchanged == TreeInv /\ UNCHANGED treeVars => TreeInv'
<1> SUFFICES ASSUME TreeInv, UNCHANGED treeVars PROVE TreeInv'
  OBVIOUS
<1> USE DEF treeVars, chainVars, zombieVars
<1>1. Unresolved' = Unresolved
  BY DEF Unresolved
<1>2. NodesInPlace' /\ ChildLinks' /\ SiblingsInPlace'
  BY <1>1 DEF TreeInv, NodesInPlace, ChildLinks, SiblingsInPlace
<1>3. \A a : Position(a)' = Position(a)
  BY DEF Position
<1>4. StakeChain'
  BY <1>1, <1>3 DEF TreeInv, StakeChain
<1>5. StakersDescendFromConfirmed'
  BY <1>1 DEF TreeInv, StakersDescendFromConfirmed
<1>6. ChallengesMatched'
  BY <1>1 DEF TreeInv, ChallengesMatched
<1> QED
  BY <1>2, <1>4, <1>5, <1>6 DEF TreeInv

\* A new staker is on no unresolved node.
LEMMA TreeNewStake ==
  ASSUME TypeOK, TreeInv, NEW a \in Validators, NEW amount, NewStake(a, amount)
  PROVE  TreeInv'
<1> USE DEF chainVars, nodeConsts, childVars, zombieVars
<1>1. /\ a \notin stakerSet /\ a \notin zombies
      /\ stakerSet' = stakerSet \cup {a}
      /\ latestStakedNode' = [latestStakedNode EXCEPT ![a] = latestConfirmed]
      /\ currentChallenge' = [currentChallenge EXCEPT ![a] = NoChallenge]
      /\ UNCHANGED <<chainVars, live, prev, latestChildNumber, stakers, zombieVars>>
  BY DEF NewStake
<1>2. Unresolved' = Unresolved
  BY <1>1 DEF Unresolved
<1>3. NodesInPlace' /\ ChildLinks' /\ SiblingsInPlace'
  BY <1>1, <1>2 DEF TreeInv, NodesInPlace, ChildLinks, SiblingsInPlace
<1>4. \A n \in Unresolved : a \notin stakers[n]
  BY <1>1 DEF TreeInv, StakeChain
<1>5. latestStakedNode'[a] = latestConfirmed /\ latestConfirmed \notin Unresolved
  BY <1>1, Numbers DEF TreeInv, TypeOK
<1>6. \A b \in Validators : b # a => Position(b)' = Position(b)
  BY <1>1 DEF Position, TypeOK
<1>7. Position(a)' = latestConfirmed
  BY <1>1, <1>5 DEF Position
<1>8. StakeChain'
  <2>1. \A b \in stakerSet \cup zombies : b \in Validators /\ b # a
    BY <1>1 DEF TypeOK
  <2> QED
    BY <1>1, <1>2, <1>4, <1>5, <1>6, <1>7, <2>1, Numbers DEF TreeInv, StakeChain
<1>9. StakersDescendFromConfirmed'
  <2>1. \A b \in stakerSet : b # a /\ latestStakedNode'[b] = latestStakedNode[b]
    BY <1>1 DEF TypeOK
  <2> QED
    BY <1>1, <1>2, <1>4, <1>5, <2>1 DEF TreeInv, StakersDescendFromConfirmed
<1>10. ChallengesMatched'
  <2>1. currentChallenge[a] = NoChallenge
    BY <1>1 DEF TreeInv, ChallengesMatched
  <2>2. currentChallenge' = currentChallenge
    BY <1>1, <2>1 DEF TypeOK
  <2> QED
    BY <1>1, <1>2, <2>2 DEF TreeInv, ChallengesMatched
<1> QED
  BY <1>3, <1>8, <1>9, <1>10 DEF TreeInv

\* A staker that is refunded stands on no unresolved node and is party to no
\* challenge.
LEMMA TreeReturnOldDeposit ==
  ASSUME TypeOK, TreeInv, NEW a \in Validators, ReturnOldDeposit(a)
  PROVE  TreeInv'
<1> USE DEF chainVars, nodeConsts, childVars, zombieVars
<1>1. /\ a \in stakerSet /\ currentChallenge[a] = NoChallenge
      /\ latestStakedNode[a] <= latestConfirmed
      /\ stakerSet' = stakerSet \ {a}
      /\ latestStakedNode' = [latestStakedNode EXCEPT ![a] = 0]
      /\ UNCHANGED <<chainVars, live, prev, latestChildNumber, stakers, currentChallenge,
                     zombieVars>>
  BY DEF ReturnOldDeposit, ReturnRequirements, UnchallengedStaker
<1>2. Unresolved' = Unresolved
  BY <1>1 DEF Unresolved
<1>3. NodesInPlace' /\ ChildLinks' /\ SiblingsInPlace'
  BY <1>1, <1>2 DEF TreeInv, NodesInPlace, ChildLinks, SiblingsInPlace
<1>4. \A n \in Unresolved : a \notin stakers[n]
  <2>1. Position(a) = latestStakedNode[a] /\ latestStakedNode[a] \in NodeNums
    BY <1>1 DEF TreeInv, StakeChain, Position, TypeOK
  <2>2. \A n \in Unresolved : a \in stakers[n] => n <= latestStakedNode[a]
    BY <1>1, <2>1 DEF TreeInv, StakeChain
  <2>3. latestStakedNode[a] \in Nat
    BY <2>1 DEF NodeNums
  <2> QED
    BY <1>1, <2>2, <2>3, Numbers DEF TreeInv
<1>5. \A b \in Validators : b # a => Position(b)' = Position(b)
  BY <1>1 DEF Position, TypeOK
<1>6. StakeChain'
  <2>1. a \notin stakerSet' \cup zombies'
    BY <1>1 DEF TreeInv, StakeChain
  <2>2. \A b \in stakerSet' \cup zombies' : b \in stakerSet \cup zombies /\ b \in Validators
    BY <1>1 DEF TypeOK
  <2> QED
    BY <1>1, <1>2, <1>4, <1>5, <2>1, <2>2 DEF TreeInv, StakeChain
<1>7. StakersDescendFromConfirmed'
  <2>1. \A b \in stakerSet' : b \in stakerSet /\ latestStakedNode'[b] = latestStakedNode[b]
    BY <1>1 DEF TypeOK
  <2> QED
    BY <1>1, <1>2, <2>1 DEF TreeInv, StakersDescendFromConfirmed
<1>8. ChallengesMatched'
  <2>1. \A b \in Validators : currentChallenge[b] # NoChallenge =>
          a # currentChallenge[b].asserter /\ a # currentChallenge[b].challenger
    BY <1>1 DEF TreeInv, ChallengesMatched
  <2> QED
    BY <1>1, <1>2, <2>1 DEF TreeInv, ChallengesMatched
<1> QED
  BY <1>3, <1>6, <1>7, <1>8 DEF TreeInv

\* A staker moves to a child n of the node it stands on.
LEMMA TreeStakeOnExistingNode ==
  ASSUME TypeOK, TreeInv, NEW a \in Validators, NEW n \in NodeNums, StakeOnExistingNode(a, n)
  PROVE  TreeInv'
<1> USE DEF chainVars, nodeConsts, zombieVars
<1>1. /\ a \in stakerSet /\ a \notin zombies /\ n \in Unresolved
      /\ latestStakedNode[a] = prev[n] /\ a \notin stakers[n]
      /\ stakers' = [stakers EXCEPT ![n] = @ \cup {a}]
      /\ latestStakedNode' = [latestStakedNode EXCEPT ![a] = n]
      /\ UNCHANGED <<chainVars, live, prev, latestChildNumber, stakerSet, currentChallenge,
                     zombieVars>>
  BY DEF StakeOnExistingNode, TreeInv, StakeChain
<1>2. Unresolved' = Unresolved
  BY <1>1 DEF Unresolved
<1>3. NodesInPlace' /\ ChildLinks' /\ SiblingsInPlace'
  BY <1>1, <1>2 DEF TreeInv, NodesInPlace, ChildLinks, SiblingsInPlace
<1>4. /\ Position(a) = prev[n]
      /\ Position(a)' = n
      /\ \A b \in Validators : b # a => Position(b)' = Position(b)
  BY <1>1 DEF Position, TypeOK
<1>5. /\ stakers'[n] = stakers[n] \cup {a}
      /\ \A m \in NodeNums : m # n => stakers'[m] = stakers[m]
      /\ \A m \in Unresolved : m \in NodeNums /\ m \in Nat /\ prev[m] < m /\ prev[m] \in NodeNums
      /\ prev[n] \in Nat
  BY <1>1, Numbers DEF TypeOK, TreeInv
<1>6. \A m \in Unresolved : a \in stakers[m] => m <= prev[n] /\ m < n
  BY <1>1, <1>4, <1>5 DEF TreeInv, StakeChain
<1>7. StakeChain'
  <2>1. stakerSet' \cap zombies' = {} /\ \A m \in Unresolved' : stakers'[m] \subseteq (stakerSet \cup zombies)'
    BY <1>1, <1>2, <1>5 DEF TreeInv, StakeChain
  <2>2. ASSUME NEW b \in stakerSet \cup zombies
        PROVE  /\ Position(b)' <= latestNodeCreated
               /\ Position(b)' \in Unresolved => b \in stakers'[Position(b)']
               /\ \A m \in Unresolved : b \in stakers'[m] =>
                    /\ m <= Position(b)'
                    /\ prev[m] \in Unresolved => b \in stakers'[prev[m]]
                    /\ \A k \in Unresolved : k < m /\ b \in stakers'[k] => k <= prev[m]
    <3>1. CASE b = a
      <4>1. Position(b)' = n /\ b \in stakers'[n]
        BY <1>4, <1>5, <3>1
      <4>2. ASSUME NEW m \in Unresolved, b \in stakers'[m], m # n
            PROVE  /\ m <= n /\ b \in stakers[m]
                   /\ prev[m] \in Unresolved => b \in stakers'[prev[m]]
                   /\ \A k \in Unresolved : k < m /\ b \in stakers'[k] => k <= prev[m]
        BY <1>1, <1>5, <1>6, <3>1, <4>2 DEF TreeInv, StakeChain
      <4>3. prev[n] \in Unresolved => b \in stakers'[prev[n]]
        BY <1>1, <1>4, <1>5, <3>1 DEF TreeInv, StakeChain
      <4>4. \A k \in Unresolved : k < n /\ b \in stakers'[k] => k <= prev[n]
        BY <1>5, <1>6, <3>1
      <4>5. n <= latestNodeCreated
        BY <1>1, Numbers DEF TreeInv
      <4> QED
        BY <1>5, <4>1, <4>2, <4>3, <4>4, <4>5
    <3>2. CASE b # a
      <4>1. b \in Validators /\ \A m \in Unresolved : b \in stakers'[m] <=> b \in stakers[m]
        BY <1>5, <3>2 DEF TypeOK
      <4> QED
        BY <1>4, <3>2, <4>1 DEF TreeInv, StakeChain
    <3> QED
      BY <3>1, <3>2
  <2> QED
    BY <1>1, <1>2, <2>1, <2>2 DEF StakeChain
<1>8. StakersDescendFromConfirmed'
  <2>1. prev[n] \in {latestConfirmed} \cup Unresolved
    BY <1>1 DEF TreeInv, StakersDescendFromConfirmed
  <2>2. \A b \in stakerSet : b # a => latestStakedNode'[b] = latestStakedNode[b]
    BY <1>1 DEF TypeOK
  <2>3. latestStakedNode'[a] = n
    BY <1>1 DEF TypeOK
  <2> QED
    BY <1>1, <1>2, <1>5, <2>1, <2>2, <2>3 DEF TreeInv, StakersDescendFromConfirmed
<1>9. ChallengesMatched'
  <2>1. \A m \in Unresolved : stakers[m] \subseteq stakers'[m]
    BY <1>5
  <2> QED
    BY <1>1, <1>2, <2>1 DEF TreeInv, ChallengesMatched
<1> QED
  BY <1>3, <1>7, <1>8, <1>9 DEF TreeInv

\* A staker asserts a new node after the one it stands on.
LEMMA TreeStakeOnNewNode ==
  ASSUME TypeOK, TreeInv, NEW a \in Validators, NEW after \in Assertions,
         StakeOnNewNode(a, after)
  PROVE  TreeInv'
<1> DEFINE p == latestStakedNode[a]
           n == latestNodeCreated + 1
<1> USE DEF zombieVars
<1>1. /\ a \in stakerSet /\ a \notin zombies /\ p \in live /\ n <= MaxNodes
      /\ latestNodeCreated' = n
      /\ live' = live \cup {n}
      /\ prev' = [prev EXCEPT ![n] = p]
      /\ latestChildNumber' = [latestChildNumber EXCEPT ![p] = n]
      /\ stakers' = [stakers EXCEPT ![n] = {a}]
      /\ latestStakedNode' = [latestStakedNode EXCEPT ![a] = n]
      /\ UNCHANGED <<latestConfirmed, firstUnresolvedNode, stakerSet, currentChallenge,
                     zombieVars>>
  BY DEF StakeOnNewNode, TreeInv, StakeChain
<1>2. /\ latestConfirmed \in Nat /\ firstUnresolvedNode \in Nat /\ latestNodeCreated \in Nat
      /\ latestConfirmed < firstUnresolvedNode /\ firstUnresolvedNode <= n
      /\ p \in {latestConfirmed} \cup Unresolved
      /\ \A m : m \in Unresolved <=> m \in Nat /\ firstUnresolvedNode <= m /\ m < n
      /\ \A m \in Unresolved : m \in NodeNums /\ prev[m] \in Nat /\ prev[m] < m
  BY <1>1, Numbers DEF TreeInv, NodesInPlace, StakersDescendFromConfirmed
<1>3. /\ n \in NodeNums /\ n \in Nat /\ n \notin Unresolved
      /\ p \in NodeNums /\ p \in Nat /\ p < n
  <2>1. p \in NodeNums
    BY DEF TypeOK
  <2> QED
    BY <1>1, <1>2, <2>1, BoundAssumption DEF NodeNums
<1> HIDE DEF n, p
<1>4. Unresolved' = Unresolved \cup {n}
  <2>1. \A m : m \in Unresolved' <=> m \in Nat /\ firstUnresolvedNode <= m /\ m <= n
    BY <1>1, <1>2, <1>3 DEF Unresolved
  <2> QED
    BY <1>2, <1>3, <2>1
<1>5. /\ prev'[n] = p /\ stakers'[n] = {a} /\ latestChildNumber'[p] = n
      /\ latestStakedNode'[a] = n
      /\ \A m \in NodeNums : m # n => prev'[m] = prev[m] /\ stakers'[m] = stakers[m]
      /\ \A m \in NodeNums : m # p => latestChildNumber'[m] = latestChildNumber[m]
      /\ \A b \in Validators : b # a => latestStakedNode'[b] = latestStakedNode[b]
  BY <1>1, <1>3 DEF TypeOK, p
<1>6. \A m \in 1 .. latestNodeCreated : m \in NodeNums /\ m # n /\ m < n /\ prev[m] \in NodeNums
  <2>1. \A m \in 1 .. latestNodeCreated : m \in NodeNums /\ m < n /\ m # n
    BY <1>2, <1>3, BoundAssumption DEF NodeNums, n
  <2>2. \A m \in NodeNums : prev[m] \in NodeNums
    BY DEF TypeOK
  <2> QED
    BY <2>1, <2>2
<1>7. \A m : m \in 1 .. n <=> m = n \/ m \in 1 .. latestNodeCreated
  BY <1>2 DEF n
<1>8. NodesInPlace'
  BY <1>1, <1>2, <1>3, <1>4, <1>5, <1>6, <1>7 DEF TreeInv, NodesInPlace, n
<1>9. ChildLinks'
  <2>1. \A q \in NodeNums : latestChildNumber'[q] # 0 =>
          /\ latestChildNumber'[q] \in 1 .. n
          /\ prev'[latestChildNumber'[q]] = q
    BY <1>5, <1>6, <1>7 DEF TreeInv, ChildLinks
  <2>2. \A m \in 1 .. n : m <= latestChildNumber'[prev'[m]]
    <3>1. ASSUME NEW m \in 1 .. latestNodeCreated PROVE m <= latestChildNumber'[prev'[m]]
      <4>1. m <= latestChildNumber[prev[m]] /\ prev'[m] = prev[m]
        BY <1>5, <1>6 DEF TreeInv, ChildLinks
      <4>2. CASE prev[m] = p
        BY <1>3, <1>5, <1>6, <4>1, <4>2
      <4>3. CASE prev[m] # p
        BY <1>5, <1>6, <4>1, <4>3
      <4> QED
        BY <4>2, <4>3
    <3> QED
      BY <1>3, <1>5, <1>7, <3>1
  <2> QED
    BY <1>1, <2>1, <2>2 DEF ChildLinks
<1>10. SiblingsInPlace'
  <2>1. latestChildNumber[n] = 0
    BY <1>3, <1>6 DEF TreeInv, NodesInPlace, ChildLinks
  <2>2. {latestConfirmed} \cup Unresolved \subseteq NodeNums
    BY <1>2 DEF TypeOK
  <2> QED
    BY <1>1, <1>3, <1>4, <1>5, <2>1, <2>2 DEF TreeInv, SiblingsInPlace
<1>11. /\ Position(a) = p /\ Position(a)' = n
       /\ \A b \in Validators : b # a => Position(b)' = Position(b)
  BY <1>1, <1>5 DEF Position, p
<1>12. \A m \in Unresolved : a \in stakers[m] => m <= p
  BY <1>1, <1>11 DEF TreeInv, StakeChain
<1>13. \A m \in Unresolved : m \in NodeNums /\ m # n /\ prev'[m] = prev[m] /\ stakers'[m] = stakers[m]
                            /\ prev[m] # n
  BY <1>2, <1>3, <1>5
<1>14. StakeChain'
  <2>1. /\ stakerSet' \cap zombies' = {}
        /\ \A m \in Unresolved' : stakers'[m] \subseteq (stakerSet \cup zombies)'
    BY <1>1, <1>4, <1>5, <1>13 DEF TreeInv, StakeChain
  <2>2. ASSUME NEW b \in stakerSet \cup zombies
        PROVE  /\ Position(b)' <= n
               /\ Position(b)' \in Unresolved' => b \in stakers'[Position(b)']
               /\ \A m \in Unresolved' : b \in stakers'[m] =>
                    /\ m <= Position(b)'
                    /\ prev'[m] \in Unresolved' => b \in stakers'[prev'[m]]
                    /\ \A k \in Unresolved' : k < m /\ b \in stakers'[k] => k <= prev'[m]
    <3>1. CASE b = a
      <4>1. Position(b)' = n /\ b \in stakers'[n]
        BY <1>5, <1>11, <3>1
      <4>2. ASSUME NEW m \in Unresolved, b \in stakers'[m]
            PROVE  /\ m <= n /\ b \in stakers[m]
                   /\ prev[m] \in Unresolved => b \in stakers'[prev[m]]
                   /\ \A k \in Unresolved : k < m /\ b \in stakers'[k] => k <= prev[m]
        BY <1>1, <1>2, <1>3, <1>12, <1>13, <3>1, <4>2 DEF TreeInv, StakeChain
      <4>3. p \in Unresolved => b \in stakers'[p]
        BY <1>1, <1>11, <1>13, <3>1 DEF TreeInv, StakeChain
      <4>4. \A k \in Unresolved : k < n /\ b \in stakers'[k] => k <= p
        BY <1>12, <1>13, <3>1
      <4>5. \A m \in Unresolved : ~(n < m)
        BY <1>2, <1>3
      <4> QED
        BY <1>2, <1>3, <1>4, <1>5, <1>13, <4>1, <4>2, <4>3, <4>4, <4>5
    <3>2. CASE b # a
      <4>1. /\ b \in Validators /\ b \notin stakers'[n]
            /\ Position(b)' = Position(b) /\ Position(b) # n /\ Position(b) <= n
        <5>1. b \in Validators /\ Position(b)' = Position(b) /\ b \notin stakers'[n]
          BY <1>5, <1>11, <3>2 DEF TypeOK
        <5>2. Position(b) # n /\ Position(b) <= n
          <6>1. Position(b) \in Nat /\ Position(b) <= latestNodeCreated
            <7>1. Position(b) \in NodeNums /\ Position(b) <= latestNodeCreated
              BY <5>1 DEF TreeInv, StakeChain, Position, TypeOK
            <7> QED
              BY <7>1 DEF NodeNums
          <6> QED
            BY <1>2, <6>1 DEF n
        <5> QED
          BY <5>1, <5>2
      <4> QED
        BY <1>4, <1>13, <3>2, <4>1 DEF TreeInv, StakeChain
    <3> QED
      BY <3>1, <3>2
  <2> QED
    BY <1>1, <2>1, <2>2, Zenon DEF StakeChain
<1>15. StakersDescendFromConfirmed'
  <2>1. p \in {latestConfirmed} \cup Unresolved
    BY <1>1 DEF TreeInv, StakersDescendFromConfirmed, p
  <2>2. \A b \in stakerSet : b \in Validators
    BY DEF TypeOK
  <2> QED
    BY <1>1, <1>4, <1>5, <1>13, <2>1, <2>2 DEF TreeInv, StakersDescendFromConfirmed
<1>16. ChallengesMatched'
  BY <1>1, <1>4, <1>13 DEF TreeInv, ChallengesMatched
<1> QED
  BY <1>8, <1>9, <1>10, <1>14, <1>15, <1>16 DEF TreeInv

\* Zombies that are taken off the list before they are counted are on no
\* unresolved node.
LEMMA OldZombiesOff ==
  ASSUME TypeOK, TreeInv
  PROVE  \A z \in OldZombies : \A n \in Unresolved : z \notin stakers[n]
<1> SUFFICES ASSUME NEW z \in OldZombies, NEW n \in Unresolved, z \in stakers[n]
             PROVE  FALSE
  OBVIOUS
<1>1. z \in zombies /\ zombieNode[z] < firstUnresolvedNode /\ zombieNode[z] \in NodeNums
  BY DEF OldZombies, TypeOK
<1>2. n <= zombieNode[z]
  BY <1>1 DEF TreeInv, StakeChain, Position
<1>3. zombieNode[z] \in Nat
  BY <1>1 DEF NodeNums
<1> QED
  BY <1>1, <1>2, <1>3, Numbers DEF TreeInv

\* The comparisons of counts mean what the code's comments say.
LEMMA CountsMeanSets ==
  ASSUME TypeOK, TreeInv, NEW n \in Unresolved
  PROVE  /\ AllStaked(n) => stakerSet \subseteq stakers[n]
         /\ OnlyZombiesStaked(n) => stakers[n] \cap stakerSet = {}
<1> DEFINE Z == zombies \ OldZombies
<1>1. stakerSet \in SUBSET Validators /\ Z \in SUBSET Validators /\ stakerSet \cap Z = {}
  BY DEF TypeOK, TreeInv, StakeChain
<1>2. stakers[n] \in SUBSET (stakerSet \cup Z)
  BY OldZombiesOff DEF TreeInv, StakeChain
<1> DEFINE NZ == {z \in Z : z \in stakers[n]}
<1>3. CountStakedZombies(n) = Cardinality(NZ) /\ NZ = {z \in Z : z \in stakers[n]}
  BY DEF CountStakedZombies
<1> HIDE DEF Z, NZ
<1>4. /\ Cardinality(stakers[n]) = Cardinality(stakerSet) + Cardinality(NZ)
           => stakerSet \subseteq stakers[n]
      /\ Cardinality(stakers[n]) = Cardinality(NZ) => stakers[n] \cap stakerSet = {}
  BY <1>1, <1>2, <1>3, StakerCounts
<1> QED
  BY <1>3, <1>4 DEF AllStaked, OnlyZombiesStaked

\* Removing old zombies from the list changes nothing on the tree.
LEMMA DropZombies ==
  ASSUME TypeOK, TreeInv, NEW Z \in SUBSET OldZombies,
         zombies' = zombies \ Z,
         zombieNode' = [a \in Validators |-> IF a \in Z THEN 0 ELSE zombieNode[a]],
         UNCHANGED <<chainVars, live, prev, latestChildNumber, stakers, stakerSet,
                     latestStakedNode, currentChallenge>>
  PROVE  TreeInv'
<1> USE DEF chainVars
<1>1. Unresolved' = Unresolved
  BY DEF Unresolved
<1>2. NodesInPlace' /\ ChildLinks' /\ SiblingsInPlace'
  BY <1>1 DEF TreeInv, NodesInPlace, ChildLinks, SiblingsInPlace
<1>3. Z \subseteq zombies /\ stakerSet \cap zombies = {}
  BY DEF OldZombies, TreeInv, StakeChain
<1>4. \A b \in stakerSet' \cup zombies' : b \in stakerSet \cup zombies /\ Position(b)' = Position(b)
  BY <1>3 DEF Position, TypeOK
<1>5. StakeChain'
  BY <1>1, <1>3, <1>4, OldZombiesOff DEF TreeInv, StakeChain
<1>6. StakersDescendFromConfirmed' /\ ChallengesMatched'
  BY <1>1 DEF TreeInv, StakersDescendFromConfirmed, ChallengesMatched
<1> QED
  BY <1>2, <1>5, <1>6 DEF TreeInv

\* removeOldZombies drops zombies whose latest node is resolved.
LEMMA TreeRemoveOldZombies ==
  ASSUME TypeOK, TreeInv, NEW Z \in SUBSET zombies, RemoveOldZombies(Z)
  PROVE  TreeInv'
BY DropZombies DEF RemoveOldZombies, chainVars, nodeConsts, childVars, stakerVars

\* A zombie is taken off the last node of its path.
LEMMA TreeRemoveZombie ==
  ASSUME TypeOK, TreeInv, NEW z \in Validators, RemoveZombie(z)
  PROVE  TreeInv'
<1> DEFINE n == zombieNode[z]
<1> USE DEF chainVars, nodeConsts, childVars, stakerVars
<1>1. /\ z \in zombies /\ z \notin stakerSet
      /\ UNCHANGED <<chainVars, live, prev, latestChildNumber, stakerSet,
                     latestStakedNode, currentChallenge>>
  BY DEF RemoveZombie, TreeInv, StakeChain
<1>2. Unresolved' = Unresolved
  BY <1>1 DEF Unresolved
<1>3. NodesInPlace' /\ ChildLinks' /\ SiblingsInPlace'
  BY <1>1, <1>2 DEF TreeInv, NodesInPlace, ChildLinks, SiblingsInPlace
<1>4. n \in NodeNums /\ n \in Nat /\ n <= latestNodeCreated /\ Position(z) = n
  <2>1. n \in NodeNums /\ n <= latestNodeCreated /\ Position(z) = n
    BY <1>1 DEF TypeOK, TreeInv, StakeChain, Position
  <2> QED
    BY <2>1 DEF NodeNums
<1>5. CASE n < firstUnresolvedNode
  <2>1. /\ stakers' = stakers
        /\ zombies' = zombies \ {z}
        /\ zombieNode' = [zombieNode EXCEPT ![z] = 0]
    BY <1>4, <1>5, Numbers DEF RemoveZombie, TreeInv
  <2>2. {z} \in SUBSET OldZombies
    BY <1>1, <1>5 DEF OldZombies
  <2>3. zombieNode' = [a \in Validators |-> IF a \in {z} THEN 0 ELSE zombieNode[a]]
    BY <2>1 DEF TypeOK
  <2> QED
    BY <1>1, <2>1, <2>2, <2>3, DropZombies
<1>6. CASE n >= firstUnresolvedNode
  <2>1. /\ n \in Unresolved /\ z \in stakers[n]
        /\ stakers' = [stakers EXCEPT ![n] = @ \ {z}]
    BY <1>4, <1>6, Numbers DEF RemoveZombie, TreeInv
  <2>2. /\ stakers'[n] = stakers[n] \ {z}
        /\ \A m \in NodeNums : m # n => stakers'[m] = stakers[m]
        /\ \A m \in Unresolved : m \in NodeNums /\ m \in Nat /\ prev[m] \in Nat /\ prev[m] < m
                                /\ prev[m] \in NodeNums
    BY <1>4, <2>1, Numbers DEF TypeOK, TreeInv
  <2>3. \A m \in Unresolved : z \in stakers'[m] => m <= prev[n] /\ m < n /\ z \in stakers[m]
    BY <1>1, <1>4, <2>1, <2>2 DEF TreeInv, StakeChain
  <2>4. \A b \in Validators : b # z => Position(b)' = Position(b)
    BY <1>1, <1>4 DEF RemoveZombie, Position, TypeOK
  <2>5. \A m \in Unresolved : \A b \in Validators : b # z => (b \in stakers'[m] <=> b \in stakers[m])
    BY <2>2
  <2>6. prev[n] \in Unresolved <=> prev[n] >= firstUnresolvedNode
    BY <1>4, <2>1, <2>2, Numbers DEF TreeInv
  <2>7. StakeChain'
    <3>1. CASE prev[n] < firstUnresolvedNode
      <4>1. zombies' = zombies \ {z} /\ z \notin stakerSet' \cup zombies'
        BY <1>1, <1>4, <1>6, <2>1, <2>2, <3>1, Numbers DEF RemoveZombie, TreeInv
      <4>2. \A m \in Unresolved : z \notin stakers'[m]
        BY <2>1, <2>2, <2>3, <3>1, Numbers DEF TreeInv
      <4>3. \A b \in stakerSet' \cup zombies' : b \in stakerSet \cup zombies /\ b # z /\ b \in Validators
        BY <1>1, <4>1 DEF TypeOK
      <4>4. \A m \in Unresolved : stakers'[m] \subseteq stakerSet' \cup zombies'
        BY <1>1, <2>2, <4>1, <4>2 DEF TreeInv, StakeChain
      <4> QED
        BY <1>1, <1>2, <2>4, <2>5, <4>1, <4>3, <4>4 DEF TreeInv, StakeChain
    <3>2. CASE prev[n] >= firstUnresolvedNode
      <4>1. zombies' = zombies /\ zombieNode' = [zombieNode EXCEPT ![z] = prev[n]]
        BY <1>1, <1>4, <1>6, <2>1, <2>2, <3>2, Numbers DEF RemoveZombie, TreeInv
      <4>2. Position(z)' = prev[n]
        BY <1>1, <4>1 DEF Position, TypeOK
      <4>3. prev[n] \in Unresolved /\ z \in stakers'[prev[n]] /\ prev[n] <= latestNodeCreated
        BY <1>1, <1>4, <2>1, <2>2, <2>6, <3>2, Numbers DEF TreeInv, StakeChain
      <4>4. ASSUME NEW m \in Unresolved, z \in stakers'[m]
            PROVE  /\ m <= prev[n]
                   /\ prev[m] \in Unresolved => z \in stakers'[prev[m]]
                   /\ \A k \in Unresolved : k < m /\ z \in stakers'[k] => k <= prev[m]
        <5>1. m <= prev[n] /\ m < n /\ z \in stakers[m]
          BY <2>3, <4>4
        <5>2. prev[m] \in Unresolved => prev[m] # n /\ z \in stakers[prev[m]]
          BY <1>1, <1>4, <2>2, <5>1 DEF TreeInv, StakeChain
        <5>3. \A k \in Unresolved : k < m /\ z \in stakers'[k] => k <= prev[m]
          BY <1>1, <2>3, <5>1 DEF TreeInv, StakeChain
        <5> QED
          BY <2>2, <5>1, <5>2, <5>3
      <4>5. \A b \in stakerSet' \cup zombies' : b \in stakerSet \cup zombies /\ b \in Validators
        BY <1>1, <4>1 DEF TypeOK
      <4>6. /\ stakerSet' \cap zombies' = {}
            /\ \A m \in Unresolved : stakers'[m] \subseteq stakerSet' \cup zombies'
        BY <1>1, <2>2, <4>1 DEF TreeInv, StakeChain
      <4>7. ASSUME NEW b \in stakerSet' \cup zombies', b # z
            PROVE  /\ Position(b)' <= latestNodeCreated
                   /\ Position(b)' \in Unresolved => b \in stakers'[Position(b)']
                   /\ \A m \in Unresolved : b \in stakers'[m] =>
                        /\ m <= Position(b)'
                        /\ prev[m] \in Unresolved => b \in stakers'[prev[m]]
                        /\ \A k \in Unresolved : k < m /\ b \in stakers'[k] => k <= prev[m]
        BY <2>4, <2>5, <4>5, <4>7 DEF TreeInv, StakeChain
      <4> QED
        BY <1>1, <1>2, <4>2, <4>3, <4>4, <4>6, <4>7 DEF StakeChain
    <3> QED
      BY <2>1, <2>2, <3>1, <3>2, Numbers DEF TreeInv
  <2>8. StakersDescendFromConfirmed' /\ ChallengesMatched'
    <3>1. \A a \in stakerSet : \A m \in Unresolved : a \in stakers'[m] <=> a \in stakers[m]
      BY <1>1, <2>5 DEF TypeOK
    <3>2. StakersDescendFromConfirmed'
      BY <1>1, <1>2, <3>1 DEF TreeInv, StakersDescendFromConfirmed
    <3>3. ChallengesMatched'
      BY <1>1, <1>2, <3>1 DEF TreeInv, ChallengesMatched
    <3> QED
      BY <3>2, <3>3
  <2> QED
    BY <1>3, <2>7, <2>8 DEF TreeInv
<1> QED
  BY <1>4, <1>5, <1>6, Numbers DEF TreeInv

(***************************************************************************)
(* Resolving nodes.                                                        *)
(***************************************************************************)

\* The path of a staker on another branch starts at a child of the latest
\* confirmed node that is not the first unresolved one.
LEMMA StakedSibling ==
  ASSUME TypeOK, TreeInv, NEW w \in Validators, UnresolvedExists,
         OnAnotherBranch(w, firstUnresolvedNode)
  PROVE  \E m \in Unresolved : /\ m # firstUnresolvedNode
                               /\ prev[m] = latestConfirmed
                               /\ w \in stakers[m] /\ w \in stakerSet
<1> DEFINE T == {m \in Unresolved : w \in stakers[m]}
<1>1. /\ w \in stakerSet
      /\ latestStakedNode[w] \in Unresolved
      /\ w \notin stakers[firstUnresolvedNode]
  BY DEF OnAnotherBranch
<1>2. Position(w) = latestStakedNode[w]
  BY <1>1 DEF Position, TreeInv, StakeChain
<1>3. latestStakedNode[w] \in T
  BY <1>1, <1>2 DEF TreeInv, StakeChain
<1>4. T \subseteq Nat
  BY Numbers DEF TreeInv
<1>5. PICK m \in T : \A k \in T : m <= k
  <2> HIDE DEF T
  <2> QED
    BY <1>3, <1>4, LeastNumber
<1>6. prev[m] \notin Unresolved
  <2> SUFFICES ASSUME prev[m] \in Unresolved PROVE FALSE
    OBVIOUS
  <2>1. prev[m] \in T
    BY <1>1, <1>5 DEF TreeInv, StakeChain
  <2>2. m <= prev[m] /\ prev[m] < m /\ m \in Nat /\ prev[m] \in Nat
    BY <1>5, <2>1, Numbers DEF TreeInv
  <2> QED
    BY <2>2
<1>7. prev[m] = latestConfirmed
  BY <1>1, <1>5, <1>6 DEF TreeInv, StakersDescendFromConfirmed
<1> QED
  BY <1>1, <1>5, <1>7

\* No staker is on a node that is rejected.
LEMMA RejectFacts ==
  ASSUME TypeOK, TreeInv,
         \/ \E w \in Validators : RejectChildOfConfirmed(w)
         \/ RejectOutright
  PROVE  /\ firstUnresolvedNode \in Unresolved
         /\ stakers[firstUnresolvedNode] \cap stakerSet = {}
         /\ prev[firstUnresolvedNode] = latestConfirmed =>
              \E m \in Unresolved : /\ m # firstUnresolvedNode
                                   /\ prev[m] = latestConfirmed
                                   /\ stakers[m] \cap stakerSet # {}
<1> DEFINE n == firstUnresolvedNode
<1>1. UnresolvedExists
  BY DEF RejectChildOfConfirmed, RejectOutright
<1>2. n \in Unresolved
  BY <1>1, Numbers DEF TreeInv, UnresolvedExists
<1>3. CASE \E w \in Validators : RejectChildOfConfirmed(w)
  <2>1. PICK w \in Validators : RejectChildOfConfirmed(w)
    BY <1>3
  <2>2. OnlyZombiesStaked(n) /\ OnAnotherBranch(w, n)
    BY <2>1 DEF RejectChildOfConfirmed
  <2>3. stakers[n] \cap stakerSet = {}
    BY <1>2, <2>2, CountsMeanSets
  <2>4. PICK m \in Unresolved : /\ m # firstUnresolvedNode
                               /\ prev[m] = latestConfirmed
                               /\ w \in stakers[m] /\ w \in stakerSet
    BY <1>1, <2>2, StakedSibling
  <2> QED
    BY <1>2, <2>3, <2>4
<1>4. CASE RejectOutright
  <2>1. prev[n] # latestConfirmed
    BY <1>4 DEF RejectOutright
  <2>2. prev[n] \notin Unresolved
    BY <1>2, Numbers DEF TreeInv
  <2> QED
    BY <1>2, <2>1, <2>2 DEF TreeInv, StakersDescendFromConfirmed
<1> QED
  BY <1>3, <1>4

\* Rejecting the first unresolved node, once no staker is on it and, if it
\* is a child of the latest confirmed node, a staker is on a sibling.
LEMMA TreeReject ==
  ASSUME TypeOK, TreeInv,
         \/ \E w \in Validators : RejectChildOfConfirmed(w)
         \/ RejectOutright
  PROVE  TreeInv'
<1> DEFINE n == firstUnresolvedNode
<1> USE DEF chainVars, nodeConsts, childVars, stakerVars, zombieVars
<1>1. /\ firstUnresolvedNode' = n + 1
      /\ live' = live \ {n}
      /\ UNCHANGED <<latestConfirmed, latestNodeCreated, prev, latestChildNumber, stakers,
                     stakerSet, latestStakedNode, currentChallenge>>
  BY DEF RejectChildOfConfirmed, RejectOutright, DestroyFirstUnresolved, DestroyNode
<1>2. /\ n \in Unresolved
      /\ stakers[n] \cap stakerSet = {}
      /\ prev[n] = latestConfirmed =>
           \E m \in Unresolved : m # n /\ prev[m] = latestConfirmed
  BY RejectFacts
<1>3. /\ latestConfirmed \in Nat /\ n \in Nat /\ latestNodeCreated \in Nat
      /\ latestConfirmed < n
      /\ \A m : m \in Unresolved <=> m \in Nat /\ n <= m /\ m <= latestNodeCreated
      /\ \A m \in Unresolved : m \in NodeNums /\ m \in 1 .. latestNodeCreated
                               /\ prev[m] \in Nat /\ prev[m] < m
  BY Numbers DEF TreeInv
<1> HIDE DEF n
<1>4. Unresolved' = Unresolved \ {n}
  <2>1. \A m : m \in Unresolved' <=> m \in Nat /\ n + 1 <= m /\ m <= latestNodeCreated
    BY <1>1, <1>3 DEF Unresolved
  <2> QED
    BY <1>3, <2>1
<1>5. NodesInPlace'
  BY <1>1, <1>2, <1>3, <1>4 DEF TreeInv, NodesInPlace
<1>6. ChildLinks'
  BY <1>1 DEF TreeInv, ChildLinks
<1>7. SiblingsInPlace'
  <2> SUFFICES ASSUME NEW p \in {latestConfirmed} \cup Unresolved, p # n,
                      latestChildNumber[p] = n
               PROVE  FALSE
    BY <1>1, <1>3, <1>4 DEF TreeInv, SiblingsInPlace
  <2>1. p \in NodeNums
    BY <1>3 DEF TypeOK
  <2>2. prev[n] = p
    BY <1>3, <2>1 DEF TreeInv, ChildLinks
  <2>3. p = latestConfirmed
    BY <1>2, <1>3, <2>2
  <2>4. PICK m \in Unresolved : m # n /\ prev[m] = latestConfirmed
    BY <1>2, <2>2, <2>3
  <2>5. m <= n
    BY <1>3, <2>3, <2>4 DEF TreeInv, ChildLinks
  <2> QED
    BY <1>3, <2>4, <2>5
<1>8. zombies' \subseteq zombies /\ \A z \in zombies' : zombieNode'[z] = zombieNode[z]
  BY DEF RejectChildOfConfirmed, RejectOutright, TypeOK
<1>9. \A z \in zombies \ zombies' : \A m \in Unresolved : z \notin stakers[m]
  BY OldZombiesOff DEF RejectChildOfConfirmed, RejectOutright
<1>10. \A b \in stakerSet \cup zombies' : Position(b)' = Position(b)
  BY <1>1, <1>8 DEF Position, TreeInv, StakeChain
<1>11. StakeChain'
  <2>1. /\ stakerSet' \cap zombies' = {}
        /\ \A m \in Unresolved' : stakers[m] \subseteq stakerSet \cup zombies'
    BY <1>1, <1>4, <1>8, <1>9 DEF TreeInv, StakeChain
  <2>2. ASSUME NEW b \in stakerSet \cup zombies'
        PROVE  /\ Position(b)' <= latestNodeCreated
               /\ Position(b)' \in Unresolved' => b \in stakers[Position(b)']
               /\ \A m \in Unresolved' : b \in stakers[m] =>
                    /\ m <= Position(b)'
                    /\ prev[m] \in Unresolved' => b \in stakers[prev[m]]
                    /\ \A k \in Unresolved' : k < m /\ b \in stakers[k] => k <= prev[m]
    BY <1>4, <1>8, <1>10 DEF TreeInv, StakeChain
  <2> QED
    BY <1>1, <2>1, <2>2, Zenon DEF StakeChain
<1>12. StakersDescendFromConfirmed'
  <2>1. \A a \in stakerSet : latestStakedNode[a] # n
    BY <1>2 DEF TreeInv, StakeChain, Position
  <2>2. \A a \in stakerSet : \A m \in Unresolved : a \in stakers[m] => prev[m] # n
    BY <1>2 DEF TreeInv, StakeChain
  <2> QED
    BY <1>1, <1>4, <2>1, <2>2 DEF TreeInv, StakersDescendFromConfirmed
<1>13. ChallengesMatched'
  BY <1>1, <1>2, <1>4 DEF TreeInv, ChallengesMatched
<1> QED
  BY <1>5, <1>6, <1>7, <1>11, <1>12, <1>13 DEF TreeInv

\* Every staker is on a node that is confirmed.
LEMMA ConfirmFacts ==
  ASSUME TypeOK, TreeInv, ConfirmNextNode
  PROVE  /\ firstUnresolvedNode \in Unresolved
         /\ prev[firstUnresolvedNode] = latestConfirmed
         /\ stakerSet # {}
         /\ stakerSet \subseteq stakers[firstUnresolvedNode]
<1>1. firstUnresolvedNode \in Unresolved
  BY Numbers DEF TreeInv, ConfirmNextNode, ConfirmRequirements, UnresolvedExists
<1>2. AllStaked(firstUnresolvedNode) /\ stakerSet # {}
      /\ prev[firstUnresolvedNode] = latestConfirmed
  BY DEF ConfirmNextNode, ConfirmRequirements
<1> QED
  BY <1>1, <1>2, CountsMeanSets

\* confirmNextNode: the children of the confirmed node become the candidates,
\* and all active stakers are below it.
LEMMA TreeConfirm ==
  ASSUME TypeOK, TreeInv, ConfirmNextNode
  PROVE  TreeInv'
<1> DEFINE n == firstUnresolvedNode
<1> USE DEF nodeConsts, childVars, stakerVars
<1>1. /\ firstUnresolvedNode' = n + 1
      /\ latestConfirmed' = n
      /\ live' = live \ {latestConfirmed}
      /\ UNCHANGED <<latestNodeCreated, prev, latestChildNumber, stakers,
                     stakerSet, latestStakedNode, currentChallenge>>
  BY DEF ConfirmNextNode, ConfirmRequirements, DestroyNode
<1>2. n \in Unresolved /\ stakerSet \subseteq stakers[n] /\ prev[n] = latestConfirmed
  BY ConfirmFacts
<1>3. /\ latestConfirmed \in Nat /\ n \in Nat /\ latestNodeCreated \in Nat
      /\ latestConfirmed < n
      /\ \A m : m \in Unresolved <=> m \in Nat /\ n <= m /\ m <= latestNodeCreated
      /\ \A m \in Unresolved : m \in NodeNums /\ m \in 1 .. latestNodeCreated
                               /\ prev[m] \in Nat /\ prev[m] < m
  BY Numbers DEF TreeInv
<1> HIDE DEF n
<1>4. Unresolved' = Unresolved \ {n}
  <2>1. \A m : m \in Unresolved' <=> m \in Nat /\ n + 1 <= m /\ m <= latestNodeCreated
    BY <1>1, <1>3 DEF Unresolved
  <2> QED
    BY <1>3, <2>1
<1>5. NodesInPlace'
  <2>1. live \subseteq Nat
    BY DEF TypeOK, NodeNums
  <2>2. \A m \in live' : m > n => m \in Unresolved'
    BY <1>1, <1>3, <1>4, <2>1 DEF TreeInv, NodesInPlace
  <2> QED
    BY <1>1, <1>2, <1>3, <1>4, <2>2 DEF TreeInv, NodesInPlace
<1>6. ChildLinks'
  BY <1>1 DEF TreeInv, ChildLinks
<1>7. SiblingsInPlace'
  <2> SUFFICES ASSUME NEW p \in Unresolved, latestChildNumber[p] = latestConfirmed,
                      latestConfirmed # 0
               PROVE  FALSE
    BY <1>1, <1>2, <1>4 DEF TreeInv, SiblingsInPlace
  <2>1. p \in NodeNums /\ p \in Nat
    BY <1>3
  <2>2. latestConfirmed \in 1 .. latestNodeCreated /\ prev[latestConfirmed] = p
    BY <2>1 DEF TreeInv, ChildLinks
  <2>3. p < latestConfirmed
    BY <2>2 DEF TreeInv, NodesInPlace
  <2> QED
    BY <1>3, <2>1, <2>3
<1>8. /\ zombies' \subseteq zombies /\ \A z \in zombies' : zombieNode'[z] = zombieNode[z]
      /\ \A z \in zombies \ zombies' : \A m \in Unresolved : z \notin stakers[m]
  BY OldZombiesOff DEF ConfirmNextNode, TypeOK
<1>9. \A b \in stakerSet \cup zombies' : Position(b)' = Position(b)
  BY <1>1, <1>8 DEF Position, TreeInv, StakeChain
<1>10. StakeChain'
  <2>1. /\ stakerSet' \cap zombies' = {}
        /\ \A m \in Unresolved' : stakers[m] \subseteq stakerSet \cup zombies'
    BY <1>1, <1>4, <1>8 DEF TreeInv, StakeChain
  <2>2. ASSUME NEW b \in stakerSet \cup zombies'
        PROVE  /\ Position(b)' <= latestNodeCreated
               /\ Position(b)' \in Unresolved' => b \in stakers[Position(b)']
               /\ \A m \in Unresolved' : b \in stakers[m] =>
                    /\ m <= Position(b)'
                    /\ prev[m] \in Unresolved' => b \in stakers[prev[m]]
                    /\ \A k \in Unresolved' : k < m /\ b \in stakers[k] => k <= prev[m]
    BY <1>4, <1>8, <1>9 DEF TreeInv, StakeChain
  <2> QED
    BY <1>1, <2>1, <2>2, Zenon DEF StakeChain
<1>11. StakersDescendFromConfirmed'
  <2>1. \A a \in stakerSet : Position(a) = latestStakedNode[a] /\ n <= latestStakedNode[a]
    BY <1>2 DEF TreeInv, StakeChain, Position
  <2>2. \A a \in stakerSet : latestStakedNode[a] \in {n} \cup Unresolved'
    BY <1>3, <1>4, <2>1 DEF TreeInv, StakersDescendFromConfirmed
  <2>3. ASSUME NEW a \in stakerSet, NEW m \in Unresolved', a \in stakers[m]
        PROVE  prev[m] \in {n} \cup Unresolved'
    <3>1. m \in Unresolved /\ n < m
      BY <1>3, <1>4
    <3>2. n <= prev[m] /\ prev[m] < m /\ prev[m] \in Nat
      BY <1>2, <1>3, <2>3, <3>1 DEF TreeInv, StakeChain
    <3> QED
      BY <1>3, <1>4, <3>1, <3>2
  <2> QED
    BY <1>1, <2>2, <2>3 DEF StakersDescendFromConfirmed
<1>12. ChallengesMatched'
  <2> SUFFICES ASSUME NEW a \in Validators, currentChallenge[a] # NoChallenge
               PROVE  /\ currentChallenge[a].asserterNode # n
                      /\ currentChallenge[a].challengerNode # n
    BY <1>1, <1>4 DEF TreeInv, ChallengesMatched
  <2> DEFINE c == currentChallenge[a]
  <2>1. /\ c.asserterNode \in Unresolved /\ c.challengerNode \in Unresolved
        /\ c.asserterNode < c.challengerNode
        /\ prev[c.asserterNode] = prev[c.challengerNode]
        /\ c.challenger \in stakerSet /\ c.challenger \in stakers[c.challengerNode]
    BY DEF TreeInv, ChallengesMatched
  <2> HIDE DEF c
  <2>2. c.challengerNode # n
    BY <1>3, <2>1
  <2>3. ASSUME c.asserterNode = n PROVE FALSE
    <3>1. n <= prev[c.challengerNode]
      BY <1>2, <2>1, <2>3 DEF TreeInv, StakeChain
    <3> QED
      BY <1>2, <1>3, <2>1, <2>3, <3>1
  <2> QED
    BY <2>2, <2>3 DEF c
<1> QED
  BY <1>5, <1>6, <1>7, <1>10, <1>11, <1>12 DEF TreeInv

(***************************************************************************)
(* Challenges.                                                             *)
(***************************************************************************)
LEMMA TreeCreateChallenge ==
  ASSUME TypeOK, TreeInv, NEW a1 \in Validators, NEW a2 \in Validators,
         NEW n1 \in NodeNums, NEW n2 \in NodeNums, CreateChallenge(a1, a2, n1, n2)
  PROVE  TreeInv'
<1> USE DEF chainVars, nodeConsts, childVars, zombieVars
<1>1. /\ UNCHANGED <<chainVars, live, prev, latestChildNumber, stakers, stakerSet,
                     latestStakedNode, zombieVars>>
      /\ a1 \in stakerSet /\ currentChallenge[a1] = NoChallenge
      /\ a2 \in stakerSet /\ currentChallenge[a2] = NoChallenge
      /\ n1 < n2 /\ latestConfirmed < n1 /\ n1 \in live /\ n2 \in live
      /\ prev[n1] = prev[n2] /\ a1 \in stakers[n1] /\ a2 \in stakers[n2]
  BY DEF CreateChallenge, ChallengeAllowed, UnchallengedStaker
<1>2. Unresolved' = Unresolved
  BY <1>1 DEF Unresolved
<1>3. n1 \in Unresolved /\ n2 \in Unresolved
  BY <1>1, AboveConfirmed DEF TreeInv
<1>4. a1 # a2
  <2> SUFFICES ASSUME a1 = a2 PROVE FALSE
    OBVIOUS
  <2>1. n1 <= prev[n2]
    BY <1>1, <1>3 DEF TreeInv, StakeChain
  <2> QED
    BY <1>1, <1>3, <2>1, Numbers DEF TreeInv
<1> DEFINE c == [asserter |-> a1, challenger |-> a2,
                 asserterNode |-> n1, challengerNode |-> n2,
                 asserterTime   |-> CommonEndTime(n1) - proposedBlock[n1],
                 challengerTime |-> CommonEndTime(n1) - proposedBlock[n2]]
<1>5. /\ currentChallenge' = [currentChallenge EXCEPT ![a1] = c, ![a2] = c]
      /\ c.asserter = a1 /\ c.challenger = a2
      /\ c.asserterNode = n1 /\ c.challengerNode = n2
  BY DEF CreateChallenge
<1> HIDE DEF c
<1>6. /\ currentChallenge'[a1] = c /\ currentChallenge'[a2] = c
      /\ \A b \in Validators : b # a1 /\ b # a2 => currentChallenge'[b] = currentChallenge[b]
  BY <1>4, <1>5 DEF TypeOK
<1>7. ChallengesMatched'
  <2> SUFFICES ASSUME NEW b \in Validators, currentChallenge'[b] # NoChallenge
               PROVE  /\ b \in {currentChallenge'[b].asserter, currentChallenge'[b].challenger}
                      /\ currentChallenge'[b].asserter # currentChallenge'[b].challenger
                      /\ {currentChallenge'[b].asserter, currentChallenge'[b].challenger} \subseteq stakerSet
                      /\ currentChallenge'[currentChallenge'[b].asserter] = currentChallenge'[b]
                      /\ currentChallenge'[currentChallenge'[b].challenger] = currentChallenge'[b]
                      /\ currentChallenge'[b].asserterNode < currentChallenge'[b].challengerNode
                      /\ {currentChallenge'[b].asserterNode, currentChallenge'[b].challengerNode} \subseteq Unresolved
                      /\ prev[currentChallenge'[b].asserterNode] = prev[currentChallenge'[b].challengerNode]
                      /\ currentChallenge'[b].asserter \in stakers[currentChallenge'[b].asserterNode]
                      /\ currentChallenge'[b].challenger \in stakers[currentChallenge'[b].challengerNode]
    BY <1>1, <1>2 DEF ChallengesMatched
  <2>1. CASE b \in {a1, a2}
    BY <1>1, <1>3, <1>4, <1>5, <1>6, <2>1
  <2>2. CASE b \notin {a1, a2}
    <3>1. currentChallenge'[b] = currentChallenge[b]
      BY <1>6, <2>2
    <3>2. /\ currentChallenge[b].asserter \notin {a1, a2}
          /\ currentChallenge[b].challenger \notin {a1, a2}
          /\ currentChallenge[b].asserter \in Validators
          /\ currentChallenge[b].challenger \in Validators
      BY <1>1, <3>1 DEF TreeInv, ChallengesMatched, TypeOK
    <3> QED
      BY <1>6, <3>1, <3>2 DEF TreeInv, ChallengesMatched
  <2> QED
    BY <2>1, <2>2
<1>8. NodesInPlace' /\ ChildLinks' /\ SiblingsInPlace'
  BY <1>1, <1>2 DEF TreeInv, NodesInPlace, ChildLinks, SiblingsInPlace
<1>9. \A a : Position(a)' = Position(a)
  BY <1>1 DEF Position
<1>10. StakeChain' /\ StakersDescendFromConfirmed'
  BY <1>1, <1>2, <1>9 DEF TreeInv, StakeChain, StakersDescendFromConfirmed
<1> QED
  BY <1>7, <1>8, <1>10 DEF TreeInv

\* The loser becomes a zombie where it stands.  What is needed is that it is
\* a staker and that no challenge but the one that is settled involves the
\* two parties.
LEMMA TreeSettle ==
  ASSUME TypeOK, TreeInv, NEW w \in Validators, NEW l \in Validators,
         SettleChallenge(w, l), l \in stakerSet,
         \A b \in Validators \ {w, l} : currentChallenge[b] # NoChallenge =>
           currentChallenge[b].asserter \notin {w, l} /\ currentChallenge[b].challenger \notin {w, l},
         UNCHANGED <<chainVars, live, prev, latestChildNumber, stakers>>
  PROVE  TreeInv'
<1> USE DEF chainVars
<1>1. /\ currentChallenge' =
           [currentChallenge EXCEPT ![w] = NoChallenge, ![l] = NoChallenge]
      /\ zombies' = zombies \cup {l}
      /\ zombieNode' = [zombieNode EXCEPT ![l] = latestStakedNode[l]]
      /\ stakerSet' = stakerSet \ {l}
      /\ latestStakedNode' = [latestStakedNode EXCEPT ![l] = 0]
  BY DEF SettleChallenge
<1>2. Unresolved' = Unresolved
  BY DEF Unresolved
<1>3. NodesInPlace' /\ ChildLinks' /\ SiblingsInPlace'
  BY <1>2 DEF TreeInv, NodesInPlace, ChildLinks, SiblingsInPlace
<1>4. /\ l \notin zombies
      /\ stakerSet' \cup zombies' = stakerSet \cup zombies
      /\ \A b \in stakerSet \cup zombies : b \in Validators
  BY <1>1 DEF TreeInv, StakeChain, TypeOK
<1>5. \A b \in Validators : Position(b)' = Position(b)
  BY <1>1, <1>4 DEF Position, TypeOK
<1>6. StakeChain'
  <2>1. stakerSet' \cap zombies' = {}
    BY <1>1 DEF TreeInv, StakeChain
  <2> QED
    BY <1>2, <1>4, <1>5, <2>1 DEF TreeInv, StakeChain
<1>7. StakersDescendFromConfirmed'
  <2>1. \A b \in stakerSet' : b \in stakerSet /\ latestStakedNode'[b] = latestStakedNode[b]
    BY <1>1 DEF TypeOK
  <2> QED
    BY <1>2, <2>1 DEF TreeInv, StakersDescendFromConfirmed
<1>8. ChallengesMatched'
  <2>1. /\ currentChallenge'[w] = NoChallenge /\ currentChallenge'[l] = NoChallenge
        /\ \A b \in Validators : b # w /\ b # l => currentChallenge'[b] = currentChallenge[b]
    BY <1>1 DEF TypeOK
  <2>2. \A b \in Validators : currentChallenge'[b] # NoChallenge =>
          /\ currentChallenge'[b] = currentChallenge[b]
          /\ currentChallenge[b].asserter \in stakerSet' /\ currentChallenge[b].challenger \in stakerSet'
          /\ currentChallenge'[currentChallenge[b].asserter] = currentChallenge[currentChallenge[b].asserter]
          /\ currentChallenge'[currentChallenge[b].challenger] = currentChallenge[currentChallenge[b].challenger]
    <3> SUFFICES ASSUME NEW b \in Validators, currentChallenge'[b] # NoChallenge
                 PROVE  /\ currentChallenge'[b] = currentChallenge[b]
                        /\ currentChallenge[b].asserter \in stakerSet \ {w, l}
                        /\ currentChallenge[b].challenger \in stakerSet \ {w, l}
      BY <1>1, <1>4, <2>1
    <3>1. b \notin {w, l} /\ currentChallenge'[b] = currentChallenge[b]
      BY <2>1
    <3>2. /\ currentChallenge[b].asserter \in stakerSet
          /\ currentChallenge[b].challenger \in stakerSet
      BY <3>1 DEF TreeInv, ChallengesMatched
    <3> QED
      BY <3>1, <3>2
  <2> QED
    BY <1>2, <2>2 DEF TreeInv, ChallengesMatched
<1> QED
  BY <1>3, <1>6, <1>7, <1>8 DEF TreeInv

\* completeChallenge: the loser's stakes stay in the tree as a zombie's.
LEMMA TreeCompleteChallenge ==
  ASSUME TypeOK, TreeInv, NEW w \in Validators, NEW l \in Validators,
         CompleteChallenge(w, l)
  PROVE  TreeInv'
<1> DEFINE c == currentChallenge[w]
<1>1. /\ c # NoChallenge /\ c = currentChallenge[l]
      /\ {w, l} = {c.asserter, c.challenger}
      /\ SettleChallenge(w, l)
      /\ UNCHANGED <<chainVars, live, prev, latestChildNumber, stakers>>
  BY DEF CompleteChallenge, nodeConsts, childVars
<1>2. l \in stakerSet
  BY <1>1 DEF TreeInv, ChallengesMatched
<1>3. \A b \in Validators \ {w, l} : currentChallenge[b] # NoChallenge =>
        currentChallenge[b].asserter \notin {w, l} /\ currentChallenge[b].challenger \notin {w, l}
  BY <1>1 DEF TreeInv, ChallengesMatched
<1> QED
  BY <1>1, <1>2, <1>3, TreeSettle

\* createChallenge on a node that was proposed too late decides at once.
LEMMA TreeForfeit ==
  ASSUME TypeOK, TreeInv, NEW a1 \in Validators, NEW a2 \in Validators,
         NEW n1 \in NodeNums, NEW n2 \in NodeNums, ForfeitLateChallenge(a1, a2, n1, n2)
  PROVE  TreeInv'
<1>1. /\ a1 \in stakerSet /\ currentChallenge[a1] = NoChallenge
      /\ a2 \in stakerSet /\ currentChallenge[a2] = NoChallenge
      /\ SettleChallenge(a1, a2)
      /\ UNCHANGED <<chainVars, live, prev, latestChildNumber, stakers>>
  BY DEF ForfeitLateChallenge, ChallengeAllowed, UnchallengedStaker, nodeConsts, childVars
<1>2. \A b \in Validators \ {a1, a2} : currentChallenge[b] # NoChallenge =>
        currentChallenge[b].asserter \notin {a1, a2} /\ currentChallenge[b].challenger \notin {a1, a2}
  BY <1>1 DEF TreeInv, ChallengesMatched
<1> QED
  BY <1>1, <1>2, TreeSettle

(***************************************************************************)
(* The theorems.                                                           *)
(***************************************************************************)
LEMMA TreeStep == TypeOK /\ TreeInv /\ [Next]_vars => TreeInv'
<1> SUFFICES ASSUME TypeOK, TreeInv, [Next]_vars PROVE TreeInv'
  OBVIOUS
<1>1. ASSUME AdvanceBlock \/ SequencerBatch \/ UNCHANGED vars PROVE TreeInv'
  BY <1>1, TreeUnchanged DEF AdvanceBlock, SequencerBatch, vars, treeVars, chainVars,
    nodeConsts, childVars, stakerVars, zombieVars
<1>2. ASSUME StakeStep PROVE TreeInv'
  <2>1. PICK a \in Validators :
          \/ \E amount \in Amounts : NewStake(a, amount) \/ AddToDeposit(a, amount)
          \/ \E remaining \in 0 .. amountStaked[a] : ReduceDeposit(a, remaining)
          \/ ReturnOldDeposit(a)
          \/ WithdrawStakerFunds(a)
          \/ \E n \in NodeNums : StakeOnExistingNode(a, n)
          \/ \E after \in Assertions : StakeOnNewNode(a, after)
    BY <1>2 DEF StakeStep
  <2>2. ASSUME \/ \E amount \in Amounts : AddToDeposit(a, amount)
               \/ \E remaining \in 0 .. amountStaked[a] : ReduceDeposit(a, remaining)
               \/ WithdrawStakerFunds(a)
        PROVE  TreeInv'
    BY <2>2, TreeUnchanged DEF AddToDeposit, ReduceDeposit, WithdrawStakerFunds, treeVars,
      chainVars, nodeConsts, childVars, stakerVars, zombieVars
  <2> QED
    BY <2>1, <2>2, TreeNewStake, TreeReturnOldDeposit, TreeStakeOnExistingNode,
       TreeStakeOnNewNode
<1>3. ASSUME ResolveStep PROVE TreeInv'
  BY <1>3, TreeConfirm, TreeReject DEF ResolveStep
<1>4. ASSUME ChallengeStep PROVE TreeInv'
  <2>1. stakerSet \subseteq Validators /\ live \subseteq NodeNums
    BY DEF TypeOK
  <2> QED
    BY <1>4, <2>1, TreeCreateChallenge, TreeForfeit, TreeCompleteChallenge DEF ChallengeStep
<1>5. ASSUME ZombieStep PROVE TreeInv'
  BY <1>5, TreeRemoveZombie, TreeRemoveOldZombies DEF ZombieStep
<1> QED
  BY <1>1, <1>2, <1>3, <1>4, <1>5 DEF Next

\* The inductive invariant holds in every reachable state.
THEOREM TreeInvariant == Spec => [](TypeOK /\ TreeInv)
<1>1. Init => TypeOK /\ TreeInv
  BY TypeInit, TreeInit
<1>2. (TypeOK /\ TreeInv) /\ [Next]_vars => (TypeOK /\ TreeInv)'
  BY TypeStep, TreeStep
<1> QED
  BY <1>1, <1>2, PTL DEF Spec

\* Stakes lie on paths of the tree, from the node after the latest confirmed
\* one to where the staker stands, whatever stakers, challengers and the
\* callers of removeZombie do.
THEOREM StakesArePaths == Spec => [](StakeChain /\ StakersDescendFromConfirmed)
<1>1. TypeOK /\ TreeInv => StakeChain /\ StakersDescendFromConfirmed
  BY DEF TreeInv
<1> QED
  BY <1>1, TreeInvariant, PTL

\* No transaction of a validator leaves a node behind below the latest
\* confirmed one.
NothingSkipped == \A n \in live : n >= latestConfirmed

LEMMA NothingSkippedStep ==
  TypeOK /\ TreeInv /\ NothingSkipped /\ [Next]_vars => NothingSkipped'
<1> SUFFICES ASSUME TypeOK, TreeInv, NothingSkipped, [Next]_vars PROVE NothingSkipped'
  OBVIOUS
<1>0. /\ live \subseteq Nat /\ latestConfirmed \in Nat /\ latestNodeCreated \in Nat
      /\ firstUnresolvedNode \in Nat
      /\ latestConfirmed < firstUnresolvedNode
      /\ firstUnresolvedNode <= latestNodeCreated + 1
  <2>1. NodeNums \subseteq Nat
    BY BoundAssumption DEF NodeNums
  <2>2. live \subseteq NodeNums
    BY DEF TypeOK
  <2>3. /\ latestConfirmed \in Nat /\ latestNodeCreated \in Nat /\ firstUnresolvedNode \in Nat
        /\ latestConfirmed < firstUnresolvedNode
        /\ firstUnresolvedNode <= latestNodeCreated + 1
    BY Numbers DEF TreeInv
  <2> QED
    BY <2>1, <2>2, <2>3
<1>1. CASE UNCHANGED <<live, latestConfirmed>>
  BY <1>1 DEF NothingSkipped
<1>2. ASSUME NEW a \in Validators, NEW after \in Assertions, StakeOnNewNode(a, after)
      PROVE  NothingSkipped'
  BY <1>0, <1>2 DEF StakeOnNewNode, NothingSkipped
<1>3. CASE ConfirmNextNode
  <2>1. live' = live \ {latestConfirmed} /\ latestConfirmed' = firstUnresolvedNode
    BY <1>3 DEF ConfirmNextNode, DestroyNode
  <2>2. \A n \in live' : n \in Unresolved
    BY <1>0, <2>1 DEF NothingSkipped, TreeInv, NodesInPlace
  <2> QED
    BY <1>0, <2>1, <2>2 DEF NothingSkipped, Unresolved
<1>4. CASE RejectOutright \/ \E w \in Validators : RejectChildOfConfirmed(w)
  BY <1>4 DEF RejectOutright, RejectChildOfConfirmed, DestroyFirstUnresolved, DestroyNode,
    NothingSkipped
<1>5. CASE StakeStep
  BY <1>1, <1>2, <1>5 DEF StakeStep, NewStake, AddToDeposit, ReduceDeposit, ReturnOldDeposit,
    WithdrawStakerFunds, StakeOnExistingNode, chainVars
<1>6. CASE ChallengeStep \/ ZombieStep \/ AdvanceBlock \/ SequencerBatch \/ UNCHANGED vars
  BY <1>1, <1>6 DEF ChallengeStep, CreateChallenge, ForfeitLateChallenge, CompleteChallenge,
    ZombieStep, RemoveZombie, RemoveOldZombies, AdvanceBlock, SequencerBatch, vars, chainVars
<1> QED
  BY <1>3, <1>4, <1>5, <1>6 DEF Next, ResolveStep

\* Creating a node never fails on a destroyed older sibling, and the nodes
\* that exist are the ones the rollup may still call.
THEOREM NodeCreationNotWedged == Spec => [](NodeLifecycle /\ OlderSiblingLive)
<1>1. Init => NothingSkipped
  BY DEF Init, NothingSkipped
<1>2. TypeOK /\ TreeInv /\ NothingSkipped /\ [Next]_vars => NothingSkipped'
  BY NothingSkippedStep
<1>3. TypeOK /\ TreeInv /\ NothingSkipped => NodeLifecycle /\ OlderSiblingLive
  <2> SUFFICES ASSUME TypeOK, TreeInv, NothingSkipped
               PROVE  NodeLifecycle /\ OlderSiblingLive
    OBVIOUS
  <2>1. live \subseteq Nat /\ latestConfirmed \in Nat
    BY DEF TypeOK, NodeNums
  <2>2. live = {latestConfirmed} \cup Unresolved
    <3>1. \A n \in live : n = latestConfirmed \/ n > latestConfirmed
      BY <2>1 DEF NothingSkipped
    <3> QED
      BY <3>1 DEF TreeInv, NodesInPlace
  <2> QED
    BY <2>2 DEF TreeInv, NodesInPlace, NodeLifecycle, SiblingsInPlace, OlderSiblingLive
<1> QED
  BY <1>1, <1>2, <1>3, TreeInvariant, PTL DEF Spec

\* No node under an open challenge is resolved and no party to it leaves.
THEOREM ChallengesStayMatched == Spec => []ChallengesMatched
<1>1. TypeOK /\ TreeInv => ChallengesMatched
  BY DEF TreeInv
<1> QED
  BY <1>1, TreeInvariant, PTL

\* The node that firstUnresolvedNode points at is passed only by confirming
\* or by rejecting it.
LEMMA ResolutionSteps ==
  ASSUME TypeOK, TreeInv, [Next]_vars
  PROVE  \/ ConfirmNextNode
         \/ \E w \in Validators : RejectChildOfConfirmed(w)
         \/ RejectOutright
         \/ UNCHANGED <<latestConfirmed, firstUnresolvedNode>>
<1>1. StakeStep => UNCHANGED <<latestConfirmed, firstUnresolvedNode>>
  <2> SUFFICES ASSUME NEW a \in Validators,
                      \/ \E amount \in Amounts : NewStake(a, amount) \/ AddToDeposit(a, amount)
                      \/ \E remaining \in 0 .. amountStaked[a] : ReduceDeposit(a, remaining)
                      \/ ReturnOldDeposit(a)
                      \/ WithdrawStakerFunds(a)
                      \/ \E n \in NodeNums : StakeOnExistingNode(a, n)
                      \/ \E after \in Assertions : StakeOnNewNode(a, after)
               PROVE  UNCHANGED <<latestConfirmed, firstUnresolvedNode>>
    BY Zenon DEF StakeStep
  <2>1. ASSUME NEW amount, NewStake(a, amount) \/ AddToDeposit(a, amount)
        PROVE  UNCHANGED <<latestConfirmed, firstUnresolvedNode>>
    BY <2>1 DEF NewStake, AddToDeposit, chainVars
  <2>2. ASSUME NEW remaining, ReduceDeposit(a, remaining)
        PROVE  UNCHANGED <<latestConfirmed, firstUnresolvedNode>>
    BY <2>2 DEF ReduceDeposit, chainVars
  <2>3. ASSUME ReturnOldDeposit(a) \/ WithdrawStakerFunds(a)
        PROVE  UNCHANGED <<latestConfirmed, firstUnresolvedNode>>
    BY <2>3 DEF ReturnOldDeposit, WithdrawStakerFunds, chainVars
  <2>4. ASSUME NEW n, StakeOnExistingNode(a, n)
        PROVE  UNCHANGED <<latestConfirmed, firstUnresolvedNode>>
    BY <2>4 DEF StakeOnExistingNode, chainVars
  <2>5. ASSUME NEW after, StakeOnNewNode(a, after)
        PROVE  UNCHANGED <<latestConfirmed, firstUnresolvedNode>>
    BY <2>5 DEF StakeOnNewNode, chainVars
  <2> QED
    BY <2>1, <2>2, <2>3, <2>4, <2>5, Zenon
<1>2. ChallengeStep => UNCHANGED <<latestConfirmed, firstUnresolvedNode>>
  BY DEF ChallengeStep, CreateChallenge, ForfeitLateChallenge, CompleteChallenge, chainVars
<1>3. ZombieStep => UNCHANGED <<latestConfirmed, firstUnresolvedNode>>
  BY DEF ZombieStep, RemoveZombie, RemoveOldZombies, chainVars
<1>4. AdvanceBlock \/ SequencerBatch \/ UNCHANGED vars
        => UNCHANGED <<latestConfirmed, firstUnresolvedNode>>
  BY DEF AdvanceBlock, SequencerBatch, vars, chainVars
<1> QED
  BY <1>1, <1>2, <1>3, <1>4 DEF Next, ResolveStep

\* A confirmed node has every staker on it, at least one: the comparison of
\* counts in confirmNextNode cannot be met by zombies or by leavers.
THEOREM ConfirmationIsUnanimous == Spec => ConfirmUnanimous
<1>1. ASSUME TypeOK, TreeInv, [Next]_vars, NEW n \in NodeNums, Confirms(n)
      PROVE  stakerSet # {} /\ stakerSet \subseteq stakers[n]
  <2>1. n = firstUnresolvedNode /\ latestConfirmed' = n /\ latestConfirmed # n
    BY <1>1, Numbers DEF Confirms, TreeInv
  <2>2. \/ \E w \in Validators : RejectChildOfConfirmed(w)
        \/ RejectOutright
        => latestConfirmed' = latestConfirmed
    BY DEF RejectChildOfConfirmed, RejectOutright
  <2>3. ConfirmNextNode
    BY <1>1, <2>1, <2>2, ResolutionSteps
  <2> QED
    BY <1>1, <2>1, <2>3, ConfirmFacts
<1>2. TypeOK /\ TreeInv /\ [Next]_vars =>
        [\A n \in NodeNums : Confirms(n) => stakerSet # {} /\ stakerSet \subseteq stakers[n]]_vars
  BY <1>1
<1> QED
  BY <1>2, TreeInvariant, PTL DEF Spec, ConfirmUnanimous

\* A rejected node has no staker on it, and a rejected child of the latest
\* confirmed node has a staked sibling: what the comments of rejectNextNode
\* argue, and for the outright rejection what they leave unsaid.
THEOREM RejectionIsJustified == Spec => RejectedUnstaked /\ RejectionHasStakedSibling
<1>1. ASSUME TypeOK, TreeInv, [Next]_vars, NEW n \in NodeNums, Rejects(n)
      PROVE  /\ stakers[n] \cap stakerSet = {}
             /\ prev[n] = latestConfirmed =>
                  \E m \in Unresolved : /\ m # n
                                        /\ prev[m] = latestConfirmed
                                        /\ stakers[m] \cap stakerSet # {}
  <2>1. n = firstUnresolvedNode /\ firstUnresolvedNode' = n + 1 /\ n \in Nat
        /\ latestConfirmed' = latestConfirmed /\ latestConfirmed # n
    BY <1>1, Numbers DEF Rejects, TreeInv
  <2>2. ConfirmNextNode => latestConfirmed' = n
    BY <2>1 DEF ConfirmNextNode
  <2>3. \/ \E w \in Validators : RejectChildOfConfirmed(w)
        \/ RejectOutright
    BY <1>1, <2>1, <2>2, ResolutionSteps
  <2> QED
    BY <1>1, <2>1, <2>3, RejectFacts
<1>2. TypeOK /\ TreeInv /\ [Next]_vars =>
        [\A n \in NodeNums : Rejects(n) => stakers[n] \cap stakerSet = {}]_vars
  BY <1>1
<1>3. TypeOK /\ TreeInv /\ [Next]_vars =>
        [\A n \in NodeNums : Rejects(n) /\ prev[n] = latestConfirmed =>
           \E m \in Unresolved : /\ m # n
                                 /\ prev[m] = latestConfirmed
                                 /\ stakers[m] \cap stakerSet # {}]_vars
  BY <1>1
<1> QED
  BY <1>2, <1>3, TreeInvariant, PTL DEF Spec, RejectedUnstaked, RejectionHasStakedSibling

\* The second half by itself: a child of the latest confirmed node is rejected
\* only if an active staker is on one of its unresolved siblings.
THEOREM RejectedHadRival == Spec => RejectionHasStakedSibling
BY RejectionIsJustified, PTL

(***************************************************************************)
(* Time.  The blocks at which nodes are proposed and decided, and the      *)
(* clocks of the challenges between them.                                  *)
(***************************************************************************)
Created == 1 .. latestNodeCreated

\* The gas that node n's assertion claims to have used
GasOf(n) == afterState[n].gasUsed - afterState[prev[n]].gasUsed

\* The validators' transactions do not shut the rollup down: that is the
\* owner's, and RollupAdmin's.
NotShutDown ==
  /\ 1 <= block
  /\ block <= MaxBlock
  /\ shutdownForNitroBlock = MaxBlock + 1

\* Nodes are numbered in the order they were proposed in.
ProposedInOrder ==
  \A n \in Created : /\ proposedBlock[n] <= block
                     /\ \A m \in Created : m <= n => proposedBlock[m] <= proposedBlock[n]

\* firstChildBlock is the block of the oldest child.
FirstChildFirst ==
  /\ \A p \in NodeNums : firstChildBlock[p] <= block
  /\ \A n \in Created : /\ 1 <= firstChildBlock[prev[n]]
                        /\ firstChildBlock[prev[n]] <= proposedBlock[n]

\* The deadline leaves the confirmation period and the time to check the node.
DeadlineGivesTime ==
  \A n \in Created :
    /\ GasOf(n) \in Nat
    /\ proposedBlock[n] + ConfirmPeriodBlocks + CheckTime(GasOf(n)) <= deadlineBlock[n]

\* No child is confirmed within a period of the youngest of its siblings.
ConfirmationWaits ==
  \A n \in Created :
    proposedBlock[n] + ConfirmPeriodBlocks <= noChildConfirmedBeforeBlock[prev[n]]

\* The clocks a challenge was given, in terms of its two nodes as they are now
ClocksRecorded ==
  \A a \in Validators : currentChallenge[a] # NoChallenge =>
    LET c   == currentChallenge[a]
        end == firstChildBlock[prev[c.asserterNode]]
                 + (deadlineBlock[c.asserterNode] - proposedBlock[c.asserterNode])
                 + ExtraChallengeTimeBlocks
    IN  /\ c.asserterNode \in Created /\ c.challengerNode \in Created
        /\ c.asserterNode < c.challengerNode
        /\ prev[c.challengerNode] = prev[c.asserterNode]
        /\ c.asserterTime = end - proposedBlock[c.asserterNode]
        /\ c.challengerTime = end - proposedBlock[c.challengerNode]
        /\ c.challengerTime >= 0

TimeInv ==
  /\ NotShutDown
  /\ ProposedInOrder
  /\ FirstChildFirst
  /\ DeadlineGivesTime
  /\ ConfirmationWaits
  /\ ClocksRecorded

nodeTimeVars == <<block, shutdownForNitroBlock, latestNodeCreated, nodeConsts,
                  firstChildBlock>>

\* What the types say of the numbers that the blocks are compared by
LEMMA TimeTypes ==
  ASSUME TypeOK, NodesInPlace
  PROVE  /\ latestNodeCreated \in Nat /\ block \in Nat
         /\ ConfirmPeriodBlocks \in Nat /\ ExtraChallengeTimeBlocks \in Nat
         /\ \A n \in Created : /\ n \in Nat /\ n \in NodeNums
                               /\ prev[n] \in Nat /\ prev[n] \in NodeNums /\ prev[n] < n
                               /\ prev[n] <= latestNodeCreated
         /\ \A n \in NodeNums : /\ proposedBlock[n] \in Nat
                                /\ deadlineBlock[n] \in Nat
                                /\ firstChildBlock[n] \in Nat
                                /\ noChildConfirmedBeforeBlock[n] \in Nat
                                /\ afterState[n].gasUsed \in Nat
<1>1. latestNodeCreated \in 0 .. MaxNodes /\ MaxNodes \in Nat /\ block \in Nat
  BY BoundAssumption DEF TypeOK, NodeNums
<1>2. \A n \in Created : n \in Nat /\ n \in 0 .. MaxNodes /\ 1 <= n /\ n <= latestNodeCreated
  BY <1>1 DEF Created
<1>3. \A n \in Created : prev[n] \in 0 .. MaxNodes /\ prev[n] < n
  BY <1>2 DEF TypeOK, NodeNums, NodesInPlace, Created
<1>4. \A n \in NodeNums : afterState[n].gasUsed \in Nat
  <2>1. \A n \in NodeNums : afterState[n] \in ExecutionState
    BY DEF TypeOK
  <2> QED
    BY <2>1 DEF ExecutionState
<1>5. /\ \A n \in NodeNums : /\ proposedBlock[n] \in Nat
                             /\ deadlineBlock[n] \in Nat
                             /\ firstChildBlock[n] \in Nat
                             /\ noChildConfirmedBeforeBlock[n] \in Nat
      /\ ConfirmPeriodBlocks \in Nat /\ ExtraChallengeTimeBlocks \in Nat
  BY ConfigAssumption DEF TypeOK
<1>6. \A n \in Created : /\ n \in Nat /\ n \in NodeNums
                         /\ prev[n] \in Nat /\ prev[n] \in NodeNums /\ prev[n] < n
                         /\ prev[n] <= latestNodeCreated
  BY <1>1, <1>2, <1>3 DEF NodeNums
<1> QED
  BY <1>1, <1>4, <1>5, <1>6

\* The rollup starts with one node and no challenge.
LEMMA TimeInit == Init => TimeInv
<1> SUFFICES ASSUME Init PROVE TimeInv
  OBVIOUS
<1>1. Created = {}
  BY DEF Init, Created
<1>2. NotShutDown
  BY BoundAssumption DEF Init, NotShutDown
<1>3. FirstChildFirst
  BY <1>1 DEF Init, FirstChildFirst
<1>4. ClocksRecorded
  BY DEF Init, ClocksRecorded
<1> QED
  BY <1>1, <1>2, <1>3, <1>4
     DEF TimeInv, ProposedInOrder, DeadlineGivesTime, ConfirmationWaits

\* Most transactions create no node and no challenge, though they may end one.
LEMMA TimeQuiet ==
  ASSUME TypeOK, TimeInv, UNCHANGED nodeTimeVars, UNCHANGED noChildConfirmedBeforeBlock,
         \A a \in Validators : currentChallenge'[a] \in {NoChallenge, currentChallenge[a]}
  PROVE  TimeInv'
<1>1. ClocksRecorded'
  BY DEF TimeInv, ClocksRecorded, nodeTimeVars, nodeConsts, Created
<1> QED
  BY <1>1 DEF TimeInv, NotShutDown, ProposedInOrder, FirstChildFirst, DeadlineGivesTime,
    ConfirmationWaits, GasOf, CheckTime, nodeTimeVars, nodeConsts, Created

\* A new block moves no deadline and no clock.
LEMMA TimeAdvanceBlock ==
  ASSUME TypeOK, NodesInPlace, TimeInv, AdvanceBlock
  PROVE  TimeInv'
<1> USE DEF Created, GasOf, CheckTime
<1>1. /\ block' = block + 1 /\ block < MaxBlock
      /\ UNCHANGED <<shutdownForNitroBlock, latestNodeCreated, nodeConsts, childVars,
                     currentChallenge>>
  BY DEF AdvanceBlock, adminVars, chainVars, stakerVars
<1>2. NotShutDown' /\ ProposedInOrder' /\ FirstChildFirst'
  BY <1>1, TimeTypes, BoundAssumption
     DEF TimeInv, NotShutDown, ProposedInOrder, FirstChildFirst, nodeConsts, childVars
<1>3. DeadlineGivesTime' /\ ConfirmationWaits' /\ ClocksRecorded'
  BY <1>1 DEF TimeInv, DeadlineGivesTime, ConfirmationWaits, ClocksRecorded, nodeConsts, childVars
<1> QED
  BY <1>2, <1>3 DEF TimeInv

\* The first to stake on a node puts off the confirmation of its siblings.
LEMMA TimeStakeOnExistingNode ==
  ASSUME TypeOK, NodesInPlace, TimeInv,
         NEW a \in Validators, NEW n \in NodeNums, StakeOnExistingNode(a, n)
  PROVE  TimeInv'
<1> USE DEF Created, GasOf, CheckTime
<1>1. /\ UNCHANGED nodeTimeVars
      /\ UNCHANGED currentChallenge
      /\ \/ noChildConfirmedBeforeBlock' =
              [noChildConfirmedBeforeBlock EXCEPT ![prev[n]] = block + ConfirmPeriodBlocks]
         \/ UNCHANGED noChildConfirmedBeforeBlock
  BY DEF StakeOnExistingNode, adminVars, chainVars, nodeTimeVars
<1>2. /\ NotShutDown' /\ ProposedInOrder' /\ FirstChildFirst' /\ DeadlineGivesTime'
      /\ ClocksRecorded'
  BY <1>1 DEF TimeInv, NotShutDown, ProposedInOrder, FirstChildFirst, DeadlineGivesTime,
    ClocksRecorded, nodeTimeVars, nodeConsts
<1>3. ConfirmationWaits'
  <2> SUFFICES ASSUME NEW m \in Created'
               PROVE  (proposedBlock[m] + ConfirmPeriodBlocks
                         <= noChildConfirmedBeforeBlock[prev[m]])'
    BY DEF ConfirmationWaits
  <2>1. m \in Created /\ prev'[m] = prev[m] /\ proposedBlock'[m] = proposedBlock[m]
    BY <1>1 DEF nodeTimeVars, nodeConsts
  <2>2. proposedBlock[m] + ConfirmPeriodBlocks <= noChildConfirmedBeforeBlock[prev[m]]
        /\ proposedBlock[m] <= block
    BY <2>1 DEF TimeInv, ConfirmationWaits, ProposedInOrder
  <2>3. proposedBlock[m] \in Nat /\ ConfirmPeriodBlocks \in Nat /\ block \in Nat
        /\ prev[m] \in NodeNums
    BY <2>1, TimeTypes
  <2>4. noChildConfirmedBeforeBlock'[prev[m]] \in
          {noChildConfirmedBeforeBlock[prev[m]], block + ConfirmPeriodBlocks}
    BY <1>1, <2>3 DEF TypeOK
  <2> QED
    BY <2>1, <2>2, <2>3, <2>4
<1> QED
  BY <1>2, <1>3 DEF TimeInv

\* A new node is proposed last, and keeps everything said of the others.
LEMMA TimeStakeOnNewNode ==
  ASSUME TypeOK, TreeInv, TimeInv, NEW a \in Validators, NEW after \in Assertions,
         StakeOnNewNode(a, after)
  PROVE  TimeInv'
<1> PICK n : n = latestNodeCreated + 1
  OBVIOUS
<1> DEFINE p == latestStakedNode[a]
           gas == after.gasUsed - afterState[p].gasUsed
<1>1. /\ p \in NodeNums /\ n \in NodeNums /\ n \in Nat /\ p # n
      /\ gas \in Nat /\ after.gasUsed \in Nat
  <2>1. p \in NodeNums /\ p \in live
    BY DEF TypeOK, StakeOnNewNode
  <2>2. NodesInPlace /\ latestConfirmed \in Nat /\ latestConfirmed <= latestNodeCreated
    BY Numbers DEF TreeInv
  <2>3. latestNodeCreated \in Nat /\ MaxNodes \in Nat /\ n <= MaxNodes
    BY Numbers, BoundAssumption DEF TreeInv, StakeOnNewNode
  <2>4. p <= latestNodeCreated /\ p \in Nat
    <3>1. p = latestConfirmed \/ p \in Unresolved
      BY DEF StakeOnNewNode, TreeInv, StakersDescendFromConfirmed
    <3> QED
      BY <2>2, <3>1, Numbers
  <2>5. after \in AssertedState /\ gas >= 0
    BY InputAssumption DEF StakeOnNewNode, AssertionAllowed
  <2>6. after.gasUsed \in Nat /\ afterState[p].gasUsed \in Nat
    BY <2>1, <2>2, <2>5, TimeTypes DEF AssertedState
  <2> QED
    BY <2>1, <2>3, <2>4, <2>5, <2>6 DEF NodeNums
<1>2. /\ UNCHANGED <<block, shutdownForNitroBlock, currentChallenge>>
      /\ latestNodeCreated' = n
      /\ prev' = [prev EXCEPT ![n] = p]
      /\ deadlineBlock' = [deadlineBlock EXCEPT ![n] = NodeDeadline(p, gas)]
      /\ proposedBlock' = [proposedBlock EXCEPT ![n] = block]
      /\ afterState'[n].gasUsed = after.gasUsed
      /\ \A m \in NodeNums \ {n} : afterState'[m] = afterState[m]
      /\ firstChildBlock' = [firstChildBlock EXCEPT ![p] = IF @ = 0 THEN block ELSE @]
      /\ noChildConfirmedBeforeBlock' = [noChildConfirmedBeforeBlock EXCEPT
           ![n] = deadlineBlock'[n], ![p] = block + ConfirmPeriodBlocks]
  BY <1>1 DEF StakeOnNewNode, TypeOK, adminVars
<1>3. /\ Created' = Created \cup {n} /\ n \notin Created
      /\ \A m \in Created : m \in NodeNums /\ m < n /\ prev[m] < n /\ m \in Nat
                            /\ prev[m] \in NodeNums
  BY <1>2, TimeTypes DEF Created, TreeInv
<1>4. /\ \A m \in NodeNums \ {n} : /\ prev'[m] = prev[m]
                                   /\ deadlineBlock'[m] = deadlineBlock[m]
                                   /\ proposedBlock'[m] = proposedBlock[m]
      /\ prev'[n] = p /\ proposedBlock'[n] = block /\ deadlineBlock'[n] = NodeDeadline(p, gas)
  BY <1>1, <1>2 DEF TypeOK
<1>5. \A m \in Created : /\ prev'[m] = prev[m] /\ prev[m] \in NodeNums /\ prev[m] # n
                         /\ deadlineBlock'[m] = deadlineBlock[m]
                         /\ proposedBlock'[m] = proposedBlock[m]
                         /\ GasOf(m)' = GasOf(m)
  <2>1. \A m \in Created : m \in NodeNums \ {n} /\ prev[m] \in NodeNums \ {n}
    BY <1>3, TimeTypes DEF TreeInv
  <2> QED
    BY <1>2, <1>4, <2>1 DEF GasOf
<1>6. GasOf(n)' = gas
  BY <1>1, <1>2, <1>4 DEF GasOf
<1>7. /\ block \in Nat /\ 1 <= block /\ ConfirmPeriodBlocks \in Nat
      /\ \A m \in NodeNums : /\ firstChildBlock[m] \in Nat
                             /\ noChildConfirmedBeforeBlock[m] \in Nat
                             /\ proposedBlock[m] \in Nat
  BY TimeTypes DEF TreeInv, TimeInv, NotShutDown
<1>8. /\ firstChildBlock'[p] = IF firstChildBlock[p] = 0 THEN block ELSE firstChildBlock[p]
      /\ noChildConfirmedBeforeBlock'[p] = block + ConfirmPeriodBlocks
      /\ \A m \in NodeNums \ {n, p} :
           noChildConfirmedBeforeBlock'[m] = noChildConfirmedBeforeBlock[m]
      /\ \A m \in NodeNums \ {p} : firstChildBlock'[m] = firstChildBlock[m]
  BY <1>1, <1>2 DEF TypeOK
<1> HIDE DEF p, gas
<1>9. NotShutDown'
  BY <1>2 DEF TimeInv, NotShutDown
<1>10. ProposedInOrder'
  <2>1. \A m \in Created : proposedBlock'[m] <= block
    BY <1>5 DEF TimeInv, ProposedInOrder
  <2>2. \A k, m \in Created : m <= k => proposedBlock'[m] <= proposedBlock'[k]
    BY <1>5 DEF TimeInv, ProposedInOrder
  <2>3. \A m \in Created : ~(n <= m)
    BY <1>1, <1>3
  <2>4. proposedBlock'[n] <= block /\ block <= block
    BY <1>4, <1>7
  <2> QED
    BY <1>2, <1>3, <1>4, <2>1, <2>2, <2>3, <2>4 DEF ProposedInOrder
<1>11. FirstChildFirst'
  BY <1>1, <1>2, <1>3, <1>4, <1>5, <1>7, <1>8 DEF TimeInv, FirstChildFirst
<1>12. DeadlineGivesTime'
  <2>1. /\ block + ConfirmPeriodBlocks + CheckTime(gas) <= NodeDeadline(p, gas)
        /\ CheckTime(gas) \in Nat /\ NodeDeadline(p, gas) \in Nat
    BY <1>1, <1>7, NodeDeadlineType
  <2> SUFFICES ASSUME NEW m \in Created'
               PROVE  /\ GasOf(m)' \in Nat
                      /\ proposedBlock'[m] + ConfirmPeriodBlocks + CheckTime(GasOf(m)')
                           <= deadlineBlock'[m]
    BY DEF DeadlineGivesTime, CheckTime
  <2>2. CASE m = n
    BY <1>1, <1>4, <1>6, <2>1, <2>2
  <2>3. CASE m \in Created
    BY <1>5, <2>3 DEF TimeInv, DeadlineGivesTime
  <2> QED
    BY <1>3, <2>2, <2>3
<1>13. ConfirmationWaits'
  <2> SUFFICES ASSUME NEW m \in Created'
               PROVE  proposedBlock'[m] + ConfirmPeriodBlocks
                        <= noChildConfirmedBeforeBlock'[prev'[m]]
    BY DEF ConfirmationWaits
  <2>1. CASE m = n
    BY <1>4, <1>7, <1>8, <2>1
  <2>2. CASE m \in Created
    <3>1. /\ proposedBlock[m] + ConfirmPeriodBlocks <= noChildConfirmedBeforeBlock[prev[m]]
          /\ proposedBlock[m] <= block /\ m \in NodeNums
      BY <1>3, <2>2 DEF TimeInv, ConfirmationWaits, ProposedInOrder
    <3>2. noChildConfirmedBeforeBlock'[prev[m]] \in
            {noChildConfirmedBeforeBlock[prev[m]], block + ConfirmPeriodBlocks}
      BY <1>5, <1>8, <2>2
    <3> QED
      BY <1>5, <1>7, <2>2, <3>1, <3>2
  <2> QED
    BY <1>3, <2>1, <2>2
<1>14. ClocksRecorded'
  <2> SUFFICES ASSUME NEW b \in Validators, currentChallenge[b] # NoChallenge
               PROVE  LET c   == currentChallenge[b]
                          end == firstChildBlock'[prev'[c.asserterNode]]
                                   + (deadlineBlock'[c.asserterNode]
                                        - proposedBlock'[c.asserterNode])
                                   + ExtraChallengeTimeBlocks
                      IN  /\ c.asserterNode \in Created' /\ c.challengerNode \in Created'
                          /\ c.asserterNode < c.challengerNode
                          /\ prev'[c.challengerNode] = prev'[c.asserterNode]
                          /\ c.asserterTime = end - proposedBlock'[c.asserterNode]
                          /\ c.challengerTime = end - proposedBlock'[c.challengerNode]
                          /\ c.challengerTime >= 0
    BY <1>2 DEF ClocksRecorded
  <2>1. \A m \in Created : firstChildBlock'[prev[m]] = firstChildBlock[prev[m]]
    <3> SUFFICES ASSUME NEW m \in Created
                 PROVE  firstChildBlock'[prev[m]] = firstChildBlock[prev[m]]
      OBVIOUS
    <3>1. 1 <= firstChildBlock[prev[m]] /\ prev[m] \in NodeNums
      BY <1>5 DEF TimeInv, FirstChildFirst
    <3> QED
      BY <1>8, <3>1
  <2> QED
    BY <1>3, <1>5, <2>1 DEF TimeInv, ClocksRecorded
<1> QED
  BY <1>9, <1>10, <1>11, <1>12, <1>13, <1>14 DEF TimeInv

\* A challenge is created with the clocks of its two nodes (createChallenge).
LEMMA TimeCreateChallenge ==
  ASSUME TypeOK, TreeInv, TimeInv, NEW a1 \in Validators, NEW a2 \in Validators,
         NEW n1 \in NodeNums, NEW n2 \in NodeNums, CreateChallenge(a1, a2, n1, n2)
  PROVE  TimeInv'
<1> DEFINE challenge ==
        [asserter |-> a1, challenger |-> a2, asserterNode |-> n1, challengerNode |-> n2,
         asserterTime   |-> CommonEndTime(n1) - proposedBlock[n1],
         challengerTime |-> CommonEndTime(n1) - proposedBlock[n2]]
<1>1. /\ UNCHANGED nodeTimeVars /\ UNCHANGED noChildConfirmedBeforeBlock
      /\ currentChallenge' = [currentChallenge EXCEPT ![a1] = challenge, ![a2] = challenge]
      /\ n1 < n2 /\ n2 <= latestNodeCreated /\ latestConfirmed < n1 /\ prev[n1] = prev[n2]
      /\ CommonEndTime(n1) >= proposedBlock[n2]
  BY DEF CreateChallenge, ChallengeAllowed, adminVars, chainVars, childVars, nodeTimeVars
<1>2. n1 \in Created /\ n2 \in Created
  <2>1. latestConfirmed \in Nat /\ latestNodeCreated \in Nat /\ n1 \in Nat /\ n2 \in Nat
    BY Numbers DEF TreeInv, NodeNums
  <2> QED
    BY <1>1, <2>1 DEF Created
<1>3. CommonEndTime(n1) = firstChildBlock[prev[n1]] + (deadlineBlock[n1] - proposedBlock[n1])
                            + ExtraChallengeTimeBlocks
  <2>1. ~ShutdownForNitroMode
    BY TimeTypes, BoundAssumption DEF TreeInv, TimeInv, NotShutDown, ShutdownForNitroMode
  <2> QED
    BY <2>1 DEF CommonEndTime, DeadlineBlock
<1>4. CommonEndTime(n1) \in Int /\ proposedBlock[n2] \in Nat
  BY <1>2, <1>3, TimeTypes DEF TreeInv
<1>5. ClocksRecorded'
  <2>0. /\ UNCHANGED <<prev, firstChildBlock, deadlineBlock, proposedBlock>>
        /\ Created' = Created
    BY <1>1 DEF nodeTimeVars, nodeConsts, Created
  <2> SUFFICES ASSUME NEW b \in Validators, currentChallenge'[b] # NoChallenge
               PROVE  LET c   == currentChallenge'[b]
                          end == firstChildBlock[prev[c.asserterNode]]
                                   + (deadlineBlock[c.asserterNode]
                                        - proposedBlock[c.asserterNode])
                                   + ExtraChallengeTimeBlocks
                      IN  /\ c.asserterNode \in Created /\ c.challengerNode \in Created
                          /\ c.asserterNode < c.challengerNode
                          /\ prev[c.challengerNode] = prev[c.asserterNode]
                          /\ c.asserterTime = end - proposedBlock[c.asserterNode]
                          /\ c.challengerTime = end - proposedBlock[c.challengerNode]
                          /\ c.challengerTime >= 0
    BY <2>0 DEF ClocksRecorded
  <2>1. CASE b \in {a1, a2}
    <3>1. currentChallenge'[b] = challenge
      BY <1>1, <2>1 DEF TypeOK
    <3>2. /\ challenge.asserterNode = n1 /\ challenge.challengerNode = n2
          /\ challenge.asserterTime = CommonEndTime(n1) - proposedBlock[n1]
          /\ challenge.challengerTime = CommonEndTime(n1) - proposedBlock[n2]
      OBVIOUS
    <3>3. CommonEndTime(n1) - proposedBlock[n2] >= 0
      BY <1>1, <1>4
    <3> HIDE DEF challenge
    <3> QED
      BY <1>1, <1>2, <1>3, <3>1, <3>2, <3>3
  <2>2. CASE b \notin {a1, a2}
    <3>1. currentChallenge'[b] = currentChallenge[b]
      BY <1>1, <2>2 DEF TypeOK
    <3> QED
      BY <3>1 DEF TimeInv, ClocksRecorded
  <2> QED
    BY <2>1, <2>2
<1> QED
  BY <1>1, <1>5 DEF TimeInv, NotShutDown, ProposedInOrder, FirstChildFirst,
    DeadlineGivesTime, ConfirmationWaits, GasOf, CheckTime, nodeTimeVars, nodeConsts, Created

\* Every transaction keeps the deadlines and the clocks in order.
LEMMA TimeStep == TypeOK /\ TreeInv /\ TimeInv /\ [Next]_vars => TimeInv'
<1> SUFFICES ASSUME TypeOK, TreeInv, TimeInv, [Next]_vars PROVE TimeInv'
  OBVIOUS
<1> USE DEF nodeTimeVars, adminVars, chainVars, childVars
<1>1. NodesInPlace /\ stakerSet \subseteq Validators /\ live \subseteq NodeNums
      /\ currentChallenge \in [Validators -> Challenges \cup {NoChallenge}]
  BY DEF TreeInv, TypeOK
<1>2. ASSUME SequencerBatch \/ UNCHANGED vars PROVE TimeInv'
  BY <1>2, TimeQuiet DEF SequencerBatch, vars, stakerVars
<1>3. ASSUME StakeStep PROVE TimeInv'
  <2>1. PICK a \in Validators :
          \/ \E amount \in Amounts : NewStake(a, amount) \/ AddToDeposit(a, amount)
          \/ \E remaining \in 0 .. amountStaked[a] : ReduceDeposit(a, remaining)
          \/ ReturnOldDeposit(a)
          \/ WithdrawStakerFunds(a)
          \/ \E n \in NodeNums : StakeOnExistingNode(a, n)
          \/ \E after \in Assertions : StakeOnNewNode(a, after)
    BY <1>3 DEF StakeStep
  <2>2. ASSUME \E amount \in Amounts : NewStake(a, amount) PROVE TimeInv'
    <3>1. \A b \in Validators : currentChallenge'[b] \in {NoChallenge, currentChallenge[b]}
      BY <1>1, <2>2 DEF NewStake
    <3> QED
      BY <2>2, <3>1, TimeQuiet DEF NewStake
  <2>3. ASSUME \/ \E amount \in Amounts : AddToDeposit(a, amount)
               \/ \E remaining \in 0 .. amountStaked[a] : ReduceDeposit(a, remaining)
               \/ ReturnOldDeposit(a)
               \/ WithdrawStakerFunds(a)
        PROVE  TimeInv'
    BY <2>3, TimeQuiet DEF AddToDeposit, ReduceDeposit, ReturnOldDeposit,
      WithdrawStakerFunds, stakerVars
  <2> QED
    BY <1>1, <2>1, <2>2, <2>3, TimeStakeOnExistingNode, TimeStakeOnNewNode
<1>4. ASSUME ResolveStep PROVE TimeInv'
  BY <1>4, TimeQuiet DEF ResolveStep, ConfirmNextNode, RejectChildOfConfirmed,
    RejectOutright, stakerVars
<1>5. ASSUME NEW w \in Validators, NEW l \in Validators, SettleChallenge(w, l),
             UNCHANGED <<block, adminVars, chainVars, nodeConsts, childVars>>
      PROVE  TimeInv'
  <2>1. \A b \in Validators : currentChallenge'[b] \in {NoChallenge, currentChallenge[b]}
    BY <1>1, <1>5 DEF SettleChallenge
  <2> QED
    BY <1>5, <2>1, TimeQuiet
<1>6. ASSUME ChallengeStep PROVE TimeInv'
  BY <1>1, <1>5, <1>6, TimeCreateChallenge
     DEF ChallengeStep, ForfeitLateChallenge, CompleteChallenge
<1>7. ASSUME ZombieStep PROVE TimeInv'
  BY <1>7, TimeQuiet DEF ZombieStep, RemoveZombie, RemoveOldZombies, stakerVars
<1> QED
  BY <1>1, <1>2, <1>3, <1>4, <1>6, <1>7, TimeAdvanceBlock DEF Next

\* The deadlines and the clocks are in order in every reachable state.
THEOREM TimeInvariant == Spec => [](TypeOK /\ TreeInv /\ TimeInv)
<1>1. Init => TypeOK /\ TreeInv /\ TimeInv
  BY TypeInit, TreeInit, TimeInit
<1>2. (TypeOK /\ TreeInv /\ TimeInv) /\ [Next]_vars => (TypeOK /\ TreeInv /\ TimeInv)'
  BY TypeStep, TreeStep, TimeStep
<1> QED
  BY <1>1, <1>2, PTL DEF Spec

\* Whoever challenges in time is given time: createChallenge never hands the
\* later node the larger clock, and the challenger that proposed within a
\* confirmation period of the first child gets the extra time and the time
\* to check the asserter's node; and no subtraction there ever fails.
THEOREM TimelyChallenges == Spec => []TimelyChallengerHasTime
<1>1. ASSUME TypeOK, TreeInv, TimeInv PROVE TimelyChallengerHasTime
  <2>9. ASSUME NEW m1 \in Unresolved, NEW m2 \in Unresolved, m1 < m2
        PROVE  /\ proposedBlock[m1] <= DeadlineBlock(m1)
               /\ proposedBlock[m2] <= CommonEndTime(m1) => proposedBlock[m1] <= CommonEndTime(m1)
    <3>1. /\ m1 \in Created /\ m2 \in Created /\ m1 \in NodeNums /\ m2 \in NodeNums
          /\ m1 \in Nat /\ m2 \in Nat
      BY <1>1, Numbers DEF TreeInv, Unresolved, Created
    <3>2. /\ proposedBlock[m1] \in Nat /\ proposedBlock[m2] \in Nat /\ deadlineBlock[m1] \in Nat
          /\ ConfirmPeriodBlocks \in Nat
      BY <1>1, <3>1, TimeTypes DEF TreeInv
    <3>3. CheckTime(GasOf(m1)) \in Nat
      BY <1>1, <3>1, NodeDeadlineType DEF TimeInv, DeadlineGivesTime
    <3>4. /\ proposedBlock[m1] + ConfirmPeriodBlocks + CheckTime(GasOf(m1)) <= deadlineBlock[m1]
          /\ proposedBlock[m1] <= proposedBlock[m2]
      BY <1>1, <2>9, <3>1 DEF TimeInv, DeadlineGivesTime, ProposedInOrder
    <3>5. DeadlineBlock(m1) = deadlineBlock[m1]
      BY <1>1, TimeTypes, BoundAssumption
         DEF TreeInv, TimeInv, NotShutDown, ShutdownForNitroMode, DeadlineBlock
    <3>6. CommonEndTime(m1) \in Int
      <4>1. firstChildBlock[prev[m1]] \in Nat /\ ExtraChallengeTimeBlocks \in Nat
        BY <1>1, <3>1, TimeTypes DEF TreeInv
      <4> QED
        BY ONLY <3>2, <3>5, <4>1 DEF CommonEndTime
    <3> QED
      BY <3>2, <3>3, <3>4, <3>5, <3>6
  <2> SUFFICES ASSUME NEW a \in stakerSet, currentChallenge[a] # NoChallenge
               PROVE  LET c == currentChallenge[a]
                      IN  /\ 0 <= c.challengerTime
                          /\ c.challengerTime <= c.asserterTime
                          /\ proposedBlock[c.challengerNode]
                               <= firstChildBlock[prev[c.challengerNode]] + ConfirmPeriodBlocks
                               => c.challengerTime >= ExtraChallengeTimeBlocks
                                    + CheckTime(GasOf(c.asserterNode))
    BY <2>9 DEF TimelyChallengerHasTime, GasOf
  <2> DEFINE n1 == currentChallenge[a].asserterNode
             n2 == currentChallenge[a].challengerNode
             end == firstChildBlock[prev[n1]] + (deadlineBlock[n1] - proposedBlock[n1])
                      + ExtraChallengeTimeBlocks
  <2>1. /\ n1 \in Created /\ n2 \in Created /\ n1 < n2 /\ prev[n2] = prev[n1]
        /\ currentChallenge[a].asserterTime = end - proposedBlock[n1]
        /\ currentChallenge[a].challengerTime = end - proposedBlock[n2]
        /\ currentChallenge[a].challengerTime >= 0
    BY <1>1 DEF TimeInv, ClocksRecorded, TypeOK
  <2>2. /\ n1 \in Nat /\ n2 \in Nat /\ n1 \in NodeNums /\ n2 \in NodeNums /\ prev[n1] \in NodeNums
        /\ proposedBlock[n1] \in Nat /\ proposedBlock[n2] \in Nat /\ deadlineBlock[n1] \in Nat
        /\ firstChildBlock[prev[n1]] \in Nat
        /\ ExtraChallengeTimeBlocks \in Nat /\ ConfirmPeriodBlocks \in Nat
    BY <1>1, <2>1, TimeTypes DEF TreeInv
  <2>3. proposedBlock[n1] <= proposedBlock[n2]
    BY <1>1, <2>1, <2>2 DEF TimeInv, ProposedInOrder
  <2>4. /\ GasOf(n1) \in Nat /\ CheckTime(GasOf(n1)) \in Nat
        /\ proposedBlock[n1] + ConfirmPeriodBlocks + CheckTime(GasOf(n1)) <= deadlineBlock[n1]
    <3>1. GasOf(n1) \in Nat
      BY <1>1, <2>1 DEF TimeInv, DeadlineGivesTime
    <3> QED
      BY <1>1, <2>1, <2>2, <3>1, NodeDeadlineType DEF TimeInv, DeadlineGivesTime
  <2> HIDE DEF n1, n2
  <2> QED
    BY <2>1, <2>2, <2>3, <2>4 DEF n1, n2
<1> QED
  BY <1>1, TimeInvariant, PTL

\* confirmNextNode waits out the confirmation period of every sibling of the
\* node it confirms, the ones created after it too.
THEOREM SiblingsHadWindow == Spec => EverySiblingHadWindow
<1>1. ASSUME TypeOK, TreeInv, TimeInv, [Next]_vars, latestConfirmed' # latestConfirmed,
             NEW m \in 1 .. latestNodeCreated, prev[m] = latestConfirmed
      PROVE  proposedBlock[m] + ConfirmPeriodBlocks <= block
  <2>1. ConfirmNextNode
    BY <1>1, ResolutionSteps DEF RejectChildOfConfirmed, RejectOutright
  <2>2. m \in Created /\ ~ShutdownForNitroMode
    BY <1>1, TimeTypes, BoundAssumption
       DEF Created, TreeInv, TimeInv, NotShutDown, ShutdownForNitroMode
  <2>3. noChildConfirmedBeforeBlock[latestConfirmed] <= block
    BY <2>1, <2>2 DEF ConfirmNextNode, ConfirmRequirements, PastChildConfirmDeadline
  <2>4. /\ proposedBlock[m] + ConfirmPeriodBlocks <= noChildConfirmedBeforeBlock[latestConfirmed]
        /\ proposedBlock[m] \in Nat /\ ConfirmPeriodBlocks \in Nat /\ block \in Nat
        /\ noChildConfirmedBeforeBlock[latestConfirmed] \in Nat
    BY <1>1, <2>2, TimeTypes DEF TreeInv, TimeInv, ConfirmationWaits
  <2> QED
    BY <2>3, <2>4
<1>2. TypeOK /\ TreeInv /\ TimeInv /\ [Next]_vars =>
        [latestConfirmed' # latestConfirmed =>
           \A m \in 1 .. latestNodeCreated :
             prev[m] = latestConfirmed => proposedBlock[m] + ConfirmPeriodBlocks <= block]_vars
  BY <1>1
<1> QED
  BY <1>2, TimeInvariant, PTL DEF Spec, EverySiblingHadWindow

(***************************************************************************)
(* Sums.  SumFunctionOnSet is a recursive function over the subsets of a   *)
(* finite set that takes out one element at a time, in an order nothing is *)
(* known of.  That the recursion has a solution, and that any element may  *)
(* be taken out first, is shown for the least number of elements for which *)
(* it could fail.                                                          *)
(***************************************************************************)
Pick(s) == CHOOSE x \in s : TRUE
SumPart(f, g, s) == IF s = {} THEN 0 ELSE f[Pick(s)] + g[s \ {Pick(s)}]
PartialSum(f, S) == CHOOSE g : g = [s \in SUBSET S |-> SumPart(f, g, s)]

\* A non-empty set has the element that is taken out of it.
LEMMA PickIn == \A s : s # {} => Pick(s) \in s
BY Zenon DEF Pick

\* The library's sum is the value of that function for the whole set.
LEMMA SumIsPartialSum ==
  ASSUME NEW f, NEW S
  PROVE  SumFunctionOnSet(f, S) = PartialSum(f, S)[S]
BY DEF SumFunctionOnSet, FoldFunctionOnSet, MapThenFoldSet, PartialSum, SumPart, Pick

\* What is left of a set without one of its elements is a smaller set.
LEMMA OneLess ==
  ASSUME NEW S, IsFiniteSet(S), NEW s \in SUBSET S, NEW x \in s
  PROVE  /\ s \ {x} \in SUBSET S
         /\ Cardinality(s) \in Nat
         /\ Cardinality(s \ {x}) \in Nat
         /\ Cardinality(s \ {x}) = Cardinality(s) - 1
<1>1. IsFiniteSet(s)
  BY FS_Subset
<1>2. Cardinality(s) \in Nat /\ Cardinality(s \ {x}) = Cardinality(s) - 1
  BY <1>1, FS_CardinalityType, FS_RemoveElement
<1>3. IsFiniteSet(s \ {x})
  BY <1>1, FS_Subset
<1> QED
  BY <1>2, <1>3, FS_CardinalityType

\* The recursion has a solution: one for the subsets of n elements extends to
\* the subsets of n + 1.
LEMMA PartialSumDef ==
  ASSUME NEW f, NEW S, IsFiniteSet(S)
  PROVE  \A s \in SUBSET S : PartialSum(f, S)[s] = SumPart(f, PartialSum(f, S), s)
<1> DEFINE Upto(n) == {s \in SUBSET S : Cardinality(s) <= n}
           Solves(g, n) == g = [s \in Upto(n) |-> SumPart(f, g, s)]
           Fails == {n \in Nat : ~ \E g : Solves(g, n)}
<1>1. \A s \in SUBSET S : Cardinality(s) \in Nat /\ Cardinality(s) <= Cardinality(S)
  BY FS_Subset, FS_CardinalityType
<1>2. \E g : Solves(g, 0)
  <2> DEFINE h == [s \in Upto(0) |-> 0]
  <2>1. \A s \in Upto(0) : s = {}
    <3> SUFFICES ASSUME NEW s \in Upto(0) PROVE s = {}
      OBVIOUS
    <3>1. IsFiniteSet(s) /\ Cardinality(s) = 0
      BY <1>1, FS_Subset
    <3> QED
      BY <3>1, FS_EmptySet
  <2>2. \A s \in Upto(0) : SumPart(f, h, s) = 0
    BY <2>1 DEF SumPart
  <2>3. Solves(h, 0)
    BY <2>2
  <2> HIDE DEF Solves, h
  <2> QED
    BY <2>3
<1>3. ASSUME NEW n \in Nat, NEW g, Solves(g, n) PROVE \E h : Solves(h, n + 1)
  <2> DEFINE h == [s \in Upto(n + 1) |-> SumPart(f, g, s)]
  <2>1. ASSUME NEW s \in Upto(n + 1), s # {}
        PROVE  h[s \ {Pick(s)}] = g[s \ {Pick(s)}]
    <3> DEFINE t == s \ {Pick(s)}
    <3>1. t \in Upto(n) /\ t \in Upto(n + 1)
      <4>1. t \in SUBSET S /\ Cardinality(s) \in Nat /\ Cardinality(t) \in Nat
            /\ Cardinality(t) = Cardinality(s) - 1
        BY <2>1, PickIn, OneLess
      <4> QED
        BY <4>1
    <3> HIDE DEF t
    <3>2. h[t] = SumPart(f, g, t)
      BY <3>1
    <3>3. g[t] = SumPart(f, g, t)
      BY <3>1, <1>3
    <3> QED
      BY <3>2, <3>3 DEF t
  <2>2. \A s \in Upto(n + 1) : SumPart(f, h, s) = SumPart(f, g, s)
    <3> HIDE DEF h, Upto
    <3> QED
      BY <2>1 DEF SumPart
  <2>3. Solves(h, n + 1)
    <3>1. [s \in Upto(n + 1) |-> SumPart(f, h, s)] = [s \in Upto(n + 1) |-> SumPart(f, g, s)]
      <4> HIDE DEF h, Upto
      <4> QED
        BY <2>2
    <3> QED
      BY <3>1
  <2> HIDE DEF Solves, h
  <2> QED
    BY <2>3
<1>4. Fails = {}
  <2> SUFFICES ASSUME Fails # {} PROVE FALSE
    OBVIOUS
  <2> HIDE DEF Solves
  <2>1. PICK n \in Fails : \A m \in Fails : n <= m
    BY LeastNumber
  <2>2. n \in Nat /\ n # 0
    BY <1>2
  <2>3. n - 1 \in Nat /\ ~(n <= n - 1) /\ (n - 1) + 1 = n
    BY <2>2
  <2>4. n - 1 \notin Fails
    BY <2>1, <2>3
  <2>5. PICK g : Solves(g, n - 1)
    BY <2>3, <2>4
  <2>6. \E h : Solves(h, (n - 1) + 1)
    BY <1>3, <2>3, <2>5
  <2> QED
    BY <2>3, <2>6
<1>5. PICK g : Solves(g, Cardinality(S))
  <2> HIDE DEF Solves
  <2> QED
    BY <1>1, <1>4
<1>6. Upto(Cardinality(S)) = SUBSET S
  BY <1>1
<1>7. g = [s \in SUBSET S |-> SumPart(f, g, s)]
  BY <1>5, <1>6
<1> DEFINE p == PartialSum(f, S)
<1>8. p = [s \in SUBSET S |-> SumPart(f, p, s)]
  BY <1>7, Zenon DEF PartialSum
<1> HIDE DEF p
<1>9. \A s \in SUBSET S : p[s] = SumPart(f, p, s)
  BY <1>8
<1> QED
  BY <1>9 DEF p

\* A sum is a number, and any element may be taken out of it first.
LEMMA PartialSumSplit ==
  ASSUME NEW S, IsFiniteSet(S), NEW f \in [S -> Int]
  PROVE  \A s \in SUBSET S :
           /\ PartialSum(f, S)[s] \in Int
           /\ \A x \in s : PartialSum(f, S)[s] = f[x] + PartialSum(f, S)[s \ {x}]
<1> DEFINE g == PartialSum(f, S)
           Splits(s) == /\ g[s] \in Int
                        /\ \A x \in s : g[s] = f[x] + g[s \ {x}]
           Fails == {n \in Nat : \E s \in SUBSET S : Cardinality(s) = n /\ ~Splits(s)}
<1>1. \A s \in SUBSET S : Cardinality(s) \in Nat
  BY FS_Subset, FS_CardinalityType
<1>2. \A s \in SUBSET S : g[s] = SumPart(f, g, s)
  BY PartialSumDef
<1> HIDE DEF g
<1>3. Fails = {}
  <2> SUFFICES ASSUME Fails # {} PROVE FALSE
    OBVIOUS
  <2>1. PICK n \in Fails : \A m \in Fails : n <= m
    <3> HIDE DEF Fails
    <3>1. Fails \subseteq Nat
      BY DEF Fails
    <3> QED
      BY <3>1, LeastNumber
  <2>2. PICK s \in SUBSET S : Cardinality(s) = n /\ ~Splits(s)
    BY <2>1
  <2>3. \A t \in SUBSET S : Cardinality(t) < n => Splits(t)
    <3> HIDE DEF Splits
    <3> QED
      BY <1>1, <2>1
  <2>4. \A x \in s : /\ s \ {x} \in SUBSET S
                     /\ Cardinality(s \ {x}) < n
                     /\ Splits(s \ {x})
    <3>1. \A x \in s : /\ s \ {x} \in SUBSET S
                       /\ Cardinality(s \ {x}) < n
      BY <2>2, OneLess
    <3> HIDE DEF Splits
    <3> QED
      BY <2>3, <3>1
  <2>5. s # {}
    <3>1. s = {} => g[s] = 0
      BY <1>2 DEF SumPart
    <3> QED
      BY <2>2, <3>1
  <2> DEFINE c == Pick(s)
  <2>6. c \in s /\ g[s] = f[c] + g[s \ {c}] /\ c \in S
    BY <1>2, <2>5, PickIn DEF SumPart
  <2> HIDE DEF c
  <2>7. g[s] \in Int
    <3>1. g[s \ {c}] \in Int /\ f[c] \in Int
      BY <2>4, <2>6
    <3> QED
      BY <2>6, <3>1
  <2>8. ASSUME NEW x \in s, x # c PROVE g[s] = f[x] + g[s \ {x}]
    <3> DEFINE sc == s \ {c}
               sx == s \ {x}
               r == sc \ {x}
    <3>1. x \in sc /\ c \in sx /\ sx \ {c} = r /\ r \in SUBSET S
          /\ sc \in SUBSET S /\ x \in S /\ c \in S
      BY <2>6, <2>8
    <3>2. Splits(sc) /\ Splits(sx) /\ Cardinality(sc) < n
      BY <2>4, <2>6, Zenon
    <3>3. Splits(r)
      <4> HIDE DEF sc, Splits
      <4>1. Cardinality(sc) \in Nat /\ Cardinality(r) \in Nat
            /\ Cardinality(r) = Cardinality(sc) - 1
        BY <3>1, OneLess, Zenon
      <4> HIDE DEF r
      <4>2. Cardinality(r) < n
        BY <3>2, <4>1
      <4> QED
        BY <2>3, <3>1, <4>2
    <3>4. g[sc] = f[x] + g[r] /\ g[sx] = f[c] + g[r] /\ g[r] \in Int
      <4>1. g[sc] = f[x] + g[sc \ {x}] /\ g[sx] = f[c] + g[sx \ {c}] /\ g[r] \in Int
        BY <3>1, <3>2, <3>3, Zenon
      <4> QED
        BY <3>1, <4>1, Zenon
    <3>5. g[s] = f[c] + g[sc] /\ f[x] \in Int /\ f[c] \in Int
      BY <2>6, <3>1
    <3> HIDE DEF sc, sx, r
    <3>6. g[s] = f[x] + g[sx]
      BY <3>4, <3>5
    <3> QED
      BY <3>6 DEF sx
  <2> QED
    BY <2>2, <2>6, <2>7, <2>8
<1>4. \A s \in SUBSET S : Splits(s)
  BY <1>1, <1>3
<1> QED
  BY <1>4 DEF g

\* Functions with the same values on a set have the same sum over it.
LEMMA PartialSumAgree ==
  ASSUME NEW S, IsFiniteSet(S), NEW f \in [S -> Int], NEW h \in [S -> Int]
  PROVE  \A s \in SUBSET S : (\A x \in s : f[x] = h[x]) =>
           PartialSum(f, S)[s] = PartialSum(h, S)[s]
<1> DEFINE Same(s) == PartialSum(f, S)[s] = PartialSum(h, S)[s]
           Fails == {n \in Nat : \E s \in SUBSET S :
                       Cardinality(s) = n /\ (\A x \in s : f[x] = h[x]) /\ ~Same(s)}
<1>1. \A s \in SUBSET S : Cardinality(s) \in Nat
  BY FS_Subset, FS_CardinalityType
<1>2. \A s \in SUBSET S : /\ PartialSum(f, S)[s] = SumPart(f, PartialSum(f, S), s)
                          /\ PartialSum(h, S)[s] = SumPart(h, PartialSum(h, S), s)
  BY PartialSumDef
<1>3. Fails = {}
  <2> SUFFICES ASSUME Fails # {} PROVE FALSE
    OBVIOUS
  <2>1. PICK n \in Fails : \A m \in Fails : n <= m
    <3> HIDE DEF Fails
    <3>1. Fails \subseteq Nat
      BY DEF Fails
    <3> QED
      BY <3>1, LeastNumber
  <2>2. PICK s \in SUBSET S :
          Cardinality(s) = n /\ (\A x \in s : f[x] = h[x]) /\ ~Same(s)
    BY <2>1
  <2>3. s # {}
    BY <1>2, <2>2 DEF SumPart
  <2> DEFINE t == s \ {Pick(s)}
  <2>4. /\ Pick(s) \in s
        /\ t \in SUBSET S
        /\ Cardinality(t) \in Nat
        /\ Cardinality(t) < n
    BY <2>2, <2>3, PickIn, OneLess
  <2>5. \A x \in t : f[x] = h[x]
    BY <2>2
  <2> HIDE DEF t
  <2>6. Same(t)
    <3> HIDE DEF Same
    <3> QED
      BY <2>1, <2>4, <2>5
  <2> QED
    BY <1>2, <2>2, <2>3, <2>4, <2>6 DEF SumPart, t
<1> QED
  BY <1>1, <1>3

\* The sum changes by what one of its terms changes.
LEMMA SumChange ==
  ASSUME NEW S, IsFiniteSet(S), NEW f \in [S -> Int], NEW h \in [S -> Int],
         NEW a \in S, \A x \in S \ {a} : h[x] = f[x]
  PROVE  /\ SumFunctionOnSet(f, S) \in Int
         /\ SumFunctionOnSet(h, S) = SumFunctionOnSet(f, S) + (h[a] - f[a])
<1> DEFINE T == S \ {a}
<1>1. S \in SUBSET S /\ T \in SUBSET S
  OBVIOUS
<1>5. \A s \in SUBSET S :
        /\ PartialSum(f, S)[s] \in Int
        /\ \A x \in s : PartialSum(f, S)[s] = f[x] + PartialSum(f, S)[s \ {x}]
  BY PartialSumSplit, Zenon
<1>6. \A s \in SUBSET S :
        /\ PartialSum(h, S)[s] \in Int
        /\ \A x \in s : PartialSum(h, S)[s] = h[x] + PartialSum(h, S)[s \ {x}]
  BY PartialSumSplit, Zenon
<1>2. /\ PartialSum(f, S)[S] \in Int
      /\ PartialSum(f, S)[S] = f[a] + PartialSum(f, S)[T]
      /\ PartialSum(f, S)[T] \in Int
      /\ PartialSum(h, S)[S] = h[a] + PartialSum(h, S)[T]
  BY <1>1, <1>5, <1>6, Zenon
<1>3. PartialSum(f, S)[T] = PartialSum(h, S)[T]
  BY <1>1, PartialSumAgree
<1> HIDE DEF T
<1>4. f[a] \in Int /\ h[a] \in Int
  OBVIOUS
<1> QED
  BY <1>2, <1>3, <1>4, SumIsPartialSum

\* The sum is a number.
LEMMA SumIsInt ==
  ASSUME NEW S, IsFiniteSet(S), NEW f \in [S -> Int]
  PROVE  SumFunctionOnSet(f, S) \in Int
<1>1. \A s \in SUBSET S : PartialSum(f, S)[s] \in Int
  BY PartialSumSplit, Zenon
<1>2. PartialSum(f, S)[S] \in Int
  BY <1>1, Zenon
<1> QED
  BY <1>2, SumIsPartialSum

\* Zeros sum to zero.
LEMMA SumOfZeros ==
  ASSUME NEW S, IsFiniteSet(S), NEW f, f = [x \in S |-> 0]
  PROVE  SumFunctionOnSet(f, S) = 0
<1> DEFINE g == PartialSum(f, S)
           Fails == {n \in Nat : \E s \in SUBSET S : Cardinality(s) = n /\ g[s] # 0}
<1>1. \A s \in SUBSET S : Cardinality(s) \in Nat
  BY FS_Subset, FS_CardinalityType
<1>2. \A s \in SUBSET S : g[s] = SumPart(f, g, s)
  BY PartialSumDef
<1> HIDE DEF g
<1>3. Fails = {}
  <2> SUFFICES ASSUME Fails # {} PROVE FALSE
    OBVIOUS
  <2>1. PICK n \in Fails : \A m \in Fails : n <= m
    <3> HIDE DEF Fails
    <3>1. Fails \subseteq Nat
      BY DEF Fails
    <3> QED
      BY <3>1, LeastNumber
  <2>2. PICK s \in SUBSET S : Cardinality(s) = n /\ g[s] # 0
    BY <2>1
  <2>3. s # {}
    BY <1>2, <2>2 DEF SumPart
  <2> DEFINE t == s \ {Pick(s)}
  <2>4. /\ Pick(s) \in s
        /\ t \in SUBSET S
        /\ Cardinality(t) \in Nat
        /\ Cardinality(t) < n
    BY <2>2, <2>3, PickIn, OneLess
  <2> HIDE DEF t
  <2>5. g[t] = 0
    BY <2>1, <2>4
  <2> QED
    BY <1>2, <2>2, <2>3, <2>4, <2>5 DEF SumPart, t
<1> QED
  BY <1>1, <1>3, SumIsPartialSum DEF g

\* Two terms of a sum change.
LEMMA SumChangeTwo ==
  ASSUME NEW S, IsFiniteSet(S), NEW f \in [S -> Int], NEW h \in [S -> Int],
         NEW a \in S, NEW b \in S, a # b, \A x \in S \ {a, b} : h[x] = f[x]
  PROVE  /\ SumFunctionOnSet(f, S) \in Int
         /\ SumFunctionOnSet(h, S) = SumFunctionOnSet(f, S) + (h[a] - f[a]) + (h[b] - f[b])
<1> DEFINE k == [f EXCEPT ![a] = h[a]]
<1>1. /\ k \in [S -> Int] /\ k[a] = h[a] /\ k[b] = f[b]
      /\ (\A x \in S \ {a} : k[x] = f[x]) /\ (\A x \in S \ {b} : h[x] = k[x])
  OBVIOUS
<1> HIDE DEF k
<1>2. /\ SumFunctionOnSet(f, S) \in Int
      /\ SumFunctionOnSet(k, S) = SumFunctionOnSet(f, S) + (k[a] - f[a])
  BY <1>1, SumChange
<1>3. SumFunctionOnSet(h, S) = SumFunctionOnSet(k, S) + (h[b] - k[b])
  BY <1>1, SumChange
<1>4. f[a] \in Int /\ h[a] \in Int /\ f[b] \in Int /\ h[b] \in Int
  OBVIOUS
<1> QED
  BY <1>1, <1>2, <1>3, <1>4

(***************************************************************************)
(* Funds.                                                                  *)
(***************************************************************************)
Staked == SumFunctionOnSet(amountStaked, Validators)
Owed == SumFunctionOnSet(withdrawable, Accounts)

\* The two maps that hold what the contract owes are over finitely many addresses.
LEMMA FundTypes ==
  ASSUME TypeOK
  PROVE  /\ IsFiniteSet(Validators) /\ IsFiniteSet(Accounts)
         /\ Validators \subseteq Accounts /\ Owner \in Accounts /\ Owner \notin Validators
         /\ amountStaked \in [Validators -> Int] /\ amountStaked \in [Validators -> Nat]
         /\ withdrawable \in [Accounts -> Int] /\ withdrawable \in [Accounts -> Nat]
         /\ balance \in Int
<1>1. IsFiniteSet(Accounts)
  BY AddressAssumption, FS_AddElement DEF Accounts
<1> QED
  BY <1>1, AddressAssumption DEF TypeOK, Accounts

\* What is staked and what may be withdrawn are numbers.
LEMMA SumsAreNumbers ==
  ASSUME TypeOK, TypeOK'
  PROVE  Staked \in Int /\ Owed \in Int /\ Staked' \in Int /\ Owed' \in Int
<1>1. /\ amountStaked \in [Validators -> Int] /\ amountStaked' \in [Validators -> Int]
      /\ withdrawable \in [Accounts -> Int] /\ withdrawable' \in [Accounts -> Int]
      /\ IsFiniteSet(Validators) /\ IsFiniteSet(Accounts)
  BY FundTypes DEF TypeOK
<1> QED
  BY <1>1, SumIsInt DEF Staked, Owed

\* A change of one stake changes what is staked by as much.
LEMMA StakedChange ==
  ASSUME TypeOK, TypeOK', NEW a \in Validators,
         \A b \in Validators \ {a} : amountStaked'[b] = amountStaked[b]
  PROVE  Staked \in Int /\ Staked' = Staked + (amountStaked'[a] - amountStaked[a])
<1>1. amountStaked \in [Validators -> Int] /\ amountStaked' \in [Validators -> Int]
      /\ IsFiniteSet(Validators)
  BY AddressAssumption DEF TypeOK
<1> QED
  BY <1>1, SumChange DEF Staked

\* A change of what one account may withdraw changes what is owed by as much.
LEMMA OwedChange ==
  ASSUME TypeOK, TypeOK', NEW a \in Accounts,
         \A b \in Accounts \ {a} : withdrawable'[b] = withdrawable[b]
  PROVE  Owed \in Int /\ Owed' = Owed + (withdrawable'[a] - withdrawable[a])
<1>1. withdrawable \in [Accounts -> Int] /\ withdrawable' \in [Accounts -> Int]
      /\ IsFiniteSet(Accounts)
  BY FundTypes DEF TypeOK
<1> QED
  BY <1>1, SumChange DEF Owed

\* completeChallengeImpl splits the loser's stake without a remainder: what
\* it keeps, the winner's half and the owner's half are the whole of it.
LEMMA SettleConserves ==
  ASSUME TypeOK, TypeOK', NEW w \in Validators, NEW l \in Validators, w # l,
         SettleChallenge(w, l)
  PROVE  /\ Staked \in Int /\ Owed \in Int
         /\ Staked' + Owed' = Staked + Owed
<1> DEFINE lost == StakeLost(w, l)
<1>1. /\ lost \in Nat /\ lost <= amountStaked[l] /\ lost \div 2 \in Nat
      /\ OwnerShare(lost) = lost - lost \div 2
      /\ amountStaked[l] \in Nat /\ amountStaked[w] \in Nat
      /\ withdrawable[l] \in Nat /\ withdrawable[Owner] \in Nat
  BY StakeLostType, FundTypes DEF OwnerShare
<1>2. /\ amountStaked' = [amountStaked EXCEPT ![w] = @ + lost \div 2, ![l] = 0]
      /\ withdrawable' = [withdrawable EXCEPT ![l] = @ + (amountStaked[l] - lost),
                                              ![Owner] = @ + OwnerShare(lost)]
  BY DEF SettleChallenge
<1> HIDE DEF lost
<1>3. /\ amountStaked'[w] = amountStaked[w] + lost \div 2 /\ amountStaked'[l] = 0
      /\ \A x \in Validators \ {w, l} : amountStaked'[x] = amountStaked[x]
      /\ withdrawable'[l] = withdrawable[l] + (amountStaked[l] - lost)
      /\ withdrawable'[Owner] = withdrawable[Owner] + OwnerShare(lost)
      /\ \A x \in Accounts \ {l, Owner} : withdrawable'[x] = withdrawable[x]
      /\ l # Owner /\ l \in Accounts /\ Owner \in Accounts
  BY <1>2, FundTypes
<1>4. /\ Staked \in Int
      /\ Staked' = Staked + (amountStaked'[w] - amountStaked[w])
                          + (amountStaked'[l] - amountStaked[l])
  <2>1. amountStaked \in [Validators -> Int] /\ amountStaked' \in [Validators -> Int]
        /\ IsFiniteSet(Validators)
    BY AddressAssumption DEF TypeOK
  <2> QED
    BY <1>3, <2>1, SumChangeTwo DEF Staked
<1>5. /\ Owed \in Int
      /\ Owed' = Owed + (withdrawable'[l] - withdrawable[l])
                      + (withdrawable'[Owner] - withdrawable[Owner])
  <2>1. withdrawable \in [Accounts -> Int] /\ withdrawable' \in [Accounts -> Int]
        /\ IsFiniteSet(Accounts)
    BY FundTypes DEF TypeOK
  <2> QED
    BY <1>3, <2>1, SumChangeTwo DEF Owed
<1> QED
  BY <1>1, <1>3, <1>4, <1>5

\* Both parties of a settled challenge are different: nobody is staked on two
\* children of one node.
LEMMA PartiesDiffer ==
  ASSUME TypeOK, TreeInv, NEW a1 \in Validators, NEW a2 \in Validators,
         NEW n1 \in NodeNums, NEW n2 \in NodeNums, ChallengeAllowed(a1, a2, n1, n2)
  PROVE  a1 # a2
<1> SUFFICES ASSUME a1 = a2 PROVE FALSE
  OBVIOUS
<1>1. n1 < n2 /\ n1 \in live /\ n2 \in live /\ latestConfirmed < n1 /\ prev[n1] = prev[n2]
      /\ a1 \in stakerSet /\ a1 \in stakers[n1] /\ a1 \in stakers[n2]
  BY DEF ChallengeAllowed, UnchallengedStaker
<1>2. n1 \in Unresolved /\ n2 \in Unresolved
  BY <1>1, AboveConfirmed DEF TreeInv
<1>3. n1 <= prev[n2]
  BY <1>1, <1>2 DEF TreeInv, StakeChain
<1>4. prev[n1] < n1 /\ prev[n1] \in Nat /\ n1 \in Nat
  BY <1>2, Numbers DEF TreeInv
<1> QED
  BY <1>1, <1>3, <1>4

\* Nobody but a staker has a stake: without it newStake, which overwrites
\* the stake of the address, could lose funds.
OnlyStakersHaveStake == \A a \in Validators \ stakerSet : amountStaked[a] = 0

FundsInv == FundsConserved /\ OnlyStakersHaveStake

\* Nobody but a staker is in a challenge.
OnlyStakersChallenged == \A a \in Validators \ stakerSet : currentChallenge[a] = NoChallenge

\* The rollup starts with nothing and owes nothing.
LEMMA FundsInit == Init => FundsInv
<1> SUFFICES ASSUME Init PROVE FundsInv
  OBVIOUS
<1>1. TypeOK
  BY TypeInit
<1>2. SumFunctionOnSet(amountStaked, Validators) = 0
  BY AddressAssumption, SumOfZeros DEF Init
<1>3. SumFunctionOnSet(withdrawable, Accounts) = 0
  BY <1>1, FundTypes, SumOfZeros DEF Init
<1> QED
  BY <1>2, <1>3 DEF Init, FundsInv, FundsConserved, OnlyStakersHaveStake

\* A party that is its own opponent loses its stake to itself and to the
\* owner, and then what it won as well.
LEMMA SettleAlone ==
  ASSUME TypeOK, TypeOK', NEW w \in Validators, SettleChallenge(w, w)
  PROVE  /\ Staked \in Int /\ Owed \in Int /\ Staked' \in Int /\ Owed' \in Int
         /\ Staked' + Owed' <= Staked + Owed
<1> DEFINE lost == StakeLost(w, w)
<1>1. /\ lost \in Nat /\ lost <= amountStaked[w] /\ lost \div 2 \in Nat
      /\ OwnerShare(lost) = lost - lost \div 2
      /\ amountStaked[w] \in Nat /\ withdrawable[w] \in Nat /\ withdrawable[Owner] \in Nat
  BY StakeLostType, FundTypes DEF OwnerShare
<1>2. /\ amountStaked' = [amountStaked EXCEPT ![w] = @ + lost \div 2, ![w] = 0]
      /\ withdrawable' = [withdrawable EXCEPT ![w] = @ + (amountStaked[w] - lost),
                                              ![Owner] = @ + OwnerShare(lost)]
  BY DEF SettleChallenge
<1> HIDE DEF lost
<1>3. /\ amountStaked'[w] = 0
      /\ \A x \in Validators \ {w} : amountStaked'[x] = amountStaked[x]
      /\ withdrawable'[w] = withdrawable[w] + (amountStaked[w] - lost)
      /\ withdrawable'[Owner] = withdrawable[Owner] + OwnerShare(lost)
      /\ \A x \in Accounts \ {w, Owner} : withdrawable'[x] = withdrawable[x]
      /\ w # Owner /\ w \in Accounts /\ Owner \in Accounts
  BY <1>2, FundTypes
<1>4. Staked \in Int /\ Staked' = Staked + (amountStaked'[w] - amountStaked[w])
  BY <1>3, StakedChange
<1>5. /\ Owed \in Int
      /\ Owed' = Owed + (withdrawable'[w] - withdrawable[w])
                      + (withdrawable'[Owner] - withdrawable[Owner])
  <2>1. withdrawable \in [Accounts -> Int] /\ withdrawable' \in [Accounts -> Int]
        /\ IsFiniteSet(Accounts)
    BY FundTypes DEF TypeOK
  <2> QED
    BY <1>3, <2>1, SumChangeTwo DEF Owed
<1> QED
  BY <1>1, <1>3, <1>4, <1>5

\* Every transaction moves funds without creating any; and it loses none
\* where the tree is in order, so that nobody is its own opponent.
LEMMA FundsMove ==
  ASSUME TypeOK, TypeOK', OnlyStakersHaveStake, OnlyStakersChallenged, [Next]_vars,
         NEW d \in Int, balance = Staked + Owed + d
  PROVE  /\ OnlyStakersHaveStake'
         /\ balance' >= Staked' + Owed' + d
         /\ TreeInv => balance' = Staked' + Owed' + d
<1> DEFINE Goal == /\ OnlyStakersHaveStake'
                   /\ balance' >= Staked' + Owed' + d
                   /\ TreeInv => balance' = Staked' + Owed' + d
<1>1. /\ balance = Staked + Owed + d
      /\ \A b \in Validators \ stakerSet : amountStaked[b] = 0
      /\ stakerSet \subseteq Validators /\ live \subseteq NodeNums
      /\ Staked \in Int /\ Owed \in Int /\ Staked' \in Int /\ Owed' \in Int
  BY SumsAreNumbers DEF OnlyStakersHaveStake, TypeOK
<1>2. ASSUME UNCHANGED <<amountStaked, withdrawable, balance>>, UNCHANGED stakerSet
      PROVE  Goal
  BY <1>1, <1>2 DEF Staked, Owed, OnlyStakersHaveStake
<1>3. ASSUME StakeStep PROVE Goal
  <2>1. PICK a \in Validators :
          \/ \E amount \in Amounts : NewStake(a, amount) \/ AddToDeposit(a, amount)
          \/ \E remaining \in 0 .. amountStaked[a] : ReduceDeposit(a, remaining)
          \/ ReturnOldDeposit(a)
          \/ WithdrawStakerFunds(a)
          \/ \E n \in NodeNums : StakeOnExistingNode(a, n)
          \/ \E after \in Assertions : StakeOnNewNode(a, after)
    BY <1>3 DEF StakeStep
  <2>2. /\ a \in Accounts /\ amountStaked[a] \in Nat /\ withdrawable[a] \in Nat
        /\ amountStaked \in [Validators -> Nat] /\ withdrawable \in [Accounts -> Nat]
        /\ balance \in Int /\ Staked \in Int /\ Owed \in Int
    <3>1. Staked \in Int /\ Owed \in Int
      BY FundTypes, SumChange DEF Staked, Owed
    <3> QED
      BY <3>1, FundTypes
  <2>3. ASSUME NEW amount \in Amounts, NewStake(a, amount) PROVE Goal
    <3>1. /\ amountStaked'[a] = amount /\ balance' = balance + amount /\ amount \in Nat
          /\ \A b \in Validators \ {a} : amountStaked'[b] = amountStaked[b]
          /\ UNCHANGED withdrawable /\ amountStaked[a] = 0 /\ stakerSet' = stakerSet \cup {a}
      BY <1>1, <2>2, <2>3, InputAssumption DEF NewStake
    <3>2. Staked' = Staked + (amountStaked'[a] - amountStaked[a]) /\ Owed' = Owed
      BY <3>1, StakedChange DEF Owed
    <3>3. OnlyStakersHaveStake'
      BY <1>1, <3>1 DEF OnlyStakersHaveStake
    <3> QED
      BY <1>1, <2>2, <3>1, <3>2, <3>3
  <2>4. ASSUME NEW amount \in Amounts, AddToDeposit(a, amount) PROVE Goal
    <3>1. /\ amountStaked'[a] = amountStaked[a] + amount /\ balance' = balance + amount
          /\ amount \in Nat
          /\ \A b \in Validators \ {a} : amountStaked'[b] = amountStaked[b]
          /\ UNCHANGED withdrawable /\ a \in stakerSet /\ UNCHANGED stakerSet
      BY <2>2, <2>4, InputAssumption DEF AddToDeposit, UnchallengedStaker
    <3>2. Staked' = Staked + (amountStaked'[a] - amountStaked[a]) /\ Owed' = Owed
      BY <3>1, StakedChange DEF Owed
    <3>3. OnlyStakersHaveStake'
      BY <1>1, <3>1 DEF OnlyStakersHaveStake
    <3> QED
      BY <1>1, <2>2, <3>1, <3>2, <3>3
  <2>5. ASSUME NEW remaining \in 0 .. amountStaked[a],
               ReduceDeposit(a, remaining) \/ ReturnOldDeposit(a),
               remaining = amountStaked'[a]
        PROVE  Goal
    <3>1. /\ UNCHANGED balance
          /\ withdrawable'[a] = withdrawable[a] + (amountStaked[a] - remaining)
          /\ \A b \in Accounts \ {a} : withdrawable'[b] = withdrawable[b]
          /\ \A b \in Validators \ {a} : amountStaked'[b] = amountStaked[b]
      BY <2>2, <2>5 DEF ReduceDeposit, ReturnOldDeposit, IncreaseWithdrawable
    <3>2. /\ Staked' = Staked + (amountStaked'[a] - amountStaked[a])
          /\ Owed' = Owed + (withdrawable'[a] - withdrawable[a])
      BY <2>2, <3>1, StakedChange, OwedChange
    <3>3. OnlyStakersHaveStake'
      <4>1. \/ UNCHANGED stakerSet /\ a \in stakerSet
            \/ stakerSet' = stakerSet \ {a} /\ amountStaked'[a] = 0
        BY <2>2, <2>5 DEF ReduceDeposit, ReturnOldDeposit, ReturnRequirements, UnchallengedStaker
      <4> QED
        BY <1>1, <3>1, <4>1 DEF OnlyStakersHaveStake
    <3>4. remaining \in Int
      OBVIOUS
    <3> QED
      BY <1>1, <2>2, <2>5, <3>1, <3>2, <3>3, <3>4
  <2>6. ASSUME WithdrawStakerFunds(a) PROVE Goal
    <3>1. /\ withdrawable'[a] = 0 /\ balance' = balance - withdrawable[a]
          /\ \A b \in Accounts \ {a} : withdrawable'[b] = withdrawable[b]
          /\ UNCHANGED <<amountStaked, stakerSet>>
      BY <2>2, <2>6 DEF WithdrawStakerFunds, stakerVars
    <3>2. Staked' = Staked /\ Owed' = Owed + (withdrawable'[a] - withdrawable[a])
      BY <2>2, <3>1, OwedChange DEF Staked
    <3> QED
      BY <1>1, <2>2, <3>1, <3>2 DEF OnlyStakersHaveStake
  <2>7. ASSUME \/ \E n \in NodeNums : StakeOnExistingNode(a, n)
               \/ \E after \in Assertions : StakeOnNewNode(a, after)
        PROVE  Goal
    BY <1>2, <2>7 DEF StakeOnExistingNode, StakeOnNewNode, fundVars
  <2>8. /\ ReturnOldDeposit(a) => amountStaked'[a] = 0 /\ 0 \in 0 .. amountStaked[a]
        /\ \A remaining : ReduceDeposit(a, remaining) => amountStaked'[a] = remaining
    BY <2>2 DEF ReturnOldDeposit, ReduceDeposit
  <2> HIDE DEF Goal
  <2> QED
    BY <2>1, <2>3, <2>4, <2>5, <2>6, <2>7, <2>8
<1>4. ASSUME NEW w \in Validators, NEW l \in Validators, w # l, w \in stakerSet,
             SettleChallenge(w, l), UNCHANGED balance
      PROVE  Goal
  <2>1. /\ stakerSet' = stakerSet \ {l} /\ amountStaked'[l] = 0
        /\ \A b \in Validators \ {w, l} : amountStaked'[b] = amountStaked[b]
    BY <1>4 DEF SettleChallenge, TypeOK
  <2>2. OnlyStakersHaveStake'
    BY <1>1, <1>4, <2>1 DEF OnlyStakersHaveStake
  <2>3. Staked' + Owed' = Staked + Owed
    BY <1>4, SettleConserves
  <2>4. balance' = Staked' + Owed' + d /\ balance' >= Staked' + Owed' + d
    <3>1. \A s, o, s1, o1, b \in Int : s1 + o1 = s + o /\ b = s + o + d =>
            b = s1 + o1 + d /\ b >= s1 + o1 + d
      OBVIOUS
    <3>2. balance' = Staked + Owed + d /\ balance' \in Int
      BY <1>4, FundTypes
    <3> QED
      BY <1>1, <2>3, <3>1, <3>2, Zenon
  <2> QED
    BY <2>2, <2>4
<1>8. ASSUME NEW w \in Validators, SettleChallenge(w, w), UNCHANGED balance, ~TreeInv
      PROVE  Goal
  <2>1. /\ stakerSet' = stakerSet \ {w} /\ amountStaked'[w] = 0
        /\ \A b \in Validators \ {w} : amountStaked'[b] = amountStaked[b]
    BY <1>8 DEF SettleChallenge, TypeOK
  <2>2. OnlyStakersHaveStake'
    BY <1>1, <2>1 DEF OnlyStakersHaveStake
  <2>3. Staked' + Owed' <= Staked + Owed
    BY <1>8, SettleAlone
  <2>4. balance' >= Staked' + Owed' + d
    <3>1. \A s, o, s1, o1, b \in Int : s1 + o1 <= s + o /\ b = s + o + d => b >= s1 + o1 + d
      OBVIOUS
    <3>2. balance' = Staked + Owed + d /\ balance' \in Int
      BY <1>8, FundTypes
    <3> QED
      BY <1>1, <2>3, <3>1, <3>2, Zenon
  <2> QED
    BY <1>8, <2>2, <2>4
<1>5. ASSUME ChallengeStep PROVE Goal
  <2>1. ASSUME NEW a1 \in stakerSet, NEW a2 \in stakerSet, NEW n1 \in live, NEW n2 \in live,
               CreateChallenge(a1, a2, n1, n2)
        PROVE  Goal
    BY <1>2, <2>1 DEF CreateChallenge, fundVars
  <2>2. ASSUME NEW a1 \in stakerSet, NEW a2 \in stakerSet, NEW n1 \in live, NEW n2 \in live,
               ForfeitLateChallenge(a1, a2, n1, n2)
        PROVE  Goal
    <3>1. a1 # a2 \/ ~TreeInv
      BY <1>1, <2>2, PartiesDiffer DEF ForfeitLateChallenge
    <3> HIDE DEF Goal
    <3>2. CASE a1 # a2
      BY <1>1, <1>4, <2>2, <3>2 DEF ForfeitLateChallenge
    <3>3. CASE a1 = a2
      BY <1>1, <1>8, <2>2, <3>1, <3>3 DEF ForfeitLateChallenge
    <3> QED
      BY <3>2, <3>3
  <2>3. ASSUME NEW w \in Validators, NEW l \in Validators, CompleteChallenge(w, l) PROVE Goal
    <3>1. (w # l \/ ~TreeInv) /\ w \in stakerSet
      BY <2>3 DEF CompleteChallenge, TreeInv, ChallengesMatched, OnlyStakersChallenged
    <3> HIDE DEF Goal
    <3>2. CASE w # l
      BY <1>4, <2>3, <3>1, <3>2 DEF CompleteChallenge
    <3>3. CASE w = l
      BY <1>8, <2>3, <3>1, <3>3 DEF CompleteChallenge
    <3> QED
      BY <3>2, <3>3
  <2> HIDE DEF Goal
  <2> QED
    BY <1>5, <2>1, <2>2, <2>3 DEF ChallengeStep
<1>6. ASSUME AdvanceBlock \/ SequencerBatch \/ ResolveStep \/ ZombieStep \/ UNCHANGED vars
      PROVE  Goal
  <2>1. UNCHANGED <<amountStaked, withdrawable, balance>> /\ UNCHANGED stakerSet
    BY <1>6 DEF AdvanceBlock, SequencerBatch, ResolveStep, ZombieStep, vars, ConfirmNextNode,
      RejectChildOfConfirmed, RejectOutright, RemoveZombie, RemoveOldZombies, stakerVars, fundVars
  <2> QED
    BY <1>2, <2>1
<1> HIDE DEF Goal
<1>7. Goal
  BY <1>3, <1>5, <1>6 DEF Next
<1> QED
  BY <1>7 DEF Goal

\* Where the tree is in order the funds stay so.
LEMMA FundsStep == TypeOK /\ TypeOK' /\ TreeInv /\ FundsInv /\ [Next]_vars => FundsInv'
<1> SUFFICES ASSUME TypeOK, TypeOK', TreeInv, FundsInv, [Next]_vars
             PROVE  FundsInv'
  OBVIOUS
<1>1. Staked \in Int /\ Owed \in Int /\ Staked' \in Int /\ Owed' \in Int
  BY SumsAreNumbers
<1>2. balance = Staked + Owed + 0 /\ OnlyStakersHaveStake /\ OnlyStakersChallenged
  BY <1>1 DEF FundsInv, FundsConserved, Staked, Owed, TreeInv, ChallengesMatched,
              OnlyStakersChallenged
<1>3. OnlyStakersHaveStake' /\ balance' = Staked' + Owed' + 0
  BY <1>2, FundsMove
<1> QED
  BY <1>1, <1>3 DEF FundsInv, FundsConserved, Staked, Owed

\* The rollup holds what it owes, to the unit, whatever is staked, refunded,
\* lost, forfeited and withdrawn.
THEOREM FundsAreConserved == Spec => []FundsConserved
<1>1. Init => TypeOK /\ TreeInv /\ FundsInv
  BY TypeInit, TreeInit, FundsInit
<1>2. (TypeOK /\ TreeInv /\ FundsInv) /\ [Next]_vars => (TypeOK /\ TreeInv /\ FundsInv)'
  BY TypeStep, TreeStep, FundsStep
<1>3. TypeOK /\ TreeInv /\ FundsInv => FundsConserved
  BY DEF FundsInv
<1> QED
  BY <1>1, <1>2, <1>3, PTL DEF Spec

-----------------------------------------------------------------------------
(***************************************************************************)
(* RollupAdmin.                                                            *)
(***************************************************************************)
(***************************************************************************)
(* Type correctness, whatever the owner calls.                             *)
(***************************************************************************)
LEMMA PauseStepType == TypeOK /\ (PauseStep \/ UndoShutdownForNitro) => TypeOK'
<1> SUFFICES ASSUME TypeOK, PauseStep \/ UndoShutdownForNitro PROVE TypeOK'
  OBVIOUS
<1>1. MaxBlock + 1 \in Nat
  BY BoundAssumption
<1> QED
  BY <1>1 DEF TypeOK, PauseStep, Pause, Resume, UndoShutdownForNitro, chainVars, nodeConsts,
    childVars, stakerVars, zombieVars, fundVars, messageVars

LEMMA ForceResolveChallengeType ==
  ASSUME TypeOK, NEW a \in Validators, NEW b \in Validators, ForceResolveChallenge(a, b)
  PROVE  TypeOK'
<1>1. currentChallenge' \in [Validators -> Challenges \cup {NoChallenge}]
  BY DEF TypeOK, ForceResolveChallenge, ClearChallenges
<1> QED
  BY <1>1 DEF TypeOK, ForceResolveChallenge, adminVars, chainVars, nodeConsts, childVars,
    zombieVars, fundVars, messageVars

LEMMA ForceRefundStakerType ==
  ASSUME TypeOK, NEW a \in Validators, ForceRefundStaker(a)
  PROVE  TypeOK'
<1>1. /\ currentChallenge' \in [Validators -> Challenges \cup {NoChallenge}]
      /\ stakerSet' \subseteq Validators
      /\ amountStaked' \in [Validators -> Nat]
  BY DEF TypeOK, ForceRefundStaker, RefundStake
<1>2. zombies' \subseteq Validators /\ zombieNode' \in [Validators -> NodeNums]
  BY DEF TypeOK, ForceRefundStaker, TurnIntoZombie
<1>3. withdrawable' \in [Accounts -> Nat]
  <2>1. a \in Accounts /\ amountStaked[a] \in Nat /\ withdrawable \in [Accounts -> Nat]
    BY DEF TypeOK, Accounts
  <2> QED
    BY <2>1 DEF ForceRefundStaker, RefundStake, IncreaseWithdrawable
<1>4. latestStakedNode' \in [Validators -> NodeNums]
  <2>1. 0 \in NodeNums
    BY BoundAssumption DEF NodeNums
  <2> QED
    BY <2>1 DEF TypeOK, ForceRefundStaker
<1> QED
  BY <1>1, <1>2, <1>3, <1>4 DEF TypeOK, ForceRefundStaker, adminVars, chainVars, nodeConsts,
    childVars, messageVars

LEMMA ForceCreateNodeType ==
  ASSUME TypeOK, NEW after \in Assertions, ForceCreateNode(after)
  PROVE  TypeOK'
<1> PICK n : n = latestNodeCreated + 1
  OBVIOUS
<1> PICK p : p = latestConfirmed
  OBVIOUS
<1> PICK gas : gas = after.gasUsed - afterState[p].gasUsed
  OBVIOUS
<1>1. p \in NodeNums /\ n \in NodeNums
  BY BoundAssumption DEF TypeOK, ForceCreateNode, NodeNums
<1>2. after \in AssertedState /\ afterState[p] \in ExecutionState
  BY <1>1, InputAssumption DEF TypeOK
<1>3. gas \in Nat
  <2>1. after.gasUsed \in Nat /\ afterState[p].gasUsed \in Nat
    BY <1>2 DEF AssertedState, ExecutionState
  <2>2. after.gasUsed >= afterState[p].gasUsed
    BY DEF ForceCreateNode
  <2> QED
    BY <2>1, <2>2
<1>4. NodeDeadline(p, gas) \in Nat
  BY <1>1, <1>3, NodeDeadlineType
<1>5. deadlineBlock' \in [NodeNums -> Nat] /\ deadlineBlock'[n] \in Nat
  BY <1>1, <1>4 DEF TypeOK, ForceCreateNode
<1>6. noChildConfirmedBeforeBlock' \in [NodeNums -> Nat]
  BY <1>5 DEF TypeOK, ForceCreateNode
<1>7. afterState' \in [NodeNums -> ExecutionState]
  <2>1. [gasUsed |-> after.gasUsed, inboxCount |-> after.inboxCount,
         sendCount |-> after.sendCount, inboxMaxCount |-> sequencedCount] \in ExecutionState
    BY <1>2 DEF TypeOK, AssertedState, ExecutionState
  <2> QED
    BY <2>1 DEF TypeOK, ForceCreateNode
<1>8. /\ latestNodeCreated' \in NodeNums /\ live' \subseteq NodeNums
      /\ prev' \in [NodeNums -> NodeNums] /\ latestChildNumber' \in [NodeNums -> NodeNums]
  BY <1>1 DEF TypeOK, ForceCreateNode
<1>9. /\ proposedBlock' \in [NodeNums -> Nat] /\ firstChildBlock' \in [NodeNums -> Nat]
      /\ delayedCount' \in Nat
  <2>1. block \in Nat /\ delayedCount + 1 \in Nat
    BY DEF TypeOK
  <2>2. proposedBlock' \in [NodeNums -> Nat] /\ delayedCount' \in Nat
    BY <2>1 DEF TypeOK, ForceCreateNode
  <2>3. firstChildBlock' \in [NodeNums -> Nat]
    BY <2>1 DEF TypeOK, ForceCreateNode
  <2> QED
    BY <2>2, <2>3
<1> QED
  BY <1>5, <1>6, <1>7, <1>8, <1>9 DEF TypeOK, ForceCreateNode, adminVars, stakerVars,
    zombieVars, fundVars

LEMMA ForceConfirmNodeType ==
  ASSUME TypeOK, NEW n \in NodeNums, ForceConfirmNode(n)
  PROVE  TypeOK'
<1>1. outboxCount' \in Int
  <2>1. afterState[n] \in ExecutionState /\ afterState[prev[n]] \in ExecutionState
    BY DEF TypeOK
  <2>2. SendsOf(n) \in Int
    BY <2>1 DEF SendsOf, ExecutionState
  <2> QED
    BY <2>2 DEF TypeOK, ForceConfirmNode
<1>2. firstUnresolvedNode' \in Nat
  BY DEF ForceConfirmNode, FirstUnresolvedAfter, NodeNums
<1> QED
  BY <1>1, <1>2 DEF TypeOK, ForceConfirmNode, DestroyNode, adminVars, nodeConsts, childVars,
    stakerVars, zombieVars, fundVars

LEMMA ShutdownForNitroType ==
  ASSUME TypeOK, NEW n \in NodeNums, NEW alternatives, NEW challenges,
         ShutdownForNitro(n, alternatives, challenges)
  PROVE  TypeOK'
<1>0. 0 \in NodeNums
  BY BoundAssumption DEF NodeNums
<1>1. withdrawable' \in [Accounts -> Nat]
  <2>1. PICK released :
          /\ released \subseteq Validators
          /\ withdrawable' = [a \in Accounts |->
               withdrawable[a] + (IF a \in released THEN amountStaked[a] ELSE 0)]
    BY DEF ShutdownForNitro, TypeOK
  <2>2. ASSUME NEW a \in Accounts
        PROVE  withdrawable[a] + (IF a \in released THEN amountStaked[a] ELSE 0) \in Nat
    BY <2>1 DEF TypeOK
  <2> QED
    BY <2>1, <2>2
<1>2. /\ currentChallenge' \in [Validators -> Challenges \cup {NoChallenge}]
      /\ amountStaked' \in [Validators -> Nat]
      /\ latestStakedNode' \in [Validators -> NodeNums]
      /\ stakerSet' \subseteq Validators /\ live' \subseteq NodeNums
  BY <1>0 DEF ShutdownForNitro, TypeOK
<1> QED
  BY <1>1, <1>2 DEF TypeOK, ShutdownForNitro, chainVars, nodeConsts, childVars, zombieVars,
    messageVars

\* Every call of the owner and every transaction keeps the types.
LEMMA AnyOwnerStepType == TypeOK /\ AnyOwnerStep => TypeOK'
  BY PauseStepType, ForceResolveChallengeType, ForceRefundStakerType, ForceCreateNodeType,
     ForceConfirmNodeType, ShutdownForNitroType DEF AnyOwnerStep

LEMMA RepairIsOwnerStep == RepairStep => AnyOwnerStep
  BY Zenon DEF RepairStep, AnyOwnerStep

LEMMA MigrateIsOwnerStep == MigrateStep => AnyOwnerStep
  BY DEF MigrateStep, AnyOwnerStep

LEMMA AdminTypeStep == TypeOK /\ [AdminNext]_adminSpecVars => TypeOK'
<1> SUFFICES ASSUME TypeOK, [AdminNext]_adminSpecVars PROVE TypeOK'
  OBVIOUS
<1>1. [Next]_vars \/ AnyOwnerStep
  BY RepairIsOwnerStep, MigrateIsOwnerStep DEF AdminNext, adminSpecVars
<1> QED
  BY <1>1, TypeStep, AnyOwnerStepType

\* Every variable keeps its type, whatever the owner and the validators call.
THEOREM AdminTypeCorrect == AdminSpec => []TypeOK
<1>1. AdminInit => TypeOK
  BY TypeInit DEF AdminInit
<1> QED
  BY <1>1, AdminTypeStep, PTL DEF AdminSpec

(***************************************************************************)
(* The owner takes nothing.                                                *)
(***************************************************************************)
LEMMA OwnerStepTakesNothing ==
  ASSUME TypeOK, AnyOwnerStep, NEW a \in Validators
  PROVE  amountStaked'[a] + withdrawable'[a] >= amountStaked[a] + withdrawable[a]
<1>0. /\ a \in Accounts
      /\ amountStaked[a] \in Nat /\ withdrawable[a] \in Nat
      /\ amountStaked \in [Validators -> Nat] /\ withdrawable \in [Accounts -> Nat]
  BY DEF TypeOK, Accounts
<1>1. CASE UNCHANGED <<amountStaked, withdrawable>>
  BY <1>0, <1>1
<1>2. ASSUME NEW b \in Validators, ForceRefundStaker(b)
      PROVE  amountStaked'[a] + withdrawable'[a] >= amountStaked[a] + withdrawable[a]
  <2>1. /\ amountStaked' = [amountStaked EXCEPT ![b] = 0]
        /\ withdrawable' = [withdrawable EXCEPT ![b] = @ + amountStaked[b]]
    BY <1>2 DEF ForceRefundStaker, RefundStake, IncreaseWithdrawable
  <2>2. CASE a = b
    BY <1>0, <2>1, <2>2
  <2>3. CASE a # b
    BY <1>0, <2>1, <2>3
  <2> QED
    BY <2>2, <2>3
<1>3. ASSUME NEW n \in NodeNums, NEW alternatives, NEW challenges,
             ShutdownForNitro(n, alternatives, challenges)
      PROVE  amountStaked'[a] + withdrawable'[a] >= amountStaked[a] + withdrawable[a]
  <2>1. PICK released :
          /\ withdrawable' = [b \in Accounts |->
               withdrawable[b] + (IF b \in released THEN amountStaked[b] ELSE 0)]
          /\ amountStaked' = [b \in Validators |-> IF b \in released THEN 0 ELSE amountStaked[b]]
    BY <1>3 DEF ShutdownForNitro
  <2> QED
    BY <1>0, <2>1
<1> QED
  BY <1>1, <1>2, <1>3 DEF AnyOwnerStep, PauseStep, Pause, Resume, UndoShutdownForNitro,
    ForceResolveChallenge, ForceCreateNode, ForceConfirmNode, stakerVars, fundVars

\* Between f and h on V, and g and k on A, what R had in f went to R in k.
Moved(V, A, R, f, g, h, k) ==
  /\ \A x \in R : h[x] = 0 /\ k[x] = g[x] + f[x]
  /\ \A x \in V \ R : h[x] = f[x]
  /\ \A x \in A \ R : k[x] = g[x]

\* What is taken from one map and added to the other leaves the sum of both.
LEMMA SumTransfer ==
  ASSUME NEW V, NEW A, IsFiniteSet(V), IsFiniteSet(A), V \subseteq A,
         NEW f \in [V -> Int], NEW g \in [A -> Int], NEW R \in SUBSET V,
         NEW h \in [V -> Int], NEW k \in [A -> Int], Moved(V, A, R, f, g, h, k)
  PROVE  SumFunctionOnSet(h, V) + SumFunctionOnSet(k, A)
           = SumFunctionOnSet(f, V) + SumFunctionOnSet(g, A)
<1> DEFINE F(r) == [x \in V |-> IF x \in r THEN 0 ELSE f[x]]
           G(r) == [x \in A |-> g[x] + (IF x \in r THEN f[x] ELSE 0)]
           Total(r) == SumFunctionOnSet(F(r), V) + SumFunctionOnSet(G(r), A)
           Fails == {n \in Nat : \E r \in SUBSET V : Cardinality(r) = n /\ Total(r) # Total({})}
<1>1. \A r \in SUBSET V : F(r) \in [V -> Int] /\ G(r) \in [A -> Int]
  OBVIOUS
<1>2. F({}) = f /\ G({}) = g
  OBVIOUS
<1>3. \A r \in SUBSET V : Cardinality(r) \in Nat
  BY FS_Subset, FS_CardinalityType
<1>4. ASSUME NEW r \in SUBSET V, NEW x \in r
      PROVE  Total(r) = Total(r \ {x})
  <2> DEFINE t == r \ {x}
  <2>1. /\ x \in V /\ x \in A /\ f[x] \in Int /\ g[x] \in Int
        /\ F(r)[x] = 0 /\ F(t)[x] = f[x] /\ G(r)[x] = g[x] + f[x] /\ G(t)[x] = g[x]
    OBVIOUS
  <2>2. /\ \A y \in V \ {x} : F(r)[y] = F(t)[y]
        /\ \A y \in A \ {x} : G(r)[y] = G(t)[y]
    OBVIOUS
  <2>3. t \in SUBSET V
    OBVIOUS
  <2> HIDE DEF F, G, t
  <2>4. F(r) \in [V -> Int] /\ G(r) \in [A -> Int] /\ F(t) \in [V -> Int] /\ G(t) \in [A -> Int]
    BY <1>1, <2>3, Zenon
  <2>5. /\ SumFunctionOnSet(F(t), V) \in Int
        /\ SumFunctionOnSet(F(r), V) = SumFunctionOnSet(F(t), V) + (F(r)[x] - F(t)[x])
    <3>1. \A p, q \in [V -> Int] : (\A y \in V \ {x} : p[y] = q[y]) =>
            /\ SumFunctionOnSet(q, V) \in Int
            /\ SumFunctionOnSet(p, V) = SumFunctionOnSet(q, V) + (p[x] - q[x])
      BY <2>1, SumChange
    <3> QED
      BY ONLY <2>2, <2>4, <3>1, Zenon
  <2>6. /\ SumFunctionOnSet(G(t), A) \in Int
        /\ SumFunctionOnSet(G(r), A) = SumFunctionOnSet(G(t), A) + (G(r)[x] - G(t)[x])
    <3>1. \A p, q \in [A -> Int] : (\A y \in A \ {x} : p[y] = q[y]) =>
            /\ SumFunctionOnSet(q, A) \in Int
            /\ SumFunctionOnSet(p, A) = SumFunctionOnSet(q, A) + (p[x] - q[x])
      BY <2>1, SumChange
    <3> QED
      BY ONLY <2>2, <2>4, <3>1, Zenon
  <2>7. Total(r) = Total(t)
    BY <2>1, <2>5, <2>6
  <2> QED
    BY <2>7 DEF t
<1> HIDE DEF Total
<1>5. Fails = {}
  <2> SUFFICES ASSUME Fails # {} PROVE FALSE
    OBVIOUS
  <2>1. PICK n \in Fails : \A m \in Fails : n <= m
    <3> HIDE DEF Fails
    <3>1. Fails \subseteq Nat
      BY DEF Fails
    <3> QED
      BY <3>1, LeastNumber
  <2>2. PICK r \in SUBSET V : Cardinality(r) = n /\ Total(r) # Total({})
    BY <2>1
  <2>3. PICK x \in r : TRUE
    BY <2>2
  <2>4. Total(r) = Total(r \ {x})
    BY <1>4
  <2>5. /\ r \ {x} \in SUBSET V
        /\ Cardinality(r \ {x}) \in Nat /\ Cardinality(r \ {x}) < n
    BY <2>2, OneLess
  <2> QED
    BY <2>1, <2>2, <2>4, <2>5
<1>6. Total(R) = Total({})
  BY <1>3, <1>5
<1>7. F(R) = h /\ G(R) = k
  BY DEF Moved
<1> HIDE DEF F, G
<1> QED
  BY <1>2, <1>6, <1>7, Zenon DEF Total

\* forceRefundStaker moves the stake to what the staker may withdraw.
LEMMA RefundMoves ==
  ASSUME TypeOK, TypeOK', OnlyStakersHaveStake, NEW a \in Validators, ForceRefundStaker(a)
  PROVE  Staked' + Owed' = Staked + Owed /\ UNCHANGED balance /\ OnlyStakersHaveStake'
<1>1. /\ a \in Accounts /\ amountStaked[a] \in Nat /\ withdrawable[a] \in Nat
      /\ amountStaked \in [Validators -> Nat] /\ withdrawable \in [Accounts -> Nat]
  BY FundTypes
<1>2. /\ amountStaked'[a] = 0
      /\ \A b \in Validators \ {a} : amountStaked'[b] = amountStaked[b]
      /\ withdrawable'[a] = withdrawable[a] + amountStaked[a]
      /\ \A b \in Accounts \ {a} : withdrawable'[b] = withdrawable[b]
      /\ UNCHANGED balance /\ stakerSet' = stakerSet \ {a}
  BY <1>1 DEF ForceRefundStaker, RefundStake, IncreaseWithdrawable
<1>3. Staked \in Int /\ Staked' = Staked + (amountStaked'[a] - amountStaked[a])
  BY <1>2, StakedChange
<1>4. Owed \in Int /\ Owed' = Owed + (withdrawable'[a] - withdrawable[a])
  BY <1>1, <1>2, OwedChange
<1>5. Staked' + Owed' = Staked + Owed
  BY <1>1, <1>2, <1>3, <1>4
<1>6. OnlyStakersHaveStake'
  BY <1>2 DEF OnlyStakersHaveStake
<1> QED
  BY <1>2, <1>5, <1>6

\* shutdownForNitro moves the stakes of all that it withdraws.
LEMMA ShutdownMoves ==
  ASSUME TypeOK, TypeOK', OnlyStakersHaveStake, OnlyStakersChallenged,
         NEW n \in NodeNums, NEW alternatives, NEW challenges,
         ShutdownForNitro(n, alternatives, challenges)
  PROVE  /\ Staked' + Owed' = Staked + Owed /\ UNCHANGED balance
         /\ OnlyStakersHaveStake' /\ OnlyStakersChallenged'
<1>1. PICK released, cleared :
        /\ released \subseteq stakerSet
        /\ withdrawable' = [b \in Accounts |->
             withdrawable[b] + (IF b \in released THEN amountStaked[b] ELSE 0)]
        /\ amountStaked' = [b \in Validators |-> IF b \in released THEN 0 ELSE amountStaked[b]]
        /\ currentChallenge' = [a \in Validators |->
             IF a \in cleared \cup released THEN NoChallenge ELSE currentChallenge[a]]
        /\ stakerSet' = stakerSet \ released
        /\ UNCHANGED balance
  BY DEF ShutdownForNitro
<1>2. /\ released \in SUBSET Validators
      /\ IsFiniteSet(Validators) /\ IsFiniteSet(Accounts) /\ Validators \subseteq Accounts
      /\ amountStaked \in [Validators -> Int] /\ withdrawable \in [Accounts -> Int]
  BY <1>1, FundTypes DEF TypeOK
<1>3. Staked' + Owed' = Staked + Owed
  <2>1. PICK f, g, h, k : /\ f = amountStaked /\ g = withdrawable
                          /\ h = amountStaked' /\ k = withdrawable'
    OBVIOUS
  <2>2. /\ f \in [Validators -> Int] /\ g \in [Accounts -> Int]
        /\ h \in [Validators -> Int] /\ k \in [Accounts -> Int]
        /\ Moved(Validators, Accounts, released, f, g, h, k)
    BY <1>1, <1>2, <2>1 DEF Moved
  <2>3. SumFunctionOnSet(h, Validators) + SumFunctionOnSet(k, Accounts)
          = SumFunctionOnSet(f, Validators) + SumFunctionOnSet(g, Accounts)
    BY ONLY <1>2, <2>2, SumTransfer
  <2> QED
    BY <2>1, <2>3 DEF Staked, Owed
<1>4. OnlyStakersHaveStake' /\ OnlyStakersChallenged'
  BY <1>1 DEF OnlyStakersHaveStake, OnlyStakersChallenged
<1> QED
  BY <1>1, <1>3, <1>4

\* No transaction leaves a validator in a challenge that is not a staker.
LEMMA ChallengedStep ==
  ASSUME TypeOK, OnlyStakersChallenged, [Next]_vars
  PROVE  OnlyStakersChallenged'
<1>0. currentChallenge \in [Validators -> Challenges \cup {NoChallenge}]
      /\ stakerSet \subseteq Validators
  BY DEF TypeOK
<1>1. CASE UNCHANGED <<stakerSet, currentChallenge>>
  BY <1>1 DEF OnlyStakersChallenged
<1>2. ASSUME NEW a \in Validators,
             \/ \E amount \in Amounts : NewStake(a, amount)
             \/ ReturnOldDeposit(a)
      PROVE  OnlyStakersChallenged'
  BY <1>0, <1>2 DEF NewStake, ReturnOldDeposit, ReturnRequirements, UnchallengedStaker,
    OnlyStakersChallenged
<1>3. ASSUME NEW w \in Validators, NEW l \in Validators, SettleChallenge(w, l)
      PROVE  OnlyStakersChallenged'
  BY <1>0, <1>3 DEF SettleChallenge, OnlyStakersChallenged
<1>4. ASSUME NEW a1 \in stakerSet, NEW a2 \in stakerSet, NEW n1 \in live, NEW n2 \in live,
             CreateChallenge(a1, a2, n1, n2)
      PROVE  OnlyStakersChallenged'
  <2>1. PICK c : /\ currentChallenge' = [currentChallenge EXCEPT ![a1] = c, ![a2] = c]
                 /\ UNCHANGED stakerSet
    BY <1>4 DEF CreateChallenge
  <2> QED
    BY <1>0, <1>4, <2>1 DEF OnlyStakersChallenged
<1>5. CASE StakeStep
  BY <1>1, <1>2, <1>5 DEF StakeStep, AddToDeposit, ReduceDeposit, WithdrawStakerFunds,
    StakeOnExistingNode, StakeOnNewNode, stakerVars
<1>6. CASE ChallengeStep
  BY <1>0, <1>3, <1>4, <1>6 DEF ChallengeStep, ForfeitLateChallenge, CompleteChallenge
<1>7. CASE AdvanceBlock \/ SequencerBatch \/ ResolveStep \/ ZombieStep \/ UNCHANGED vars
  BY <1>1, <1>7 DEF AdvanceBlock, SequencerBatch, ResolveStep, ZombieStep, vars, ConfirmNextNode,
    RejectChildOfConfirmed, RejectOutright, RemoveZombie, RemoveOldZombies, stakerVars
<1> QED
  BY <1>5, <1>6, <1>7 DEF Next

\* What is owed is covered, whatever the owner and the validators call.
CoverInv == FundsCovered /\ OnlyStakersHaveStake /\ OnlyStakersChallenged

LEMMA CoverStep == TypeOK /\ TypeOK' /\ CoverInv /\ [AdminNext]_adminSpecVars => CoverInv'
<1> SUFFICES ASSUME TypeOK, TypeOK', CoverInv, [AdminNext]_adminSpecVars PROVE CoverInv'
  OBVIOUS
<1>1. /\ Staked \in Int /\ Owed \in Int /\ Staked' \in Int /\ Owed' \in Int
      /\ balance \in Int /\ balance >= Staked + Owed
      /\ OnlyStakersHaveStake /\ OnlyStakersChallenged
  BY SumsAreNumbers, FundTypes DEF CoverInv, FundsCovered, Staked, Owed
<1>2. ASSUME balance' >= Staked' + Owed', OnlyStakersHaveStake', OnlyStakersChallenged'
      PROVE  CoverInv'
  BY <1>2 DEF CoverInv, FundsCovered, Staked, Owed
<1>3. ASSUME Staked' + Owed' = Staked + Owed, UNCHANGED balance,
             OnlyStakersHaveStake', OnlyStakersChallenged'
      PROVE  CoverInv'
  <2>1. \A s, b \in Int : b >= s /\ balance' = b /\ Staked' + Owed' = s => balance' >= Staked' + Owed'
    OBVIOUS
  <2> QED
    BY <1>1, <1>2, <1>3, <2>1
<1>4. CASE [Next]_vars
  <2>1. PICK d \in Int : balance = Staked + Owed + d /\ d >= 0
    <3> DEFINE e == balance - (Staked + Owed)
    <3>1. e \in Int /\ balance = Staked + Owed + e /\ e >= 0
      BY <1>1
    <3> QED
      BY <3>1
  <2>2. OnlyStakersHaveStake' /\ balance' >= Staked' + Owed' + d
    BY <1>1, <1>4, <2>1, FundsMove
  <2>3. balance' \in Int
    BY DEF TypeOK
  <2>4. \A b, s, o \in Int : b >= s + o + d => b >= s + o
    BY <2>1
  <2>5. balance' >= Staked' + Owed'
    BY <1>1, <2>2, <2>3, <2>4, Zenon
  <2> QED
    BY <1>1, <1>2, <1>4, <2>2, <2>5, ChallengedStep
<1>5. CASE UNCHANGED <<amountStaked, withdrawable, balance, stakerSet, currentChallenge>>
  BY <1>5 DEF CoverInv, FundsCovered, OnlyStakersHaveStake, OnlyStakersChallenged
<1>6. ASSUME NEW a \in Validators, NEW b \in Validators, ForceResolveChallenge(a, b)
      PROVE  CoverInv'
  BY <1>6 DEF ForceResolveChallenge, ClearChallenges, fundVars, TypeOK, CoverInv, FundsCovered,
    OnlyStakersHaveStake, OnlyStakersChallenged
<1>7. ASSUME NEW a \in Validators, ForceRefundStaker(a) PROVE CoverInv'
  <2>1. OnlyStakersChallenged'
    BY <1>1, <1>7 DEF ForceRefundStaker, OnlyStakersChallenged, TypeOK
  <2> QED
    BY <1>1, <1>3, <1>7, <2>1, RefundMoves
<1>8. ASSUME NEW n \in NodeNums, NEW alternatives, NEW challenges,
             ShutdownForNitro(n, alternatives, challenges)
      PROVE  CoverInv'
  BY <1>1, <1>3, <1>8, ShutdownMoves
<1>9. CASE AnyOwnerStep
  BY <1>5, <1>6, <1>7, <1>8, <1>9 DEF AnyOwnerStep, PauseStep, Pause, Resume,
    UndoShutdownForNitro, ForceCreateNode, ForceConfirmNode, stakerVars, fundVars
<1> QED
  BY <1>4, <1>9, RepairIsOwnerStep, MigrateIsOwnerStep DEF AdminNext, adminSpecVars

\* No call of the owner lowers what a validator has staked or may withdraw:
\* forceRefundStaker and shutdownForNitro return stakes in full.  And the
\* contract can pay everybody after every step, for an owner who calls
\* anything at any time as well.
THEOREM OwnerTakesNothingHolds == AdminSpec => OwnerTakesNothing
<1>1. AdminInit => TypeOK /\ CoverInv
  <2> SUFFICES ASSUME AdminInit PROVE TypeOK /\ CoverInv
    OBVIOUS
  <2>1. TypeOK /\ FundsInv
    BY TypeInit, FundsInit DEF AdminInit
  <2>2. balance \in Int
    BY <2>1, FundTypes
  <2>3. OnlyStakersChallenged
    BY DEF AdminInit, Init, OnlyStakersChallenged
  <2> QED
    BY <2>1, <2>2, <2>3 DEF CoverInv, FundsInv, FundsConserved, FundsCovered
<1>2. TypeOK /\ CoverInv /\ [AdminNext]_adminSpecVars => TypeOK' /\ CoverInv'
  BY AdminTypeStep, CoverStep
<1>3. TypeOK /\ CoverInv /\ CoverInv' =>
        [/\ AnyOwnerStep => \A a \in Validators :
              amountStaked'[a] + withdrawable'[a] >= amountStaked[a] + withdrawable[a]
         /\ FundsCovered']_adminSpecVars
  BY OwnerStepTakesNothing DEF CoverInv
<1> QED
  BY <1>1, <1>2, <1>3, PTL DEF AdminSpec, OwnerTakesNothing

(***************************************************************************)
(* The tree under repairs and in the migration.                            *)
(***************************************************************************)

\* Nobody is staked on a node that has not been created, and it has no parent.
NothingAhead ==
  \A n \in NodeNums : n > latestNodeCreated => stakers[n] = {} /\ prev[n] = 0

LEMMA NothingAheadStep == TypeOK /\ TreeInv /\ NothingAhead /\ [Next]_vars => NothingAhead'
<1> SUFFICES ASSUME TypeOK, TreeInv, NothingAhead, [Next]_vars PROVE NothingAhead'
  OBVIOUS
<1>0. /\ latestNodeCreated \in Nat /\ NodeNums \subseteq Nat
      /\ stakers \in [NodeNums -> SUBSET Validators] /\ prev \in [NodeNums -> NodeNums]
  BY Numbers DEF TypeOK, NodeNums, TreeInv
<1>1. CASE UNCHANGED <<stakers, prev, latestNodeCreated>>
  BY <1>1 DEF NothingAhead
<1>2. ASSUME NEW a \in Validators, NEW after \in Assertions, StakeOnNewNode(a, after)
      PROVE  NothingAhead'
  BY <1>0, <1>2 DEF StakeOnNewNode, NothingAhead
<1>3. ASSUME NEW a \in Validators, NEW n \in NodeNums, StakeOnExistingNode(a, n)
      PROVE  NothingAhead'
  BY <1>0, <1>3 DEF StakeOnExistingNode, Unresolved, chainVars, nodeConsts, NothingAhead
<1>4. ASSUME NEW z \in Validators, RemoveZombie(z) PROVE NothingAhead'
  <2>1. /\ UNCHANGED <<latestNodeCreated, prev>>
        /\ \A n \in NodeNums : stakers'[n] \subseteq stakers[n]
    BY <1>0, <1>4 DEF RemoveZombie, chainVars, nodeConsts
  <2> QED
    BY <2>1 DEF NothingAhead
<1>5. CASE StakeStep
  BY <1>1, <1>2, <1>3, <1>5 DEF StakeStep, NewStake, AddToDeposit, ReduceDeposit,
    ReturnOldDeposit, WithdrawStakerFunds, chainVars, nodeConsts
<1>6. CASE ResolveStep
  BY <1>1, <1>6 DEF ResolveStep, ConfirmNextNode, RejectChildOfConfirmed, RejectOutright,
    nodeConsts
<1>7. CASE ChallengeStep \/ AdvanceBlock \/ SequencerBatch \/ UNCHANGED vars
  BY <1>1, <1>7 DEF ChallengeStep, CreateChallenge, ForfeitLateChallenge, CompleteChallenge,
    AdvanceBlock, SequencerBatch, vars, chainVars, nodeConsts
<1>8. CASE ZombieStep
  BY <1>1, <1>4, <1>8 DEF ZombieStep, RemoveOldZombies, chainVars, nodeConsts
<1> QED
  BY <1>5, <1>6, <1>7, <1>8 DEF Next

\* The challenge that the owner resolves is one of the two it names, and no
\* other involves them.
LEMMA RepairResolve ==
  ASSUME TypeOK, TreeInv, NEW a \in Validators, NEW b \in Validators,
         ForceResolveChallenge(a, b)
  PROVE  TreeInv'
<1> USE DEF chainVars, nodeConsts, childVars, zombieVars
<1>1. /\ a # b /\ currentChallenge[a] # NoChallenge
      /\ currentChallenge[a] = currentChallenge[b]
      /\ currentChallenge' = [currentChallenge EXCEPT ![a] = NoChallenge, ![b] = NoChallenge]
      /\ UNCHANGED <<chainVars, live, prev, latestChildNumber, stakers, stakerSet,
                     latestStakedNode, zombieVars>>
  BY DEF ForceResolveChallenge, ClearChallenges
<1>2. Unresolved' = Unresolved
  BY <1>1 DEF Unresolved
<1>3. NodesInPlace' /\ ChildLinks' /\ SiblingsInPlace'
  BY <1>1, <1>2 DEF TreeInv, NodesInPlace, ChildLinks, SiblingsInPlace
<1>4. \A x : Position(x)' = Position(x)
  BY <1>1 DEF Position
<1>5. StakeChain' /\ StakersDescendFromConfirmed'
  BY <1>1, <1>2, <1>4 DEF TreeInv, StakeChain, StakersDescendFromConfirmed
<1>6. /\ currentChallenge'[a] = NoChallenge /\ currentChallenge'[b] = NoChallenge
      /\ \A x \in Validators \ {a, b} : currentChallenge'[x] = currentChallenge[x]
  BY <1>1 DEF TypeOK
<1>7. {a, b} = {currentChallenge[a].asserter, currentChallenge[a].challenger}
  BY <1>1 DEF TreeInv, ChallengesMatched
<1>8. ASSUME NEW x \in Validators \ {a, b}, currentChallenge[x] # NoChallenge
      PROVE  /\ currentChallenge[x].asserter \in Validators \ {a, b}
             /\ currentChallenge[x].challenger \in Validators \ {a, b}
  <2>1. /\ currentChallenge[x].asserter \in Validators
        /\ currentChallenge[x].challenger \in Validators
        /\ x \in {currentChallenge[x].asserter, currentChallenge[x].challenger}
        /\ currentChallenge[currentChallenge[x].asserter] = currentChallenge[x]
        /\ currentChallenge[currentChallenge[x].challenger] = currentChallenge[x]
    BY <1>8 DEF TreeInv, ChallengesMatched, TypeOK
  <2>2. currentChallenge[x] # currentChallenge[a]
    BY <1>7, <1>8, <2>1
  <2> QED
    BY <1>1, <2>1, <2>2
<1>9. ChallengesMatched'
  <2>1. \A x \in Validators : currentChallenge'[x] # NoChallenge =>
          /\ x \in Validators \ {a, b}
          /\ currentChallenge'[x] = currentChallenge[x]
          /\ currentChallenge'[currentChallenge[x].asserter]
               = currentChallenge[currentChallenge[x].asserter]
          /\ currentChallenge'[currentChallenge[x].challenger]
               = currentChallenge[currentChallenge[x].challenger]
    BY <1>6, <1>8
  <2>2. UNCHANGED <<prev, stakers, stakerSet>>
    BY <1>1
  <2> QED
    BY <1>2, <2>1, <2>2 DEF TreeInv, ChallengesMatched
<1> QED
  BY <1>3, <1>5, <1>9 DEF TreeInv

\* A staker that is in no challenge becomes a zombie where it stands.
LEMMA RepairRefund ==
  ASSUME TypeOK, TreeInv, NEW a \in Validators,
         currentChallenge[a] = NoChallenge, ForceRefundStaker(a)
  PROVE  TreeInv'
<1> USE DEF chainVars, nodeConsts, childVars
<1>1. /\ a \in stakerSet
      /\ zombies' = zombies \cup {a}
      /\ zombieNode' = [zombieNode EXCEPT ![a] = latestStakedNode[a]]
      /\ stakerSet' = stakerSet \ {a}
      /\ latestStakedNode' = [latestStakedNode EXCEPT ![a] = 0]
  BY DEF ForceRefundStaker, TurnIntoZombie
<1>2. UNCHANGED <<chainVars, live, prev, latestChildNumber, stakers, currentChallenge>>
  BY DEF ForceRefundStaker, TypeOK
<1>3. Unresolved' = Unresolved
  BY <1>2 DEF Unresolved
<1>4. NodesInPlace' /\ ChildLinks' /\ SiblingsInPlace'
  BY <1>2, <1>3 DEF TreeInv, NodesInPlace, ChildLinks, SiblingsInPlace
<1>5. /\ a \notin zombies
      /\ stakerSet' \cup zombies' = stakerSet \cup zombies
      /\ stakerSet' \cap zombies' = {}
      /\ \A b \in stakerSet \cup zombies : b \in Validators
  BY <1>1 DEF TreeInv, StakeChain, TypeOK
<1>6. \A b \in Validators : Position(b)' = Position(b)
  BY <1>1, <1>5 DEF Position, TypeOK
<1>7. StakeChain'
  BY <1>2, <1>3, <1>5, <1>6 DEF TreeInv, StakeChain
<1>8. StakersDescendFromConfirmed'
  <2>1. \A b \in stakerSet' : b \in stakerSet /\ latestStakedNode'[b] = latestStakedNode[b]
    BY <1>1 DEF TypeOK
  <2> QED
    BY <1>2, <1>3, <2>1 DEF TreeInv, StakersDescendFromConfirmed
<1>9. ChallengesMatched'
  <2>1. \A b \in Validators : currentChallenge[b] # NoChallenge =>
          currentChallenge[b].asserter # a /\ currentChallenge[b].challenger # a
    BY DEF TreeInv, ChallengesMatched
  <2>2. \A b \in Validators : currentChallenge[b] # NoChallenge =>
          {currentChallenge[b].asserter, currentChallenge[b].challenger} \subseteq stakerSet'
    BY <1>1, <2>1 DEF TreeInv, ChallengesMatched
  <2> QED
    BY <1>2, <1>3, <2>2 DEF TreeInv, ChallengesMatched
<1> QED
  BY <1>4, <1>7, <1>8, <1>9 DEF TreeInv

\* A node without stakers is added after the latest confirmed one.
LEMMA RepairCreate ==
  ASSUME TypeOK, TreeInv, NothingAhead, NEW after \in Assertions, ForceCreateNode(after)
  PROVE  TreeInv' /\ NothingAhead'
<1> DEFINE p == latestConfirmed
           n == latestNodeCreated + 1
<1>1. /\ n <= MaxNodes
      /\ latestNodeCreated' = n
      /\ live' = live \cup {n}
      /\ prev' = [prev EXCEPT ![n] = p]
      /\ latestChildNumber' = [latestChildNumber EXCEPT ![p] = n]
      /\ UNCHANGED <<latestConfirmed, firstUnresolvedNode, stakers, stakerSet,
                     latestStakedNode, currentChallenge, zombies, zombieNode>>
  BY DEF ForceCreateNode, stakerVars, zombieVars
<1>2. /\ p \in Nat /\ firstUnresolvedNode \in Nat /\ latestNodeCreated \in Nat
      /\ p < firstUnresolvedNode /\ firstUnresolvedNode <= n
      /\ \A m : m \in Unresolved <=> m \in Nat /\ firstUnresolvedNode <= m /\ m < n
      /\ \A m \in Unresolved : m \in NodeNums /\ prev[m] \in Nat /\ prev[m] < m
  BY Numbers DEF TreeInv, NodesInPlace
<1>3. /\ n \in NodeNums /\ n \in Nat /\ n \notin Unresolved
      /\ p \in NodeNums /\ p < n
  BY <1>1, <1>2, BoundAssumption DEF NodeNums
<1>4. stakers[n] = {}
  BY <1>2, <1>3 DEF NothingAhead
<1> HIDE DEF n, p
<1>5. Unresolved' = Unresolved \cup {n}
  <2>1. \A m : m \in Unresolved' <=> m \in Nat /\ firstUnresolvedNode <= m /\ m <= n
    BY <1>1, <1>2, <1>3 DEF Unresolved
  <2> QED
    BY <1>2, <1>3, <2>1
<1>6. /\ prev'[n] = p /\ latestChildNumber'[p] = n
      /\ \A m \in NodeNums : m # n => prev'[m] = prev[m]
      /\ \A m \in NodeNums : m # p => latestChildNumber'[m] = latestChildNumber[m]
  BY <1>1, <1>3 DEF TypeOK
<1>7. \A m \in 1 .. latestNodeCreated : m \in NodeNums /\ m # n /\ m < n /\ prev[m] \in NodeNums
  <2>1. \A m \in 1 .. latestNodeCreated : m \in NodeNums /\ m < n /\ m # n
    BY <1>2, <1>3, BoundAssumption DEF NodeNums, n
  <2>2. \A m \in NodeNums : prev[m] \in NodeNums
    BY DEF TypeOK
  <2> QED
    BY <2>1, <2>2
<1>8. \A m : m \in 1 .. n <=> m = n \/ m \in 1 .. latestNodeCreated
  BY <1>2 DEF n
<1>9. NodesInPlace'
  BY <1>1, <1>2, <1>3, <1>5, <1>6, <1>7, <1>8 DEF TreeInv, NodesInPlace, n
<1>10. ChildLinks'
  <2>1. \A q \in NodeNums : latestChildNumber'[q] # 0 =>
          /\ latestChildNumber'[q] \in 1 .. n
          /\ prev'[latestChildNumber'[q]] = q
    BY <1>6, <1>7, <1>8 DEF TreeInv, ChildLinks
  <2>2. \A m \in 1 .. n : m <= latestChildNumber'[prev'[m]]
    <3>1. ASSUME NEW m \in 1 .. latestNodeCreated PROVE m <= latestChildNumber'[prev'[m]]
      <4>1. m <= latestChildNumber[prev[m]] /\ prev'[m] = prev[m]
        BY <1>6, <1>7 DEF TreeInv, ChildLinks
      <4>2. CASE prev[m] = p
        BY <1>3, <1>6, <1>7, <4>1, <4>2
      <4>3. CASE prev[m] # p
        BY <1>6, <1>7, <4>1, <4>3
      <4> QED
        BY <4>2, <4>3
    <3> QED
      BY <1>3, <1>6, <1>8, <3>1
  <2> QED
    BY <1>1, <2>1, <2>2 DEF ChildLinks
<1>11. SiblingsInPlace'
  <2>1. latestChildNumber[n] = 0
    BY <1>3, <1>7 DEF TreeInv, NodesInPlace, ChildLinks
  <2>2. {latestConfirmed} \cup Unresolved \subseteq NodeNums
    BY <1>2 DEF TypeOK
  <2> QED
    BY <1>1, <1>3, <1>5, <1>6, <2>1, <2>2 DEF TreeInv, SiblingsInPlace
<1>12. \A m \in Unresolved : m \in NodeNums /\ m # n /\ prev'[m] = prev[m] /\ prev[m] # n
  BY <1>2, <1>3, <1>6
<1>13. \A b : Position(b)' = Position(b)
  BY <1>1 DEF Position
<1>14. StakeChain'
  <2>1. /\ stakerSet' \cap zombies' = {}
        /\ \A m \in Unresolved' : stakers'[m] \subseteq (stakerSet \cup zombies)'
    BY <1>1, <1>4, <1>5 DEF TreeInv, StakeChain
  <2>2. ASSUME NEW b \in stakerSet \cup zombies
        PROVE  /\ Position(b)' <= n
               /\ Position(b)' \in Unresolved' => b \in stakers[Position(b)']
               /\ \A m \in Unresolved' : b \in stakers[m] =>
                    /\ m <= Position(b)'
                    /\ prev'[m] \in Unresolved' => b \in stakers[prev'[m]]
                    /\ \A k \in Unresolved' : k < m /\ b \in stakers[k] => k <= prev'[m]
    <3>1. Position(b) \in Nat /\ Position(b) <= latestNodeCreated
      <4>1. Position(b) \in NodeNums /\ Position(b) <= latestNodeCreated
        BY DEF TreeInv, StakeChain, Position, TypeOK
      <4> QED
        BY <4>1 DEF NodeNums
    <3>2. Position(b) # n /\ Position(b) <= n
      BY <1>2, <3>1 DEF n
    <3> QED
      BY <1>4, <1>5, <1>12, <1>13, <3>2 DEF TreeInv, StakeChain
  <2> QED
    BY <1>1, <2>1, <2>2, Zenon DEF StakeChain
<1>15. StakersDescendFromConfirmed'
  BY <1>1, <1>4, <1>5, <1>12 DEF TreeInv, StakersDescendFromConfirmed
<1>16. ChallengesMatched'
  BY <1>1, <1>5, <1>12 DEF TreeInv, ChallengesMatched
<1>17. NothingAhead'
  BY <1>1, <1>2, <1>6 DEF NothingAhead, NodeNums, n
<1> QED
  BY <1>9, <1>10, <1>11, <1>14, <1>15, <1>16, <1>17 DEF TreeInv

\* A node is confirmed over others, when nobody has a stake: the unresolved
\* nodes that are left are the ones after it, on which the zombies that are
\* left still lie on paths.
LEMMA RepairConfirm ==
  ASSUME TypeOK, TreeInv, NEW n \in NodeNums, stakerSet = {}, n > latestConfirmed,
         ForceConfirmNode(n)
  PROVE  TreeInv'
<1>1. /\ n \in live
      /\ live' = live \ {latestConfirmed}
      /\ latestConfirmed' = n
      /\ firstUnresolvedNode' = n + 1
      /\ UNCHANGED <<latestNodeCreated, prev, latestChildNumber, stakers, stakerSet,
                     latestStakedNode, currentChallenge, zombies, zombieNode>>
  BY DEF ForceConfirmNode, DestroyNode, FirstUnresolvedAfter, nodeConsts, childVars,
    stakerVars, zombieVars
<1>2. n \in Unresolved
  BY <1>1 DEF TreeInv, NodesInPlace
<1>3. /\ latestConfirmed \in Nat /\ n \in Nat /\ latestNodeCreated \in Nat
      /\ latestConfirmed < n /\ n <= latestNodeCreated
      /\ \A m \in Unresolved : m \in NodeNums /\ m \in 1 .. latestNodeCreated
                               /\ prev[m] \in Nat /\ prev[m] < m
  BY <1>2, Numbers DEF TreeInv
<1>4. \A m : m \in Unresolved' <=> m \in Unresolved /\ n < m
  <2>1. \A m : m \in Unresolved' <=> m \in Nat /\ n + 1 <= m /\ m <= latestNodeCreated
    BY <1>1, <1>3 DEF Unresolved
  <2>2. \A m : m \in Unresolved <=>
                 m \in Nat /\ firstUnresolvedNode <= m /\ m <= latestNodeCreated
    BY Numbers DEF TreeInv
  <2>3. firstUnresolvedNode \in Nat
    BY DEF TypeOK
  <2> QED
    BY <1>2, <1>3, <2>1, <2>2, <2>3
<1>5. NodesInPlace'
  <2>1. live \subseteq Nat
    BY DEF TypeOK, NodeNums
  <2>2. \A m \in live' : m > n => m \in Unresolved'
    BY <1>1, <1>3, <1>4, <2>1 DEF TreeInv, NodesInPlace
  <2>3. {n} \cup Unresolved' \subseteq live'
    BY <1>1, <1>3, <1>4 DEF TreeInv, NodesInPlace
  <2> QED
    BY <1>1, <1>3, <2>2, <2>3 DEF TreeInv, NodesInPlace
<1>6. ChildLinks'
  BY <1>1 DEF TreeInv, ChildLinks
<1>7. SiblingsInPlace'
  <2> SUFFICES ASSUME NEW p \in {n} \cup Unresolved', latestChildNumber[p] # 0
               PROVE  latestChildNumber[p] \in live'
    BY <1>1 DEF SiblingsInPlace
  <2>1. p \in Unresolved /\ p \in NodeNums /\ p \in Nat /\ n <= p
    BY <1>2, <1>3, <1>4
  <2> PICK m : m = latestChildNumber[p]
    OBVIOUS
  <2>2. m \in 1 .. latestNodeCreated /\ prev[m] = p /\ prev[m] < m
    BY <2>1 DEF TreeInv, ChildLinks, NodesInPlace
  <2>3. m # latestConfirmed
    BY <1>3, <2>1, <2>2
  <2>4. m \in live
    BY <2>1 DEF TreeInv, SiblingsInPlace
  <2> QED
    BY <1>1, <2>3, <2>4
<1>8. \A b : Position(b)' = Position(b)
  BY <1>1 DEF Position
<1>9. StakeChain'
  <2>1. /\ stakerSet' \cap zombies' = {}
        /\ \A m \in Unresolved' : stakers'[m] \subseteq (stakerSet \cup zombies)'
    BY <1>1, <1>4 DEF TreeInv, StakeChain
  <2>2. ASSUME NEW b \in stakerSet \cup zombies
        PROVE  /\ Position(b)' <= latestNodeCreated
               /\ Position(b)' \in Unresolved' => b \in stakers[Position(b)']
               /\ \A m \in Unresolved' : b \in stakers[m] =>
                    /\ m <= Position(b)'
                    /\ prev[m] \in Unresolved' => b \in stakers[prev[m]]
                    /\ \A k \in Unresolved' : k < m /\ b \in stakers[k] => k <= prev[m]
    BY <1>4, <1>8 DEF TreeInv, StakeChain
  <2> QED
    BY <1>1, <2>1, <2>2, Zenon DEF StakeChain
<1>10. StakersDescendFromConfirmed' /\ ChallengesMatched'
  <2>1. \A a \in Validators : currentChallenge[a] = NoChallenge
    BY DEF TreeInv, ChallengesMatched
  <2> QED
    BY <1>1, <2>1 DEF StakersDescendFromConfirmed, ChallengesMatched
<1> QED
  BY <1>5, <1>6, <1>7, <1>9, <1>10 DEF TreeInv

\* The shutdown, where there is neither an alternative nor a challenge,
\* destroys no node and refunds nobody: all that changes is that the rollup
\* is paused and shut down.
LEMMA MigrationChangesNothing ==
  ASSUME TypeOK, TreeInv, NEW n \in NodeNums,
         ShutdownForNitro(n, FALSE, FALSE)
  PROVE  /\ UNCHANGED treeVars
         /\ UNCHANGED <<amountStaked, withdrawable, balance>>
         /\ latestConfirmed + 1 .. latestNodeCreated \subseteq live \cap PathTo(n)
         /\ \A a \in stakerSet : currentChallenge[a] = NoChallenge
<1> PICK above : above = latestConfirmed + 1 .. latestNodeCreated
  OBVIOUS
<1> PICK destroyed : destroyed = above \ PathTo(n)
  OBVIOUS
<1> PICK released : released = {a \in stakerSet : latestStakedNode[a] \notin live \ destroyed}
  OBVIOUS
<1> PICK inChall : inChall = {a \in stakerSet : currentChallenge[a] # NoChallenge}
  OBVIOUS
<1> PICK cleared :
      cleared = UNION {{currentChallenge[a].asserter, currentChallenge[a].challenger}
                         : a \in inChall}
  OBVIOUS
<1>1. /\ above \subseteq live
      /\ destroyed = {}
      /\ inChall = {}
      /\ live' = live \ destroyed
      /\ currentChallenge' = [a \in Validators |->
           IF a \in cleared \cup released THEN NoChallenge ELSE currentChallenge[a]]
      /\ withdrawable' = [a \in Accounts |->
           withdrawable[a] + (IF a \in released THEN amountStaked[a] ELSE 0)]
      /\ amountStaked' = [a \in Validators |-> IF a \in released THEN 0 ELSE amountStaked[a]]
      /\ latestStakedNode' =
           [a \in Validators |-> IF a \in released THEN 0 ELSE latestStakedNode[a]]
      /\ stakerSet' = stakerSet \ released
      /\ UNCHANGED <<chainVars, nodeConsts, childVars, stakers, zombieVars, balance>>
  BY DEF ShutdownForNitro
<1>2. released = {}
  BY <1>1 DEF TreeInv, NodesInPlace, StakersDescendFromConfirmed
<1>3. cleared = {}
  BY <1>1
<1>4. UNCHANGED <<currentChallenge, amountStaked, latestStakedNode>>
  <2>1. /\ currentChallenge = [a \in Validators |-> currentChallenge[a]]
        /\ amountStaked = [a \in Validators |-> amountStaked[a]]
        /\ latestStakedNode = [a \in Validators |-> latestStakedNode[a]]
    BY DEF TypeOK
  <2> QED
    BY <1>1, <1>2, <1>3, <2>1
<1>5. UNCHANGED withdrawable
  <2>1. withdrawable' = [a \in Accounts |-> withdrawable[a] + 0]
    BY <1>1, <1>2
  <2>2. /\ withdrawable = [a \in Accounts |-> withdrawable[a]]
        /\ \A a \in Accounts : withdrawable[a] + 0 = withdrawable[a]
    BY DEF TypeOK
  <2> QED
    BY <2>1, <2>2
<1>6. UNCHANGED <<stakerSet, live>>
  BY <1>1, <1>2
<1>7. above \subseteq PathTo(n)
  BY <1>1
<1> QED
  BY <1>1, <1>4, <1>5, <1>6, <1>7 DEF treeVars, nodeConsts, childVars

\* A repair conserves funds.
LEMMA RepairFunds ==
  ASSUME TypeOK, TypeOK', FundsInv, NEW a \in Validators, ForceRefundStaker(a)
  PROVE  FundsInv'
<1>1. Staked' + Owed' = Staked + Owed /\ UNCHANGED balance /\ OnlyStakersHaveStake'
  BY RefundMoves DEF FundsInv
<1>2. balance = Staked + Owed
  BY DEF FundsInv, FundsConserved, Staked, Owed
<1> QED
  BY <1>1, <1>2 DEF FundsInv, FundsConserved, Staked, Owed

\* What holds of the tree and the funds unless the owner calls anything at
\* any time
OrderInv == TreeInv /\ NothingAhead /\ FundsInv

LEMMA OrderUnchanged ==
  ASSUME OrderInv, UNCHANGED treeVars, UNCHANGED <<amountStaked, withdrawable, balance>>
  PROVE  OrderInv'
<1>1. TreeInv'
  BY TreeUnchanged DEF OrderInv
<1>2. NothingAhead'
  BY DEF OrderInv, NothingAhead, treeVars, chainVars
<1>3. FundsInv'
  BY DEF OrderInv, FundsInv, FundsConserved, OnlyStakersHaveStake, treeVars
<1> QED
  BY <1>1, <1>2, <1>3 DEF OrderInv

LEMMA RepairStepKeepsOrder == TypeOK /\ TypeOK' /\ OrderInv /\ RepairStep => OrderInv'
<1> SUFFICES ASSUME TypeOK, TypeOK', OrderInv, RepairStep PROVE OrderInv'
  OBVIOUS
<1>1. CASE PauseStep
  BY <1>1, OrderUnchanged DEF PauseStep, Pause, Resume, treeVars, chainVars, nodeConsts,
    childVars, stakerVars, zombieVars, fundVars
<1>2. ASSUME NEW a \in Validators, NEW b \in Validators, ForceResolveChallenge(a, b)
      PROVE  OrderInv'
  <2>1. /\ UNCHANGED <<amountStaked, withdrawable, balance, stakerSet>>
        /\ UNCHANGED <<stakers, prev, latestNodeCreated>>
    BY <1>2 DEF ForceResolveChallenge, fundVars, chainVars, nodeConsts
  <2>2. NothingAhead' /\ FundsInv'
    BY <2>1 DEF OrderInv, NothingAhead, FundsInv, FundsConserved, OnlyStakersHaveStake
  <2> QED
    BY <1>2, <2>2, RepairResolve DEF OrderInv
<1>3. ASSUME NEW a \in Validators, currentChallenge[a] = NoChallenge, ForceRefundStaker(a)
      PROVE  OrderInv'
  <2>1. NothingAhead'
    BY <1>3 DEF ForceRefundStaker, chainVars, nodeConsts, OrderInv, NothingAhead
  <2> QED
    BY <1>3, <2>1, RepairRefund, RepairFunds DEF OrderInv
<1>4. ASSUME NEW after \in Assertions, ForceCreateNode(after) PROVE OrderInv'
  <2>1. UNCHANGED <<amountStaked, withdrawable, balance, stakerSet>>
    BY <1>4 DEF ForceCreateNode, fundVars, stakerVars
  <2>2. FundsInv'
    BY <2>1 DEF OrderInv, FundsInv, FundsConserved, OnlyStakersHaveStake
  <2> QED
    BY <1>4, <2>2, RepairCreate DEF OrderInv
<1>5. ASSUME NEW n \in NodeNums, stakerSet = {}, n > latestConfirmed, ForceConfirmNode(n)
      PROVE  OrderInv'
  <2>1. /\ UNCHANGED <<amountStaked, withdrawable, balance, stakerSet>>
        /\ UNCHANGED <<stakers, prev, latestNodeCreated>>
    BY <1>5 DEF ForceConfirmNode, fundVars, stakerVars, nodeConsts
  <2>2. NothingAhead' /\ FundsInv'
    BY <2>1 DEF OrderInv, NothingAhead, FundsInv, FundsConserved, OnlyStakersHaveStake
  <2> QED
    BY <1>5, <2>2, RepairConfirm DEF OrderInv
<1> QED
  BY <1>1, <1>2, <1>3, <1>4, <1>5 DEF RepairStep

LEMMA AdminOrderStep ==
  /\ TypeOK /\ TypeOK'
  /\ owner # "any" => OrderInv
  /\ [AdminNext]_adminSpecVars
  => (owner # "any" => OrderInv)'
<1> SUFFICES ASSUME TypeOK, TypeOK', owner # "any" => OrderInv, [AdminNext]_adminSpecVars,
                    owner' # "any"
             PROVE  OrderInv'
  OBVIOUS
<1>1. owner' = owner /\ OrderInv
  BY DEF AdminNext, adminSpecVars
<1>2. CASE [Next]_vars
  BY <1>1, <1>2, TreeStep, NothingAheadStep, FundsStep DEF OrderInv
<1>3. CASE RepairStep
  BY <1>1, <1>3, RepairStepKeepsOrder
<1>4. CASE MigrateStep
  <2>1. UNCHANGED treeVars /\ UNCHANGED <<amountStaked, withdrawable, balance>>
    BY <1>1, <1>4, MigrationChangesNothing DEF OrderInv, MigrateStep
  <2> QED
    BY <1>1, <2>1, OrderUnchanged
<1> QED
  BY <1>1, <1>2, <1>3, <1>4 DEF AdminNext, adminSpecVars

\* The tree and the funds stay in order under repairs and in the migration.
THEOREM AdminKeepsOrder == AdminSpec => [](TypeOK /\ (owner # "any" => OrderInv))
<1>1. AdminInit => TypeOK /\ (owner # "any" => OrderInv)
  <2> SUFFICES ASSUME AdminInit PROVE TypeOK /\ OrderInv
    OBVIOUS
  <2>1. NothingAhead
    BY DEF AdminInit, Init, NothingAhead
  <2> QED
    BY <2>1, TypeInit, TreeInit, FundsInit DEF AdminInit, OrderInv
<1>2. /\ TypeOK /\ (owner # "any" => OrderInv)
      /\ [AdminNext]_adminSpecVars
      => TypeOK' /\ (owner # "any" => OrderInv)'
  BY AdminTypeStep, AdminOrderStep
<1> QED
  BY <1>1, <1>2, PTL DEF AdminSpec

\* After any repair of the kind the test makes the rollup is not stuck.
THEOREM RepairsDoNotWedge == AdminSpec => []RepairedNotStuck
<1>1. TypeOK /\ (owner # "any" => OrderInv) => RepairedNotStuck
  BY DEF OrderInv, TreeInv, NodesInPlace, SiblingsInPlace, RepairedNotStuck
<1> QED
  BY <1>1, AdminKeepsOrder, PTL

\* Repairs leave stakes on paths and challenges with two parties.
THEOREM RepairsKeepConsistency == AdminSpec => []RepairedConsistent
<1>1. TypeOK /\ (owner # "any" => OrderInv) => RepairedConsistent
  BY DEF OrderInv, TreeInv, RepairedConsistent
<1> QED
  BY <1>1, AdminKeepsOrder, PTL

\* The rollup holds what it owes, to the unit, under an owner who repairs it as
\* the repository's test does and one who shuts it down for the migration.
THEOREM RepairsConserveFunds == AdminSpec => [](owner # "any" => FundsConserved)
<1>1. TypeOK /\ (owner # "any" => OrderInv) => (owner # "any" => FundsConserved)
  BY DEF OrderInv, FundsInv
<1> QED
  BY <1>1, AdminKeepsOrder, PTL

(***************************************************************************)
(* The shutdown.  The path that it keeps is a recursive function; that     *)
(* there is one is shown up to each number in turn.                        *)
(***************************************************************************)
PathPart(f, p, c, n) == IF n <= c THEN {} ELSE {n} \cup f[p[n]]

LEMMA PathExists ==
  ASSUME NEW N \in Nat, NEW p \in [0 .. N -> 0 .. N], NEW c \in Nat,
         \A n \in 1 .. N : p[n] < n
  PROVE  \E f : f = [n \in 0 .. N |-> PathPart(f, p, c, n)]
<1> DEFINE Solves(g, k) == g = [n \in 0 .. k |-> PathPart(g, p, c, n)]
           Fails == {k \in 0 .. N : ~ \E g : Solves(g, k)}
<1>1. \E g : Solves(g, 0)
  <2> DEFINE h == [n \in 0 .. 0 |-> {}]
  <2>1. \A n \in 0 .. 0 : PathPart(h, p, c, n) = {}
    BY DEF PathPart
  <2>2. Solves(h, 0)
    BY <2>1
  <2> HIDE DEF Solves, h
  <2> QED
    BY <2>2
<1>2. ASSUME NEW k \in Nat, k + 1 <= N, NEW g, Solves(g, k) PROVE \E h : Solves(h, k + 1)
  <2> DEFINE h == [n \in 0 .. k + 1 |-> PathPart(g, p, c, n)]
  <2>1. ASSUME NEW n \in 0 .. k + 1, ~(n <= c) PROVE h[p[n]] = g[p[n]]
    <3>1. p[n] \in 0 .. k /\ p[n] \in 0 .. k + 1
      <4>1. n \in 1 .. N /\ n \in 0 .. N
        BY <1>2, <2>1
      <4>2. p[n] \in Nat /\ p[n] < n
        BY <4>1
      <4> QED
        BY <4>1, <4>2
    <3>2. h[p[n]] = PathPart(g, p, c, p[n])
      BY <3>1
    <3>3. g[p[n]] = PathPart(g, p, c, p[n])
      BY <1>2, <3>1
    <3> QED
      BY <3>2, <3>3
  <2>2. \A n \in 0 .. k + 1 : PathPart(h, p, c, n) = PathPart(g, p, c, n)
    <3> HIDE DEF h
    <3> QED
      BY <2>1 DEF PathPart
  <2>3. Solves(h, k + 1)
    <3>1. [n \in 0 .. k + 1 |-> PathPart(h, p, c, n)] = [n \in 0 .. k + 1 |-> PathPart(g, p, c, n)]
      <4> HIDE DEF h
      <4> QED
        BY <2>2
    <3> QED
      BY <3>1
  <2> HIDE DEF Solves, h
  <2> QED
    BY <2>3
<1>3. Fails = {}
  <2> SUFFICES ASSUME Fails # {} PROVE FALSE
    OBVIOUS
  <2> HIDE DEF Solves
  <2>0. Fails \subseteq Nat
    OBVIOUS
  <2>1. PICK n \in Fails : \A m \in Fails : n <= m
    <3> HIDE DEF Fails
    <3> QED
      BY <2>0, LeastNumber
  <2>2. n \in Nat /\ n # 0 /\ n <= N
    BY <1>1
  <2>3. n - 1 \in 0 .. N /\ n - 1 \in Nat /\ ~(n <= n - 1) /\ (n - 1) + 1 = n
    BY <2>2
  <2>4. n - 1 \notin Fails
    BY <2>1, <2>3
  <2>5. PICK g : Solves(g, n - 1)
    BY <2>3, <2>4
  <2>6. \E h : Solves(h, (n - 1) + 1)
    BY <1>2, <2>2, <2>3, <2>5
  <2> QED
    BY <2>3, <2>6
<1>4. \E g : Solves(g, N)
  <2> HIDE DEF Solves
  <2> QED
    BY <1>3
<1> QED
  BY <1>4

\* Nothing above a node is on the path to it.
LEMMA PathBelow ==
  ASSUME NEW N \in Nat, NEW p \in [0 .. N -> 0 .. N], NEW c \in Nat,
         \A n \in 1 .. N : p[n] < n,
         NEW f, \A n \in 0 .. N : f[n] = PathPart(f, p, c, n)
  PROVE  \A n \in 0 .. N : \A m \in f[n] : m \in Nat /\ m <= n
<1> DEFINE Fails == {n \in 0 .. N : \E m \in f[n] : ~(m \in Nat /\ m <= n)}
<1> SUFFICES ASSUME Fails # {} PROVE FALSE
  OBVIOUS
<1>0. Fails \subseteq Nat
  OBVIOUS
<1>1. PICK n \in Fails : \A m \in Fails : n <= m
  <2> HIDE DEF Fails
  <2> QED
    BY <1>0, LeastNumber
<1>2. PICK m \in f[n] : ~(m \in Nat /\ m <= n)
  BY <1>1
<1>3. n \in 0 .. N /\ n \in Nat
  BY <1>1
<1>4. ~(n <= c) /\ m \in f[p[n]]
  <2>1. f[n] = PathPart(f, p, c, n)
    BY <1>3
  <2>2. ~(n <= c)
    BY <1>2, <2>1 DEF PathPart
  <2>3. f[n] = {n} \cup f[p[n]]
    BY <2>1, <2>2 DEF PathPart
  <2>4. n \in Nat /\ n <= n
    BY <1>3
  <2>5. m # n
    BY <1>2, <2>4, Zenon
  <2> QED
    BY <1>2, <2>2, <2>3, <2>5
<1>5. p[n] \in 0 .. N /\ p[n] < n /\ p[n] \in Nat
  BY <1>3, <1>4
<1>6. p[n] \notin Fails
  BY <1>1, <1>3, <1>5
<1>7. m \in Nat /\ m <= p[n]
  BY <1>4, <1>5, <1>6
<1> QED
  BY <1>2, <1>3, <1>5, <1>7

\* If every node between c and l is on the path to a node, they are one line.
KeepsAll(N, p, c, l, n, f) ==
  /\ N \in Nat /\ p \in [0 .. N -> 0 .. N] /\ c \in Nat /\ l \in 0 .. N /\ n \in 0 .. N
  /\ \A m \in 1 .. N : p[m] < m
  /\ \A m \in 0 .. N : f[m] = PathPart(f, p, c, m)
  /\ c + 1 .. l \subseteq f[n]
  /\ n <= l

LEMMA PathLinear ==
  ASSUME NEW N, NEW p, NEW c, NEW l, NEW n, NEW f, KeepsAll(N, p, c, l, n, f)
  PROVE  \A k \in c + 2 .. l : p[k] = k - 1
<1> USE DEF KeepsAll
<1> SUFFICES ASSUME NEW k \in c + 2 .. l PROVE p[k] = k - 1
  OBVIOUS
<1> DEFINE Bad == {i \in Nat : l - i \in c + 2 .. l /\ p[l - i] # (l - i) - 1}
<1> SUFFICES ASSUME p[k] # k - 1 PROVE FALSE
  OBVIOUS
<1>1. l - k \in Bad
  <2>1. l - k \in Nat /\ l - (l - k) = k
    OBVIOUS
  <2> QED
    BY <2>1
<1>2. PICK i \in Bad : \A j \in Bad : i <= j
  BY <1>1, LeastNumber
<1> DEFINE b == l - i
<1>3. b \in c + 2 .. l /\ p[b] # b - 1 /\ b \in Nat
  BY <1>2
<1>4. ASSUME NEW m \in b + 1 .. l PROVE p[m] = m - 1
  <2>1. l - m \in Nat /\ l - (l - m) = m /\ ~(i <= l - m) /\ m \in c + 2 .. l
    BY <1>2, <1>3, <1>4
  <2>2. l - m \notin Bad
    BY <1>2, <2>1
  <2> QED
    BY <2>1, <2>2
<1> HIDE DEF b, Bad
<1>5. \A m \in 0 .. N : \A x \in f[m] : x \in Nat /\ x <= m
  BY PathBelow
<1>6. b - 1 \notin f[b]
  <2>1. b \in 0 .. N /\ b \in 1 .. N /\ ~(b <= c)
    BY <1>3
  <2>2. f[b] = {b} \cup f[p[b]]
    BY <2>1 DEF PathPart
  <2> PICK q : q = p[b]
    OBVIOUS
  <2>3. q \in 0 .. N /\ q \in Int /\ q < b /\ q # b - 1 /\ b \in Int
    BY <1>3, <2>1
  <2>4. b - 1 \notin f[p[b]]
    <3>0. \A x, y \in Int : x < y /\ x # y - 1 => ~(y - 1 <= x)
      OBVIOUS
    <3>1. ~(b - 1 <= q)
      BY <2>3, <3>0, Zenon
    <3> QED
      BY <1>5, <2>3, <3>1
  <2> QED
    BY <1>3, <2>2, <2>4
<1> DEFINE On == {m \in b .. l : b - 1 \in f[m]}
<1>7. n = l
  <2>1. l \in c + 1 .. l /\ l \in Nat /\ n \in Nat
    OBVIOUS
  <2>2. l <= n
    BY <1>5, <2>1
  <2> QED
    BY <2>1, <2>2
<1>8. n \in On
  <2>1. b - 1 \in c + 1 .. l /\ l \in b .. l
    BY <1>3
  <2>2. b - 1 \in f[n]
    BY <2>1
  <2> QED
    BY <1>7, <2>1, <2>2
<1>9. PICK m \in On : \A j \in On : m <= j
  <2>1. On \subseteq Nat
    BY <1>3
  <2> HIDE DEF On
  <2> QED
    BY <1>8, <2>1, LeastNumber
<1>10. m \in b + 1 .. l /\ m \in 0 .. N /\ ~(m <= c)
  <2>1. m \in b .. l /\ m # b
    BY <1>6, <1>9
  <2> QED
    BY <1>3, <2>1
<1>11. p[m] = m - 1
  BY <1>4, <1>10
<1>12. b - 1 \in f[m - 1]
  <2>1. f[m] = {m} \cup f[m - 1]
    BY <1>10, <1>11 DEF PathPart
  <2>2. m # b - 1
    BY <1>3, <1>10
  <2> QED
    BY <1>9, <2>1, <2>2
<1>13. m - 1 \in On
  BY <1>3, <1>10, <1>12
<1> QED
  BY <1>3, <1>9, <1>10, <1>13

\* The unresolved nodes are one line.
LinearAhead == \A m \in Unresolved : m > firstUnresolvedNode => prev[m] = m - 1

\* A shutdown without alternatives leaves one line of nodes.
LEMMA MigrationIsLinear ==
  ASSUME TypeOK, TreeInv, NothingAhead, NEW n \in NodeNums, ShutdownForNitro(n, FALSE, FALSE)
  PROVE  LinearAhead
<1> PICK c : c = latestConfirmed
  OBVIOUS
<1> PICK l : l = latestNodeCreated
  OBVIOUS
<1>1. /\ c \in Nat /\ l \in 0 .. MaxNodes /\ n \in 0 .. MaxNodes /\ MaxNodes \in Nat
      /\ prev \in [0 .. MaxNodes -> 0 .. MaxNodes]
      /\ firstUnresolvedNode \in Nat /\ c < firstUnresolvedNode
  BY Numbers, BoundAssumption DEF TypeOK, NodeNums, TreeInv
<1>2. \A m \in 1 .. MaxNodes : prev[m] < m
  <2>1. \A m \in 1 .. MaxNodes : m \in NodeNums /\ (m \in 1 .. l \/ m > l)
    BY <1>1 DEF NodeNums
  <2>2. \A m \in 1 .. l : prev[m] < m
    BY DEF TreeInv, NodesInPlace
  <2>3. \A m \in NodeNums : m > l => prev[m] = 0
    BY DEF NothingAhead
  <2> QED
    BY <2>1, <2>2, <2>3
<1>0. PICK f : f = CHOOSE g : g = [m \in 0 .. MaxNodes |-> PathPart(g, prev, latestConfirmed, m)]
  OBVIOUS
<1>3. \A m \in 0 .. MaxNodes : f[m] = PathPart(f, prev, c, m)
  <2>1. \E g : g = [m \in 0 .. MaxNodes |-> PathPart(g, prev, c, m)]
    BY <1>1, <1>2, PathExists
  <2>2. f = [m \in 0 .. MaxNodes |-> PathPart(f, prev, c, m)]
    BY <1>0, <2>1, Zenon
  <2> QED
    BY <2>2
<1>4. PathTo(n) = f[n]
  BY <1>0, Zenon DEF PathTo, PathPart, NodeNums
<1>5. c + 1 .. l \subseteq f[n] /\ n <= l
  BY <1>4, MigrationChangesNothing DEF ShutdownForNitro
<1>6. KeepsAll(MaxNodes, prev, c, l, n, f)
  BY <1>1, <1>2, <1>3, <1>5 DEF KeepsAll
<1>8. \A k \in c + 2 .. l : prev[k] = k - 1
  BY <1>6, PathLinear
<1>7. \A m \in Unresolved : m > firstUnresolvedNode => m \in c + 2 .. l
  BY <1>1, Numbers DEF TreeInv
<1> QED
  BY <1>7, <1>8 DEF LinearAhead

\* Of an owner who migrates: once it has shut the rollup down, this is paused,
\* no staker is in a challenge, and the unresolved nodes are one line.
MigrationInv == owner = "migrates" =>
  /\ block <= MaxBlock
  /\ shutdownForNitroBlock = MaxBlock + 1 \/ ShutdownForNitroMode
  /\ ShutdownForNitroMode =>
       /\ paused
       /\ \A a \in stakerSet : currentChallenge[a] = NoChallenge
       /\ LinearAhead

LEMMA MigrationStep ==
  TypeOK /\ (owner # "any" => OrderInv) /\ MigrationInv /\ [AdminNext]_adminSpecVars
    => MigrationInv'
<1> SUFFICES ASSUME TypeOK, owner # "any" => OrderInv, MigrationInv,
                    [AdminNext]_adminSpecVars, owner' = "migrates"
             PROVE  /\ block' <= MaxBlock
                    /\ shutdownForNitroBlock' = MaxBlock + 1 \/ ShutdownForNitroMode'
                    /\ ShutdownForNitroMode' =>
                         /\ paused'
                         /\ \A a \in stakerSet' : currentChallenge'[a] = NoChallenge
                         /\ LinearAhead'
  BY DEF MigrationInv
<1> DEFINE Goal == /\ block' <= MaxBlock
                   /\ shutdownForNitroBlock' = MaxBlock + 1 \/ ShutdownForNitroMode'
                   /\ ShutdownForNitroMode' =>
                        /\ paused'
                        /\ \A a \in stakerSet' : currentChallenge'[a] = NoChallenge
                        /\ LinearAhead'
<1>1. /\ owner = "migrates" /\ TreeInv /\ NothingAhead
      /\ block \in Nat /\ MaxBlock \in Nat /\ shutdownForNitroBlock \in Nat
      /\ block <= MaxBlock
      /\ shutdownForNitroBlock = MaxBlock + 1 \/ ShutdownForNitroMode
      /\ ShutdownForNitroMode =>
           /\ paused
           /\ \A a \in stakerSet : currentChallenge[a] = NoChallenge
           /\ LinearAhead
  BY BoundAssumption DEF AdminNext, adminSpecVars, MigrationInv, OrderInv, TypeOK
<1>2. CASE MigrateStep
  <2>1. PICK n \in NodeNums : ShutdownForNitro(n, FALSE, FALSE)
    BY <1>2 DEF MigrateStep
  <2>2. LinearAhead
    BY <1>1, <2>1, MigrationIsLinear
  <2>3. UNCHANGED treeVars /\ \A a \in stakerSet : currentChallenge[a] = NoChallenge
    BY <1>1, <2>1, MigrationChangesNothing
  <2>4. LinearAhead'
    BY <2>2, <2>3 DEF LinearAhead, Unresolved, treeVars, chainVars
  <2>5. paused' /\ UNCHANGED block /\ ShutdownForNitroMode'
    BY <1>1, <2>1 DEF ShutdownForNitro, ShutdownForNitroMode
  <2> QED
    BY <1>1, <2>3, <2>4, <2>5 DEF treeVars
<1>3. ASSUME Next \/ UNCHANGED vars, ~ShutdownForNitroMode PROVE Goal
  <2>1. UNCHANGED shutdownForNitroBlock /\ block' \in Nat /\ block' <= MaxBlock
    <3>1. CASE AdvanceBlock
      BY <1>1, <3>1 DEF AdvanceBlock, adminVars
    <3>2. CASE UNCHANGED <<block, shutdownForNitroBlock>>
      BY <1>1, <3>2
    <3>3. CASE StakeStep
      <4>1. \A a, x : NewStake(a, x) \/ AddToDeposit(a, x) \/ ReduceDeposit(a, x)
                       => UNCHANGED <<block, adminVars>>
        BY DEF NewStake, AddToDeposit, ReduceDeposit
      <4>2. \A a : ReturnOldDeposit(a) \/ WithdrawStakerFunds(a) => UNCHANGED <<block, adminVars>>
        BY DEF ReturnOldDeposit, WithdrawStakerFunds
      <4>3. \A a, x : StakeOnExistingNode(a, x) => UNCHANGED <<block, adminVars>>
        BY DEF StakeOnExistingNode
      <4>4. \A a, x : StakeOnNewNode(a, x) => UNCHANGED <<block, adminVars>>
        BY DEF StakeOnNewNode
      <4>5. UNCHANGED <<block, adminVars>>
        BY <3>3, <4>1, <4>2, <4>3, <4>4 DEF StakeStep
      <4> QED
        BY <3>2, <4>5 DEF adminVars
    <3>4. CASE ResolveStep
      BY <3>2, <3>4 DEF ResolveStep, ConfirmNextNode, RejectChildOfConfirmed, RejectOutright,
        adminVars
    <3>5. CASE ChallengeStep
      BY <3>2, <3>5 DEF ChallengeStep, CreateChallenge, ForfeitLateChallenge,
        CompleteChallenge, adminVars
    <3>6. CASE ZombieStep \/ SequencerBatch \/ UNCHANGED vars
      BY <3>2, <3>6 DEF ZombieStep, RemoveZombie, RemoveOldZombies, SequencerBatch, vars,
        adminVars
    <3> QED
      BY <1>3, <3>1, <3>3, <3>4, <3>5, <3>6 DEF Next
  <2> QED
    BY <1>1, <1>3, <2>1 DEF ShutdownForNitroMode
<1>4. ASSUME ShutdownForNitroMode,
             UNCHANGED <<paused, shutdownForNitroBlock, latestNodeCreated, prev,
                         currentChallenge>>,
             block' \in Nat, block <= block', block' <= MaxBlock, stakerSet' \subseteq stakerSet,
             \/ UNCHANGED firstUnresolvedNode
             \/ firstUnresolvedNode' = firstUnresolvedNode + 1
      PROVE  Goal
  <2>1. ShutdownForNitroMode'
    BY <1>1, <1>4 DEF ShutdownForNitroMode
  <2>2. firstUnresolvedNode \in Nat /\ latestNodeCreated \in Nat
    BY <1>1, Numbers DEF TreeInv
  <2>3. \A m \in Unresolved' : m \in Unresolved /\ (m > firstUnresolvedNode' => m > firstUnresolvedNode)
    BY <1>4, <2>2 DEF Unresolved
  <2>4. LinearAhead'
    BY <1>1, <1>4, <2>3 DEF LinearAhead
  <2> QED
    BY <1>1, <1>4, <2>1, <2>4
<1>5. ASSUME Next \/ UNCHANGED vars, ShutdownForNitroMode PROVE Goal
  <2>0. paused
    BY <1>1, <1>5
  <2>1. CASE UNCHANGED vars
    BY <1>1, <1>4, <1>5, <2>1 DEF vars, adminVars, chainVars, nodeConsts, stakerVars
  <2>2. CASE AdvanceBlock
    <3>1. /\ UNCHANGED <<paused, shutdownForNitroBlock, latestNodeCreated, prev,
                          currentChallenge, stakerSet, firstUnresolvedNode>>
          /\ block' = block + 1 /\ block < MaxBlock
      BY <2>2 DEF AdvanceBlock, adminVars, chainVars, nodeConsts, stakerVars
    <3>2. block' \in Nat /\ block <= block' /\ block' <= MaxBlock
      BY <1>1, <3>1
    <3> QED
      BY <1>4, <1>5, <3>1, <3>2
  <2>6. CASE SequencerBatch
    BY <1>1, <1>4, <1>5, <2>6 DEF SequencerBatch, adminVars, chainVars, nodeConsts, stakerVars
  <2>3. CASE ConfirmNextNode
    BY <1>1, <1>4, <1>5, <2>3 DEF ConfirmNextNode, adminVars, nodeConsts, stakerVars
  <2>4. CASE ZombieStep
    <3>1. UNCHANGED <<block, paused, shutdownForNitroBlock, latestNodeCreated, prev,
                      currentChallenge, stakerSet, firstUnresolvedNode>>
      BY <2>4 DEF ZombieStep, RemoveZombie, RemoveOldZombies, adminVars, chainVars, nodeConsts,
        stakerVars
    <3> QED
      BY <1>1, <1>4, <1>5, <3>1
  <2>5. CASE StakeStep
    <3>1. PICK a \in Validators : ReturnOldDeposit(a) \/ WithdrawStakerFunds(a)
      BY <2>0, <2>5 DEF StakeStep, NewStake, AddToDeposit, ReduceDeposit,
        StakeOnExistingNode, StakeOnNewNode, WhenNotPaused
    <3>2. /\ UNCHANGED <<block, paused, shutdownForNitroBlock, latestNodeCreated, prev,
                          currentChallenge, firstUnresolvedNode>>
          /\ stakerSet' \subseteq stakerSet
      BY <3>1 DEF ReturnOldDeposit, WithdrawStakerFunds, adminVars, chainVars, nodeConsts,
        stakerVars
    <3> QED
      BY <1>1, <1>4, <1>5, <3>2
  <2> QED
    BY <1>5, <2>0, <2>1, <2>2, <2>3, <2>4, <2>5, <2>6 DEF Next, ResolveStep, ChallengeStep,
      RejectChildOfConfirmed, RejectOutright, CreateChallenge, ForfeitLateChallenge,
      ChallengeAllowed, CompleteChallenge, WhenNotPaused
<1> HIDE DEF Goal
<1>6. Goal
  BY <1>1, <1>3, <1>5 , <1>2 DEF AdminNext, adminSpecVars, Goal
<1> QED
  BY <1>6 DEF Goal

(***************************************************************************)
(* The nodes ahead of the latest confirmed one can be confirmed in a       *)
(* shutdown.                                                               *)
(***************************************************************************)
\* On one line of nodes a staker who is ahead is on the first unresolved one,
\* and that one follows the latest confirmed one.
LEMMA AheadIsOnFirst ==
  ASSUME TypeOK, TreeInv, LinearAhead, NEW w \in stakerSet, latestStakedNode[w] \in Unresolved
  PROVE  /\ UnresolvedExists
         /\ w \in stakers[firstUnresolvedNode]
         /\ prev[firstUnresolvedNode] = latestConfirmed
<1>1. UnresolvedExists /\ firstUnresolvedNode \in Unresolved /\ w \in Validators
  <2>1. /\ firstUnresolvedNode <= latestStakedNode[w] /\ latestStakedNode[w] <= latestNodeCreated
        /\ latestStakedNode[w] \in Nat
    BY Numbers DEF TreeInv
  <2>2. w \in Validators
    BY DEF TypeOK
  <2> QED
    BY <2>1, <2>2, Numbers DEF TreeInv, UnresolvedExists
<1>2. w \in stakers[firstUnresolvedNode]
  <2> SUFFICES ASSUME w \notin stakers[firstUnresolvedNode] PROVE FALSE
    OBVIOUS
  <2>1. OnAnotherBranch(w, firstUnresolvedNode)
    BY DEF OnAnotherBranch
  <2>2. PICK m \in Unresolved : m # firstUnresolvedNode /\ prev[m] = latestConfirmed
    BY <1>1, <2>1, StakedSibling
  <2>3. m \in Nat /\ firstUnresolvedNode <= m /\ firstUnresolvedNode \in Nat
        /\ latestConfirmed \in Nat /\ latestConfirmed < firstUnresolvedNode
    BY Numbers DEF TreeInv
  <2>4. m > firstUnresolvedNode
    BY <2>2, <2>3
  <2>5. prev[m] = m - 1
    BY <2>4 DEF LinearAhead
  <2> QED
    BY <2>2, <2>3, <2>4, <2>5
<1>3. prev[firstUnresolvedNode] \in {latestConfirmed} \cup Unresolved
  BY <1>1, <1>2 DEF TreeInv, StakersDescendFromConfirmed
<1>4. prev[firstUnresolvedNode] < firstUnresolvedNode
  BY <1>1, Numbers DEF TreeInv, NodesInPlace
<1>5. prev[firstUnresolvedNode] \notin Unresolved
  <2> SUFFICES ASSUME prev[firstUnresolvedNode] \in Unresolved PROVE FALSE
    OBVIOUS
  <2>1. /\ prev[firstUnresolvedNode] \in Nat /\ firstUnresolvedNode \in Nat
        /\ firstUnresolvedNode <= prev[firstUnresolvedNode]
    BY Numbers DEF TreeInv
  <2> QED
    BY <1>4, <2>1
<1> QED
  BY <1>1, <1>2, <1>3, <1>5

\* The converse of CountsMeanSets: if all stakers are on an unresolved node,
\* the counts that confirmNextNode compares say so.
LEMMA SetsMeanCounts ==
  ASSUME TypeOK, TreeInv, NEW n \in Unresolved, stakerSet \subseteq stakers[n]
  PROVE  AllStaked(n)
<1> DEFINE NZ == {z \in zombies \ OldZombies : z \in stakers[n]}
<1>1. IsFiniteSet(stakerSet) /\ IsFiniteSet(NZ)
  <2>1. stakerSet \subseteq Validators /\ NZ \subseteq Validators
    BY DEF TypeOK
  <2> QED
    BY <2>1, AddressAssumption, FS_Subset
<1>2. stakerSet \cap NZ = {}
  BY DEF TreeInv, StakeChain
<1>3. stakers[n] = stakerSet \cup NZ
  BY OldZombiesOff DEF TreeInv, StakeChain
<1>4. CountStakedZombies(n) = Cardinality(NZ)
  BY DEF CountStakedZombies
<1> HIDE DEF NZ
<1>5. Cardinality(stakerSet) \in Nat /\ Cardinality(NZ) \in Nat
  BY <1>1, FS_CardinalityType
<1>6. /\ Cardinality(stakerSet \cup NZ)
           = Cardinality(stakerSet) + Cardinality(NZ) - Cardinality(stakerSet \cap NZ)
      /\ Cardinality(stakerSet \cap NZ) = 0
  BY <1>1, <1>2, FS_Union, FS_EmptySet
<1>7. Cardinality(stakerSet \cup NZ) = Cardinality(stakerSet) + Cardinality(NZ)
  BY <1>5, <1>6
<1> QED
  BY <1>3, <1>4, <1>7 DEF AllStaked

\* In a shutdown without alternatives, if no staker can take its deposit back
\* and one is ahead, all are on the first unresolved node.
LEMMA ShutdownConfirms ==
  TypeOK /\ (owner # "any" => OrderInv) /\ MigrationInv => ShutdownNotStuck
<1> SUFFICES ASSUME TypeOK, owner # "any" => OrderInv, MigrationInv,
                    owner = "migrates", ShutdownForNitroMode,
                    NEW w \in stakerSet, latestStakedNode[w] \in Unresolved,
                    ~ \E a \in Validators : ReturnRequirements(a)
             PROVE  ConfirmRequirements
  BY DEF ShutdownNotStuck
<1>1. TreeInv /\ LinearAhead /\ \A a \in stakerSet : currentChallenge[a] = NoChallenge
  BY DEF OrderInv, MigrationInv
<1>2. /\ UnresolvedExists
      /\ prev[firstUnresolvedNode] = latestConfirmed
  BY <1>1, AheadIsOnFirst
<1>3. firstUnresolvedNode \in Unresolved
  BY <1>1, <1>2, Numbers DEF TreeInv, UnresolvedExists
<1>4. firstUnresolvedNode \in live /\ latestConfirmed \in live
  BY <1>1, <1>3 DEF TreeInv, NodesInPlace
<1>5. ASSUME NEW a \in stakerSet PROVE a \in stakers[firstUnresolvedNode]
  <2>1. a \in Validators /\ UnchallengedStaker(a)
    BY <1>1, <1>5 DEF TypeOK, UnchallengedStaker
  <2>2. ~(latestStakedNode[a] <= latestConfirmed)
    BY <2>1 DEF ReturnRequirements, WhenInShutdownModeOrNotPaused
  <2>3. latestStakedNode[a] # latestConfirmed
    BY <1>1, <2>2, Numbers DEF TreeInv
  <2>4. latestStakedNode[a] \in Unresolved
    BY <1>1, <1>5, <2>3 DEF TreeInv, StakersDescendFromConfirmed
  <2> QED
    BY <1>1, <1>5, <2>4, AheadIsOnFirst
<1>6. AllStaked(firstUnresolvedNode)
  BY <1>1, <1>3, <1>5, SetsMeanCounts
<1>7. PastDeadline(firstUnresolvedNode) /\ PastChildConfirmDeadline(latestConfirmed)
  BY DEF PastDeadline, DeadlineBlock, PastChildConfirmDeadline, ShutdownForNitroMode
<1>8. stakerSet # {} /\ WhenInShutdownModeOrNotPaused
  BY DEF WhenInShutdownModeOrNotPaused
<1> QED
  BY <1>2, <1>4, <1>6, <1>7, <1>8 DEF ConfirmRequirements

\* The pending nodes that a staker stands on can be confirmed in a shutdown.
THEOREM ShutdownCanBeCompleted == AdminSpec => []ShutdownNotStuck
<1>1. AdminInit => MigrationInv
  <2>1. MaxBlock \in Nat \ {0}
    BY BoundAssumption
  <2> QED
    BY <2>1 DEF AdminInit, Init, MigrationInv, ShutdownForNitroMode
<1>2. /\ TypeOK /\ (owner # "any" => OrderInv) /\ MigrationInv
      /\ [AdminNext]_adminSpecVars
      => MigrationInv'
  BY MigrationStep
<1>3. TypeOK /\ (owner # "any" => OrderInv) /\ MigrationInv => ShutdownNotStuck
  BY ShutdownConfirms
<1> QED
  BY <1>1, <1>2, <1>3, AdminKeepsOrder, PTL DEF AdminSpec

-----------------------------------------------------------------------------
(***************************************************************************)
(* The validator of module Staker.  What it is staked on is correct, for   *)
(* every strategy, however the others interleave and however late its      *)
(* transactions are mined.                                                 *)
(***************************************************************************)
\* Nodes are numbered in the order of their creation, and stakers stand on
\* nodes that have been created.
NodesNumbered ==
  /\ latestNodeCreated \in NodeNums
  /\ latestConfirmed \in 0 .. latestNodeCreated
  /\ firstUnresolvedNode \in Nat
  /\ prev \in [NodeNums -> NodeNums]
  /\ \A n \in 1 .. latestNodeCreated : prev[n] < n
  /\ latestStakedNode \in [Validators -> 0 .. latestNodeCreated]

CorrectExist == correct \subseteq 0 .. latestNodeCreated

\* A call may stand before another in a transaction.
Before(c, d) ==
  /\ c.op \notin {"create", "challenge", "refund", "timeout"}
  /\ d.op \notin {"newStake", "challenge", "refund", "timeout"}
  /\ c.op \in {"newStake", "stake"} => d.op \in {"stake", "create"}

Orderly(s) == \A i, j \in 1 .. Len(s) : i < j => Before(s[i], s[j])

\* A call leads to a correct node, or to the child of one.
Leads(c) ==
  /\ c.op = "stake" => c.node \in correct
  /\ c.op = "create" => c.parent \in correct

CallsOrderly ==
  /\ \E S : calls \in Seq(S)
  /\ Orderly(calls)
  /\ \A i \in 1 .. Len(calls) : Leads(calls[i])

\* A new stake, which lands on whatever is then the latest confirmed node, is
\* sent with a call that fails unless that is a correct node.
NewStakeTied ==
  calls[1].op = "newStake" =>
    /\ Len(calls) > 1
    /\ calls[2].op = "stake" => prev[calls[2].node] \in correct

\* Once the transaction is mined: where Me will stand when a node is created.
CreateStanding(i) ==
  IF i = 1 THEN latestStakedNode[Me]
  ELSE IF calls[i - 1].op = "stake" THEN calls[i - 1].node
  ELSE IF calls[i - 1].op = "newStake" THEN latestConfirmed
  ELSE latestStakedNode[Me]

MinedTied ==
  /\ calls[1].op = "newStake" => latestConfirmed \in correct
  /\ \A i \in 1 .. Len(calls) : calls[i].op = "create" => calls[i].parent = CreateStanding(i)

StakerInv ==
  /\ NodesNumbered
  /\ CorrectExist
  /\ StakedOnCorrect
  /\ phase \in {"idle", "sent", "mined"}
  /\ phase # "idle" => CallsOrderly /\ Len(calls) > 0
  /\ phase = "sent" => NewStakeTied
  /\ phase = "mined" => MinedTied

-----------------------------------------------------------------------------
(***************************************************************************)
(* What the transactions of the rollup do to the positions.                *)
(***************************************************************************)
\* The tree stays as it is, and one staker may move.
LEMMA NumberedMove ==
  ASSUME NodesNumbered,
         UNCHANGED <<latestNodeCreated, latestConfirmed, prev>>, firstUnresolvedNode' \in Nat,
         NEW x, NEW v \in 0 .. latestNodeCreated,
         \/ UNCHANGED latestStakedNode
         \/ latestStakedNode' = [latestStakedNode EXCEPT ![x] = v]
  PROVE  NodesNumbered'
<1>1. latestStakedNode' \in [Validators -> 0 .. latestNodeCreated]
  BY DEF NodesNumbered
<1> QED
  BY <1>1 DEF NodesNumbered

LEMMA NumberedZero == NodesNumbered => 0 \in 0 .. latestNodeCreated /\ latestNodeCreated \in Nat
  BY DEF NodesNumbered, NodeNums

\* Nodes are resolved.
LEMMA ResolveNumbered ==
  ASSUME NodesNumbered, ResolveStep
  PROVE  NodesNumbered' /\ UNCHANGED <<prev, latestStakedNode, stakerSet, latestNodeCreated>>
<1>1. CASE ConfirmNextNode
  <2>1. /\ UNCHANGED <<latestNodeCreated, prev, latestStakedNode, stakerSet>>
        /\ latestConfirmed' = firstUnresolvedNode
        /\ firstUnresolvedNode' = firstUnresolvedNode + 1
        /\ firstUnresolvedNode <= latestNodeCreated
    BY <1>1 DEF ConfirmNextNode, ConfirmRequirements, UnresolvedExists, nodeConsts, stakerVars
  <2>2. latestConfirmed' \in 0 .. latestNodeCreated /\ firstUnresolvedNode' \in Nat
    BY <2>1, NumberedZero DEF NodesNumbered
  <2> QED
    BY <2>1, <2>2 DEF NodesNumbered
<1>2. CASE \E w \in Validators : RejectChildOfConfirmed(w)
  <2>1. /\ UNCHANGED <<latestNodeCreated, latestConfirmed, prev, latestStakedNode, stakerSet>>
        /\ firstUnresolvedNode' = firstUnresolvedNode + 1
    BY <1>2 DEF RejectChildOfConfirmed, DestroyFirstUnresolved, nodeConsts, stakerVars
  <2> QED
    BY <2>1 DEF NodesNumbered
<1>3. CASE RejectOutright
  <2>1. /\ UNCHANGED <<latestNodeCreated, latestConfirmed, prev, latestStakedNode, stakerSet>>
        /\ firstUnresolvedNode' = firstUnresolvedNode + 1
    BY <1>3 DEF RejectOutright, DestroyFirstUnresolved, nodeConsts, stakerVars
  <2> QED
    BY <2>1 DEF NodesNumbered
<1> QED
  BY <1>1, <1>2, <1>3 DEF ResolveStep

\* A node is created.
LEMMA CreateNumbered ==
  ASSUME NodesNumbered, NEW a \in Validators, NEW after, StakeOnNewNode(a, after)
  PROVE  /\ NodesNumbered'
         /\ latestNodeCreated' = latestNodeCreated + 1
         /\ \A n \in 0 .. latestNodeCreated : prev'[n] = prev[n]
         /\ latestStakedNode' = [latestStakedNode EXCEPT ![a] = latestNodeCreated']
         /\ UNCHANGED <<stakerSet, latestConfirmed>>
<1> PICK l : l = latestNodeCreated
  OBVIOUS
<1> PICK p : p = latestStakedNode[a]
  OBVIOUS
<1>1. /\ l \in Nat /\ l + 1 <= MaxNodes /\ MaxNodes \in Nat /\ NodeNums = 0 .. MaxNodes
      /\ p \in 0 .. l
  BY NumberedZero, BoundAssumption DEF StakeOnNewNode, NodesNumbered, NodeNums
<1>2. /\ latestNodeCreated' = l + 1
      /\ prev' = [prev EXCEPT ![l + 1] = p]
      /\ latestStakedNode' = [latestStakedNode EXCEPT ![a] = l + 1]
      /\ UNCHANGED <<stakerSet, latestConfirmed, firstUnresolvedNode>>
  BY DEF StakeOnNewNode
<1>3. prev' \in [NodeNums -> NodeNums]
  <2>1. p \in 0 .. MaxNodes
    BY <1>1
  <2>2. prev \in [NodeNums -> NodeNums]
    BY DEF NodesNumbered
  <2> QED
    BY <1>1, <1>2, <2>1, <2>2
<1>4. \A n \in 0 .. l : prev'[n] = prev[n]
  BY <1>1, <1>2 DEF NodesNumbered
<1>5. prev'[l + 1] = p
  BY <1>1, <1>2 DEF NodesNumbered
<1>6. \A n \in 1 .. l + 1 : prev'[n] < n
  <2>1. \A n \in 1 .. l + 1 : n = l + 1 \/ (n \in 1 .. l /\ n \in 0 .. l)
    BY <1>1
  <2>2. \A n \in 1 .. l : prev[n] < n
    BY DEF NodesNumbered
  <2>3. p < l + 1
    BY <1>1
  <2> QED
    BY <1>4, <1>5, <2>1, <2>2, <2>3
<1>7. latestStakedNode' \in [Validators -> 0 .. l + 1]
  <2>1. l + 1 \in 0 .. l + 1 /\ \A n \in 0 .. l : n \in 0 .. l + 1
    BY <1>1
  <2> QED
    BY <1>2, <2>1 DEF NodesNumbered
<1>8. latestConfirmed \in 0 .. l + 1 /\ l + 1 \in NodeNums
  BY <1>1 DEF NodesNumbered
<1> QED
  BY <1>2, <1>3, <1>4, <1>6, <1>7, <1>8 DEF NodesNumbered

\* Challenges: the loser is no staker any more.
LEMMA ChallengeNumbered ==
  ASSUME NodesNumbered, NEW a, NEW b, NEW m, NEW n,
         \/ CreateChallenge(a, b, m, n)
         \/ ForfeitLateChallenge(a, b, m, n)
         \/ CompleteChallenge(a, b)
  PROVE  /\ NodesNumbered' /\ UNCHANGED <<prev, latestNodeCreated>>
         /\ \A x \in Validators :
              x \in stakerSet' => x \in stakerSet /\ latestStakedNode'[x] = latestStakedNode[x]
<1>1. UNCHANGED <<latestNodeCreated, latestConfirmed, firstUnresolvedNode, prev>>
  BY DEF CreateChallenge, ForfeitLateChallenge, CompleteChallenge, chainVars, nodeConsts
<1>2. \/ UNCHANGED <<latestStakedNode, stakerSet>>
      \/ /\ latestStakedNode' = [latestStakedNode EXCEPT ![b] = 0]
         /\ stakerSet' = stakerSet \ {b}
  BY DEF CreateChallenge, ForfeitLateChallenge, CompleteChallenge, SettleChallenge
<1>3. NodesNumbered'
  BY <1>1, <1>2, NumberedZero, NumberedMove DEF NodesNumbered
<1>4. \A x \in Validators :
        x \in stakerSet' => x \in stakerSet /\ latestStakedNode'[x] = latestStakedNode[x]
  BY <1>2 DEF NodesNumbered
<1> QED
  BY <1>1, <1>3, <1>4

\* What Me relies on is not disturbed.
Undisturbed ==
  /\ NodesNumbered' /\ CorrectExist'
  /\ correct \subseteq correct'
  /\ \A n \in 0 .. latestNodeCreated : prev'[n] = prev[n]
  /\ Me \in stakerSet' => Me \in stakerSet /\ latestStakedNode'[Me] = latestStakedNode[Me]

\* The tree stays as it is, nothing becomes correct.
LEMMA QuietUndisturbed ==
  ASSUME CorrectExist, NodesNumbered', UNCHANGED <<prev, latestNodeCreated, correct>>,
         Me \in stakerSet' => Me \in stakerSet /\ latestStakedNode'[Me] = latestStakedNode[Me]
  PROVE  Undisturbed
  BY DEF Undisturbed, CorrectExist

\* Deposits, returned or withdrawn, and stakes of another on existing nodes
LEMMA StakeUndisturbed ==
  ASSUME NodesNumbered, CorrectExist, UNCHANGED correct, NEW a,
         \/ ReturnOldDeposit(a)
         \/ WithdrawStakerFunds(a)
         \/ a # Me /\ \E n : StakeOnExistingNode(a, n)
         \/ a # Me /\ \E amount : NewStake(a, amount)
  PROVE  Undisturbed
<1>1. UNCHANGED <<latestNodeCreated, latestConfirmed, firstUnresolvedNode, prev>>
  BY DEF ReturnOldDeposit, WithdrawStakerFunds, StakeOnExistingNode, NewStake, chainVars,
    nodeConsts
<1>2. PICK v \in 0 .. latestNodeCreated :
        /\ \/ UNCHANGED latestStakedNode
           \/ latestStakedNode' = [latestStakedNode EXCEPT ![a] = v]
        /\ \/ UNCHANGED <<latestStakedNode, stakerSet>>
           \/ stakerSet' = stakerSet \ {a}
           \/ a # Me /\ stakerSet' = stakerSet
           \/ a # Me /\ stakerSet' = stakerSet \cup {a}
  <2>1. CASE ReturnOldDeposit(a)
    BY <2>1, NumberedZero DEF ReturnOldDeposit
  <2>2. CASE WithdrawStakerFunds(a)
    BY <2>2, NumberedZero DEF WithdrawStakerFunds, stakerVars
  <2>3. CASE a # Me /\ \E n : StakeOnExistingNode(a, n)
    <3>1. PICK n : StakeOnExistingNode(a, n)
      BY <2>3
    <3>2. n \in 0 .. latestNodeCreated
      BY <3>1, NumberedZero DEF StakeOnExistingNode, Unresolved, NodesNumbered
    <3> QED
      BY <2>3, <3>1, <3>2 DEF StakeOnExistingNode
  <2>4. CASE a # Me /\ \E amount : NewStake(a, amount)
    <3>1. latestConfirmed \in 0 .. latestNodeCreated
      BY DEF NodesNumbered
    <3> QED
      BY <2>4, <3>1 DEF NewStake
  <2> QED
    BY <2>1, <2>2, <2>3, <2>4
<1>3. NodesNumbered'
  BY <1>1, <1>2, NumberedMove DEF NodesNumbered
<1>4. Me \in stakerSet' => Me \in stakerSet /\ latestStakedNode'[Me] = latestStakedNode[Me]
  BY <1>2, StakerAssumption DEF NodesNumbered
<1> QED
  BY <1>1, <1>3, <1>4, QuietUndisturbed

\* A step that leaves the tree and the stakers alone
LEMMA IdleUndisturbed ==
  ASSUME NodesNumbered, CorrectExist, UNCHANGED <<correct, chainVars, prev, stakerSet,
         latestStakedNode>>
  PROVE  Undisturbed
<1>1. NodesNumbered'
  BY DEF NodesNumbered, chainVars
<1> QED
  BY <1>1, QuietUndisturbed DEF chainVars

LEMMA OthersUndisturbed ==
  ASSUME NodesNumbered, CorrectExist, OthersMove
  PROVE  Undisturbed
<1>1. ASSUME NEW a \in Others, OthersCreate(a) PROVE Undisturbed
  <2>1. PICK after \in Assertions : StakeOnNewNode(a, after)
    BY <1>1 DEF OthersCreate
  <2>2. a \in Validators /\ a # Me
    BY <1>1 DEF Others
  <2>3. /\ NodesNumbered'
        /\ latestNodeCreated' = latestNodeCreated + 1
        /\ \A n \in 0 .. latestNodeCreated : prev'[n] = prev[n]
        /\ latestStakedNode' = [latestStakedNode EXCEPT ![a] = latestNodeCreated']
        /\ UNCHANGED stakerSet
    BY <2>1, <2>2, CreateNumbered
  <2>4. correct' = correct \/ correct' = correct \cup {latestNodeCreated'}
    BY <1>1 DEF OthersCreate
  <2>5. CorrectExist' /\ correct \subseteq correct'
    <3>1. 0 .. latestNodeCreated \subseteq 0 .. latestNodeCreated'
      BY <2>3, NumberedZero
    <3>2. latestNodeCreated' \in 0 .. latestNodeCreated'
      BY <2>3, NumberedZero
    <3> QED
      BY <2>4, <3>1, <3>2 DEF CorrectExist
  <2>6. latestStakedNode'[Me] = latestStakedNode[Me]
    BY <2>2, <2>3, StakerAssumption DEF NodesNumbered
  <2> QED
    BY <2>3, <2>5, <2>6 DEF Undisturbed
<1>2. ASSUME NEW a \in Others, OthersStake(a) PROVE Undisturbed
  <2>1. a \in Validators /\ a # Me /\ (\E amount : NewStake(a, amount)) /\ UNCHANGED correct
    BY <1>2 DEF OthersStake, Others
  <2> QED
    BY <2>1, StakeUndisturbed
<1>3. ASSUME UNCHANGED correct, NEW a \in Others, NEW n \in NodeNums, StakeOnExistingNode(a, n)
      PROVE  Undisturbed
  <2>1. a \in Validators /\ a # Me /\ \E m : StakeOnExistingNode(a, m)
    BY <1>3 DEF Others
  <2> QED
    BY <1>3, <2>1, StakeUndisturbed
<1>4. ASSUME UNCHANGED correct, NEW a \in Validators, ReturnOldDeposit(a) PROVE Undisturbed
  BY <1>4, StakeUndisturbed
<1>5. ASSUME UNCHANGED correct, ResolveStep PROVE Undisturbed
  BY <1>5, ResolveNumbered, QuietUndisturbed
<1>6. ASSUME UNCHANGED correct, NEW a, NEW b, NEW m, NEW n,
             \/ CreateChallenge(a, b, m, n) \/ ForfeitLateChallenge(a, b, m, n)
             \/ CompleteChallenge(a, b)
      PROVE  Undisturbed
  <2>1. /\ NodesNumbered' /\ UNCHANGED <<prev, latestNodeCreated>>
        /\ Me \in stakerSet' => Me \in stakerSet /\ latestStakedNode'[Me] = latestStakedNode[Me]
    BY <1>6, ChallengeNumbered, StakerAssumption
  <2> QED
    BY <1>6, <2>1, QuietUndisturbed
<1>7. ASSUME UNCHANGED correct, ZombieStep \/ SequencerBatch PROVE Undisturbed
  <2>1. UNCHANGED <<chainVars, prev, stakerSet, latestStakedNode>>
    BY <1>7 DEF ZombieStep, RemoveZombie, RemoveOldZombies, SequencerBatch, nodeConsts, stakerVars
  <2> QED
    BY <1>7, <2>1, IdleUndisturbed
<1> QED
  BY <1>1, <1>2, <1>3, <1>4, <1>5, <1>6, <1>7 DEF OthersMove

-----------------------------------------------------------------------------
\* While the transaction waits, the others leave it as it was meant.
LEMMA SentKeeps ==
  ASSUME StakerInv, Undisturbed, UNCHANGED <<phase, calls>>, phase # "mined"
  PROVE  StakerInv'
<1>1. NodesNumbered' /\ CorrectExist' /\ correct \subseteq correct'
  BY DEF Undisturbed
<1>2. StakedOnCorrect'
  BY <1>1 DEF StakerInv, StakedOnCorrect, Undisturbed
<1>3. ASSUME phase = "sent" PROVE CallsOrderly' /\ NewStakeTied' /\ Len(calls) > 0
  <2>1. CallsOrderly /\ NewStakeTied /\ Len(calls) > 0
    BY <1>3 DEF StakerInv
  <2>2. CallsOrderly'
    <3>1. \E S : calls' \in Seq(S)
      BY <2>1 DEF CallsOrderly
    <3>2. Orderly(calls')
      BY <2>1 DEF CallsOrderly
    <3>3. \A i \in 1 .. Len(calls') : Leads(calls[i])'
      BY <1>1, <2>1 DEF CallsOrderly, Leads
    <3> QED
      BY <3>1, <3>2, <3>3 DEF CallsOrderly, Orderly, Before
  <2>3. NewStakeTied'
    <3> SUFFICES ASSUME calls[1].op = "newStake", Len(calls) > 1, calls[2].op = "stake"
                 PROVE  prev'[calls[2].node] \in correct'
      BY <2>1 DEF NewStakeTied
    <3>1. prev[calls[2].node] \in correct
      BY <2>1 DEF NewStakeTied
    <3>2. calls[2].node \in correct
      <4>1. 2 \in 1 .. Len(calls)
        BY <2>1 DEF CallsOrderly
      <4> QED
        BY <2>1, <4>1 DEF CallsOrderly, Leads
    <3>3. prev'[calls[2].node] = prev[calls[2].node]
      BY <3>2 DEF StakerInv, CorrectExist, Undisturbed
    <3> QED
      BY <1>1, <3>1, <3>3
  <2> QED
    BY <2>1, <2>2, <2>3
<1> QED
  BY <1>1, <1>2, <1>3 DEF StakerInv

\* All calls succeed when the transaction is mined: a new stake lands on a
\* correct node, and a node is created where it was meant to be.
LEMMA MineKeepsStake ==
  ASSUME StakerInv, Mine PROVE StakerInv'
<1>1. /\ phase = "sent" /\ CallsOrderly /\ NewStakeTied /\ Len(calls) > 0
      /\ UNCHANGED <<vars, correct>>
  BY DEF StakerInv, Mine
<1>2. NodesNumbered' /\ CorrectExist' /\ StakedOnCorrect'
  BY <1>1 DEF StakerInv, NodesNumbered, CorrectExist, StakedOnCorrect, vars, chainVars,
    nodeConsts, stakerVars
<1>3. CASE phase' = "idle"
  BY <1>2, <1>3 DEF StakerInv
<1>4. CASE phase' = "mined" /\ UNCHANGED calls /\ \A i \in DOMAIN calls : CallSucceeds(i)
  <2>1. Len(calls) \in Nat /\ DOMAIN calls = 1 .. Len(calls)
    BY <1>1 DEF CallsOrderly
  <2>2. CallsOrderly'
    <3>1. \A i \in 1 .. Len(calls) : Leads(calls[i])'
      BY <1>1, <1>4 DEF CallsOrderly, Leads
    <3>2. (\E S : calls' \in Seq(S)) /\ Orderly(calls)
      BY <1>1, <1>4 DEF CallsOrderly
    <3> QED
      BY <1>4, <3>1, <3>2 DEF CallsOrderly, Orderly, Before
  <2>3. ASSUME NEW i \in 1 .. Len(calls), calls[i].op = "create"
        PROVE  calls[i].parent = CreateStanding(i)
    <3>1. CallSucceeds(i)
      BY <1>4, <2>1, <2>3
    <3>2. i > 1 <=> i # 1
      BY <2>1, <2>3
    <3>3. calls[i].parent = IF i > 1 /\ calls[i - 1].op \in {"stake", "newStake"}
                            THEN Standing(i) ELSE latestStakedNode[Me]
      BY <2>3, <3>1 DEF CallSucceeds
    <3> QED
      BY <3>2, <3>3 DEF CreateStanding, Standing
  <2>4. ASSUME calls[1].op = "newStake" PROVE latestConfirmed \in correct
    <3>1. 1 \in 1 .. Len(calls) /\ 2 \in 1 .. Len(calls)
      BY <1>1, <2>1, <2>4 DEF NewStakeTied
    <3>2. calls[2].op \in {"stake", "create"}
      BY <1>1, <2>4, <3>1 DEF CallsOrderly, Orderly, Before
    <3>3. CASE calls[2].op = "create"
      <4>1. calls[2].parent = latestConfirmed
        BY <2>3, <2>4, <3>1, <3>3 DEF CreateStanding
      <4> QED
        BY <1>1, <3>1, <3>3, <4>1 DEF CallsOrderly, Leads
    <3>4. CASE calls[2].op = "stake"
      <4>1. CallSucceeds(2)
        BY <1>4, <2>1, <3>1
      <4>2. prev[calls[2].node] = Standing(2)
        BY <2>4, <3>4, <4>1 DEF CallSucceeds
      <4>3. Standing(2) = latestConfirmed
        BY <2>4 DEF Standing
      <4> QED
        BY <1>1, <2>4, <3>4, <4>2, <4>3 DEF NewStakeTied
    <3> QED
      BY <3>2, <3>3, <3>4
  <2>5. MinedTied'
    <3>1. UNCHANGED <<latestConfirmed, latestStakedNode, correct, calls>>
      BY <1>1, <1>4 DEF vars, chainVars, stakerVars
    <3> QED
      BY <2>3, <2>4, <3>1 DEF MinedTied, CreateStanding
  <2> QED
    BY <1>1, <1>2, <1>4, <2>2, <2>5 DEF StakerInv
<1> QED
  BY <1>3, <1>4 DEF Mine

\* A single call remains of a transaction that has only one.
LEMMA SingleCall ==
  ASSUME NEW c, calls' = <<c>>, c.op \in {"refund", "timeout", "challenge"}
  PROVE  CallsOrderly' /\ Len(calls') > 0 /\ NewStakeTied' /\ MinedTied'
<1>1. calls' \in Seq({c}) /\ Len(calls') = 1 /\ calls'[1] = c
  OBVIOUS
<1>2. \A i \in 1 .. Len(calls') : i = 1
  BY <1>1
<1>3. Orderly(calls')
  BY <1>2 DEF Orderly
<1>4. CallsOrderly'
  BY <1>1, <1>2, <1>3 DEF CallsOrderly, Orderly, Before, Leads
<1> QED
  BY <1>1, <1>2, <1>4 DEF NewStakeTied, MinedTied

\* The calls of a mined transaction run one by one.
LEMMA RemainingCalls ==
  ASSUME CallsOrderly, Len(calls) > 0, calls' = Tail(calls), correct \subseteq correct'
  PROVE  /\ CallsOrderly'
         /\ Len(calls) \in Nat /\ Len(calls') = Len(calls) - 1
         /\ \A i \in 1 .. Len(calls') : i + 1 \in 1 .. Len(calls) /\ calls'[i] = calls[i + 1]
<1>1. PICK S : calls \in Seq(S)
  BY DEF CallsOrderly
<1>2. calls # <<>> /\ Len(calls) \in Nat
  BY <1>1
<1>3. /\ calls' \in Seq(S) /\ Len(calls') = Len(calls) - 1
      /\ \A i \in 1 .. Len(calls') : calls'[i] = calls[i + 1]
  BY <1>1, <1>2
<1>4. \A i \in 1 .. Len(calls') : i + 1 \in 1 .. Len(calls)
  BY <1>2, <1>3
<1>5. ASSUME NEW i \in 1 .. Len(calls'), NEW j \in 1 .. Len(calls'), i < j
      PROVE  Before(calls'[i], calls'[j])
  <2>1. i + 1 \in 1 .. Len(calls) /\ j + 1 \in 1 .. Len(calls) /\ i + 1 < j + 1
    BY <1>2, <1>3, <1>5
  <2>2. Before(calls[i + 1], calls[j + 1])
    BY <2>1 DEF CallsOrderly, Orderly
  <2> QED
    BY <1>3, <2>2
<1>6. ASSUME NEW i \in 1 .. Len(calls') PROVE Leads(calls[i])'
  <2>1. Leads(calls[i + 1])
    BY <1>4 DEF CallsOrderly
  <2>2. calls'[i] = calls[i + 1]
    BY <1>3
  <2> QED
    BY <2>1, <2>2 DEF Leads
<1>7. CallsOrderly'
  BY <1>3, <1>5, <1>6 DEF CallsOrderly, Orderly, Before
<1> QED
  BY <1>2, <1>3, <1>4, <1>7

\* Where a call leaves Me, if another one follows
StandsAfter(c) ==
  latestStakedNode'[Me] =
    IF c.op = "stake" THEN c.node
    ELSE IF c.op = "newStake" THEN latestConfirmed ELSE latestStakedNode[Me]

LEMMA CallMoves ==
  ASSUME StakerInv, Call
  PROVE  /\ NodesNumbered' /\ CorrectExist' /\ StakedOnCorrect' /\ correct \subseteq correct'
         /\ calls[1].op \notin {"create", "challenge"} => StandsAfter(calls[1])
<1> PICK c : c = calls[1]
  OBVIOUS
<1>1. /\ NodesNumbered /\ CorrectExist /\ StakedOnCorrect
      /\ CallsOrderly /\ Len(calls) > 0 /\ MinedTied
  BY DEF StakerInv, Call
<1>2. Len(calls) \in Nat /\ Head(calls) = c /\ 1 \in 1 .. Len(calls)
  BY <1>1 DEF CallsOrderly
<1>3. RollupCall(c) /\ Leads(c)
  BY <1>1, <1>2 DEF Call, CallsOrderly
<1>4. c.op # "create" => UNCHANGED correct
  BY <1>2 DEF Call
<1>5. Me \in Validators
  BY StakerAssumption
<1>6. CASE c.op \in {"confirm", "reject"}
  <2>1. ResolveStep
    BY <1>3, <1>5, <1>6 DEF RollupCall, ResolveStep
  <2>2. NodesNumbered' /\ UNCHANGED <<prev, latestStakedNode, stakerSet, latestNodeCreated>>
    BY <1>1, <2>1, ResolveNumbered
  <2> QED
    BY <1>1, <1>4, <1>6, <2>2 DEF CorrectExist, StakedOnCorrect, StandsAfter
<1>7. CASE c.op = "withdraw"
  <2>1. WithdrawStakerFunds(Me)
    BY <1>3, <1>7 DEF RollupCall
  <2>2. Undisturbed
    BY <1>1, <1>4, <1>5, <1>7, <2>1, StakeUndisturbed
  <2>3. UNCHANGED <<latestStakedNode, stakerSet>>
    BY <2>1 DEF WithdrawStakerFunds, stakerVars
  <2> QED
    BY <1>1, <1>4, <1>7, <2>2, <2>3 DEF Undisturbed, StakedOnCorrect, StandsAfter
<1>8. CASE c.op = "newStake"
  <2>1. NewStake(Me, c.amount)
    BY <1>3, <1>8 DEF RollupCall
  <2>2. /\ UNCHANGED <<latestNodeCreated, latestConfirmed, firstUnresolvedNode, prev>>
        /\ latestStakedNode' = [latestStakedNode EXCEPT ![Me] = latestConfirmed]
    BY <2>1 DEF NewStake, chainVars, nodeConsts
  <2>3. latestConfirmed \in 0 .. latestNodeCreated /\ firstUnresolvedNode \in Nat
    BY <1>1 DEF NodesNumbered
  <2>4. NodesNumbered'
    BY <1>1, <2>2, <2>3, NumberedMove
  <2>5. latestStakedNode'[Me] = latestConfirmed
    BY <1>1, <1>5, <2>2 DEF NodesNumbered
  <2>6. latestConfirmed \in correct
    BY <1>1, <1>8 DEF MinedTied
  <2> QED
    BY <1>1, <1>4, <1>8, <2>2, <2>4, <2>5, <2>6 DEF CorrectExist, StakedOnCorrect, StandsAfter
<1>9. CASE c.op = "stake"
  <2>1. StakeOnExistingNode(Me, c.node) /\ c.node \in correct
    BY <1>3, <1>9 DEF RollupCall, Leads
  <2>2. /\ UNCHANGED <<latestNodeCreated, latestConfirmed, firstUnresolvedNode, prev>>
        /\ latestStakedNode' = [latestStakedNode EXCEPT ![Me] = c.node]
    BY <2>1 DEF StakeOnExistingNode, chainVars, nodeConsts
  <2>3. c.node \in 0 .. latestNodeCreated /\ firstUnresolvedNode \in Nat
    BY <1>1, <2>1 DEF NodesNumbered, CorrectExist
  <2>4. NodesNumbered'
    BY <1>1, <2>2, <2>3, NumberedMove
  <2>5. latestStakedNode'[Me] = c.node
    BY <1>1, <1>5, <2>2 DEF NodesNumbered
  <2> QED
    BY <1>1, <1>4, <1>9, <2>1, <2>2, <2>4, <2>5 DEF CorrectExist, StakedOnCorrect, StandsAfter
<1>10. CASE c.op = "create"
  <2>1. PICK after \in Assertions : StakeOnNewNode(Me, after)
    BY <1>3, <1>10 DEF RollupCall
  <2>2. /\ NodesNumbered'
        /\ latestNodeCreated' = latestNodeCreated + 1
        /\ latestStakedNode' = [latestStakedNode EXCEPT ![Me] = latestNodeCreated']
    BY <1>1, <1>5, <2>1, CreateNumbered
  <2>3. c.parent = latestStakedNode[Me]
    BY <1>1, <1>2, <1>10 DEF MinedTied, CreateStanding
  <2>4. correct' = correct \cup {latestNodeCreated'}
    BY <1>2, <1>10, <2>3 DEF Call
  <2>5. CorrectExist'
    <3>1. 0 .. latestNodeCreated \subseteq 0 .. latestNodeCreated'
      BY <1>1, <2>2, NumberedZero
    <3>2. latestNodeCreated' \in 0 .. latestNodeCreated'
      BY <1>1, <2>2, NumberedZero
    <3> QED
      BY <1>1, <2>4, <3>1, <3>2 DEF CorrectExist
  <2>6. latestStakedNode'[Me] = latestNodeCreated'
    BY <1>1, <1>5, <2>2 DEF NodesNumbered
  <2> QED
    BY <1>10, <2>2, <2>4, <2>5, <2>6 DEF StakedOnCorrect
<1>11. CASE c.op = "challenge"
  <2>1. \/ CreateChallenge(c.parties[1], c.parties[2], c.nodes[1], c.nodes[2])
        \/ ForfeitLateChallenge(c.parties[1], c.parties[2], c.nodes[1], c.nodes[2])
    BY <1>3, <1>11 DEF RollupCall
  <2>2. /\ NodesNumbered' /\ UNCHANGED <<prev, latestNodeCreated>>
        /\ Me \in stakerSet' => Me \in stakerSet /\ latestStakedNode'[Me] = latestStakedNode[Me]
    BY <1>1, <1>5, <2>1, ChallengeNumbered
  <2> QED
    BY <1>1, <1>4, <1>11, <2>2 DEF CorrectExist, StakedOnCorrect
<1> QED
  BY <1>3, <1>6, <1>7, <1>8, <1>9, <1>10, <1>11 DEF RollupCall

LEMMA CallKeepsStake ==
  ASSUME StakerInv, Call PROVE StakerInv'
<1>1. /\ CallsOrderly /\ Len(calls) > 0 /\ MinedTied
      /\ calls' = Tail(calls) /\ phase' = IF Len(calls) = 1 THEN "idle" ELSE "mined"
  BY DEF StakerInv, Call
<1>2. /\ NodesNumbered' /\ CorrectExist' /\ StakedOnCorrect' /\ correct \subseteq correct'
      /\ calls[1].op \notin {"create", "challenge"} => StandsAfter(calls[1])
  BY CallMoves
<1>3. /\ CallsOrderly' /\ Len(calls) \in Nat /\ Len(calls') = Len(calls) - 1
      /\ \A i \in 1 .. Len(calls') : i + 1 \in 1 .. Len(calls) /\ calls'[i] = calls[i + 1]
  BY <1>1, <1>2, RemainingCalls
<1>4. CASE Len(calls) = 1
  BY <1>1, <1>2, <1>4 DEF StakerInv
<1>5. CASE Len(calls) # 1
  <2>1. phase' = "mined" /\ Len(calls') > 0 /\ 1 \in 1 .. Len(calls) /\ 1 \in 1 .. Len(calls')
    BY <1>1, <1>3, <1>5
  <2>2. \A i \in 1 .. Len(calls) : 1 < i => Before(calls[1], calls[i])
    BY <1>1, <2>1 DEF CallsOrderly, Orderly
  <2>3. calls[2] = calls'[1] /\ Before(calls[1], calls[2])
    BY <1>3, <2>1, <2>2
  <2>4. StandsAfter(calls[1])
    BY <1>2, <2>3 DEF Before
  <2>5. calls'[1].op # "newStake"
    BY <2>3 DEF Before
  <2>6. ASSUME NEW i \in 1 .. Len(calls'), calls'[i].op = "create"
        PROVE  calls'[i].parent = CreateStanding(i)'
    <3>1. i + 1 \in 1 .. Len(calls) /\ calls'[i] = calls[i + 1] /\ (i + 1) - 1 = i /\ i + 1 # 1
      BY <1>3, <2>6
    <3>2. calls[i + 1].parent = CreateStanding(i + 1)
      BY <1>1, <2>6, <3>1 DEF MinedTied
    <3>3. CreateStanding(i + 1) =
            IF calls[i].op = "stake" THEN calls[i].node
            ELSE IF calls[i].op = "newStake" THEN latestConfirmed
            ELSE latestStakedNode[Me]
      BY <3>1 DEF CreateStanding
    <3>4. CASE i = 1
      BY <2>4, <3>1, <3>2, <3>3, <3>4 DEF StandsAfter, CreateStanding
    <3>5. CASE i # 1
      <4>1. /\ i \in 1 .. Len(calls) /\ 1 < i /\ i < i + 1
            /\ i - 1 \in 1 .. Len(calls') /\ (i - 1) + 1 = i
        BY <1>3, <2>6, <3>5
      <4>2. calls'[i - 1] = calls[i]
        BY <1>3, <4>1
      <4>3. Before(calls[1], calls[i]) /\ Before(calls[i], calls[i + 1])
        BY <1>1, <2>2, <3>1, <4>1 DEF CallsOrderly, Orderly
      <4>4. calls[i].op # "newStake" /\ calls[i].op # "create"
        BY <4>3 DEF Before
      <4>5. CreateStanding(i)' =
              IF calls[i].op = "stake" THEN calls[i].node ELSE latestStakedNode'[Me]
        BY <3>5, <4>2, <4>4 DEF CreateStanding
      <4>6. CASE calls[i].op = "stake"
        BY <3>1, <3>2, <3>3, <4>5, <4>6
      <4>7. CASE calls[i].op # "stake"
        <5>1. calls[1].op \notin {"stake", "newStake"}
          BY <4>3, <4>4, <4>7 DEF Before
        <5>2. latestStakedNode'[Me] = latestStakedNode[Me]
          BY <2>4, <5>1 DEF StandsAfter
        <5> QED
          BY <3>1, <3>2, <3>3, <4>4, <4>5, <4>7, <5>2
      <4> QED
        BY <4>6, <4>7
    <3> QED
      BY <3>4, <3>5
  <2>7. MinedTied'
    BY <2>5, <2>6 DEF MinedTied
  <2> QED
    BY <1>2, <1>3, <2>1, <2>7 DEF StakerInv
<1> QED
  BY <1>4, <1>5

\* Refunds and timeouts are transactions of their own.
LEMMA ReturnKeepsStake ==
  ASSUME StakerInv, ReturnOldDeposits PROVE StakerInv'
<1>1. /\ NodesNumbered /\ CorrectExist /\ StakedOnCorrect /\ UNCHANGED correct
  BY DEF StakerInv, ReturnOldDeposits
<1>2. Undisturbed
  <2>1. PICK a : IF a \in RefundableStakers THEN ReturnOldDeposit(a) ELSE UNCHANGED vars
    BY DEF ReturnOldDeposits
  <2>2. CASE UNCHANGED vars
    <3>1. UNCHANGED <<chainVars, prev, stakerSet, latestStakedNode>>
      BY <2>2 DEF vars, nodeConsts, stakerVars
    <3> QED
      BY <1>1, <3>1, IdleUndisturbed
  <2>3. CASE ReturnOldDeposit(a)
    BY <1>1, <2>3, StakeUndisturbed
  <2> QED
    BY <2>1, <2>2, <2>3
<1>3. StakedOnCorrect'
  BY <1>1, <1>2 DEF Undisturbed, StakedOnCorrect
<1>4. phase' = "idle" \/ (phase' = "mined" /\ calls' # <<>>)
  BY DEF ReturnOldDeposits
<1>5. ASSUME calls' # <<>> PROVE CallsOrderly' /\ Len(calls') > 0 /\ MinedTied'
  <2>1. PICK w : calls' = <<[op |-> "refund", who |-> w]>>
    BY <1>5 DEF ReturnOldDeposits
  <2> QED
    BY <2>1, SingleCall
<1> QED
  BY <1>2, <1>3, <1>4, <1>5 DEF StakerInv, Undisturbed

LEMMA TimeoutKeepsStake ==
  ASSUME StakerInv, TimeoutChallenges PROVE StakerInv'
<1>1. /\ NodesNumbered /\ CorrectExist /\ StakedOnCorrect /\ UNCHANGED correct /\ phase' = "idle"
  BY DEF StakerInv, TimeoutChallenges
<1>2. Undisturbed
  <2>1. CASE UNCHANGED vars
    <3>1. UNCHANGED <<chainVars, prev, stakerSet, latestStakedNode>>
      BY <2>1 DEF vars, nodeConsts, stakerVars
    <3> QED
      BY <1>1, <3>1, IdleUndisturbed
  <2>2. CASE \E a \in Validators, b \in Others : CompleteChallenge(a, b)
    <3>1. PICK a \in Validators, b \in Others : CompleteChallenge(a, b)
      BY <2>2
    <3>2. /\ NodesNumbered' /\ UNCHANGED <<prev, latestNodeCreated>>
          /\ Me \in stakerSet' => Me \in stakerSet /\ latestStakedNode'[Me] = latestStakedNode[Me]
      BY <1>1, <3>1, ChallengeNumbered, StakerAssumption
    <3> QED
      BY <1>1, <3>2, QuietUndisturbed
  <2> QED
    BY <2>1, <2>2 DEF TimeoutChallenges
<1>3. StakedOnCorrect'
  BY <1>1, <1>2 DEF Undisturbed, StakedOnCorrect
<1> QED
  BY <1>1, <1>2, <1>3 DEF StakerInv, Undisturbed

-----------------------------------------------------------------------------
(***************************************************************************)
(* The calls that Act puts together.                                       *)
(***************************************************************************)
LEMMA CorrectChildIsOne ==
  ASSUME NodesNumbered, NEW n, CorrectChild(n) # 0
  PROVE  /\ CorrectChild(n) \in correct /\ prev[CorrectChild(n)] = n
         /\ CorrectChild(n) \in NodeNums /\ n < CorrectChild(n)
<1> DEFINE T == Children(n) \cap correct
<1>1. T # {} /\ CorrectChild(n) = Min(T)
  BY DEF CorrectChild
<1>2. T \subseteq Nat
  BY NumberedZero DEF Children
<1>3. \E x \in T : \A y \in T : x <= y
  <2> HIDE DEF T
  <2> QED
    BY <1>1, <1>2, LeastNumber
<1>4. Min(T) \in T
  <2> HIDE DEF T
  <2>1. Min(T) = CHOOSE x \in T : \A y \in T : x <= y
    BY DEF Min
  <2> QED
    BY <1>3, <2>1
<1> PICK c : c = CorrectChild(n)
  OBVIOUS
<1>5. c \in correct /\ c \in 1 .. latestNodeCreated /\ prev[c] = n
  BY <1>1, <1>4 DEF Children
<1>6. n < c
  BY <1>5 DEF NodesNumbered
<1>7. c \in NodeNums
  <2>1. latestNodeCreated \in 0 .. MaxNodes /\ MaxNodes \in Nat
    BY BoundAssumption DEF NodesNumbered, NodeNums
  <2>2. \A x \in 0 .. MaxNodes : \A y \in 1 .. x : y \in 0 .. MaxNodes
    BY <2>1
  <2> QED
    BY <1>5, <2>1, <2>2 DEF NodeNums
<1> QED
  BY <1>5, <1>6, <1>7

\* What the definition of Successors says of a function f at node n
SuccessorsPart(f, n) ==
  IF OldEnough(n) /\ CorrectChild(n) # 0
  THEN <<CorrectChild(n)>> \o f[CorrectChild(n)] ELSE <<>>

\* Successors is a function: a child has a higher number than its parent.
LEMMA SuccessorsExist ==
  ASSUME NodesNumbered
  PROVE  \E f : f = [n \in NodeNums |-> SuccessorsPart(f, n)]
<1> PICK N \in Nat : N = MaxNodes /\ NodeNums = 0 .. N
  BY BoundAssumption DEF NodeNums
<1>0. \A n : CorrectChild(n) # 0 => CorrectChild(n) \in 0 .. N /\ n < CorrectChild(n)
  BY CorrectChildIsOne
<1> DEFINE Solves(g, k) == g = [n \in N - k .. N |-> SuccessorsPart(g, n)]
           Fails == {k \in 0 .. N : ~ \E g : Solves(g, k)}
<1>1. \E g : Solves(g, 0)
  <2> DEFINE h == [n \in N - 0 .. N |-> <<>>]
  <2>1. ASSUME NEW n \in N - 0 .. N PROVE SuccessorsPart(h, n) = <<>>
    <3>1. CorrectChild(n) = 0
      BY <1>0, <2>1
    <3> QED
      BY <3>1 DEF SuccessorsPart
  <2>2. Solves(h, 0)
    BY <2>1
  <2> HIDE DEF Solves, h
  <2> QED
    BY <2>2
<1>2. ASSUME NEW k \in Nat, k + 1 <= N, NEW g, Solves(g, k) PROVE \E h : Solves(h, k + 1)
  <2> DEFINE h == [n \in N - (k + 1) .. N |-> SuccessorsPart(g, n)]
  <2>1. ASSUME NEW n \in N - (k + 1) .. N, CorrectChild(n) # 0
        PROVE  h[CorrectChild(n)] = g[CorrectChild(n)]
    <3> PICK c : c = CorrectChild(n)
      OBVIOUS
    <3>1. c \in 0 .. N /\ n < c
      BY <1>0, <2>1
    <3>2. c \in N - k .. N /\ c \in N - (k + 1) .. N
      BY <1>2, <2>1, <3>1
    <3>3. h[c] = SuccessorsPart(g, c)
      BY <3>2
    <3>4. g[c] = SuccessorsPart(g, c)
      BY <1>2, <3>2
    <3> QED
      BY <3>3, <3>4
  <2>2. \A n \in N - (k + 1) .. N : SuccessorsPart(h, n) = SuccessorsPart(g, n)
    <3> HIDE DEF h
    <3> QED
      BY <2>1 DEF SuccessorsPart
  <2>3. Solves(h, k + 1)
    <3>1. [n \in N - (k + 1) .. N |-> SuccessorsPart(h, n)]
            = [n \in N - (k + 1) .. N |-> SuccessorsPart(g, n)]
      <4> HIDE DEF h
      <4> QED
        BY <2>2
    <3> QED
      BY <3>1
  <2> HIDE DEF Solves, h
  <2> QED
    BY <2>3
<1>3. Fails = {}
  <2> SUFFICES ASSUME Fails # {} PROVE FALSE
    OBVIOUS
  <2> HIDE DEF Solves
  <2>0. Fails \subseteq Nat
    OBVIOUS
  <2>1. PICK n \in Fails : \A m \in Fails : n <= m
    <3> HIDE DEF Fails
    <3> QED
      BY <2>0, LeastNumber
  <2>2. n \in Nat /\ n # 0 /\ n <= N
    BY <1>1
  <2>3. n - 1 \in 0 .. N /\ n - 1 \in Nat /\ ~(n <= n - 1) /\ (n - 1) + 1 = n
    BY <2>2
  <2>4. n - 1 \notin Fails
    BY <2>1, <2>3
  <2>5. PICK g : Solves(g, n - 1)
    BY <2>3, <2>4
  <2>6. \E h : Solves(h, (n - 1) + 1)
    BY <1>2, <2>2, <2>3, <2>5
  <2> QED
    BY <2>1, <2>3, <2>6
<1>4. PICK g : Solves(g, N)
  <2>1. N \in 0 .. N
    OBVIOUS
  <2> HIDE DEF Solves
  <2> QED
    BY <1>3, <2>1
<1>5. N - N .. N = NodeNums
  OBVIOUS
<1>6. g = [n \in NodeNums |-> SuccessorsPart(g, n)]
  BY <1>4, <1>5
<1> QED
  BY <1>6

LEMMA SuccessorsDefined ==
  ASSUME NodesNumbered, NEW n \in NodeNums
  PROVE  Successors[n] = SuccessorsPart(Successors, n)
<1>1. \E f : f = [m \in NodeNums |-> SuccessorsPart(f, m)]
  BY SuccessorsExist
<1>2. Successors = CHOOSE f : f = [m \in NodeNums |-> SuccessorsPart(f, m)]
  BY Zenon DEF Successors, SuccessorsPart
<1>3. Successors = [m \in NodeNums |-> SuccessorsPart(Successors, m)]
  BY <1>1, <1>2, Zenon
<1> QED
  BY <1>3, Zenon

\* They are correct, and the first one is a child of the node.
LEMMA SuccessorsCorrect ==
  ASSUME NodesNumbered, NEW n \in NodeNums
  PROVE  /\ Successors[n] \in Seq(correct)
         /\ Successors[n] # <<>> => prev[Successors[n][1]] = n
<1> PICK N \in Nat : N = MaxNodes /\ NodeNums = 0 .. N
  BY BoundAssumption DEF NodeNums
<1> PICK f : f = Successors
  OBVIOUS
<1>1. ASSUME NEW m \in NodeNums PROVE f[m] = SuccessorsPart(f, m)
  BY <1>1, SuccessorsDefined
<1> DEFINE Bad == {i \in 0 .. N : f[N - i] \notin Seq(correct)}
<1>2. Bad = {}
  <2> SUFFICES ASSUME Bad # {} PROVE FALSE
    OBVIOUS
  <2>0. Bad \subseteq Nat
    OBVIOUS
  <2>1. PICK i \in Bad : \A j \in Bad : i <= j
    <3> HIDE DEF Bad
    <3> QED
      BY <2>0, LeastNumber
  <2> PICK m : m = N - i
    OBVIOUS
  <2>2. m \in NodeNums /\ i \in 0 .. N /\ f[m] \notin Seq(correct)
    BY <2>1
  <2>3. f[m] = SuccessorsPart(f, m)
    BY <1>1, <2>2
  <2>4. CASE OldEnough(m) /\ CorrectChild(m) # 0
    <3> PICK c : c = CorrectChild(m)
      OBVIOUS
    <3>1. c \in correct /\ c \in 0 .. N /\ m < c
      BY <2>4, CorrectChildIsOne
    <3>2. N - c \in 0 .. N /\ ~(i <= N - c) /\ N - (N - c) = c
      BY <2>2, <3>1
    <3>3. f[c] \in Seq(correct)
      BY <2>1, <3>2
    <3>4. <<c>> \o f[c] \in Seq(correct)
      BY <3>1, <3>3, ConcatProperties
    <3> QED
      BY <2>2, <2>3, <2>4, <3>4 DEF SuccessorsPart
  <2>5. CASE ~(OldEnough(m) /\ CorrectChild(m) # 0)
    BY <2>2, <2>3, <2>5, EmptySeq DEF SuccessorsPart
  <2> QED
    BY <2>4, <2>5
<1>3. \A m \in NodeNums : f[m] \in Seq(correct)
  <2> SUFFICES ASSUME NEW m \in NodeNums PROVE f[m] \in Seq(correct)
    OBVIOUS
  <2>1. N - m \in 0 .. N /\ N - (N - m) = m
    OBVIOUS
  <2> QED
    BY <1>2, <2>1
<1>4. ASSUME f[n] # <<>> PROVE prev[f[n][1]] = n
  <2>1. OldEnough(n) /\ CorrectChild(n) # 0
    BY <1>1, <1>4 DEF SuccessorsPart
  <2> PICK c : c = CorrectChild(n)
    OBVIOUS
  <2>2. c \in correct /\ c \in NodeNums /\ prev[c] = n
    BY <2>1, CorrectChildIsOne
  <2>3. f[n] = <<c>> \o f[c]
    BY <1>1, <2>1 DEF SuccessorsPart
  <2>4. f[c] \in Seq(correct)
    BY <1>3, <2>2
  <2>5. (<<c>> \o f[c])[1] = c
    BY <2>2, <2>4, ConcatProperties
  <2> QED
    BY <2>2, <2>3, <2>5
<1> QED
  BY <1>3, <1>4

IsSequence(s) == \E S : s \in Seq(S)

LEMMA ConcatIsSequence ==
  ASSUME NEW s, NEW t, IsSequence(s), IsSequence(t)
  PROVE  /\ IsSequence(s \o t) /\ Len(s) \in Nat /\ Len(t) \in Nat
         /\ Len(s \o t) = Len(s) + Len(t)
         /\ \A i \in 1 .. Len(s \o t) :
              \/ i \in 1 .. Len(s) /\ (s \o t)[i] = s[i]
              \/ i - Len(s) \in 1 .. Len(t) /\ (s \o t)[i] = t[i - Len(s)]
<1> PICK A : s \in Seq(A)
  BY DEF IsSequence
<1> PICK B : t \in Seq(B)
  BY DEF IsSequence
<1> PICK r : r = s \o t
  OBVIOUS
<1>1. s \in Seq(A \cup B) /\ t \in Seq(A \cup B) /\ Len(s) \in Nat /\ Len(t) \in Nat
  OBVIOUS
<1>2. /\ r \in Seq(A \cup B) /\ Len(r) = Len(s) + Len(t)
      /\ \A i \in 1 .. Len(r) : r[i] = IF i <= Len(s) THEN s[i] ELSE t[i - Len(s)]
  BY <1>1, ConcatProperties
<1>3. \A i \in 1 .. Len(r) :
        (i <= Len(s) /\ i \in 1 .. Len(s)) \/ (~(i <= Len(s)) /\ i - Len(s) \in 1 .. Len(t))
  <2>1. \A a, b \in Nat : \A i \in 1 .. a + b :
          (i <= a /\ i \in 1 .. a) \/ (~(i <= a) /\ i - a \in 1 .. b)
    OBVIOUS
  <2> QED
    BY <1>1, <1>2, <2>1, Zenon
<1>4. IsSequence(r)
  BY <1>2 DEF IsSequence
<1> QED
  BY <1>1, <1>2, <1>3, <1>4

\* Calls that resolve a node or withdraw
Resolving(s) ==
  IsSequence(s) /\ \A i \in 1 .. Len(s) : s[i].op \in {"confirm", "reject", "withdraw"}

\* Calls that stake on correct nodes and may end with the creation of one
Advancing(s) ==
  /\ IsSequence(s)
  /\ \A i \in 1 .. Len(s) :
       \/ s[i].op = "stake" /\ s[i].node \in correct
       \/ i = Len(s) /\ s[i].op = "create" /\ s[i].parent \in correct
  /\ Len(s) > 0 /\ s[1].op = "stake" => prev[s[1].node] \in correct

\* Calls that may be sent
Sendable(s) ==
  /\ IsSequence(s) /\ Orderly(s)
  /\ \A i \in 1 .. Len(s) : Leads(s[i])
  /\ Len(s) > 0 /\ s[1].op = "newStake" =>
       Len(s) > 1 /\ (s[2].op = "stake" => prev[s[2].node] \in correct)

LEMMA ResolvingFirst ==
  Resolving(ResolveCalls \o WithdrawCalls)
<1>1. ASSUME NEW c, c.op \in {"confirm", "reject", "withdraw"} PROVE Resolving(<<c>>)
  <2>1. <<c>> \in Seq({c}) /\ Len(<<c>>) = 1 /\ <<c>>[1] = c
    OBVIOUS
  <2>2. \A i \in 1 .. Len(<<c>>) : i = 1
    BY <2>1
  <2> QED
    BY <1>1, <2>1, <2>2 DEF Resolving, IsSequence
<1>2. Resolving(<<>>)
  BY EmptySeq DEF Resolving, IsSequence
<1>3. Resolving(ResolveCalls)
  <2>1. ResolveCalls \in {<<>>, <<[op |-> "confirm", node |-> firstUnresolvedNode]>>,
                          <<[op |-> "reject"]>>}
    BY DEF ResolveCalls
  <2> QED
    BY <1>1, <1>2, <2>1
<1>4. Resolving(WithdrawCalls)
  BY <1>1, <1>2 DEF WithdrawCalls
<1> PICK s : s = ResolveCalls
  OBVIOUS
<1> PICK t : t = WithdrawCalls
  OBVIOUS
<1>5. Resolving(s) /\ Resolving(t)
  BY <1>3, <1>4
<1>6. Resolving(s \o t)
  <2>1. IsSequence(s) /\ IsSequence(t)
    BY <1>5 DEF Resolving
  <2>2. /\ IsSequence(s \o t)
        /\ \A i \in 1 .. Len(s \o t) :
             \/ i \in 1 .. Len(s) /\ (s \o t)[i] = s[i]
             \/ i - Len(s) \in 1 .. Len(t) /\ (s \o t)[i] = t[i - Len(s)]
    BY <2>1, ConcatIsSequence
  <2> QED
    BY <1>5, <2>2 DEF Resolving
<1> QED
  BY <1>6

LEMMA AdvanceAdvances ==
  ASSUME NodesNumbered, NEW n \in NodeNums, n \in correct, NEW busy
  PROVE  Advancing(AdvanceCalls(n, busy))
<1> PICK path : path = Successors[n]
  OBVIOUS
<1> PICK last : last = IF path = <<>> THEN n ELSE Last(path)
  OBVIOUS
<1> DEFINE stakes == [i \in DOMAIN path |-> [op |-> "stake", node |-> path[i]]]
           create == IF CreatesNode(last, EffectiveStrategy, busy)
                     THEN <<[op |-> "create", parent |-> last, sibling |-> latestChildNumber[last]]>>
                     ELSE <<>>
<1>1. AdvanceCalls(n, busy) = stakes \o create
  BY DEF AdvanceCalls
<1>2. path \in Seq(correct) /\ (path # <<>> => prev[path[1]] = n)
  BY SuccessorsCorrect
<1>3. /\ IsSequence(stakes) /\ Len(stakes) = Len(path)
      /\ \A i \in 1 .. Len(stakes) : stakes[i].op = "stake" /\ stakes[i].node = path[i]
  <2> DEFINE Made(i) == [op |-> "stake", node |-> path[i]]
             All == {Made(i) : i \in 1 .. Len(path)}
  <2>1. \A i \in 1 .. Len(path) : Made(i).op = "stake" /\ Made(i).node = path[i]
    OBVIOUS
  <2>2. stakes = [i \in 1 .. Len(path) |-> Made(i)] /\ Len(path) \in Nat
    BY <1>2
  <2> HIDE DEF Made, stakes
  <2>3. \A i \in 1 .. Len(path) : Made(i) \in All
    OBVIOUS
  <2> HIDE DEF All
  <2>4. stakes \in Seq(All) /\ Len(stakes) = Len(path)
    BY <2>2, <2>3
  <2>5. \A i \in 1 .. Len(path) : stakes[i] = Made(i)
    BY <2>2
  <2>6. IsSequence(stakes)
    BY <2>4 DEF IsSequence
  <2> QED
    BY <2>1, <2>4, <2>5, <2>6
<1>4. last \in correct
  <2>1. CASE path = <<>>
    BY <2>1
  <2>2. CASE path # <<>>
    <3>1. Len(path) \in 1 .. Len(path)
      BY <1>2, <2>2
    <3>2. last = path[Len(path)]
      BY <2>2 DEF Last
    <3> QED
      BY <1>2, <3>1, <3>2, ElementOfSeq
  <2> QED
    BY <2>1, <2>2
<1>5. /\ IsSequence(create) /\ Len(create) \in {0, 1}
      /\ \A i \in 1 .. Len(create) :
           i = Len(create) /\ create[i].op = "create" /\ create[i].parent \in correct
  <2>1. CASE create = <<>>
    <3> HIDE DEF create
    <3> QED
      BY <2>1, EmptySeq DEF IsSequence
  <2>2. CASE create = <<[op |-> "create", parent |-> last, sibling |-> latestChildNumber[last]]>>
    <3> PICK c : c = [op |-> "create", parent |-> last, sibling |-> latestChildNumber[last]]
      OBVIOUS
    <3>1. create = <<c>> /\ c.op = "create" /\ c.parent = last
      BY <2>2
    <3>2. create \in Seq({c}) /\ Len(create) = 1 /\ create[1] = c
      <4> HIDE DEF create
      <4> QED
        BY <3>1
    <3>3. \A i \in 1 .. Len(create) : i = 1
      BY <3>2
    <3> HIDE DEF create
    <3> QED
      BY <1>4, <3>1, <3>2, <3>3 DEF IsSequence
  <2> QED
    BY <2>1, <2>2
<1> PICK t : t = create
  OBVIOUS
<1> PICK s : s = stakes
  OBVIOUS
<1>6. /\ IsSequence(s \o t) /\ Len(s) \in Nat /\ Len(t) \in Nat
      /\ Len(s \o t) = Len(s) + Len(t)
      /\ \A i \in 1 .. Len(s \o t) :
           \/ i \in 1 .. Len(s) /\ (s \o t)[i] = s[i]
           \/ i - Len(s) \in 1 .. Len(t) /\ (s \o t)[i] = t[i - Len(s)]
  BY <1>3, <1>5, ConcatIsSequence
<1> HIDE DEF stakes, create
<1> PICK r : r = s \o t
  OBVIOUS
<1>7. ASSUME NEW i \in 1 .. Len(r)
      PROVE  \/ r[i].op = "stake" /\ r[i].node \in correct
             \/ i = Len(r) /\ r[i].op = "create" /\ r[i].parent \in correct
  <2>1. CASE i \in 1 .. Len(s) /\ r[i] = s[i]
    <3>1. path[i] \in correct
      BY <1>2, <1>3, <2>1, ElementOfSeq
    <3> QED
      BY <1>3, <2>1, <3>1
  <2>2. CASE i - Len(s) \in 1 .. Len(t) /\ r[i] = t[i - Len(s)]
    <3>1. i - Len(s) = Len(t) /\ r[i].op = "create" /\ r[i].parent \in correct
      BY <1>5, <2>2
    <3>2. i = Len(r)
      BY <1>6, <3>1
    <3> QED
      BY <3>1, <3>2
  <2> QED
    BY <1>6, <1>7, <2>1, <2>2
<1>8. ASSUME Len(r) > 0, r[1].op = "stake" PROVE prev[r[1].node] \in correct
  <2>1. 1 \in 1 .. Len(r)
    BY <1>6, <1>8
  <2>2. CASE 1 \in 1 .. Len(s) /\ r[1] = s[1]
    <3>1. path # <<>> /\ r[1].node = path[1]
      BY <1>2, <1>3, <2>2
    <3> QED
      BY <1>2, <3>1
  <2>3. CASE 1 - Len(s) \in 1 .. Len(t) /\ r[1] = t[1 - Len(s)]
    BY <1>5, <1>8, <2>3
  <2> QED
    BY <1>6, <2>1, <2>2, <2>3
<1>9. Advancing(r)
  BY <1>6, <1>7, <1>8 DEF Advancing
<1> QED
  BY <1>1, <1>9

\* Together: resolving calls before those that advance, or a new stake there
LEMMA ResolveAndAdvance ==
  ASSUME NEW s, NEW t, Resolving(s), Advancing(t)
  PROVE  Sendable(s \o t)
<1> PICK r : r = s \o t
  OBVIOUS
<1>1. IsSequence(s) /\ IsSequence(t)
  BY DEF Resolving, Advancing
<1>2. /\ IsSequence(r) /\ Len(s) \in Nat /\ Len(t) \in Nat /\ Len(r) = Len(s) + Len(t)
      /\ \A i \in 1 .. Len(r) :
           \/ i \in 1 .. Len(s) /\ r[i] = s[i]
           \/ i - Len(s) \in 1 .. Len(t) /\ r[i] = t[i - Len(s)]
  BY <1>1, ConcatIsSequence
<1>3. \A i \in 1 .. Len(r) :
        \/ r[i].op \in {"confirm", "reject", "withdraw"} /\ i <= Len(s)
        \/ r[i].op = "stake" /\ r[i].node \in correct /\ i > Len(s)
        \/ r[i].op = "create" /\ r[i].parent \in correct /\ i = Len(r) /\ i > Len(s)
  <2> SUFFICES ASSUME NEW i \in 1 .. Len(r)
               PROVE  \/ r[i].op \in {"confirm", "reject", "withdraw"} /\ i <= Len(s)
                      \/ r[i].op = "stake" /\ r[i].node \in correct /\ i > Len(s)
                      \/ r[i].op = "create" /\ r[i].parent \in correct /\ i = Len(r) /\ i > Len(s)
    OBVIOUS
  <2>1. CASE i \in 1 .. Len(s) /\ r[i] = s[i]
    <3>1. i <= Len(s)
      BY <1>2, <2>1
    <3> QED
      BY <2>1, <3>1 DEF Resolving
  <2>2. CASE i - Len(s) \in 1 .. Len(t) /\ r[i] = t[i - Len(s)]
    <3>1. i > Len(s) /\ (i - Len(s) = Len(t) => i = Len(r))
      BY <1>2, <2>2
    <3> QED
      BY <2>2, <3>1 DEF Advancing
  <2> QED
    BY <1>2, <2>1, <2>2
<1>4. ASSUME NEW i \in 1 .. Len(r), NEW j \in 1 .. Len(r), i < j PROVE Before(r[i], r[j])
  <2>1. i # Len(r) /\ (i > Len(s) => ~(j <= Len(s)))
    BY <1>2, <1>4
  <2> QED
    BY <1>3, <2>1 DEF Before
<1>5. \A i \in 1 .. Len(r) : Leads(r[i]) /\ r[i].op # "newStake"
  BY <1>3 DEF Leads
<1>6. Len(r) > 0 => r[1].op # "newStake"
  BY <1>2, <1>5
<1>7. Orderly(r)
  BY <1>4 DEF Orderly
<1>8. Sendable(r)
  BY <1>2, <1>5, <1>6, <1>7 DEF Sendable
<1> QED
  BY <1>8

LEMMA NewStakeAndAdvance ==
  ASSUME NEW c, c.op = "newStake", NEW t, Advancing(t), t # <<>>
  PROVE  Sendable(<<c>> \o t)
<1> PICK s : s = <<c>>
  OBVIOUS
<1> PICK r : r = s \o t
  OBVIOUS
<1>1. s \in Seq({c}) /\ Len(s) = 1 /\ s[1] = c
  OBVIOUS
<1>2. IsSequence(s) /\ IsSequence(t)
  BY <1>1 DEF IsSequence, Advancing
<1>3. /\ IsSequence(r) /\ Len(t) \in Nat /\ Len(r) = 1 + Len(t)
      /\ \A i \in 1 .. Len(r) :
           \/ i \in 1 .. 1 /\ r[i] = s[i]
           \/ i - 1 \in 1 .. Len(t) /\ r[i] = t[i - 1]
  BY <1>1, <1>2, ConcatIsSequence
<1>4. Len(t) > 0 /\ 2 \in 1 .. Len(r) /\ 1 \in 1 .. Len(r)
  <2>1. Len(t) # 0
    BY <1>2 DEF IsSequence
  <2> QED
    BY <1>3, <2>1
<1>5. \A i \in 1 .. Len(r) :
        \/ i = 1 /\ r[i] = c
        \/ r[i].op = "stake" /\ r[i].node \in correct
        \/ r[i].op = "create" /\ r[i].parent \in correct /\ i = Len(r)
  <2> SUFFICES ASSUME NEW i \in 1 .. Len(r)
               PROVE  \/ i = 1 /\ r[i] = c
                      \/ r[i].op = "stake" /\ r[i].node \in correct
                      \/ r[i].op = "create" /\ r[i].parent \in correct /\ i = Len(r)
    OBVIOUS
  <2>1. CASE i \in 1 .. 1 /\ r[i] = s[i]
    <3>1. i = 1
      BY <2>1
    <3> QED
      BY <1>1, <2>1, <3>1
  <2>2. CASE i - 1 \in 1 .. Len(t) /\ r[i] = t[i - 1]
    <3>1. i - 1 = Len(t) => i = Len(r)
      BY <1>3, <2>2
    <3> QED
      BY <2>2, <3>1 DEF Advancing
  <2> QED
    BY <1>3, <2>1, <2>2
<1>6. r[2] = t[1] /\ r[1] = c
  <2>1. 2 \notin 1 .. 1 /\ 2 - 1 = 1 /\ 1 - 1 \notin 1 .. Len(t)
    BY <1>3
  <2> QED
    BY <1>1, <1>3, <1>4, <2>1
<1>7. ASSUME NEW i \in 1 .. Len(r), NEW j \in 1 .. Len(r), i < j PROVE Before(r[i], r[j])
  <2>1. i # Len(r) /\ j # 1
    BY <1>3, <1>7
  <2> QED
    BY <1>5, <2>1 DEF Before
<1>8. \A i \in 1 .. Len(r) : Leads(r[i])
  BY <1>5 DEF Leads
<1>9. Len(r) > 1 /\ (r[2].op = "stake" => prev[r[2].node] \in correct)
  BY <1>3, <1>4, <1>6 DEF Advancing
<1>10. Orderly(r)
  BY <1>7 DEF Orderly
<1>11. Sendable(r)
  BY <1>3, <1>8, <1>9, <1>10 DEF Sendable
<1> QED
  BY <1>11

LEMMA OwnCallsSendable ==
  ASSUME NodesNumbered, NEW busy, NEW s \in OwnCalls(busy), s # <<>>
  PROVE  \/ \E c : s = <<c>> /\ c.op = "challenge"
         \/ Sendable(s)
<1> PICK rest : rest = ResolveCalls \o WithdrawCalls
  OBVIOUS
<1> PICK stake : stake = IF CreatingNewStake THEN <<NewStakeCall>> ELSE <<>>
  OBVIOUS
<1> PICK advance : advance = IF Advances /\ IsActive(EffectiveStrategy)
                             THEN AdvanceCalls(StartNode, busy) ELSE <<>>
  OBVIOUS
<1> PICK all : all = rest \o stake \o advance
  OBVIOUS
<1>1. \/ \E c \in ConflictCalls : s = <<c>>
      \/ s = all /\ all # stake /\ ~(Advances /\ StartNode \notin correct)
  BY DEF OwnCalls
<1>2. CASE \E c \in ConflictCalls : s = <<c>>
  <2>1. \A a, m, n : ChallengeCall(a, m, n).op = "challenge"
    BY DEF ChallengeCall
  <2>2. \A c \in ConflictCalls : \E a, m, n : c = ChallengeCall(a, m, n)
    BY DEF ConflictCalls
  <2> QED
    BY <1>2, <2>1, <2>2
<1>3. CASE s = all /\ all # stake /\ ~(Advances /\ StartNode \notin correct)
  <2>1. Resolving(rest)
    BY ResolvingFirst
  <2>2. Advancing(advance)
    <3>1. CASE Advances /\ IsActive(EffectiveStrategy)
      <4>1. StartNode = LatestStaked /\ StartNode \in correct
        BY <1>3, <3>1 DEF StartNode
      <4>2. LatestStaked \in 0 .. latestNodeCreated
        BY StakerAssumption DEF LatestStaked, NodesNumbered
      <4>3. \A m \in 0 .. latestNodeCreated : m \in NodeNums
        BY NumberedZero, BoundAssumption DEF NodesNumbered, NodeNums
      <4>4. StartNode \in NodeNums
        BY <4>1, <4>2, <4>3
      <4> QED
        BY <3>1, <4>1, <4>4, AdvanceAdvances
    <3>2. CASE ~(Advances /\ IsActive(EffectiveStrategy))
      <4>1. advance = <<>> /\ Len(advance) = 0
        BY <3>2
      <4>2. IsSequence(advance)
        BY <4>1, EmptySeq DEF IsSequence
      <4>3. ~(0 > 0) /\ 1 .. 0 = {}
        OBVIOUS
      <4> QED
        BY <4>1, <4>2, <4>3 DEF Advancing
    <3> QED
      BY <3>1, <3>2
  <2>3. IsSequence(rest) /\ IsSequence(advance)
    BY <2>1, <2>2 DEF Resolving, Advancing
  <2>4. CASE CreatingNewStake
    <3>1. rest = <<>> /\ stake = <<NewStakeCall>>
      BY <2>4 DEF CreatingNewStake
    <3>2. NewStakeCall.op = "newStake"
      BY DEF NewStakeCall
    <3> PICK c : c = NewStakeCall
      OBVIOUS
    <3>3. <<>> \o <<c>> = <<c>>
      OBVIOUS
    <3>4. all = <<c>> \o advance
      BY <3>1, <3>3
    <3>5. advance # <<>>
      <4>1. <<c>> \o <<>> = <<c>>
        OBVIOUS
      <4> QED
        BY <1>3, <3>1, <3>4, <4>1
    <3>6. Sendable(<<c>> \o advance)
      BY <2>2, <3>2, <3>5, NewStakeAndAdvance
    <3> QED
      BY <1>3, <3>4, <3>6
  <2>5. CASE ~CreatingNewStake
    <3>1. rest \o stake = rest
      <4>1. stake = <<>>
        BY <2>5
      <4>2. \E S : rest \in Seq(S)
        BY <2>3 DEF IsSequence
      <4> QED
        BY <4>1, <4>2, ConcatEmptySeq
    <3>2. Sendable(rest \o advance)
      BY <2>1, <2>2, ResolveAndAdvance
    <3> QED
      BY <1>3, <3>1, <3>2
  <2> QED
    BY <2>4, <2>5
<1> QED
  BY <1>1, <1>2, <1>3

LEMMA ActKeepsStake ==
  ASSUME StakerInv, Act PROVE StakerInv'
<1> PICK s : s = calls'
  OBVIOUS
<1>1. /\ NodesNumbered /\ CorrectExist /\ StakedOnCorrect
      /\ UNCHANGED <<vars, correct>> /\ s \in ActCalls
      /\ phase' = IF s = <<>> THEN "idle" ELSE "sent"
  BY DEF StakerInv, Act
<1>2. UNCHANGED <<chainVars, prev, stakerSet, latestStakedNode, correct>>
  BY <1>1 DEF vars, nodeConsts, stakerVars
<1>3. NodesNumbered' /\ CorrectExist' /\ StakedOnCorrect'
  <2>1. Undisturbed
    BY <1>1, <1>2, IdleUndisturbed
  <2> QED
    BY <1>1, <1>2, <2>1 DEF Undisturbed, StakedOnCorrect
<1>4. CASE s = <<>>
  BY <1>1, <1>3, <1>4 DEF StakerInv
<1>5. CASE s # <<>> /\ \E c : s = <<c>> /\ c.op \in {"refund", "timeout", "challenge"}
  <2>1. CallsOrderly' /\ Len(calls') > 0 /\ NewStakeTied'
    BY <1>5, SingleCall
  <2> QED
    BY <1>1, <1>3, <1>5, <2>1 DEF StakerInv
<1>6. CASE s # <<>> /\ Sendable(s)
  <2>1. Len(s) > 0
    BY <1>6 DEF Sendable, IsSequence
  <2>2. CallsOrderly'
    <3>1. \E S : calls' \in Seq(S)
      BY <1>6 DEF Sendable, IsSequence
    <3>2. Orderly(calls')
      BY <1>6 DEF Sendable
    <3>3. \A i \in 1 .. Len(calls') : Leads(calls[i])'
      BY <1>2, <1>6 DEF Sendable, Leads
    <3> QED
      BY <3>1, <3>2, <3>3 DEF CallsOrderly, Orderly, Before
  <2>3. NewStakeTied'
    BY <1>2, <1>6, <2>1 DEF Sendable, NewStakeTied
  <2> QED
    BY <1>1, <1>3, <1>6, <2>1, <2>2, <2>3 DEF StakerInv
<1>7. s = <<>> \/ Sendable(s) \/ \E c : s = <<c>> /\ c.op \in {"refund", "timeout", "challenge"}
  <2>1. CASE s = <<[op |-> "refund", who |-> ToEliminate]>>
    BY <2>1
  <2>2. CASE s \in TimeoutCalls
    <3>1. \E a : s = <<[op |-> "timeout", challenge |-> currentChallenge[a]]>>
      BY <2>2 DEF TimeoutCalls
    <3> QED
      BY <3>1
  <2>3. CASE \E busy \in BOOLEAN : s \in OwnCalls(busy)
    BY <1>1, <2>3, OwnCallsSendable
  <2> QED
    BY <1>1, <2>1, <2>2, <2>3 DEF ActCalls
<1> QED
  BY <1>4, <1>5, <1>6, <1>7

-----------------------------------------------------------------------------
LEMMA StakerInitially == StakerInit => StakerInv
<1> SUFFICES ASSUME StakerInit PROVE StakerInv
  OBVIOUS
<1>1. NodesNumbered
  BY BoundAssumption DEF StakerInit, Init, NodesNumbered, NodeNums
<1>2. CorrectExist /\ StakedOnCorrect
  BY DEF StakerInit, Init, CorrectExist, StakedOnCorrect
<1> QED
  BY <1>1, <1>2 DEF StakerInit, StakerInv

LEMMA StakerStep == StakerInv /\ [StakerNext]_stakerModelVars => StakerInv'
<1> SUFFICES ASSUME StakerInv, [StakerNext]_stakerModelVars PROVE StakerInv'
  OBVIOUS
<1>1. CASE Act
  BY <1>1, ActKeepsStake
<1>2. CASE Mine
  BY <1>2, MineKeepsStake
<1>3. CASE Call
  BY <1>3, CallKeepsStake
<1>4. CASE ReturnOldDeposits
  BY <1>4, ReturnKeepsStake
<1>5. CASE TimeoutChallenges
  BY <1>5, TimeoutKeepsStake
<1>6. CASE OthersStep
  <2>1. phase # "mined" /\ OthersMove /\ UNCHANGED <<phase, calls>>
    BY <1>6 DEF OthersStep, loopVars
  <2>2. Undisturbed
    BY <2>1, OthersUndisturbed DEF StakerInv
  <2> QED
    BY <2>1, <2>2, SentKeeps
<1>7. CASE BlockMined
  <2>1. /\ phase # "mined" /\ UNCHANGED <<phase, calls, correct>>
        /\ UNCHANGED <<chainVars, prev, stakerSet, latestStakedNode>>
    BY <1>7 DEF BlockMined, AdvanceBlock, nodeConsts, stakerVars
  <2>2. Undisturbed
    BY <2>1, IdleUndisturbed DEF StakerInv
  <2> QED
    BY <2>1, <2>2, SentKeeps
<1>8. CASE UNCHANGED stakerModelVars
  <2>1. UNCHANGED <<vars, loopVars, correct>>
    BY <1>8 DEF stakerModelVars
  <2>2. UNCHANGED <<latestNodeCreated, latestConfirmed, firstUnresolvedNode, prev, stakerSet,
                    latestStakedNode, phase, calls, correct>>
    BY <2>1 DEF vars, chainVars, nodeConsts, stakerVars, loopVars
  <2>3. NodesNumbered' /\ CorrectExist' /\ StakedOnCorrect'
    BY <2>2 DEF StakerInv, NodesNumbered, CorrectExist, StakedOnCorrect
  <2>4. CallsOrderly => CallsOrderly'
    BY <2>2 DEF CallsOrderly, Orderly, Before, Leads
  <2>5. (NewStakeTied => NewStakeTied') /\ (MinedTied => MinedTied')
    BY <2>2 DEF NewStakeTied, MinedTied, CreateStanding
  <2> QED
    BY <2>2, <2>3, <2>4, <2>5 DEF StakerInv
<1> QED
  BY <1>1, <1>2, <1>3, <1>4, <1>5, <1>6, <1>7, <1>8 DEF StakerNext

\* A validator of the repository is never staked on a wrong node (the second
\* half of StakeIsSafe): whatever its strategy, the bounds and its patience,
\* whatever the others do between a turn of its loop and the execution of the
\* calls it sent.
THEOREM NeverOnWrongNode == StakerSpec => []StakedOnCorrect
<1>1. StakerInit => StakerInv
  BY StakerInitially
<1>2. StakerInv /\ [StakerNext]_stakerModelVars => StakerInv'
  BY StakerStep
<1>3. StakerInv => StakedOnCorrect
  BY DEF StakerInv
<1> QED
  BY <1>1, <1>2, <1>3, PTL DEF StakerSpec
=============================================================================
