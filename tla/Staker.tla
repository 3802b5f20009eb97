------------------------------- MODULE Staker --------------------------------
(***************************************************************************)
(* A validator of the repository (arb-node-core/staker) among validators   *)
(* who send whatever transactions the rollup accepts.  In a turn of its    *)
(* loop, Act reads the rollup and puts together a list of calls, which its *)
(* wallet (Validator.sol) executes all or not at all when the transaction  *)
(* is mined; by then the others may have changed what Act has read.        *)
(*                                                                         *)
(* The node's own execution tells it which assertions are correct.  That   *)
(* a validator who is right wins its challenges is ChallengeGame's         *)
(* RightWins; here a challenge that Me is in ends with Me as the winner.   *)
(* Moves in a challenge, which Act adds to its calls, are not among them.  *)
(* Act's reads see one state of the rollup; its node has caught up with    *)
(* the chain, it may challenge, and it has a destination for withdrawals.  *)
(* Deposits are not changed once made, and the rollup is neither paused    *)
(* nor shut down.                                                          *)
(***************************************************************************)
EXTENDS Rollup, Sequences, SequencesExt

CONSTANTS
  Me,               \* the wallet of the validator
  Strategies,       \* the strategies it may be configured with
  Patience,         \* the blocks it may take for a turn, or its transaction to be mined
  MaxOwnNodes,                         \* bounds: the nodes that Me makes; those of the
  MaxOthersNodes, MaxOthersStakes      \*   others and their stakes, by strategy of Me

Others == Validators \ {Me}
MakeNodes == "MakeNodes"
StakeLatest == "StakeLatest"
Defensive == "Defensive"
Watchtower == "Watchtower"

ASSUME StakerAssumption ==
  /\ Me \in Validators
  /\ Strategies \subseteq {MakeNodes, StakeLatest, Defensive, Watchtower}
  /\ Patience \in Nat \ {0}

VARIABLES
  strategy,                   \* Staker.strategy, from the configuration
  bringActiveUntilNode,       \* 0 stands for nil
  inactiveLastCheckedNode,    \* -1 stands for nil
  phase,                      \* of the loop: "idle", "sent" or, while the calls run, "mined"
  calls,                      \* the calls of the transaction
  waited,                     \* blocks since the loop's last step
  correct,                    \* the nodes whose state is the one the chain's messages lead to
  othersNodes, othersStakes

loopVars == <<phase, calls, waited>>
strategyVars == <<strategy, bringActiveUntilNode, inactiveLastCheckedNode>>
othersVars == <<othersNodes, othersStakes>>
stakerModelVars == <<vars, loopVars, strategyVars, correct, othersVars>>

StakerInit ==
  /\ Init
  /\ strategy \in Strategies
  /\ bringActiveUntilNode = 0
  /\ inactiveLastCheckedNode = -1
  /\ phase = "idle" /\ calls = <<>> /\ waited = 0
  /\ correct = {0}
  /\ othersNodes = 0 /\ othersStakes = 0

-----------------------------------------------------------------------------
(***************************************************************************)
(* What Act reads: ValidatorUtils.sol, and the node's children from events.*)
(***************************************************************************)
IsActive(s) == s \in {StakeLatest, MakeNodes}

LatestStaked == IF latestStakedNode[Me] = 0 THEN latestConfirmed ELSE latestStakedNode[Me]

AreUnresolvedNodesLinear == \A n \in Unresolved : prev[n] = n - 1

RefundableStakers ==
  {a \in stakerSet : latestStakedNode[a] <= latestConfirmed /\ currentChallenge[a] = NoChallenge}

RequireConfirmable ==
  LET n == firstUnresolvedNode
  IN  /\ UnresolvedExists
      /\ stakerSet # {}
      /\ PastDeadline(n)
      /\ PastChildConfirmDeadline(prev[n])
      /\ prev[n] = latestConfirmed
      /\ AllStaked(n)
RequireRejectable ==
  LET n == firstUnresolvedNode
  IN  /\ UnresolvedExists
      /\ prev[n] = latestConfirmed =>
           PastDeadline(n) /\ PastChildConfirmDeadline(prev[n]) /\ OnlyZombiesStaked(n)

\* The nodes on the way to n
Line[n \in NodeNums] == IF n = 0 THEN {} ELSE {n} \cup Line[prev[n]]

\* findStakerConflict: the two siblings at which the ways of Me and of a part
Conflicts(a) ==
  {c \in Line[latestStakedNode[Me]] \X Line[latestStakedNode[a]] :
     c[1] # c[2] /\ prev[c[1]] = prev[c[2]]}

Children(n) == {m \in 1 .. latestNodeCreated : prev[m] = n}

-----------------------------------------------------------------------------
(***************************************************************************)
(* generateNodeAction                                                      *)
(***************************************************************************)
OldEnough(n) == block - proposedBlock[n] >= MinimumAssertionPeriod

\* The oldest correct child is the one to stake on, every other is wrong.
\* Mutant: the youngest.
CorrectChild_Youngest(n) == Max((Children(n) \cap correct) \cup {0})
CorrectChild(n) ==
  IF Children(n) \cap correct = {} THEN 0 ELSE Min(Children(n) \cap correct)
WrongNodesExist(n) == Children(n) \ {CorrectChild(n)} # {}

\* The correct nodes after n that exist and may be examined
Successors[n \in NodeNums] ==
  IF OldEnough(n) /\ CorrectChild(n) # 0
  THEN <<CorrectChild(n)>> \o Successors[CorrectChild(n)] ELSE <<>>

\* The node's execution may be short of what an assertion needs.
CanAssert(n) ==
  /\ latestNodeCreated - othersNodes < MaxOwnNodes
  /\ \E after \in Assertions : AssertionAllowed(n, after)

\* A node is made after n.  One without siblings waits until there is enough
\* to assert (busy).  Mutant: a wrong node is not answered.
CreatesNode_Unanswered(n, s, busy) ==
  /\ n \in correct
  /\ OldEnough(n)
  /\ Children(n) = {} => busy
  /\ CorrectChild(n) = 0
  /\ s = MakeNodes
  /\ CanAssert(n)
CreatesNode(n, s, busy) ==
  /\ n \in correct
  /\ OldEnough(n)
  /\ Children(n) = {} => busy
  /\ CorrectChild(n) = 0
  /\ s # Watchtower
  /\ s = MakeNodes \/ WrongNodesExist(n)
  /\ CanAssert(n)

-----------------------------------------------------------------------------
(***************************************************************************)
(* Act                                                                     *)
(***************************************************************************)
BringActive == bringActiveUntilNode # 0 /\ LatestStaked < bringActiveUntilNode

EffectiveStrategy ==
  IF strategy = Defensive /\ (~AreUnresolvedNodesLinear \/ BringActive)
  THEN StakeLatest ELSE strategy

LastChecked ==
  IF ~AreUnresolvedNodesLinear \/ bringActiveUntilNode # 0 THEN -1
  ELSE inactiveLastCheckedNode

ShouldResolveNodes ==
  \/ EffectiveStrategy = MakeNodes
  \/ IsActive(EffectiveStrategy) /\ Me \notin stakerSet /\ CurrentRequiredStake > BaseStake

ToEliminate ==
  IF IsActive(EffectiveStrategy) THEN RefundableStakers \ {Me} ELSE RefundableStakers

ResolveCalls ==
  IF ~ShouldResolveNodes THEN <<>>
  ELSE IF RequireConfirmable THEN <<[op |-> "confirm", node |-> firstUnresolvedNode]>>
  ELSE IF RequireRejectable /\ Me \in stakerSet /\ LatestStaked > firstUnresolvedNode
  THEN <<[op |-> "reject"]>> ELSE <<>>

WithdrawCalls == IF withdrawable[Me] > 0 THEN <<[op |-> "withdraw"]>> ELSE <<>>

CreatingNewStake == Me \notin stakerSet /\ ResolveCalls \o WithdrawCalls = <<>>

\* advanceStake from node n, again and again; the loop's limit of 20 is out
\* of the bounds.
AdvanceCalls(n, busy) ==
  LET path == Successors[n]
      last == IF path = <<>> THEN n ELSE Last(path)
  IN  [i \in DOMAIN path |-> [op |-> "stake", node |-> path[i]]]
        \o IF CreatesNode(last, EffectiveStrategy, busy)
           THEN <<[op |-> "create", parent |-> last, sibling |-> latestChildNumber[last]]>>
           ELSE <<>>

\* createConflict: the first such staker in a list of any order
ChallengeCall(a, m, n) ==
  IF m < n THEN [op |-> "challenge", parties |-> <<Me, a>>, nodes |-> <<m, n>>]
  ELSE [op |-> "challenge", parties |-> <<a, Me>>, nodes |-> <<n, m>>]
ConflictCalls ==
  UNION {{ChallengeCall(a, c[1], c[2]) :
            c \in {d \in Conflicts(a) : d[1] > latestConfirmed /\ d[2] > latestConfirmed}} :
         a \in {b \in stakerSet : UnchallengedStaker(Me) /\ UnchallengedStaker(b)}}

NewStakeCall == [op |-> "newStake", amount |-> CurrentRequiredStake]

StartNode ==
  IF ~IsActive(EffectiveStrategy) /\ LastChecked # -1 THEN LastChecked ELSE LatestStaked

\* The nodes are examined.
Advances == (ShouldResolveNodes => ToEliminate = {}) /\ (Me \in stakerSet \/ CreatingNewStake)

\* resolveTimedOutChallenges; a clock of a challenge may have run out, except
\* that of Me.
TimeoutCalls ==
  {<<[op |-> "timeout", challenge |-> currentChallenge[a]]>> :
     a \in {b \in stakerSet : ShouldResolveNodes /\ currentChallenge[b] # NoChallenge}}

\* The calls of a turn that neither refunds nor times out, and may be none
OwnCalls(busy) ==
  LET stake == IF CreatingNewStake THEN <<NewStakeCall>> ELSE <<>>
      advance == IF Advances /\ IsActive(EffectiveStrategy)
                 THEN AdvanceCalls(StartNode, busy) ELSE <<>>
      all == ResolveCalls \o WithdrawCalls \o stake \o advance
  IN  IF Advances /\ StartNode \notin correct THEN {<<>>}     \* an error
      ELSE IF all = <<>> /\ ConflictCalls # {} THEN {<<c>> : c \in ConflictCalls}
      ELSE IF all = stake THEN {<<>>} ELSE {all}

\* The transactions that Act may send
ActCalls ==
  IF ShouldResolveNodes /\ ToEliminate # {} THEN {<<[op |-> "refund", who |-> ToEliminate]>>}
  ELSE TimeoutCalls \cup UNION {OwnCalls(busy) : busy \in BOOLEAN}

\* advanceStake of a validator that is not active: it goes on to the last
\* correct node, or to where it finds a wrong one.
Alarming(n) ==
  /\ EffectiveStrategy = Defensive
  /\ OldEnough(n)
  /\ WrongNodesExist(n)
  /\ CorrectChild(n) # 0 \/ CreatesNode(n, Defensive, TRUE)
Watch ==
  LET walk == <<StartNode>> \o Successors[StartNode]
      alarms == {i \in DOMAIN walk : Alarming(walk[i])}
      last == IF alarms = {} THEN Len(walk) ELSE Min(alarms)
      kept == IF BringActive THEN bringActiveUntilNode ELSE 0
  IN  IF ~IsActive(EffectiveStrategy) /\ Advances /\ StartNode \in correct
      THEN /\ inactiveLastCheckedNode' = IF last = 1 THEN LastChecked ELSE walk[last]
           /\ bringActiveUntilNode' =
                IF alarms = {} THEN kept
                ELSE IF CorrectChild(walk[last]) # 0 THEN CorrectChild(walk[last])
                ELSE walk[last] + 1
      ELSE inactiveLastCheckedNode' = LastChecked /\ bringActiveUntilNode' = kept

Act ==
  /\ phase = "idle"
  /\ calls' \in ActCalls
  /\ phase' = IF calls' = <<>> THEN "idle" ELSE "sent"
  /\ Watch
  /\ waited' = 0
  /\ UNCHANGED <<vars, strategy, correct, othersVars>>

-----------------------------------------------------------------------------
(***************************************************************************)
(* The wallet's executeTransactions, which reverts when one of its calls   *)
(* does, and returnOldDeposits, which does not.                            *)
(***************************************************************************)
\* Where Me stands when call i is made
Standing(i) ==
  IF calls[i - 1].op = "stake" THEN calls[i - 1].node ELSE latestConfirmed

\* A new node's hash holds that of its older sibling, and is compared with
\* the one that was computed when the call was made.
CallSucceeds(i) ==
  LET c == calls[i]
      standing == IF i > 1 /\ calls[i - 1].op \in {"stake", "newStake"} THEN Standing(i)
                  ELSE latestStakedNode[Me]
      staked == Me \in stakerSet \/ \E j \in 1 .. i - 1 : calls[j].op = "newStake"
  IN  CASE c.op = "confirm" -> RequireConfirmable /\ c.node = firstUnresolvedNode
        [] c.op = "reject" -> /\ RequireRejectable
                              /\ prev[firstUnresolvedNode] = latestConfirmed
                                   => OnAnotherBranch(Me, firstUnresolvedNode)
        [] c.op = "newStake" -> /\ Me \notin stakerSet \cup zombies
                                /\ c.amount >= CurrentRequiredStake
        [] c.op = "stake" -> staked /\ c.node \in Unresolved /\ prev[c.node] = standing
        [] c.op = "create" -> /\ staked /\ c.parent = standing /\ c.parent \in live
                              /\ latestChildNumber[c.parent] = c.sibling
                              /\ CanAssert(c.parent)
        [] c.op = "challenge" -> ChallengeAllowed(c.parties[1], c.parties[2],
                                                  c.nodes[1], c.nodes[2])
        [] OTHER -> TRUE

\* The transaction is mined.
Mine ==
  /\ phase = "sent"
  /\ waited' = 0
  /\ IF \A i \in DOMAIN calls : CallSucceeds(i)
     THEN phase' = "mined" /\ UNCHANGED calls
     ELSE phase' = "idle" /\ calls' = <<>>
  /\ UNCHANGED <<vars, strategyVars, correct, othersVars>>

\* One call, as the rollup executes it; nothing happens in between.
RollupCall(c) ==
  \/ c.op = "confirm" /\ ConfirmNextNode
  \/ c.op = "reject" /\ (RejectChildOfConfirmed(Me) \/ RejectOutright)
  \/ c.op = "withdraw" /\ WithdrawStakerFunds(Me)
  \/ c.op = "newStake" /\ NewStake(Me, c.amount)
  \/ c.op = "stake" /\ StakeOnExistingNode(Me, c.node)
  \/ c.op = "create" /\ \E after \in Assertions : StakeOnNewNode(Me, after)
  \/ /\ c.op = "challenge"
     /\ \/ CreateChallenge(c.parties[1], c.parties[2], c.nodes[1], c.nodes[2])
        \/ ForfeitLateChallenge(c.parties[1], c.parties[2], c.nodes[1], c.nodes[2])

Call ==
  /\ phase = "mined"
  /\ RollupCall(Head(calls))
  /\ calls' = Tail(calls)
  /\ phase' = IF Len(calls) = 1 THEN "idle" ELSE "mined"
  /\ correct' = IF Head(calls).op = "create" /\ Head(calls).parent = latestStakedNode[Me]
                THEN correct \cup {latestNodeCreated'} ELSE correct
  /\ UNCHANGED <<waited, strategyVars, othersVars>>

ReturnOldDeposits ==
  /\ phase = "mined"
  /\ Head(calls).op = "refund"
  /\ \E a \in Head(calls).who :
       /\ IF a \in RefundableStakers THEN ReturnOldDeposit(a) ELSE UNCHANGED vars
       /\ calls' = IF Head(calls).who = {a} THEN <<>>
                   ELSE <<[op |-> "refund", who |-> Head(calls).who \ {a}]>>
  /\ phase' = IF calls' = <<>> THEN "idle" ELSE "mined"
  /\ UNCHANGED <<waited, strategyVars, correct, othersVars>>

\* timeoutChallenges
TimeoutChallenges ==
  /\ phase = "mined"
  /\ Head(calls).op = "timeout"
  /\ IF \E a \in stakerSet : currentChallenge[a] = Head(calls).challenge
     THEN \E a \in Validators, b \in Others :
            currentChallenge[b] = Head(calls).challenge /\ CompleteChallenge(a, b)
     ELSE UNCHANGED vars
  /\ phase' = "idle" /\ calls' = <<>>
  /\ UNCHANGED <<waited, strategyVars, correct, othersVars>>

-----------------------------------------------------------------------------
(***************************************************************************)
(* The others, and time.                                                   *)
(***************************************************************************)
\* A node is correct if its assertion is and if its parent is.
OthersCreate(a) ==
  /\ othersNodes < MaxOthersNodes[strategy]
  /\ \E after \in Assertions : StakeOnNewNode(a, after)
  /\ \/ UNCHANGED correct
     \/ latestStakedNode[a] \in correct /\ correct' = correct \cup {latestNodeCreated'}
  /\ othersNodes' = othersNodes + 1
  /\ UNCHANGED othersStakes

OthersStake(a) ==
  /\ othersStakes < MaxOthersStakes[strategy]
  /\ \E amount \in Amounts : NewStake(a, amount)
  /\ othersStakes' = othersStakes + 1
  /\ UNCHANGED <<correct, othersNodes>>

OthersMove ==
  \/ \E a \in Others : OthersCreate(a) \/ OthersStake(a)
  \/ /\ \/ \E a \in Others, n \in NodeNums : StakeOnExistingNode(a, n)
        \/ \E a \in Validators : ReturnOldDeposit(a)
        \/ ResolveStep
        \/ \E a, b \in stakerSet, m, n \in Unresolved :
             CreateChallenge(a, b, m, n) \/ ForfeitLateChallenge(a, b, m, n)
        \/ \E a \in Validators, b \in Others : CompleteChallenge(a, b)
        \/ ZombieStep
        \/ SequencerBatch
     /\ UNCHANGED <<correct, othersVars>>

OthersStep == phase # "mined" /\ OthersMove /\ UNCHANGED <<loopVars, strategyVars>>

\* The loop gets its turn, and its transactions are mined, within Patience.
BlockMined ==
  /\ phase # "mined"
  /\ waited < Patience
  /\ AdvanceBlock
  /\ waited' = waited + 1
  /\ UNCHANGED <<phase, calls, strategyVars, correct, othersVars>>

StakerNext == Act \/ Mine \/ Call \/ ReturnOldDeposits \/ TimeoutChallenges
              \/ OthersStep \/ BlockMined

StakerSpec == StakerInit /\ [][StakerNext]_stakerModelVars

-----------------------------------------------------------------------------
Guards == strategy \in {StakeLatest, Defensive}

\* One punctual validator is enough: as long as it is there, no node is
\* confirmed that does not follow from the chain's messages.
OnlyCorrectConfirmed == Guards => latestConfirmed \in correct

\* It is never staked on a wrong node, although the calls it puts together
\* run when the others may have changed what it read.
StakedOnCorrect == Me \in stakerSet => latestStakedNode[Me] \in correct

\* Its stake is safe: it is never on a wrong node, and never too late with
\* its answer to one.
StakeIsSafe == Me \notin zombies /\ StakedOnCorrect
=============================================================================
