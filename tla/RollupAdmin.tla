----------------------------- MODULE RollupAdmin -----------------------------
(***************************************************************************)
(* The owner's calls on the rollup (RollupAdmin.sol): pausing it, the      *)
(* forced repairs made while it is paused, and its shutdown for the        *)
(* migration to Nitro.  They interleave with the validators' transactions  *)
(* of module Rollup.  The setters of parameters are left out: Rollup has   *)
(* the parameters as constants.                                            *)
(***************************************************************************)
EXTENDS Rollup

VARIABLE
  owner            \* what the owner is up to: it calls anything, repairs, or migrates

adminSpecVars == <<vars, owner>>

-----------------------------------------------------------------------------
Pause ==
  /\ WhenNotPaused
  /\ paused' = TRUE
  /\ UNCHANGED <<block, shutdownForNitroBlock, chainVars, live, nodeConsts, childVars,
                 stakers, stakerVars, zombieVars, fundVars, messageVars>>

Resume ==
  /\ paused
  /\ paused' = FALSE
  /\ UNCHANGED <<block, shutdownForNitroBlock, chainVars, live, nodeConsts, childVars,
                 stakers, stakerVars, zombieVars, fundVars, messageVars>>

ClearChallenges(a, b) ==
  currentChallenge' = [currentChallenge EXCEPT ![a] = NoChallenge, ![b] = NoChallenge]

\* The owner names the two parties of a challenge, which is destroyed.
ForceResolveChallenge(a, b) ==
  /\ paused
  /\ a # b
  /\ currentChallenge[a] # NoChallenge         \* NO_CHAL
  /\ currentChallenge[a] = currentChallenge[b] \* DIFF_IN_CHAL
  /\ ClearChallenges(a, b)
  /\ UNCHANGED <<block, adminVars, chainVars, live, nodeConsts, childVars, stakers,
                 stakerSet, latestStakedNode, amountStaked, zombieVars, fundVars,
                 messageVars>>

\* reduceStakeTo(a, 0).  Mutant: the stake is not credited.
RefundStake_Kept(a) ==
  amountStaked' = [amountStaked EXCEPT ![a] = 0] /\ UNCHANGED withdrawable
RefundStake(a) ==
  /\ amountStaked' = [amountStaked EXCEPT ![a] = 0]
  /\ IncreaseWithdrawable(a, amountStaked[a])

\* turnIntoZombie.  Mutant: the staker is deleted as by withdrawStaker.
TurnIntoZombie_Deleted(a) == UNCHANGED zombieVars
TurnIntoZombie(a) ==
  /\ zombies' = zombies \cup {a}
  /\ zombieNode' = [zombieNode EXCEPT ![a] = latestStakedNode[a]]

\* The owner names a staker, in a challenge or not: what it staked is
\* returned to it and it becomes a zombie.
ForceRefundStaker(a) ==
  /\ paused
  /\ a \in stakerSet
  /\ RefundStake(a)
  /\ TurnIntoZombie(a)
  /\ currentChallenge' = [currentChallenge EXCEPT ![a] = NoChallenge]
  /\ stakerSet' = stakerSet \ {a}
  /\ latestStakedNode' = [latestStakedNode EXCEPT ![a] = 0]
  /\ UNCHANGED <<block, adminVars, chainVars, live, nodeConsts, childVars, stakers,
                 balance, messageVars>>

\* A node after the latest confirmed one on which nobody is staked.  The
\* conditions of createNewNode hold, those of stakeOnNewNode are skipped.
ForceCreateNode(after) ==
  LET p == latestConfirmed
      n == latestNodeCreated + 1
      before == afterState[p]
  IN  /\ paused
      /\ n <= MaxNodes
      /\ p \in live
      /\ after.gasUsed >= before.gasUsed
      /\ after.inboxCount <= sequencedCount    \* INBOX_PAST_END
      /\ latestChildNumber[p] \in {0} \cup live
      /\ latestNodeCreated' = n
      /\ live' = live \cup {n}
      /\ prev' = [prev EXCEPT ![n] = p]
      /\ deadlineBlock' = [deadlineBlock EXCEPT
           ![n] = NodeDeadline(p, after.gasUsed - before.gasUsed)]
      /\ proposedBlock' = [proposedBlock EXCEPT ![n] = block]
      /\ afterState' = [afterState EXCEPT
           ![n] = [gasUsed |-> after.gasUsed, inboxCount |-> after.inboxCount,
                   sendCount |-> after.sendCount, inboxMaxCount |-> sequencedCount]]
      /\ firstChildBlock' = [firstChildBlock EXCEPT ![p] = IF @ = 0 THEN block ELSE @]
      /\ latestChildNumber' = [latestChildNumber EXCEPT ![p] = n]
      /\ noChildConfirmedBeforeBlock' =
           [noChildConfirmedBeforeBlock EXCEPT ![n] = deadlineBlock'[n]]
      /\ delayedCount' = delayedCount + 1      \* nodeCreated
      /\ UNCHANGED <<block, adminVars, latestConfirmed, firstUnresolvedNode, stakers,
                     stakerVars, zombieVars, fundVars, sequencedCount, outboxCount>>

\* Mutant: the skipped nodes stay unresolved.
FirstUnresolvedAfter_Incremented(n) == firstUnresolvedNode + 1
FirstUnresolvedAfter(n) == n + 1

\* confirmNode on any node that exists: neither the deadline nor the stakers
\* nor the place of the node in the tree are checked.
ForceConfirmNode(n) ==
  /\ paused
  /\ n \in live
  /\ outboxCount' = outboxCount + SendsOf(n)
  /\ DestroyNode(latestConfirmed)
  /\ latestConfirmed' = n
  /\ firstUnresolvedNode' = FirstUnresolvedAfter(n)
  /\ delayedCount' = delayedCount + 1          \* nodeConfirmed
  /\ UNCHANGED <<block, adminVars, latestNodeCreated, nodeConsts, childVars, stakers,
                 stakerVars, zombieVars, fundVars, sequencedCount>>

-----------------------------------------------------------------------------
(***************************************************************************)
(* The shutdown walks down from the latest node to the latest confirmed    *)
(* one, keeps the path to the final node and destroys the rest.            *)
(***************************************************************************)
PathTo(final) ==
  LET path[n \in NodeNums] ==
        IF n <= latestConfirmed THEN {} ELSE {n} \cup path[prev[n]]
  IN  path[final]

ShutdownForNitro(final, destroyAlternatives, destroyChallenges) ==
  LET above     == latestConfirmed + 1 .. latestNodeCreated
      destroyed == above \ PathTo(final)
      released  == {a \in stakerSet : latestStakedNode[a] \notin live \ destroyed}
      inChall   == {a \in stakerSet : currentChallenge[a] # NoChallenge}
      cleared   == UNION {{currentChallenge[a].asserter, currentChallenge[a].challenger}
                            : a \in inChall}
  IN  /\ WhenNotPaused
      /\ ~ShutdownForNitroMode
      /\ final <= latestNodeCreated
      /\ above \subseteq live                  \* each is called: prev() or destroy()
      /\ destroyed # {} => destroyAlternatives \* ALTERNATIVES_NOT_EXPECTED
      /\ inChall # {} => destroyChallenges     \* CHALLENGE_NOT_EXPECTED
      /\ live' = live \ destroyed
      /\ currentChallenge' = [a \in Validators |->
           IF a \in cleared \cup released THEN NoChallenge ELSE currentChallenge[a]]
      \* withdrawStaker for those whose node is gone
      /\ withdrawable' = [a \in Accounts |->
           withdrawable[a] + (IF a \in released THEN amountStaked[a] ELSE 0)]
      /\ amountStaked' = [a \in Validators |-> IF a \in released THEN 0 ELSE amountStaked[a]]
      /\ latestStakedNode' =
           [a \in Validators |-> IF a \in released THEN 0 ELSE latestStakedNode[a]]
      /\ stakerSet' = stakerSet \ released
      /\ shutdownForNitroBlock' = block
      /\ paused' = TRUE
      /\ UNCHANGED <<block, chainVars, nodeConsts, childVars, stakers, zombieVars, balance,
                     messageVars>>

UndoShutdownForNitro ==
  /\ paused
  /\ ShutdownForNitroMode                      \* NOT_SHUTDOWN_MODE
  /\ shutdownForNitroBlock' = MaxBlock + 1
  /\ paused' = FALSE
  /\ UNCHANGED <<block, chainVars, live, nodeConsts, childVars, stakers, stakerVars,
                 zombieVars, fundVars, messageVars>>

-----------------------------------------------------------------------------
AdminInit ==
  /\ Init
  /\ owner \in {"any", "repairs", "migrates"}

PauseStep == Pause \/ Resume

\* The owner calls anything at any time.
AnyOwnerStep ==
  \/ PauseStep
  \/ \E a, b \in Validators : ForceResolveChallenge(a, b)
  \/ \E a \in Validators : ForceRefundStaker(a)
  \/ \E after \in Assertions : ForceCreateNode(after)
  \/ \E n \in NodeNums : ForceConfirmNode(n)
  \/ \E n \in NodeNums, alternatives, challenges \in BOOLEAN :
       ShutdownForNitro(n, alternatives, challenges)
  \/ UndoShutdownForNitro

\* The repair as the test "should allow admin to alter rollup while paused"
\* makes it: challenges are resolved before their parties are refunded, and
\* a child of the latest confirmed node is confirmed when no staker is left.
RepairStep ==
  \/ PauseStep
  \/ \E a, b \in Validators : ForceResolveChallenge(a, b)
  \/ \E a \in Validators : currentChallenge[a] = NoChallenge /\ ForceRefundStaker(a)
  \/ \E after \in Assertions : ForceCreateNode(after)
  \/ \E n \in NodeNums :
       /\ stakerSet = {}
       /\ n > latestConfirmed
       /\ prev[n] = latestConfirmed
       /\ ForceConfirmNode(n)

\* The migration: the owner shuts the rollup down, when there is neither an
\* alternative nor a challenge, and leaves it so.
MigrateStep == \E n \in NodeNums : ShutdownForNitro(n, FALSE, FALSE)

AdminNext ==
  /\ \/ Next
     \/ owner = "any" /\ AnyOwnerStep
     \/ owner = "repairs" /\ RepairStep
     \/ owner = "migrates" /\ MigrateStep
  /\ UNCHANGED owner

AdminSpec == AdminInit /\ [][AdminNext]_adminSpecVars

-----------------------------------------------------------------------------
(***************************************************************************)
(* Properties.                                                             *)
(***************************************************************************)
\* After any repair the rollup is not stuck: requireUnresolvedExists asks for
\* a first unresolved node above the latest confirmed one, and the nodes that
\* are still called exist, which are the latest confirmed one, all the
\* unresolved ones and the older sibling that the creation of a node under
\* one of them reads.  (Nodes that a forced confirmation skipped exist as
\* well, and are not called any more.)
RepairedNotStuck == owner = "repairs" =>
  /\ latestConfirmed < firstUnresolvedNode
  /\ \A p \in {latestConfirmed} \cup Unresolved :
       p \in live /\ latestChildNumber[p] \in {0} \cup live

\* A repair leaves stakes, zombies and challenges as they are after the
\* validators' own transactions: each zombie is on one path of the tree, and
\* no validator is in a challenge that the other party does not know of.
RepairedConsistent == owner = "repairs" => StakeChain /\ ChallengesMatched

\* The contract can pay all that it owes.
FundsCovered ==
  balance >= SumFunctionOnSet(amountStaked, Validators)
               + SumFunctionOnSet(withdrawable, Accounts)

\* No call of the owner takes from a validator what it staked or may
\* withdraw: repairs and the shutdown return stakes in full; and the contract
\* can still pay all of it, after any calls of the owner and whatever the
\* validators make of the state that they leave.
OwnerTakesNothing ==
  [][/\ AnyOwnerStep => \A a \in Validators :
          amountStaked'[a] + withdrawable'[a] >= amountStaked[a] + withdrawable[a]
     /\ FundsCovered']_adminSpecVars

\* nitroStep2: "The validator is now able to confirm all pending nodes between
\* latestConfirmed and latestCreated": after the shutdown, and as long as a
\* staker is ahead of the latest confirmed node, confirmNextNode passes all
\* that it requires, or will once a deposit that is left behind, of which
\* there are finitely many, has been returned.  (Nodes that no staker stands
\* on stay as they are: nobody can stake in a shutdown.)
ShutdownNotStuck ==
  /\ owner = "migrates"
  /\ ShutdownForNitroMode
  /\ \E a \in stakerSet : latestStakedNode[a] \in Unresolved
  => ConfirmRequirements \/ \E a \in Validators : ReturnRequirements(a)
====
