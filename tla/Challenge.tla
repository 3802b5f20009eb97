------------------------------ MODULE Challenge ------------------------------
(***************************************************************************)
(* The challenge contract (Challenge.sol, ChallengeLib.sol): a game of two *)
(* stakers about the execution that an assertion claims.  In turn, each    *)
(* cuts the segment it disagrees with into smaller ones, or ends the game  *)
(* with a proof about a single step; each has a clock that runs during its *)
(* own turns.                                                              *)
(*                                                                         *)
(* A position is an amount of AVM gas.  A claim (assertionHash) is the     *)
(* state that the machine has once it has used at least that much gas, or  *)
(* Unreachable when it cannot get there with the messages of the           *)
(* assertion.  challengeState, a Merkle root over segments, is modelled by *)
(* the cuts it commits to: n segments between n + 1 claims; n = 0 is the   *)
(* root bytes32(0), in which no segment can be opened.                     *)
(***************************************************************************)
EXTENDS Integers

CONSTANTS
  Claims,             \* the machine states (assertionHash is injective)
  Unreachable,        \* UNREACHABLE_ASSERTION, bytes32(0)
  Gas,                \* the gas a machine state has used
  Succ,               \* executeStep of the one-step proof contracts
  Blocked,            \* the states with no step within maxMessageCount messages
  BeforeState,        \* the state the assertion starts from
  EndGas,             \* the gas the assertion claims to use
  BisectionDegree,    \* challengeExecutionBisectionDegree
  AsserterTime, ChallengerTime,
  MaxBlock            \* bound

StartGas == Gas[BeforeState]
Cuts == Claims \cup {Unreachable}

ASSUME MachineAssumption ==
  /\ Unreachable \notin Claims
  /\ BeforeState \in Claims
  /\ Gas \in [Claims -> Nat]
  /\ Blocked \subseteq Claims
  /\ Succ \in [Claims \ Blocked -> Claims]
  /\ \A c \in Claims \ Blocked : Gas[c] < Gas[Succ[c]]
ASSUME GameAssumption ==
  /\ EndGas \in Nat /\ StartGas <= EndGas
  /\ BisectionDegree \in Nat /\ BisectionDegree > 1
  /\ AsserterTime \in Nat /\ ChallengerTime \in Nat
  /\ MaxBlock \in Nat

VARIABLES
  block, lastMoveBlock,
  turn,                             \* whose turn it is
  asserterTimeLeft, challengerTimeLeft,
  n, offset, cut,                   \* challengeState
  winner                            \* whom the rollup was told to have won

clockVars == <<lastMoveBlock, turn, asserterTimeLeft, challengerTimeLeft>>
stateVars == <<n, offset, cut>>
vars == <<block, clockVars, stateVars, winner>>

Opponent(p) == IF p = "Asserter" THEN "Challenger" ELSE "Asserter"

\* initializeChallenge, with the segment of RollupLib.executionHash.
Init ==
  /\ block = 0 /\ lastMoveBlock = 0
  /\ turn = "Challenger"
  /\ asserterTimeLeft = AsserterTime
  /\ challengerTimeLeft = ChallengerTime
  /\ n = 1
  /\ offset = [i \in 0 .. 1 |-> IF i = 0 THEN StartGas ELSE EndGas]
  /\ \E after \in {c \in Claims : Gas[c] = EndGas} :
       cut = [i \in 0 .. 1 |-> IF i = 0 THEN BeforeState ELSE after]
  /\ winner = "None"

AdvanceBlock ==
  /\ block < MaxBlock
  /\ block' = block + 1
  /\ UNCHANGED <<clockVars, stateVars, winner>>

(***************************************************************************)
(* Turns and clocks: the modifier onlyOnTurn.                              *)
(***************************************************************************)
CurrentResponderTimeLeft ==
  IF turn = "Asserter" THEN asserterTimeLeft ELSE challengerTimeLeft

OnTurn ==
  /\ turn # "NoChallenge"
  /\ block - lastMoveBlock <= CurrentResponderTimeLeft       \* BIS_DEADLINE

RestartClock == block

EndTurn ==
  /\ turn' = Opponent(turn)
  /\ asserterTimeLeft' =
       IF turn = "Asserter" THEN asserterTimeLeft - (block - lastMoveBlock)
                            ELSE asserterTimeLeft
  /\ challengerTimeLeft' =
       IF turn = "Challenger" THEN challengerTimeLeft - (block - lastMoveBlock)
                              ELSE challengerTimeLeft
  /\ lastMoveBlock' = RestartClock

(***************************************************************************)
(* Segment k of the state lies between the cuts k - 1 and k.               *)
(***************************************************************************)
SegStart(k) == offset[k - 1]
SegEnd(k) == offset[k]
SegLength(k) == offset[k] - offset[k - 1]

FirstSegmentSize(total, count) == (total \div count) + (total % count)
OtherSegmentSize(total, count) == total \div count

Degree(length) == IF length < BisectionDegree THEN length ELSE BisectionDegree

\* The ends of the segments that updatedBisectionRoot hashes.
CutOffsets(start, length, count) ==
  [i \in 0 .. count |->
     IF i = 0 THEN start
     ELSE start + FirstSegmentSize(length, count)
                + (i - 1) * OtherSegmentSize(length, count)]

\* Mutant: a segment of length 1 may be cut whatever its new end.
LongEnough_Any(k, last) == TRUE
LongEnough(k, last) == last # Unreachable => SegLength(k) > 1        \* TOO_SHORT

\* Mutant: the new end may be the old one.
Disagrees_Never(k, last) == TRUE
Disagrees(k, last) == last # cut[k]                                  \* SAME_END

\* A segment of length 0 has no cut: firstSegmentSize would divide by 0.
BisectionAllowed(k, cuts) ==
  LET count == Degree(SegLength(k))
  IN  /\ count > 0
      /\ cuts \in [0 .. count -> Cuts]                               \* CUT_COUNT
      /\ LongEnough(k, cuts[count])
      /\ Disagrees(k, cuts[count])
      /\ cuts[0] = cut[k - 1]                                        \* BIS_PREV
      /\ cuts[0] # Unreachable                                       \* UNREACHABLE_START
      /\ Gas[cuts[0]] < SegEnd(k)

BisectExecution(k, cuts) ==
  /\ OnTurn
  /\ BisectionAllowed(k, cuts)
  /\ n' = Degree(SegLength(k))
  /\ offset' = CutOffsets(SegStart(k), SegLength(k), Degree(SegLength(k)))
  /\ cut' = cuts
  /\ EndTurn
  /\ UNCHANGED <<block, winner>>

\* _currentWin: the root becomes 0, and the opponent is left to time out.
CurrentWin ==
  /\ n' = 0
  /\ UNCHANGED <<offset, cut>>
  /\ EndTurn
  /\ UNCHANGED <<block, winner>>

\* Mutant: WRONG_END is not checked.
ContinuedAllowed_AnyEnd(k) == cut[k - 1] # Unreachable /\ Gas[cut[k - 1]] >= SegEnd(k)
ContinuedAllowed(k) ==
  /\ cut[k - 1] # Unreachable
  /\ Gas[cut[k - 1]] >= SegEnd(k)                                    \* NOT_CONT
  /\ cut[k - 1] # cut[k]                                             \* WRONG_END

ProveContinuedExecution(k) ==
  /\ OnTurn
  /\ ContinuedAllowed(k)
  /\ CurrentWin

\* Mutant: OSP_SHORT is not checked.
OneStepAllowed_AnyLength(k) ==
  /\ cut[k - 1] \in Claims \ Blocked
  /\ Gas[cut[k - 1]] < SegEnd(k)
  /\ cut[k] # Succ[cut[k - 1]]
OneStepAllowed(k) ==
  /\ cut[k - 1] \in Claims \ Blocked                                 \* TOO_MANY_MESSAGES
  /\ Gas[cut[k - 1]] < SegEnd(k)                                     \* OSP_CONT
  /\ Gas[Succ[cut[k - 1]]] >= SegEnd(k)                              \* OSP_SHORT
  /\ cut[k] # Succ[cut[k - 1]]                                       \* WRONG_END

OneStepProveExecution(k) ==
  /\ OnTurn
  /\ OneStepAllowed(k)
  /\ CurrentWin

\* TIMEOUT_DEADLINE
TimedOut == block - lastMoveBlock > CurrentResponderTimeLeft

Timeout ==
  /\ turn # "NoChallenge"
  /\ TimedOut
  /\ winner' = Opponent(turn)
  /\ turn' = "NoChallenge"                                           \* selfdestruct
  /\ UNCHANGED <<block, lastMoveBlock, asserterTimeLeft, challengerTimeLeft, stateVars>>

\* The rollup's owner resolves the challenge by force.
ClearChallenge ==
  /\ turn # "NoChallenge"
  /\ turn' = "NoChallenge"
  /\ UNCHANGED <<block, lastMoveBlock, asserterTimeLeft, challengerTimeLeft, stateVars, winner>>

AnyMove ==
  \E k \in 1 .. n :
    \/ \E cuts \in [0 .. Degree(SegLength(k)) -> Cuts] : BisectExecution(k, cuts)
    \/ ProveContinuedExecution(k)
    \/ OneStepProveExecution(k)

Next == AdvanceBlock \/ AnyMove \/ Timeout \/ ClearChallenge

Spec == Init /\ [][Next]_vars

-----------------------------------------------------------------------------
Parties == {"Asserter", "Challenger"}

\* The types of the contract's storage; the segments lie one behind the other
\* between the ends of the assertion.
TypeOK ==
  /\ block \in Nat /\ lastMoveBlock \in 0 .. block
  /\ turn \in Parties \cup {"NoChallenge"}
  /\ asserterTimeLeft \in Nat /\ challengerTimeLeft \in Nat
  /\ n \in Nat
  /\ n > 0 => /\ offset \in [0 .. n -> StartGas .. EndGas]
              /\ cut \in [0 .. n -> Cuts]
              /\ \A i, j \in 0 .. n : i < j => offset[i] <= offset[j]
  /\ winner \in Parties \cup {"None"}

\* No block is lost or counted twice between the two clocks: what they have left
\* and what has passed up to the last move is always what they began with.  So a
\* challenge can be ended by timeout at the latest when AsserterTime +
\* ChallengerTime + 1 blocks have passed, whatever the moves (onlyOnTurn).
ClocksConserved ==
  lastMoveBlock + asserterTimeLeft + challengerTimeLeft = AsserterTime + ChallengerTime

Narrower(k, m) == m < SegLength(k)

\* The game narrows down: each bisection replaces the segment it opens by
\* segments that are all shorter, except that a party may once answer a segment
\* of length 1 by claiming its end unreachable, and that answer cannot be
\* answered by another bisection (bisectExecution, firstSegmentSize).
BisectionNarrows ==
  [][\A k \in 1 .. n : BisectExecution(k, cut') =>
       \/ \A j \in 1 .. n' : Narrower(k, offset'[j] - offset'[j - 1])
       \/ /\ SegLength(k) = 1 /\ n' = 1
          /\ cut[k] # Unreachable /\ cut'[1] = Unreachable]_vars
=============================================================================
