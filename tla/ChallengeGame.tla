---------------------------- MODULE ChallengeGame ----------------------------
(***************************************************************************)
(* A challenge in which one party is right and plays as the validator's    *)
(* challenger does (arb-node-core/challenge), against an opponent who may  *)
(* make any move the contract accepts.                                     *)
(*                                                                         *)
(* Truth[p] is the claim that a correct node computes for the position p   *)
(* (getCut): the first state of the execution that has used p gas, or      *)
(* Unreachable.                                                            *)
(***************************************************************************)
EXTENDS Challenge

CONSTANTS
  Truth,
  SegmentTarget       \* the challenger's SegmentTarget(), 400

ASSUME TruthAssumption ==
  /\ Truth \in [StartGas .. EndGas -> Cuts]
  /\ Truth[StartGas] = BeforeState
  /\ \A p \in StartGas .. EndGas : \A q \in p .. EndGas :
       IF Truth[p] = Unreachable THEN Truth[q] = Unreachable
       ELSE /\ p <= Gas[Truth[p]]
            /\ q <= Gas[Truth[p]] => Truth[q] = Truth[p]
            /\ Gas[Truth[p]] < q /\ Truth[p] \in Blocked => Truth[q] = Unreachable
            /\ Gas[Truth[p]] < q /\ Truth[p] \notin Blocked
                 /\ q <= Gas[Succ[Truth[p]]] => Truth[q] = Succ[Truth[p]]
\* Rollup.initialize sets challengeExecutionBisectionDegree to the same 400.
ASSUME DegreeAssumption == SegmentTarget = BisectionDegree

VARIABLE right        \* the party whose claim is true

gameVars == <<vars, right>>

GameInit ==
  /\ Init
  /\ right = IF cut[1] = Truth[EndGas] THEN "Asserter" ELSE "Challenger"

(***************************************************************************)
(* handleChallenge: the first cut that differs from the node's own ends    *)
(* the segment to answer.  The number of machine steps in the segment      *)
(* decides how.                                                            *)
(***************************************************************************)
\* Mutant: the last cut that differs.
FirstDivergence_Last(k) ==
  cut[k] # Truth[SegEnd(k)] /\ \A j \in k + 1 .. n : cut[j] = Truth[SegEnd(j)]
FirstDivergence(k) ==
  cut[k] # Truth[SegEnd(k)] /\ \A j \in 0 .. k - 1 : cut[j] = Truth[offset[j]]

EndIsUnreachable(k) == Truth[SegEnd(k)] = Unreachable
\* The execution has no step, one step, in the segment.
NoStep(k) == Gas[Truth[SegStart(k)]] >= SegEnd(k)
OneStep(k) == ~NoStep(k) /\ Gas[Succ[Truth[SegStart(k)]]] >= SegEnd(k)

\* generateBisectionCutOffsets, GetCuts
SegmentCount(k) == IF SegLength(k) < SegmentTarget THEN SegLength(k) ELSE SegmentTarget
SubCuts(k) ==
  [i \in 0 .. SegmentCount(k) |->
     Truth[CutOffsets(SegStart(k), SegLength(k), SegmentCount(k))[i]]]

MustDissect(k) == EndIsUnreachable(k) \/ (~NoStep(k) /\ ~OneStep(k))

\* The contract accepts the move that handleChallenge makes about segment k.
\* ("first cut is unreachable" is the error GetCuts returns.)
MoveAccepted(k) ==
  /\ FirstDivergence(k)
  /\ Truth[SegStart(k)] # Unreachable
  /\ IF MustDissect(k) THEN BisectionAllowed(k, SubCuts(k))
     ELSE IF NoStep(k) THEN ContinuedAllowed(k) ELSE OneStepAllowed(k)

HandleChallenge(k) ==
  /\ FirstDivergence(k)
  /\ Truth[SegStart(k)] # Unreachable
  /\ IF MustDissect(k) THEN BisectExecution(k, SubCuts(k))
     ELSE IF NoStep(k) THEN ProveContinuedExecution(k) ELSE OneStepProveExecution(k)

RightMoves == turn = right /\ (\E k \in 1 .. n : HandleChallenge(k)) /\ UNCHANGED right
WrongMoves == turn = Opponent(right) /\ AnyMove /\ UNCHANGED right
TimePasses == (AdvanceBlock \/ Timeout) /\ UNCHANGED right
OwnerClears == ClearChallenge /\ UNCHANGED right

GameNext == RightMoves \/ WrongMoves \/ TimePasses \/ OwnerClears
GameSpec == GameInit /\ [][GameNext]_gameVars

-----------------------------------------------------------------------------
\* What the two parties have to face: on its turn the right party finds a true
\* first cut and a false last one; the wrong party finds nothing but truth, or
\* the empty state that the right party's proof has left.
TruthInv ==
  /\ right \in Parties
  /\ turn = right =>
       n > 0 /\ cut[0] = Truth[offset[0]] /\ cut[n] # Truth[offset[n]]
  /\ turn = Opponent(right) => \A i \in 0 .. n : n > 0 => cut[i] = Truth[offset[i]]

\* On its turn the party that is right always has a move that the contract
\* accepts, and it is the one its challenger chooses (handleChallenge,
\* bisectExecution, proveContinuedExecution, oneStepProveExecution).
RightCanMove == turn = right => \E k \in 1 .. n : MoveAccepted(k)

\* The party that is right loses only by letting its own clock run out while it
\* has a move: never by a proof of its opponent, and never for want of a move
\* (timeout, _currentWin).
RightLosesOnlyByDelay ==
  [][winner' = Opponent(right) /\ winner = "None" =>
       /\ turn = right
       /\ TimedOut
       /\ \E k \in 1 .. n : MoveAccepted(k)]_gameVars

(***************************************************************************)
(* The validator's main loop keeps calling its challenger, blocks keep     *)
(* coming, and anyone may call timeout.                                    *)
(***************************************************************************)
FairGameSpec == GameSpec /\ WF_gameVars(RightMoves) /\ WF_gameVars(TimePasses)

\* The party that is right let its clock run out while it had a move.
RightOverdue == turn = right /\ TimedOut /\ \E k \in 1 .. n : MoveAccepted(k)

Cleared == turn = "NoChallenge" /\ winner = "None"

\* A punctual party that is right wins, whatever its opponent does: the game
\* ends, and it ends by the opponent's timeout, unless the rollup's owner
\* clears the challenge (timeout, _currentWin, clearChallenge).
RightWins == []~RightOverdue => <>(winner = right \/ Cleared)
=============================================================================
