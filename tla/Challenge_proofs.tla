-------------------------- MODULE Challenge_proofs --------------------------
(***************************************************************************)
(* Proofs about Challenge and ChallengeGame: the contract's clocks add up, *)
(* the dispute narrows, and a party that is right, about an execution that *)
(* is reached throughout, cannot be beaten.                                *)
(***************************************************************************)
EXTENDS ChallengeGame, WellFoundedInduction, TLAPS

(***************************************************************************)
(* The sizes of the segments.                                              *)
(***************************************************************************)

\* Quotient and remainder.
LEMMA DivMod ==
  ASSUME NEW a \in Nat, NEW d \in Nat \ {0}
  PROVE  /\ a \div d \in Nat /\ a % d \in Nat
         /\ a = d * (a \div d) + (a % d)
         /\ a % d < d
BY SMT

\* The cuts of a segment begin and end with it and stand in order
\* (updatedBisectionRoot).
LEMMA CutOffsetsInSegment ==
  ASSUME NEW s \in Nat, NEW l \in Nat, NEW d \in Nat \ {0}
  PROVE  LET o == CutOffsets(s, l, d)
         IN  /\ o \in [0 .. d -> s .. s + l]
             /\ o[0] = s /\ o[d] = s + l
             /\ \A i, j \in 0 .. d : i < j => o[i] <= o[j]
<1> DEFINE q == l \div d
           r == l % d
           o == CutOffsets(s, l, d)
<1>1. q \in Nat /\ r \in Nat /\ l = d * q + r
  BY DivMod
<1>2. \A i \in 0 .. d : o[i] = IF i = 0 THEN s ELSE s + (q + r) + (i - 1) * q
  BY DEF CutOffsets, FirstSegmentSize, OtherSegmentSize
<1>3. o = [i \in 0 .. d |-> o[i]]
  BY DEF CutOffsets
<1> HIDE DEF q, r, o
<1>4. \A i \in 0 .. d : i # 0 => o[i] = s + r + i * q
  BY <1>1, <1>2
<1>5. o[0] = s /\ o[d] = s + l
  BY <1>1, <1>2, <1>4
<1>6. \A i, j \in 0 .. d : i < j => o[i] <= o[j]
  <2> SUFFICES ASSUME NEW i \in 0 .. d, NEW j \in 0 .. d, i < j
               PROVE  o[i] <= o[j]
    OBVIOUS
  <2>1. i * q <= j * q /\ 0 <= j * q /\ i * q \in Int /\ j * q \in Int
    BY <1>1
  <2> QED
    BY <1>1, <1>4, <1>5, <2>1
<1>7. \A i \in 0 .. d : o[i] \in s .. s + l
  <2> SUFFICES ASSUME NEW i \in 0 .. d PROVE o[i] \in s .. s + l
    OBVIOUS
  <2>1. o[i] \in Int
    <3>1. i * q \in Int
      BY <1>1
    <3> QED
      BY <1>1, <1>4, <1>5, <3>1
  <2>2. s <= o[i]
    BY <1>5, <1>6, <2>1
  <2>3. o[i] <= s + l
    BY <1>5, <1>6, <2>1
  <2> QED
    BY <2>1, <2>2, <2>3
<1> QED
  BY <1>3, <1>5, <1>6, <1>7 DEF o

\* The segments of a bisection into at least two are shorter than what they
\* divide (firstSegmentSize, otherSegmentSize).
LEMMA CutsNarrow ==
  ASSUME NEW s \in Nat, NEW l \in Nat, NEW d \in Nat, d > 1, d <= l,
         NEW j \in 1 .. d
  PROVE  CutOffsets(s, l, d)[j] - CutOffsets(s, l, d)[j - 1] < l
<1> DEFINE q == l \div d
           r == l % d
           o == CutOffsets(s, l, d)
<1>1. q \in Nat /\ r \in Nat /\ l = d * q + r /\ r < d
  BY DivMod
<1>2. \A i \in 0 .. d : o[i] = IF i = 0 THEN s ELSE s + (q + r) + (i - 1) * q
  BY DEF CutOffsets, FirstSegmentSize, OtherSegmentSize
<1>3. q # 0
  BY <1>1
<1> HIDE DEF q, r, o
<1>4. d * q >= 2 * q /\ q >= 1
  BY <1>1, <1>3
<1>5. CASE j = 1
  <2>1. o[1] - o[0] = q + r
    BY <1>1, <1>2
  <2> QED
    BY <1>1, <1>4, <1>5, <2>1 DEF o
<1>6. CASE j # 1
  <2>1. o[j] = s + (q + r) + (j - 1) * q /\ o[j - 1] = s + (q + r) + (j - 2) * q
    BY <1>1, <1>2, <1>6
  <2>2. (j - 1) * q = (j - 2) * q + q /\ (j - 2) * q \in Int
    BY <1>1, <1>6
  <2>3. o[j] - o[j - 1] = q
    BY <1>1, <2>1, <2>2
  <2> QED
    BY <1>1, <1>4, <2>3 DEF o
<1> QED
  BY <1>5, <1>6

(***************************************************************************)
(* The contract.                                                           *)
(***************************************************************************)

\* The facts about a segment of the state that every move relies on.
LEMMA SegmentType ==
  ASSUME TypeOK, NEW k \in 1 .. n
  PROVE  /\ n \in Nat /\ n > 0 /\ k \in 0 .. n /\ k - 1 \in 0 .. n
         /\ SegStart(k) \in StartGas .. EndGas /\ SegEnd(k) \in StartGas .. EndGas
         /\ SegLength(k) \in Nat /\ SegStart(k) + SegLength(k) = SegEnd(k)
         /\ SegStart(k) \in Nat /\ SegEnd(k) \in Nat
         /\ StartGas \in Nat
         /\ cut[k - 1] \in Cuts /\ cut[k] \in Cuts
<1>1. n \in Nat /\ n > 0 /\ k \in 0 .. n /\ k - 1 \in 0 .. n
  BY DEF TypeOK
<1>2. StartGas \in Nat /\ EndGas \in Nat
  BY MachineAssumption, GameAssumption DEF StartGas
<1>3. /\ offset[k] \in StartGas .. EndGas /\ offset[k - 1] \in StartGas .. EndGas
      /\ offset[k - 1] <= offset[k] /\ cut[k - 1] \in Cuts /\ cut[k] \in Cuts
  BY <1>1 DEF TypeOK
<1> QED
  BY <1>1, <1>2, <1>3 DEF SegStart, SegEnd, SegLength

\* The clocks after a move (onlyOnTurn).
LEMMA EndTurnType ==
  ASSUME TypeOK, OnTurn, EndTurn, UNCHANGED block
  PROVE  /\ block' \in Nat /\ lastMoveBlock' \in 0 .. block'
         /\ turn' \in Parties \cup {"NoChallenge"}
         /\ asserterTimeLeft' \in Nat /\ challengerTimeLeft' \in Nat
         /\ ClocksConserved => ClocksConserved'
<1>1. CASE turn = "Asserter"
  BY <1>1, GameAssumption DEF TypeOK, OnTurn, EndTurn, RestartClock,
     CurrentResponderTimeLeft, Opponent, Parties, ClocksConserved
<1>2. CASE turn = "Challenger"
  BY <1>2, GameAssumption DEF TypeOK, OnTurn, EndTurn, RestartClock,
     CurrentResponderTimeLeft, Opponent, Parties, ClocksConserved
<1> QED
  BY <1>1, <1>2 DEF TypeOK, OnTurn, Parties

\* The state after a bisection (bisectExecution).
LEMMA BisectionType ==
  ASSUME TypeOK, NEW k \in 1 .. n, NEW cuts, BisectionAllowed(k, cuts)
  PROVE  LET d == Degree(SegLength(k))
             o == CutOffsets(SegStart(k), SegLength(k), d)
         IN  /\ d \in Nat \ {0} /\ d <= SegLength(k)
             /\ o \in [0 .. d -> StartGas .. EndGas]
             /\ o[0] = SegStart(k) /\ o[d] = SegEnd(k)
             /\ \A i, j \in 0 .. d : i < j => o[i] <= o[j]
             /\ cuts \in [0 .. d -> Cuts]
<1> DEFINE d == Degree(SegLength(k))
           o == CutOffsets(SegStart(k), SegLength(k), d)
<1>1. /\ SegStart(k) \in Nat /\ SegLength(k) \in Nat
      /\ SegStart(k) + SegLength(k) = SegEnd(k)
      /\ SegStart(k) \in StartGas .. EndGas /\ SegEnd(k) \in StartGas .. EndGas
      /\ StartGas \in Nat /\ EndGas \in Nat
  BY SegmentType, GameAssumption
<1>2. d \in Nat /\ d > 0 /\ d <= SegLength(k) /\ cuts \in [0 .. d -> Cuts]
  BY <1>1, GameAssumption DEF BisectionAllowed, Degree
<1>3. /\ o \in [0 .. d -> SegStart(k) .. SegStart(k) + SegLength(k)]
      /\ o[0] = SegStart(k) /\ o[d] = SegStart(k) + SegLength(k)
      /\ \A i, j \in 0 .. d : i < j => o[i] <= o[j]
  <2>1. d \in Nat \ {0}
    BY <1>2
  <2> HIDE DEF d
  <2> QED
    BY <1>1, <2>1, CutOffsetsInSegment, Zenon
<1>4. SegStart(k) .. SegStart(k) + SegLength(k) \subseteq StartGas .. EndGas
  BY <1>1
<1> HIDE DEF d, o
<1>5. o \in [0 .. d -> StartGas .. EndGas]
  BY <1>3, <1>4
<1> QED
  BY <1>1, <1>2, <1>3, <1>5 DEF d, o

\* Initially the state is well typed and the clocks are full.
LEMMA ContractInit == Init => TypeOK /\ ClocksConserved
<1> SUFFICES ASSUME Init PROVE TypeOK /\ ClocksConserved
  OBVIOUS
<1>1. StartGas \in Nat /\ EndGas \in Nat /\ StartGas <= EndGas
  BY MachineAssumption, GameAssumption DEF StartGas
<1>2. offset \in [0 .. 1 -> StartGas .. EndGas]
      /\ \A i, j \in 0 .. 1 : i < j => offset[i] <= offset[j]
  BY <1>1 DEF Init
<1>3. cut \in [0 .. 1 -> Cuts]
  BY MachineAssumption DEF Init, Cuts
<1> QED
  BY <1>2, <1>3, GameAssumption DEF Init, TypeOK, Parties, ClocksConserved

\* Every move keeps the types and the sum of the clocks.
LEMMA MoveType ==
  ASSUME TypeOK, ClocksConserved, NEW k \in 1 .. n,
         \/ \E cuts : BisectExecution(k, cuts)
         \/ ProveContinuedExecution(k)
         \/ OneStepProveExecution(k)
  PROVE  TypeOK' /\ ClocksConserved'
<1>1. CASE \E cuts : BisectExecution(k, cuts)
  <2> PICK cuts : BisectExecution(k, cuts)
    BY <1>1
  <2>1. OnTurn /\ EndTurn /\ UNCHANGED block /\ BisectionAllowed(k, cuts)
        /\ n' = Degree(SegLength(k)) /\ cut' = cuts /\ winner' = winner
        /\ offset' = CutOffsets(SegStart(k), SegLength(k), Degree(SegLength(k)))
    BY DEF BisectExecution
  <2>2. /\ n' \in Nat /\ offset' \in [0 .. n' -> StartGas .. EndGas]
        /\ \A i, j \in 0 .. n' : i < j => offset'[i] <= offset'[j]
        /\ cut' \in [0 .. n' -> Cuts]
    BY <2>1, BisectionType
  <2> QED
    BY <2>1, <2>2, EndTurnType DEF TypeOK
<1>2. CASE ProveContinuedExecution(k) \/ OneStepProveExecution(k)
  <2>1. OnTurn /\ EndTurn /\ UNCHANGED block /\ n' = 0 /\ winner' = winner
    BY <1>2 DEF ProveContinuedExecution, OneStepProveExecution, CurrentWin
  <2> QED
    BY <2>1, EndTurnType DEF TypeOK
<1> QED
  BY <1>1, <1>2

\* Every step of the contract keeps them.
LEMMA ContractStep ==
  TypeOK /\ ClocksConserved /\ [Next]_vars => TypeOK' /\ ClocksConserved'
<1> SUFFICES ASSUME TypeOK, ClocksConserved, [Next]_vars
             PROVE  TypeOK' /\ ClocksConserved'
  OBVIOUS
<1>1. CASE AdvanceBlock
  BY <1>1, GameAssumption DEF AdvanceBlock, TypeOK, ClocksConserved, clockVars, stateVars
<1>2. CASE AnyMove
  BY <1>2, MoveType DEF AnyMove
<1>3. CASE Timeout
  BY <1>3 DEF Timeout, TypeOK, ClocksConserved, stateVars, Opponent, Parties
<1>4. CASE ClearChallenge
  BY <1>4 DEF ClearChallenge, TypeOK, ClocksConserved, stateVars
<1>5. CASE UNCHANGED vars
  BY <1>5 DEF vars, TypeOK, ClocksConserved, clockVars, stateVars
<1> QED
  BY <1>1, <1>2, <1>3, <1>4, <1>5 DEF Next

\* The state of the challenge contract keeps its types, and the segments stay in
\* order between the ends of the assertion, whatever the parties do.
THEOREM ChallengeTypeCorrect == Spec => []TypeOK
BY ContractInit, ContractStep, PTL DEF Spec

\* The two clocks always add up: a challenge can be ended by timeout after at
\* most AsserterTime + ChallengerTime + 1 blocks.
THEOREM ClocksAddUp == Spec => []ClocksConserved
BY ContractInit, ContractStep, PTL DEF Spec

\* Every bisection narrows the dispute, down to single positions.
THEOREM DisputeNarrows == Spec => BisectionNarrows
<1> DEFINE A ==
      \A k \in 1 .. n : BisectExecution(k, cut') =>
        \/ \A j \in 1 .. n' : Narrower(k, offset'[j] - offset'[j - 1])
        \/ /\ SegLength(k) = 1 /\ n' = 1
           /\ cut[k] # Unreachable /\ cut'[1] = Unreachable
<1>1. TypeOK => A
  <2> SUFFICES ASSUME TypeOK, NEW k \in 1 .. n, BisectExecution(k, cut')
               PROVE  \/ \A j \in 1 .. n' : Narrower(k, offset'[j] - offset'[j - 1])
                      \/ /\ SegLength(k) = 1 /\ n' = 1
                         /\ cut[k] # Unreachable /\ cut'[1] = Unreachable
    OBVIOUS
  <2>1. /\ BisectionAllowed(k, cut') /\ n' = Degree(SegLength(k))
        /\ offset' = CutOffsets(SegStart(k), SegLength(k), n')
    BY DEF BisectExecution
  <2>2. SegStart(k) \in Nat /\ SegLength(k) \in Nat /\ n' \in Nat /\ n' > 0 /\ n' <= SegLength(k)
    BY <2>1, SegmentType, BisectionType
  <2>3. CASE n' > 1
    BY <2>1, <2>2, <2>3, CutsNarrow DEF Narrower
  <2>4. CASE n' = 1
    <3>1. SegLength(k) = 1
      BY <2>1, <2>2, <2>4, GameAssumption DEF Degree
    <3>2. cut'[1] = Unreachable /\ cut[k] # Unreachable
      BY <2>1, <2>4, <3>1 DEF BisectionAllowed, LongEnough, Disagrees
    <3> QED
      BY <2>4, <3>1, <3>2
  <2> QED
    BY <2>2, <2>3, <2>4
<1> QED
  BY <1>1, ChallengeTypeCorrect, PTL DEF BisectionNarrows

(***************************************************************************)
(* The game.                                                               *)
(***************************************************************************)

\* The game is played by the contract's rules.
LEMMA GameStepIsContractStep ==
  ASSUME TypeOK, [GameNext]_gameVars
  PROVE  [Next]_vars
<1>1. CASE RightMoves
  <2>1. PICK k \in 1 .. n : HandleChallenge(k)
    BY <1>1 DEF RightMoves
  <2>2. CASE BisectExecution(k, SubCuts(k))
    <3>1. SubCuts(k) \in [0 .. Degree(SegLength(k)) -> Cuts]
      BY <2>2, BisectionType DEF BisectExecution
    <3> QED
      BY <2>2, <3>1 DEF Next, AnyMove
  <2> QED
    BY <2>1, <2>2 DEF HandleChallenge, Next, AnyMove
<1>2. CASE WrongMoves \/ TimePasses \/ OwnerClears
  BY <1>2 DEF WrongMoves, TimePasses, OwnerClears, Next
<1> QED
  BY <1>1, <1>2 DEF GameNext, gameVars

\* What the execution reaches between two positions (getCut).
LEMMA TruthBetween ==
  ASSUME NEW p \in StartGas .. EndGas, NEW q \in StartGas .. EndGas, p <= q
  PROVE  IF Truth[p] = Unreachable THEN Truth[q] = Unreachable
         ELSE /\ Truth[p] \in Claims
              /\ p <= Gas[Truth[p]]
              /\ q <= Gas[Truth[p]] => Truth[q] = Truth[p]
              /\ Gas[Truth[p]] < q /\ Truth[p] \in Blocked => Truth[q] = Unreachable
              /\ Gas[Truth[p]] < q /\ Truth[p] \notin Blocked
                   /\ q <= Gas[Succ[Truth[p]]] => Truth[q] = Succ[Truth[p]]
<1>1. StartGas \in Nat /\ EndGas \in Nat
  BY MachineAssumption, GameAssumption DEF StartGas
<1>2. q \in p .. EndGas
  BY <1>1
<1>3. Truth[p] \in Cuts
  BY TruthAssumption
<1> QED
  BY <1>2, <1>3, TruthAssumption DEF Cuts

\* No proof beats a segment whose two ends are true.
LEMMA TruthIsNotRefuted ==
  ASSUME TypeOK, NEW k \in 1 .. n,
         cut[k - 1] = Truth[SegStart(k)], cut[k] = Truth[SegEnd(k)]
  PROVE  ~ContinuedAllowed(k) /\ ~OneStepAllowed(k)
<1>1. /\ SegStart(k) \in StartGas .. EndGas /\ SegEnd(k) \in StartGas .. EndGas
      /\ SegStart(k) <= SegEnd(k) /\ SegStart(k) \in Nat /\ SegEnd(k) \in Nat
  BY SegmentType
<1>2. ~ContinuedAllowed(k)
  <2> SUFFICES ASSUME ContinuedAllowed(k) PROVE FALSE
    OBVIOUS
  <2>1. Truth[SegEnd(k)] = Truth[SegStart(k)]
    BY <1>1, TruthBetween DEF ContinuedAllowed
  <2> QED
    BY <2>1 DEF ContinuedAllowed
<1>3. ~OneStepAllowed(k)
  <2> SUFFICES ASSUME OneStepAllowed(k) PROVE FALSE
    OBVIOUS
  <2>1. Truth[SegStart(k)] \in Claims \ Blocked /\ Truth[SegStart(k)] # Unreachable
    BY MachineAssumption DEF OneStepAllowed
  <2>2. Truth[SegEnd(k)] = Succ[Truth[SegStart(k)]]
    BY <1>1, <2>1, TruthBetween DEF OneStepAllowed
  <2> QED
    BY <2>2 DEF OneStepAllowed
<1> QED
  BY <1>2, <1>3

\* The asserter is right only about what is reached.
AsserterReaches == right = "Asserter" => Truth[EndGas] # Unreachable

\* The first move is the challenger's: it faces the claim of the asserter.
LEMMA GameStart == GameInit => TruthInv /\ AsserterReaches
<1> SUFFICES ASSUME GameInit PROVE TruthInv /\ AsserterReaches
  OBVIOUS
<1>1. PICK after \in {c \in Claims : Gas[c] = EndGas} :
        cut = [i \in 0 .. 1 |-> IF i = 0 THEN BeforeState ELSE after]
  BY DEF GameInit, Init
<1>2. cut[0] = BeforeState /\ cut[1] = after /\ after # Unreachable
  BY <1>1, MachineAssumption
<1>3. n = 1 /\ offset[0] = StartGas /\ offset[1] = EndGas /\ turn = "Challenger"
  BY DEF GameInit, Init
<1>4. \A i \in 0 .. n : i = 0 \/ i = 1
  BY <1>3
<1> QED
  BY <1>2, <1>3, <1>4, TruthAssumption DEF GameInit, TruthInv, AsserterReaches, Parties, Opponent

\* After a move of the right party all the cuts are true, or no segment is left.
LEMMA RightKeepsTruth ==
  ASSUME TypeOK, TruthInv, RightMoves
  PROVE  TruthInv'
<1>1. PICK k \in 1 .. n : HandleChallenge(k)
  BY DEF RightMoves
<1>2. turn' = Opponent(right) /\ right' = right /\ right \in Parties /\ turn' # right
  BY <1>1 DEF RightMoves, HandleChallenge, BisectExecution, ProveContinuedExecution,
     OneStepProveExecution, CurrentWin, EndTurn, TruthInv, Opponent, Parties
<1>3. CASE BisectExecution(k, SubCuts(k))
  <2>1. /\ n' = Degree(SegLength(k)) /\ cut' = SubCuts(k)
        /\ offset' = CutOffsets(SegStart(k), SegLength(k), n')
    BY <1>3 DEF BisectExecution
  <2>2. SegmentCount(k) = n'
    BY <2>1, DegreeAssumption DEF SegmentCount, Degree
  <2>3. \A i \in 0 .. n' : cut'[i] = Truth[offset'[i]]
    BY <2>1, <2>2 DEF SubCuts
  <2> QED
    BY <1>2, <2>3 DEF TruthInv
<1>4. CASE ProveContinuedExecution(k) \/ OneStepProveExecution(k)
  <2>1. n' = 0
    BY <1>4 DEF ProveContinuedExecution, OneStepProveExecution, CurrentWin
  <2> QED
    BY <1>2, <2>1 DEF TruthInv
<1> QED
  BY <1>1, <1>3, <1>4 DEF HandleChallenge

\* After a move of the wrong party the first cut is true and the last is false.
LEMMA WrongMustLie ==
  ASSUME TypeOK, TruthInv, WrongMoves
  PROVE  TruthInv'
<1>1. turn = Opponent(right) /\ right' = right /\ right \in Parties
  BY DEF WrongMoves, TruthInv
<1>2. PICK k \in 1 .. n :
        \/ \E cuts \in [0 .. Degree(SegLength(k)) -> Cuts] : BisectExecution(k, cuts)
        \/ ProveContinuedExecution(k)
        \/ OneStepProveExecution(k)
  BY DEF WrongMoves, AnyMove
<1>3. n > 0 /\ k \in 0 .. n /\ k - 1 \in 0 .. n
  BY SegmentType
<1>4. cut[k - 1] = Truth[SegStart(k)] /\ cut[k] = Truth[SegEnd(k)]
  BY <1>1, <1>3 DEF TruthInv, SegStart, SegEnd
<1>5. PICK cuts : BisectExecution(k, cuts)
  BY <1>2, <1>4, TruthIsNotRefuted DEF ProveContinuedExecution, OneStepProveExecution
<1>6. /\ n' = Degree(SegLength(k)) /\ cut' = cuts /\ BisectionAllowed(k, cuts)
      /\ offset' = CutOffsets(SegStart(k), SegLength(k), n') /\ turn' = Opponent(turn)
  BY <1>5 DEF BisectExecution, EndTurn
<1>7. n' \in Nat \ {0} /\ offset'[0] = SegStart(k) /\ offset'[n'] = SegEnd(k)
  BY <1>6, BisectionType
<1>8. cut'[0] = cut[k - 1] /\ cut'[n'] # cut[k]
  BY <1>6 DEF BisectionAllowed, Disagrees
<1>9. turn' = right /\ turn' # Opponent(right)
  BY <1>1, <1>6 DEF Opponent, Parties
<1> QED
  BY <1>1, <1>4, <1>7, <1>8, <1>9 DEF TruthInv

\* Every step of the game keeps the inductive invariant.
LEMMA GameStep ==
  TypeOK /\ TruthInv /\ AsserterReaches /\ [GameNext]_gameVars => TruthInv' /\ AsserterReaches'
<1> SUFFICES ASSUME TypeOK, TruthInv, AsserterReaches, [GameNext]_gameVars
             PROVE  TruthInv' /\ AsserterReaches'
  OBVIOUS
<1>1. AsserterReaches'
  BY DEF AsserterReaches, GameNext, RightMoves, WrongMoves, TimePasses, OwnerClears, gameVars
<1>2. CASE RightMoves
  BY <1>1, <1>2, RightKeepsTruth
<1>3. CASE WrongMoves
  BY <1>1, <1>3, WrongMustLie
<1>4. CASE AdvanceBlock /\ UNCHANGED right
  BY <1>1, <1>4 DEF AdvanceBlock, TruthInv, clockVars, stateVars
<1>5. CASE Timeout /\ UNCHANGED right
  BY <1>1, <1>5 DEF Timeout, TruthInv, stateVars, Parties, Opponent
<1>6. CASE OwnerClears
  BY <1>1, <1>6 DEF OwnerClears, ClearChallenge, TruthInv, stateVars, Parties, Opponent
<1>7. CASE UNCHANGED gameVars
  BY <1>1, <1>7 DEF gameVars, vars, TruthInv, clockVars, stateVars
<1> QED
  BY <1>1, <1>2, <1>3, <1>4, <1>5, <1>6, <1>7 DEF GameNext, TimePasses

\* On its turn the right party faces a true first and a false last cut; the
\* wrong party faces nothing but truth.
THEOREM TruthIsKept == GameSpec => [](TypeOK /\ TruthInv /\ AsserterReaches)
<1>1. GameInit => TypeOK /\ TruthInv /\ AsserterReaches /\ ClocksConserved
  BY GameStart, ContractInit DEF GameInit
<1>2. TypeOK /\ TruthInv /\ AsserterReaches /\ ClocksConserved /\ [GameNext]_gameVars
        => (TypeOK /\ TruthInv /\ AsserterReaches /\ ClocksConserved)'
  BY GameStep, GameStepIsContractStep, ContractStep
<1> QED
  BY <1>1, <1>2, PTL DEF GameSpec

\* Every nonempty set of naturals has a least element.
LEMMA LeastNumber ==
  ASSUME NEW T, T \subseteq Nat, T # {}
  PROVE  \E x \in T : \A y \in T : x <= y
<1> DEFINE R == OpToRel(<, Nat)
<1>1. PICK x \in T : \A y \in T : ~(<<y, x>> \in R)
  <2>1. IsWellFoundedOn(R, Nat)
    BY NatLessThanWellFounded, Zenon DEF R
  <2> HIDE DEF R
  <2> QED
    BY <2>1, WFMin, Zenon
<1>2. \A y \in T : ~(y < x)
  BY <1>1 DEF OpToRel
<1> QED
  BY <1>2

\* The execution reaches every position of the assertion.
AllReached == \A p \in StartGas .. EndGas : Truth[p] # Unreachable

\* If the end of the assertion is reached, so is every position before.
LEMMA EndReached == Truth[EndGas] # Unreachable => AllReached
<1> SUFFICES ASSUME Truth[EndGas] # Unreachable, NEW p \in StartGas .. EndGas
             PROVE  Truth[p] # Unreachable
  BY DEF AllReached
<1>1. EndGas \in StartGas .. EndGas /\ p <= EndGas
  BY MachineAssumption, GameAssumption DEF StartGas
<1> QED
  BY <1>1, TruthBetween

\* The challenger's move is accepted.
LEMMA MoveExists ==
  ASSUME TypeOK, TruthInv, AllReached
  PROVE  RightCanMove
<1> SUFFICES ASSUME turn = right PROVE \E k \in 1 .. n : MoveAccepted(k)
  BY DEF RightCanMove
<1> DEFINE T == {i \in 0 .. n : cut[i] # Truth[offset[i]]}
<1>1. n \in Nat /\ n > 0 /\ cut[0] = Truth[offset[0]] /\ n \in T
  BY DEF TypeOK, TruthInv
<1>2. PICK k \in T : \A i \in T : k <= i
  <2>1. T \subseteq Nat /\ T # {}
    BY <1>1
  <2> QED
    BY <2>1, LeastNumber
<1>3. k \in 1 .. n
  BY <1>1, <1>2
<1>4. FirstDivergence(k)
  BY <1>1, <1>2, <1>3 DEF FirstDivergence, SegEnd
<1> DEFINE p == SegStart(k)
           q == SegEnd(k)
           s == Truth[p]
<1>5. /\ p \in StartGas .. EndGas /\ q \in StartGas .. EndGas /\ p \in Nat /\ q \in Nat
      /\ SegLength(k) \in Nat /\ p + SegLength(k) = q
  BY <1>3, SegmentType
<1>6. cut[k - 1] = s /\ cut[k] # Truth[q]
  BY <1>3, <1>4 DEF FirstDivergence, SegStart
<1>7. s # Unreachable /\ Truth[q] # Unreachable
  BY <1>5 DEF AllReached
<1>8. /\ s \in Claims /\ p <= Gas[s] /\ Gas[s] \in Nat
      /\ q <= Gas[s] => Truth[q] = s
      /\ Gas[s] < q => s \notin Blocked
      /\ Gas[s] < q /\ q <= Gas[Succ[s]] => Truth[q] = Succ[s]
  <2>1. p <= q
    BY <1>5
  <2> QED
    BY <1>5, <1>7, <2>1, TruthBetween, MachineAssumption
<1>9. s \notin Blocked => Gas[Succ[s]] \in Nat /\ Gas[s] < Gas[Succ[s]]
  BY <1>8, MachineAssumption
<1> HIDE DEF p, q, s
<1>10. CASE NoStep(k)
  <2>1. Gas[s] >= q
    BY <1>10 DEF NoStep, p, q, s
  <2>2. ContinuedAllowed(k)
    BY <1>6, <1>7, <1>8, <1>5, <2>1 DEF ContinuedAllowed, q
  <2>3. ~MustDissect(k)
    BY <1>7, <1>10 DEF MustDissect, EndIsUnreachable, q
  <2> QED
    BY <1>3, <1>4, <1>7, <1>10, <2>2, <2>3 DEF MoveAccepted, s, p
<1>11. CASE OneStep(k)
  <2>1. Gas[s] < q /\ Gas[Succ[s]] >= q
    BY <1>5, <1>8, <1>11 DEF OneStep, NoStep, p, q, s
  <2>2. OneStepAllowed(k)
    BY <1>5, <1>6, <1>8, <1>9, <2>1 DEF OneStepAllowed, q
  <2>3. ~MustDissect(k) /\ ~NoStep(k)
    BY <1>7, <1>11 DEF MustDissect, EndIsUnreachable, OneStep, q
  <2> QED
    BY <1>3, <1>4, <1>7, <2>2, <2>3 DEF MoveAccepted, s, p
<1>12. CASE ~NoStep(k) /\ ~OneStep(k)
  <2> DEFINE d == Degree(SegLength(k))
             o == CutOffsets(SegStart(k), SegLength(k), d)
  <2>1. Gas[s] < q /\ Gas[Succ[s]] < q
    BY <1>5, <1>8, <1>9, <1>12 DEF OneStep, NoStep, p, q, s
  <2>2. SegLength(k) > 1
    BY <1>5, <1>8, <1>9, <2>1
  <2>3. d \in Nat \ {0} /\ d <= SegLength(k) /\ SegmentCount(k) = d
    BY <1>5, <2>2, GameAssumption, DegreeAssumption DEF Degree, SegmentCount
  <2> HIDE DEF d
  <2>4. /\ o \in [0 .. d -> p .. p + SegLength(k)]
        /\ o[0] = p /\ o[d] = p + SegLength(k)
    <3>1. SegStart(k) \in Nat /\ SegLength(k) \in Nat /\ d \in Nat \ {0}
      BY <1>5, <2>3 DEF p
    <3>2. /\ o \in [0 .. d -> SegStart(k) .. SegStart(k) + SegLength(k)]
          /\ o[0] = SegStart(k) /\ o[d] = SegStart(k) + SegLength(k)
          /\ \A i, j \in 0 .. d : i < j => o[i] <= o[j]
      BY <3>1, CutOffsetsInSegment, Zenon
    <3> HIDE DEF o
    <3> QED
      BY <3>2, Zenon DEF p
  <2>5. p .. p + SegLength(k) \subseteq StartGas .. EndGas
    BY <1>5, MachineAssumption, GameAssumption DEF StartGas
  <2>6. SubCuts(k) = [i \in 0 .. d |-> Truth[o[i]]]
    BY <2>3 DEF SubCuts
  <2> HIDE DEF o
  <2>7. SubCuts(k) \in [0 .. d -> Cuts] /\ SubCuts(k)[0] = s /\ SubCuts(k)[d] = Truth[q]
    <3>1. \A i \in 0 .. d : Truth[o[i]] \in Cuts
      BY <2>4, <2>5, TruthAssumption
    <3> QED
      BY <1>5, <2>3, <2>4, <2>6, <3>1 DEF s
  <2>8. BisectionAllowed(k, SubCuts(k))
    BY <1>6, <1>7, <2>1, <2>2, <2>3, <2>7
       DEF BisectionAllowed, LongEnough, Disagrees, d, q
  <2>9. MustDissect(k)
    BY <1>12 DEF MustDissect
  <2> QED
    BY <1>3, <1>4, <1>7, <2>8, <2>9 DEF MoveAccepted, s, p
<1> QED
  BY <1>10, <1>11, <1>12

\* When every position of the assertion is reached, the party that is right
\* always has a move that the contract accepts.
THEOREM RightHasMove == AllReached => (GameSpec => []RightCanMove)
<1> SUFFICES ASSUME AllReached PROVE GameSpec => []RightCanMove
  OBVIOUS
<1>1. TypeOK /\ TruthInv => RightCanMove
  BY MoveExists
<1> QED
  BY <1>1, TruthIsKept, PTL

\* An asserter who is right always has a move that the contract accepts: its
\* assertion's end is reached.
THEOREM AsserterHasMove == GameSpec => [](right = "Asserter" => RightCanMove)
<1>1. TypeOK /\ TruthInv /\ AsserterReaches => (right = "Asserter" => RightCanMove)
  BY MoveExists, EndReached DEF AsserterReaches
<1> QED
  BY <1>1, TruthIsKept, PTL

\* When every position of the assertion is reached, the party that is right loses
\* only by letting its clock run out while it has a move.
THEOREM RightNotBeaten == AllReached => (GameSpec => RightLosesOnlyByDelay)
<1> SUFFICES ASSUME AllReached PROVE GameSpec => RightLosesOnlyByDelay
  OBVIOUS
<1> DEFINE A == winner' = Opponent(right) /\ winner = "None" =>
                  turn = right /\ TimedOut /\ \E k \in 1 .. n : MoveAccepted(k)
<1>1. TypeOK /\ TruthInv /\ [GameNext]_gameVars => [A]_gameVars
  <2> SUFFICES ASSUME TypeOK, TruthInv, [GameNext]_gameVars,
                      winner' = Opponent(right), winner = "None"
               PROVE  turn = right /\ TimedOut /\ \E k \in 1 .. n : MoveAccepted(k)
    OBVIOUS
  <2>1. winner' # winner
    BY DEF Opponent
  <2>2. Timeout
    BY <2>1 DEF GameNext, RightMoves, WrongMoves, AnyMove, HandleChallenge, TimePasses,
       OwnerClears, ClearChallenge,
       AdvanceBlock, BisectExecution, ProveContinuedExecution, OneStepProveExecution,
       CurrentWin, gameVars, vars
  <2>3. turn = right /\ TimedOut
    BY <2>2 DEF Timeout, TypeOK, TruthInv, Opponent, Parties
  <2> QED
    BY <2>3, MoveExists DEF RightCanMove
<1> QED
  BY <1>1, TruthIsKept, PTL DEF GameSpec, RightLosesOnlyByDelay
=============================================================================
