--------------------------- MODULE LockoutManager ----------------------------
(***************************************************************************)
(* The lockout manager of every sequencer (arb-rpc-node/rpc/lockout.go):   *)
(* a loop that keeps the liveliness key alive, selects a sequencer, takes  *)
(* the lockout or makes way, and points the RPC calls of its node at the   *)
(* node's own batcher, at another sequencer or at an error.  The lockout   *)
(* is the one of Lease.  Redis may be out of reach of a sequencer for so   *)
(* long that its keys end, and may lose its answers.                       *)
(*                                                                         *)
(* Beside the loop run the node's calls of SendTransaction and its inbox   *)
(* reader, which share the two mutexes with it: b.mutex (mutex) and        *)
(* MessageDeliveryMutex (delivery).  A sequencer that has found that it    *)
(* should sequence does so before its lockout ends (MaxLatency is for      *)
(* this).                                                                  *)
(***************************************************************************)
EXTENDS Lease, Naturals, Sequences, SequencesExt

CONSTANTS
  Priorities,       \* the value of lockout.priorities, best first
  Nil,              \* lastLockedSeqNum before it is read
  MaxMessages, MaxFaults        \* bounds

VARIABLES
  \* redis
  live,             \* the sequencers whose liveliness key is set
  latest,           \* lockout.sequenceNumber, 0 if it is not set
  \* the manager of every sequencer
  pc,               \* where it is in its loop
  selectedSeq, targetSeqNum,      \* local to a turn: NoOne and 0 outside of their use
  currentSeq, currentBatcher, lastLockedSeqNum,
  lively,           \* the sequencers whose livelinessExpiresAt has not come yet
  deadUntil,        \* deadUntil has not come yet
  mutex,            \* holdingMutex
  \* the rest of its node
  up,               \* the process runs
  db,               \* the messages of its core
  delivery,         \* who holds MessageDeliveryMutex
  call,             \* a call of SendTransaction
  \* history
  published,        \* the messages counted in lockout.sequenceNumber the last time
  clean,            \* the order of the messages was never put at risk, see below
  faults            \* crashes, fatal errors, lost answers and losses of contact

redisVars == <<leaseVars, live, latest, published>>
loopVars == <<pc, selectedSeq, currentSeq, currentBatcher, lastLockedSeqNum, targetSeqNum,
              lively, deadUntil, mutex>>
nodeVars == <<up, db, delivery, call>>
historyVars == <<clean, faults>>
vars == <<redisVars, loopVars, nodeVars, historyVars>>

Own == "own"                        \* currentBatcher: b.sequencerBatcher
Error == "error"                    \* an ErrorBatcher
None == "none"                      \* nil
Free == "free"
Manager == "manager"
SendTx == "sendTx"
Idle == "idle"
Queued == "queued"                  \* waits for MessageDeliveryMutex
Locked == "locked"                  \* has it

\* No sequencer is called like a batcher that is none.
ASSUME LockoutManagerAssumption ==
  /\ Priorities \in Seq(Sequencers)
  /\ NoOne \notin Sequencers
  /\ {Own, Error, None} \cap (Sequencers \cup {NoOne}) = {}

StartsUp(s) ==
  /\ pc' = [pc EXCEPT ![s] = "top"]
  /\ selectedSeq' = [selectedSeq EXCEPT ![s] = NoOne]
  /\ currentSeq' = [currentSeq EXCEPT ![s] = Nil]
  /\ currentBatcher' = [currentBatcher EXCEPT ![s] = Error]
  /\ lastLockedSeqNum' = [lastLockedSeqNum EXCEPT ![s] = Nil]
  /\ targetSeqNum' = [targetSeqNum EXCEPT ![s] = 0]
  /\ lively' = lively \ {s}
  /\ deadUntil' = [deadUntil EXCEPT ![s] = FALSE]
  /\ mutex' = [mutex EXCEPT ![s] = FALSE]

All(v) == [s \in Sequencers |-> v]

Init ==
  /\ LeaseInit
  /\ live = {} /\ latest = 0 /\ published = <<>>
  /\ pc = All("top") /\ selectedSeq = All(NoOne) /\ currentSeq = All(Nil)
  /\ currentBatcher = All(Error) /\ lastLockedSeqNum = All(Nil) /\ targetSeqNum = All(0)
  /\ lively = {} /\ deadUntil = All(FALSE) /\ mutex = All(FALSE)
  /\ up = All(TRUE) /\ db = All(<<>>) /\ delivery = All(Free) /\ call = All(Idle)
  /\ clean = TRUE /\ faults = 0

\* The order is at risk when a lockout ends with messages that are not counted,
\* when the position expires before everyone has what it counts, when a
\* sequencer regains the lockout behind the position, or when it sequences
\* delayed messages after its lockout has ended.
Risks(risk) == clean' = (clean /\ ~risk)

Fault == faults < MaxFaults /\ faults' = faults + 1

GetMessageCount(s) == Len(db[s])
hasSequencerLockout(s) == s \in has
ShouldSequence(s) == currentBatcher[s] = Own /\ hasSequencerLockout(s)

-----------------------------------------------------------------------------
(***************************************************************************)
(* One turn of the loop.                                                   *)
(***************************************************************************)
At(s, place) == up[s] /\ pc[s] = place
Goto(s, place) == pc' = [pc EXCEPT ![s] = place]

\* Mutant: it must be ahead of the position.
FellBehind_AtPosition(s) ==
  lastLockedSeqNum[s] = Nil \/ GetMessageCount(s) <= lastLockedSeqNum[s]
FellBehind(s) ==
  lastLockedSeqNum[s] = Nil \/ GetMessageCount(s) < lastLockedSeqNum[s]

\* A key that lasts after its time in memory is in the way of its own sequencer.
AcquireOrUpdateLiveliness(s) ==
  IF s \in live THEN UNCHANGED <<live, lively>>
  ELSE live' = live \cup {s} /\ lively' = lively \cup {s}
ReleaseLiveliness(s) ==
  IF s \in lively THEN live' = live \ {s} /\ lively' = lively \ {s}
  ELSE UNCHANGED <<live, lively>>

\* Without the lockout only a sequencer that has caught up is alive.
KeepAlive(s) ==
  LET waits == ~deadUntil[s] /\ ~hasSequencerLockout(s)
      behind == waits /\ FellBehind(s)
  IN /\ At(s, "top")
     /\ IF behind THEN ReleaseLiveliness(s)
        ELSE IF deadUntil[s] THEN UNCHANGED <<live, lively>>
        ELSE AcquireOrUpdateLiveliness(s)
     /\ lastLockedSeqNum' = [lastLockedSeqNum EXCEPT ![s] = IF waits THEN latest ELSE @]
     /\ Goto(s, "select")
     /\ UNCHANGED <<leaseVars, latest, published, selectedSeq, currentSeq, currentBatcher,
                    targetSeqNum, deadUntil, mutex, nodeVars, historyVars>>

selectSequencer ==
  LET first == SelectInSeq(Priorities, LAMBDA s : s \in live)
  IN IF first = 0 THEN NoOne ELSE Priorities[first]

\* The branches of the loop begin.  A sequencer that makes way needs
\* MessageDeliveryMutex before b.mutex.
Select(s) ==
  LET selected == selectSequencer
      stays == selected # s /\ selected = currentSeq[s]
      makesWay == selected # s /\ ~stays /\ currentBatcher[s] = Own
  IN /\ At(s, "select")
     /\ selectedSeq' = [selectedSeq EXCEPT ![s] = IF selected = s \/ stays THEN NoOne ELSE selected]
     /\ Goto(s, IF selected = s THEN "acquire" ELSE IF stays THEN "top"
                ELSE IF makesWay THEN "makeWay" ELSE "follow")
     /\ mutex' = [mutex EXCEPT ![s] = @ \/ ~(stays \/ makesWay)]
     /\ UNCHANGED <<redisVars, currentSeq, currentBatcher, lastLockedSeqNum, targetSeqNum,
                    lively, deadUntil, nodeVars, historyVars>>

\* acquireOrUpdateLockout: the attempt succeeds unless the key is another's.
\* If its answer is lost, the key is in the way of the repeated one.
AcquireOrUpdateLockout(s) ==
  LET free == s \in lively /\ (hasSequencerLockout(s) \/ key = NoOne)
  IN \/ free /\ Grant(s) /\ UNCHANGED faults
     \/ free /\ Stray(s) /\ Fault
     \/ ~free /\ UNCHANGED <<leaseVars, faults>>

\* Mutant: a new holder does not catch up.
MustCatchUp_Never(s) == FALSE
MustCatchUp(s) == currentBatcher[s] # Own

Acquire(s) ==
  /\ At(s, "acquire")
  /\ AcquireOrUpdateLockout(s)
  /\ \/ /\ s \notin has'
        /\ Goto(s, "top")
        /\ UNCHANGED <<currentSeq, currentBatcher, targetSeqNum, lastLockedSeqNum, mutex, clean>>
     \/ /\ s \in has' /\ MustCatchUp(s)
        /\ targetSeqNum' = [targetSeqNum EXCEPT ![s] = latest]
        /\ lastLockedSeqNum' = [lastLockedSeqNum EXCEPT ![s] = latest]
        /\ Goto(s, "catchUp")
        /\ UNCHANGED <<currentSeq, currentBatcher, mutex, clean>>
     \/ /\ s \in has' /\ ~MustCatchUp(s)
        /\ currentSeq' = [currentSeq EXCEPT ![s] = s]
        /\ currentBatcher' = [currentBatcher EXCEPT ![s] = Own]
        /\ mutex' = [mutex EXCEPT ![s] = FALSE]
        /\ Goto(s, "publish")
        /\ Risks(s \notin has /\ currentBatcher[s] = Own /\ ~IsPrefix(published, db[s]))
        /\ UNCHANGED <<targetSeqNum, lastLockedSeqNum>>
  /\ UNCHANGED <<live, latest, published, selectedSeq, lively, deadUntil, nodeVars>>

\* currentSeqNum has reached targetSeqNum.  The lockout is looked at once more.
CatchUp(s) ==
  /\ At(s, "catchUp")
  /\ GetMessageCount(s) >= targetSeqNum[s]
  /\ targetSeqNum' = [targetSeqNum EXCEPT ![s] = 0]
  /\ Goto(s, IF hasSequencerLockout(s) THEN "delayed" ELSE "ready")
  /\ UNCHANGED <<redisVars, selectedSeq, currentSeq, currentBatcher, lastLockedSeqNum, lively,
                 deadUntil, mutex, nodeVars, historyVars>>

ReleaseLockout(s) == IF hasSequencerLockout(s) THEN Lapse(s) ELSE UNCHANGED leaseVars

\* A fatalError: too slow to catch up, or the delayed messages could not be
\* sequenced.  It is bound to come when a call keeps the inbox reader waiting.
Fails(s) ==
  /\ \/ At(s, "catchUp") /\ GetMessageCount(s) < targetSeqNum[s]
     \/ At(s, "delayed") /\ delivery[s] = Free
  /\ \/ Fault
     \/ delivery[s] # Free /\ UNCHANGED faults
  /\ currentBatcher' = [currentBatcher EXCEPT ![s] = Error]
  /\ currentSeq' = [currentSeq EXCEPT ![s] = Nil]
  /\ mutex' = [mutex EXCEPT ![s] = FALSE]
  /\ ReleaseLockout(s)
  /\ ReleaseLiveliness(s)
  /\ targetSeqNum' = [targetSeqNum EXCEPT ![s] = 0]
  /\ deadUntil' = [deadUntil EXCEPT ![s] = TRUE]
  /\ Goto(s, "top")
  /\ UNCHANGED <<latest, published, selectedSeq, lastLockedSeqNum, nodeVars, clean>>

\* Five minutes have passed.
DeadUntilComes(s) ==
  /\ up[s] /\ deadUntil[s]
  /\ deadUntil' = [deadUntil EXCEPT ![s] = FALSE]
  /\ UNCHANGED <<redisVars, pc, selectedSeq, currentSeq, currentBatcher, lastLockedSeqNum,
                 targetSeqNum, lively, mutex, nodeVars, historyVars>>

\* SequenceDelayedMessages(ctx, true): takes MessageDeliveryMutex and does not
\* ask ShouldSequence.
SequenceDelayedMessages(s) ==
  /\ At(s, "delayed")
  /\ delivery[s] = Free
  /\ \/ UNCHANGED <<db, clean>>
     \/ /\ Len(db[s]) < MaxMessages
        /\ db' = [db EXCEPT ![s] = Append(@, s)]
        /\ Risks(~hasSequencerLockout(s))
  /\ Goto(s, "ready")
  /\ UNCHANGED <<redisVars, selectedSeq, currentSeq, currentBatcher, lastLockedSeqNum,
                 targetSeqNum, lively, deadUntil, mutex, up, delivery, call, faults>>

Ready(s) ==
  /\ At(s, "ready")
  /\ currentBatcher' = [currentBatcher EXCEPT ![s] = Own]
  /\ currentSeq' = [currentSeq EXCEPT ![s] = s]
  /\ mutex' = [mutex EXCEPT ![s] = FALSE]
  /\ Goto(s, "publish")
  /\ UNCHANGED <<redisVars, selectedSeq, lastLockedSeqNum, targetSeqNum, lively, deadUntil,
                 nodeVars, historyVars>>

\* updateLatestSeqNum, unless the lockout has ended.
UpdateLatestSeqNum(s) ==
  IF hasSequencerLockout(s) THEN latest' = GetMessageCount(s) /\ published' = db[s]
  ELSE UNCHANGED <<latest, published>>

Publish(s) ==
  /\ At(s, "publish")
  /\ UpdateLatestSeqNum(s)
  /\ lastLockedSeqNum' = [lastLockedSeqNum EXCEPT ![s] = GetMessageCount(s)]
  /\ Goto(s, "top")
  /\ UNCHANGED <<leaseVars, live, selectedSeq, currentSeq, currentBatcher, targetSeqNum,
                 lively, deadUntil, mutex, nodeVars, historyVars>>

\* Makes way for the selected sequencer: no call is sequencing, and none will
\* see its batcher.
MakeWay(s) ==
  /\ At(s, "makeWay")
  /\ delivery[s] = Free
  /\ delivery' = [delivery EXCEPT ![s] = Manager]
  /\ mutex' = [mutex EXCEPT ![s] = TRUE]
  /\ Goto(s, "release")
  /\ UNCHANGED <<redisVars, selectedSeq, currentSeq, currentBatcher, lastLockedSeqNum,
                 targetSeqNum, lively, deadUntil, up, db, call, historyVars>>

Release(s) ==
  /\ At(s, "release")
  /\ UpdateLatestSeqNum(s)
  /\ ReleaseLockout(s)
  /\ delivery' = [delivery EXCEPT ![s] = Free]
  /\ currentBatcher' = [currentBatcher EXCEPT ![s] = None]
  /\ Goto(s, "follow")
  /\ UNCHANGED <<live, selectedSeq, currentSeq, lastLockedSeqNum, targetSeqNum, lively,
                 deadUntil, mutex, up, db, call, historyVars>>

\* Mutant: forwards to whoever is selected.
MayForward_Selected(s) == TRUE
MayForward(s) == key = selectedSeq[s]

\* Nobody is selected: calls fail.  The selected sequencer has the lockout:
\* calls are forwarded, if a connection can be made.  Else the mutex is kept.
Follow(s) ==
  /\ At(s, "follow")
  /\ \/ /\ selectedSeq[s] = NoOne
        /\ currentBatcher' = [currentBatcher EXCEPT ![s] = Error]
        /\ currentSeq' = [currentSeq EXCEPT ![s] = NoOne]
        /\ mutex' = [mutex EXCEPT ![s] = FALSE]
     \/ /\ selectedSeq[s] # NoOne /\ MayForward(s)
        /\ \/ /\ currentBatcher' = [currentBatcher EXCEPT ![s] = selectedSeq[s]]
              /\ currentSeq' = [currentSeq EXCEPT ![s] = selectedSeq[s]]
           \/ /\ currentBatcher' = [currentBatcher EXCEPT ![s] = Error]
              /\ UNCHANGED currentSeq
        /\ mutex' = [mutex EXCEPT ![s] = FALSE]
     \/ /\ selectedSeq[s] # NoOne /\ ~MayForward(s)
        /\ UNCHANGED <<currentBatcher, currentSeq, mutex>>
  /\ selectedSeq' = [selectedSeq EXCEPT ![s] = NoOne]
  /\ Goto(s, "top")
  /\ UNCHANGED <<redisVars, lastLockedSeqNum, targetSeqNum, lively, deadUntil,
                 nodeVars, historyVars>>

-----------------------------------------------------------------------------
(***************************************************************************)
(* The rest of the node.                                                   *)
(***************************************************************************)
SendTransaction(s) ==
  /\ up[s] /\ call[s] = Idle /\ ~mutex[s]
  /\ ShouldSequence(s)                      \* getBatcher
  /\ Len(db[s]) < MaxMessages
  /\ call' = [call EXCEPT ![s] = Queued]
  /\ UNCHANGED <<redisVars, loopVars, up, db, delivery, historyVars>>

LockDelivery(s) ==
  /\ call[s] = Queued /\ delivery[s] = Free
  /\ call' = [call EXCEPT ![s] = Locked]
  /\ delivery' = [delivery EXCEPT ![s] = SendTx]
  /\ UNCHANGED <<redisVars, loopVars, up, db, historyVars>>

\* ShouldSequence waits for b.mutex, with MessageDeliveryMutex held.
Sequence(s) ==
  /\ call[s] = Locked /\ ~mutex[s]
  /\ db' = IF ShouldSequence(s) /\ Len(db[s]) < MaxMessages
           THEN [db EXCEPT ![s] = Append(@, s)] ELSE db
  /\ call' = [call EXCEPT ![s] = Idle]
  /\ delivery' = [delivery EXCEPT ![s] = Free]
  /\ UNCHANGED <<redisVars, loopVars, up, historyVars>>

\* The inbox reader delivers what another sequencer has broadcast, or what
\* is left of the chain when its own messages have lost.
Receive(s) ==
  /\ up[s] /\ delivery[s] = Free
  /\ \/ \E t \in Sequencers :
          /\ IsStrictPrefix(db[s], db[t])
          /\ db' = [db EXCEPT ![s] = SubSeq(db[t], 1, Len(db[s]) + 1)]
     \/ /\ ~IsPrefix(db[s], published) /\ ~IsPrefix(published, db[s])
        /\ db' = [db EXCEPT ![s] = published]
  /\ UNCHANGED <<redisVars, loopVars, up, delivery, call, historyVars>>

-----------------------------------------------------------------------------
(***************************************************************************)
(* Crashes, and keys that end by themselves.                               *)
(***************************************************************************)
\* The lockout of s ends with messages that are not counted.
LeavesUncounted(s) == hasSequencerLockout(s) /\ ~IsPrefix(db[s], published)

Crash(s) ==
  /\ up[s] /\ Fault
  /\ Risks(LeavesUncounted(s))
  /\ up' = [up EXCEPT ![s] = FALSE]
  /\ StartsUp(s)
  /\ ReleaseLockout(s)
  /\ call' = [call EXCEPT ![s] = Idle]
  /\ delivery' = [delivery EXCEPT ![s] = Free]
  /\ UNCHANGED <<live, latest, published, db>>

Restart(s) ==
  /\ ~up[s]
  /\ up' = [up EXCEPT ![s] = TRUE]
  /\ UNCHANGED <<redisVars, loopVars, db, delivery, call, historyVars>>

\* The two mutexes are each held by the one who waits for the other.
Stuck(s) == call[s] = Locked /\ mutex[s] /\ pc[s] \in {"delayed", "makeWay"}

\* A loop that runs renews its keys in time, unless redis is out of its reach.
NotRenewed(s) == (Stuck(s) /\ UNCHANGED faults) \/ Fault

LockoutLapses(s) ==
  /\ NotRenewed(s)
  /\ Lapse(s)
  /\ Risks(LeavesUncounted(s))
  /\ UNCHANGED <<live, latest, published, loopVars, nodeVars>>
LivelinessLapses(s) ==
  /\ NotRenewed(s) /\ s \in lively
  /\ lively' = lively \ {s}
  /\ UNCHANGED <<redisVars, pc, selectedSeq, currentSeq, currentBatcher, lastLockedSeqNum,
                 targetSeqNum, deadUntil, mutex, nodeVars, clean>>
LivelinessExpires(s) ==
  /\ s \in live \ lively
  /\ live' = live \ {s}
  /\ UNCHANGED <<leaseVars, latest, published, loopVars, nodeVars, historyVars>>
KeyExpires ==
  /\ Expire
  /\ UNCHANGED <<live, latest, published, loopVars, nodeVars, historyVars>>

\* Nobody has written the position for seqNumTimeout, much longer than any
\* lockout lasts that is not renewed: whoever sequences writes it every turn.
PositionExpires ==
  /\ latest # 0
  /\ \A s \in has : currentBatcher[s] # Own
  /\ latest' = 0
  /\ Risks(\E s \in Sequencers : ~IsPrefix(published, db[s]))
  /\ UNCHANGED <<leaseVars, live, published, loopVars, nodeVars, faults>>

\* The attempt of a process that died reaches redis after it.
LateAttempt(s) ==
  /\ ~up[s]
  /\ Stray(s)
  /\ UNCHANGED <<live, latest, published, loopVars, nodeVars, historyVars>>

ManagerStep(s) ==
  \/ KeepAlive(s) \/ Select(s) \/ Acquire(s) \/ CatchUp(s) \/ Fails(s) \/ SequenceDelayedMessages(s)
  \/ Ready(s) \/ Publish(s) \/ MakeWay(s) \/ Release(s) \/ Follow(s)
CallStep(s) == LockDelivery(s) \/ Sequence(s)
Next ==
  \/ KeyExpires \/ PositionExpires
  \/ \E s \in Sequencers :
       \/ ManagerStep(s) \/ SendTransaction(s) \/ CallStep(s) \/ Receive(s)
       \/ DeadUntilComes(s) \/ Crash(s) \/ Restart(s) \/ LockoutLapses(s) \/ LivelinessLapses(s)
       \/ LivelinessExpires(s) \/ LateAttempt(s)

Spec == Init /\ [][Next]_vars

\* Every goroutine goes on, what is broadcast arrives, time passes and a
\* process that died is started again.
FairSpec ==
  /\ Spec
  /\ WF_vars(KeyExpires)
  /\ \A s \in Sequencers :
       /\ WF_vars(ManagerStep(s)) /\ WF_vars(CallStep(s)) /\ WF_vars(Receive(s))
       /\ WF_vars(DeadUntilComes(s)) /\ WF_vars(Restart(s))
       /\ WF_vars(Stuck(s) /\ LockoutLapses(s)) /\ WF_vars(Stuck(s) /\ LivelinessLapses(s))
       /\ WF_vars(LivelinessExpires(s))

-----------------------------------------------------------------------------
Places == {"top", "select", "acquire", "catchUp", "delayed", "ready", "publish", "makeWay",
           "release", "follow"}

\* The types of redis, of the loops and of the nodes.
TypeOK ==
  /\ key \in Sequencers \cup {NoOne} /\ has \subseteq Sequencers
  /\ live \subseteq Sequencers /\ lively \subseteq Sequencers
  /\ latest \in Nat /\ published \in Seq(Sequencers)
  /\ pc \in [Sequencers -> Places]
  /\ selectedSeq \in [Sequencers -> Sequencers \cup {NoOne}]
  /\ currentSeq \in [Sequencers -> Sequencers \cup {NoOne, Nil}]
  /\ currentBatcher \in [Sequencers -> Sequencers \cup {Own, Error, None}]
  /\ lastLockedSeqNum \in [Sequencers -> Nat \cup {Nil}]
  /\ targetSeqNum \in [Sequencers -> Nat]
  /\ deadUntil \in [Sequencers -> BOOLEAN] /\ mutex \in [Sequencers -> BOOLEAN]
  /\ up \in [Sequencers -> BOOLEAN] /\ db \in [Sequencers -> Seq(Sequencers)]
  /\ delivery \in [Sequencers -> {Free, Manager, SendTx}]
  /\ call \in [Sequencers -> {Idle, Queued, Locked}]
  /\ clean \in BOOLEAN /\ faults \in Nat

Compatible(a, b) == IsPrefix(a, b) \/ IsPrefix(b, a)

\* No two sequencers ever disagree on a message unless the order was put at
\* risk in one of the four ways that Risks names: crashes, lost answers, lost
\* contact, failed takeovers and calls under way in either node do no harm by
\* themselves, and whoever takes over goes on where the last one stopped
\* (lockoutManager, 159-204 and 230-250).
HandoverKeepsOrder == clean => \A s, t \in Sequencers : Compatible(db[s], db[t])

\* s sends its calls to t.
Forwards(s, t) == up[s] /\ ~mutex[s] /\ currentBatcher[s] = t

\* No call is forwarded in a circle: b.mutex keeps the calls of a node waiting
\* until the sequencer they would go to has the lockout (259-272).
NoForwardingCircle == \A s, t \in Sequencers : ~(Forwards(s, t) /\ Forwards(t, s))

\* Some node takes transactions again and again, unless every node is in the
\* deadlock of its two mutexes (230-236): neither crashes, lost contact, failed
\* takeovers, handovers that cross each other nor the deadlock of one node keep
\* the sequencers from finding one among them.
SequencingResumes ==
  []<>(\/ \E s \in Sequencers : up[s] /\ ~mutex[s] /\ ShouldSequence(s)
       \/ \A s \in Sequencers : Stuck(s))
=============================================================================
