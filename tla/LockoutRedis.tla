---------------------------- MODULE LockoutRedis -----------------------------
(***************************************************************************)
(* The lockouts that sequencers keep in redis (arb-rpc-node/rpc/redis.go): *)
(* a key with a time to live, written by clients who each remember until   *)
(* when they have it.  The manager of lockout.go may acquire, renew and    *)
(* release at any time, and its process may die at any time.               *)
(*                                                                         *)
(* Time is counted in ticks.  An attempt reaches redis within MaxLatency   *)
(* of its start or never, even if the client has given it up or repeated   *)
(* it meanwhile: an answer may be lost, or come after the client has taken *)
(* the attempt for failed, and redis executes the attempt all the same.    *)
(***************************************************************************)
EXTENDS Integers

CONSTANTS
  Sequencers,
  NoOne,            \* the key is absent
  NoCommand,        \* the client is not in a call
  Timeout, MaxLatency

Acquire == "acquire"      \* SetNX(key, rpc, timeout)
Renew == "renew"          \* Set(key, rpc, timeout)
Delete == "delete"        \* Del(key)

\* An attempt: until its context's deadline (not read for Acquire, which has
\* none), and until it has reached redis if it does at all.
Commands ==
  [seq : Sequencers, op : {Acquire, Renew, Delete}, until : Nat, reach : 0 .. MaxLatency]

ASSUME ClientAssumption == NoOne \notin Sequencers /\ NoCommand \notin Commands
\* The defaults are 30 seconds and 10 seconds.
ASSUME TimeAssumption ==
  MaxLatency \in Nat \ {0} /\ Timeout \in Nat /\ Timeout > 2 * MaxLatency

VARIABLES
  lockKey, lockTTL,       \* redis: the value of the key, the time it has left
  cmd,                    \* the attempt a client is waiting for
  late,                   \* attempts given up or repeated, and still under way
  lockLeft,               \* the time left until *hasLockUntil
  crossed                 \* history: a deletion has crossed with another attempt

redisVars == <<lockKey, lockTTL>>
vars == <<redisVars, cmd, late, lockLeft, crossed>>

Init ==
  /\ lockKey = NoOne /\ lockTTL = 0
  /\ cmd = [s \in Sequencers |-> NoCommand]
  /\ late = {}
  /\ lockLeft = [s \in Sequencers |-> 0]
  /\ crossed = FALSE

Less(k) == IF k = 0 THEN 0 ELSE k - 1
Older(c) == [c EXCEPT !.until = Less(@), !.reach = @ - 1]

\* What still travels has to arrive or to be lost before its time is over.
Tick ==
  /\ \A s \in Sequencers : cmd[s] # NoCommand => cmd[s].reach > 0
  /\ \A w \in late : w.reach > 0
  /\ lockTTL' = Less(lockTTL)
  /\ lockKey' = IF lockTTL = 1 THEN NoOne ELSE lockKey
  /\ cmd' = [s \in Sequencers |->
               IF cmd[s] = NoCommand THEN NoCommand ELSE Older(cmd[s])]
  /\ late' = {Older(w) : w \in late}
  /\ lockLeft' = [s \in Sequencers |-> Less(lockLeft[s])]
  /\ UNCHANGED crossed

-----------------------------------------------------------------------------
(***************************************************************************)
(* The calls.                                                              *)
(***************************************************************************)
Attempt(s, op, until) == [seq |-> s, op |-> op, until |-> until, reach |-> MaxLatency]

\* acquireOrUpdateGenericLockout: SetNX by a client that has no lockout, Set
\* by one that has, in the time that it has left.  What it has is
\* overwritten when the call returns.
AcquireOrUpdateLockout(s) ==
  /\ cmd[s] = NoCommand
  /\ cmd' = [cmd EXCEPT ![s] =
               IF lockLeft[s] = 0 THEN Attempt(s, Acquire, 0)
               ELSE Attempt(s, Renew, lockLeft[s])]
  /\ UNCHANGED <<redisVars, late, lockLeft, crossed>>

\* releaseGenericLockout: the client forgets the lockout first, and deletes
\* the key in the time it had left.
ReleaseLockout(s) ==
  /\ cmd[s] = NoCommand
  /\ lockLeft[s] > 0
  /\ lockLeft' = [lockLeft EXCEPT ![s] = 0]
  /\ cmd' = [cmd EXCEPT ![s] = Attempt(s, Delete, lockLeft[s])]
  /\ UNCHANGED <<redisVars, late, crossed>>

-----------------------------------------------------------------------------
(***************************************************************************)
(* Attempts and their ends.                                                *)
(***************************************************************************)
Executes(c) == c.op = Acquire => lockKey = NoOne

\* Mutant: the key gets no time to live.
SetKey_Forever(c) == lockKey' = c.seq /\ lockTTL' = 0
SetKey(c) == lockKey' = c.seq /\ lockTTL' = Timeout

Execute(c) ==
  \/ ~Executes(c) /\ UNCHANGED redisVars
  \/ Executes(c) /\ c.op # Delete /\ SetKey(c)
  \/ c.op = Delete /\ lockKey' = NoOne /\ lockTTL' = 0

\* Attempts that overwrite or delete the key without a look at it
Blind(c) == c # NoCommand /\ c.op \in {Renew, Delete}

\* c deletes the key while one of the others, a Set or a Del of the same
\* sequencer, is still on its way: it will be executed without the key.
Crosses(c, others) == c.op = Delete /\ \E w \in others : Blind(w) /\ w.seq = c.seq

\* The time is counted from the start of the attempt, and maxLatency is taken
\* off.  Mutant: it is not.
LockLeftAfter_NoMargin(c) == Timeout - (MaxLatency - c.reach)
LockLeftAfter(c) == Timeout - (MaxLatency - c.reach) - MaxLatency

\* What the call leaves in *hasLockUntil when its attempt is answered
Result(s) ==
  IF cmd[s].op = Delete THEN lockLeft[s]
  ELSE IF Executes(cmd[s]) THEN LockLeftAfter(cmd[s]) ELSE 0

Answered(s) ==
  /\ cmd[s] # NoCommand
  /\ Execute(cmd[s])
  /\ lockLeft' = [lockLeft EXCEPT ![s] = Result(s)]
  /\ cmd' = [cmd EXCEPT ![s] = NoCommand]
  /\ crossed' = (crossed \/ Crosses(cmd[s], late))
  /\ UNCHANGED late

\* Mutant: retried without a look at the deadline.
MayRetry_Always(c) == TRUE
MayRetry(c) == c.op = Acquire \/ c.until > 0

\* withRetry: the attempt returns an error and is made again, after a pause.
\* If only its answer was lost, or came too late, it is executed all the same.
Retried(s) ==
  /\ cmd[s] # NoCommand
  /\ cmd[s].reach < MaxLatency
  /\ MayRetry(cmd[s])
  /\ \/ UNCHANGED late
     \/ late' = late \cup {[cmd[s] EXCEPT !.until = 0]}
  /\ cmd' = [cmd EXCEPT ![s].reach = MaxLatency]
  /\ UNCHANGED <<redisVars, lockLeft, crossed>>

\* The context ends by its deadline or by that of the process.
\* acquireGenericLockout then returns no time at all.
GivenUp(s) ==
  /\ cmd[s] # NoCommand
  /\ late' = late \cup {[cmd[s] EXCEPT !.until = 0]}
  /\ lockLeft' = [lockLeft EXCEPT ![s] = IF cmd[s].op = Delete THEN @ ELSE 0]
  /\ cmd' = [cmd EXCEPT ![s] = NoCommand]
  /\ UNCHANGED <<redisVars, crossed>>

LateArrives(w) ==
  /\ Execute(w)
  /\ late' = late \ {w}
  /\ crossed' = (crossed \/ Crosses(w, late' \cup {cmd[w.seq]}))
  /\ UNCHANGED <<cmd, lockLeft>>
LateLost(w) ==
  /\ late' = late \ {w}
  /\ UNCHANGED <<redisVars, cmd, lockLeft, crossed>>

\* The process of s dies, and starts again without its memory.
Killed(s) ==
  /\ late' = IF cmd[s] = NoCommand THEN late ELSE late \cup {[cmd[s] EXCEPT !.until = 0]}
  /\ cmd' = [cmd EXCEPT ![s] = NoCommand]
  /\ lockLeft' = [lockLeft EXCEPT ![s] = 0]
  /\ UNCHANGED <<redisVars, crossed>>

ClientStep(s) ==
  AcquireOrUpdateLockout(s) \/ ReleaseLockout(s) \/ Answered(s) \/ Retried(s) \/ GivenUp(s)
    \/ Killed(s)
LateStep == \E w \in late : LateArrives(w) \/ LateLost(w)
Next == Tick \/ LateStep \/ \E s \in Sequencers : ClientStep(s)

Spec == Init /\ [][Next]_vars

\* Time passes, and an attempt ends when its time is over.
FairSpec ==
  /\ Spec
  /\ WF_vars(Tick)
  /\ WF_vars(\E w \in late : w.reach = 0 /\ (LateArrives(w) \/ LateLost(w)))
  /\ \A s \in Sequencers :
       WF_vars(cmd[s] # NoCommand /\ cmd[s].reach = 0
                 /\ (Answered(s) \/ Retried(s) \/ GivenUp(s)))

-----------------------------------------------------------------------------
\* Every variable has its type.
TypeOK ==
  /\ lockKey \in Sequencers \cup {NoOne}
  /\ lockTTL \in 0 .. Timeout
  /\ cmd \in [Sequencers -> Commands \cup {NoCommand}]
  /\ \A s \in Sequencers : cmd[s] # NoCommand => cmd[s].seq = s
  /\ late \subseteq Commands
  /\ lockLeft \in [Sequencers -> 0 .. Timeout - MaxLatency]
  /\ crossed \in BOOLEAN

\* Two sequencers never have the lockout at the same time, until a deletion
\* crosses with another attempt.  The comment on the methods of redis.go says
\* so without the condition: "This ensures that the lockout isn't overrun when
\* it is used".
LockoutExclusive ==
  ~crossed => \A s, t \in Sequencers : lockLeft[s] > 0 /\ lockLeft[t] > 0 => s = t

\* No sequencer touches the lockout of another, as long as no deletion has
\* crossed with an attempt that its client took for failed: as long as a Set or
\* a Del of one is under way, waited for, repeated or given up, the key is
\* still its own (acquireOrUpdateGenericLockout, releaseGenericLockout).
OwnLockoutOnly ==
  ~crossed =>
    /\ \A s \in Sequencers : Blind(cmd[s]) => lockKey = s
    /\ \A w \in late : Blind(w) => lockKey = w.seq

\* What the lockout manager sees of all this is Lease, until a deletion crosses
\* with another attempt.  Requests that are slow or late, answers that are lost,
\* acquisitions and renewals that redis executes twice, and crashes leave the
\* lockout with one sequencer at a time, and its key changes hands only after
\* the last holder's time is over.
Lockout == INSTANCE Lease WITH key <- lockKey, has <- {s \in Sequencers : lockLeft[s] > 0}
ImplementsLease ==
  Lockout!LeaseInit /\ [][crossed' \/ Lockout!LeaseNext]_Lockout!leaseVars

\* A lockout that nobody has any more does not last: after a crash, a lost
\* answer or a lost deletion the key expires.
OrphanedLockoutEnds == []<>(lockKey = NoOne \/ \E s \in Sequencers : lockKey = s /\ lockLeft[s] > 0)
=============================================================================
