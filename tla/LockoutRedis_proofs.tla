------------------------ MODULE LockoutRedis_proofs -------------------------
(***************************************************************************)
(* Proofs about LockoutRedis: until a deletion crosses with another        *)
(* attempt of its client, the margin of MaxLatency keeps the lockout       *)
(* exclusive, for any sequencers and any times.                            *)
(***************************************************************************)
EXTENDS LockoutRedis, TLAPS

\* The key of a client that has the lockout outlives its belief by MaxLatency.
Margin ==
  \A s \in Sequencers : lockLeft[s] > 0 => lockKey = s /\ lockTTL >= lockLeft[s] + MaxLatency

\* A blind attempt that its client waits for ends before the key does, and so
\* does every repetition of it that the deadline allows.
PendingInTime ==
  \A s \in Sequencers : Blind(cmd[s]) =>
    /\ lockKey = s
    /\ lockTTL > cmd[s].reach
    /\ cmd[s].until > 0 => lockTTL >= cmd[s].until + MaxLatency
    /\ cmd[s].op = Delete => lockLeft[s] = 0

Renewing(s) == cmd[s] # NoCommand /\ cmd[s].op = Renew

\* A blind attempt that was given up or repeated also ends before the key does.
\* As long as a deletion is among them, its client has no lockout and does not
\* renew one.
LateInTime ==
  \A w \in late : Blind(w) =>
    /\ lockKey = w.seq
    /\ lockTTL > w.reach
    /\ w.op = Delete => lockLeft[w.seq] = 0 /\ ~Renewing(w.seq)

LockInv == Margin /\ PendingInTime /\ LateInTime

\* The inductive invariant
UncrossedInv == ~crossed => LockInv

-----------------------------------------------------------------------------
\* A tick takes one off every time that is not over.
LEMMA LessType ==
  ASSUME NEW k \in Nat
  PROVE  Less(k) \in Nat /\ Less(k) <= k /\ (k > 0 => Less(k) = k - 1) /\ (k = 0 => Less(k) = 0)
BY DEF Less

\* What lockLeft becomes is a time, and is over MaxLatency before the key is.
LEMMA LockLeftType ==
  ASSUME NEW c \in Commands
  PROVE  LockLeftAfter(c) \in 0 .. Timeout - MaxLatency
BY TimeAssumption DEF LockLeftAfter, Commands

\* A new attempt of s
LEMMA AttemptType ==
  ASSUME NEW s \in Sequencers, NEW op \in {Acquire, Renew, Delete}, NEW until \in Nat
  PROVE  /\ Attempt(s, op, until) \in Commands
         /\ Attempt(s, op, until) # NoCommand
         /\ Attempt(s, op, until).seq = s
         /\ Attempt(s, op, until).op = op
         /\ Attempt(s, op, until).until = until
         /\ Attempt(s, op, until).reach = MaxLatency
BY TimeAssumption, ClientAssumption DEF Attempt, Commands

\* An attempt after a tick, when it is given up, and when it is repeated
LEMMA CommandType ==
  ASSUME NEW c \in Commands
  PROVE  /\ c # NoCommand
         /\ [c EXCEPT !.until = 0] \in Commands
         /\ [c EXCEPT !.until = 0].seq = c.seq
         /\ [c EXCEPT !.until = 0].op = c.op
         /\ [c EXCEPT !.until = 0].reach = c.reach
         /\ [c EXCEPT !.reach = MaxLatency] \in Commands
         /\ [c EXCEPT !.reach = MaxLatency].seq = c.seq
         /\ [c EXCEPT !.reach = MaxLatency].op = c.op
         /\ [c EXCEPT !.reach = MaxLatency].until = c.until
         /\ [c EXCEPT !.reach = MaxLatency].reach = MaxLatency
BY TimeAssumption, ClientAssumption DEF Commands

\* A command on its way that is a tick older is still a command.
LEMMA OlderType ==
  ASSUME NEW c \in Commands, c.reach > 0
  PROVE  /\ Older(c) \in Commands
         /\ Older(c).seq = c.seq
         /\ Older(c).op = c.op
         /\ Older(c).until = Less(c.until)
         /\ Older(c).reach = c.reach - 1
<1>1. c.until \in Nat /\ c.reach \in 0 .. MaxLatency
  BY DEF Commands
<1>2. Less(c.until) \in Nat
  BY <1>1, LessType
<1>3. c.reach - 1 \in 0 .. MaxLatency
  BY <1>1, TimeAssumption
<1> DEFINE With(u, r) == [c EXCEPT !.until = u, !.reach = r]
<1>4. \A u \in Nat, r \in 0 .. MaxLatency :
        /\ With(u, r) \in Commands
        /\ With(u, r).seq = c.seq
        /\ With(u, r).op = c.op
        /\ With(u, r).until = u
        /\ With(u, r).reach = r
  BY DEF Commands
<1>5. Older(c) = With(Less(c.until), c.reach - 1)
  BY DEF Older
<1> HIDE DEF With
<1> QED
  BY <1>2, <1>3, <1>4, <1>5

\* The types hold at the start.
LEMMA TypeInit == Init => TypeOK
<1>1. Init => crossed \in BOOLEAN
  BY DEF Init
<1> QED
  BY <1>1, TimeAssumption DEF Init, TypeOK

\* What an attempt leaves in redis has the right types, and is the key of its
\* sequencer, no key, or what was there.
LEMMA ExecuteType ==
  ASSUME TypeOK, NEW c \in Commands, Execute(c)
  PROVE  /\ lockKey' \in Sequencers \cup {NoOne}
         /\ lockTTL' \in 0 .. Timeout
BY TimeAssumption DEF TypeOK, Execute, SetKey, Commands, redisVars

\* The call of a client that is answered leaves a time.
LEMMA ResultType ==
  ASSUME TypeOK, NEW s \in Sequencers, cmd[s] # NoCommand
  PROVE  Result(s) \in 0 .. Timeout - MaxLatency
<1>1. cmd[s] \in Commands /\ lockLeft[s] \in 0 .. Timeout - MaxLatency
  BY DEF TypeOK
<1>2. LockLeftAfter(cmd[s]) \in 0 .. Timeout - MaxLatency
  BY <1>1, LockLeftType
<1> QED
  BY <1>1, <1>2, TimeAssumption DEF Result

\* Every step keeps the types.
LEMMA TypeStep == TypeOK /\ [Next]_vars => TypeOK'
<1> SUFFICES ASSUME TypeOK, [Next]_vars PROVE TypeOK'
  OBVIOUS
<1>0. /\ 0 \in 0 .. Timeout - MaxLatency
      /\ \A s \in Sequencers : /\ cmd[s] \in Commands \cup {NoCommand}
                                /\ lockLeft[s] \in 0 .. Timeout - MaxLatency
                                /\ lockLeft[s] \in Nat
  BY TimeAssumption DEF TypeOK
<1>1. CASE Tick
  <2>1. lockKey' \in Sequencers \cup {NoOne} /\ lockTTL' \in 0 .. Timeout
    BY <1>1, TimeAssumption DEF Tick, TypeOK, Less
  <2>2. /\ cmd' \in [Sequencers -> Commands \cup {NoCommand}]
        /\ \A s \in Sequencers : cmd'[s] # NoCommand => cmd'[s].seq = s
    <3>1. \A s \in Sequencers :
            cmd[s] # NoCommand => Older(cmd[s]) \in Commands /\ Older(cmd[s]).seq = s
      BY <1>0, <1>1, OlderType DEF Tick, TypeOK
    <3> QED
      BY <1>1, <3>1 DEF Tick, TypeOK
  <2>3. late' \subseteq Commands
    <3>1. \A w \in late : Older(w) \in Commands
      BY <1>1, OlderType DEF Tick, TypeOK
    <3> QED
      BY <1>1, <3>1 DEF Tick
  <2>4. lockLeft' \in [Sequencers -> 0 .. Timeout - MaxLatency]
    BY <1>0, <1>1, TimeAssumption DEF Tick, Less
  <2>5. crossed' \in BOOLEAN
    BY <1>1 DEF Tick, TypeOK
  <2> QED
    BY <2>1, <2>2, <2>3, <2>4, <2>5 DEF TypeOK
<1>2. CASE LateStep
  <2>1. PICK w \in late : LateArrives(w) \/ LateLost(w)
    BY <1>2 DEF LateStep
  <2>2. w \in Commands
    BY DEF TypeOK
  <2> QED
    BY <2>1, <2>2, ExecuteType DEF LateArrives, LateLost, TypeOK, redisVars
<1>3. ASSUME NEW s \in Sequencers, ClientStep(s) PROVE TypeOK'
  <2>1. CASE AcquireOrUpdateLockout(s)
    <3>1. /\ cmd'[s] \in Commands
          /\ cmd'[s].seq = s
      <4>1. CASE lockLeft[s] = 0
        BY <1>0, <2>1, <4>1, AttemptType DEF AcquireOrUpdateLockout, TypeOK
      <4>2. CASE lockLeft[s] # 0
        BY <1>0, <2>1, <4>2, AttemptType DEF AcquireOrUpdateLockout, TypeOK
      <4> QED
        BY <4>1, <4>2
    <3>2. \E x : cmd' = [cmd EXCEPT ![s] = x]
      BY <2>1 DEF AcquireOrUpdateLockout
    <3> QED
      BY <2>1, <3>1, <3>2 DEF AcquireOrUpdateLockout, TypeOK, redisVars
  <2>2. CASE ReleaseLockout(s)
    <3>1. Attempt(s, Delete, lockLeft[s]) \in Commands /\ Attempt(s, Delete, lockLeft[s]).seq = s
      BY <1>0, AttemptType
    <3> QED
      BY <1>0, <2>2, <3>1 DEF ReleaseLockout, TypeOK, redisVars
  <2>3. CASE Answered(s)
    <3>1. cmd[s] \in Commands /\ Result(s) \in 0 .. Timeout - MaxLatency
      BY <1>0, <2>3, ResultType DEF Answered
    <3>2. lockKey' \in Sequencers \cup {NoOne} /\ lockTTL' \in 0 .. Timeout
      BY <2>3, <3>1, ExecuteType DEF Answered
    <3> QED
      BY <2>3, <3>1, <3>2 DEF Answered, TypeOK
  <2>4. CASE Retried(s)
    <3>1. /\ cmd[s] \in Commands
          /\ [cmd[s] EXCEPT !.reach = MaxLatency] \in Commands
          /\ [cmd[s] EXCEPT !.reach = MaxLatency].seq = s
          /\ [cmd[s] EXCEPT !.until = 0] \in Commands
      BY <1>0, <2>4, CommandType DEF Retried, TypeOK
    <3>2. late' \subseteq Commands
      BY <2>4, <3>1 DEF Retried, TypeOK
    <3>3. cmd' = [cmd EXCEPT ![s] = [cmd[s] EXCEPT !.reach = MaxLatency]]
      BY <2>4 DEF Retried, TypeOK
    <3> QED
      BY <2>4, <3>1, <3>2, <3>3 DEF Retried, TypeOK, redisVars
  <2>5. CASE GivenUp(s) \/ Killed(s)
    <3>1. cmd[s] # NoCommand => [cmd[s] EXCEPT !.until = 0] \in Commands
      BY <1>0, CommandType
    <3>2. late' \subseteq Commands
      BY <2>5, <3>1 DEF GivenUp, Killed, TypeOK
    <3>3. lockLeft' \in [Sequencers -> 0 .. Timeout - MaxLatency]
      BY <1>0, <2>5 DEF GivenUp, Killed, TypeOK
    <3> QED
      BY <2>5, <3>2, <3>3 DEF GivenUp, Killed, TypeOK, redisVars
  <2> QED
    BY <1>3, <2>1, <2>2, <2>3, <2>4, <2>5 DEF ClientStep
<1>4. CASE UNCHANGED vars
  BY <1>4 DEF vars, redisVars, TypeOK
<1> QED
  BY <1>1, <1>2, <1>3, <1>4 DEF Next

-----------------------------------------------------------------------------
\* Only the sequencer in the key has the lockout or a blind attempt under way.
LEMMA OnlyTheHolder ==
  ASSUME TypeOK, LockInv, NEW s \in Sequencers, s # lockKey
  PROVE  /\ lockLeft[s] = 0
         /\ ~Blind(cmd[s])
         /\ \A w \in late : Blind(w) => w.seq # s
BY DEF TypeOK, LockInv, Margin, PendingInTime, LateInTime

\* All blind attempts are of one sequencer.
LEMMA OnlyBlind ==
  ASSUME TypeOK, LockInv
  PROVE  /\ \A s \in Sequencers : Blind(cmd[s]) =>
              /\ lockKey = s
              /\ \A t \in Sequencers \ {s} : ~Blind(cmd[t]) /\ lockLeft[t] = 0
              /\ \A w \in late : Blind(w) => w.seq = s
         /\ \A w \in late : Blind(w) =>
              /\ lockKey = w.seq
              /\ \A t \in Sequencers \ {w.seq} : ~Blind(cmd[t]) /\ lockLeft[t] = 0
              /\ \A v \in late : Blind(v) => v.seq = w.seq
<1>1. \A w \in late : w.seq \in Sequencers /\ (Blind(w) => lockKey = w.seq)
  BY DEF TypeOK, Commands, LockInv, LateInTime
<1>2. \A s \in Sequencers : Blind(cmd[s]) => lockKey = s
  BY DEF LockInv, PendingInTime
<1> QED
  BY <1>1, <1>2, OnlyTheHolder

\* Initially nobody has the lockout.
LEMMA LockInit == Init => LockInv
BY DEF Init, LockInv, Margin, PendingInTime, LateInTime, Blind

\* Time: the key keeps its distance from what it has to outlive.
LEMMA LockTick == TypeOK /\ LockInv /\ Tick => LockInv'
<1> SUFFICES ASSUME TypeOK, LockInv, Tick PROVE LockInv'
  OBVIOUS
<1>1. /\ MaxLatency \in Nat \ {0} /\ lockTTL \in Nat
      /\ \A s \in Sequencers : lockLeft[s] \in Nat /\ lockLeft'[s] = Less(lockLeft[s])
      /\ lockTTL > 1 => lockKey' = lockKey /\ lockTTL' = lockTTL - 1
  BY TimeAssumption DEF TypeOK, Tick, Less
<1>2. \A s \in Sequencers :
        /\ Blind(cmd[s]) <=> Blind(cmd'[s])
        /\ Blind(cmd[s]) =>
             /\ cmd[s].reach \in Nat \ {0} /\ cmd[s].until \in Nat
             /\ cmd'[s].op = cmd[s].op
             /\ cmd'[s].reach = cmd[s].reach - 1
             /\ cmd'[s].until = Less(cmd[s].until)
  <2>1. SUFFICES ASSUME NEW s \in Sequencers, cmd[s] # NoCommand
                 PROVE  /\ cmd'[s] # NoCommand
                        /\ cmd[s].reach \in Nat \ {0} /\ cmd[s].until \in Nat
                        /\ cmd'[s].op = cmd[s].op
                        /\ cmd'[s].reach = cmd[s].reach - 1
                        /\ cmd'[s].until = Less(cmd[s].until)
    BY DEF Blind, Tick
  <2>2. cmd[s] \in Commands /\ cmd[s].reach > 0 /\ cmd'[s] = Older(cmd[s])
    BY <2>1 DEF TypeOK, Tick
  <2>3. cmd[s].reach \in Nat /\ cmd[s].until \in Nat
    BY <2>2, TimeAssumption DEF Commands
  <2> QED
    BY <2>2, <2>3, OlderType, ClientAssumption
<1>7. \A s \in Sequencers : Renewing(s)' <=> Renewing(s)
  BY <1>2, ClientAssumption DEF Renewing, Blind, Tick, Renew, Delete
<1>3. \A x \in late' : \E w \in late :
        /\ x = Older(w) /\ x.op = w.op
        /\ w.reach \in Nat \ {0}
        /\ x.seq = w.seq /\ w.seq \in Sequencers /\ x.reach = w.reach - 1
        /\ Blind(x) <=> Blind(w)
  <2>1. ASSUME NEW w \in late
        PROVE  /\ w.reach \in Nat \ {0} /\ w.seq \in Sequencers
               /\ Older(w).seq = w.seq /\ Older(w).op = w.op /\ Older(w).reach = w.reach - 1
               /\ Blind(Older(w)) <=> Blind(w)
    <3>1. w \in Commands /\ w.reach > 0
      BY DEF TypeOK, Tick
    <3>2. w.reach \in Nat /\ w.seq \in Sequencers
      BY <3>1, TimeAssumption DEF Commands
    <3> QED
      BY <3>1, <3>2, OlderType, ClientAssumption DEF Blind
  <2> QED
    BY <2>1 DEF Tick
<1>4. Margin'
  BY <1>1 DEF LockInv, Margin, Less
<1>5. PendingInTime'
  BY <1>1, <1>2 DEF LockInv, PendingInTime, Less
<1>6. LateInTime'
  BY <1>1, <1>3, <1>7 DEF LockInv, LateInTime, Less
<1> QED
  BY <1>4, <1>5, <1>6 DEF LockInv

\* The calls: a blind attempt starts while its sequencer has the lockout.
LEMMA LockCall ==
  ASSUME TypeOK, LockInv, NEW s \in Sequencers,
         AcquireOrUpdateLockout(s) \/ ReleaseLockout(s)
  PROVE  LockInv'
<1>1. /\ lockLeft[s] \in Nat /\ lockTTL \in Nat /\ MaxLatency \in Nat
      /\ cmd[s] = NoCommand /\ ~Blind(cmd[s])
      /\ late' = late /\ lockKey' = lockKey /\ lockTTL' = lockTTL
      /\ \A t \in Sequencers \ {s} : cmd'[t] = cmd[t] /\ lockLeft'[t] = lockLeft[t]
  BY TimeAssumption DEF TypeOK, AcquireOrUpdateLockout, ReleaseLockout, Blind, redisVars
<1>2. CASE lockLeft[s] = 0
  <2>1. ~Blind(cmd'[s]) /\ lockLeft' = lockLeft
    BY <1>1, <1>2, AttemptType
       DEF AcquireOrUpdateLockout, ReleaseLockout, TypeOK, Blind, Acquire, Renew, Delete
  <2>2. \A w \in late : w.seq \in Sequencers
    BY DEF TypeOK, Commands
  <2>3. Margin' /\ PendingInTime'
    BY <1>1, <2>1 DEF LockInv, Margin, PendingInTime
  <2>4. LateInTime'
    <3>1. \A t \in Sequencers : Renewing(t)' => Renewing(t)
      BY <1>1, <2>1 DEF Renewing, Blind
    <3> QED
      BY <1>1, <2>1, <2>2, <3>1 DEF LockInv, LateInTime
  <2> QED
    BY <2>3, <2>4 DEF LockInv
<1>3. CASE lockLeft[s] > 0
  <2>1. lockKey = s /\ lockTTL >= lockLeft[s] + MaxLatency
    BY <1>3 DEF LockInv, Margin
  <2>2. \A w \in late : Blind(w) /\ w.op = Delete => w.seq # s
    BY <1>3 DEF LockInv, LateInTime
  <2>3. /\ cmd'[s].reach = MaxLatency /\ cmd'[s].until = lockLeft[s]
        /\ cmd'[s].op = Delete => lockLeft'[s] = 0
        /\ lockLeft'[s] \in {0, lockLeft[s]}
    BY <1>1, <1>3, AttemptType
       DEF AcquireOrUpdateLockout, ReleaseLockout, TypeOK, Renew, Delete
  <2>4. Margin'
    BY <1>1, <2>1, <2>3 DEF LockInv, Margin
  <2>5. PendingInTime'
    BY <1>1, <1>3, <2>1, <2>3 DEF LockInv, PendingInTime
  <2>6. LateInTime'
    <3>1. \A w \in late : w.seq \in Sequencers
      BY DEF TypeOK, Commands
    <3>2. \A t \in Sequencers \ {s} : Renewing(t)' <=> Renewing(t)
      BY <1>1 DEF Renewing
    <3> QED
      BY <1>1, <2>2, <3>1, <3>2 DEF LockInv, LateInTime
  <2> QED
    BY <2>4, <2>5, <2>6 DEF LockInv
<1> QED
  BY <1>1, <1>2, <1>3

\* Nothing has to be outlived when nobody has the lockout and no attempt is
\* blind.
LEMMA NobodyHolds ==
  ASSUME \A t \in Sequencers : lockLeft'[t] = 0 /\ ~Blind(cmd'[t]),
         \A w \in late' : ~Blind(w)
  PROVE  LockInv'
BY DEF LockInv, Margin, PendingInTime, LateInTime

\* An answered attempt.
LEMMA LockAnswered ==
  ASSUME TypeOK, LockInv, NEW s \in Sequencers, Answered(s), ~crossed'
  PROVE  LockInv'
<1> DEFINE c == cmd[s]
<1>1. /\ c \in Commands
      /\ c.seq = s
      /\ cmd'[s] = NoCommand /\ ~Blind(cmd'[s])
      /\ late' = late
      /\ lockLeft'[s] = Result(s)
      /\ \A t \in Sequencers \ {s} : cmd'[t] = cmd[t] /\ lockLeft'[t] = lockLeft[t]
      /\ \A t \in Sequencers : Renewing(t)' => Renewing(t)
      /\ \A w \in late : w.seq \in Sequencers
  BY DEF TypeOK, Answered, Blind, Renewing, Commands
<1>2. CASE c.op = Acquire /\ lockKey # NoOne
  <2>1. lockKey' = lockKey /\ lockTTL' = lockTTL /\ lockLeft'[s] = 0
    BY <1>1, <1>2 DEF Answered, Execute, Executes, Result, redisVars, Acquire, Delete
  <2>3. Margin' /\ PendingInTime'
    BY <1>1, <2>1 DEF LockInv, Margin, PendingInTime
  <2>4. LateInTime'
    BY <1>1, <2>1 DEF LockInv, LateInTime
  <2> QED
    BY <2>3, <2>4 DEF LockInv
<1>3. CASE (c.op = Acquire /\ lockKey = NoOne) \/ c.op = Renew
  <2>1. /\ lockKey' = s /\ lockTTL' = Timeout
        /\ lockLeft'[s] = LockLeftAfter(c)
    BY <1>1, <1>3
       DEF Answered, Execute, Executes, SetKey, Result, redisVars, Acquire, Renew, Delete
  <2>2. \A t \in Sequencers \ {s} : lockLeft[t] = 0 /\ ~Blind(cmd[t])
    <3>1. CASE c.op = Renew
      BY <1>1, <3>1, OnlyBlind, ClientAssumption DEF Blind
    <3>2. CASE lockKey = NoOne
      BY <3>2, OnlyTheHolder, ClientAssumption
    <3> QED
      BY <1>3, <3>1, <3>2
  <2>3. \A w \in late : Blind(w) =>
          w.seq = s /\ w.op # Delete /\ w.reach \in 0 .. MaxLatency
    <3>1. CASE c.op = Renew
      <4>1. Blind(c) /\ Renewing(s)
        BY <1>1, <3>1, ClientAssumption DEF Blind, Renewing
      <4> QED
        BY <4>1, OnlyBlind DEF LockInv, LateInTime, TypeOK, Commands
    <3>2. CASE lockKey = NoOne
      BY <1>1, <3>2, OnlyTheHolder, ClientAssumption
    <3> QED
      BY <1>3, <3>1, <3>2
  <2>4. lockTTL' >= lockLeft'[s] + MaxLatency
    <3>1. LockLeftAfter(c) \in 0 .. Timeout - MaxLatency
      BY <1>1, LockLeftType
    <3> QED
      BY <2>1, <3>1, TimeAssumption
  <2>5. Margin'
    BY <1>1, <2>1, <2>2, <2>4 DEF Margin
  <2>6. PendingInTime'
    BY <1>1, <2>2 DEF PendingInTime
  <2>7. LateInTime'
    BY <1>1, <2>1, <2>3, TimeAssumption DEF LateInTime
  <2> QED
    BY <2>5, <2>6, <2>7 DEF LockInv
<1>4. CASE c.op = Delete
  <2>1. Blind(c) /\ lockLeft[s] = 0
    BY <1>1, <1>4, ClientAssumption DEF LockInv, PendingInTime, Blind
  <2>2. lockLeft'[s] = 0
    BY <1>1, <1>4, <2>1 DEF Result
  <2>3. /\ \A t \in Sequencers \ {s} : ~Blind(cmd[t]) /\ lockLeft[t] = 0
        /\ \A w \in late : Blind(w) => w.seq = s
    BY <2>1, OnlyBlind
  <2>4. \A w \in late : ~Blind(w)
    BY <1>1, <1>4, <2>3 DEF Answered, Crosses
  <2> QED
    BY <1>1, <2>2, <2>3, <2>4, NobodyHolds
<1>5. c.op \in {Acquire, Renew, Delete}
  BY <1>1 DEF Commands
<1> QED
  BY <1>2, <1>3, <1>4, <1>5

\* An attempt that was given up or repeated arrives or gets lost.
LEMMA LockLate ==
  ASSUME TypeOK, LockInv, NEW w \in late, LateArrives(w) \/ LateLost(w), ~crossed'
  PROVE  LockInv'
<1>1. /\ w \in Commands /\ w.seq \in Sequencers
      /\ late' = late \ {w} /\ cmd' = cmd /\ lockLeft' = lockLeft
      /\ \A t \in Sequencers : Renewing(t)' <=> Renewing(t)
      /\ \A v \in late : v.seq \in Sequencers
  BY DEF TypeOK, Commands, LateArrives, LateLost, Renewing
<1>2. CASE UNCHANGED redisVars
  BY <1>1, <1>2 DEF redisVars, LockInv, Margin, PendingInTime, LateInTime
<1>3. CASE LateArrives(w) /\ w.op = Renew
  <2>1. lockKey = w.seq /\ lockKey' = w.seq /\ lockTTL' = Timeout /\ lockTTL \in 0 .. Timeout
    BY <1>1, <1>3, OnlyBlind, ClientAssumption
       DEF LateArrives, Execute, Executes, SetKey, Blind, TypeOK, Acquire, Renew, Delete
  <2>2. Margin'
    <3>1. \A t \in Sequencers : lockLeft[t] \in 0 .. Timeout - MaxLatency
      BY DEF TypeOK
    <3> QED
      BY <1>1, <2>1, <3>1, TimeAssumption DEF LockInv, Margin
  <2>3. PendingInTime'
    <3>1. \A t \in Sequencers : Blind(cmd[t]) =>
            cmd[t].reach \in 0 .. MaxLatency /\ cmd[t].until \in Nat
      BY DEF TypeOK, Commands, Blind
    <3> QED
      BY <1>1, <2>1, <3>1, TimeAssumption DEF LockInv, PendingInTime
  <2>4. LateInTime'
    <3>1. \A v \in late : v.reach \in 0 .. MaxLatency
      BY DEF TypeOK, Commands
    <3> QED
      BY <1>1, <2>1, <3>1, TimeAssumption DEF LockInv, LateInTime
  <2> QED
    BY <2>2, <2>3, <2>4 DEF LockInv
<1>4. CASE LateArrives(w) /\ w.op = Delete
  <2>1. Blind(w) /\ lockLeft[w.seq] = 0
    BY <1>1, <1>4, ClientAssumption DEF Blind, LockInv, LateInTime
  <2>2. ~Blind(cmd[w.seq]) /\ \A v \in late \ {w} : Blind(v) => v.seq # w.seq
    <3>1. ~Crosses(w, late' \cup {cmd[w.seq]})
      BY <1>4 DEF LateArrives
    <3>2. Blind(cmd[w.seq]) => cmd[w.seq].seq = w.seq
      BY <1>1 DEF TypeOK, Blind
    <3> QED
      BY <1>1, <1>4, <3>1, <3>2 DEF Crosses
  <2>3. /\ \A t \in Sequencers : lockLeft[t] = 0 /\ ~Blind(cmd[t])
        /\ \A v \in late \ {w} : ~Blind(v)
    BY <2>1, <2>2, OnlyBlind
  <2> QED
    BY <1>1, <2>3, NobodyHolds
<1>5. CASE ~Blind(w) /\ lockKey = NoOne
  <2>1. /\ \A t \in Sequencers : lockLeft[t] = 0 /\ ~Blind(cmd[t])
        /\ \A v \in late : ~Blind(v)
    BY <1>1, <1>5, OnlyTheHolder, ClientAssumption
  <2> QED
    BY <1>1, <2>1, NobodyHolds
<1>6. ~Blind(w) /\ lockKey # NoOne => UNCHANGED redisVars
  BY <1>1, ClientAssumption DEF LateArrives, LateLost, Execute, Executes, Blind, Commands
<1>7. LateLost(w) => UNCHANGED redisVars
  BY DEF LateLost
<1>8. Blind(w) => w.op \in {Renew, Delete}
  BY DEF Blind
<1> QED
  BY <1>2, <1>3, <1>4, <1>5, <1>6, <1>7, <1>8

\* A client gives its attempt up, or dies.
LEMMA LockGivenUp ==
  ASSUME TypeOK, LockInv, NEW s \in Sequencers, GivenUp(s) \/ Killed(s)
  PROVE  LockInv'
<1> DEFINE c == [cmd[s] EXCEPT !.until = 0]
<1>1. /\ lockKey' = lockKey /\ lockTTL' = lockTTL
      /\ ~Blind(cmd'[s])
      /\ \A t \in Sequencers \ {s} : cmd'[t] = cmd[t] /\ lockLeft'[t] = lockLeft[t]
      /\ \A w \in late : w.seq \in Sequencers
  BY DEF TypeOK, GivenUp, Killed, redisVars, Blind, Commands
<1>2. lockLeft'[s] = 0
  <2>1. Blind(cmd[s]) /\ cmd[s].op = Delete => lockLeft[s] = 0
    BY DEF LockInv, PendingInTime
  <2> QED
    BY <2>1 DEF GivenUp, Killed, TypeOK, Blind
<1>3. \A t \in Sequencers : Renewing(t)' => Renewing(t) /\ t # s
  BY <1>1 DEF Renewing, Blind
<1>4. Margin' /\ PendingInTime'
  BY <1>1, <1>2 DEF LockInv, Margin, PendingInTime
<1>5. CASE cmd[s] = NoCommand
  <2>1. late' = late
    BY <1>5 DEF GivenUp, Killed
  <2> QED
    BY <1>1, <1>2, <1>3, <1>4, <2>1 DEF LockInv, LateInTime
<1>6. CASE cmd[s] # NoCommand
  <2>1. /\ cmd[s] \in Commands /\ cmd[s].seq = s
        /\ late' = late \cup {c}
    BY <1>6 DEF TypeOK, GivenUp, Killed
  <2>2. c # NoCommand /\ c.seq = s /\ c.op = cmd[s].op /\ c.reach = cmd[s].reach
    BY <2>1, CommandType
  <2>3. Blind(c) <=> Blind(cmd[s])
    BY <1>6, <2>2 DEF Blind
  <2> HIDE DEF c
  <2>4. CASE Blind(cmd[s])
    <3>1. lockKey = s /\ lockTTL > cmd[s].reach
      BY <2>4 DEF LockInv, PendingInTime
    <3> QED
      BY <1>1, <1>2, <1>3, <1>4, <2>1, <2>2, <3>1 DEF LockInv, LateInTime
  <2>5. CASE ~Blind(cmd[s])
    BY <1>1, <1>2, <1>3, <1>4, <2>1, <2>3, <2>5 DEF LockInv, LateInTime
  <2> QED
    BY <2>4, <2>5
<1> QED
  BY <1>5, <1>6

\* A repetition starts before the deadline, so it ends before the key does.
LEMMA LockRetried ==
  ASSUME TypeOK, LockInv, NEW s \in Sequencers, Retried(s)
  PROVE  LockInv'
<1>1. /\ cmd[s] \in Commands
      /\ lockKey' = lockKey /\ lockTTL' = lockTTL /\ lockLeft' = lockLeft
      /\ cmd'[s] = [cmd[s] EXCEPT !.reach = MaxLatency]
      /\ \A t \in Sequencers \ {s} : cmd'[t] = cmd[t]
  BY DEF TypeOK, Retried, redisVars
<1>2. /\ cmd'[s].op = cmd[s].op /\ cmd'[s].until = cmd[s].until
      /\ cmd'[s].reach = MaxLatency
      /\ Blind(cmd'[s]) <=> Blind(cmd[s])
  <2>1. PICK c \in Commands : c = cmd[s]
    BY <1>1
  <2>2. PICK d : d = [c EXCEPT !.reach = MaxLatency]
    OBVIOUS
  <2>3. /\ c # NoCommand /\ d \in Commands /\ d.op = c.op /\ d.until = c.until
        /\ d.reach = MaxLatency
    BY <2>2, CommandType
  <2>4. d # NoCommand /\ cmd'[s] = d
    BY <1>1, <2>1, <2>2, <2>3, CommandType
  <2> QED
    BY <2>1, <2>3, <2>4, Zenon DEF Blind
<1>3. Blind(cmd[s]) => lockTTL > MaxLatency
  <2>1. /\ cmd[s].until \in Nat /\ lockTTL \in Nat /\ MaxLatency \in Nat
        /\ Blind(cmd[s]) => cmd[s].until > 0
    BY <1>1, TimeAssumption DEF TypeOK, Commands, Retried, MayRetry, Blind, Acquire, Renew, Delete
  <2> QED
    BY <2>1 DEF LockInv, PendingInTime
<1>4. PendingInTime'
  BY <1>1, <1>2, <1>3 DEF LockInv, PendingInTime
<1>5. Margin'
  BY <1>1 DEF LockInv, Margin
<1>6. LateInTime'
  <2>1. \A t \in Sequencers : Renewing(t)' => Renewing(t)
    BY <1>1, <1>2, ClientAssumption DEF Renewing
  <2>2. \A w \in late : w.seq \in Sequencers
    BY DEF TypeOK, Commands
  <2>3. PICK c : c = [cmd[s] EXCEPT !.until = 0]
    OBVIOUS
  <2>4. c.seq = s /\ c.op = cmd[s].op /\ c.reach = cmd[s].reach /\ c # NoCommand
    BY <1>1, <2>3, CommandType DEF TypeOK, Retried
  <2>5. late' \subseteq late \cup {c}
    BY <2>3 DEF Retried
  <2>6. ASSUME Blind(c)
        PROVE  /\ lockKey = s /\ lockTTL > c.reach
               /\ c.op = Delete => lockLeft[s] = 0 /\ ~Renewing(s)
    BY <1>1, <2>4, <2>6 DEF LockInv, PendingInTime, Blind, Retried, Renewing, Renew, Delete
  <2> QED
    BY <1>1, <2>1, <2>2, <2>4, <2>5, <2>6 DEF LockInv, LateInTime
<1> QED
  BY <1>4, <1>5, <1>6 DEF LockInv

-----------------------------------------------------------------------------
\* Every step keeps the invariant.
LEMMA LockStep == TypeOK /\ UncrossedInv /\ [Next]_vars => UncrossedInv'
<1> SUFFICES ASSUME TypeOK, UncrossedInv, [Next]_vars, ~crossed' PROVE LockInv'
  BY DEF UncrossedInv
<1>0. LockInv
  <2>1. ~crossed
    BY DEF Next, Tick, LateStep, LateArrives, LateLost, ClientStep, AcquireOrUpdateLockout,
           ReleaseLockout, Answered, Retried, GivenUp, Killed, vars
  <2> QED
    BY <2>1 DEF UncrossedInv
<1>1. CASE Tick
  BY <1>0, <1>1, LockTick
<1>2. CASE LateStep
  BY <1>0, <1>2, LockLate DEF LateStep
<1>3. ASSUME NEW s \in Sequencers, ClientStep(s) PROVE LockInv'
  BY <1>0, <1>3, LockCall, LockAnswered, LockRetried, LockGivenUp DEF ClientStep
<1>4. CASE UNCHANGED vars
  BY <1>0, <1>4 DEF vars, redisVars, LockInv, Margin, PendingInTime, LateInTime, Renewing
<1> QED
  BY <1>1, <1>2, <1>3, <1>4 DEF Next

\* The state of the lockout keeps its types.
THEOREM LockoutTypeCorrect == Spec => []TypeOK
<1>1. Init => TypeOK
  BY TypeInit
<1>2. TypeOK /\ [Next]_vars => TypeOK'
  BY TypeStep
<1> QED
  BY <1>1, <1>2, PTL DEF Spec

\* The margins hold in every state before a deletion crosses with another
\* attempt, whatever answers are lost.
THEOREM LockInvariant == Spec => [](TypeOK /\ UncrossedInv)
<1>1. Init => TypeOK /\ UncrossedInv
  BY TypeInit, LockInit DEF UncrossedInv
<1>2. TypeOK /\ UncrossedInv /\ [Next]_vars => (TypeOK /\ UncrossedInv)'
  BY TypeStep, LockStep
<1> QED
  BY <1>1, <1>2, PTL DEF Spec

\* Until then two sequencers never have the lockout at the same time, for any
\* number of them and any Timeout of more than twice MaxLatency
\* (acquireOrUpdateGenericLockout, releaseGenericLockout).
THEOREM OneHolder == Spec => []LockoutExclusive
<1>1. TypeOK /\ UncrossedInv => LockoutExclusive
  BY DEF UncrossedInv, LockInv, Margin, LockoutExclusive
<1> QED
  BY <1>1, LockInvariant, PTL

\* Nor does a Set or a Del of one sequencer reach the lockout of another,
\* however late it comes and however often it is repeated (withTimeout,
\* withRetry).
THEOREM NoForeignWrite == Spec => []OwnLockoutOnly
<1>1. TypeOK /\ UncrossedInv => OwnLockoutOnly
  BY DEF UncrossedInv, LockInv, PendingInTime, LateInTime, OwnLockoutOnly
<1> QED
  BY <1>1, LockInvariant, PTL

-----------------------------------------------------------------------------
(***************************************************************************)
(* The refinement of Lease.                                                *)
(***************************************************************************)
Holders == {s \in Sequencers : lockLeft[s] > 0}

\* The steps of Lease under the refinement mapping.
LEMMA LeaseSteps ==
  /\ UNCHANGED <<lockKey, Holders>> => UNCHANGED Lockout!leaseVars
  /\ \A s \in Sequencers :
       /\ lockKey \in {NoOne, s} /\ Holders \subseteq {s} /\ lockKey' = s /\ Holders' = {s}
            => Lockout!LeaseNext
       /\ lockKey = NoOne /\ Holders = {} /\ lockKey' = s /\ Holders' = {} => Lockout!LeaseNext
       /\ Holders = {s} /\ Holders' = {} /\ lockKey' = lockKey => Lockout!LeaseNext
  /\ lockKey # NoOne /\ Holders = {} /\ lockKey' = NoOne /\ Holders' = {} => Lockout!LeaseNext
<1>1. UNCHANGED <<lockKey, Holders>> => UNCHANGED Lockout!leaseVars
  BY DEF Lockout!leaseVars, Holders
<1>2. ASSUME NEW s \in Sequencers,
             lockKey \in {NoOne, s}, Holders \subseteq {s}, lockKey' = s, Holders' = {s}
      PROVE  Lockout!LeaseNext
  <2>1. Lockout!Grant(s)
    BY <1>2 DEF Lockout!Grant, Holders
  <2> QED
    BY <2>1 DEF Lockout!LeaseNext
<1>3. ASSUME NEW s \in Sequencers, lockKey = NoOne, Holders = {}, lockKey' = s, Holders' = {}
      PROVE  Lockout!LeaseNext
  <2>1. Lockout!Stray(s)
    BY <1>3 DEF Lockout!Stray, Holders
  <2> QED
    BY <2>1 DEF Lockout!LeaseNext
<1>4. ASSUME NEW s \in Sequencers, Holders = {s}, Holders' = {}, lockKey' = lockKey
      PROVE  Lockout!LeaseNext
  <2>1. Lockout!Lapse(s)
    BY <1>4 DEF Lockout!Lapse, Holders
  <2> QED
    BY <2>1 DEF Lockout!LeaseNext
<1>5. ASSUME lockKey # NoOne, Holders = {}, lockKey' = NoOne, Holders' = {}
      PROVE  Lockout!LeaseNext
  <2>1. Lockout!Expire
    BY <1>5 DEF Lockout!Expire, Holders
  <2> QED
    BY <2>1 DEF Lockout!LeaseNext
<1> QED
  BY <1>1, <1>2, <1>3, <1>4, <1>5

\* Nobody but the sequencer in the key holds the lockout.
LEMMA HoldersInKey ==
  ASSUME TypeOK, LockInv
  PROVE  /\ Holders \subseteq {lockKey}
         /\ lockKey = NoOne => Holders = {}
         /\ \A s \in Sequencers : (\A t \in Sequencers \ {s} : lockLeft[t] = 0) => Holders \subseteq {s}
BY ClientAssumption DEF TypeOK, LockInv, Margin, Holders

\* A tick ends the lockout of its holder, or the key of nobody, or neither.
LEMMA LeaseTick ==
  ASSUME TypeOK, LockInv, Tick
  PROVE  [Lockout!LeaseNext]_Lockout!leaseVars
<1>1. \A t \in Sequencers :
        /\ lockLeft[t] \in Nat /\ lockLeft'[t] \in Nat
        /\ lockLeft[t] > 0 => lockLeft'[t] = lockLeft[t] - 1
        /\ lockLeft[t] = 0 => lockLeft'[t] = 0
  BY TimeAssumption DEF TypeOK, Tick, Less
<1>2. /\ lockTTL \in Nat
      /\ lockKey' = IF lockTTL = 1 THEN NoOne ELSE lockKey
  BY TimeAssumption DEF TypeOK, Tick
<1>3. CASE \E s \in Sequencers : lockLeft[s] = 1
  <2>1. PICK s \in Sequencers : lockLeft[s] = 1
    BY <1>3
  <2>2. lockKey = s /\ lockTTL >= 1 + MaxLatency
    BY <2>1 DEF LockInv, Margin
  <2>3. lockKey' = lockKey
    BY <1>2, <2>2, TimeAssumption
  <2>4. Holders = {s}
    BY <2>1, <2>2, HoldersInKey DEF Holders
  <2>5. Holders' = {}
    <3>1. \A t \in Sequencers : lockLeft'[t] = 0
      BY <1>1, <2>1, <2>2, OnlyTheHolder
    <3> QED
      BY <3>1 DEF Holders
  <2> QED
    BY <2>3, <2>4, <2>5, LeaseSteps
<1>4. CASE \A s \in Sequencers : lockLeft[s] # 1
  <2>1. \A s \in Sequencers : lockLeft'[s] > 0 <=> lockLeft[s] > 0
    BY <1>1, <1>4
  <2>2. Holders' = Holders
    BY <2>1 DEF Holders
  <2>3. CASE lockTTL # 1 \/ lockKey = NoOne
    BY <1>2, <2>2, <2>3, LeaseSteps
  <2>4. CASE lockTTL = 1 /\ lockKey # NoOne
    <3>1. \A s \in Sequencers : ~(lockLeft[s] > 0)
      BY <1>1, <2>4, TimeAssumption DEF LockInv, Margin
    <3>2. Holders = {}
      BY <3>1 DEF Holders
    <3> QED
      BY <1>2, <2>2, <2>4, <3>2, LeaseSteps
  <2> QED
    BY <2>3, <2>4
<1> QED
  BY <1>3, <1>4

\* A client that gives up what it has, and nothing else changes.
LEMMA LeaseForgets ==
  ASSUME TypeOK, LockInv, NEW s \in Sequencers, lockKey' = lockKey,
         lockLeft'[s] = lockLeft[s] \/ lockLeft'[s] = 0,
         \A t \in Sequencers \ {s} : lockLeft'[t] = lockLeft[t]
  PROVE  [Lockout!LeaseNext]_Lockout!leaseVars
<1>1. lockLeft[s] \in Nat
  BY TimeAssumption DEF TypeOK
<1>2. CASE lockLeft'[s] = lockLeft[s] \/ lockLeft[s] = 0
  <2>1. \A t \in Sequencers : lockLeft'[t] = lockLeft[t]
    BY <1>2
  <2>2. Holders' = Holders
    BY <2>1 DEF Holders
  <2> QED
    BY <2>2, LeaseSteps
<1>3. CASE lockLeft'[s] = 0 /\ lockLeft[s] > 0
  <2>1. lockKey = s
    BY <1>3 DEF LockInv, Margin
  <2>2. \A t \in Sequencers \ {s} : lockLeft[t] = 0
    BY <2>1, OnlyTheHolder
  <2>3. Holders = {s} /\ Holders' = {}
    BY <1>3, <2>2 DEF Holders
  <2> QED
    BY <2>3, LeaseSteps
<1> QED
  BY <1>1, <1>2, <1>3

\* An attempt that arrives when nobody has the lockout, and grants it to nobody.
LEMMA LeaseUnheld ==
  ASSUME TypeOK, TypeOK', Holders = {}, Holders' = {},
         lockKey' = lockKey \/ lockKey' = NoOne \/ lockKey = NoOne
  PROVE  [Lockout!LeaseNext]_Lockout!leaseVars
BY LeaseSteps, ClientAssumption DEF TypeOK

\* An answered attempt grants the lockout, deletes the key or does nothing.
LEMMA LeaseAnswered ==
  ASSUME TypeOK, TypeOK', LockInv, NEW s \in Sequencers, Answered(s)
  PROVE  [Lockout!LeaseNext]_Lockout!leaseVars
<1> DEFINE c == cmd[s]
<1>1. /\ c \in Commands
      /\ c.seq = s
      /\ lockLeft'[s] = Result(s)
      /\ \A t \in Sequencers \ {s} : lockLeft'[t] = lockLeft[t]
  BY DEF TypeOK, Answered
<1>2. CASE c.op = Acquire /\ lockKey # NoOne
  <2>1. lockKey' = lockKey /\ lockLeft'[s] = 0
    BY <1>1, <1>2 DEF Answered, Execute, Executes, Result, redisVars, Acquire, Delete
  <2> QED
    BY <1>1, <2>1, LeaseForgets
<1>3. CASE (c.op = Acquire /\ lockKey = NoOne) \/ c.op = Renew
  <2>1. lockKey' = s /\ lockLeft'[s] = LockLeftAfter(c)
    BY <1>1, <1>3
       DEF Answered, Execute, Executes, SetKey, Result, redisVars, Acquire, Renew, Delete
  <2>2. lockLeft'[s] > 0
    BY <1>1, <2>1, TimeAssumption DEF LockLeftAfter, Commands
  <2>3. lockKey \in {NoOne, s}
    BY <1>1, <1>3, OnlyBlind, ClientAssumption DEF Blind
  <2>4. \A t \in Sequencers \ {s} : lockLeft[t] = 0
    BY <2>3, OnlyTheHolder, ClientAssumption
  <2>5. Holders \subseteq {s} /\ Holders' = {s}
    BY <1>1, <2>2, <2>4 DEF Holders
  <2> QED
    BY <2>1, <2>3, <2>5, LeaseSteps
<1>4. CASE c.op = Delete
  <2>1. Blind(c) /\ lockLeft[s] = 0
    BY <1>1, <1>4, ClientAssumption DEF LockInv, PendingInTime, Blind
  <2>2. lockKey' = NoOne /\ lockLeft'[s] = 0
    BY <1>1, <1>4, <2>1
       DEF Answered, Execute, Executes, Result, redisVars, Acquire, Delete
  <2>3. \A t \in Sequencers \ {s} : lockLeft[t] = 0
    BY <2>1, OnlyBlind
  <2>4. Holders = {} /\ Holders' = {}
    BY <1>1, <2>1, <2>2, <2>3 DEF Holders
  <2> QED
    BY <2>2, <2>4, LeaseUnheld
<1>5. c.op \in {Acquire, Renew, Delete}
  BY <1>1 DEF Commands
<1> QED
  BY <1>2, <1>3, <1>4, <1>5

\* An attempt that was given up changes the key only when nobody has the lockout.
LEMMA LeaseLate ==
  ASSUME TypeOK, TypeOK', LockInv, NEW w \in late, LateArrives(w) \/ LateLost(w)
  PROVE  [Lockout!LeaseNext]_Lockout!leaseVars
<1>1. w \in Commands /\ w.seq \in Sequencers /\ lockLeft' = lockLeft
  BY DEF TypeOK, Commands, LateArrives, LateLost
<1>2. Holders' = Holders
  BY <1>1 DEF Holders
<1>3. CASE lockKey' = lockKey
  BY <1>2, <1>3, LeaseSteps
<1>4. CASE Blind(w) /\ lockKey' # lockKey
  <2>2. lockKey = w.seq
    BY <1>4 DEF LockInv, LateInTime
  <2>3. lockKey' = NoOne /\ w.op = Delete
    BY <1>1, <1>4, <2>2 DEF LateArrives, LateLost, Execute, Executes, SetKey, redisVars, Blind,
                            Acquire, Renew, Delete
  <2>1. Holders = {}
    <3>1. lockLeft[w.seq] = 0
      BY <1>4, <2>3 DEF LockInv, LateInTime
    <3> QED
      BY <1>4, <3>1, OnlyBlind DEF Holders
  <2> QED
    BY <1>2, <2>1, <2>3, LeaseUnheld
<1>5. CASE ~Blind(w) /\ lockKey' # lockKey
  <2>1. lockKey = NoOne
    BY <1>1, <1>5, ClientAssumption
       DEF LateArrives, LateLost, Execute, Executes, Blind, Commands, redisVars
  <2>2. Holders = {}
    BY <2>1, HoldersInKey
  <2> QED
    BY <1>2, <2>1, <2>2, LeaseUnheld
<1> QED
  BY <1>3, <1>4, <1>5

\* Every step is a step of Lease, or one that Lease does not see.
LEMMA LeaseStep ==
  ASSUME TypeOK, TypeOK', LockInv, [Next]_vars
  PROVE  [Lockout!LeaseNext]_Lockout!leaseVars
<1>1. CASE Tick
  BY <1>1, LeaseTick
<1>2. CASE LateStep
  BY <1>2, LeaseLate DEF LateStep
<1>3. ASSUME NEW s \in Sequencers, ClientStep(s)
      PROVE  [Lockout!LeaseNext]_Lockout!leaseVars
  <2>1. CASE Answered(s)
    BY <2>1, LeaseAnswered
  <2>2. CASE AcquireOrUpdateLockout(s) \/ Retried(s)
    BY <2>2, LeaseForgets DEF AcquireOrUpdateLockout, Retried, redisVars
  <2>3. CASE ReleaseLockout(s) \/ GivenUp(s) \/ Killed(s)
    <3>1. /\ lockKey' = lockKey
          /\ lockLeft'[s] = lockLeft[s] \/ lockLeft'[s] = 0
          /\ \A t \in Sequencers \ {s} : lockLeft'[t] = lockLeft[t]
      BY <2>3 DEF ReleaseLockout, GivenUp, Killed, redisVars, TypeOK
    <3> QED
      BY <3>1, LeaseForgets
  <2> QED
    BY <1>3, <2>1, <2>2, <2>3 DEF ClientStep
<1>4. CASE UNCHANGED vars
  <2>1. lockKey' = lockKey /\ Holders' = Holders
    BY <1>4 DEF vars, redisVars, Holders
  <2> QED
    BY <2>1, LeaseSteps
<1> QED
  BY <1>1, <1>2, <1>3, <1>4 DEF Next

\* LockoutRedis implements Lease: what the manager is written over is what
\* redis.go gives it, for any sequencers and times and whatever answers are
\* lost, until a deletion crosses with another attempt of its client.
THEOREM RedisImplementsLease == Spec => ImplementsLease
<1>1. Init => Lockout!LeaseInit
  BY DEF Init, Lockout!LeaseInit
<1>2. (TypeOK /\ UncrossedInv) /\ (TypeOK /\ UncrossedInv)' /\ [Next]_vars
        => [crossed' \/ Lockout!LeaseNext]_Lockout!leaseVars
  <2> SUFFICES ASSUME TypeOK, UncrossedInv, TypeOK', [Next]_vars, ~crossed'
               PROVE  [Lockout!LeaseNext]_Lockout!leaseVars
    OBVIOUS
  <2>1. ~crossed
    BY DEF Next, Tick, LateStep, LateArrives, LateLost, ClientStep, AcquireOrUpdateLockout,
           ReleaseLockout, Answered, Retried, GivenUp, Killed, vars
  <2> QED
    BY <2>1, LeaseStep DEF UncrossedInv
<1> QED
  BY <1>1, <1>2, LockInvariant, PTL DEF Spec, ImplementsLease
====
