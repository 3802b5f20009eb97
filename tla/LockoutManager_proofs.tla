------------------------ MODULE LockoutManager_proofs ------------------------
(***************************************************************************)
(* Proofs about LockoutManager, for any number of sequencers, priorities,  *)
(* messages and faults: no two nodes forward their calls to each other,    *)
(* and, unless the order is put at risk in a way that Risks names,         *)
(* whoever takes the lockout over goes on where the last holder stopped.   *)
(***************************************************************************)
EXTENDS LockoutManager, SequenceTheorems, WellFoundedInduction, TLAPS

(***************************************************************************)
(* Prefixes.                                                               *)
(***************************************************************************)
\* A prefix element by element.
LEMMA PrefixIs ==
  ASSUME NEW S, NEW a \in Seq(S), NEW b \in Seq(S)
  PROVE  IsPrefix(a, b) <=> Len(a) <= Len(b) /\ \A i \in 1 .. Len(a) : a[i] = b[i]
<1>1. Len(a) \in Nat /\ Len(b) \in Nat
  BY LenProperties
<1>2. ASSUME NEW c \in Seq(S), Len(a) <= Len(c)
      PROVE  /\ SubSeq(c, 1, Len(a)) \in Seq(S) /\ Len(SubSeq(c, 1, Len(a))) = Len(a)
             /\ \A i \in 1 .. Len(a) : SubSeq(c, 1, Len(a))[i] = c[i]
  <2>1. PICK n : n = Len(a)
    OBVIOUS
  <2>2. n \in Nat /\ n \in Int /\ 1 \in Int /\ \A i \in 1 .. n : c[i] \in S
    <3>1. Len(c) \in Nat /\ \A i \in 1 .. Len(c) : c[i] \in S
      BY LenProperties, ElementOfSeq
    <3> QED
      BY <1>1, <1>2, <2>1, <3>1
  <2>3. /\ SubSeq(c, 1, n) \in Seq(S)
        /\ Len(SubSeq(c, 1, n)) = IF 1 <= n THEN n - 1 + 1 ELSE 0
        /\ \A i \in 1 .. n - 1 + 1 : SubSeq(c, 1, n)[i] = c[1 + i - 1]
    BY <2>2, SubSeqProperties
  <2>4. Len(SubSeq(c, 1, n)) = n /\ \A i \in 1 .. n : SubSeq(c, 1, n)[i] = c[i]
    BY <2>2, <2>3
  <2> QED
    BY <2>1, <2>3, <2>4
<1>3. Len(a) <= Len(a)
  BY <1>1
<1> DEFINE u == SubSeq(a, 1, Len(a))
           v == SubSeq(b, 1, Len(a))
<1>4. u \in Seq(S) /\ Len(u) = Len(a) /\ \A i \in 1 .. Len(a) : u[i] = a[i]
  BY <1>2, <1>3
<1>5. ASSUME Len(a) <= Len(b)
      PROVE  v \in Seq(S) /\ Len(v) = Len(a) /\ \A i \in 1 .. Len(a) : v[i] = b[i]
  BY <1>2, <1>5
<1> HIDE DEF u, v
<1>6. ASSUME Len(a) <= Len(b) PROVE u = v <=> \A i \in 1 .. Len(a) : a[i] = b[i]
  <2>1. v \in Seq(S) /\ Len(v) = Len(a) /\ \A i \in 1 .. Len(a) : v[i] = b[i]
    BY <1>5, <1>6
  <2>2. ASSUME u = v PROVE \A i \in 1 .. Len(a) : a[i] = b[i]
    BY <1>4, <2>1, <2>2
  <2>3. ASSUME \A i \in 1 .. Len(a) : a[i] = b[i] PROVE u = v
    <3>1. Len(u) = Len(v) /\ \A i \in 1 .. Len(u) : u[i] = v[i]
      BY <1>4, <2>1, <2>3
    <3> QED
      BY <1>4, <2>1, <3>1, SeqEqual
  <2> QED
    BY <2>2, <2>3
<1> QED
  BY <1>6 DEF IsPrefix, u, v

\* Every sequence is a prefix of itself and of what follows it.
LEMMA PrefixSelf ==
  ASSUME NEW S, NEW a \in Seq(S)
  PROVE  /\ IsPrefix(a, a)
         /\ \A x \in S : IsPrefix(a, Append(a, x))
<1>1. Len(a) \in Nat
  BY LenProperties
<1>2. IsPrefix(a, a)
  BY <1>1, PrefixIs
<1>3. ASSUME NEW x \in S PROVE IsPrefix(a, Append(a, x))
  <2>1. /\ Append(a, x) \in Seq(S) /\ Len(Append(a, x)) = Len(a) + 1
        /\ \A i \in 1 .. Len(a) : Append(a, x)[i] = a[i]
    BY AppendProperties
  <2>2. PICK b \in Seq(S) : b = Append(a, x)
    BY <2>1
  <2>3. Len(a) <= Len(b) /\ \A i \in 1 .. Len(a) : a[i] = b[i]
    BY <1>1, <2>1, <2>2
  <2> QED
    BY <2>2, <2>3, PrefixIs
<1> QED
  BY <1>2, <1>3

\* A prefix of a prefix is a prefix.
LEMMA PrefixTrans ==
  ASSUME NEW S, NEW a \in Seq(S), NEW b \in Seq(S), NEW c \in Seq(S),
         IsPrefix(a, b), IsPrefix(b, c)
  PROVE  IsPrefix(a, c)
<1>1. Len(a) \in Nat /\ Len(b) \in Nat /\ Len(c) \in Nat
  BY LenProperties
<1>2. Len(a) <= Len(b) /\ Len(b) <= Len(c)
      /\ (\A i \in 1 .. Len(a) : a[i] = b[i]) /\ (\A i \in 1 .. Len(b) : b[i] = c[i])
  BY PrefixIs
<1>3. Len(a) <= Len(c) /\ \A i \in 1 .. Len(a) : a[i] = c[i]
  BY <1>1, <1>2
<1> QED
  BY <1>3, PrefixIs

\* Two prefixes of one sequence are compatible.
LEMMA PrefixesCompatible ==
  ASSUME NEW S, NEW a \in Seq(S), NEW b \in Seq(S), NEW c \in Seq(S),
         IsPrefix(a, c), IsPrefix(b, c)
  PROVE  Compatible(a, b)
<1>1. Len(a) \in Nat /\ Len(b) \in Nat
  BY LenProperties
<1>2. /\ \A i \in 1 .. Len(a) : a[i] = c[i]
      /\ \A i \in 1 .. Len(b) : b[i] = c[i]
  BY PrefixIs
<1>3. CASE Len(a) <= Len(b)
  <2>1. \A i \in 1 .. Len(a) : a[i] = b[i]
    BY <1>1, <1>2, <1>3
  <2> QED
    BY <1>3, <2>1, PrefixIs DEF Compatible
<1>4. CASE Len(b) <= Len(a)
  <2>1. \A i \in 1 .. Len(b) : b[i] = a[i]
    BY <1>1, <1>2, <1>4
  <2> QED
    BY <1>4, <2>1, PrefixIs DEF Compatible
<1> QED
  BY <1>1, <1>3, <1>4

\* A prefix that is not shorter is all of it.
LEMMA PrefixWhole ==
  ASSUME NEW S, NEW a \in Seq(S), NEW b \in Seq(S), IsPrefix(a, b), Len(a) >= Len(b)
  PROVE  a = b
<1>1. Len(a) \in Nat /\ Len(b) \in Nat
  BY LenProperties
<1>2. Len(a) <= Len(b) /\ \A i \in 1 .. Len(a) : a[i] = b[i]
  BY PrefixIs
<1>3. Len(a) = Len(b)
  BY <1>1, <1>2
<1> QED
  BY <1>2, <1>3, SeqEqual

\* The next message of a longer sequence
LEMMA PrefixNext ==
  ASSUME NEW S, NEW a \in Seq(S), NEW b \in Seq(S), IsStrictPrefix(a, b)
  PROVE  LET n == SubSeq(b, 1, Len(a) + 1)
         IN n \in Seq(S) /\ IsPrefix(n, b) /\ IsPrefix(a, n)
<1>1. Len(a) \in Nat /\ Len(b) \in Nat /\ \A i \in 1 .. Len(b) : b[i] \in S
  BY LenProperties, ElementOfSeq
<1>2. IsPrefix(a, b) /\ a # b
  BY DEF IsStrictPrefix
<1>3. Len(a) < Len(b)
  <2>1. Len(a) <= Len(b)
    BY <1>2, PrefixIs
  <2>2. ~(Len(a) >= Len(b))
    BY <1>2, PrefixWhole
  <2> QED
    BY <1>1, <2>1, <2>2
<1>4. PICK n : n = Len(a) + 1
  OBVIOUS
<1>5. n \in Nat /\ n \in Int /\ 1 \in Int /\ n <= Len(b) /\ \A i \in 1 .. n : b[i] \in S
  BY <1>1, <1>3, <1>4
<1>6. /\ SubSeq(b, 1, n) \in Seq(S)
      /\ Len(SubSeq(b, 1, n)) = IF 1 <= n THEN n - 1 + 1 ELSE 0
      /\ \A i \in 1 .. n - 1 + 1 : SubSeq(b, 1, n)[i] = b[1 + i - 1]
  BY <1>5, SubSeqProperties
<1>7. Len(SubSeq(b, 1, n)) = n /\ \A i \in 1 .. n : SubSeq(b, 1, n)[i] = b[i]
  BY <1>5, <1>6
<1>8. IsPrefix(SubSeq(b, 1, n), b)
  BY <1>5, <1>6, <1>7, PrefixIs
<1>9. IsPrefix(a, SubSeq(b, 1, n))
  <2>1. \A i \in 1 .. Len(a) : a[i] = b[i]
    BY <1>2, PrefixIs
  <2>2. Len(a) <= n /\ \A i \in 1 .. Len(a) : i \in 1 .. n
    BY <1>1, <1>4
  <2> QED
    BY <1>6, <1>7, <2>1, <2>2, PrefixIs
<1> QED
  BY <1>4, <1>6, <1>8, <1>9

(***************************************************************************)
(* Type correctness.                                                       *)
(***************************************************************************)
\* A set of numbers that is not empty has a least one.
LEMMA LeastIndex ==
  ASSUME NEW T, T \subseteq Nat, T # {}
  PROVE  \E x \in T : \A y \in T : x <= y
<1> DEFINE R == OpToRel(<, Nat)
<1>1. PICK x \in T : \A y \in T : ~(<<y, x>> \in R)
  <2>1. IsWellFoundedOn(R, Nat)
    BY NatLessThanWellFounded, Zenon DEF R
  <2> HIDE DEF R
  <2> QED
    BY <2>1, WFMin, Zenon
<1>2. \A y \in T : ~(y < x)
  BY <1>1 DEF OpToRel
<1> QED
  BY <1>2

\* The selected sequencer is one of the sequencers, if anyone is selected.
LEMMA SelectedType == selectSequencer \in Sequencers \cup {NoOne}
<1> DEFINE I == {i \in 1 .. Len(Priorities) : Priorities[i] \in live}
<1>1. Len(Priorities) \in Nat /\ \A i \in 1 .. Len(Priorities) : Priorities[i] \in Sequencers
  BY LockoutManagerAssumption, LenProperties, ElementOfSeq
<1>2. I \subseteq Nat /\ I \subseteq 1 .. Len(Priorities)
  BY <1>1
<1>3. selectSequencer = LET first == IF I # {} THEN Min(I) ELSE 0
                        IN IF first = 0 THEN NoOne ELSE Priorities[first]
  BY DEF selectSequencer, SelectInSeq
<1> HIDE DEF I
<1>4. I # {} => Min(I) \in I
  BY <1>2, LeastIndex DEF Min
<1>5. I # {} => Min(I) \in 1 .. Len(Priorities)
  BY <1>2, <1>4
<1> QED
  BY <1>1, <1>3, <1>5

\* Init has the types.
LEMMA ManagerTypeInit == Init => TypeOK
<1>1. <<>> \in Seq(Sequencers)
  OBVIOUS
<1>2. Init => /\ deadUntil \in [Sequencers -> BOOLEAN] /\ mutex \in [Sequencers -> BOOLEAN]
              /\ up \in [Sequencers -> BOOLEAN] /\ clean \in BOOLEAN
  BY DEF Init, All
<1> QED
  BY <1>1, <1>2 DEF Init, LeaseInit, All, TypeOK, Places, Error, Free, Idle

\* Every step of a loop keeps the types.
LEMMA ManagerType ==
  ASSUME TypeOK, NEW s \in Sequencers, ManagerStep(s)
  PROVE  TypeOK'
<1> USE DEF redisVars, leaseVars, nodeVars, historyVars, At, Goto, GetMessageCount,
            hasSequencerLockout, Places
<1>0. /\ Len(db[s]) \in Nat /\ db[s] \in Seq(Sequencers)
  BY LenProperties DEF TypeOK
<1>1. ASSUME KeepAlive(s) PROVE TypeOK'
  <2>1. live' \subseteq Sequencers /\ lively' \subseteq Sequencers
    BY <1>1 DEF KeepAlive, AcquireOrUpdateLiveliness, ReleaseLiveliness, TypeOK
  <2>2. lastLockedSeqNum' \in [Sequencers -> Nat \cup {Nil}]
    BY <1>1 DEF KeepAlive, TypeOK
  <2> QED
    BY <1>1, <2>1, <2>2 DEF KeepAlive, TypeOK
<1>2. ASSUME Select(s) PROVE TypeOK'
  <2>1. selectedSeq' \in [Sequencers -> Sequencers \cup {NoOne}]
    BY <1>2, SelectedType DEF Select, TypeOK
  <2>2. mutex' \in [Sequencers -> BOOLEAN]
    BY <1>2 DEF Select, TypeOK
  <2>3. pc' \in [Sequencers -> Places]
    BY <1>2 DEF Select, TypeOK
  <2> QED
    BY <1>2, <2>1, <2>2, <2>3 DEF Select, TypeOK
<1>3. ASSUME Acquire(s) PROVE TypeOK'
  <2>1. key' \in Sequencers \cup {NoOne} /\ has' \subseteq Sequencers
    BY <1>3 DEF Acquire, AcquireOrUpdateLockout, Grant, Stray, TypeOK
  <2>2. UNCHANGED <<live, lively, latest, published, selectedSeq, deadUntil, up, db, delivery, call>>
    BY <1>3 DEF Acquire
  <2>6. faults' \in Nat
    BY <1>3 DEF Acquire, AcquireOrUpdateLockout, Fault, TypeOK
  <2>7. clean' \in BOOLEAN
    <3>1. clean' = clean \/ \E b \in BOOLEAN : clean' = (clean /\ b)
      BY <1>3, Zenon DEF Acquire, Risks
    <3> QED
      BY <3>1 DEF TypeOK
  <2>3. CASE s \notin has'
    <3>1. UNCHANGED <<currentSeq, currentBatcher, targetSeqNum, lastLockedSeqNum, mutex>>
          /\ pc' = [pc EXCEPT ![s] = "top"]
      BY <1>3, <2>3 DEF Acquire
    <3> QED
      BY <2>1, <2>2, <2>6, <2>7, <3>1 DEF TypeOK
  <2>4. CASE s \in has' /\ MustCatchUp(s)
    <3>1. /\ targetSeqNum' = [targetSeqNum EXCEPT ![s] = latest]
          /\ lastLockedSeqNum' = [lastLockedSeqNum EXCEPT ![s] = latest]
          /\ pc' = [pc EXCEPT ![s] = "catchUp"]
          /\ UNCHANGED <<currentSeq, currentBatcher, mutex>>
      BY <1>3, <2>4 DEF Acquire
    <3> QED
      BY <2>1, <2>2, <2>6, <2>7, <3>1 DEF TypeOK
  <2>5. CASE s \in has' /\ ~MustCatchUp(s)
    <3>1. /\ currentSeq' = [currentSeq EXCEPT ![s] = s]
          /\ currentBatcher' = [currentBatcher EXCEPT ![s] = Own]
          /\ mutex' = [mutex EXCEPT ![s] = FALSE]
          /\ pc' = [pc EXCEPT ![s] = "publish"]
          /\ UNCHANGED <<targetSeqNum, lastLockedSeqNum>>
      BY <1>3, <2>5 DEF Acquire
    <3> QED
      BY <2>1, <2>2, <2>6, <2>7, <3>1 DEF TypeOK
  <2> QED
    BY <2>3, <2>4, <2>5
<1>4. ASSUME CatchUp(s) PROVE TypeOK'
  BY <1>4 DEF CatchUp, TypeOK
<1>5. ASSUME Fails(s) PROVE TypeOK'
  <2>1. has' \subseteq Sequencers /\ UNCHANGED key
    BY <1>5 DEF Fails, ReleaseLockout, Lapse, TypeOK
  <2>2. faults' \in Nat /\ live' \subseteq Sequencers /\ lively' \subseteq Sequencers
    BY <1>5 DEF Fails, Fault, ReleaseLiveliness, TypeOK
  <2>3. /\ mutex' \in [Sequencers -> BOOLEAN] /\ deadUntil' \in [Sequencers -> BOOLEAN]
        /\ currentBatcher' \in [Sequencers -> Sequencers \cup {Own, Error, None}]
        /\ currentSeq' \in [Sequencers -> Sequencers \cup {NoOne, Nil}]
    BY <1>5 DEF Fails, TypeOK
  <2> QED
    BY <1>5, <2>1, <2>2, <2>3 DEF Fails, TypeOK
<1>6. ASSUME SequenceDelayedMessages(s) PROVE TypeOK'
  <2>1. Append(db[s], s) \in Seq(Sequencers)
    BY <1>0, AppendProperties
  <2>2. db' \in [Sequencers -> Seq(Sequencers)]
    BY <1>6, <2>1 DEF SequenceDelayedMessages, TypeOK
  <2>3. clean' \in BOOLEAN
    <3>1. clean' = clean \/ \E b \in BOOLEAN : clean' = (clean /\ b)
      BY <1>6, Zenon DEF SequenceDelayedMessages, Risks
    <3> QED
      BY <3>1 DEF TypeOK
  <2> QED
    BY <1>6, <2>2, <2>3 DEF SequenceDelayedMessages, TypeOK
<1>7. ASSUME Ready(s) PROVE TypeOK'
  BY <1>7 DEF Ready, TypeOK
<1>8. ASSUME Publish(s) PROVE TypeOK'
  <2>1. latest' \in Nat /\ published' \in Seq(Sequencers)
    BY <1>0, <1>8 DEF Publish, UpdateLatestSeqNum, TypeOK
  <2> QED
    BY <1>0, <1>8, <2>1 DEF Publish, TypeOK
<1>9. ASSUME MakeWay(s) PROVE TypeOK'
  BY <1>9 DEF MakeWay, TypeOK
<1>10. ASSUME Release(s) PROVE TypeOK'
  <2>1. latest' \in Nat /\ published' \in Seq(Sequencers)
    BY <1>0, <1>10 DEF Release, UpdateLatestSeqNum, TypeOK
  <2>2. has' \subseteq Sequencers /\ UNCHANGED key
    BY <1>10 DEF Release, ReleaseLockout, Lapse, TypeOK
  <2> QED
    BY <1>0, <1>10, <2>1, <2>2 DEF Release, TypeOK
<1>11. ASSUME Follow(s) PROVE TypeOK'
  <2>1. selectedSeq[s] # NoOne => selectedSeq[s] \in Sequencers
    BY DEF TypeOK
  <2>2. /\ mutex' \in [Sequencers -> BOOLEAN]
        /\ currentBatcher' \in [Sequencers -> Sequencers \cup {Own, Error, None}]
        /\ currentSeq' \in [Sequencers -> Sequencers \cup {NoOne, Nil}]
    BY <1>11, <2>1 DEF Follow, TypeOK
  <2> QED
    BY <1>11, <2>2 DEF Follow, TypeOK
<1> QED
  BY <1>1, <1>2, <1>3, <1>4, <1>5, <1>6, <1>7, <1>8, <1>9, <1>10, <1>11 DEF ManagerStep

\* So does everything beside the loops.
LEMMA NodeType ==
  ASSUME TypeOK, NEW s \in Sequencers,
         \/ SendTransaction(s) \/ CallStep(s) \/ Receive(s) \/ DeadUntilComes(s) \/ Crash(s)
         \/ Restart(s) \/ LockoutLapses(s) \/ LivelinessLapses(s)
         \/ LivelinessExpires(s) \/ LateAttempt(s)
  PROVE  TypeOK'
<1> USE DEF redisVars, leaseVars, loopVars, nodeVars, historyVars, hasSequencerLockout, Places
<1>0. db[s] \in Seq(Sequencers)
  BY DEF TypeOK
<1>1. ASSUME SendTransaction(s) PROVE TypeOK'
  BY <1>1 DEF SendTransaction, TypeOK
<1>2. ASSUME LockDelivery(s) PROVE TypeOK'
  BY <1>2 DEF LockDelivery, TypeOK
<1>3. ASSUME Sequence(s) PROVE TypeOK'
  <2>1. Append(db[s], s) \in Seq(Sequencers)
    BY <1>0, AppendProperties
  <2>2. db' \in [Sequencers -> Seq(Sequencers)]
    BY <1>3, <2>1 DEF Sequence, TypeOK
  <2> QED
    BY <1>3, <2>2 DEF Sequence, TypeOK
<1>4. ASSUME Receive(s) PROVE TypeOK'
  <2>1. db' \in [Sequencers -> Seq(Sequencers)]
    <3>1. ASSUME NEW t \in Sequencers, IsStrictPrefix(db[s], db[t])
          PROVE  SubSeq(db[t], 1, Len(db[s]) + 1) \in Seq(Sequencers)
      BY <1>0, <3>1, PrefixNext DEF TypeOK
    <3>2. db \in [Sequencers -> Seq(Sequencers)] /\ published \in Seq(Sequencers)
      BY DEF TypeOK
    <3>3. PICK new \in Seq(Sequencers) : db' = [db EXCEPT ![s] = new]
      BY <1>4, <3>1, <3>2, Zenon DEF Receive
    <3> QED
      BY <3>2, <3>3
  <2> QED
    BY <1>4, <2>1 DEF Receive, TypeOK
<1>5. ASSUME DeadUntilComes(s) PROVE TypeOK'
  BY <1>5 DEF DeadUntilComes, TypeOK
<1>6. ASSUME Crash(s) PROVE TypeOK'
  <2>1. has' \subseteq Sequencers /\ UNCHANGED key
    BY <1>6 DEF Crash, ReleaseLockout, Lapse, TypeOK
  <2>2. clean' \in BOOLEAN
    BY <1>6, Zenon DEF Crash, Risks
  <2>3. /\ pc' \in [Sequencers -> Places]
        /\ selectedSeq' \in [Sequencers -> Sequencers \cup {NoOne}]
        /\ currentSeq' \in [Sequencers -> Sequencers \cup {NoOne, Nil}]
        /\ currentBatcher' \in [Sequencers -> Sequencers \cup {Own, Error, None}]
        /\ lastLockedSeqNum' \in [Sequencers -> Nat \cup {Nil}]
        /\ targetSeqNum' \in [Sequencers -> Nat]
        /\ deadUntil' \in [Sequencers -> BOOLEAN] /\ mutex' \in [Sequencers -> BOOLEAN]
        /\ lively' \subseteq Sequencers
    BY <1>6 DEF Crash, StartsUp, TypeOK
  <2>4. /\ up' \in [Sequencers -> BOOLEAN] /\ db' \in [Sequencers -> Seq(Sequencers)]
        /\ delivery' \in [Sequencers -> {Free, Manager, SendTx}]
        /\ call' \in [Sequencers -> {Idle, Queued, Locked}]
        /\ faults' \in Nat /\ UNCHANGED <<live, latest, published>>
    BY <1>6 DEF Crash, Fault, TypeOK
  <2> QED
    BY <2>1, <2>2, <2>3, <2>4 DEF TypeOK
<1>7. ASSUME Restart(s) PROVE TypeOK'
  BY <1>7 DEF Restart, TypeOK
<1>8. ASSUME LockoutLapses(s) PROVE TypeOK'
  <2>1. clean' \in BOOLEAN
    BY <1>8, Zenon DEF LockoutLapses, Risks
  <2>2. faults' \in Nat
    BY <1>8 DEF LockoutLapses, NotRenewed, Fault, TypeOK
  <2> QED
    BY <1>8, <2>1, <2>2 DEF LockoutLapses, Lapse, TypeOK
<1>9. ASSUME LivelinessExpires(s) PROVE TypeOK'
  BY <1>9 DEF LivelinessExpires, TypeOK
<1>10. ASSUME LateAttempt(s) PROVE TypeOK'
  BY <1>10 DEF LateAttempt, Stray, TypeOK
<1>11. ASSUME LivelinessLapses(s) PROVE TypeOK'
  <2>1. faults' \in Nat
    BY <1>11 DEF LivelinessLapses, NotRenewed, Fault, TypeOK
  <2> QED
    BY <1>11, <2>1 DEF LivelinessLapses, TypeOK
<1> QED
  BY <1>1, <1>2, <1>3, <1>4, <1>5, <1>6, <1>7, <1>8, <1>9, <1>10, <1>11 DEF CallStep

\* Every step keeps the types.
LEMMA TypeStep == ASSUME TypeOK, [Next]_vars PROVE TypeOK'
<1>1. CASE KeyExpires
  BY <1>1 DEF KeyExpires, Expire, TypeOK, loopVars, nodeVars, historyVars
<1>2. CASE UNCHANGED vars
  BY <1>2 DEF vars, TypeOK, redisVars, leaseVars, loopVars, nodeVars, historyVars
<1>3. CASE PositionExpires
  <2>1. clean' \in BOOLEAN
    BY <1>3, Zenon DEF PositionExpires, Risks
  <2> QED
    BY <1>3, <2>1 DEF PositionExpires, TypeOK, leaseVars, loopVars, nodeVars
<1> QED
  BY <1>1, <1>2, <1>3, ManagerType, NodeType DEF Next

(***************************************************************************)
(* The loop, the mutexes and the batcher.                                  *)
(***************************************************************************)
\* What a loop has done when it is at a place: b.mutex is held from where the
\* sequencer is to become another one to where it has, and only a sequencer
\* that is its own batcher publishes and makes way.
LoopAt(s) ==
  /\ pc[s] \in {"acquire", "catchUp", "delayed", "ready", "release", "follow"} => mutex[s]
  /\ pc[s] \in {"makeWay", "release", "follow"} => selectedSeq[s] # s
  /\ pc[s] \in {"publish", "makeWay", "release"} => currentBatcher[s] = Own
  /\ pc[s] \in {"catchUp", "delayed", "ready", "follow"} => currentBatcher[s] # Own
  /\ call[s] = Locked => delivery[s] = SendTx
  /\ pc[s] = "release" => delivery[s] = Manager
  /\ ~up[s] => currentBatcher[s] = Error /\ pc[s] = "top"

LoopInv == \A s \in Sequencers : LoopAt(s)

\* A step changes nothing of the loop and the node of t.
LeftAlone(t) ==
  /\ pc'[t] = pc[t] /\ mutex'[t] = mutex[t] /\ selectedSeq'[t] = selectedSeq[t]
  /\ currentBatcher'[t] = currentBatcher[t] /\ call'[t] = call[t]
  /\ delivery'[t] = delivery[t] /\ up'[t] = up[t] /\ db'[t] = db[t]
  /\ targetSeqNum'[t] = targetSeqNum[t]

\* A step that is not of t leaves its loop where it is.
LEMMA LoopOther ==
  ASSUME NEW t, LoopAt(t),
         LeftAlone(t)
  PROVE  LoopAt(t)'
BY DEF LoopAt, LeftAlone

\* A step of s changes nothing of another sequencer's loop and node.
LEMMA OwnStepOnly ==
  ASSUME TypeOK, NEW s \in Sequencers, NEW t \in Sequencers \ {s},
         \/ ManagerStep(s) \/ SendTransaction(s) \/ CallStep(s) \/ Receive(s)
         \/ DeadUntilComes(s) \/ Crash(s) \/ Restart(s) \/ LockoutLapses(s)
         \/ LivelinessLapses(s) \/ LivelinessExpires(s) \/ LateAttempt(s)
  PROVE  LeftAlone(t)
<1> USE DEF redisVars, leaseVars, loopVars, nodeVars, historyVars, Goto, TypeOK, LeftAlone
<1>1. ASSUME \/ KeepAlive(s) \/ Select(s) \/ CatchUp(s) \/ SequenceDelayedMessages(s)
             \/ Ready(s) \/ Publish(s) \/ MakeWay(s)
      PROVE  LeftAlone(t)
  BY <1>1 DEF KeepAlive, Select, CatchUp, SequenceDelayedMessages, Ready, Publish, MakeWay
<1>2. ASSUME Acquire(s) \/ Fails(s) \/ Release(s) \/ Follow(s)
      PROVE  LeftAlone(t)
  BY <1>2 DEF Acquire, Fails, Release, Follow
<1>3. ASSUME \/ SendTransaction(s) \/ LockDelivery(s) \/ Sequence(s) \/ Receive(s)
             \/ DeadUntilComes(s) \/ Restart(s)
      PROVE  LeftAlone(t)
  BY <1>3 DEF SendTransaction, LockDelivery, Sequence, Receive, DeadUntilComes, Restart
<1>4. ASSUME \/ Crash(s) \/ LockoutLapses(s) \/ LivelinessLapses(s) \/ LivelinessExpires(s)
             \/ LateAttempt(s)
      PROVE  LeftAlone(t)
  BY <1>4 DEF Crash, StartsUp, LockoutLapses, LivelinessLapses, LivelinessExpires, LateAttempt
<1> QED
  BY <1>1, <1>2, <1>3, <1>4 DEF ManagerStep, CallStep

\* Every step keeps the loops where they may be.
LEMMA LoopStep == ASSUME TypeOK, LoopInv, [Next]_vars PROVE LoopInv'
<1> USE DEF redisVars, leaseVars, loopVars, nodeVars, historyVars, At, Goto
<1>0. Own # Error /\ Own # None /\ Own \notin Sequencers /\ Error # None
  BY LockoutManagerAssumption DEF Own, Error, None
<1>1. ASSUME NEW s \in Sequencers, ManagerStep(s) PROVE LoopAt(s)'
  <2>0. LoopAt(s)
    BY DEF LoopInv
  <2>1. ASSUME KeepAlive(s) PROVE LoopAt(s)'
    BY <2>0, <2>1 DEF KeepAlive, LoopAt, TypeOK
  <2>2. ASSUME Select(s) PROVE LoopAt(s)'
    BY <2>0, <2>2 DEF Select, LoopAt, TypeOK
  <2>3. ASSUME Acquire(s) PROVE LoopAt(s)'
    BY <1>0, <2>0, <2>3 DEF Acquire, LoopAt, TypeOK, MustCatchUp
  <2>4. ASSUME CatchUp(s) PROVE LoopAt(s)'
    BY <2>0, <2>4 DEF CatchUp, LoopAt, TypeOK
  <2>5. ASSUME Fails(s) PROVE LoopAt(s)'
    BY <1>0, <2>0, <2>5 DEF Fails, LoopAt, TypeOK
  <2>6. ASSUME SequenceDelayedMessages(s) PROVE LoopAt(s)'
    BY <2>0, <2>6 DEF SequenceDelayedMessages, LoopAt, TypeOK
  <2>7. ASSUME Ready(s) PROVE LoopAt(s)'
    BY <1>0, <2>0, <2>7 DEF Ready, LoopAt, TypeOK
  <2>8. ASSUME Publish(s) PROVE LoopAt(s)'
    BY <2>0, <2>8 DEF Publish, LoopAt, TypeOK
  <2>9. ASSUME MakeWay(s) PROVE LoopAt(s)'
    BY <2>0, <2>9 DEF MakeWay, LoopAt, TypeOK, Manager, SendTx, Free, Idle, Locked
  <2>10. ASSUME Release(s) PROVE LoopAt(s)'
    BY <1>0, <2>0, <2>10 DEF Release, LoopAt, TypeOK, Manager, SendTx
  <2>11. ASSUME Follow(s) PROVE LoopAt(s)'
    BY <1>0, <2>0, <2>11 DEF Follow, LoopAt, TypeOK
  <2> QED
    BY <1>1, <2>1, <2>2, <2>3, <2>4, <2>5, <2>6, <2>7, <2>8, <2>9, <2>10, <2>11 DEF ManagerStep
<1>2. ASSUME NEW s \in Sequencers,
             \/ SendTransaction(s) \/ CallStep(s) \/ Receive(s) \/ DeadUntilComes(s) \/ Crash(s)
             \/ Restart(s) \/ LockoutLapses(s) \/ LivelinessLapses(s) \/ LivelinessExpires(s)
             \/ LateAttempt(s)
      PROVE  LoopAt(s)'
  <2>0. LoopAt(s)
    BY DEF LoopInv
  <2>1. ASSUME SendTransaction(s) PROVE LoopAt(s)'
    BY <2>0, <2>1 DEF SendTransaction, LoopAt, TypeOK, Queued, Locked
  <2>2. ASSUME LockDelivery(s) PROVE LoopAt(s)'
    BY <2>0, <2>2 DEF LockDelivery, LoopAt, TypeOK, Manager, SendTx, Free, Idle, Locked
  <2>3. ASSUME Sequence(s) PROVE LoopAt(s)'
    BY <2>0, <2>3 DEF Sequence, LoopAt, TypeOK, Manager, SendTx, Free, Idle, Locked
  <2>4. ASSUME Crash(s) PROVE LoopAt(s)'
    BY <1>0, <2>0, <2>4 DEF Crash, StartsUp, LoopAt, TypeOK, Idle, Locked
  <2>5. ASSUME Restart(s) PROVE LoopAt(s)'
    BY <2>0, <2>5 DEF Restart, LoopAt, TypeOK
  <2>6. ASSUME \/ Receive(s) \/ DeadUntilComes(s) \/ LockoutLapses(s) \/ LivelinessLapses(s)
               \/ LivelinessExpires(s) \/ LateAttempt(s)
        PROVE  LoopAt(s)'
    <3>1. UNCHANGED <<pc, mutex, selectedSeq, currentBatcher, call, delivery, up>>
      BY <2>6 DEF Receive, DeadUntilComes, LockoutLapses, LivelinessLapses, LivelinessExpires,
                  LateAttempt
    <3> QED
      BY <2>0, <3>1 DEF LoopAt
  <2> QED
    BY <1>2, <2>1, <2>2, <2>3, <2>4, <2>5, <2>6 DEF CallStep
<1>3. ASSUME NEW s \in Sequencers, NEW t \in Sequencers \ {s},
             \/ ManagerStep(s) \/ SendTransaction(s) \/ CallStep(s) \/ Receive(s)
             \/ DeadUntilComes(s) \/ Crash(s) \/ Restart(s) \/ LockoutLapses(s)
             \/ LivelinessLapses(s) \/ LivelinessExpires(s) \/ LateAttempt(s)
      PROVE  LoopAt(t)'
  BY <1>3, OwnStepOnly, LoopOther DEF LoopInv
<1>4. ASSUME KeyExpires \/ PositionExpires \/ UNCHANGED vars PROVE LoopInv'
  <2>1. UNCHANGED <<pc, mutex, selectedSeq, currentBatcher, call, delivery, up>>
    BY <1>4 DEF KeyExpires, PositionExpires, vars
  <2> QED
    BY <2>1 DEF LoopInv, LoopAt
<1> QED
  BY <1>1, <1>2, <1>3, <1>4 DEF Next, LoopInv

(***************************************************************************)
(* Calls are not forwarded in a circle.                                    *)
(***************************************************************************)
\* The name in redis is not that of a sequencer whose calls go elsewhere.
KeyInv == \A s \in Sequencers : currentBatcher[s] \in Sequencers /\ ~mutex[s] => key # s

\* A step of s changes where its calls go in Follow only.
LEMMA ForwardingBegins ==
  ASSUME TypeOK, LoopInv, NEW s \in Sequencers, NEW t \in Sequencers, [Next]_vars,
         Forwards(s, t)'
  PROVE  \/ Forwards(s, t)
         \/ Follow(s) /\ t = key /\ UNCHANGED key /\ s # t
<1> USE DEF redisVars, leaseVars, loopVars, nodeVars, historyVars, At, Goto
<1>0. /\ t # Own /\ t # Error /\ t # None
      /\ LoopAt(s) /\ up'[s] /\ ~mutex'[s] /\ currentBatcher'[s] = t
  BY LockoutManagerAssumption DEF LoopInv, Forwards
<1>1. ASSUME LeftAlone(s) PROVE Forwards(s, t)
  BY <1>0, <1>1 DEF LeftAlone, Forwards
<1>2. ASSUME Follow(s) PROVE Forwards(s, t) \/ (t = key /\ UNCHANGED key /\ s # t)
  <2>1. pc[s] = "follow" /\ mutex[s] /\ selectedSeq[s] # s
    BY <1>0, <1>2 DEF Follow, LoopAt
  <2>2. currentBatcher'[s] = Error \/ currentBatcher'[s] = key \/ mutex'[s] = mutex[s]
    BY <1>2 DEF Follow, TypeOK, MayForward
  <2>3. currentBatcher'[s] = key => key = selectedSeq[s] \/ currentBatcher'[s] = Error
                                    \/ mutex'[s] = mutex[s]
    BY <1>2 DEF Follow, TypeOK, MayForward
  <2> QED
    BY <1>0, <1>2, <2>1, <2>2, <2>3 DEF Follow
<1>3. ASSUME \/ KeepAlive(s) \/ Select(s) \/ Acquire(s) \/ CatchUp(s) \/ Fails(s)
             \/ SequenceDelayedMessages(s) \/ Ready(s) \/ Publish(s) \/ MakeWay(s) \/ Release(s)
      PROVE  Forwards(s, t)
  <2>1. up[s]
    BY <1>3 DEF KeepAlive, Select, Acquire, CatchUp, Fails, SequenceDelayedMessages, Ready,
                Publish, MakeWay, Release
  <2>2. CASE \/ KeepAlive(s) \/ Select(s) \/ CatchUp(s) \/ SequenceDelayedMessages(s)
             \/ Publish(s) \/ MakeWay(s)
    BY <1>0, <2>1, <2>2 DEF KeepAlive, Select, CatchUp, SequenceDelayedMessages, Publish, MakeWay,
                            TypeOK, Forwards
  <2>3. CASE Fails(s) \/ Ready(s) \/ Release(s)
    BY <1>0, <2>1, <2>3 DEF Fails, Ready, Release, TypeOK
  <2>4. CASE Acquire(s)
    BY <1>0, <2>1, <2>4 DEF Acquire, TypeOK, Forwards
  <2> QED
    BY <1>3, <2>2, <2>3, <2>4
<1>4. ASSUME \/ SendTransaction(s) \/ CallStep(s) \/ Receive(s) \/ DeadUntilComes(s)
             \/ LockoutLapses(s) \/ LivelinessLapses(s) \/ LivelinessExpires(s) \/ LateAttempt(s)
      PROVE  Forwards(s, t)
  BY <1>0, <1>4 DEF SendTransaction, CallStep, LockDelivery, Sequence, Receive, DeadUntilComes,
                    LockoutLapses, LivelinessLapses, LivelinessExpires, LateAttempt, Forwards
<1>5. ASSUME Crash(s) PROVE FALSE
  BY <1>0, <1>5 DEF Crash, TypeOK
<1>6. ASSUME Restart(s) PROVE FALSE
  BY <1>0, <1>6 DEF Restart, LoopAt
<1>7. ASSUME KeyExpires \/ PositionExpires \/ UNCHANGED vars PROVE Forwards(s, t)
  BY <1>0, <1>7 DEF KeyExpires, PositionExpires, vars, Forwards
<1>8. ASSUME NEW r \in Sequencers \ {s},
             \/ ManagerStep(r) \/ SendTransaction(r) \/ CallStep(r) \/ Receive(r)
             \/ DeadUntilComes(r) \/ Crash(r) \/ Restart(r) \/ LockoutLapses(r)
             \/ LivelinessLapses(r) \/ LivelinessExpires(r) \/ LateAttempt(r)
      PROVE  Forwards(s, t)
  BY <1>1, <1>8, OwnStepOnly
<1> QED
  BY <1>2, <1>3, <1>4, <1>5, <1>6, <1>7, <1>8 DEF Next, ManagerStep

\* The name in redis becomes that of a sequencer when it has b.mutex or has died.
LEMMA KeyStep == ASSUME TypeOK, LoopInv, KeyInv, [Next]_vars PROVE KeyInv'
<1> USE DEF redisVars, leaseVars, loopVars, nodeVars, historyVars, At, Goto
<1> SUFFICES ASSUME NEW s \in Sequencers, currentBatcher'[s] \in Sequencers, ~mutex'[s],
                    key' = s
             PROVE  FALSE
  BY DEF KeyInv
<1>0. /\ Own \notin Sequencers /\ Error \notin Sequencers /\ NoOne \notin Sequencers
      /\ LoopAt(s)
  BY LockoutManagerAssumption DEF LoopInv
<1>1. PICK t : t = currentBatcher'[s]
  OBVIOUS
<1>2. CASE up'[s]
  <2>1. Forwards(s, t)'
    BY <1>1, <1>2 DEF Forwards
  <2>2. CASE Follow(s) /\ t = key /\ UNCHANGED key /\ s # t
    BY <2>2
  <2>3. CASE Forwards(s, t)
    <3>1. key # s /\ up[s] /\ ~mutex[s] /\ currentBatcher[s] \in Sequencers
      BY <1>1, <2>3 DEF KeyInv, Forwards
    <3>2. PICK r \in Sequencers : Acquire(r) \/ LateAttempt(r)
      <4>1. key' # key /\ key' # NoOne
        BY <1>0, <3>1
      <4>2. ASSUME NEW r \in Sequencers,
                   \/ KeepAlive(r) \/ Select(r) \/ CatchUp(r) \/ Fails(r)
                   \/ SequenceDelayedMessages(r) \/ Ready(r) \/ Publish(r) \/ MakeWay(r)
                   \/ Release(r) \/ Follow(r)
            PROVE  FALSE
        BY <4>1, <4>2 DEF KeepAlive, Select, CatchUp, Fails, SequenceDelayedMessages, Ready,
                          Publish, MakeWay, Release, Follow, ReleaseLockout, Lapse
      <4>3. ASSUME NEW r \in Sequencers,
                   \/ SendTransaction(r) \/ CallStep(r) \/ Receive(r) \/ DeadUntilComes(r)
                   \/ Crash(r) \/ Restart(r) \/ LockoutLapses(r) \/ LivelinessLapses(r)
                   \/ LivelinessExpires(r)
            PROVE  FALSE
        BY <4>1, <4>3 DEF SendTransaction, CallStep, LockDelivery, Sequence, Receive,
                          DeadUntilComes, Crash, ReleaseLockout, Restart, LockoutLapses, Lapse,
                          LivelinessLapses, LivelinessExpires
      <4>4. ~KeyExpires /\ ~PositionExpires /\ ~UNCHANGED vars
        BY <4>1 DEF KeyExpires, Expire, PositionExpires, vars
      <4> QED
        BY <4>2, <4>3, <4>4 DEF Next, ManagerStep
    <3>3. r = s
      BY <3>1, <3>2 DEF Acquire, AcquireOrUpdateLockout, Grant, LateAttempt, Stray
    <3>4. ~LateAttempt(s)
      BY <3>1 DEF LateAttempt
    <3> QED
      BY <1>0, <3>1, <3>2, <3>3, <3>4 DEF Acquire, LoopAt
  <2> QED
    BY <1>1, <2>1, <2>2, <2>3, ForwardingBegins
<1>3. CASE ~up'[s]
  <2>1. LoopAt(s)'
    BY LoopStep DEF LoopInv
  <2> QED
    BY <1>0, <1>3, <2>1 DEF LoopAt
<1> QED
  BY <1>2, <1>3

\* When the calls of s begin to go to t, t has the lockout's key and sends its
\* own calls nowhere.
LEMMA CircleStep ==
  ASSUME TypeOK, LoopInv, KeyInv, NoForwardingCircle, [Next]_vars
  PROVE  NoForwardingCircle'
<1> SUFFICES ASSUME NEW s \in Sequencers, NEW t \in Sequencers, Forwards(s, t)', Forwards(t, s)'
             PROVE  FALSE
  BY DEF NoForwardingCircle
<1>1. ASSUME NEW a \in Sequencers, NEW b \in Sequencers, Forwards(b, a)',
             Follow(a), b = key, UNCHANGED key, a # b
      PROVE  FALSE
  <2>1. LeftAlone(b)
    BY <1>1, OwnStepOnly DEF ManagerStep
  <2>2. Forwards(b, a)
    BY <1>1, <2>1 DEF LeftAlone, Forwards
  <2> QED
    BY <1>1, <2>2 DEF Forwards, KeyInv
<1>2. CASE Follow(s) /\ t = key /\ UNCHANGED key /\ s # t
  BY <1>1, <1>2
<1>3. CASE Follow(t) /\ s = key /\ UNCHANGED key /\ t # s
  BY <1>1, <1>3
<1>4. CASE Forwards(s, t) /\ Forwards(t, s)
  BY <1>4 DEF NoForwardingCircle
<1> QED
  BY <1>2, <1>3, <1>4, ForwardingBegins

\* Where the loops are, and the name in redis
LoopsInv == TypeOK /\ LoopInv /\ KeyInv

\* They hold together.
THEOREM LoopsInvariant == Spec => []LoopsInv
<1>1. Init => LoopsInv
  <2> SUFFICES ASSUME Init PROVE LoopsInv
    OBVIOUS
  <2>1. LoopInv
    BY DEF Init, LoopInv, LoopAt, All, Error, Own, Idle, Locked
  <2>2. KeyInv
    BY LockoutManagerAssumption DEF Init, KeyInv, All
  <2> QED
    BY <2>1, <2>2, ManagerTypeInit DEF LoopsInv
<1>2. LoopsInv /\ [Next]_vars => LoopsInv'
  BY TypeStep, LoopStep, KeyStep DEF LoopsInv
<1> QED
  BY <1>1, <1>2, PTL DEF Spec

\* The types are right whatever the sequencers, redis and time do.
THEOREM ManagerTypes == Spec => []TypeOK
<1>1. LoopsInv => TypeOK
  BY DEF LoopsInv
<1> QED
  BY <1>1, LoopsInvariant, PTL

\* No call goes in a circle between two sequencers, for any number of them and
\* also when redis is out of reach (259-272 of lockout.go).
THEOREM CallsGoNowhereInCircles == Spec => []NoForwardingCircle
<1>1. Init => NoForwardingCircle
  BY LockoutManagerAssumption DEF Init, NoForwardingCircle, Forwards, All
<1>2. LoopsInv /\ NoForwardingCircle /\ [Next]_vars => NoForwardingCircle'
  BY CircleStep DEF LoopsInv
<1> QED
  BY <1>1, <1>2, LoopsInvariant, PTL DEF Spec

(***************************************************************************)
(* One sequencer has the lockout, and its loop knows.                      *)
(***************************************************************************)
\* The loop takes the sequencer for the one that has the lockout.
Holding(s) == currentBatcher[s] = Own \/ pc[s] \in {"catchUp", "delayed", "ready"}

\* The one who has the lockout runs, and its loop has acquired it.  A loop may
\* believe so when it is over.
LockoutInv ==
  /\ \A s, t \in has : s = t
  /\ \A s \in has : Holding(s) /\ up[s]

\* A step of s with which nobody else's lockout changes
LEMMA LockoutOwn ==
  ASSUME TypeOK, LockoutInv, NEW s \in Sequencers,
         \A t \in Sequencers \ {s} : LeftAlone(t),
         has' \subseteq has \/ (has \subseteq {s} /\ has' \subseteq {s}),
         s \in has' => Holding(s)' /\ up'[s]
  PROVE  LockoutInv'
<1>1. ASSUME NEW t \in has', t # s PROVE Holding(t)' /\ up'[t]
  BY <1>1 DEF LockoutInv, Holding, LeftAlone, TypeOK
<1> QED
  BY <1>1 DEF LockoutInv

\* Every step leaves the lockout with one whose loop knows.
LEMMA LockoutStep ==
  ASSUME TypeOK, LoopInv, LockoutInv, [Next]_vars
  PROVE  LockoutInv'
<1> USE DEF redisVars, leaseVars, loopVars, nodeVars, historyVars, At, Goto, hasSequencerLockout
<1>0. Own # Error /\ Own # None /\ Own \notin Sequencers
  BY LockoutManagerAssumption DEF Own, Error, None
<1>1. ASSUME NEW s \in Sequencers,
             \/ KeepAlive(s) \/ Select(s) \/ CatchUp(s) \/ SequenceDelayedMessages(s) \/ Ready(s)
             \/ Publish(s) \/ MakeWay(s) \/ Follow(s)
      PROVE  LockoutInv'
  <2>0. LoopAt(s) /\ \A t \in Sequencers \ {s} : LeftAlone(t)
    BY <1>1, OwnStepOnly DEF LoopInv, ManagerStep
  <2>1. UNCHANGED <<has, up>>
    BY <1>1 DEF KeepAlive, Select, CatchUp, SequenceDelayedMessages, Ready, Publish, MakeWay, Follow
  <2>2. CASE KeepAlive(s) \/ Select(s) \/ MakeWay(s) \/ Publish(s)
    <3>1. Holding(s) => Holding(s)'
      BY <2>2 DEF KeepAlive, Select, Publish, MakeWay, Holding, TypeOK
    <3> QED
      BY <2>0, <2>1, <3>1, LockoutOwn DEF LockoutInv
  <2>3. CASE CatchUp(s) \/ SequenceDelayedMessages(s) \/ Ready(s)
    <3>1. Holding(s)'
      BY <2>3 DEF CatchUp, SequenceDelayedMessages, Ready, Holding, TypeOK
    <3> QED
      BY <2>0, <2>1, <3>1, LockoutOwn DEF LockoutInv
  <2>4. CASE Follow(s)
    <3>1. ~Holding(s)
      BY <2>0, <2>4 DEF Follow, Holding, LoopAt
    <3> QED
      BY <2>0, <2>1, <3>1, LockoutOwn DEF LockoutInv
  <2> QED
    BY <1>1, <2>2, <2>3, <2>4
<1>2. ASSUME NEW s \in Sequencers, Acquire(s) PROVE LockoutInv'
  <2>0. \A t \in Sequencers \ {s} : LeftAlone(t)
    BY <1>2, OwnStepOnly DEF ManagerStep
  <2>1. UNCHANGED up /\ up[s] /\ (has' = has \/ (has \subseteq {s} /\ has' = {s}))
    BY <1>2 DEF Acquire, AcquireOrUpdateLockout, Grant, Stray
  <2>2. s \in has' => Holding(s)'
    BY <1>2 DEF Acquire, Holding, TypeOK
  <2> QED
    BY <2>0, <2>1, <2>2, LockoutOwn
<1>3. ASSUME NEW s \in Sequencers, Fails(s) \/ Release(s) \/ Crash(s) \/ LockoutLapses(s)
      PROVE  LockoutInv'
  <2>0. \A t \in Sequencers \ {s} : LeftAlone(t)
    BY <1>3, OwnStepOnly DEF ManagerStep
  <2>1. has' \subseteq has /\ s \notin has'
    BY <1>3 DEF Fails, Release, Crash, LockoutLapses, ReleaseLockout, Lapse
  <2> QED
    BY <2>0, <2>1, LockoutOwn
<1>4. ASSUME NEW s \in Sequencers,
             \/ SendTransaction(s) \/ CallStep(s) \/ Receive(s) \/ DeadUntilComes(s)
             \/ Restart(s) \/ LivelinessLapses(s) \/ LivelinessExpires(s) \/ LateAttempt(s)
      PROVE  LockoutInv'
  <2>0. \A t \in Sequencers \ {s} : LeftAlone(t)
    BY <1>4, OwnStepOnly
  <2>1. UNCHANGED <<has, pc, currentBatcher>>
    BY <1>4 DEF SendTransaction, CallStep, LockDelivery, Sequence, Receive, DeadUntilComes,
                Restart, LivelinessLapses, LivelinessExpires, LateAttempt, Stray
  <2>2. up[s] => up'[s]
    BY <1>4 DEF SendTransaction, CallStep, LockDelivery, Sequence, Receive, DeadUntilComes,
                Restart, LivelinessLapses, LivelinessExpires, LateAttempt, TypeOK
  <2> QED
    BY <2>0, <2>1, <2>2, LockoutOwn DEF LockoutInv, Holding
<1>5. ASSUME KeyExpires \/ PositionExpires \/ UNCHANGED vars PROVE LockoutInv'
  <2>1. UNCHANGED <<has, pc, currentBatcher, up>>
    BY <1>5 DEF KeyExpires, Expire, PositionExpires, vars
  <2> QED
    BY <2>1 DEF LockoutInv, Holding
<1> QED
  BY <1>1, <1>2, <1>3, <1>4, <1>5 DEF Next, ManagerStep

(***************************************************************************)
(* The messages stay in one order.                                         *)
(***************************************************************************)
AllWithin(log) == \A t \in Sequencers : IsPrefix(db[t], log)

\* While the order is not at risk: before anyone sequences, nobody has more
\* than what is counted; afterwards the one with the lockout has all that is
\* counted and all that anybody has.
OrderInv ==
  clean =>
    /\ (\A s \in has : pc[s] \in {"catchUp", "delayed"}) => AllWithin(published)
    /\ \A s \in has : pc[s] # "catchUp" => IsPrefix(published, db[s]) /\ AllWithin(db[s])

\* A step that neither sequences nor passes the lockout on
LEMMA OrderQuiet ==
  ASSUME OrderInv, UNCHANGED <<has, published, db>>, clean' => clean,
         \A s \in has : /\ pc'[s] \in {"catchUp", "delayed"} => pc[s] \in {"catchUp", "delayed"}
                        /\ pc'[s] # "catchUp" => pc[s] # "catchUp"
  PROVE  OrderInv'
BY DEF OrderInv, AllWithin

\* The lockout ends with everything counted.
LEMMA OrderEnds ==
  ASSUME OrderInv, has' = {}, clean' => AllWithin(published)'
  PROVE  OrderInv'
BY DEF OrderInv

\* The sequencer that has the lockout sequences a message.
LEMMA OrderSequence ==
  ASSUME TypeOK, LockoutInv, OrderInv, NEW s \in has, pc[s] # "catchUp",
         UNCHANGED <<has, published, clean>>, pc'[s] \notin {"catchUp", "delayed"},
         db' = [db EXCEPT ![s] = Append(@, s)]
  PROVE  OrderInv'
<1>1. /\ s \in Sequencers /\ published \in Seq(Sequencers)
      /\ \A t \in Sequencers : db[t] \in Seq(Sequencers)
  BY DEF TypeOK
<1>2. /\ db'[s] = Append(db[s], s)
      /\ \A t \in Sequencers \ {s} : db'[t] = db[t]
  BY <1>1 DEF TypeOK
<1>3. db'[s] \in Seq(Sequencers) /\ IsPrefix(db[s], db'[s])
  BY <1>1, <1>2, PrefixSelf, AppendProperties
<1> SUFFICES ASSUME clean PROVE IsPrefix(published, db'[s]) /\ AllWithin(db[s])'
  BY DEF OrderInv, LockoutInv
<1>4. IsPrefix(published, db[s]) /\ AllWithin(db[s])
  BY DEF OrderInv
<1>5. IsPrefix(published, db'[s])
  BY <1>1, <1>3, <1>4, PrefixTrans
<1>6. ASSUME NEW t \in Sequencers PROVE IsPrefix(db'[t], db'[s])
  <2>1. CASE t = s
    BY <1>3, <2>1, PrefixSelf
  <2>2. CASE t # s
    BY <1>1, <1>2, <1>3, <1>4, <2>2, PrefixTrans DEF AllWithin
  <2> QED
    BY <2>1, <2>2
<1> QED
  BY <1>5, <1>6 DEF AllWithin

\* A lockout that ends with its own messages counted ends with all counted.
LEMMA CountedAll ==
  ASSUME TypeOK, LockoutInv, OrderInv, clean, NEW s \in has, IsPrefix(db[s], published)
  PROVE  AllWithin(published)
<1>1. /\ s \in Sequencers /\ published \in Seq(Sequencers)
      /\ \A t \in Sequencers : db[t] \in Seq(Sequencers)
  BY DEF TypeOK
<1>2. CASE pc[s] \in {"catchUp", "delayed"}
  BY <1>2 DEF OrderInv, LockoutInv
<1>3. CASE pc[s] \notin {"catchUp", "delayed"}
  <2>1. AllWithin(db[s])
    BY <1>3 DEF OrderInv
  <2> QED
    BY <1>1, <2>1, PrefixTrans DEF AllWithin
<1> QED
  BY <1>2, <1>3

\* What arrives is what somebody has, and so within what all others are in.
LEMMA OrderReceive ==
  ASSUME TypeOK, LockoutInv, OrderInv, NEW s \in Sequencers, Receive(s)
  PROVE  OrderInv'
<1> USE DEF redisVars, leaseVars, loopVars, historyVars
<1>1. /\ published \in Seq(Sequencers) /\ \A t \in Sequencers : db[t] \in Seq(Sequencers)
      /\ UNCHANGED <<has, published, clean, pc>>
  BY DEF TypeOK, Receive
<1> SUFFICES ASSUME clean PROVE OrderInv'
  BY <1>1 DEF OrderInv
<1>2. CASE ~IsPrefix(db[s], published) /\ ~IsPrefix(published, db[s])
  <2>1. CASE \A h \in has : pc[h] \in {"catchUp", "delayed"}
    BY <1>2, <2>1 DEF OrderInv, AllWithin
  <2>2. CASE \E h \in has : pc[h] \notin {"catchUp", "delayed"}
    <3>1. PICK h \in has : IsPrefix(published, db[h]) /\ AllWithin(db[h])
      BY <2>2 DEF OrderInv
    <3>2. h \in Sequencers
      BY DEF TypeOK
    <3>3. Compatible(db[s], published)
      BY <1>1, <3>1, <3>2, PrefixesCompatible DEF AllWithin
    <3> QED
      BY <1>2, <3>3 DEF Compatible
  <2> QED
    BY <2>1, <2>2
<1>3. ASSUME NEW t \in Sequencers, IsStrictPrefix(db[s], db[t]),
             db' = [db EXCEPT ![s] = SubSeq(db[t], 1, Len(db[s]) + 1)]
      PROVE  OrderInv'
  <2>1. PICK n \in Seq(Sequencers) : n = SubSeq(db[t], 1, Len(db[s]) + 1) /\ IsPrefix(n, db[t])
    BY <1>1, <1>3, PrefixNext
  <2>2. db'[s] = n /\ \A r \in Sequencers \ {s} : db'[r] = db[r]
    BY <1>3, <2>1 DEF TypeOK
  <2>3. ASSUME NEW log \in Seq(Sequencers), AllWithin(log)
        PROVE  \A r \in Sequencers : IsPrefix(db'[r], log)
    <3>1. IsPrefix(n, log)
      BY <1>1, <2>1, <2>3, PrefixTrans DEF AllWithin
    <3> QED
      BY <2>2, <2>3, <3>1 DEF AllWithin
  <2>4. ASSUME \A h \in has : pc[h] \in {"catchUp", "delayed"} PROVE AllWithin(published)'
    BY <1>1, <2>3, <2>4 DEF OrderInv, AllWithin
  <2>5. ASSUME NEW h \in has, pc[h] # "catchUp"
        PROVE  IsPrefix(published, db'[h]) /\ AllWithin(db[h])'
    <3>1. h \in Sequencers /\ IsPrefix(published, db[h]) /\ AllWithin(db[h])
      BY <2>5 DEF OrderInv, TypeOK
    <3>2. h # s
      <4> SUFFICES ASSUME h = s PROVE FALSE
        OBVIOUS
      <4>1. IsPrefix(db[t], db[s]) /\ IsPrefix(db[s], db[t]) /\ db[s] # db[t]
        BY <1>3, <3>1 DEF AllWithin, IsStrictPrefix
      <4>2. Len(db[t]) <= Len(db[s])
        BY <1>1, <4>1, PrefixIs
      <4>3. Len(db[s]) >= Len(db[t])
        <5>1. Len(db[s]) \in Nat /\ Len(db[t]) \in Nat
          BY <1>1, LenProperties
        <5> QED
          BY <4>2, <5>1
      <4> QED
        BY <1>1, <4>1, <4>3, PrefixWhole
    <3>3. db'[h] = db[h] /\ db[h] \in Seq(Sequencers)
      BY <1>1, <2>2, <3>1, <3>2
    <3> QED
      BY <2>3, <3>1, <3>3 DEF AllWithin
  <2> QED
    BY <1>1, <2>4, <2>5 DEF OrderInv
<1> QED
  BY <1>2, <1>3 DEF Receive

\* An order that was at risk once stays so.
LEMMA OnceAtRisk == ASSUME TypeOK, [Next]_vars PROVE clean' => clean
<1> USE DEF historyVars
<1>1. ASSUME NEW s \in Sequencers, Acquire(s) \/ SequenceDelayedMessages(s) PROVE clean' => clean
  BY <1>1, Zenon DEF Acquire, SequenceDelayedMessages, Risks
<1>2. ASSUME NEW s \in Sequencers, Crash(s) \/ LockoutLapses(s) PROVE clean' => clean
  BY <1>2, Zenon DEF Crash, LockoutLapses, Risks
<1>3. ASSUME PositionExpires PROVE clean' => clean
  BY <1>3, Zenon DEF PositionExpires, Risks
<1>4. ASSUME NEW s \in Sequencers,
             \/ KeepAlive(s) \/ Select(s) \/ CatchUp(s) \/ Fails(s) \/ Ready(s) \/ Publish(s)
             \/ MakeWay(s) \/ Release(s) \/ Follow(s) \/ SendTransaction(s) \/ CallStep(s)
             \/ Receive(s) \/ DeadUntilComes(s) \/ Restart(s) \/ LivelinessLapses(s)
             \/ LivelinessExpires(s) \/ LateAttempt(s)
      PROVE  clean' = clean
  BY <1>4 DEF KeepAlive, Select, CatchUp, Fails, Ready, Publish, MakeWay, Release, Follow,
              SendTransaction, CallStep, LockDelivery, Sequence, Receive, DeadUntilComes, Restart,
              LivelinessLapses, LivelinessExpires, LateAttempt
<1>5. ASSUME KeyExpires \/ UNCHANGED vars PROVE clean' = clean
  BY <1>5 DEF KeyExpires, vars
<1> QED
  BY <1>1, <1>2, <1>3, <1>4, <1>5 DEF Next, ManagerStep

(***************************************************************************)
(* The position in redis.                                                  *)
(***************************************************************************)
\* Everyone has what was counted the last time.
AllHave == \A t \in Sequencers : IsPrefix(published, db[t])

\* While the order is not at risk, the position and the target of who catches
\* up are the number of the messages counted, or nobody needs them.
PositionInv ==
  clean => /\ latest = Len(published) \/ AllHave
           /\ \A s \in has : pc[s] = "catchUp" => targetSeqNum[s] = Len(published) \/ AllHave

\* Nothing that was counted is lost from a database.
LEMMA HaveStays ==
  ASSUME TypeOK, AllHave, UNCHANGED published, NEW s \in Sequencers,
         \/ UNCHANGED db \/ Receive(s) \/ db' = [db EXCEPT ![s] = Append(@, s)]
  PROVE  AllHave'
<1>0. published \in Seq(Sequencers) /\ \A t \in Sequencers : db[t] \in Seq(Sequencers)
  BY DEF TypeOK
<1>1. CASE UNCHANGED db
  BY <1>1 DEF AllHave
<1>2. ASSUME NEW new \in Seq(Sequencers), IsPrefix(published, new), db' = [db EXCEPT ![s] = new]
      PROVE  AllHave'
  BY <1>2 DEF AllHave, TypeOK
<1>3. CASE db' = [db EXCEPT ![s] = Append(@, s)]
  <2>1. Append(db[s], s) \in Seq(Sequencers) /\ IsPrefix(db[s], Append(db[s], s))
    BY <1>0, PrefixSelf, AppendProperties
  <2>2. IsPrefix(published, Append(db[s], s))
    BY <1>0, <2>1, PrefixTrans DEF AllHave
  <2> QED
    BY <1>2, <1>3, <2>1, <2>2
<1>4. CASE Receive(s)
  <2>1. ASSUME NEW t \in Sequencers, IsStrictPrefix(db[s], db[t]),
               db' = [db EXCEPT ![s] = SubSeq(db[t], 1, Len(db[s]) + 1)]
        PROVE  AllHave'
    <3>1. PICK new \in Seq(Sequencers) :
            new = SubSeq(db[t], 1, Len(db[s]) + 1) /\ IsPrefix(db[s], new)
      BY <1>0, <2>1, PrefixNext
    <3>2. IsPrefix(published, new)
      BY <1>0, <3>1, PrefixTrans DEF AllHave
    <3> QED
      BY <1>2, <2>1, <3>1, <3>2
  <2>2. CASE db' = [db EXCEPT ![s] = published]
    <3>1. IsPrefix(published, published)
      BY <1>0, PrefixSelf
    <3> QED
      BY <1>0, <1>2, <2>2, <3>1
  <2> QED
    BY <1>4, <2>1, <2>2 DEF Receive
<1> QED
  BY <1>1, <1>3, <1>4

\* A step that leaves the position alone, and nobody begins to catch up with it
LEMMA PositionQuiet ==
  ASSUME TypeOK, PositionInv, UNCHANGED <<latest, published>>, clean' => clean, has' \subseteq has,
         \A s \in has' : pc'[s] = "catchUp" => pc[s] = "catchUp" /\ targetSeqNum'[s] = targetSeqNum[s],
         NEW s \in Sequencers,
         \/ UNCHANGED db \/ Receive(s) \/ db' = [db EXCEPT ![s] = Append(@, s)]
  PROVE  PositionInv'
<1>1. AllHave => AllHave'
  BY HaveStays
<1> QED
  BY <1>1 DEF PositionInv

\* The position is written, or is over, while nobody needs it.
LEMMA PositionStep ==
  ASSUME TypeOK, LoopInv, LockoutInv, PositionInv, [Next]_vars
  PROVE  PositionInv'
<1> USE DEF redisVars, leaseVars, loopVars, nodeVars, historyVars, At, Goto, hasSequencerLockout,
            GetMessageCount
<1>1. ASSUME NEW s \in Sequencers,
             \/ KeepAlive(s) \/ Select(s) \/ CatchUp(s) \/ Fails(s) \/ SequenceDelayedMessages(s)
             \/ Ready(s) \/ MakeWay(s) \/ Follow(s)
      PROVE  PositionInv'
  <2>0. \A t \in Sequencers \ {s} : LeftAlone(t)
    BY <1>1, OwnStepOnly DEF ManagerStep
  <2>1. UNCHANGED <<latest, published>>
    BY <1>1 DEF KeepAlive, Select, CatchUp, Fails, SequenceDelayedMessages, Ready, MakeWay, Follow
  <2>2. has' \subseteq has /\ pc'[s] # "catchUp"
    BY <1>1 DEF KeepAlive, Select, CatchUp, Fails, ReleaseLockout, Lapse, SequenceDelayedMessages,
                Ready, MakeWay, Follow, TypeOK
  <2>3. UNCHANGED db \/ db' = [db EXCEPT ![s] = Append(@, s)]
    BY <1>1 DEF KeepAlive, Select, CatchUp, Fails, SequenceDelayedMessages, Ready, MakeWay, Follow
  <2>4. \A t \in has' : pc'[t] = "catchUp" => pc[t] = "catchUp" /\ targetSeqNum'[t] = targetSeqNum[t]
    BY <2>0, <2>2 DEF LeftAlone, TypeOK
  <2> QED
    BY <2>1, <2>2, <2>3, <2>4, PositionQuiet, OnceAtRisk
<1>2. ASSUME NEW s \in Sequencers, Acquire(s) PROVE PositionInv'
  <2>0. \A t \in Sequencers \ {s} : LeftAlone(t)
    BY <1>2, OwnStepOnly DEF ManagerStep
  <2>1. /\ UNCHANGED <<latest, published, db>>
        /\ has' = has \/ (has \subseteq {s} /\ has' = {s})
    BY <1>2 DEF Acquire, AcquireOrUpdateLockout, Grant, Stray
  <2>2. AllHave' <=> AllHave
    BY <2>1 DEF AllHave
  <2>3. ASSUME s \in has', pc'[s] = "catchUp" PROVE targetSeqNum'[s] = latest
    BY <1>2, <2>3 DEF Acquire, TypeOK
  <2>4. ASSUME NEW t \in has', t # s
        PROVE  t \in has /\ pc'[t] = pc[t] /\ targetSeqNum'[t] = targetSeqNum[t]
    BY <2>0, <2>1, <2>4 DEF LeftAlone, TypeOK
  <2> QED
    BY <2>1, <2>2, <2>3, <2>4, OnceAtRisk DEF PositionInv
<1>3. ASSUME NEW s \in Sequencers, Publish(s) \/ Release(s) PROVE PositionInv'
  <2>0. \A t \in Sequencers \ {s} : LeftAlone(t)
    BY <1>3, OwnStepOnly DEF ManagerStep
  <2>1. UNCHANGED <<db, clean>> /\ has' \subseteq has /\ pc'[s] # "catchUp"
    BY <1>3 DEF Publish, Release, ReleaseLockout, Lapse, TypeOK
  <2>2. CASE s \in has
    <3>1. latest' = Len(published')
      BY <1>3, <2>2 DEF Publish, Release, UpdateLatestSeqNum
    <3>2. \A t \in has' : t = s
      BY <2>1, <2>2 DEF LockoutInv
    <3> QED
      BY <2>1, <3>1, <3>2 DEF PositionInv
  <2>3. CASE s \notin has
    <3>1. UNCHANGED <<latest, published>>
      BY <1>3, <2>3 DEF Publish, Release, UpdateLatestSeqNum
    <3>2. \A t \in has' : pc'[t] = "catchUp" => pc[t] = "catchUp" /\ targetSeqNum'[t] = targetSeqNum[t]
      BY <2>0, <2>1 DEF LeftAlone, TypeOK
    <3> QED
      BY <2>1, <3>1, <3>2, PositionQuiet
  <2> QED
    BY <2>2, <2>3
<1>4. ASSUME NEW s \in Sequencers,
             \/ SendTransaction(s) \/ LockDelivery(s) \/ DeadUntilComes(s) \/ Restart(s)
             \/ LivelinessLapses(s) \/ LivelinessExpires(s) \/ LateAttempt(s) \/ Receive(s)
             \/ Sequence(s) \/ LockoutLapses(s)
      PROVE  PositionInv'
  <2>1. UNCHANGED <<latest, published, pc, targetSeqNum>> /\ has' \subseteq has
    BY <1>4 DEF SendTransaction, LockDelivery, DeadUntilComes, Restart, LivelinessLapses,
                LivelinessExpires, LateAttempt, Stray, Receive, Sequence, LockoutLapses, Lapse
  <2>2. UNCHANGED db \/ Receive(s) \/ db' = [db EXCEPT ![s] = Append(@, s)]
    BY <1>4 DEF SendTransaction, LockDelivery, DeadUntilComes, Restart, LivelinessLapses,
                LivelinessExpires, LateAttempt, Sequence, LockoutLapses
  <2> QED
    BY <2>1, <2>2, PositionQuiet, OnceAtRisk
<1>5. ASSUME NEW s \in Sequencers, Crash(s) PROVE PositionInv'
  <2>0. \A t \in Sequencers \ {s} : LeftAlone(t)
    BY <1>5, OwnStepOnly
  <2>1. /\ UNCHANGED <<latest, published, db>>
        /\ has' \subseteq has /\ s \notin has'
    BY <1>5 DEF Crash, ReleaseLockout, Lapse
  <2>2. \A t \in has' : pc'[t] = "catchUp" => pc[t] = "catchUp" /\ targetSeqNum'[t] = targetSeqNum[t]
    BY <2>0, <2>1 DEF LeftAlone, TypeOK
  <2> QED
    BY <2>1, <2>2, PositionQuiet, OnceAtRisk
<1>6. ASSUME PositionExpires PROVE PositionInv'
  <2>1. UNCHANGED <<has, published, db, pc, targetSeqNum>> /\ (clean' => AllHave)
    BY <1>6 DEF PositionExpires, Risks, AllHave
  <2> QED
    BY <2>1, OnceAtRisk DEF PositionInv, AllHave
<1>7. ASSUME KeyExpires \/ UNCHANGED vars PROVE PositionInv'
  <2>1. UNCHANGED <<has, latest, published, db, clean, pc, targetSeqNum>>
    BY <1>7 DEF KeyExpires, Expire, vars
  <2> QED
    BY <2>1 DEF PositionInv, AllHave
<1> QED
  BY <1>1, <1>2, <1>3, <1>4, <1>5, <1>6, <1>7 DEF Next, ManagerStep, CallStep

\* Every step keeps the messages in order.
LEMMA OrderStep ==
  ASSUME TypeOK, LoopInv, LockoutInv, PositionInv, OrderInv, [Next]_vars
  PROVE  OrderInv'
<1> USE DEF redisVars, leaseVars, loopVars, nodeVars, historyVars, At, Goto, hasSequencerLockout,
            GetMessageCount
<1>0. /\ has \subseteq Sequencers /\ published \in Seq(Sequencers) /\ clean \in BOOLEAN
      /\ \A t \in Sequencers : db[t] \in Seq(Sequencers)
  BY DEF TypeOK
<1>1. ASSUME NEW s \in Sequencers,
             KeepAlive(s) \/ Select(s) \/ Ready(s) \/ MakeWay(s) \/ Follow(s)
      PROVE  OrderInv'
  BY <1>0, <1>1, OrderQuiet DEF KeepAlive, Select, Ready, MakeWay, Follow, TypeOK
<1>2. ASSUME NEW s \in Sequencers, Acquire(s) PROVE OrderInv'
  <2>1. /\ UNCHANGED <<published, db>> /\ pc[s] = "acquire"
        /\ has' = has \/ (has \subseteq {s} /\ has' = {s})
    BY <1>2 DEF Acquire, AcquireOrUpdateLockout, Grant, Stray
  <2>5. clean' => clean
    BY OnceAtRisk
  <2>2. CASE s \notin has'
    <3>1. has' = has /\ pc' = [pc EXCEPT ![s] = "top"]
      BY <1>2, <2>1, <2>2 DEF Acquire
    <3> QED
      BY <1>0, <2>1, <2>2, <2>5, <3>1, OrderQuiet DEF TypeOK
  <2>3. CASE s \in has' /\ ~MustCatchUp(s)
    <3>1. /\ currentBatcher[s] = Own /\ pc' = [pc EXCEPT ![s] = "publish"] /\ pc'[s] = "publish"
          /\ clean' => s \in has \/ IsPrefix(published, db[s])
      BY <1>2, <2>3 DEF Acquire, MustCatchUp, Risks, TypeOK
    <3>2. CASE s \in has
      <4>1. has' = has
        BY <2>1, <3>2
      <4> QED
        BY <1>0, <2>1, <2>5, <3>1, <4>1, OrderQuiet DEF TypeOK
    <3>3. CASE s \notin has
      <4>1. has = {} /\ has' = {s}
        BY <2>1, <2>3, <3>3
      <4> SUFFICES ASSUME clean' PROVE IsPrefix(published, db[s]) /\ AllWithin(db[s])'
        BY <2>1, <3>1, <4>1 DEF OrderInv
      <4>2. AllWithin(published) /\ IsPrefix(published, db[s])
        BY <2>1, <2>5, <3>1, <3>3, <4>1 DEF OrderInv
      <4>3. AllWithin(db[s])
        BY <1>0, <4>2, PrefixTrans DEF AllWithin
      <4> QED
        BY <2>1, <4>2, <4>3 DEF AllWithin
    <3> QED
      BY <3>2, <3>3
  <2>4. CASE s \in has' /\ MustCatchUp(s)
    <3>1. currentBatcher[s] # Own /\ pc'[s] = "catchUp"
      BY <1>2, <2>4 DEF Acquire, MustCatchUp, TypeOK
    <3>2. s \notin has
      BY <2>1, <3>1 DEF LockoutInv, Holding
    <3>3. has = {} /\ has' = {s}
      BY <2>1, <2>4, <3>2
    <3> QED
      BY <2>1, <2>5, <3>1, <3>3 DEF OrderInv, AllWithin
  <2> QED
    BY <2>2, <2>3, <2>4
<1>3. ASSUME NEW s \in Sequencers, CatchUp(s) PROVE OrderInv'
  <2>1. /\ UNCHANGED <<has, published, db, clean>> /\ pc[s] = "catchUp"
        /\ Len(db[s]) >= targetSeqNum[s]
    BY <1>3 DEF CatchUp
  <2>2. CASE s \notin has
    BY <1>0, <1>3, <2>1, <2>2, OrderQuiet DEF CatchUp, TypeOK
  <2>3. CASE s \in has
    <3>1. has = {s} /\ pc'[s] = "delayed"
      BY <1>3, <2>3 DEF CatchUp, LockoutInv, TypeOK
    <3> SUFFICES ASSUME clean PROVE OrderInv'
      BY <2>1 DEF OrderInv
    <3>2. AllWithin(published)
      BY <2>1, <3>1 DEF OrderInv
    <3>3. IsPrefix(published, db[s])
      <4>1. CASE AllHave
        BY <4>1 DEF AllHave
      <4>2. CASE targetSeqNum[s] = Len(published)
        <5>1. db[s] = published
          BY <1>0, <2>1, <3>2, <4>2, PrefixWhole DEF AllWithin
        <5> QED
          BY <1>0, <5>1, PrefixSelf
      <4> QED
        BY <2>1, <2>3, <4>1, <4>2 DEF PositionInv
    <3>4. AllWithin(db[s])
      BY <1>0, <3>2, <3>3, PrefixTrans DEF AllWithin
    <3> QED
      BY <2>1, <3>1, <3>2, <3>3, <3>4 DEF OrderInv, AllWithin
  <2> QED
    BY <2>2, <2>3
<1>4. ASSUME NEW s \in Sequencers, Fails(s) PROVE OrderInv'
  <2>1. /\ UNCHANGED <<published, db, clean>> /\ pc[s] \in {"catchUp", "delayed"}
        /\ pc' = [pc EXCEPT ![s] = "top"]
    BY <1>4 DEF Fails
  <2>2. CASE s \notin has
    <3>1. has' = has
      BY <1>4, <2>2 DEF Fails, ReleaseLockout
    <3> QED
      BY <1>0, <2>1, <2>2, <3>1, OrderQuiet DEF TypeOK
  <2>3. CASE s \in has
    <3>1. has = {s} /\ has' = {}
      BY <1>4, <2>3 DEF Fails, ReleaseLockout, Lapse, LockoutInv
    <3>2. clean => AllWithin(published)
      BY <2>1, <3>1 DEF OrderInv
    <3> QED
      BY <2>1, <3>1, <3>2, OrderEnds DEF AllWithin
  <2> QED
    BY <2>2, <2>3
<1>5. ASSUME NEW s \in Sequencers, SequenceDelayedMessages(s) PROVE OrderInv'
  <2>1. /\ UNCHANGED <<has, published>> /\ pc[s] = "delayed"
        /\ pc' = [pc EXCEPT ![s] = "ready"] /\ pc'[s] = "ready"
    BY <1>5 DEF SequenceDelayedMessages, TypeOK
  <2>2. CASE UNCHANGED <<db, clean>>
    BY <1>0, <2>1, <2>2, OrderQuiet DEF TypeOK
  <2>3. CASE db' = [db EXCEPT ![s] = Append(@, s)] /\ Risks(s \notin has)
    <3>1. CASE s \notin has
      <4>1. ~clean'
        BY <2>3, <3>1 DEF Risks
      <4> QED
        BY <4>1 DEF OrderInv
    <3>2. CASE s \in has
      <4>1. clean' = clean
        BY <1>0, <2>3, <3>2 DEF Risks
      <4> QED
        BY <2>1, <2>3, <3>2, <4>1, OrderSequence
    <3> QED
      BY <3>1, <3>2
  <2> QED
    BY <1>5, <2>2, <2>3 DEF SequenceDelayedMessages
<1>6. ASSUME NEW s \in Sequencers, Publish(s) PROVE OrderInv'
  <2>1. /\ pc[s] = "publish" /\ pc' = [pc EXCEPT ![s] = "top"] /\ pc'[s] = "top"
        /\ UNCHANGED <<has, db, clean>>
    BY <1>6 DEF Publish, TypeOK
  <2>2. CASE s \notin has
    <3>1. published' = published
      BY <1>6, <2>2 DEF Publish, UpdateLatestSeqNum
    <3> QED
      BY <1>0, <2>1, <2>2, <3>1, OrderQuiet DEF TypeOK
  <2>3. CASE s \in has
    <3>1. published' = db[s] /\ has = {s}
      BY <1>6, <2>3 DEF Publish, UpdateLatestSeqNum, LockoutInv
    <3>2. clean => AllWithin(db[s])
      BY <2>1, <2>3 DEF OrderInv
    <3>3. IsPrefix(db[s], db[s])
      BY <1>0, PrefixSelf
    <3> QED
      BY <2>1, <3>1, <3>2, <3>3 DEF OrderInv, AllWithin
  <2> QED
    BY <2>2, <2>3
<1>7. ASSUME NEW s \in Sequencers, Release(s) PROVE OrderInv'
  <2>1. /\ pc[s] = "release" /\ pc' = [pc EXCEPT ![s] = "follow"] /\ UNCHANGED <<db, clean>>
    BY <1>7 DEF Release
  <2>2. CASE s \notin has
    <3>1. published' = published /\ has' = has
      BY <1>7, <2>2 DEF Release, UpdateLatestSeqNum, ReleaseLockout
    <3> QED
      BY <1>0, <2>1, <2>2, <3>1, OrderQuiet DEF TypeOK
  <2>3. CASE s \in has
    <3>1. published' = db[s] /\ has' = {}
      BY <1>7, <2>3 DEF Release, UpdateLatestSeqNum, ReleaseLockout, Lapse, LockoutInv
    <3>2. clean => AllWithin(db[s])
      BY <2>1, <2>3 DEF OrderInv
    <3> QED
      BY <2>1, <3>1, <3>2, OrderEnds DEF AllWithin
  <2> QED
    BY <2>2, <2>3
<1>8. ASSUME NEW s \in Sequencers, Sequence(s) PROVE OrderInv'
  <2>1. UNCHANGED <<has, published, clean, pc>>
    BY <1>8 DEF Sequence
  <2>2. CASE db' = db
    BY <2>1, <2>2, OrderQuiet
  <2>3. CASE ShouldSequence(s) /\ db' = [db EXCEPT ![s] = Append(@, s)]
    <3>1. s \in has /\ currentBatcher[s] = Own
      BY <2>3 DEF ShouldSequence
    <3>2. pc[s] \notin {"catchUp", "delayed"}
      BY <3>1 DEF LoopInv, LoopAt
    <3> QED
      BY <2>1, <2>3, <3>1, <3>2, OrderSequence
  <2> QED
    BY <1>8, <2>2, <2>3 DEF Sequence
<1>9. ASSUME NEW s \in Sequencers, Crash(s) PROVE OrderInv'
  <2>1. /\ UNCHANGED <<published, db>> /\ pc' = [pc EXCEPT ![s] = "top"] /\ (clean' => clean)
        /\ clean' => s \notin has \/ IsPrefix(db[s], published)
    BY <1>9 DEF Crash, Risks, LeavesUncounted, StartsUp
  <2>2. CASE s \in has
    <3>1. has' = {}
      BY <1>9, <2>2 DEF Crash, ReleaseLockout, Lapse, LockoutInv
    <3>2. clean' => AllWithin(published)
      BY <2>1, <2>2, CountedAll
    <3> QED
      BY <2>1, <3>1, <3>2, OrderEnds DEF AllWithin
  <2>3. CASE s \notin has
    <3>1. has' = has
      BY <1>9, <2>3 DEF Crash, ReleaseLockout
    <3> QED
      BY <1>0, <2>1, <2>3, <3>1, OrderQuiet DEF TypeOK
  <2> QED
    BY <2>2, <2>3
<1>10. ASSUME NEW s \in Sequencers, LockoutLapses(s) PROVE OrderInv'
  <2>1. /\ UNCHANGED <<published, db>> /\ s \in has /\ (clean' => clean)
        /\ clean' => IsPrefix(db[s], published)
    BY <1>10 DEF LockoutLapses, Lapse, Risks, LeavesUncounted
  <2>2. has' = {}
    BY <1>10, <2>1 DEF LockoutLapses, Lapse, LockoutInv
  <2>3. clean' => AllWithin(published)
    BY <2>1, CountedAll
  <2> QED
    BY <2>1, <2>2, <2>3, OrderEnds DEF AllWithin
<1>11. ASSUME \/ KeyExpires \/ PositionExpires \/ UNCHANGED vars
              \/ \E s \in Sequencers :
                   \/ SendTransaction(s) \/ LockDelivery(s) \/ DeadUntilComes(s) \/ Restart(s)
                   \/ LivelinessLapses(s) \/ LivelinessExpires(s) \/ LateAttempt(s)
       PROVE  OrderInv'
  <2>1. UNCHANGED <<has, published, db, pc>>
    BY <1>11 DEF KeyExpires, Expire, PositionExpires, vars, SendTransaction, LockDelivery,
                 DeadUntilComes, Restart, LivelinessLapses, LivelinessExpires, LateAttempt, Stray
  <2> QED
    BY <2>1, OrderQuiet, OnceAtRisk
<1> QED
  BY <1>1, <1>2, <1>3, <1>4, <1>5, <1>6, <1>7, <1>8, <1>9, <1>10, <1>11, OrderReceive
  DEF Next, ManagerStep, CallStep

\* Whoever takes over goes on where the last one stopped, for any number of
\* sequencers, messages, crashes, lost answers, losses of contact and failed
\* takeovers, unless the order is put at risk in one of the four ways of Risks.
THEOREM HandoversKeepOrder == Spec => []HandoverKeepsOrder
<1>1. Init => LockoutInv /\ PositionInv /\ OrderInv
  <2> SUFFICES ASSUME Init PROVE LockoutInv /\ PositionInv /\ OrderInv
    OBVIOUS
  <2>1. /\ has = {} /\ latest = 0 /\ published = <<>> /\ Len(published) = 0
        /\ \A s \in Sequencers : pc[s] = "top" /\ currentBatcher[s] = Error /\ db[s] = <<>>
    BY DEF Init, LeaseInit, All
  <2>2. LockoutInv
    BY <2>1 DEF LockoutInv, Holding, Error, Own
  <2>3. AllWithin(published)
    <3>1. <<>> \in Seq(Sequencers)
      OBVIOUS
    <3>2. IsPrefix(<<>>, <<>>)
      BY <3>1, PrefixSelf
    <3> QED
      BY <2>1, <3>2 DEF AllWithin
  <2> QED
    BY <2>1, <2>2, <2>3 DEF OrderInv, PositionInv
<1>2. LoopsInv /\ LockoutInv /\ PositionInv /\ OrderInv /\ [Next]_vars
      => LockoutInv' /\ PositionInv' /\ OrderInv'
  BY LockoutStep, PositionStep, OrderStep DEF LoopsInv
<1>3. LoopsInv /\ LockoutInv /\ OrderInv => HandoverKeepsOrder
  <2> SUFFICES ASSUME LoopsInv, LockoutInv, OrderInv, clean,
                      NEW s \in Sequencers, NEW t \in Sequencers
               PROVE  Compatible(db[s], db[t])
    BY DEF HandoverKeepsOrder
  <2>0. /\ has \subseteq Sequencers /\ published \in Seq(Sequencers)
        /\ \A r \in Sequencers : db[r] \in Seq(Sequencers)
    BY DEF LoopsInv, TypeOK
  <2>1. PICK log \in Seq(Sequencers) : AllWithin(log)
    <3>1. CASE \A h \in has : pc[h] \in {"catchUp", "delayed"}
      BY <2>0, <3>1 DEF OrderInv
    <3>2. CASE \E h \in has : pc[h] \notin {"catchUp", "delayed"}
      BY <2>0, <3>2 DEF OrderInv
    <3> QED
      BY <3>1, <3>2
  <2> QED
    BY <2>0, <2>1, PrefixesCompatible DEF AllWithin
<1> QED
  BY <1>1, <1>2, <1>3, LoopsInvariant, PTL DEF Spec
====
