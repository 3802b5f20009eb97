------------------------ MODULE SequencerInbox_proofs ------------------------
(***************************************************************************)
(* Proofs about SequencerInbox, for any number of sequencers, batches,     *)
(* sections, delayed messages and L1 reorgs: the messages are numbered     *)
(* without a gap, every delayed message is read once and in order, every   *)
(* message count is proved by one batch, and nothing is forced in before   *)
(* the sequencer's window is over.                                         *)
(***************************************************************************)
EXTENDS SequencerInbox, SequenceTheorems, WellFoundedInduction, TLAPS

(***************************************************************************)
(* Sequences.                                                              *)
(***************************************************************************)
\* Every set of numbers that is not empty has a least one.
LEMMA LeastOf ==
  ASSUME NEW S \in SUBSET Nat, S # {}
  PROVE  \E n \in S : \A m \in S : n <= m
<1>1. PICK n \in S : \A m \in S : ~(<<m, n>> \in OpToRel(<, Nat))
  BY NatLessThanWellFounded, WFMin
<1>2. n \in Nat /\ \A m \in S : m \in Nat /\ ~(m < n)
  BY <1>1 DEF OpToRel
<1> QED
  BY <1>2

\* What stands where when a sequence is continued
LEMMA Continued ==
  ASSUME NEW S, NEW a \in Seq(S), NEW b \in Seq(S)
  PROVE  /\ a \o b \in Seq(S)
         /\ Len(a) \in Nat /\ Len(b) \in Nat
         /\ Len(a \o b) = Len(a) + Len(b)
         /\ DOMAIN a = 1 .. Len(a) /\ DOMAIN (a \o b) = 1 .. Len(a) + Len(b)
         /\ \A i \in 1 .. Len(a) : (a \o b)[i] = a[i]
         /\ \A i \in 1 .. Len(b) : (a \o b)[Len(a) + i] = b[i]
<1>1. Len(a) \in Nat /\ Len(b) \in Nat /\ DOMAIN a = 1 .. Len(a)
  BY LenProperties
<1>2. /\ a \o b \in Seq(S)
      /\ Len(a \o b) = Len(a) + Len(b)
      /\ \A i \in 1 .. Len(a) + Len(b) :
           (a \o b)[i] = IF i <= Len(a) THEN a[i] ELSE b[i - Len(a)]
  BY ConcatProperties
<1>3. DOMAIN (a \o b) = 1 .. Len(a) + Len(b)
  BY <1>2, LenProperties
<1>4. PICK m, n : m = Len(a) /\ n = Len(b)
  OBVIOUS
<1>5. ASSUME NEW i \in 1 .. n PROVE (a \o b)[m + i] = b[i]
  <2>1. m + i \in 1 .. m + n /\ ~(m + i <= m) /\ (m + i) - m = i
    BY <1>1, <1>4
  <2> QED
    BY <1>2, <1>4, <2>1
<1>6. ASSUME NEW i \in 1 .. m PROVE (a \o b)[i] = a[i]
  <2>1. i \in 1 .. m + n /\ i <= m
    BY <1>1, <1>4
  <2> QED
    BY <1>2, <1>4, <2>1
<1> QED
  BY <1>1, <1>2, <1>3, <1>4, <1>5, <1>6

\* The first n elements do not depend on those behind.
LEMMA FirstOnes ==
  ASSUME NEW S, NEW a \in Seq(S), NEW b \in Seq(S), NEW n \in Nat, n <= Len(a), n <= Len(b),
         \A i \in 1 .. n : a[i] = b[i]
  PROVE  /\ SubSeq(a, 1, n) = SubSeq(b, 1, n)
         /\ SubSeq(a, 1, n) \in Seq(S)
<1>1. Len(a) \in Nat /\ Len(b) \in Nat
  BY LenProperties
<1>2. ASSUME NEW c \in Seq(S), n <= Len(c)
      PROVE  /\ SubSeq(c, 1, n) \in Seq(S)
             /\ Len(SubSeq(c, 1, n)) = n
             /\ \A i \in 1 .. n : SubSeq(c, 1, n)[i] = c[i]
  <2>1. Len(c) \in Nat /\ \A i \in 1 .. Len(c) : c[i] \in S
    BY LenProperties, ElementOfSeq
  <2>2. 1 \in Int /\ n \in Int /\ \A i \in 1 .. n : c[i] \in S
    BY <1>2, <2>1
  <2>3. /\ SubSeq(c, 1, n) \in Seq(S)
        /\ Len(SubSeq(c, 1, n)) = IF 1 <= n THEN n - 1 + 1 ELSE 0
        /\ \A i \in 1 .. n - 1 + 1 : SubSeq(c, 1, n)[i] = c[1 + i - 1]
    BY <2>2, SubSeqProperties
  <2> QED
    BY <2>3
<1>3. SubSeq(a, 1, n) \in Seq(S) /\ SubSeq(b, 1, n) \in Seq(S)
  BY <1>2
<1>4. Len(SubSeq(a, 1, n)) = n /\ Len(SubSeq(b, 1, n)) = n
  BY <1>2
<1>5. \A i \in 1 .. n : SubSeq(a, 1, n)[i] = SubSeq(b, 1, n)[i]
  BY <1>2
<1> QED
  BY <1>3, <1>4, <1>5, SeqEqual

(***************************************************************************)
(* What the loop over the sections of a batch carries.                     *)
(***************************************************************************)
Run == [ok : BOOLEAN, log : Seq(Step), count : Nat, total : Nat]

\* What the step of an item is
LEMMA ItemIs ==
  ASSUME NEW s \in Sequencers \cup {ZeroAddress}, NEW n \in Nat, NEW b \in Nat, NEW t \in Nat,
         NEW e, e = Item(s, n, b, t)
  PROVE  /\ e \in Step
         /\ e.kind = "item" /\ e.seqNum = n
         /\ StepStart(e) = n /\ StepEnd(e) = n + 1
BY DEF Item, Step, StepStart, StepEnd

\* What a step is
LEMMA StepIs ==
  ASSUME NEW e \in Step
  PROVE  /\ e.kind \in {"item", "delayed"}
         /\ e.kind = "item" => e.seqNum \in Nat
         /\ e.kind = "delayed" => e.count \in Nat /\ e.from \in Nat /\ e.to \in Nat
         /\ StepStart(e) \in Int /\ StepEnd(e) \in Int
BY DEF Step, StepStart, StepEnd

\* The items of a section, as the sequence that CalcL2Batch appends
NewItems(run, sender, s) ==
  [i \in 1 .. s.numItems |->
     Item(sender, run.count + i - 1, s.l1BlockNumber, s.l1Timestamp)]

\* They are items, one for each sequence number that follows.
LEMMA NewItemsAre ==
  ASSUME NEW run \in Run, NEW sender \in Sequencers, NEW s \in Section
  PROVE  LET t == NewItems(run, sender, s)
         IN  /\ s.numItems \in Nat /\ run.count \in Nat /\ run.log \in Seq(Step)
             /\ t \in Seq(Step) /\ Len(t) = s.numItems
             /\ \A i \in 1 .. s.numItems :
                  /\ t[i] \in Step
                  /\ t[i].kind = "item" /\ t[i].seqNum = run.count + i - 1
                  /\ StepStart(t[i]) = run.count + i - 1 /\ StepEnd(t[i]) = run.count + i
             /\ CalcL2Batch(run, sender, s).log = run.log \o t
             /\ CalcL2Batch(run, sender, s).count = run.count + s.numItems
             /\ CalcL2Batch(run, sender, s).total = run.total
             /\ CalcL2Batch(run, sender, s).ok = run.ok
             /\ CalcL2Batch(run, sender, s) \in Run
<1> DEFINE t == NewItems(run, sender, s)
           q == CalcL2Batch(run, sender, s)
<1>1. PICK n, c : n = s.numItems /\ c = run.count
  OBVIOUS
<1>2. /\ n \in Nat /\ s.l1BlockNumber \in Nat /\ s.l1Timestamp \in Nat
      /\ c \in Nat /\ run.log \in Seq(Step) /\ run.total \in Nat /\ run.ok \in BOOLEAN
  <2> HIDE DEF Step, Message
  <2> QED
    BY <1>1 DEF Run, Section
<1>3. \A i \in 1 .. n : t[i] = Item(sender, c + i - 1, s.l1BlockNumber, s.l1Timestamp)
  BY <1>1 DEF NewItems
<1>4. ASSUME NEW i \in 1 .. n
      PROVE  /\ t[i] \in Step
             /\ t[i].kind = "item" /\ t[i].seqNum = c + i - 1
             /\ StepStart(t[i]) = c + i - 1 /\ StepEnd(t[i]) = c + i
  <2>1. PICK m : m = c + i - 1
    OBVIOUS
  <2>2. m \in Nat /\ m + 1 = c + i
    BY <1>2, <2>1
  <2>3. t[i] = Item(sender, m, s.l1BlockNumber, s.l1Timestamp)
    BY <1>3, <2>1
  <2>4. sender \in Sequencers \cup {ZeroAddress}
    OBVIOUS
  <2>5. PICK b, u : b = s.l1BlockNumber /\ u = s.l1Timestamp
    OBVIOUS
  <2>6. b \in Nat /\ u \in Nat /\ t[i] = Item(sender, m, b, u)
    BY <1>2, <2>3, <2>5
  <2> HIDE DEF t
  <2>7. /\ t[i] \in Step
        /\ t[i].kind = "item" /\ t[i].seqNum = m
        /\ StepStart(t[i]) = m /\ StepEnd(t[i]) = m + 1
    BY <2>2, <2>4, <2>6, ItemIs, SMT
  <2> QED
    BY <2>1, <2>2, <2>7
<1>5. t \in [1 .. n -> Step]
  <2> HIDE DEF Step
  <2> QED
    BY <1>1, <1>4 DEF NewItems
<1>6. t \in Seq(Step) /\ Len(t) = n
  <2> HIDE DEF Step, t
  <2>1. t \in Seq(Step)
    BY <1>2, <1>5
  <2>2. DOMAIN t = 1 .. n
    BY <1>5
  <2> QED
    BY <1>2, <2>1, <2>2, LenProperties
<1>7. /\ q.log = run.log \o t /\ q.count = c + n /\ q.total = run.total /\ q.ok = run.ok
      /\ q = [ok |-> q.ok, log |-> q.log, count |-> q.count, total |-> q.total]
  <2>1. PICK u : u = t
    OBVIOUS
  <2>2. q = [run EXCEPT !.log = @ \o u, !.count = @ + s.numItems]
    BY <2>1 DEF CalcL2Batch, NewItems
  <2> HIDE DEF Step, q, t
  <2>3. DOMAIN run = {"ok", "log", "count", "total"}
    BY DEF Run
  <2> QED
    BY <1>1, <2>1, <2>2, <2>3
<1>8. q \in Run
  <2> HIDE DEF t, q
  <2>1. run.log \o t \in Seq(Step) /\ c + n \in Nat
    BY <1>2, <1>6, Continued
  <2>2. /\ q.log \in Seq(Step) /\ q.count \in Nat /\ q.total \in Nat /\ q.ok \in BOOLEAN
    BY <1>2, <1>7, <2>1, Zenon
  <2> QED
    BY <1>7, <2>2 DEF Run
<1> QED
  BY <1>1, <1>2, <1>4, <1>6, <1>7, <1>8

(***************************************************************************)
(* What is true of every hash chain that the sequencer inbox makes, lg     *)
(* with its message count and the number of delayed messages read, when    *)
(* the bridge holds the messages of inbox.                                 *)
(***************************************************************************)
EndOf(lg, i) == IF i = 0 THEN 0 ELSE StepEnd(lg[i])

Numbered(lg, count) ==
  /\ \A i \in 1 .. Len(lg) : StepStart(lg[i]) = EndOf(lg, i - 1)
  /\ count = EndOf(lg, Len(lg))

EndsInItem(lg) == lg # <<>> => lg[Len(lg)].kind = "item"

SpansOf(lg) == {i \in 1 .. Len(lg) : lg[i].kind = "delayed"}

ReadOnce(lg, total, inbox) ==
  /\ total <= Len(inbox)
  /\ \A i \in SpansOf(lg) :
       /\ lg[i].from < lg[i].to /\ lg[i].to <= total
       /\ lg[i].delayedAcc = SubSeq(inbox, 1, lg[i].to)
  /\ \A i, j \in SpansOf(lg) : i < j => lg[i].to <= lg[j].from
  /\ \A n \in 1 .. total : \E i \in SpansOf(lg) : lg[i].from < n /\ n <= lg[i].to

Good(run, inbox) ==
  Numbered(run.log, run.count) /\ EndsInItem(run.log) /\ ReadOnce(run.log, run.total, inbox)

Extends(lg, base) == Len(base) <= Len(lg) /\ \A i \in 1 .. Len(base) : lg[i] = base[i]

\* A chain that goes on extends itself.
LEMMA ExtendsOwn == ASSUME NEW a \in Seq(Step), NEW b \in Seq(Step) PROVE Extends(a \o b, a)
<1>1. /\ Len(a) \in Nat /\ Len(b) \in Nat /\ Len(a \o b) = Len(a) + Len(b)
      /\ \A i \in 1 .. Len(a) : (a \o b)[i] = a[i]
  BY Continued
<1>2. Len(a) <= Len(a) + Len(b)
  BY <1>1
<1> QED
  BY <1>1, <1>2 DEF Extends

\* A numbered chain goes on with steps that take the next numbers.
LEMMA NumberedOn ==
  ASSUME NEW lg \in Seq(Step), NEW ext \in Seq(Step), NEW c \in Nat, NEW d \in Nat,
         Numbered(lg, c),
         \A i \in 1 .. Len(ext) : StepStart(ext[i]) = IF i = 1 THEN c ELSE StepEnd(ext[i - 1]),
         d = IF Len(ext) = 0 THEN c ELSE StepEnd(ext[Len(ext)])
  PROVE  Numbered(lg \o ext, d)
<1> DEFINE new == lg \o ext
<1>1. PICK m, k : m = Len(lg) /\ k = Len(ext)
  OBVIOUS
<1>2. /\ m \in Nat /\ k \in Nat /\ Len(new) = m + k
      /\ \A i \in 1 .. m : new[i] = lg[i]
      /\ \A i \in 1 .. k : new[m + i] = ext[i]
  BY <1>1, Continued
<1> HIDE DEF new
<1>3. c = EndOf(lg, m) /\ \A i \in 1 .. m : StepStart(lg[i]) = EndOf(lg, i - 1)
  BY <1>1 DEF Numbered
<1>4. EndOf(new, m) = c
  <2>1. m \in 1 .. m \/ m = 0
    BY <1>2
  <2> QED
    BY <1>2, <1>3, <2>1 DEF EndOf
<1>5. ASSUME NEW i \in 1 .. k PROVE StepStart(new[m + i]) = EndOf(new, m + i - 1)
  <2>1. CASE i = 1
    <3>1. m + i - 1 = m /\ StepStart(ext[i]) = c
      BY <1>1, <1>2, <2>1
    <3> QED
      BY <1>2, <1>4, <3>1
  <2>2. CASE i # 1
    <3>1. i - 1 \in 1 .. k /\ m + i - 1 = m + (i - 1) /\ m + i - 1 # 0
      BY <1>2, <2>2
    <3>2. StepStart(ext[i]) = StepEnd(ext[i - 1])
      BY <1>1, <2>2
    <3>3. new[m + i - 1] = ext[i - 1]
      BY <1>2, <3>1
    <3> QED
      BY <1>2, <3>1, <3>2, <3>3 DEF EndOf
  <2> QED
    BY <2>1, <2>2
<1>6. ASSUME NEW i \in 1 .. m PROVE StepStart(new[i]) = EndOf(new, i - 1)
  <2>1. StepStart(new[i]) = EndOf(lg, i - 1)
    BY <1>2, <1>3
  <2>2. i - 1 = 0 \/ i - 1 \in 1 .. m
    BY <1>2
  <2>3. EndOf(new, i - 1) = EndOf(lg, i - 1)
    BY <1>2, <2>2 DEF EndOf
  <2> QED
    BY <2>1, <2>3
<1>7. \A i \in 1 .. m + k : StepStart(new[i]) = EndOf(new, i - 1)
  <2> SUFFICES ASSUME NEW i \in 1 .. m + k PROVE StepStart(new[i]) = EndOf(new, i - 1)
    OBVIOUS
  <2>1. CASE i \in 1 .. m
    BY <1>6, <2>1
  <2>2. CASE i \notin 1 .. m
    <3>1. PICK j : j = i - m
      OBVIOUS
    <3>2. j \in 1 .. k /\ m + j = i /\ m + j - 1 = i - 1
      BY <1>2, <2>2, <3>1
    <3>3. StepStart(new[m + j]) = EndOf(new, m + j - 1)
      BY <1>5, <3>2
    <3> QED
      BY <3>2, <3>3
  <2> QED
    BY <2>1, <2>2
<1>8. d = EndOf(new, m + k)
  <2>1. CASE k = 0
    BY <1>1, <1>2, <1>4, <2>1
  <2>2. CASE k # 0
    <3>1. k \in 1 .. k /\ m + k # 0 /\ d = StepEnd(ext[k])
      BY <1>1, <1>2, <2>2
    <3> QED
      BY <1>2, <3>1 DEF EndOf
  <2> QED
    BY <2>1, <2>2
<1> QED
  BY <1>2, <1>7, <1>8 DEF new, Numbered

\* The items of a section keep a chain good.
LEMMA ItemsGood ==
  ASSUME NEW run \in Run, NEW sender \in Sequencers, NEW s \in Section, NEW inbox,
         Good(run, inbox)
  PROVE  Good(CalcL2Batch(run, sender, s), inbox)
<1> DEFINE q == CalcL2Batch(run, sender, s)
<1>1. PICK t : t = NewItems(run, sender, s)
  OBVIOUS
<1>2. PICK n, c, lg, m, total : n = s.numItems /\ c = run.count /\ lg = run.log /\ m = Len(lg)
                                /\ total = run.total
  OBVIOUS
<1>3. /\ n \in Nat /\ c \in Nat /\ lg \in Seq(Step)
      /\ t \in Seq(Step) /\ Len(t) = n
      /\ \A i \in 1 .. n : /\ t[i].kind = "item"
                           /\ StepStart(t[i]) = c + i - 1 /\ StepEnd(t[i]) = c + i
      /\ q.log = lg \o t /\ q.count = c + n /\ q.total = total
  BY <1>1, <1>2, NewItemsAre
<1> HIDE DEF q
<1>4. /\ m \in Nat /\ Len(lg \o t) = m + n
      /\ \A i \in 1 .. m : (lg \o t)[i] = lg[i]
      /\ \A i \in 1 .. n : (lg \o t)[m + i] = t[i]
  <2>1. /\ Len(lg) \in Nat /\ Len(lg \o t) = Len(lg) + Len(t)
        /\ \A i \in 1 .. Len(lg) : (lg \o t)[i] = lg[i]
        /\ \A i \in 1 .. Len(t) : (lg \o t)[Len(lg) + i] = t[i]
    <3>1. lg \in Seq(Step) /\ t \in Seq(Step)
      BY <1>3
    <3> QED
      BY <3>1, Continued
  <2>2. m = Len(lg) /\ n = Len(t)
    BY <1>2, <1>3
  <2> QED
    BY <2>1, <2>2
<1>5. PICK new : new = lg \o t
  OBVIOUS
<1>6. Numbered(new, c + n)
  <2>1. ASSUME NEW i \in 1 .. n, i # 1 PROVE StepStart(t[i]) = StepEnd(t[i - 1])
    <3>1. i - 1 \in 1 .. n /\ c + (i - 1) = c + i - 1
      BY <1>3, <2>1
    <3> QED
      BY <1>3, <3>1
  <2>2. ASSUME 1 \in 1 .. n PROVE StepStart(t[1]) = c
    BY <1>3, <2>2
  <2>3. n = 0 \/ (n # 0 /\ n \in 1 .. n)
    BY <1>3
  <2>4. c + n = IF n = 0 THEN c ELSE StepEnd(t[n])
    <3>1. CASE n = 0
      BY <1>3, <3>1
    <3>2. CASE n # 0
      <4>1. StepEnd(t[n]) = c + n
        BY <1>3, <2>3, <3>2
      <4> QED
        BY <3>2, <4>1
    <3> QED
      BY <3>1, <3>2
  <2>5. Numbered(lg, c) /\ c + n \in Nat
    BY <1>2, <1>3 DEF Good
  <2>6. \A i \in 1 .. Len(t) : StepStart(t[i]) = IF i = 1 THEN c ELSE StepEnd(t[i - 1])
    BY <1>3, <2>1, <2>2
  <2>7. c + n = IF Len(t) = 0 THEN c ELSE StepEnd(t[Len(t)])
    BY <1>3, <2>4
  <2> QED
    BY <1>3, <1>5, <2>5, <2>6, <2>7, NumberedOn
<1>7. EndsInItem(new)
  <2>1. CASE n = 0
    <3>1. Len(new) = m /\ new \in Seq(Step)
      BY <1>3, <1>4, <1>5, <2>1, Continued
    <3>2. \A i \in 1 .. m : new[i] = lg[i]
      BY <1>4, <1>5
    <3>3. new = lg
      BY <1>2, <1>3, <3>1, <3>2, SeqEqual
    <3> QED
      BY <1>2, <3>3 DEF Good
  <2>2. CASE n # 0
    <3>1. n \in 1 .. n
      BY <1>3, <2>2
    <3>2. new[m + n].kind = "item" /\ Len(new) = m + n
      BY <1>3, <1>4, <1>5, <3>1
    <3> QED
      BY <3>2 DEF EndsInItem
  <2> QED
    BY <2>1, <2>2
<1>8. SpansOf(new) = SpansOf(lg) /\ \A i \in SpansOf(lg) : new[i] = lg[i]
  <2>1. ASSUME NEW i \in 1 .. m + n, i \notin 1 .. m PROVE new[i].kind # "delayed"
    <3>1. i - m \in 1 .. n /\ m + (i - m) = i
      BY <1>3, <1>4, <2>1
    <3> QED
      BY <1>3, <1>4, <1>5, <3>1
  <2>2. Len(new) = m + n /\ Len(lg) = m /\ \A i \in 1 .. m : new[i] = lg[i]
    BY <1>2, <1>4, <1>5
  <2>3. \A i \in 1 .. m : i \in 1 .. m + n
    BY <1>3, <1>4
  <2> QED
    BY <2>1, <2>2, <2>3 DEF SpansOf
<1>9. ReadOnce(new, total, inbox)
  <2>1. ReadOnce(lg, total, inbox)
    BY <1>2 DEF Good
  <2> QED
    BY <1>8, <2>1 DEF ReadOnce
<1> QED
  BY <1>3, <1>5, <1>6, <1>7, <1>9 DEF Good, q

\* Reading delayed messages of the bridge keeps a chain good.
LEMMA IncludeGood ==
  ASSUME NEW run \in Run, NEW to \in Nat, run.total < to, NEW b \in Nat, NEW t \in Nat,
         NEW inbox \in Seq(Message), to <= Len(inbox), Good(run, inbox),
         NEW acc, acc = SubSeq(inbox, 1, to),
         NEW q, q = IncludeDelayedMessages(run, to, b, t, acc)
  PROVE  /\ q \in Run /\ Good(q, inbox) /\ run.count < q.count
         /\ Extends(q.log, run.log)
<1>1. acc = SubSeq(inbox, 1, to)
  OBVIOUS
<1>2. acc \in Seq(Message)
  BY <1>1, FirstOnes
<1>3. PICK c, lg, m, total : c = run.count /\ lg = run.log /\ m = Len(lg) /\ total = run.total
  OBVIOUS
<1>4. c \in Nat /\ total \in Nat /\ total < to /\ total <= to /\ Len(inbox) \in Nat
  BY <1>3, LenProperties DEF Run
<1>5. lg \in Seq(Step)
  BY <1>3 DEF Run
<1>6. PICK end : end = c + to - total
  OBVIOUS
<1>7. PICK span, item :
         /\ span = DelayedSpan(c, total, to, acc)
         /\ item = Item(ZeroAddress, end, b, t)
  OBVIOUS
<1>8. end \in Nat /\ end + 1 \in Nat
  BY <1>4, <1>6
<1>9. /\ span \in Step /\ span.kind = "delayed" /\ span.from = total /\ span.to = to
       /\ span.delayedAcc = acc /\ StepStart(span) = c /\ StepEnd(span) = end
  BY <1>2, <1>4, <1>6, <1>7 DEF DelayedSpan, Step, StepStart, StepEnd
<1>10. /\ item \in Step /\ item.kind = "item"
       /\ StepStart(item) = end /\ StepEnd(item) = end + 1
  BY <1>7, <1>8 DEF Item, Step, StepStart, StepEnd
<1>11. PICK ext : ext = <<span, item>>
  OBVIOUS
<1>12. ext \in Seq(Step) /\ Len(ext) = 2 /\ ext[1] = span /\ ext[2] = item
  BY <1>11, <1>9, <1>10
<1>13. /\ q.log = lg \o ext /\ q.count = end + 1 /\ q.total = to /\ q.ok = run.ok
       /\ q = [ok |-> q.ok, log |-> q.log, count |-> q.count, total |-> q.total]
  <2>1. q = [run EXCEPT !.log = @ \o ext, !.count = end + 1, !.total = to]
    BY <1>3, <1>6, <1>7, <1>11 DEF IncludeDelayedMessages
  <2>2. DOMAIN run = {"ok", "log", "count", "total"}
    BY DEF Run
  <2> QED
    BY <1>3, <2>1, <2>2
<1>14. PICK new : new = lg \o ext
  OBVIOUS
<1>15. /\ m \in Nat /\ Len(new) = m + 2 /\ Len(lg) = m /\ new \in Seq(Step)
       /\ \A i \in 1 .. m : new[i] = lg[i]
       /\ new[m + 1] = span /\ new[m + 2] = item
  <2>1. 1 \in 1 .. 2 /\ 2 \in 1 .. 2
    OBVIOUS
  <2>2. /\ lg \o ext \in Seq(Step) /\ Len(lg) \in Nat /\ Len(lg \o ext) = Len(lg) + Len(ext)
        /\ \A i \in 1 .. Len(lg) : (lg \o ext)[i] = lg[i]
        /\ \A i \in 1 .. Len(ext) : (lg \o ext)[Len(lg) + i] = ext[i]
    <3>1. ext \in Seq(Step)
      BY <1>12
    <3> QED
      BY <1>5, <3>1, Continued
  <2>3. /\ new \in Seq(Step) /\ m \in Nat /\ Len(new) = m + 2
        /\ \A i \in 1 .. m : new[i] = lg[i]
        /\ \A i \in 1 .. 2 : new[m + i] = ext[i]
    BY <1>3, <1>12, <1>14, <2>2, Zenon
  <2>4. new[m + 1] = ext[1] /\ new[m + 2] = ext[2]
    BY <2>1, <2>3
  <2> QED
    BY <1>3, <1>12, <2>3, <2>4
<1>16. q \in Run
  <2>1. run.ok \in BOOLEAN /\ lg \o ext \in Seq(Step)
    BY <1>14, <1>15 DEF Run
  <2> QED
    BY <1>8, <1>13, <2>1 DEF Run
<1>17. Numbered(new, end + 1)
  <2>1. \A i \in 1 .. 2 : i = 1 \/ i = 2
    OBVIOUS
  <2>2. 2 - 1 = 1 /\ 1 # 2 /\ 2 # 0 /\ end + 1 \in Nat
    BY <1>8
  <2>3. \A i \in 1 .. Len(ext) : StepStart(ext[i]) = IF i = 1 THEN c ELSE StepEnd(ext[i - 1])
    BY <1>9, <1>10, <1>12, <2>1, <2>2
  <2>4. end + 1 = IF Len(ext) = 0 THEN c ELSE StepEnd(ext[Len(ext)])
    BY <1>9, <1>10, <1>12
  <2>5. Numbered(lg, c)
    BY <1>3 DEF Good
  <2> QED
    BY <1>4, <1>5, <1>12, <1>14, <2>2, <2>3, <2>4, <2>5, NumberedOn
<1>18. EndsInItem(new)
  BY <1>9, <1>10, <1>15 DEF EndsInItem
<1>19. SpansOf(new) = SpansOf(lg) \cup {m + 1}
  <2>1. \A i \in 1 .. m + 2 : i \in 1 .. m \/ i = m + 1 \/ i = m + 2
    BY <1>15
  <2>2. \A i \in 1 .. m : i \in 1 .. m + 2
    BY <1>15
  <2>3. m + 1 \in 1 .. m + 2
    BY <1>15
  <2>4. new[m + 1].kind = "delayed" /\ new[m + 2].kind # "delayed"
    BY <1>9, <1>10, <1>15
  <2> QED
    BY <1>15, <2>1, <2>2, <2>3, <2>4 DEF SpansOf
<1>20. ReadOnce(new, to, inbox)
  <2>1. /\ \A i \in SpansOf(lg) :
             /\ lg[i].from < lg[i].to /\ lg[i].to <= total
             /\ lg[i].delayedAcc = SubSeq(inbox, 1, lg[i].to)
        /\ \A i, j \in SpansOf(lg) : i < j => lg[i].to <= lg[j].from
        /\ \A n \in 1 .. total : \E i \in SpansOf(lg) : lg[i].from < n /\ n <= lg[i].to
    BY <1>3 DEF Good, ReadOnce
  <2>2. \A i \in SpansOf(lg) : /\ i \in 1 .. m /\ i < m + 1 /\ new[i] = lg[i]
                               /\ lg[i].from \in Nat /\ lg[i].to \in Nat
    <3> SUFFICES ASSUME NEW i \in SpansOf(lg)
                 PROVE  /\ i \in 1 .. m /\ i < m + 1 /\ new[i] = lg[i]
                        /\ lg[i].from \in Nat /\ lg[i].to \in Nat
      OBVIOUS
    <3>1. i \in 1 .. m /\ lg[i].kind = "delayed"
      BY <1>15 DEF SpansOf
    <3>2. lg[i] \in Step
      BY <1>5, <1>15, <3>1, ElementOfSeq
    <3>3. lg[i].from \in Nat /\ lg[i].to \in Nat
      BY <3>1, <3>2, StepIs
    <3> QED
      BY <1>15, <3>1, <3>3
  <2>3. \A i \in SpansOf(new) : i \in SpansOf(lg) \/ i = m + 1
    BY <1>19
  <2>4. new[m + 1].from = total /\ new[m + 1].to = to /\ new[m + 1].delayedAcc = SubSeq(inbox, 1, to)
    BY <1>1, <1>9, <1>10, <1>15
  <2>5. ASSUME NEW i \in SpansOf(new)
        PROVE  /\ new[i].from < new[i].to /\ new[i].to <= to
               /\ new[i].delayedAcc = SubSeq(inbox, 1, new[i].to)
    <3>1. CASE i = m + 1
      BY <1>4, <2>4, <3>1
    <3>2. CASE i \in SpansOf(lg)
      <4>1. /\ lg[i].from < lg[i].to /\ lg[i].to <= total
            /\ lg[i].delayedAcc = SubSeq(inbox, 1, lg[i].to)
            /\ new[i] = lg[i] /\ lg[i].to \in Nat
        BY <2>1, <2>2, <3>2
      <4>2. lg[i].to <= to
        BY <1>4, <4>1
      <4> QED
        BY <4>1, <4>2, Zenon
    <3> QED
      BY <2>3, <3>1, <3>2
  <2>6. ASSUME NEW i \in SpansOf(new), NEW j \in SpansOf(new), i < j
        PROVE  new[i].to <= new[j].from
    <3>1. i \in SpansOf(lg)
      <4>1. i = m + 1 => FALSE
        BY <1>15, <2>2, <2>3, <2>6
      <4> QED
        BY <2>3, <4>1
    <3>2. CASE j = m + 1
      BY <1>4, <2>1, <2>2, <2>4, <3>1, <3>2
    <3>3. CASE j \in SpansOf(lg)
      BY <2>1, <2>2, <2>6, <3>1, <3>3
    <3> QED
      BY <2>3, <3>2, <3>3
  <2>7. ASSUME NEW n \in 1 .. to
        PROVE  \E i \in SpansOf(new) : new[i].from < n /\ n <= new[i].to
    <3>1. CASE n \in 1 .. total
      BY <1>19, <2>1, <2>2, <3>1
    <3>2. CASE n \notin 1 .. total
      <4>1. total < n /\ n <= to
        BY <1>4, <3>2
      <4> QED
        BY <1>19, <2>4, <4>1
    <3> QED
      BY <3>1, <3>2
  <2> QED
    BY <2>5, <2>6, <2>7 DEF ReadOnce
<1>21. run.count < q.count /\ q.log = new
  BY <1>3, <1>4, <1>6, <1>14, <1>13
<1>22. Good(q, inbox)
  BY <1>13, <1>17, <1>18, <1>20, <1>21 DEF Good
<1>23. Extends(q.log, run.log)
  <2>1. ext \in Seq(Step) /\ q.log = run.log \o ext /\ run.log \in Seq(Step)
    BY <1>3, <1>12, <1>14, <1>21, <1>5
  <2> QED
    BY <2>1, ExtendsOwn
<1> QED
  BY <1>1, <1>21, <1>22, <1>23, <1>16

(***************************************************************************)
(* A batch.                                                                *)
(***************************************************************************)
\* A section keeps the chain good and takes nothing back.
LEMMA SectionRuns ==
  ASSUME delayedInbox \in Seq(Message),
         NEW run \in Run, NEW sender \in Sequencers, NEW s \in Section, Good(run, delayedInbox),
         NEW q, q = RunSection(run, sender, s)
  PROVE  /\ q \in Run /\ Good(q, delayedInbox)
         /\ Extends(q.log, run.log) /\ run.count <= q.count
<1>1. PICK items : items = CalcL2Batch(run, sender, s)
  OBVIOUS
<1>2. /\ items \in Run /\ items.total = run.total /\ Good(items, delayedInbox)
      /\ s.numItems \in Nat /\ run.count \in Nat /\ items.count = run.count + s.numItems
      /\ run.log \in Seq(Step)
      /\ items.log = run.log \o NewItems(run, sender, s) /\ NewItems(run, sender, s) \in Seq(Step)
  BY <1>1, NewItemsAre, ItemsGood
<1>4. Extends(items.log, run.log) /\ run.count <= items.count
  <2>1. Extends(items.log, run.log)
    BY <1>2, ExtendsOwn
  <2> QED
    BY <1>2, <2>1
<1>5. CASE q = items
  BY <1>2, <1>4, <1>5
<1>6. CASE q = [run EXCEPT !.ok = FALSE]
  <2>1. /\ q.log = run.log /\ q.count = run.count /\ q.total = run.total
        /\ q = [ok |-> FALSE, log |-> run.log, count |-> run.count, total |-> run.total]
    BY <1>6 DEF Run
  <2>2. q \in Run
    BY <2>1 DEF Run
  <2>3. Good(q, delayedInbox)
    BY <2>1 DEF Good
  <2>4. Extends(q.log, run.log) /\ run.count <= q.count
    <3>1. Len(run.log) \in Nat
      BY <1>2, LenProperties
    <3> QED
      BY <1>2, <2>1, <3>1 DEF Extends
  <2> QED
    BY <2>2, <2>3, <2>4
<1>7. CASE /\ s.newTotal > run.total
           /\ DelayedAccMatches(s.newTotal, s.delayedAcc)
           /\ q = IncludeDelayedMessages(items, s.newTotal, s.l1BlockNumber, s.l1Timestamp,
                                         s.delayedAcc)
  <2>1. PICK to, b, t : to = s.newTotal /\ b = s.l1BlockNumber /\ t = s.l1Timestamp
    OBVIOUS
  <2>2. to \in Nat /\ b \in Nat /\ t \in Nat /\ run.total \in Nat
    BY <2>1 DEF Section, Run
  <2>3. items.total < to
    BY <1>2, <1>7, <2>1, <2>2
  <2>4. to <= Len(delayedInbox)
    BY <1>7, <2>1 DEF DelayedAccMatches
  <2>5. PICK acc : /\ acc = SubSeq(delayedInbox, 1, to)
                   /\ q = IncludeDelayedMessages(items, to, b, t, acc)
    BY <1>7, <2>1 DEF DelayedAccMatches, DelayedAcc
  <2>6. /\ q \in Run /\ Good(q, delayedInbox) /\ items.count < q.count
        /\ Extends(q.log, items.log)
    <3>1. PICK inbox : inbox = delayedInbox
      OBVIOUS
    <3>2. inbox \in Seq(Message) /\ to <= Len(inbox) /\ Good(items, inbox) /\ items \in Run
      BY <1>2, <2>4, <3>1
    <3>3. acc = SubSeq(inbox, 1, to) /\ q = IncludeDelayedMessages(items, to, b, t, acc)
      BY <2>5, <3>1
    <3>4. /\ q \in Run /\ Good(q, inbox) /\ items.count < q.count
          /\ Extends(q.log, items.log)
      BY <2>2, <2>3, <3>2, <3>3, IncludeGood
    <3> QED
      BY <3>1, <3>4
  <2>7. items.log \in Seq(Step) /\ items.count \in Nat /\ q.log \in Seq(Step) /\ q.count \in Nat
    BY <1>2, <2>6 DEF Run
  <2>8. Extends(q.log, items.log)
    BY <2>6
  <2>9. Extends(q.log, run.log)
    <3>1. Len(q.log) \in Nat /\ Len(items.log) \in Nat /\ Len(run.log) \in Nat
      BY <1>2, <2>7, LenProperties
    <3>2. PICK x, y, z : x = Len(q.log) /\ y = Len(items.log) /\ z = Len(run.log)
      OBVIOUS
    <3>3. z <= y /\ y <= x /\ \A i \in 1 .. y : q.log[i] = items.log[i]
      BY <1>4, <2>8, <3>2 DEF Extends
    <3>4. \A i \in 1 .. z : items.log[i] = run.log[i]
      BY <1>4, <3>2 DEF Extends
    <3>5. z <= x /\ \A i \in 1 .. z : i \in 1 .. y
      BY <3>1, <3>2, <3>3
    <3> QED
      BY <3>2, <3>3, <3>4, <3>5 DEF Extends
  <2> QED
    BY <1>2, <1>4, <2>6, <2>7, <2>9
<1> QED
  BY <1>1, <1>5, <1>6, <1>7 DEF RunSection

\* The runs that RunBatch goes through
NextRun(f, sender, sections, i) ==
  IF i = 0 THEN RunStart ELSE RunSection(f[i - 1], sender, sections[i])
Runs(sender, sections) ==
  CHOOSE f : f = [i \in 0 .. Len(sections) |-> NextRun(f, sender, sections, i)]

\* RunBatch is the last of the runs.
LEMMA BatchIsLastRun ==
  ASSUME NEW sender, NEW sections
  PROVE  RunBatch(sender, sections) = Runs(sender, sections)[Len(sections)]
BY DEF RunBatch, Runs, NextRun

\* The recursion has a solution: one for n sections extends to n + 1.
LEMMA RunsAre ==
  ASSUME NEW sender, NEW sections, Len(sections) \in Nat
  PROVE  /\ Runs(sender, sections)[0] = RunStart
         /\ \A i \in 1 .. Len(sections) :
              Runs(sender, sections)[i]
                = RunSection(Runs(sender, sections)[i - 1], sender, sections[i])
<1> DEFINE N(g, i) == NextRun(g, sender, sections, i)
           Solves(g, n) == g = [i \in 0 .. n |-> N(g, i)]
           Fails == {n \in Nat : ~ \E g : Solves(g, n)}
<1>1. \E g : Solves(g, 0)
  <2>1. PICK h : h = [i \in 0 .. 0 |-> RunStart]
    OBVIOUS
  <2>2. \A i \in 0 .. 0 : N(h, i) = RunStart
    BY DEF NextRun
  <2>3. Solves(h, 0)
    <3> HIDE DEF N
    <3> QED
      BY <2>1, <2>2
  <2> HIDE DEF Solves
  <2> QED
    BY <2>3
<1>2. ASSUME NEW n \in Nat, NEW g, Solves(g, n) PROVE \E h : Solves(h, n + 1)
  <2>1. PICK h : h = [i \in 0 .. n + 1 |-> N(g, i)]
    OBVIOUS
  <2>2. \A i \in 0 .. n : h[i] = g[i]
    <3> HIDE DEF N
    <3>1. \A i \in 0 .. n : i \in 0 .. n + 1
      OBVIOUS
    <3>2. \A i \in 0 .. n : g[i] = N(g, i)
      BY <1>2
    <3> QED
      BY <2>1, <3>1, <3>2
  <2>3. ASSUME NEW i \in 0 .. n + 1 PROVE N(h, i) = N(g, i)
    <3>1. CASE i = 0
      BY <3>1 DEF NextRun
    <3>2. CASE i # 0
      <4>1. i - 1 \in 0 .. n
        BY <3>2
      <4>2. h[i - 1] = g[i - 1]
        BY <2>2, <4>1
      <4> QED
        BY <4>2 DEF NextRun
    <3> QED
      BY <3>1, <3>2
  <2>4. Solves(h, n + 1)
    <3> HIDE DEF N
    <3> QED
      BY <2>1, <2>3
  <2> HIDE DEF Solves
  <2> QED
    BY <2>4
<1>3. Fails = {}
  <2> SUFFICES ASSUME Fails # {} PROVE FALSE
    OBVIOUS
  <2> HIDE DEF Solves
  <2>1. PICK n \in Fails : \A m \in Fails : n <= m
    <3>1. Fails \in SUBSET Nat
      OBVIOUS
    <3> HIDE DEF Fails
    <3> QED
      BY <3>1, LeastOf
  <2>2. n \in Nat /\ n # 0
    BY <1>1
  <2>3. n - 1 \in Nat /\ ~(n <= n - 1) /\ (n - 1) + 1 = n
    BY <2>2
  <2>4. PICK g : Solves(g, n - 1)
    BY <2>1, <2>3
  <2>5. \E h : Solves(h, (n - 1) + 1)
    BY <1>2, <2>3, <2>4
  <2> QED
    BY <2>3, <2>5
<1>4. PICK g : Solves(g, Len(sections))
  <2> HIDE DEF Solves
  <2> QED
    BY <1>3
<1>5. PICK p : p = Runs(sender, sections)
  OBVIOUS
<1>6. p = [i \in 0 .. Len(sections) |-> N(p, i)]
  BY <1>4, <1>5, Zenon DEF Runs
<1>7. p[0] = N(p, 0) /\ \A i \in 1 .. Len(sections) : p[i] = N(p, i)
  <2> HIDE DEF N
  <2>1. 0 \in 0 .. Len(sections) /\ \A i \in 1 .. Len(sections) : i \in 0 .. Len(sections)
    OBVIOUS
  <2> QED
    BY <1>6, <2>1
<1>8. p[0] = RunStart
  BY <1>7 DEF NextRun
<1>9. \A i \in 1 .. Len(sections) : p[i] = RunSection(p[i - 1], sender, sections[i])
  <2>1. \A i \in 1 .. Len(sections) : i # 0
    OBVIOUS
  <2> QED
    BY <1>7, <2>1 DEF NextRun
<1> QED
  BY <1>5, <1>8, <1>9

\* A whole batch keeps the chain good and takes nothing back, also when one of
\* its sections is refused.
LEMMA BatchRuns ==
  ASSUME TypeOK, Good(RunStart, delayedInbox),
         NEW sender \in Sequencers, NEW sections \in Seq(Section),
         NEW q, q = RunBatch(sender, sections)
  PROVE  /\ q \in Run /\ Good(q, delayedInbox)
         /\ Extends(q.log, log) /\ messageCount <= q.count
<1> DEFINE Fine(r) == /\ r \in Run /\ Good(r, delayedInbox)
                      /\ Extends(r.log, log) /\ messageCount <= r.count
<1>1. PICK n : n = Len(sections)
  OBVIOUS
<1>2. n \in Nat /\ \A i \in 1 .. n : sections[i] \in Section
  BY <1>1, LenProperties, ElementOfSeq
<1>3. PICK p : p = Runs(sender, sections)
  OBVIOUS
<1>4. /\ p[0] = RunStart
      /\ \A i \in 1 .. n : p[i] = RunSection(p[i - 1], sender, sections[i])
      /\ q = p[n]
  BY <1>1, <1>2, <1>3, RunsAre, BatchIsLastRun
<1>5. /\ delayedInbox \in Seq(Message) /\ log \in Seq(Step)
      /\ messageCount \in Nat /\ totalDelayedMessagesRead \in Nat
  BY DEF TypeOK
<1>6. Len(log) \in Nat
  BY <1>5, LenProperties
<1>7. Fine(RunStart)
  BY <1>5, <1>6 DEF RunStart, Run, Extends
<1>8. ASSUME NEW i \in 1 .. n, Fine(p[i - 1]) PROVE Fine(p[i])
  <2>1. PICK r, s : r = p[i - 1] /\ s = p[i]
    OBVIOUS
  <2>2. r \in Run /\ Good(r, delayedInbox) /\ Extends(r.log, log) /\ messageCount <= r.count
    BY <1>8, <2>1
  <2>3. s = RunSection(r, sender, sections[i]) /\ sections[i] \in Section
    BY <1>2, <1>4, <2>1
  <2>4. /\ s \in Run /\ Good(s, delayedInbox) /\ Extends(s.log, r.log) /\ r.count <= s.count
    BY <1>5, <2>2, <2>3, SectionRuns
  <2>5. r.log \in Seq(Step) /\ r.count \in Nat /\ s.log \in Seq(Step) /\ s.count \in Nat
    BY <2>2, <2>4 DEF Run
  <2>6. Extends(s.log, log)
    <3>1. PICK x, y, z : x = Len(s.log) /\ y = Len(r.log) /\ z = Len(log)
      OBVIOUS
    <3>2. x \in Nat /\ y \in Nat /\ z \in Nat
      BY <1>6, <2>5, <3>1, LenProperties
    <3>3. z <= y /\ y <= x /\ \A k \in 1 .. y : s.log[k] = r.log[k]
      BY <2>2, <2>4, <3>1 DEF Extends
    <3>4. \A k \in 1 .. z : r.log[k] = log[k]
      BY <2>2, <3>1 DEF Extends
    <3>5. z <= x /\ \A k \in 1 .. z : k \in 1 .. y
      BY <3>2, <3>3
    <3> QED
      BY <3>1, <3>3, <3>4, <3>5 DEF Extends
  <2> QED
    BY <1>5, <2>1, <2>2, <2>4, <2>5, <2>6
<1> HIDE DEF Fine
<1>9. \A i \in 0 .. n : Fine(p[i])
  <2> DEFINE Fails == {i \in 0 .. n : ~Fine(p[i])}
  <2> SUFFICES ASSUME Fails # {} PROVE FALSE
    OBVIOUS
  <2>1. Fails \in SUBSET Nat
    BY <1>2
  <2>2. PICK i \in Fails : \A k \in Fails : i <= k
    <3> HIDE DEF Fails
    <3> QED
      BY <2>1, LeastOf
  <2>3. i \in 1 .. n /\ i - 1 \in 0 .. n /\ ~(i <= i - 1)
    <3>1. i # 0
      BY <1>4, <1>7
    <3> QED
      BY <1>2, <3>1
  <2>4. Fine(p[i - 1])
    BY <2>2, <2>3
  <2> QED
    BY <1>8, <2>3, <2>4
<1>10. Fine(q)
  BY <1>2, <1>4, <1>9
<1> QED
  BY <1>10 DEF Fine

(***************************************************************************)
(* The ends of the batches.                                                *)
(***************************************************************************)
EndAt(lg, accs, i) == IF i = 0 THEN 0 ELSE lg[accs[i]].seqNum + 1

\* The batches accs cut the chain lg of count messages into parts that are not
\* empty and end in items.
CutAt(lg, accs, count) ==
  /\ \A i \in 1 .. Len(accs) :
       /\ accs[i] \in 1 .. Len(lg)
       /\ lg[accs[i]].kind = "item"
       /\ EndAt(lg, accs, i) <= count
  /\ count = EndAt(lg, accs, Len(accs))
  /\ \A i, j \in 0 .. Len(accs) : i < j => EndAt(lg, accs, i) < EndAt(lg, accs, j)
  /\ \A n \in 1 .. count :
       \E i \in 1 .. Len(accs) : EndAt(lg, accs, i - 1) < n /\ n <= EndAt(lg, accs, i)

\* One more batch
LEMMA CutOnce ==
  ASSUME NEW lg \in Seq(Step), NEW new \in Seq(Step), NEW accs \in Seq(Nat),
         NEW c \in Nat, NEW d \in Nat, c < d,
         CutAt(lg, accs, c), Extends(new, lg), Numbered(new, d), EndsInItem(new),
         NEW more, more = Append(accs, Len(new))
  PROVE  more \in Seq(Nat) /\ CutAt(new, more, d)
<1>1. PICK k, m, n : k = Len(accs) /\ m = Len(lg) /\ n = Len(new)
  OBVIOUS
<1>2. k \in Nat /\ m \in Nat /\ n \in Nat /\ \A i \in 1 .. k : accs[i] \in Nat
  BY <1>1, LenProperties, ElementOfSeq
<1>3. /\ more \in Seq(Nat) /\ Len(more) = k + 1
      /\ \A i \in 1 .. k : more[i] = accs[i]
      /\ more[k + 1] = n
  BY <1>1, <1>2, AppendProperties
<1>4. m <= n /\ \A i \in 1 .. m : new[i] = lg[i]
  BY <1>1 DEF Extends
<1>5. d = EndOf(new, n) /\ n # 0
  <2>1. d = EndOf(new, n)
    BY <1>1 DEF Numbered
  <2>2. n = 0 => d = 0
    BY <2>1 DEF EndOf
  <2> QED
    BY <2>1, <2>2
<1>6. new # <<>> /\ new[n] \in Step /\ new[n].kind = "item"
  <2>1. new # <<>>
    BY <1>1, <1>5, EmptySeq
  <2>2. n \in 1 .. n
    BY <1>2, <1>5
  <2>3. new[n] \in Step
    BY <1>1, <2>2, ElementOfSeq
  <2> QED
    BY <1>1, <2>1, <2>3 DEF EndsInItem
<1>7. new[n].seqNum + 1 = d
  BY <1>5, <1>6 DEF EndOf, StepEnd
<1>8. k + 1 # 0 /\ EndAt(new, more, k + 1) = d
  BY <1>2, <1>3, <1>7 DEF EndAt
<1>9. /\ \A i \in 1 .. k : accs[i] \in 1 .. m /\ lg[accs[i]].kind = "item"
      /\ \A i \in 1 .. k : EndAt(lg, accs, i) <= c
      /\ c = EndAt(lg, accs, k)
      /\ \A i, j \in 0 .. k : i < j => EndAt(lg, accs, i) < EndAt(lg, accs, j)
      /\ \A x \in 1 .. c : \E i \in 1 .. k : EndAt(lg, accs, i - 1) < x /\ x <= EndAt(lg, accs, i)
  BY <1>1 DEF CutAt
<1>10. ASSUME NEW i \in 1 .. k
       PROVE  /\ more[i] = accs[i] /\ more[i] \in 1 .. n
              /\ new[more[i]] = lg[accs[i]] /\ new[more[i]].kind = "item"
  <2>1. accs[i] \in 1 .. m /\ accs[i] \in 1 .. n
    BY <1>2, <1>4, <1>9
  <2> QED
    BY <1>3, <1>4, <1>9, <2>1
<1>11. \A i \in 0 .. k : EndAt(new, more, i) = EndAt(lg, accs, i) /\ EndAt(lg, accs, i) \in Nat
                         /\ EndAt(lg, accs, i) <= c
  <2> SUFFICES ASSUME NEW i \in 0 .. k
               PROVE  /\ EndAt(new, more, i) = EndAt(lg, accs, i) /\ EndAt(lg, accs, i) \in Nat
                      /\ EndAt(lg, accs, i) <= c
    OBVIOUS
  <2>1. CASE i = 0
    BY <2>1 DEF EndAt
  <2>2. CASE i # 0
    <3>1. i \in 1 .. k
      BY <2>2
    <3>2. lg[accs[i]] \in Step /\ lg[accs[i]].kind = "item"
      BY <1>1, <1>9, <3>1, ElementOfSeq
    <3>3. lg[accs[i]].seqNum \in Nat
      BY <3>2, StepIs
    <3>4. EndAt(lg, accs, i) = lg[accs[i]].seqNum + 1
      BY <2>2 DEF EndAt
    <3>5. EndAt(new, more, i) = EndAt(lg, accs, i)
      BY <1>10, <2>2, <3>1, <3>4 DEF EndAt
    <3>6. EndAt(lg, accs, i) \in Nat /\ EndAt(lg, accs, i) <= c
      <4>1. EndAt(lg, accs, i) <= c
        BY <1>9, <3>1, Zenon
      <4>2. EndAt(lg, accs, i) \in Nat
        <5>1. PICK num \in Nat : num = lg[accs[i]].seqNum
          BY <3>3, Zenon
        <5>2. num + 1 \in Nat
          OBVIOUS
        <5> QED
          BY <3>4, <5>1, <5>2, Zenon
      <4> QED
        BY <4>1, <4>2
    <3> QED
      BY <3>5, <3>6
  <2> QED
    BY <2>1, <2>2
<1>12. \A i \in 1 .. k + 1 : i \in 1 .. k \/ i = k + 1
  BY <1>2
<1>13. \A i \in 1 .. k : i \in 0 .. k /\ i - 1 \in 0 .. k /\ i \in 1 .. k + 1
  BY <1>2
<1>14. ASSUME NEW i \in 1 .. k + 1
       PROVE  /\ more[i] \in 1 .. n /\ new[more[i]].kind = "item"
              /\ EndAt(new, more, i) <= d
  <2>1. CASE i = k + 1
    <3>1. n \in 1 .. n
      BY <1>2, <1>5
    <3> QED
      BY <1>3, <1>6, <1>8, <2>1, <3>1
  <2>2. CASE i \in 1 .. k
    <3>1. EndAt(new, more, i) \in Nat /\ EndAt(new, more, i) <= c
      BY <1>11, <1>13, <2>2
    <3>2. EndAt(new, more, i) <= d
      BY <3>1
    <3> QED
      BY <1>10, <2>2, <3>2
  <2> QED
    BY <1>12, <2>1, <2>2
<1>15. ASSUME NEW i \in 0 .. k + 1, NEW j \in 0 .. k + 1, i < j
       PROVE  EndAt(new, more, i) < EndAt(new, more, j)
  <2>1. i \in 0 .. k /\ (j \in 0 .. k \/ j = k + 1)
    BY <1>2, <1>15
  <2>2. CASE j = k + 1
    <3>1. EndAt(new, more, i) \in Nat /\ EndAt(new, more, i) <= c
      BY <1>11, <2>1
    <3> QED
      BY <1>8, <2>2, <3>1
  <2>3. CASE j \in 0 .. k
    BY <1>9, <1>11, <1>15, <2>1, <2>3
  <2> QED
    BY <2>1, <2>2, <2>3
<1>16. ASSUME NEW x \in 1 .. d
       PROVE  \E i \in 1 .. k + 1 : EndAt(new, more, i - 1) < x /\ x <= EndAt(new, more, i)
  <2>1. CASE x \in 1 .. c
    <3>1. PICK i \in 1 .. k : EndAt(lg, accs, i - 1) < x /\ x <= EndAt(lg, accs, i)
      BY <1>9, <2>1
    <3> QED
      BY <1>11, <1>13, <3>1
  <2>2. CASE x \notin 1 .. c
    <3>1. c < x /\ x <= d /\ k \in 0 .. k /\ (k + 1) - 1 = k /\ k + 1 \in 1 .. k + 1
      BY <1>2, <2>2
    <3>2. EndAt(new, more, (k + 1) - 1) = c
      BY <1>9, <1>11, <3>1
    <3> QED
      BY <1>8, <3>1, <3>2
  <2> QED
    BY <2>1, <2>2
<1> QED
  BY <1>1, <1>3, <1>8, <1>14, <1>15, <1>16 DEF CutAt

(***************************************************************************)
(* The invariant of the two inboxes.                                       *)
(***************************************************************************)
InboxInv ==
  /\ TypeOK
  /\ Good(RunStart, delayedInbox)
  /\ CutAt(log, inboxAccs, messageCount)

\* What was good when the chain was made stays so while the bridge has the
\* messages that were read.
LEMMA GoodStays ==
  ASSUME NEW run \in Run, NEW old \in Seq(Message), NEW new \in Seq(Message), Good(run, old),
         run.total <= Len(new),
         \A i \in 1 .. run.total : new[i] = old[i]
  PROVE  Good(run, new)
<1>1. PICK lg, total : lg = run.log /\ total = run.total
  OBVIOUS
<1>2. lg \in Seq(Step) /\ total \in Nat /\ Len(lg) \in Nat
  BY <1>1, LenProperties DEF Run
<1>3. ReadOnce(lg, total, old) /\ Len(old) \in Nat /\ Len(new) \in Nat
  BY <1>1, LenProperties DEF Good
<1>4. ASSUME NEW i \in SpansOf(lg)
      PROVE  lg[i].delayedAcc = SubSeq(new, 1, lg[i].to)
  <2>1. lg[i] \in Step /\ lg[i].kind = "delayed"
    BY <1>2, ElementOfSeq DEF SpansOf
  <2>2. PICK to : to = lg[i].to
    OBVIOUS
  <2>3. to \in Nat
    BY <2>1, <2>2, StepIs
  <2>4. to <= total /\ total <= Len(old) /\ lg[i].delayedAcc = SubSeq(old, 1, to)
    BY <1>3, <2>2 DEF ReadOnce
  <2>5. to <= Len(old) /\ to <= Len(new) /\ \A j \in 1 .. to : j \in 1 .. total
    BY <1>1, <1>2, <1>3, <2>3, <2>4
  <2>6. \A j \in 1 .. to : old[j] = new[j]
    BY <1>1, <2>5
  <2>7. SubSeq(old, 1, to) = SubSeq(new, 1, to)
    BY <2>3, <2>5, <2>6, FirstOnes
  <2> QED
    BY <2>2, <2>4, <2>7
<1>5. ReadOnce(lg, total, new)
  BY <1>1, <1>3, <1>4 DEF ReadOnce
<1> QED
  BY <1>1, <1>5 DEF Good

\* The chain of the contract with its counts, as a run
LEMMA StartIs ==
  ASSUME TypeOK
  PROVE  /\ RunStart \in Run
         /\ RunStart.log = log /\ RunStart.count = messageCount
         /\ RunStart.total = totalDelayedMessagesRead
BY DEF TypeOK, RunStart, Run

\* What the transactions that change the sequencer inbox do to it
LEMMA Pushed ==
  ASSUME InboxInv, NEW q, PushAcc(q), delayedInbox' = delayedInbox,
         q \in Run, Good(q, delayedInbox), Extends(q.log, log), messageCount < q.count
  PROVE  /\ log' \in Seq(Step) /\ inboxAccs' \in Seq(Nat)
         /\ messageCount' \in Nat /\ totalDelayedMessagesRead' \in Nat
         /\ Good(RunStart, delayedInbox)'
         /\ CutAt(log, inboxAccs, messageCount)'
<1>1. PICK lg, c, total : lg = q.log /\ c = q.count /\ total = q.total
  OBVIOUS
<1>2. /\ lg \in Seq(Step) /\ c \in Nat /\ total \in Nat
      /\ Numbered(lg, c) /\ EndsInItem(lg) /\ ReadOnce(lg, total, delayedInbox)
  BY <1>1 DEF Run, Good
<1>3. /\ log' = lg /\ messageCount' = c /\ totalDelayedMessagesRead' = total
      /\ inboxAccs' = Append(inboxAccs, Len(lg))
  BY <1>1 DEF PushAcc
<1>4. Good(RunStart, delayedInbox)'
  <2>1. /\ RunStart.log' = lg /\ RunStart.count' = c /\ RunStart.total' = total
    BY <1>3 DEF RunStart
  <2> QED
    BY <1>2, <2>1 DEF Good
<1>5. /\ log \in Seq(Step) /\ inboxAccs \in Seq(Nat) /\ messageCount \in Nat
      /\ CutAt(log, inboxAccs, messageCount)
  BY DEF InboxInv, TypeOK
<1>6. PICK old, accs, d, more : /\ old = log /\ accs = inboxAccs /\ d = messageCount
                                /\ more = Append(accs, Len(lg))
  OBVIOUS
<1>7. /\ old \in Seq(Step) /\ accs \in Seq(Nat) /\ d \in Nat /\ d < c
      /\ CutAt(old, accs, d) /\ Extends(lg, old)
  BY <1>1, <1>5, <1>6
<1>8. more \in Seq(Nat) /\ CutAt(lg, more, c)
  BY <1>2, <1>6, <1>7, CutOnce
<1>9. inboxAccs' = more
  BY <1>3, <1>6
<1> QED
  BY <1>2, <1>3, <1>4, <1>8, <1>9

\* Forced messages
LEMMA Forced ==
  ASSUME InboxInv, NEW n \in totalDelayedMessagesRead + 1 .. Len(delayedInbox),
         ForceInclusionImpl(n), delayedInbox' = delayedInbox
  PROVE  /\ log' \in Seq(Step) /\ inboxAccs' \in Seq(Nat)
         /\ messageCount' \in Nat /\ totalDelayedMessagesRead' \in Nat
         /\ totalDelayedMessagesRead' = n
         /\ Good(RunStart, delayedInbox)'
         /\ CutAt(log, inboxAccs, messageCount)'
<1>1. PICK start, inbox, b, t, acc : /\ start = RunStart /\ inbox = delayedInbox /\ b = block
                                     /\ t = timestamp /\ acc = SubSeq(inbox, 1, n)
  OBVIOUS
<1>2. /\ inbox \in Seq(Message) /\ b \in Nat /\ t \in Nat /\ totalDelayedMessagesRead \in Nat
      /\ TypeOK
  BY <1>1 DEF InboxInv, TypeOK
<1>3. Len(inbox) \in Nat
  BY <1>2, LenProperties
<1>4. n \in Nat /\ totalDelayedMessagesRead < n /\ n <= Len(inbox)
  BY <1>1, <1>2, <1>3
<1>5. /\ start \in Run /\ start.total < n /\ Good(start, inbox)
      /\ start.log = log /\ start.count = messageCount
  BY <1>1, <1>2, <1>4, StartIs DEF InboxInv
<1>6. PICK q : q = IncludeDelayedMessages(start, n, b, t, acc)
  OBVIOUS
<1>7. q \in Run /\ Good(q, inbox) /\ start.count < q.count /\ Extends(q.log, start.log)
  BY <1>1, <1>2, <1>4, <1>5, <1>6, IncludeGood
<1>8. PushAcc(q)
  BY <1>1, <1>6 DEF ForceInclusionImpl, DelayedAcc
<1>9. /\ Good(q, delayedInbox) /\ Extends(q.log, log) /\ messageCount < q.count
  BY <1>1, <1>5, <1>7
<1>10. totalDelayedMessagesRead' = n
  <2>1. DOMAIN start = {"ok", "log", "count", "total"}
    BY <1>5 DEF Run
  <2>2. q.total = n
    BY <1>6, <2>1 DEF IncludeDelayedMessages
  <2> QED
    BY <1>8, <2>2 DEF PushAcc
<1> QED
  BY <1>7, <1>8, <1>9, <1>10, Pushed

\* The bridge without its newest message
LEMMA Dropped ==
  ASSUME NEW s \in Seq(Message), Len(s) > 0
  PROVE  /\ Front(s) \in Seq(Message) /\ Len(Front(s)) = Len(s) - 1
         /\ \A i \in 1 .. Len(s) - 1 : Front(s)[i] = s[i]
<1>1. PICK n : n = Len(s) - 1
  OBVIOUS
<1>2. n \in Nat /\ n <= Len(s) /\ n + 1 = Len(s)
  BY <1>1, LenProperties
<1>3. \A i \in 1 .. n : s[i] \in Message
  BY <1>2, ElementOfSeq
<1>4. /\ SubSeq(s, 1, n) \in Seq(Message)
      /\ Len(SubSeq(s, 1, n)) = IF 1 <= n THEN n - 1 + 1 ELSE 0
      /\ \A i \in 1 .. n - 1 + 1 : SubSeq(s, 1, n)[i] = s[1 + i - 1]
  BY <1>2, <1>3, SubSeqProperties
<1>5. /\ Len(SubSeq(s, 1, n)) = n
      /\ \A i \in 1 .. n : SubSeq(s, 1, n)[i] = s[i]
  BY <1>2, <1>4
<1> QED
  BY <1>1, <1>4, <1>5 DEF Front

\* What a sequencer puts together is of the type of a batch.
LEMMA SectionTypes == ASSUME TypeOK PROVE Sections \subseteq Section
<1>1. /\ block \in Nat /\ timestamp \in Nat /\ delayedInbox \in Seq(Message)
      /\ totalDelayedMessagesRead \in Nat
  BY DEF TypeOK
<1>2. Len(delayedInbox) \in Nat
  BY <1>1, LenProperties
<1>3. \A d \in totalDelayedMessagesRead .. Len(delayedInbox) :
        d \in Nat /\ DelayedAcc(d) \in Seq(Message)
  <2> SUFFICES ASSUME NEW d \in totalDelayedMessagesRead .. Len(delayedInbox)
               PROVE  d \in Nat /\ DelayedAcc(d) \in Seq(Message)
    OBVIOUS
  <2>1. d \in Nat /\ d <= Len(delayedInbox)
    BY <1>1, <1>2
  <2> QED
    BY <1>1, <2>1, FirstOnes DEF DelayedAcc
<1>4. delayedInbox # <<>> => Last(delayedInbox) \in Message
  <2> SUFFICES ASSUME delayedInbox # <<>> PROVE Last(delayedInbox) \in Message
    OBVIOUS
  <2>1. Len(delayedInbox) # 0
    BY <1>1, EmptySeq
  <2>2. Len(delayedInbox) \in 1 .. Len(delayedInbox)
    BY <1>2, <2>1
  <2> QED
    BY <1>1, <2>2, ElementOfSeq DEF Last
<1>5. [l1BlockNumber |-> block, l1Timestamp |-> timestamp] \in Message
  BY <1>1 DEF Message
<1>6. MaxItems \in Nat
  BY InboxAssumption
<1>7. \A n \in 0 .. MaxItems : n \in Nat
  BY <1>6
<1>8. PICK stamps : stamps = {[l1BlockNumber |-> block, l1Timestamp |-> timestamp]}
                               \cup (IF delayedInbox = <<>> THEN {} ELSE {Last(delayedInbox)})
  OBVIOUS
<1>9. \A t \in stamps : t.l1BlockNumber \in Nat /\ t.l1Timestamp \in Nat
  <2>1. \A t \in stamps : t \in Message
    BY <1>4, <1>5, <1>8
  <2> QED
    BY <2>1 DEF Message
<1>10. ASSUME NEW n \in 0 .. MaxItems, NEW t \in stamps,
              NEW d \in totalDelayedMessagesRead .. Len(delayedInbox)
       PROVE  [numItems |-> n, l1BlockNumber |-> t.l1BlockNumber, l1Timestamp |-> t.l1Timestamp,
               newTotal |-> d, delayedAcc |-> DelayedAcc(d)] \in Section
  BY <1>3, <1>7, <1>9 DEF Section
<1>11. Sections =
         {[numItems |-> n, l1BlockNumber |-> t.l1BlockNumber, l1Timestamp |-> t.l1Timestamp,
           newTotal |-> d, delayedAcc |-> DelayedAcc(d)] :
            n \in 0 .. MaxItems, t \in stamps,
            d \in totalDelayedMessagesRead .. Len(delayedInbox)}
  BY <1>8 DEF Sections
<1> QED
  BY <1>10, <1>11

\* A step that leaves the sequencer inbox and the bridge alone
LEMMA InboxQuiet ==
  ASSUME InboxInv, UNCHANGED <<delayedInbox, inboxVars>>,
         block' \in Nat, timestamp' \in Nat, isSequencer' \subseteq Sequencers,
         maxDelay' \in Delays, isShutdownForNitro' \in BOOLEAN,
         inFlight' \in [Sequencers -> {NoBatch} \cup Batch]
  PROVE  InboxInv'
<1>1. TypeOK'
  BY DEF InboxInv, TypeOK, inboxVars
<1>2. Good(RunStart, delayedInbox)'
  BY DEF InboxInv, inboxVars, RunStart
<1>3. CutAt(log, inboxAccs, messageCount)'
  BY DEF InboxInv, inboxVars
<1> QED
  BY <1>1, <1>2, <1>3 DEF InboxInv

\* Every step keeps the invariant.
LEMMA InboxStep == ASSUME InboxInv, [Next]_vars PROVE InboxInv'
<1> USE DEF inboxVars, clockVars, adminVars
<1>1. /\ block \in Nat /\ timestamp \in Nat
      /\ isSequencer \subseteq Sequencers /\ maxDelay \in Delays
      /\ isShutdownForNitro \in BOOLEAN /\ inFlight \in [Sequencers -> {NoBatch} \cup Batch]
  BY DEF InboxInv, TypeOK
<1>2. /\ delayedInbox \in Seq(Message) /\ Len(delayedInbox) \in Nat
      /\ totalDelayedMessagesRead \in Nat /\ TypeOK
  BY LenProperties DEF InboxInv, TypeOK
<1>3. \A s \in Sequencers : [inFlight EXCEPT ![s] = NoBatch] \in [Sequencers -> {NoBatch} \cup Batch]
  BY <1>1
<1>4. CASE AdvanceBlock
  <2>1. PICK dt \in BlockTimes : timestamp' = timestamp + dt
    BY <1>4 DEF AdvanceBlock
  <2>2. dt \in Nat
    BY InboxAssumption
  <2>3. block' \in Nat /\ timestamp' \in Nat
    BY <1>1, <1>4, <2>1, <2>2 DEF AdvanceBlock
  <2> QED
    BY <1>1, <1>4, <2>3, InboxQuiet DEF AdvanceBlock
<1>5. ASSUME delayedInbox' \in Seq(Message), totalDelayedMessagesRead <= Len(delayedInbox'),
             \A i \in 1 .. totalDelayedMessagesRead : delayedInbox'[i] = delayedInbox[i],
             UNCHANGED <<clockVars, inboxVars, adminVars, inFlight>>
      PROVE  InboxInv'
  <2>1. TypeOK'
    BY <1>5 DEF InboxInv, TypeOK
  <2>2. PICK start, old, new : start = RunStart /\ old = delayedInbox /\ new = delayedInbox'
    OBVIOUS
  <2>3. /\ start \in Run /\ start.total = totalDelayedMessagesRead /\ Good(start, old)
        /\ old \in Seq(Message) /\ new \in Seq(Message)
    BY <1>2, <1>5, <2>2, StartIs DEF InboxInv
  <2>4. start.total <= Len(new) /\ \A i \in 1 .. start.total : new[i] = old[i]
    BY <1>5, <2>2, <2>3
  <2>5. Good(start, new)
    BY <2>3, <2>4, GoodStays
  <2>6. RunStart' = start
    BY <1>5, <2>2 DEF RunStart
  <2>7. Good(RunStart, delayedInbox)'
    BY <2>2, <2>5, <2>6
  <2>8. CutAt(log, inboxAccs, messageCount)'
    BY <1>5 DEF InboxInv
  <2> QED
    BY <2>1, <2>7, <2>8 DEF InboxInv
<1>6. totalDelayedMessagesRead <= Len(delayedInbox)
  BY <1>2, StartIs DEF InboxInv, Good, ReadOnce
<1>7. CASE DeliverMessageToInbox
  <2>1. PICK m : m = [l1BlockNumber |-> block, l1Timestamp |-> timestamp]
    OBVIOUS
  <2>2. m \in Message
    BY <1>1, <2>1 DEF Message
  <2>3. delayedInbox' = Append(delayedInbox, m)
    BY <1>7, <2>1 DEF DeliverMessageToInbox
  <2>4. /\ delayedInbox' \in Seq(Message) /\ Len(delayedInbox') = Len(delayedInbox) + 1
        /\ \A i \in 1 .. Len(delayedInbox) : delayedInbox'[i] = delayedInbox[i]
    BY <1>2, <2>2, <2>3, AppendProperties
  <2>5. /\ totalDelayedMessagesRead <= Len(delayedInbox')
        /\ \A i \in 1 .. totalDelayedMessagesRead : i \in 1 .. Len(delayedInbox)
    BY <1>2, <1>6, <2>4
  <2> QED
    BY <1>5, <1>7, <2>4, <2>5 DEF DeliverMessageToInbox
<1>8. CASE DropDelayedMessage
  <2>1. Len(delayedInbox) > 0
    BY <1>2, <1>8 DEF DropDelayedMessage
  <2>2. /\ delayedInbox' \in Seq(Message) /\ Len(delayedInbox') = Len(delayedInbox) - 1
        /\ \A i \in 1 .. Len(delayedInbox) - 1 : delayedInbox'[i] = delayedInbox[i]
    BY <1>2, <1>8, <2>1, Dropped DEF DropDelayedMessage
  <2>3. /\ totalDelayedMessagesRead <= Len(delayedInbox')
        /\ \A i \in 1 .. totalDelayedMessagesRead : i \in 1 .. Len(delayedInbox) - 1
    BY <1>2, <1>8, <2>2 DEF DropDelayedMessage
  <2> QED
    BY <1>5, <1>8, <2>2, <2>3 DEF DropDelayedMessage
<1>9. ASSUME NEW s \in Sequencers, SendBatch(s) PROVE InboxInv'
  <2>0. PICK n \in 1 .. MaxSections : \E sections \in [1 .. n -> Sections] :
          inFlight' = [inFlight EXCEPT ![s] = [sections |-> sections,
                                               afterAcc |-> RunBatch(s, sections).log]]
    BY <1>9 DEF SendBatch
  <2>1. PICK sections \in [1 .. n -> Sections] :
          inFlight' = [inFlight EXCEPT ![s] = [sections |-> sections,
                                               afterAcc |-> RunBatch(s, sections).log]]
    BY <2>0
  <2>2. sections \in Seq(Section)
    <3>1. sections \in [1 .. n -> Section] /\ n \in Nat
      BY <1>2, SectionTypes
    <3> QED
      BY <3>1
  <2>3. PICK q : q = RunBatch(s, sections)
    OBVIOUS
  <2>4. q \in Run
    BY <1>2, <2>2, <2>3, BatchRuns DEF InboxInv
  <2>5. q.log \in Seq(Step)
    BY <2>4 DEF Run
  <2>6. [sections |-> sections, afterAcc |-> q.log] \in Batch
    BY <2>2, <2>5 DEF Batch
  <2>7. inFlight' \in [Sequencers -> {NoBatch} \cup Batch]
    BY <1>1, <2>1, <2>3, <2>6
  <2> QED
    BY <1>1, <1>9, <2>7, InboxQuiet DEF SendBatch
<1>10. ASSUME NEW s \in Sequencers, AddSequencerL2Batch(s) PROVE InboxInv'
  <2>1. inFlight[s] \in Batch
    BY <1>1, <1>10 DEF AddSequencerL2Batch
  <2>2. PICK sections : sections = inFlight[s].sections
    OBVIOUS
  <2>3. sections \in Seq(Section)
    BY <2>1, <2>2 DEF Batch
  <2>4. PICK q : q = RunBatch(s, sections)
    OBVIOUS
  <2>5. PushAcc(q) /\ q.count > messageCount
    BY <1>10, <2>2, <2>4 DEF AddSequencerL2Batch, BatchAllowed
  <2>6. q \in Run /\ Good(q, delayedInbox) /\ Extends(q.log, log)
    BY <1>2, <2>3, <2>4, BatchRuns DEF InboxInv
  <2>7. q.count \in Nat /\ messageCount \in Nat
    BY <1>2, <2>6 DEF Run, TypeOK
  <2>8. messageCount < q.count /\ delayedInbox' = delayedInbox
    BY <1>10, <2>5, <2>7 DEF AddSequencerL2Batch
  <2>9. /\ log' \in Seq(Step) /\ inboxAccs' \in Seq(Nat)
        /\ messageCount' \in Nat /\ totalDelayedMessagesRead' \in Nat
        /\ Good(RunStart, delayedInbox)'
        /\ CutAt(log, inboxAccs, messageCount)'
    BY <2>5, <2>6, <2>8, Pushed
  <2>10. TypeOK'
    BY <1>1, <1>2, <1>3, <1>10, <2>8, <2>9 DEF AddSequencerL2Batch, TypeOK
  <2> QED
    BY <2>9, <2>10 DEF InboxInv
<1>11. ASSUME NEW s \in Sequencers, RevertBatch(s) PROVE InboxInv'
  BY <1>1, <1>3, <1>11, InboxQuiet DEF RevertBatch
<1>12. ASSUME NEW n \in totalDelayedMessagesRead + 1 .. Len(delayedInbox), ForceInclusionImpl(n),
              UNCHANGED <<clockVars, delayedInbox, isSequencer, maxDelay, inFlight>>,
              isShutdownForNitro' \in BOOLEAN
       PROVE  InboxInv'
  <2>1. /\ log' \in Seq(Step) /\ inboxAccs' \in Seq(Nat)
        /\ messageCount' \in Nat /\ totalDelayedMessagesRead' \in Nat
        /\ Good(RunStart, delayedInbox)'
        /\ CutAt(log, inboxAccs, messageCount)'
    BY <1>12, Forced
  <2>2. TypeOK'
    BY <1>1, <1>2, <1>12, <2>1 DEF TypeOK
  <2> QED
    BY <2>1, <2>2 DEF InboxInv
<1>13. CASE ForceInclusion
  BY <1>1, <1>12, <1>13 DEF ForceInclusion
<1>14. CASE ShutdownForNitro
  <2>1. CASE UNCHANGED inboxVars
    BY <1>1, <1>14, <2>1, InboxQuiet DEF ShutdownForNitro
  <2>2. CASE \E n \in totalDelayedMessagesRead + 1 .. Len(delayedInbox) : ForceInclusionImpl(n)
    BY <1>12, <1>14, <2>2 DEF ShutdownForNitro
  <2> QED
    BY <1>14, <2>1, <2>2 DEF ShutdownForNitro
<1>15. CASE UndoShutdownForNitro
  BY <1>1, <1>15, InboxQuiet DEF UndoShutdownForNitro
<1>16. CASE SetIsSequencer
  BY <1>1, <1>16, InboxQuiet DEF SetIsSequencer
<1>17. CASE SetMaxDelay
  BY <1>1, <1>17, InboxQuiet DEF SetMaxDelay
<1>18. CASE UNCHANGED vars
  BY <1>1, <1>18, InboxQuiet DEF vars
<1> QED
  BY <1>4, <1>7, <1>8, <1>9, <1>10, <1>11, <1>13, <1>14, <1>15, <1>16, <1>17, <1>18 DEF Next

\* The inductive invariant of the two inboxes holds in every reachable state.
THEOREM InboxInvariant == Spec => []InboxInv
<1>1. Init => InboxInv
  <2> SUFFICES ASSUME Init PROVE InboxInv
    OBVIOUS
  <2>1. TypeOK
    <3>1. inFlight \in [Sequencers -> {NoBatch} \cup Batch]
      BY DEF Init
    <3>2. isSequencer \subseteq Sequencers /\ maxDelay \in Delays
      BY DEF Init
    <3>3. delayedInbox \in Seq(Message) /\ log \in Seq(Step) /\ inboxAccs \in Seq(Nat)
      BY DEF Init
    <3>4. /\ block \in Nat /\ timestamp \in Nat /\ messageCount \in Nat
          /\ totalDelayedMessagesRead \in Nat /\ isShutdownForNitro \in BOOLEAN
      BY DEF Init
    <3> QED
      BY <3>1, <3>2, <3>3, <3>4 DEF TypeOK
  <2>2. /\ log = <<>> /\ inboxAccs = <<>> /\ messageCount = 0 /\ totalDelayedMessagesRead = 0
        /\ delayedInbox = <<>> /\ Len(<<>>) = 0
    BY DEF Init
  <2>3. RunStart.log = <<>> /\ RunStart.count = 0 /\ RunStart.total = 0
    BY <2>1, <2>2, StartIs
  <2>4. Good(RunStart, delayedInbox)
    BY <2>2, <2>3 DEF Good, Numbered, EndOf, EndsInItem, ReadOnce, SpansOf
  <2>5. CutAt(log, inboxAccs, messageCount)
    BY <2>2 DEF CutAt, EndAt
  <2> QED
    BY <2>1, <2>4, <2>5 DEF InboxInv
<1>2. InboxInv /\ [Next]_vars => InboxInv'
  BY InboxStep
<1> QED
  BY <1>1, <1>2, PTL DEF Spec

\* The inboxes keep their types: the storage of Bridge.sol and
\* SequencerInbox.sol, and the batches under way.
THEOREM InboxTypes == Spec => []TypeOK
<1>1. InboxInv => TypeOK
  BY DEF InboxInv
<1> QED
  BY <1>1, InboxInvariant, PTL

\* The messages are numbered without a gap or an overlap, for any batches,
\* sections and forced inclusions (calcL2Batch, includeDelayedMessages).
THEOREM NumbersHaveNoGap == Spec => []MessagesNumbered
<1>1. InboxInv => MessagesNumbered
  <2> SUFFICES ASSUME InboxInv PROVE MessagesNumbered
    OBVIOUS
  <2>1. Numbered(log, messageCount) /\ log \in Seq(Step)
    BY StartIs DEF InboxInv, Good, TypeOK
  <2>2. DOMAIN log = 1 .. Len(log)
    BY <2>1, LenProperties
  <2> QED
    BY <2>1, <2>2 DEF MessagesNumbered, Numbered, EndOf, LogEnd
<1> QED
  BY <1>1, InboxInvariant, PTL

\* Every delayed message that has been read stands in the sequencer inbox
\* once, in order and with its content, whatever reorgs do to the bridge under
\* batches in flight (includeDelayedMessages).
THEOREM DelayedMessagesReadOnce == Spec => []DelayedReadOnceInOrder
<1>1. InboxInv => DelayedReadOnceInOrder
  <2> SUFFICES ASSUME InboxInv PROVE DelayedReadOnceInOrder
    OBVIOUS
  <2>1. ReadOnce(log, totalDelayedMessagesRead, delayedInbox) /\ log \in Seq(Step)
    BY StartIs DEF InboxInv, Good, TypeOK
  <2>2. Spans = SpansOf(log)
    BY <2>1, LenProperties DEF Spans, SpansOf
  <2> QED
    BY <2>1, <2>2 DEF DelayedReadOnceInOrder, ReadOnce, DelayedAcc
<1> QED
  BY <1>1, InboxInvariant, PTL

\* Every message count up to messageCount is proved by exactly one batch
\* (proveInboxContainsMessageImp, proveSeqBatchMsgCount).
THEOREM CountsAreProvable == Spec => []EveryCountProvable
<1>1. InboxInv => EveryCountProvable
  <2> SUFFICES ASSUME InboxInv, NEW count \in 1 .. messageCount
               PROVE  \E i \in DOMAIN inboxAccs :
                        /\ ProveInboxContainsMessage(i, count)
                        /\ \A j \in DOMAIN inboxAccs \ {i} : ~ProveInboxContainsMessage(j, count)
    BY DEF EveryCountProvable
  <2>1. PICK k : k = Len(inboxAccs)
    OBVIOUS
  <2>2. /\ log \in Seq(Step) /\ inboxAccs \in Seq(Nat) /\ messageCount \in Nat
        /\ CutAt(log, inboxAccs, messageCount)
    BY DEF InboxInv, TypeOK
  <2>3. k \in Nat /\ DOMAIN inboxAccs = 1 .. k /\ DOMAIN log = 1 .. Len(log) /\ Len(log) \in Nat
    BY <2>1, <2>2, LenProperties
  <2>4. \A i \in 1 .. k : EndProvable(i)
    BY <2>1, <2>2, <2>3 DEF CutAt, EndProvable
  <2>5. \A i : EndCount(i) = EndAt(log, inboxAccs, i)
    BY DEF EndCount, EndAt
  <2>6. \A i, j \in 0 .. k : i < j => EndCount(i) < EndCount(j)
    BY <2>1, <2>2, <2>5 DEF CutAt
  <2>7. \A i \in 0 .. k : EndCount(i) \in Nat
    <3> SUFFICES ASSUME NEW i \in 0 .. k PROVE EndCount(i) \in Nat
      OBVIOUS
    <3>1. CASE i = 0
      BY <3>1 DEF EndCount
    <3>2. CASE i # 0
      <4>1. i \in 1 .. k
        BY <2>3, <3>2
      <4>2. inboxAccs[i] \in 1 .. Len(log) /\ log[inboxAccs[i]].kind = "item"
        BY <2>3, <2>4, <4>1 DEF EndProvable
      <4>3. log[inboxAccs[i]] \in Step
        BY <2>2, <4>2, ElementOfSeq
      <4>4. log[inboxAccs[i]].seqNum \in Nat
        BY <4>2, <4>3, StepIs
      <4> QED
        BY <3>2, <4>4 DEF EndCount
    <3> QED
      BY <3>1, <3>2
  <2>8. PICK i \in 1 .. k : EndCount(i - 1) < count /\ count <= EndCount(i)
    BY <2>1, <2>2, <2>5 DEF CutAt
  <2>9. \A j \in 1 .. k : j - 1 \in 0 .. k /\ j \in 0 .. k /\ (j > 1 => j - 1 \in 1 .. k)
    BY <2>3
  <2>10. ProveInboxContainsMessage(i, count)
    BY <2>4, <2>8, <2>9 DEF ProveInboxContainsMessage
  <2>11. ASSUME NEW j \in 1 .. k, j # i, ProveInboxContainsMessage(j, count)
         PROVE  FALSE
    <3>1. EndCount(j - 1) < count /\ count <= EndCount(j)
      BY <2>11 DEF ProveInboxContainsMessage
    <3>2. count \in Nat
      BY <2>2
    <3>3. CASE j < i
      <4>1. j = i - 1 \/ j < i - 1
        BY <2>3, <3>3
      <4>2. EndCount(j) <= EndCount(i - 1)
        <5>1. CASE j = i - 1
          BY <2>7, <2>9, <5>1
        <5>2. CASE j < i - 1
          BY <2>6, <2>7, <2>9, <5>2
        <5> QED
          BY <4>1, <5>1, <5>2
      <4> QED
        BY <2>7, <2>8, <2>9, <3>1, <3>2, <4>2
    <3>4. CASE i < j
      <4>1. i = j - 1 \/ i < j - 1
        BY <2>3, <3>4
      <4>2. EndCount(i) <= EndCount(j - 1)
        <5>1. CASE i = j - 1
          BY <2>7, <2>9, <5>1
        <5>2. CASE i < j - 1
          BY <2>6, <2>7, <2>9, <5>2
        <5> QED
          BY <4>1, <5>1, <5>2
      <4> QED
        BY <2>7, <2>8, <2>9, <3>1, <3>2, <4>2
    <3> QED
      BY <2>3, <2>11, <3>3, <3>4
  <2> QED
    BY <2>3, <2>10, <2>11
<1> QED
  BY <1>1, InboxInvariant, PTL

(***************************************************************************)
(* The sequencer's window.                                                 *)
(***************************************************************************)
\* The bridge numbers its messages in the order of time, and no block comes
\* later than the bound; T is the longest time a block takes.
TimeOrder(T) ==
  /\ block <= MaxBlock
  /\ timestamp <= block * T
  /\ \A i \in 1 .. Len(delayedInbox) :
       delayedInbox[i].l1BlockNumber <= block /\ delayedInbox[i].l1Timestamp <= timestamp
  /\ \A i, j \in 1 .. Len(delayedInbox) :
       i <= j => /\ delayedInbox[i].l1BlockNumber <= delayedInbox[j].l1BlockNumber
                 /\ delayedInbox[i].l1Timestamp <= delayedInbox[j].l1Timestamp

\* Every step keeps it.
LEMMA TimeOrderStep ==
  ASSUME NEW T \in Nat, \A dt \in BlockTimes : dt <= T,
         InboxInv, TimeOrder(T), [Next]_vars
  PROVE  TimeOrder(T)'
<1>1. /\ block \in Nat /\ timestamp \in Nat /\ MaxBlock \in Nat
      /\ delayedInbox \in Seq(Message) /\ Len(delayedInbox) \in Nat
  BY InboxAssumption, LenProperties DEF InboxInv, TypeOK
<1>2. \A i \in 1 .. Len(delayedInbox) :
        delayedInbox[i].l1BlockNumber \in Nat /\ delayedInbox[i].l1Timestamp \in Nat
  <2>1. \A i \in 1 .. Len(delayedInbox) : delayedInbox[i] \in Message
    BY <1>1, ElementOfSeq
  <2> QED
    BY <2>1 DEF Message
<1>3. CASE AdvanceBlock
  <2>1. PICK dt \in BlockTimes : timestamp' = timestamp + dt
    BY <1>3 DEF AdvanceBlock
  <2>2. dt \in Nat /\ dt <= T
    BY InboxAssumption
  <2>3. block' = block + 1 /\ block < MaxBlock /\ delayedInbox' = delayedInbox
    BY <1>3 DEF AdvanceBlock
  <2>4. timestamp <= block * T
    BY DEF TimeOrder
  <2>5. timestamp + dt <= (block + 1) * T
    <3>1. PICK b, t : b = block /\ t = timestamp
      OBVIOUS
    <3>2. b \in Nat /\ t \in Nat /\ t <= b * T
      BY <1>1, <2>4, <3>1
    <3>3. t + dt <= (b + 1) * T
      BY <2>2, <3>2
    <3> QED
      BY <3>1, <3>3
  <2>6. block' <= MaxBlock
    BY <1>1, <2>3
  <2>7. timestamp' <= block' * T
    BY <2>1, <2>3, <2>5
  <2>8. ASSUME NEW i \in 1 .. Len(delayedInbox)
        PROVE  delayedInbox[i].l1BlockNumber <= block' /\ delayedInbox[i].l1Timestamp <= timestamp'
    <3>1. delayedInbox[i].l1BlockNumber <= block /\ delayedInbox[i].l1Timestamp <= timestamp
      BY DEF TimeOrder
    <3> QED
      BY <1>1, <1>2, <2>1, <2>2, <2>3, <3>1
  <2> QED
    BY <2>3, <2>6, <2>7, <2>8 DEF TimeOrder
<1>4. CASE DeliverMessageToInbox
  <2>1. PICK m : m = [l1BlockNumber |-> block, l1Timestamp |-> timestamp]
    OBVIOUS
  <2>2. m \in Message /\ m.l1BlockNumber = block /\ m.l1Timestamp = timestamp
    BY <1>1, <2>1 DEF Message
  <2>3. PICK n, new, old : n = Len(delayedInbox) /\ new = delayedInbox' /\ old = delayedInbox
    OBVIOUS
  <2>4. /\ new = Append(old, m) /\ old \in Seq(Message) /\ n = Len(old) /\ n \in Nat
        /\ block' = block /\ timestamp' = timestamp
    BY <1>1, <1>4, <2>1, <2>3 DEF DeliverMessageToInbox, clockVars
  <2>5. /\ Len(new) = n + 1 /\ new[n + 1] = m
        /\ \A i \in 1 .. n : new[i] = old[i]
    BY <2>2, <2>4, AppendProperties
  <2>6. \A i \in 1 .. n + 1 : i \in 1 .. n \/ i = n + 1
    BY <2>4
  <2>7. /\ \A i \in 1 .. n : old[i].l1BlockNumber <= block /\ old[i].l1Timestamp <= timestamp
        /\ \A i, j \in 1 .. n : i <= j => /\ old[i].l1BlockNumber <= old[j].l1BlockNumber
                                          /\ old[i].l1Timestamp <= old[j].l1Timestamp
    BY <2>3 DEF TimeOrder
  <2>8. ASSUME NEW i \in 1 .. n + 1
        PROVE  new[i].l1BlockNumber <= block /\ new[i].l1Timestamp <= timestamp
    <3>1. CASE i = n + 1
      BY <1>1, <2>2, <2>5, <3>1
    <3>2. CASE i \in 1 .. n
      BY <2>5, <2>7, <3>2
    <3> QED
      BY <2>6, <3>1, <3>2
  <2>9. ASSUME NEW i \in 1 .. n + 1, NEW j \in 1 .. n + 1, i <= j
        PROVE  /\ new[i].l1BlockNumber <= new[j].l1BlockNumber
               /\ new[i].l1Timestamp <= new[j].l1Timestamp
    <3>1. CASE j = n + 1
      BY <2>2, <2>5, <2>8, <3>1
    <3>2. CASE j \in 1 .. n
      <4>1. i \in 1 .. n
        BY <2>4, <2>9, <3>2
      <4> QED
        BY <2>5, <2>7, <2>9, <3>2, <4>1
    <3> QED
      BY <2>6, <3>1, <3>2
  <2>10. block <= MaxBlock /\ timestamp <= block * T
    BY DEF TimeOrder
  <2>11. Len(delayedInbox') = n + 1
    BY <2>3, <2>5
  <2> QED
    BY <2>3, <2>4, <2>8, <2>9, <2>10, <2>11 DEF TimeOrder
<1>5. CASE DropDelayedMessage
  <2>1. Len(delayedInbox) > 0 /\ block' = block /\ timestamp' = timestamp
    BY <1>1, <1>5 DEF DropDelayedMessage, clockVars, InboxInv, TypeOK
  <2>2. PICK n : n = Len(delayedInbox) - 1
    OBVIOUS
  <2>3. Len(delayedInbox') = n /\ \A i \in 1 .. n : delayedInbox'[i] = delayedInbox[i]
    BY <1>1, <1>5, <2>1, <2>2, Dropped DEF DropDelayedMessage
  <2>4. \A i \in 1 .. n : i \in 1 .. Len(delayedInbox)
    BY <1>1, <2>2
  <2> QED
    BY <2>1, <2>3, <2>4 DEF TimeOrder
<1>6. CASE UNCHANGED <<block, timestamp, delayedInbox>>
  BY <1>6 DEF TimeOrder
<1> QED
  BY <1>3, <1>4, <1>5, <1>6
  DEF Next, vars, clockVars, SendBatch, AddSequencerL2Batch, RevertBatch, ForceInclusion,
      ShutdownForNitro, UndoShutdownForNitro, SetIsSequencer, SetMaxDelay

\* Below the width of a word the sums of uint256 are sums.
LEMMA NoWrap ==
  ASSUME NEW a \in Nat, NEW b \in Nat, a + b < 2 ^ WordBits PROVE Plus(a, b) = a + b
<1>1. PICK w : w = 2 ^ WordBits
  OBVIOUS
<1>2. w \in Int
  <2>1. WordBits \in Nat
    BY InboxAssumption
  <2> QED
    BY <1>1, <2>1
<1>3. a + b \in Nat /\ a + b < w
  BY <1>1
<1>4. (a + b) % w = a + b
  BY <1>2, <1>3
<1> QED
  BY <1>1, <1>4 DEF Plus

\* forceInclusion takes no message that the sequencer may still place, if the
\* windows do not reach beyond the largest uint256: the message that it checks
\* is the youngest of those it includes.  With a window that does, the end of
\* the window wraps around (SequencerInbox.sol, 134-135).
THEOREM ForcedMessagesAreOld ==
  ASSUME NEW T \in Nat, \A dt \in BlockTimes : dt <= T,
         \A d \in Delays : /\ MaxBlock + d.blocks < 2 ^ WordBits
                           /\ MaxBlock * T + d.seconds < 2 ^ WordBits
  PROVE  Spec => ForcedOnlyAfterWindow
<1>1. Init => TimeOrder(T)
  <2> SUFFICES ASSUME Init PROVE TimeOrder(T)
    OBVIOUS
  <2>1. block = 0 /\ timestamp = 0 /\ Len(delayedInbox) = 0 /\ MaxBlock \in Nat
    BY InboxAssumption DEF Init
  <2>2. 0 <= 0 * T
    OBVIOUS
  <2> QED
    BY <2>1, <2>2 DEF TimeOrder
<1>2. InboxInv /\ TimeOrder(T) /\ [Next]_vars => TimeOrder(T)'
  BY TimeOrderStep
<1>3. ASSUME InboxInv, TimeOrder(T), ForceInclusion,
             NEW n \in totalDelayedMessagesRead + 1 .. totalDelayedMessagesRead'
      PROVE  /\ block - delayedInbox[n].l1BlockNumber > maxDelay.blocks
             /\ timestamp - delayedInbox[n].l1Timestamp > maxDelay.seconds
  <2>1. PICK last \in totalDelayedMessagesRead + 1 .. Len(delayedInbox) :
          WindowExpired(last) /\ ForceInclusionImpl(last)
    BY <1>3 DEF ForceInclusion
  <2>2. totalDelayedMessagesRead' = last
    BY <1>3, <2>1, Forced DEF ForceInclusion
  <2>3. /\ delayedInbox \in Seq(Message) /\ totalDelayedMessagesRead \in Nat
        /\ block \in Nat /\ timestamp \in Nat /\ maxDelay \in Delays /\ MaxBlock \in Nat
    BY <1>3, InboxAssumption DEF InboxInv, TypeOK
  <2>4. Len(delayedInbox) \in Nat
    BY <2>3, LenProperties
  <2>5. n \in 1 .. Len(delayedInbox) /\ last \in 1 .. Len(delayedInbox) /\ n <= last
    BY <2>1, <2>2, <2>3, <2>4
  <2>6. delayedInbox[n] \in Message /\ delayedInbox[last] \in Message
    BY <2>3, <2>5, ElementOfSeq
  <2>7. PICK bn, tn, bl, tl : /\ bn = delayedInbox[n].l1BlockNumber
                              /\ tn = delayedInbox[n].l1Timestamp
                              /\ bl = delayedInbox[last].l1BlockNumber
                              /\ tl = delayedInbox[last].l1Timestamp
    OBVIOUS
  <2>8. bn \in Nat /\ tn \in Nat /\ bl \in Nat /\ tl \in Nat
    BY <2>6, <2>7 DEF Message
  <2>9. bn <= bl /\ tn <= tl /\ bl <= block /\ tl <= timestamp
    BY <1>3, <2>5, <2>7 DEF TimeOrder
  <2>10. PICK db, ds : db = maxDelay.blocks /\ ds = maxDelay.seconds
    OBVIOUS
  <2>11. /\ db \in Nat /\ ds \in Nat
         /\ MaxBlock + db < 2 ^ WordBits /\ MaxBlock * T + ds < 2 ^ WordBits
    BY <2>3, <2>10, InboxAssumption
  <2>12. Plus(bl, db) < block /\ Plus(tl, ds) < timestamp
    BY <2>1, <2>7, <2>10 DEF WindowExpired
  <2>13. PICK w : w = 2 ^ WordBits
    OBVIOUS
  <2>14. w \in Int
    <3>1. WordBits \in Nat
      BY InboxAssumption
    <3> QED
      BY <2>13, <3>1
  <2>15. block <= MaxBlock /\ timestamp <= block * T
    BY <1>3 DEF TimeOrder
  <2>16. bl + db < w
    BY <2>3, <2>8, <2>9, <2>11, <2>13, <2>14, <2>15
  <2>17. tl + ds < w
    <3>1. PICK b, k : b = block * T /\ k = MaxBlock * T
      OBVIOUS
    <3>2. b \in Nat /\ k \in Nat /\ b <= k
      <4>1. PICK x, y : x = block /\ y = MaxBlock
        OBVIOUS
      <4>2. x \in Nat /\ y \in Nat /\ x <= y
        BY <2>3, <2>15, <4>1
      <4>3. x * T <= y * T /\ x * T \in Nat /\ y * T \in Nat
        BY <4>2
      <4> QED
        BY <3>1, <4>1, <4>3
    <3>3. timestamp <= b /\ k + ds < w
      BY <2>11, <2>13, <2>15, <3>1
    <3> QED
      BY <2>3, <2>8, <2>9, <2>11, <2>14, <3>2, <3>3
  <2>18. Plus(bl, db) = bl + db /\ Plus(tl, ds) = tl + ds
    BY <2>8, <2>11, <2>13, <2>16, <2>17, NoWrap
  <2>19. block - bn > db /\ timestamp - tn > ds
    BY <2>3, <2>8, <2>9, <2>11, <2>12, <2>18
  <2> QED
    BY <2>7, <2>10, <2>19
<1>4. ASSUME InboxInv, TimeOrder(T), [Next]_vars,
             NEW n \in totalDelayedMessagesRead + 1 .. totalDelayedMessagesRead',
             inFlight' = inFlight, ~isShutdownForNitro'
      PROVE  ForceInclusion
  <2>1. totalDelayedMessagesRead' # totalDelayedMessagesRead
    <3>1. totalDelayedMessagesRead \in Nat
      BY <1>4 DEF InboxInv, TypeOK
    <3> QED
      BY <1>4, <3>1
  <2>2. ASSUME NEW s \in Sequencers, AddSequencerL2Batch(s) PROVE FALSE
    <3>1. inFlight \in [Sequencers -> {NoBatch} \cup Batch]
      BY <1>4 DEF InboxInv, TypeOK
    <3> QED
      BY <1>4, <2>2, <3>1 DEF AddSequencerL2Batch
  <2>3. ~ShutdownForNitro
    BY <1>4 DEF ShutdownForNitro
  <2> QED
    BY <1>4, <2>1, <2>2, <2>3
    DEF Next, vars, inboxVars, AdvanceBlock, DeliverMessageToInbox, DropDelayedMessage, SendBatch,
        RevertBatch, UndoShutdownForNitro, SetIsSequencer, SetMaxDelay
<1>5. InboxInv /\ TimeOrder(T) /\ [Next]_vars =>
        [\A n \in totalDelayedMessagesRead + 1 .. totalDelayedMessagesRead' :
           (inFlight' = inFlight /\ ~isShutdownForNitro') =>
             /\ block - delayedInbox[n].l1BlockNumber > maxDelay.blocks
             /\ timestamp - delayedInbox[n].l1Timestamp > maxDelay.seconds]_vars
  BY <1>3, <1>4
<1> QED
  BY <1>1, <1>2, <1>5, InboxInvariant, PTL DEF Spec, ForcedOnlyAfterWindow
====
