----------------------- MODULE SequencerBatcher_proofs -----------------------
(***************************************************************************)
(* A delayed message that the batcher has sequenced stays in the L1 inbox  *)
(* as it was, for all bounds on blocks, messages and reorgs.               *)
(***************************************************************************)
EXTENDS SequencerBatcher, SequenceTheorems, FiniteSetTheorems, TLAPS

UserMessage ==
  [kind : {"item"}, sender : {Self, Other, ZeroAddress}, seqNum : Int,
   l1BlockNumber : Nat, l1Timestamp : Nat]
Span ==
  [kind : {"delayed"}, count : Int, from : Nat, to : Nat, delayedAcc : Seq(L1!Message)]
Items == [msg : UserMessage \cup Span, total : Nat]

\* The part of the state that the argument is about: the inbox on L1, the
\* reader's copy, and the chain times by which delayed messages are dated.
SequencingType ==
  /\ block \in Nat \ {0}
  /\ delayedInbox \in Seq(L1!Message)
  /\ delayedDb \in Seq(L1!Message)
  /\ latestChainTime \in Times
  /\ step # "wait" => chainTime \in Times /\ chainTime.block < block

\* The delayed inbox is in the order of the blocks, and none is in the future.
InboxOrdered ==
  /\ \A i, j \in 1 .. Len(delayedInbox) :
       i <= j => delayedInbox[i].l1BlockNumber <= delayedInbox[j].l1BlockNumber
  /\ \A i \in 1 .. Len(delayedInbox) : delayedInbox[i].l1BlockNumber <= block

\* The first n messages of the inbox are acc, and so deep that no reorg
\* reaches them.
Settled(n, acc, inbox, b) ==
  /\ n <= Len(inbox)
  /\ acc = SubSeq(inbox, 1, n)
  /\ n > 0 => inbox[n].l1BlockNumber + DelayedMessagesTargetDelay < b

SettledMsg(msg, inbox, b) == msg.kind = "delayed" => Settled(msg.to, msg.delayedAcc, inbox, b)

\* A database, or a part of one, whose delayed messages are settled.
Good(items, inbox, b) ==
  /\ items \in Seq(Items)
  /\ \A i \in 1 .. Len(items) : SettledMsg(items[i].msg, inbox, b)

\* Items come back from L1 and from the mempool, so the argument is about every
\* place where there are any.
CopiesSettled ==
  /\ Good(db, delayedInbox, block) /\ Good(otherDb, delayedInbox, block)
  /\ Good(l1Items, delayedInbox, block) /\ Good(mined.items, delayedInbox, block)
  /\ \A t \in pool : Good(t.before, delayedInbox, block) /\ Good(t.items, delayedInbox, block)

BatcherInv == SequencingType /\ InboxOrdered /\ CopiesSettled

-----------------------------------------------------------------------------
\* What the argument needs of the parameters: no reorg is deeper than the
\* target delay.
LEMMA Parameters ==
  /\ BlockTime \in Nat
  /\ DelayedMessagesTargetDelay \in Nat
  /\ MaxL1Reorg \in Nat
  /\ MaxL1Reorg <= DelayedMessagesTargetDelay
  BY BatcherAssumption

\* In an ordered inbox the first n messages are those up to block b if there
\* are n of them: the count of the binary search is a position.
LEMMA CountIsPosition ==
  ASSUME SequencingType, InboxOrdered, NEW b \in Int, NEW n \in Nat,
         DelayedCount(delayedInbox, b) >= n
  PROVE  /\ n <= Len(delayedInbox)
         /\ n > 0 => delayedInbox[n].l1BlockNumber <= b
<1> DEFINE S == {i \in DOMAIN delayedInbox : delayedInbox[i].l1BlockNumber <= b}
<1>1. /\ Len(delayedInbox) \in Nat /\ DOMAIN delayedInbox = 1 .. Len(delayedInbox)
      /\ \A i \in 1 .. Len(delayedInbox) : delayedInbox[i].l1BlockNumber \in Nat
  <2>1. delayedInbox \in Seq([l1BlockNumber : Nat, l1Timestamp : Nat])
    BY DEF SequencingType, L1!Message
  <2>2. \A i \in 1 .. Len(delayedInbox) :
          delayedInbox[i] \in [l1BlockNumber : Nat, l1Timestamp : Nat]
    BY <2>1, ElementOfSeq
  <2> QED
    BY <2>1, <2>2
<1>2. ASSUME NEW k \in Nat, S \subseteq 1 .. k PROVE n <= k
  <2>1. IsFiniteSet(1 .. k) /\ Cardinality(1 .. k) = k
    BY FS_Interval
  <2>2. Cardinality(S) <= k /\ Cardinality(S) \in Nat
    BY <1>2, <2>1, FS_Subset, FS_CardinalityType
  <2>3. Cardinality(S) >= n
    BY DEF DelayedCount
  <2> HIDE DEF S
  <2> QED
    BY <2>2, <2>3
<1>3. n <= Len(delayedInbox)
  BY <1>1, <1>2
<1>4. ASSUME n > 0, ~(delayedInbox[n].l1BlockNumber <= b) PROVE FALSE
  <2>1. n \in 1 .. Len(delayedInbox) /\ n - 1 \in Nat
    BY <1>1, <1>3, <1>4
  <2>2. ASSUME NEW i \in S PROVE i \in 1 .. n - 1
    <3>1. i \in 1 .. Len(delayedInbox) /\ delayedInbox[i].l1BlockNumber <= b
      BY <1>1
    <3>2. ~(n <= i)
      <4> SUFFICES ASSUME n <= i PROVE FALSE
        OBVIOUS
      <4>1. delayedInbox[n].l1BlockNumber <= delayedInbox[i].l1BlockNumber
        BY <2>1, <3>1 DEF InboxOrdered
      <4>2. delayedInbox[n].l1BlockNumber \in Nat /\ delayedInbox[i].l1BlockNumber \in Nat
        BY <1>1, <2>1, <3>1
      <4> QED
        BY <1>4, <3>1, <4>1, <4>2
    <3> QED
      BY <2>1, <3>1, <3>2
  <2> HIDE DEF S
  <2>3. n <= n - 1
    BY <1>2, <2>1, <2>2
  <2> QED
    BY <2>3
<1> QED
  BY <1>3, <1>4

\* A count of positions is a position or zero.
LEMMA CountType ==
  ASSUME NEW T, NEW s \in Seq(T), NEW C, C \subseteq DOMAIN s
  PROVE  Cardinality(C) \in 0 .. Len(s)
<1>1. Len(s) \in Nat /\ DOMAIN s = 1 .. Len(s)
  OBVIOUS
<1>2. IsFiniteSet(1 .. Len(s)) /\ Cardinality(1 .. Len(s)) = Len(s)
  <2>1. \A k \in Nat : IsFiniteSet(1 .. k) /\ Cardinality(1 .. k) = k
    BY FS_Interval
  <2> QED
    BY <1>1, <2>1
<1>3. Cardinality(C) <= Len(s) /\ Cardinality(C) \in Nat
  BY <1>1, <1>2, FS_Subset, FS_CardinalityType
<1> QED
  BY <1>1, <1>3

-----------------------------------------------------------------------------
\* Sequences of settled items are put together and taken apart.
LEMMA GoodConcat ==
  ASSUME NEW inbox, NEW b, NEW s, NEW t, Good(s, inbox, b), Good(t, inbox, b)
  PROVE  Good(s \o t, inbox, b)
<1>1. s \in Seq(Items) /\ t \in Seq(Items) /\ Len(s) \in Nat /\ Len(t) \in Nat
  BY DEF Good
<1>2. /\ s \o t \in Seq(Items) /\ Len(s \o t) = Len(s) + Len(t)
      /\ \A i \in 1 .. Len(s) + Len(t) :
           (s \o t)[i] = IF i <= Len(s) THEN s[i] ELSE t[i - Len(s)]
  BY <1>1, ConcatProperties
<1>3. ASSUME NEW i \in 1 .. Len(s \o t) PROVE SettledMsg((s \o t)[i].msg, inbox, b)
  <2>1. CASE i <= Len(s)
    <3>1. i \in 1 .. Len(s) /\ (s \o t)[i] = s[i]
      BY <1>1, <1>2, <1>3, <2>1
    <3> QED
      BY <3>1 DEF Good
  <2>2. CASE ~(i <= Len(s))
    <3>1. i - Len(s) \in 1 .. Len(t) /\ (s \o t)[i] = t[i - Len(s)]
      BY <1>1, <1>2, <1>3, <2>2
    <3> QED
      BY <3>1 DEF Good
  <2> QED
    BY <2>1, <2>2
<1> QED
  BY <1>2, <1>3 DEF Good

LEMMA GoodPart ==
  ASSUME NEW inbox, NEW b, NEW s, Good(s, inbox, b), NEW k \in 0 .. Len(s)
  PROVE  Good(SubSeq(s, 1, k), inbox, b) /\ Good(SubSeq(s, k + 1, Len(s)), inbox, b)
<1>1. s \in Seq(Items) /\ Len(s) \in Nat
  BY DEF Good
<1>2. /\ SubSeq(s, 1, k) \in Seq(Items) /\ Len(SubSeq(s, 1, k)) = k
      /\ \A i \in 1 .. k : i \in 1 .. Len(s) /\ SubSeq(s, 1, k)[i] = s[i]
  BY <1>1
<1>3. /\ SubSeq(s, k + 1, Len(s)) \in Seq(Items) /\ Len(SubSeq(s, k + 1, Len(s))) = Len(s) - k
      /\ \A i \in 1 .. Len(s) - k :
           k + i \in 1 .. Len(s) /\ SubSeq(s, k + 1, Len(s))[i] = s[k + i]
  BY <1>1
<1>4. \A i \in 1 .. Len(s) : SettledMsg(s[i].msg, inbox, b)
  BY DEF Good
<1>5. Good(SubSeq(s, 1, k), inbox, b)
  <2> PICK p : p = SubSeq(s, 1, k)
    OBVIOUS
  <2> QED
    BY <1>2, <1>4 DEF Good
<1>6. Good(SubSeq(s, k + 1, Len(s)), inbox, b)
  BY <1>3, <1>4 DEF Good
<1> QED
  BY <1>5, <1>6

LEMMA GoodPair ==
  ASSUME NEW inbox, NEW b, NEW x \in Items, NEW y \in Items,
         SettledMsg(x.msg, inbox, b), SettledMsg(y.msg, inbox, b)
  PROVE  Good(<<x, y>>, inbox, b)
<1> PICK s : s = <<x, y>>
  OBVIOUS
<1>1. s \in Seq(Items) /\ Len(s) = 2 /\ s[1] = x /\ s[2] = y
  OBVIOUS
<1>2. \A i \in 1 .. 2 : i = 1 \/ i = 2
  OBVIOUS
<1> QED
  BY <1>1, <1>2 DEF Good

\* What is settled stays settled when L1 moves on, if every prefix does.
LEMMA GoodKept ==
  ASSUME NEW inbox, NEW b, NEW inbox2, NEW b2, NEW s, Good(s, inbox, b),
         \A n \in Nat : \A acc : Settled(n, acc, inbox, b) => Settled(n, acc, inbox2, b2)
  PROVE  Good(s, inbox2, b2)
<1> SUFFICES ASSUME NEW i \in 1 .. Len(s), s[i].msg.kind = "delayed"
             PROVE  Settled(s[i].msg.to, s[i].msg.delayedAcc, inbox2, b2)
  BY DEF Good, SettledMsg
<1>1. s[i] \in Items
  BY ElementOfSeq DEF Good
<1>2. s[i].msg.to \in Nat
  BY <1>1 DEF Items, Span, UserMessage
<1>3. Settled(s[i].msg.to, s[i].msg.delayedAcc, inbox, b)
  BY DEF Good, SettledMsg
<1> QED
  BY <1>2, <1>3

-----------------------------------------------------------------------------
\* The messages of users and the end of a block, as they are put into a
\* database, and what it counts.
LEMMA DbCounts ==
  ASSUME NEW s, s \in Seq(Items)
  PROVE  MessageCount(s) \in Int /\ TotalDelayedSequenced(s) \in Nat
<1>1. CASE s = <<>>
  BY <1>1 DEF MessageCount, TotalDelayedSequenced
<1>2. CASE s # <<>>
  <2>1. Len(s) \in 1 .. Len(s)
    BY <1>2
  <2> PICK x : x = s[Len(s)]
    OBVIOUS
  <2>2. x \in Items
    BY <2>1, ElementOfSeq
  <2>3. x.total \in Nat
    BY <2>2 DEF Items
  <2>4. EndSeqNum(x) \in Int
    <3>1. CASE x.msg \in UserMessage
      BY <3>1 DEF UserMessage, EndSeqNum
    <3>2. CASE x.msg \in Span
      BY <3>2 DEF Span, EndSeqNum
    <3> QED
      BY <2>2, <3>1, <3>2 DEF Items
  <2> QED
    BY <1>2, <2>3, <2>4 DEF MessageCount, TotalDelayedSequenced, Last
<1> QED
  BY <1>1, <1>2

LEMMA MessageItem ==
  ASSUME NEW inbox, NEW b, NEW sender \in {Self, Other, ZeroAddress}, NEW n \in Int,
         NEW time \in Times, NEW total \in Nat
  PROVE  /\ BatchItem(SequencerMessage(sender, n, time), total) \in Items
         /\ SettledMsg(BatchItem(SequencerMessage(sender, n, time), total).msg, inbox, b)
  BY DEF BatchItem, SequencerMessage, L1!Item, Items, UserMessage, Times, SettledMsg

LEMMA SpanItem ==
  ASSUME NEW inbox, NEW b, NEW n \in Int, NEW from \in Nat, NEW to \in Nat,
         NEW acc \in Seq(L1!Message), Settled(to, acc, inbox, b)
  PROVE  /\ BatchItem(L1!DelayedSpan(n, from, to, acc), to) \in Items
         /\ SettledMsg(BatchItem(L1!DelayedSpan(n, from, to, acc), to).msg, inbox, b)
  BY DEF BatchItem, L1!DelayedSpan, Items, Span, SettledMsg

\* Users' messages leave the delayed ones alone.
LEMMA UserItemsGood ==
  ASSUME NEW inbox, NEW b, NEW base, base \in Seq(Items),
         NEW sender \in {Self, Other}, NEW time \in Times
  PROVE  Good(UserItems(base, sender, time), inbox, b)
<1> PICK n : n = MessageCount(base)
  OBVIOUS
<1> PICK total : total = TotalDelayedSequenced(base)
  OBVIOUS
<1>1. n \in Int /\ n + 1 \in Int /\ total \in Nat
  BY DbCounts
<1> DEFINE x == BatchItem(SequencerMessage(sender, n, time), total)
           y == BatchItem(SequencerMessage(sender, n + 1, time), total)
<1>2. x \in Items /\ y \in Items /\ SettledMsg(x.msg, inbox, b) /\ SettledMsg(y.msg, inbox, b)
  BY <1>1, MessageItem
<1>3. UserItems(base, sender, time) = <<x, y>>
  BY DEF UserItems
<1> HIDE DEF x, y
<1> QED
  BY <1>2, <1>3, GoodPair

\* A broadcast leaves the database that hears it good.
LEMMA HearsGood ==
  ASSUME NEW inbox, NEW b, NEW copy, NEW base, NEW items,
         Good(copy, inbox, b), Good(items, inbox, b)
  PROVE  Good(Hears(copy, base, items), inbox, b)
  BY GoodConcat DEF Hears

\* Delayed messages are sequenced only when L1 confirms that they are deeper
\* than the target delay.
LEMMA DeliverDelayedKeeps ==
  ASSUME SequencingType, InboxOrdered, CopiesSettled,
         NEW time \in Times, time.block < block, DeliverDelayedMessages(time)
  PROVE  Good(db', delayedInbox, block) /\ Good(otherDb', delayedInbox, block)
<1> PICK n : n = MessageCount(db)
  OBVIOUS
<1> PICK old : old = TotalDelayedSequenced(db)
  OBVIOUS
<1> PICK new : new = DelayedToSequence(time)
  OBVIOUS
<1> PICK b : b = time.block - DelayedMessagesTargetDelay
  OBVIOUS
<1>1. n \in Int /\ old \in Nat
  BY DbCounts DEF CopiesSettled, Good
<1>2. time.block \in Nat /\ DelayedMessagesTargetDelay \in Nat /\ b \in Int /\ block \in Nat
  BY Parameters DEF Times, SequencingType
<1>3. new \in Nat /\ new <= Len(delayedDb)
  <2>1. delayedDb \in Seq(L1!Message)
    BY DEF SequencingType
  <2>2. new \in 0 .. Len(delayedDb)
    BY <2>1, CountType DEF DelayedToSequence, DelayedCount
  <2> QED
    BY <2>1, <2>2
<1>4. DelayedCount(delayedInbox, b) >= new /\ SubSeq(delayedInbox, 1, new) = SubSeq(delayedDb, 1, new)
  BY DEF DeliverDelayedMessages, DelayedConfirmed
<1>5. new <= Len(delayedInbox) /\ (new > 0 => delayedInbox[new].l1BlockNumber <= b)
  BY <1>2, <1>3, <1>4, CountIsPosition
<1>6. SubSeq(delayedDb, 1, new) \in Seq(L1!Message)
  BY <1>3 DEF SequencingType
<1>7. Settled(new, SubSeq(delayedDb, 1, new), delayedInbox, block)
  <2>1. ASSUME new > 0
        PROVE  delayedInbox[new].l1BlockNumber + DelayedMessagesTargetDelay < block
    <3>1. new \in 1 .. Len(delayedInbox)
      BY <1>3, <1>5, <2>1
    <3>2. delayedInbox[new] \in L1!Message
      BY <3>1, ElementOfSeq DEF SequencingType
    <3>3. delayedInbox[new].l1BlockNumber \in Nat
      BY <3>2 DEF L1!Message
    <3> QED
      BY <1>2, <1>5, <2>1, <3>3
  <2> QED
    BY <1>4, <1>5, <2>1 DEF Settled
<1> DEFINE x == BatchItem(L1!DelayedSpan(n, old, new, SubSeq(delayedDb, 1, new)), new)
           y == BatchItem(SequencerMessage(ZeroAddress, n + new - old, latestChainTime), new)
<1>8. x \in Items /\ SettledMsg(x.msg, delayedInbox, block)
  BY <1>1, <1>3, <1>6, <1>7, SpanItem
<1>9. y \in Items /\ SettledMsg(y.msg, delayedInbox, block)
  <2>1. n + new - old \in Int /\ latestChainTime \in Times
    BY <1>1, <1>3 DEF SequencingType
  <2> QED
    BY <1>3, <2>1, MessageItem
<1>10. db' = db \o <<x, y>> /\ otherDb' = Hears(otherDb, db, <<x, y>>)
  BY DEF DeliverDelayedMessages, DelayedItems
<1> HIDE DEF x, y
<1>11. Good(<<x, y>>, delayedInbox, block)
  BY <1>8, <1>9, GoodPair
<1> QED
  BY <1>10, <1>11, GoodConcat, HearsGood DEF CopiesSettled

-----------------------------------------------------------------------------
\* What holds of one item holds of it when its message is given a new time.
LEMMA RetimedItem ==
  ASSUME SequencingType, NEW x \in Items, SettledMsg(x.msg, delayedInbox, block),
         NEW y, y = IF x.msg.kind = "delayed" THEN x
                    ELSE [x EXCEPT !.msg.l1BlockNumber = NewestChainTime.block,
                                   !.msg.l1Timestamp = NewestChainTime.seconds]
  PROVE  y \in Items /\ SettledMsg(y.msg, delayedInbox, block)
<1>1. CASE x.msg.kind = "delayed"
  BY <1>1
<1>2. CASE x.msg.kind # "delayed"
  <2>1. x.msg \in UserMessage /\ x.total \in Nat /\ x = [msg |-> x.msg, total |-> x.total]
    BY <1>2 DEF Items, Span
  <2> PICK u : u = x.msg
    OBVIOUS
  <2> PICK b : b = NewestChainTime.block
    OBVIOUS
  <2> PICK t : t = NewestChainTime.seconds
    OBVIOUS
  <2>2. b \in Nat /\ t \in Nat
    <3>1. \A x1, x2 \in Nat : x1 * x2 \in Nat
      OBVIOUS
    <3>2. block - 1 \in Nat /\ BlockTime \in Nat
      BY Parameters DEF SequencingType
    <3>3. (block - 1) * BlockTime \in Nat
      BY <3>1, <3>2, Zenon
    <3> QED
      BY <3>2, <3>3 DEF NewestChainTime, Time
  <2> DEFINE v == [u EXCEPT !.l1BlockNumber = b, !.l1Timestamp = t]
  <2>3. v \in UserMessage
    BY <2>1, <2>2 DEF UserMessage
  <2>4. y = [msg |-> v, total |-> x.total]
    BY <1>2, <2>1
  <2>5. v.kind = "item"
    BY <2>3 DEF UserMessage
  <2> HIDE DEF v
  <2>6. y.msg = v
    <3>1. \A a, c : [msg |-> a, total |-> c].msg = a
      OBVIOUS
    <3> QED
      BY <2>4, <3>1, Zenon
  <2> QED
    BY <2>1, <2>3, <2>4, <2>5, <2>6 DEF Items, SettledMsg
<1> QED
  BY <1>1, <1>2

\* A reorg of the database to a new time drops no item and changes no delayed
\* one.
LEMMA RetimedGood ==
  ASSUME SequencingType, NEW s, Good(s, delayedInbox, block)
  PROVE  Good(Retimed(s), delayedInbox, block)
<1> PICK l : l = Len(s)
  OBVIOUS
<1> DEFINE New == Retimed(s)
<1>1. s \in Seq(Items) /\ l \in Nat /\ DOMAIN s = 1 .. l
  BY DEF Good
<1>2. ASSUME NEW i \in 1 .. l
      PROVE  New[i] \in Items /\ SettledMsg(New[i].msg, delayedInbox, block)
  <2>1. s[i] \in Items /\ SettledMsg(s[i].msg, delayedInbox, block)
    BY <1>1, ElementOfSeq DEF Good
  <2>2. New[i] = IF s[i].msg.kind = "delayed" THEN s[i]
                 ELSE [s[i] EXCEPT !.msg.l1BlockNumber = NewestChainTime.block,
                                   !.msg.l1Timestamp = NewestChainTime.seconds]
    BY <1>1, <1>2 DEF Retimed
  <2> HIDE DEF New
  <2> QED
    BY <2>1, <2>2, RetimedItem
<1>3. New \in Seq(Items) /\ Len(New) = l
  <2>1. New = [i \in 1 .. l |-> New[i]]
    BY <1>1 DEF Retimed
  <2> HIDE DEF New
  <2>2. New \in [1 .. l -> Items]
    BY <1>2, <2>1
  <2> QED
    BY <1>1, <2>2
<1> HIDE DEF New
<1>4. Good(New, delayedInbox, block)
  BY <1>2, <1>3 DEF Good
<1> QED
  BY <1>4 DEF New

\* The items before and from a count are parts of the database.
LEMMA SeekGood ==
  ASSUME CopiesSettled, NEW count
  PROVE  /\ Good(ItemsBefore(count), delayedInbox, block)
         /\ Good(ItemsFrom(count), delayedInbox, block)
<1> PICK k : k = SeekItem(count)
  OBVIOUS
<1>1. k \in 0 .. Len(db)
  BY CountType DEF SeekItem, CopiesSettled, Good
<1>2. Good(db, delayedInbox, block)
  BY DEF CopiesSettled
<1> QED
  BY <1>1, <1>2, GoodPart DEF ItemsBefore, ItemsFrom

-----------------------------------------------------------------------------
\* If what is settled stays settled, so do all copies.
LEMMA CopiesKept ==
  ASSUME CopiesSettled, UNCHANGED <<db, otherDb, l1Items, pool>>,
         mined'.items = mined.items \/ mined'.items = l1Items,
         \A n \in Nat : \A acc :
           Settled(n, acc, delayedInbox, block) => Settled(n, acc, delayedInbox', block')
  PROVE  CopiesSettled'
<1>1. ASSUME NEW s, Good(s, delayedInbox, block) PROVE Good(s, delayedInbox', block')
  BY <1>1, GoodKept
<1>2. /\ Good(db', delayedInbox', block') /\ Good(otherDb', delayedInbox', block')
      /\ Good(l1Items', delayedInbox', block') /\ Good(mined'.items, delayedInbox', block')
  BY <1>1 DEF CopiesSettled
<1>3. \A t \in pool' : Good(t.before, delayedInbox', block') /\ Good(t.items, delayedInbox', block')
  BY <1>1 DEF CopiesSettled
<1> QED
  BY <1>2, <1>3 DEF CopiesSettled

\* L1 moves on: a message is added to the inbox, or one is taken away that no
\* settled item reaches, for it is younger than the target delay.
LEMMA DeliverKeeps ==
  ASSUME BatcherInv, DeliverDelayed PROVE BatcherInv'
<1> DEFINE m == [l1BlockNumber |-> block, l1Timestamp |-> block * BlockTime]
<1>1. /\ delayedInbox \in Seq(L1!Message) /\ Len(delayedInbox) \in Nat
      /\ block \in Nat /\ BlockTime \in Nat
  BY Parameters DEF BatcherInv, SequencingType
<1>2. m \in L1!Message
  BY <1>1 DEF L1!Message
<1>3. /\ delayedInbox' = Append(delayedInbox, m)
      /\ UNCHANGED <<block, db, otherDb, l1Items, mined, pool, delayedDb, latestChainTime, step,
                    chainTime>>
  BY DEF DeliverDelayed, dbVars, loopVars, roundVars
<1>9. m.l1BlockNumber = block
  OBVIOUS
<1> HIDE DEF m
<1>4. /\ delayedInbox' \in Seq(L1!Message) /\ Len(delayedInbox') = Len(delayedInbox) + 1
      /\ \A i \in 1 .. Len(delayedInbox) : delayedInbox'[i] = delayedInbox[i]
      /\ delayedInbox'[Len(delayedInbox) + 1] = m
  BY <1>1, <1>2, <1>3
<1>5. SequencingType'
  BY <1>3, <1>4 DEF BatcherInv, SequencingType
<1>6. InboxOrdered'
  <2>1. ASSUME NEW i \in 1 .. Len(delayedInbox')
        PROVE  delayedInbox'[i].l1BlockNumber <= block
    BY <1>1, <1>4, <1>9, <2>1 DEF BatcherInv, InboxOrdered
  <2>2. ASSUME NEW i \in 1 .. Len(delayedInbox'), NEW j \in 1 .. Len(delayedInbox'), i <= j
        PROVE  delayedInbox'[i].l1BlockNumber <= delayedInbox'[j].l1BlockNumber
    <3>1. CASE j = Len(delayedInbox) + 1
      BY <1>4, <1>9, <2>1, <3>1
    <3>2. CASE j # Len(delayedInbox) + 1
      <4>1. i \in 1 .. Len(delayedInbox) /\ j \in 1 .. Len(delayedInbox)
        BY <1>1, <1>4, <2>2, <3>2
      <4> QED
        BY <1>4, <2>2, <4>1 DEF BatcherInv, InboxOrdered
    <3> QED
      BY <3>1, <3>2
  <2> QED
    BY <1>3, <2>1, <2>2 DEF InboxOrdered
<1>7. ASSUME NEW n \in Nat, NEW acc, Settled(n, acc, delayedInbox, block)
      PROVE  Settled(n, acc, delayedInbox', block')
  <2>1. n <= Len(delayedInbox) /\ n <= Len(delayedInbox')
    BY <1>1, <1>4, <1>7 DEF Settled
  <2>2. SubSeq(delayedInbox', 1, n) = SubSeq(delayedInbox, 1, n)
    BY <1>1, <1>4, <2>1
  <2>3. n > 0 => delayedInbox'[n] = delayedInbox[n]
    BY <1>1, <1>4, <2>1
  <2> QED
    BY <1>3, <1>7, <2>1, <2>2, <2>3 DEF Settled
<1> QED
  BY <1>3, <1>5, <1>6, <1>7, CopiesKept DEF BatcherInv

LEMMA ReorgKeeps ==
  ASSUME BatcherInv, ReorgDelayed PROVE BatcherInv'
<1> PICK l : l = Len(delayedInbox)
  OBVIOUS
<1>1. /\ delayedInbox \in Seq(L1!Message) /\ l \in Nat /\ block \in Nat
      /\ DelayedMessagesTargetDelay \in Nat /\ MaxL1Reorg \in Nat
      /\ MaxL1Reorg <= DelayedMessagesTargetDelay
  BY Parameters DEF BatcherInv, SequencingType
<1>2. UNCHANGED <<block, db, otherDb, l1Items, mined, pool, delayedDb, latestChainTime, step,
                    chainTime>>
  BY DEF ReorgDelayed, dbVars, loopVars, roundVars
<1>3. delayedInbox' = SubSeq(delayedInbox, 1, l - 1)
  BY DEF ReorgDelayed, Front
<1>4. CASE l = 0
  <2>1. delayedInbox = <<>>
    BY <1>1, <1>4, EmptySeq
  <2>2. l - 1 \in Int /\ l - 1 < 1
    BY <1>4
  <2>3. delayedInbox' = <<>>
    BY <1>3, <2>2, SubSeqEmpty
  <2>4. UNCHANGED delayedInbox
    BY <2>1, <2>3
  <2>5. SequencingType' /\ InboxOrdered'
    BY <1>2, <2>4 DEF BatcherInv, SequencingType, InboxOrdered
  <2>6. CopiesSettled'
    BY <1>2, <2>4 DEF BatcherInv, CopiesSettled
  <2> QED
    BY <2>5, <2>6 DEF BatcherInv
<1>5. CASE l > 0
  <2>1. delayedInbox[l].l1BlockNumber > block - 1 - MaxL1Reorg
    BY <1>5 DEF ReorgDelayed, Last
  <2>2. /\ delayedInbox' \in Seq(L1!Message) /\ Len(delayedInbox') = l - 1
        /\ \A i \in 1 .. l - 1 : delayedInbox'[i] = delayedInbox[i]
    BY <1>1, <1>3, <1>5
  <2>3. \A i \in 1 .. l : delayedInbox[i].l1BlockNumber \in Nat
    <3>1. \A i \in 1 .. l : delayedInbox[i] \in L1!Message
      BY <1>1, ElementOfSeq
    <3> QED
      BY <3>1 DEF L1!Message
  <2>4. SequencingType'
    BY <1>2, <2>2 DEF BatcherInv, SequencingType
  <2>5. InboxOrdered'
    <3>1. \A i \in 1 .. l - 1 : i \in 1 .. l
      BY <1>1
    <3> QED
      BY <1>2, <2>2, <3>1 DEF BatcherInv, InboxOrdered
  <2>6. ASSUME NEW n \in Nat, NEW acc, Settled(n, acc, delayedInbox, block)
      PROVE  Settled(n, acc, delayedInbox', block')
    <3>1. n # l
      <4> SUFFICES ASSUME n = l PROVE FALSE
        OBVIOUS
      <4>1. delayedInbox[l].l1BlockNumber + DelayedMessagesTargetDelay < block
        BY <1>5, <2>6 DEF Settled
      <4>2. delayedInbox[l].l1BlockNumber \in Nat
        BY <1>1, <1>5, <2>3
      <4> QED
        BY <1>1, <2>1, <4>1, <4>2
    <3>2. n <= l - 1 /\ l - 1 \in Nat
      BY <1>1, <1>5, <2>6, <3>1 DEF Settled
    <3>3. SubSeq(delayedInbox', 1, n) = SubSeq(delayedInbox, 1, n)
      BY <1>1, <2>2, <3>2
    <3>4. n > 0 => delayedInbox'[n] = delayedInbox[n]
      BY <1>1, <2>2, <3>2
    <3> QED
      BY <1>2, <2>2, <2>6, <3>2, <3>3, <3>4 DEF Settled
  <2> QED
    BY <1>2, <2>4, <2>5, <2>6, CopiesKept DEF BatcherInv
<1> QED
  BY <1>1, <1>4, <1>5

LEMMA MineKeeps ==
  ASSUME BatcherInv, MineBlock PROVE BatcherInv'
<1>1. /\ block' = block + 1 /\ block \in Nat
      /\ mined'.items = l1Items
      /\ UNCHANGED <<delayedInbox, db, otherDb, l1Items, pool, delayedDb, latestChainTime, step,
                     chainTime>>
  BY DEF MineBlock, dbVars, loopVars, roundVars, BatcherInv, SequencingType
<1>2. SequencingType'
  BY <1>1 DEF BatcherInv, SequencingType, Times
<1>3. \A i \in 1 .. Len(delayedInbox) : delayedInbox[i].l1BlockNumber \in Nat
  <2>1. \A i \in 1 .. Len(delayedInbox) : delayedInbox[i] \in L1!Message
    BY ElementOfSeq DEF BatcherInv, SequencingType
  <2> QED
    BY <2>1 DEF L1!Message
<1>4. InboxOrdered'
  BY <1>1, <1>3 DEF BatcherInv, InboxOrdered
<1>5. ASSUME NEW n \in Nat, NEW acc, Settled(n, acc, delayedInbox, block)
      PROVE  Settled(n, acc, delayedInbox', block')
  <2>1. n > 0 => n \in 1 .. Len(delayedInbox)
    BY <1>5 DEF Settled, BatcherInv, SequencingType
  <2> QED
    BY <1>1, <1>3, <1>5, <2>1, Parameters DEF Settled
<1> QED
  BY <1>1, <1>2, <1>4, <1>5, CopiesKept DEF BatcherInv

-----------------------------------------------------------------------------
\* The time of the newest mined block, by which everything is dated
LEMMA NewestTime ==
  ASSUME SequencingType
  PROVE  NewestChainTime \in Times /\ NewestChainTime.block < block
<1>1. block - 1 \in Nat /\ BlockTime \in Nat /\ block - 1 < block
  BY Parameters DEF SequencingType
<1>2. \A x, y \in Nat : x * y \in Nat
  OBVIOUS
<1>3. (block - 1) * BlockTime \in Nat
  BY <1>1, <1>2, Zenon
<1> QED
  BY <1>1, <1>3 DEF NewestChainTime, Time, Times

\* Every step of the batcher, of the other sequencer, of the readers and of L1
LEMMA BatcherStep == BatcherInv /\ [Next]_vars => BatcherInv'
<1> SUFFICES ASSUME BatcherInv, [Next]_vars PROVE BatcherInv'
  OBVIOUS
<1>1. SequencingType /\ InboxOrdered /\ CopiesSettled
  BY DEF BatcherInv
\* L1 stays as it is, and the items are good wherever they are
<1>2. ASSUME UNCHANGED <<block, delayedInbox, delayedDb, latestChainTime>>,
             step' # "wait" => step # "wait" /\ UNCHANGED chainTime,
             CopiesSettled'
      PROVE  BatcherInv'
  <2>1. SequencingType'
    BY <1>1, <1>2 DEF SequencingType
  <2>2. InboxOrdered'
    BY <1>1, <1>2 DEF InboxOrdered
  <2> QED
    BY <1>2, <2>1, <2>2 DEF BatcherInv
<1>3. ASSUME UNCHANGED <<block, delayedInbox, db, otherDb, l1Items, mined, pool>>
      PROVE  CopiesSettled'
  BY <1>1, <1>3 DEF CopiesSettled
\* something is written to the databases
<1>4. ASSUME UNCHANGED <<block, delayedInbox, l1Items, mined, pool>>,
             Good(db', delayedInbox, block), Good(otherDb', delayedInbox, block)
      PROVE  CopiesSettled'
  BY <1>1, <1>4 DEF CopiesSettled
<1>5. CASE SendTransaction
  <2> PICK new : new = UserItems(db, Self, latestChainTime)
    OBVIOUS
  <2>1. /\ UNCHANGED <<block, delayedInbox, l1Items, mined, pool, delayedDb, latestChainTime,
                       step, chainTime>>
        /\ db' = db \o new /\ otherDb' = Hears(otherDb, db, new)
    BY <1>5 DEF SendTransaction, l1Vars, loopVars, roundVars
  <2>2. Good(new, delayedInbox, block)
    BY <1>1, UserItemsGood DEF CopiesSettled, Good, SequencingType
  <2>3. Good(db', delayedInbox, block) /\ Good(otherDb', delayedInbox, block)
    BY <1>1, <2>1, <2>2, GoodConcat, HearsGood DEF CopiesSettled
  <2> QED
    BY <1>2, <1>4, <2>1, <2>3
<1>6. CASE OtherSequences
  <2> PICK new : new = UserItems(otherDb, Other, NewestChainTime)
    OBVIOUS
  <2>1. /\ UNCHANGED <<block, delayedInbox, l1Items, mined, pool, delayedDb, latestChainTime,
                       step, chainTime>>
        /\ otherDb' = otherDb \o new /\ db' = Hears(db, otherDb, new)
    BY <1>6 DEF OtherSequences, l1Vars, loopVars, roundVars
  <2>2. Good(new, delayedInbox, block)
    BY <1>1, NewestTime, UserItemsGood DEF CopiesSettled, Good
  <2>3. Good(db', delayedInbox, block) /\ Good(otherDb', delayedInbox, block)
    BY <1>1, <2>1, <2>2, GoodConcat, HearsGood DEF CopiesSettled
  <2> QED
    BY <1>2, <1>4, <2>1, <2>3
<1>7. CASE GainLockout
  <2>1. UNCHANGED <<block, delayedInbox, l1Items, mined, pool, delayedDb, latestChainTime,
                    step, chainTime>>
    BY <1>7 DEF GainLockout, l1Vars, loopVars, roundVars
  <2>2. CASE DeliverDelayedMessages(NewestChainTime)
    BY <1>1, <1>2, <1>4, <2>1, <2>2, NewestTime, DeliverDelayedKeeps
  <2>3. CASE UNCHANGED <<db, otherDb>>
    BY <1>2, <1>3, <2>1, <2>3
  <2> QED
    BY <1>7, <2>2, <2>3 DEF GainLockout
<1>8. CASE SequenceDelayed
  <2>1. /\ UNCHANGED <<block, delayedInbox, l1Items, mined, pool, delayedDb, latestChainTime,
                       chainTime>>
        /\ step = "delayed" /\ DeliverDelayedMessages(chainTime)
    BY <1>8 DEF SequenceDelayed, l1Vars, roundVars
  <2>2. chainTime \in Times /\ chainTime.block < block
    BY <1>1, <2>1 DEF SequencingType
  <2>3. Good(db', delayedInbox, block) /\ Good(otherDb', delayedInbox, block)
    BY <1>1, <2>1, <2>2, DeliverDelayedKeeps
  <2> QED
    BY <1>2, <1>4, <2>1, <2>3
<1>9. CASE PublishOutdated
  <2> PICK before : before = ItemsBefore(prevMsgCount)
    OBVIOUS
  <2> PICK new : new = Retimed(ItemsFrom(prevMsgCount))
    OBVIOUS
  <2>1. /\ UNCHANGED <<block, delayedInbox, otherDb, l1Items, mined, pool, delayedDb,
                       latestChainTime>>
        /\ step' = "wait"
        /\ db' = before \o new \/ UNCHANGED db
    BY <1>9 DEF PublishOutdated, EndRound, l1Vars
  <2>2. Good(before, delayedInbox, block) /\ Good(new, delayedInbox, block)
    BY <1>1, SeekGood, RetimedGood
  <2>3. Good(db', delayedInbox, block) /\ Good(otherDb', delayedInbox, block)
    BY <1>1, <2>1, <2>2, GoodConcat DEF CopiesSettled
  <2> QED
    BY <1>2, <1>4, <2>1, <2>3
<1>10. CASE ReadBatches \/ OtherReadsBatches
  <2>1. /\ UNCHANGED <<block, delayedInbox, l1Items, mined, pool, delayedDb, latestChainTime,
                       step, chainTime>>
        /\ db' = mined.items \/ UNCHANGED db
        /\ otherDb' = mined.items \/ UNCHANGED otherDb
    BY <1>10 DEF ReadBatches, OtherReadsBatches, l1Vars, loopVars, roundVars
  <2>2. Good(db', delayedInbox, block) /\ Good(otherDb', delayedInbox, block)
    BY <1>1, <2>1 DEF CopiesSettled
  <2> QED
    BY <1>2, <1>4, <2>1, <2>2
<1>11. CASE BeginRound
  <2>1. /\ UNCHANGED <<block, delayedInbox, delayedDb, db, otherDb, l1Items, mined, pool,
                       latestChainTime>>
        /\ chainTime' = NewestChainTime
    BY <1>11 DEF BeginRound, l1Vars, dbVars
  <2>2. SequencingType'
    BY <1>1, <2>1, NewestTime DEF SequencingType
  <2> QED
    BY <1>1, <1>3, <2>1, <2>2 DEF BatcherInv, InboxOrdered
<1>12. CASE UpdateChainTime
  <2>1. /\ UNCHANGED <<block, delayedInbox, delayedDb, db, otherDb, l1Items, mined, pool>>
        /\ step # "wait"
        /\ latestChainTime' = chainTime \/ UNCHANGED latestChainTime
        /\ UNCHANGED chainTime
    BY <1>12 DEF UpdateChainTime, EndRound, l1Vars, dbVars
  <2>2. SequencingType'
    BY <1>1, <2>1 DEF SequencingType
  <2> QED
    BY <1>1, <1>3, <2>1, <2>2 DEF BatcherInv, InboxOrdered
<1>13. CASE NothingDelayed \/ DelayedFails \/ PublishNothing \/ PublishRefused \/ LoseLockout
            \/ UNCHANGED vars
  <2>1. /\ UNCHANGED <<block, delayedInbox, delayedDb, db, otherDb, l1Items, mined, pool,
                       latestChainTime>>
        /\ step' # "wait" => step # "wait" /\ UNCHANGED chainTime
    BY <1>13 DEF NothingDelayed, DelayedFails, PublishNothing, PublishRefused, LoseLockout,
                EndRound, vars, l1Vars, dbVars, loopVars, roundVars
  <2> QED
    BY <1>2, <1>3, <2>1
<1>14. CASE PublishBatch
  <2> PICK before : before = ItemsBefore(prevMsgCount)
    OBVIOUS
  <2> PICK rest : rest = ItemsFrom(prevMsgCount)
    OBVIOUS
  <2>1. PICK n \in DOMAIN rest :
          pool' = {t \in pool : t.nonce # nextNonce} \cup {Batch(n, ToPublish.sections)}
    BY <1>14 DEF PublishBatch
  <2>2. /\ UNCHANGED <<block, delayedInbox, delayedDb, db, otherDb, l1Items, mined,
                       latestChainTime>>
        /\ step' # "wait" => UNCHANGED <<step, chainTime>>
    BY <1>14 DEF PublishBatch, EndRound, l1Vars, dbVars
  <2>3. Good(before, delayedInbox, block) /\ Good(rest, delayedInbox, block)
    BY <1>1, SeekGood
  <2>4. n \in 0 .. Len(rest)
    BY <2>3 DEF Good
  <2>5. Good(SubSeq(rest, 1, n), delayedInbox, block)
    BY <2>3, <2>4, GoodPart
  <2> PICK t : t = Batch(n, ToPublish.sections)
    OBVIOUS
  <2>6. t.before = before /\ t.items = SubSeq(rest, 1, n)
    BY DEF Batch
  <2>7. \A u \in pool' : u \in pool \/ u = t
    BY <2>1
  <2>8. CopiesSettled'
    BY <1>1, <2>2, <2>3, <2>5, <2>6, <2>7 DEF CopiesSettled
  <2> QED
    BY <1>2, <2>2, <2>8
<1>15. CASE LandBatch
  <2>1. PICK t \in pool :
          /\ l1Items' = t.before \o t.items \/ UNCHANGED l1Items
          /\ pool' = pool \ {t}
    BY <1>15 DEF LandBatch
  <2>2. UNCHANGED <<block, delayedInbox, delayedDb, db, otherDb, mined, latestChainTime, step,
                    chainTime>>
    BY <1>15 DEF LandBatch, dbVars, loopVars, roundVars
  <2>3. Good(l1Items', delayedInbox, block)
    BY <1>1, <2>1, GoodConcat DEF CopiesSettled
  <2>4. CopiesSettled'
    BY <1>1, <2>1, <2>2, <2>3 DEF CopiesSettled
  <2> QED
    BY <1>2, <2>2, <2>4
<1>16. CASE OtherPublishes
  <2>1. PICK n \in Len(l1Items) + 1 .. Len(otherDb) : l1Items' = SubSeq(otherDb, 1, n)
    BY <1>16 DEF OtherPublishes
  <2>2. UNCHANGED <<block, delayedInbox, delayedDb, db, otherDb, mined, pool, latestChainTime,
                    step, chainTime>>
    BY <1>16 DEF OtherPublishes, dbVars, loopVars, roundVars
  <2>3. n \in 0 .. Len(otherDb)
    BY <1>1 DEF CopiesSettled, Good
  <2>4. Good(l1Items', delayedInbox, block)
    BY <1>1, <2>1, <2>3, GoodPart DEF CopiesSettled
  <2>5. CopiesSettled'
    BY <1>1, <2>2, <2>4 DEF CopiesSettled
  <2> QED
    BY <1>2, <2>2, <2>5
<1>17. CASE ReadDelayed
  <2> PICK n : n = DelayedCount(delayedInbox, block - 1)
    OBVIOUS
  <2>1. /\ UNCHANGED <<block, delayedInbox, db, otherDb, l1Items, mined, pool, latestChainTime,
                       step, chainTime>>
        /\ delayedDb' = SubSeq(delayedInbox, 1, n)
    BY <1>17 DEF ReadDelayed, l1Vars, loopVars, roundVars
  <2>2. delayedInbox \in Seq(L1!Message)
    BY <1>1 DEF SequencingType
  <2>3. n \in 0 .. Len(delayedInbox)
    BY <2>2, CountType DEF DelayedCount
  <2>4. delayedDb' \in Seq(L1!Message)
    BY <2>1, <2>2, <2>3
  <2>5. SequencingType'
    BY <1>1, <2>1, <2>4 DEF SequencingType
  <2> QED
    BY <1>1, <1>3, <2>1, <2>5 DEF BatcherInv, InboxOrdered
<1> QED
  BY <1>5, <1>6, <1>7, <1>8, <1>9, <1>10, <1>11, <1>12, <1>13, <1>14, <1>15, <1>16, <1>17,
     MineKeeps, DeliverKeeps, ReorgKeeps DEF Next

LEMMA BatcherStart == Init => BatcherInv
<1> SUFFICES ASSUME Init PROVE BatcherInv
  OBVIOUS
<1> DEFINE m == [l1BlockNumber |-> 0, l1Timestamp |-> 0]
<1>1. m \in L1!Message /\ m.l1BlockNumber = 0
  BY DEF L1!Message
<1>2. /\ block = 1 /\ delayedInbox = <<m>> /\ delayedDb = <<>> /\ step = "wait"
      /\ db = <<>> /\ otherDb = <<>> /\ l1Items = <<>> /\ mined.items = <<>> /\ pool = {}
  BY DEF Init
<1>3. latestChainTime \in Times
  BY Parameters DEF Init, NewestChainTime, Time, Times
<1> HIDE DEF m
<1>4. SequencingType
  BY <1>1, <1>2, <1>3 DEF SequencingType
<1>5. InboxOrdered
  BY <1>1, <1>2 DEF InboxOrdered
<1>6. \A inbox, b : Good(<<>>, inbox, b)
  BY DEF Good
<1>7. CopiesSettled
  BY <1>2, <1>6 DEF CopiesSettled
<1> QED
  BY <1>4, <1>5, <1>7 DEF BatcherInv

\* A delayed message that has been sequenced stays in the L1 inbox as it was,
\* whatever the reader missed and L1 reorganized, retimed or not, and whichever
\* sequencer's batches are read back: what deliverDelayedMessages asks of L1 at
\* the target depth is enough.
THEOREM SequencedDelayedStays == Spec => []SequencedDelayedSettled
<1>1. BatcherInv => SequencedDelayedSettled
  <2> SUFFICES ASSUME BatcherInv PROVE SequencedDelayedSettled
    OBVIOUS
  <2>1. DOMAIN db = 1 .. Len(db)
    BY DEF BatcherInv, CopiesSettled, Good
  <2> QED
    BY <2>1 DEF BatcherInv, CopiesSettled, Good, SettledMsg, Settled, SequencedDelayedSettled
<1> QED
  BY <1>1, BatcherStart, BatcherStep, PTL DEF Spec
====
