------------------------- MODULE InboxReader_proofs --------------------------
(***************************************************************************)
(* Proofs about InboxReader, for any delays, windows, steps back, number   *)
(* of blocks, messages, items and faults: ArbCore accepts all that the     *)
(* reader delivers, and the reader knows where the database ends.          *)
(***************************************************************************)
EXTENDS InboxReader, SequenceTheorems, WellFoundedInduction, TLAPS

(***************************************************************************)
(* The inductive invariant.                                                *)
(***************************************************************************)
\* The blocks that no reorg takes back, and the delayed messages in them
SettledHeight == Max({FirstMessageBlock, Height - MaxReorg})
Settled == Delayed(SettledHeight)

\* The items sequence every delayed message once.
InOrder(items) ==
  /\ \A i \in DOMAIN items : items[i].tx = NoTx <=> items[i].delayedAcc # <<>>
  /\ \A i, j \in DOMAIN items :
       i < j /\ items[i].tx = NoTx /\ items[j].tx = NoTx
         => Len(items[i].delayedAcc) < Len(items[j].delayedAcc)

\* The items sequence nothing but delayed messages of the inbox.
Within(items, delayed) == \A i \in DOMAIN items : IsPrefix(items[i].delayedAcc, delayed)

\* The inboxes grow from block to block, a batch reads delayed messages that
\* are there, and the sequencer knows what was posted.
ChainInv ==
  /\ \A m, n \in 1 .. Height : m <= n =>
       /\ IsPrefix(chain[m].delayed, chain[n].delayed)
       /\ IsPrefix(chain[m].batches, chain[n].batches)
  /\ \A n \in 1 .. Height : Within(chain[n].batches, chain[n].delayed)
  /\ IsPrefix(chain[Height].batches, log)

\* The items of the feed, with all those before them
All(q) == q.prevAcc \o q.items
GoodQueue(q, settled) == q \in Queues /\ InOrder(All(q)) /\ Within(All(q), settled)

\* The broadcasts of earlier sequencers
GoodLogs(logs, settled) ==
  \A l \in logs : l \in Seq(Items) /\ l # <<>> /\ InOrder(l) /\ Within(l, settled)

\* What the sequencers have ever broadcast or posted reads settled messages.
ItemsInv ==
  /\ InOrder(log) /\ Within(log, Settled)
  /\ GoodLogs(late, Settled)
  /\ GoodQueue(sequencerFeedQueue, Settled)

\* The database has the delayed messages that its items read, and these are
\* settled; so is what the reader holds in its hands between its two calls.
CoreInv ==
  /\ InOrder(db) /\ Within(db, delayedDb)
  /\ IsPrefix(delayedDb, Settled)
  /\ currentHeight <= SettledHeight
  /\ pc = "batches" => to <= currentHeight /\ delayedMessages.acc = Delayed(to)
  /\ pc # "start" => lastAcc = db
  /\ ~coreError

ReaderInv == TypeOK /\ ChainInv /\ ItemsInv /\ CoreInv

(***************************************************************************)
(* Numbers and sequences.                                                  *)
(***************************************************************************)
\* Every set of numbers that is not empty has a least one.
LEMMA LeastOf ==
  ASSUME NEW S \in SUBSET Nat, S # {}
  PROVE  \E n \in S : \A m \in S : n <= m
<1>1. PICK n \in S : \A m \in S : ~(<<m, n>> \in OpToRel(<, Nat))
  BY NatLessThanWellFounded, WFMin
<1>2. n \in Nat /\ \A m \in S : m \in Nat /\ ~(m < n)
  BY <1>1 DEF OpToRel
<1> QED
  BY <1>2

\* Min is the least element.
LEMMA MinOf ==
  ASSUME NEW S \in SUBSET Nat, S # {}
  PROVE  Min(S) \in S /\ \A m \in S : Min(S) <= m
BY LeastOf DEF Min

\* Max is the greatest element of a set with a bound.
LEMMA MaxOf ==
  ASSUME NEW bound \in Nat, NEW S \in SUBSET (0 .. bound), S # {}
  PROVE  Max(S) \in S /\ \A m \in S : m <= Max(S)
<1> DEFINE T == {bound - x : x \in S}
<1>1. T \in SUBSET Nat /\ T # {}
  <2>1. \A x \in S : bound - x \in Nat
    OBVIOUS
  <2>2. PICK x : x \in S
    OBVIOUS
  <2>3. bound - x \in T
    BY <2>2
  <2> QED
    BY <2>1, <2>3
<1>2. PICK t \in T : \A u \in T : t <= u
  BY <1>1, LeastOf
<1>3. PICK x \in S : t = bound - x
  BY <1>2
<1>4. \A y \in S : x >= y
  BY <1>2, <1>3
<1>5. \E z \in S : \A y \in S : z >= y
  BY <1>4
<1>6. Max(S) \in S /\ \A y \in S : Max(S) >= y
  BY <1>5 DEF Max
<1> QED
  BY <1>6

\* The greater of two numbers
LEMMA MaxOfTwo ==
  ASSUME NEW a \in Int, NEW b \in Int
  PROVE  Max({a, b}) = IF a >= b THEN a ELSE b
<1>1. \E z \in {a, b} : \A y \in {a, b} : z >= y
  OBVIOUS
<1>2. Max({a, b}) \in {a, b} /\ \A y \in {a, b} : Max({a, b}) >= y
  BY <1>1 DEF Max
<1> QED
  BY <1>2

\* The lesser of two numbers
LEMMA MinOfTwo ==
  ASSUME NEW a \in Int, NEW b \in Int
  PROVE  Min({a, b}) = IF a <= b THEN a ELSE b
<1>1. \E z \in {a, b} : \A y \in {a, b} : z <= y
  OBVIOUS
<1>2. Min({a, b}) \in {a, b} /\ \A y \in {a, b} : Min({a, b}) <= y
  BY <1>1 DEF Min
<1> QED
  BY <1>2

\* The beginning of a sequence
LEMMA Beginning ==
  ASSUME NEW S, NEW s \in Seq(S), NEW n \in 0 .. Len(s)
  PROVE  /\ SubSeq(s, 1, n) \in Seq(S)
         /\ Len(s) \in Nat /\ Len(SubSeq(s, 1, n)) = n
         /\ \A i \in 1 .. n : SubSeq(s, 1, n)[i] = s[i]
<1>1. Len(s) \in Nat /\ s \in [1 .. Len(s) -> S]
  BY LenProperties
<1>2. 1 <= 1 /\ n <= Len(s)
  BY <1>1
<1>3. \A i \in 1 .. n : s[i] \in S
  BY <1>1
<1>4. SubSeq(s, 1, n) = [i \in 1 .. n |-> s[i]]
  BY <1>1, SubSeqProperties
<1> QED
  BY <1>1, <1>3, <1>4

\* A prefix, element by element
LEMMA PrefixIs ==
  ASSUME NEW S, NEW s \in Seq(S), NEW t \in Seq(S)
  PROVE  IsPrefix(s, t) <=> /\ Len(s) <= Len(t)
                            /\ \A i \in 1 .. Len(s) : s[i] = t[i]
<1>1. Len(s) \in Nat /\ Len(t) \in Nat
  BY LenProperties
<1>2. CASE ~(Len(s) <= Len(t))
  BY <1>2 DEF IsPrefix
<1>3. CASE Len(s) <= Len(t)
  <2> PICK n \in Nat : n = Len(s)
    BY <1>1
  <2> DEFINE a == SubSeq(s, 1, n)
             b == SubSeq(t, 1, n)
  <2>1. /\ a \in Seq(S) /\ b \in Seq(S) /\ Len(a) = n /\ Len(b) = n
        /\ \A i \in 1 .. n : a[i] = s[i] /\ b[i] = t[i]
    <3>1. n \in 0 .. Len(s) /\ n \in 0 .. Len(t)
      BY <1>1, <1>3
    <3> QED
      BY <3>1, Beginning
  <2> HIDE DEF a, b
  <2>2. a = b <=> \A i \in 1 .. n : a[i] = b[i]
    BY <2>1, SeqEqual
  <2>3. IsPrefix(s, t) <=> a = b
    BY <1>3 DEF IsPrefix, a, b
  <2> QED
    BY <1>3, <2>1, <2>2, <2>3
<1> QED
  BY <1>2, <1>3

\* An element of a prefix
LEMMA PrefixElement ==
  ASSUME NEW S, NEW s \in Seq(S), NEW t \in Seq(S), IsPrefix(s, t), NEW i \in 1 .. Len(s)
  PROVE  s[i] = t[i]
BY PrefixIs

\* Prefixes are ordered.
LEMMA PrefixOrder ==
  ASSUME NEW S, NEW s \in Seq(S), NEW t \in Seq(S), NEW u \in Seq(S)
  PROVE  /\ IsPrefix(s, s) /\ IsPrefix(<<>>, s)
         /\ IsPrefix(s, t) /\ IsPrefix(t, u) => IsPrefix(s, u)
         /\ IsPrefix(s, u) /\ IsPrefix(t, u) /\ Len(s) <= Len(t) => IsPrefix(s, t)
         /\ IsPrefix(s, t) => Len(s) <= Len(t)
         /\ IsPrefix(s, t) /\ Len(t) <= Len(s) => s = t
         /\ IsPrefix(s, <<>>) => s = <<>>
<1>1. Len(s) \in Nat /\ Len(t) \in Nat /\ Len(u) \in Nat /\ <<>> \in Seq(S) /\ Len(<<>>) = 0
  BY LenProperties
<1>2. IsPrefix(s, s) /\ IsPrefix(<<>>, s)
  <2>1. Len(s) <= Len(s) /\ \A i \in 1 .. Len(s) : s[i] = s[i]
    BY <1>1
  <2>2. Len(<<>>) <= Len(s) /\ \A i \in 1 .. Len(<<>>) : <<>>[i] = s[i]
    BY <1>1
  <2>3. IsPrefix(s, s)
    BY <2>1, PrefixIs
  <2>4. IsPrefix(<<>>, s)
    BY <1>1, <2>2, PrefixIs
  <2> QED
    BY <2>3, <2>4
<1>3. ASSUME IsPrefix(s, t), IsPrefix(t, u)
      PROVE  IsPrefix(s, u)
  <2>1. Len(s) <= Len(t) /\ \A i \in 1 .. Len(s) : s[i] = t[i]
    BY <1>3, PrefixIs
  <2>2. Len(t) <= Len(u) /\ \A i \in 1 .. Len(t) : t[i] = u[i]
    BY <1>3, PrefixIs
  <2>3. Len(s) <= Len(u) /\ \A i \in 1 .. Len(s) : s[i] = u[i]
    BY <1>1, <2>1, <2>2
  <2> QED
    BY <2>3, PrefixIs
<1>4. ASSUME IsPrefix(s, u), IsPrefix(t, u), Len(s) <= Len(t)
      PROVE  IsPrefix(s, t)
  <2>1. \A i \in 1 .. Len(s) : s[i] = u[i]
    BY <1>4, PrefixIs
  <2>2. \A i \in 1 .. Len(t) : t[i] = u[i]
    BY <1>4, PrefixIs
  <2>3. \A i \in 1 .. Len(s) : s[i] = t[i]
    BY <1>1, <1>4, <2>1, <2>2
  <2> QED
    BY <1>4, <2>3, PrefixIs
<1>5. IsPrefix(s, t) => Len(s) <= Len(t)
  BY DEF IsPrefix
<1>6. ASSUME IsPrefix(s, t), Len(t) <= Len(s)
      PROVE  s = t
  <2>1. Len(s) = Len(t) /\ \A i \in 1 .. Len(s) : s[i] = t[i]
    BY <1>1, <1>6, PrefixIs
  <2> QED
    BY <2>1, SeqEqual
<1>7. ASSUME IsPrefix(s, <<>>)
      PROVE  s = <<>>
  <2>1. Len(s) <= Len(<<>>)
    BY <1>7 DEF IsPrefix
  <2> QED
    BY <1>1, <2>1, EmptySeq
<1> QED
  BY <1>2, <1>3, <1>4, <1>5, <1>6, <1>7

\* A sequence is a prefix of itself.
LEMMA PrefixSelf ==
  ASSUME NEW S, NEW s \in Seq(S)
  PROVE  IsPrefix(s, s)
BY PrefixOrder

\* A prefix of a prefix is a prefix.
LEMMA PrefixTrans ==
  ASSUME NEW S, NEW s \in Seq(S), NEW t \in Seq(S), NEW u \in Seq(S),
         IsPrefix(s, t), IsPrefix(t, u)
  PROVE  IsPrefix(s, u)
BY PrefixOrder

\* Of two prefixes of a sequence the shorter is a prefix of the longer.
LEMMA PrefixShorter ==
  ASSUME NEW S, NEW s \in Seq(S), NEW t \in Seq(S), NEW u \in Seq(S),
         IsPrefix(s, u), IsPrefix(t, u), Len(s) <= Len(t)
  PROVE  IsPrefix(s, t)
BY PrefixOrder

\* A sequence continues its beginning.
LEMMA BeginningIsPrefix ==
  ASSUME NEW S, NEW s \in Seq(S), NEW n \in 0 .. Len(s)
  PROVE  IsPrefix(SubSeq(s, 1, n), s)
<1> PICK b \in Seq(S) : b = SubSeq(s, 1, n)
  BY Beginning
<1>1. Len(b) = n /\ Len(s) \in Nat /\ \A i \in 1 .. n : b[i] = s[i]
  BY Beginning
<1>2. Len(b) <= Len(s) /\ \A i \in 1 .. Len(b) : b[i] = s[i]
  BY <1>1
<1>3. IsPrefix(b, s)
  BY <1>2, PrefixIs
<1> QED
  BY <1>3

\* A prefix is a beginning.
LEMMA PrefixIsBeginning ==
  ASSUME NEW S, NEW s \in Seq(S), NEW t \in Seq(S), IsPrefix(s, t)
  PROVE  Len(s) \in 0 .. Len(t) /\ s = SubSeq(t, 1, Len(s))
<1>1. Len(s) \in Nat /\ Len(t) \in Nat /\ Len(s) <= Len(t)
  BY LenProperties DEF IsPrefix
<1>2. Len(s) \in 0 .. Len(t)
  BY <1>1
<1> PICK b \in Seq(S) : b = SubSeq(t, 1, Len(s))
  BY <1>2, Beginning
<1>3. Len(b) = Len(s) /\ IsPrefix(b, t)
  BY <1>2, Beginning, BeginningIsPrefix
<1>4. \A i \in 1 .. Len(s) : s[i] = t[i]
  BY PrefixIs
<1>5. \A i \in 1 .. Len(b) : b[i] = t[i]
  BY <1>3, PrefixIs
<1>6. s = b
  <2>1. \A i \in 1 .. Len(s) : s[i] = b[i]
    BY <1>3, <1>4, <1>5
  <2> QED
    BY <1>3, <2>1, SeqEqual
<1> QED
  BY <1>2, <1>6

\* A sequence cut in two
LEMMA CutInTwo ==
  ASSUME NEW S, NEW s \in Seq(S), NEW n \in 0 .. Len(s)
  PROVE  /\ SubSeq(s, n + 1, Len(s)) \in Seq(S)
         /\ SubSeq(s, 1, n) \o SubSeq(s, n + 1, Len(s)) = s
         /\ SubSeq(s, n + 1, Len(s)) = <<>> <=> n = Len(s)
<1>1. Len(s) \in Nat /\ n \in Nat /\ n <= Len(s) /\ s \in [1 .. Len(s) -> S]
  BY LenProperties
<1> DEFINE a == SubSeq(s, 1, n)
           b == SubSeq(s, n + 1, Len(s))
<1>2. a \in Seq(S) /\ Len(a) = n /\ \A i \in 1 .. n : a[i] = s[i]
  BY Beginning
<1>3. /\ b \in Seq(S) /\ Len(b) = Len(s) - n
      /\ \A i \in 1 .. Len(s) - n : b[i] = s[n + i]
  <2>1. \A i \in n + 1 .. Len(s) : s[i] \in S
    BY <1>1
  <2>2. n + 1 \in Int /\ Len(s) \in Int
    BY <1>1
  <2>3. /\ b \in Seq(S)
        /\ Len(b) = IF n + 1 <= Len(s) THEN Len(s) - (n + 1) + 1 ELSE 0
        /\ \A i \in 1 .. Len(s) - (n + 1) + 1 : b[i] = s[(n + 1) + i - 1]
    BY <2>1, <2>2, SubSeqProperties
  <2>4. Len(b) = Len(s) - n
    <3> PICK l \in Nat : l = Len(s)
      BY <1>1
    <3>1. Len(b) = IF n + 1 <= l THEN l - (n + 1) + 1 ELSE 0
      BY <2>3
    <3>2. n \in Nat /\ n <= l
      BY <1>1
    <3> QED
      BY <3>1, <3>2
  <2>5. \A i \in 1 .. Len(s) - n : i \in 1 .. Len(s) - (n + 1) + 1 /\ (n + 1) + i - 1 = n + i
    BY <1>1
  <2> QED
    BY <2>3, <2>4, <2>5
<1> HIDE DEF a, b
<1>4. /\ a \o b \in Seq(S) /\ Len(a \o b) = Len(s)
      /\ \A i \in 1 .. Len(s) : (a \o b)[i] = IF i <= n THEN a[i] ELSE b[i - n]
  <2>1. /\ a \o b \in Seq(S) /\ Len(a \o b) = Len(a) + Len(b)
        /\ \A i \in 1 .. Len(a) + Len(b) :
             (a \o b)[i] = IF i <= Len(a) THEN a[i] ELSE b[i - Len(a)]
    BY <1>2, <1>3, ConcatProperties
  <2>2. Len(a) + Len(b) = Len(s)
    BY <1>1, <1>2, <1>3
  <2> QED
    BY <1>2, <2>1, <2>2
<1>5. \A i \in 1 .. Len(s) : (a \o b)[i] = s[i]
  <2> TAKE i \in 1 .. Len(s)
  <2>1. CASE i <= n
    BY <1>1, <1>2, <1>4, <2>1
  <2>2. CASE ~(i <= n)
    <3>1. i - n \in 1 .. Len(s) - n /\ n + (i - n) = i
      BY <1>1, <2>2
    <3> QED
      BY <1>3, <1>4, <2>2, <3>1
  <2> QED
    BY <2>1, <2>2
<1>6. a \o b = s
  BY <1>4, <1>5, SeqEqual
<1>7. b = <<>> <=> n = Len(s)
  <2>1. b = <<>> <=> Len(b) = 0
    BY <1>3, EmptySeq
  <2>2. Len(b) = 0 <=> n = Len(s)
    <3> PICK l \in Nat : l = Len(s)
      BY <1>1
    <3>1. Len(b) = l - n /\ n \in Nat
      BY <1>1, <1>3
    <3> QED
      BY <3>1
  <2> QED
    BY <2>1, <2>2
<1> QED
  BY <1>3, <1>6, <1>7 DEF a, b

\* A sequence is the beginning of what continues it.
LEMMA ContinuedIsPrefix ==
  ASSUME NEW S, NEW s \in Seq(S), NEW t \in Seq(S)
  PROVE  /\ s \o t \in Seq(S) /\ IsPrefix(s, s \o t) /\ Len(s \o t) = Len(s) + Len(t)
         /\ t # <<>> => Len(s) < Len(s \o t)
<1>1. Len(s) \in Nat /\ Len(t) \in Nat
  BY LenProperties
<1>2. /\ s \o t \in Seq(S) /\ Len(s \o t) = Len(s) + Len(t)
      /\ \A i \in 1 .. Len(s) + Len(t) : (s \o t)[i] = IF i <= Len(s) THEN s[i] ELSE t[i - Len(s)]
  BY ConcatProperties
<1>3. Len(s) <= Len(s \o t) /\ \A i \in 1 .. Len(s) : s[i] = (s \o t)[i]
  BY <1>1, <1>2
<1>4. IsPrefix(s, s \o t)
  BY <1>2, <1>3, PrefixIs
<1>5. t # <<>> => Len(t) # 0
  BY EmptySeq
<1> QED
  BY <1>1, <1>2, <1>4, <1>5

(***************************************************************************)
(* What ArbCore accepts.                                                   *)
(***************************************************************************)
\* Agree is the length of the longest common beginning.
LEMMA AgreeIs ==
  ASSUME NEW S, NEW s \in Seq(S), NEW t \in Seq(S)
  PROVE  /\ Agree(s, t) \in 0 .. Len(s) /\ Agree(s, t) \in 0 .. Len(t)
         /\ SubSeq(s, 1, Agree(s, t)) = SubSeq(t, 1, Agree(s, t))
         /\ \A u \in Seq(S) : IsPrefix(u, s) /\ IsPrefix(u, t) => Len(u) <= Agree(s, t)
<1>1. Len(s) \in Nat /\ Len(t) \in Nat
  BY LenProperties
<1> PICK m : m = Min({Len(s), Len(t)})
  OBVIOUS
<1>2. m \in Nat /\ m <= Len(s) /\ m <= Len(t) /\ (m = Len(s) \/ m = Len(t))
  BY <1>1, MinOfTwo
<1> DEFINE N == {n \in 0 .. m : SubSeq(s, 1, n) = SubSeq(t, 1, n)}
<1>3. N \in SUBSET (0 .. m)
  OBVIOUS
<1>4. \A u \in Seq(S) : IsPrefix(u, s) /\ IsPrefix(u, t) => Len(u) \in N
  <2> SUFFICES ASSUME NEW u \in Seq(S), IsPrefix(u, s), IsPrefix(u, t)
               PROVE  Len(u) \in N
    OBVIOUS
  <2>1. Len(u) \in 0 .. Len(s) /\ u = SubSeq(s, 1, Len(u))
    BY PrefixIsBeginning
  <2>2. Len(u) \in 0 .. Len(t) /\ u = SubSeq(t, 1, Len(u))
    BY PrefixIsBeginning
  <2>3. Len(u) \in 0 .. m
    BY <1>1, <1>2, <2>1, <2>2
  <2> QED
    BY <2>1, <2>2, <2>3
<1>5. N # {}
  <2>1. <<>> \in Seq(S) /\ IsPrefix(<<>>, s) /\ IsPrefix(<<>>, t)
    BY PrefixOrder, EmptySeq
  <2> QED
    BY <1>4, <2>1
<1>6. Agree(s, t) = Max(N)
  BY DEF Agree
<1>7. Max(N) \in N /\ \A n \in N : n <= Max(N)
  <2> HIDE DEF N
  <2> QED
    BY <1>2, <1>3, <1>5, MaxOf
<1>8. Max(N) \in 0 .. m /\ SubSeq(s, 1, Max(N)) = SubSeq(t, 1, Max(N))
  BY <1>7
<1> HIDE DEF N
<1>9. Max(N) \in 0 .. Len(s) /\ Max(N) \in 0 .. Len(t)
  BY <1>1, <1>2, <1>8
<1> QED
  BY <1>4, <1>6, <1>7, <1>8, <1>9

\* New items replace the ones that differ: what the database keeps and what
\* is new are the new items.
LEMMA KeptIs ==
  ASSUME db \in Seq(Items), NEW new \in Seq(Items), NEW kept, kept = KeptItems(new)
  PROVE  /\ kept \in Seq(Items) /\ IsPrefix(kept, db)
         /\ ~IsPrefix(new, db) =>
              /\ IsPrefix(kept, new)
              /\ kept \o SubSeq(new, Len(kept) + 1, Len(new)) = new
         /\ \A u \in Seq(Items) : IsPrefix(u, new) /\ IsPrefix(u, db) => Len(u) <= Len(kept)
<1>1. CASE IsPrefix(new, db)
  <2>1. kept = db
    BY <1>1 DEF KeptItems
  <2> QED
    BY <1>1, <2>1, PrefixOrder
<1>2. CASE ~IsPrefix(new, db)
  <2> PICK n : n = Agree(new, db)
    OBVIOUS
  <2>1. /\ n \in 0 .. Len(new) /\ n \in 0 .. Len(db)
        /\ SubSeq(new, 1, n) = SubSeq(db, 1, n)
        /\ \A u \in Seq(Items) : IsPrefix(u, new) /\ IsPrefix(u, db) => Len(u) <= n
    BY AgreeIs
  <2>2. kept = SubSeq(db, 1, n) /\ kept = SubSeq(new, 1, n)
    BY <1>2, <2>1 DEF KeptItems
  <2>3. kept \in Seq(Items) /\ IsPrefix(kept, db) /\ IsPrefix(kept, new) /\ Len(kept) = n
    <3>1. SubSeq(db, 1, n) \in Seq(Items) /\ Len(SubSeq(db, 1, n)) = n
      BY <2>1, Beginning
    <3>2. IsPrefix(SubSeq(db, 1, n), db)
      BY <2>1, BeginningIsPrefix
    <3>3. IsPrefix(SubSeq(new, 1, n), new)
      BY <2>1, BeginningIsPrefix
    <3> QED
      BY <2>2, <3>1, <3>2, <3>3
  <2>4. kept \o SubSeq(new, n + 1, Len(new)) = new
    BY <2>1, <2>2, CutInTwo
  <2> QED
    BY <2>1, <2>3, <2>4
<1> QED
  BY <1>1, <1>2

\* What the items say is the number of delayed messages is that of the last
\* item that sequences some, which is the greatest.
LEMMA TotalIs ==
  ASSUME NEW items \in Seq(Items), InOrder(items)
  PROVE  /\ TotalDelayedSequenced(items) \in Nat
         /\ \A i \in DOMAIN items : Len(items[i].delayedAcc) <= TotalDelayedSequenced(items)
         /\ \/ TotalDelayedSequenced(items) = 0
            \/ \E i \in DOMAIN items : /\ items[i].tx = NoTx
                                       /\ TotalDelayedSequenced(items) = Len(items[i].delayedAcc)
<1> DEFINE I == {i \in DOMAIN items : items[i].tx = NoTx}
<1>1. Len(items) \in Nat /\ DOMAIN items = 1 .. Len(items)
  BY LenProperties
<1>2. \A i \in DOMAIN items : items[i].delayedAcc \in Seq(Messages)
  <2> TAKE i \in DOMAIN items
  <2>1. items[i] \in Items
    BY ElementOfSeq, <1>1
  <2> QED
    BY <2>1 DEF Items
<1>3. \A i \in DOMAIN items : Len(items[i].delayedAcc) \in Nat
  BY <1>2, LenProperties
<1>4. \A i \in DOMAIN items : items[i].tx # NoTx => Len(items[i].delayedAcc) = 0
  <2>1. \A i \in DOMAIN items : items[i].tx # NoTx => items[i].delayedAcc = <<>>
    BY DEF InOrder
  <2> QED
    BY <2>1, EmptySeq
<1>5. CASE I = {}
  <2>1. TotalDelayedSequenced(items) = 0
    BY <1>5 DEF TotalDelayedSequenced
  <2>2. \A i \in DOMAIN items : items[i].tx # NoTx
    BY <1>5
  <2> QED
    BY <1>4, <2>1, <2>2
<1>6. CASE I # {}
  <2>1. TotalDelayedSequenced(items) = Len(items[Max(I)].delayedAcc)
    BY <1>6 DEF TotalDelayedSequenced
  <2>2. Max(I) \in I /\ \A i \in I : i <= Max(I)
    <3>1. I \in SUBSET (0 .. Len(items))
      BY <1>1
    <3> HIDE DEF I
    <3> QED
      BY <1>1, <1>6, <3>1, MaxOf
  <2> PICK k : k = Max(I)
    OBVIOUS
  <2>3. k \in DOMAIN items /\ items[k].tx = NoTx /\ k \in Nat
    BY <1>1, <2>2
  <2>4. ASSUME NEW i \in DOMAIN items
        PROVE  Len(items[i].delayedAcc) <= Len(items[k].delayedAcc)
    <3>1. CASE items[i].tx # NoTx
      BY <1>3, <1>4, <2>3, <3>1
    <3>2. CASE items[i].tx = NoTx
      <4>1. i \in I /\ i \in Nat
        BY <1>1, <3>2
      <4>2. i <= k
        BY <2>2, <4>1
      <4>3. i = k \/ i < k
        BY <2>3, <4>1, <4>2
      <4>4. i < k => Len(items[i].delayedAcc) < Len(items[k].delayedAcc)
        BY <2>3, <3>2 DEF InOrder
      <4> QED
        BY <1>3, <2>3, <4>3, <4>4
    <3> QED
      BY <3>1, <3>2
  <2> QED
    BY <1>3, <2>1, <2>3, <2>4
<1> QED
  BY <1>5, <1>6

\* The beginning of items in order is in order, and what it reads is read.
LEMMA BeginningInOrder ==
  ASSUME NEW s \in Seq(Items), NEW t \in Seq(Items), IsPrefix(s, t)
  PROVE  /\ InOrder(t) => InOrder(s)
         /\ \A delayed \in Seq(Messages) : Within(t, delayed) => Within(s, delayed)
<1>1. /\ Len(s) \in Nat /\ Len(t) \in Nat /\ Len(s) <= Len(t)
      /\ DOMAIN s = 1 .. Len(s) /\ DOMAIN t = 1 .. Len(t)
  BY LenProperties DEF IsPrefix
<1>2. \A i \in DOMAIN s : i \in DOMAIN t /\ s[i] = t[i]
  BY <1>1, PrefixIs
<1>3. InOrder(t) => InOrder(s)
  BY <1>2 DEF InOrder
<1> QED
  BY <1>2, <1>3 DEF Within

\* Of two settled lists of delayed messages the shorter is the beginning of
\* the longer: the longer stays.
LEMMA NewDelayedIs ==
  ASSUME delayedDb \in Seq(Messages), NEW acc \in Seq(Messages), NEW settled \in Seq(Messages),
         IsPrefix(delayedDb, settled), IsPrefix(acc, settled)
  PROVE  /\ NewDelayed(acc) \in Seq(Messages)
         /\ IsPrefix(delayedDb, NewDelayed(acc)) /\ IsPrefix(acc, NewDelayed(acc))
         /\ IsPrefix(NewDelayed(acc), settled)
         /\ ~IsPrefix(acc, delayedDb) => IsPrefix(delayedDb, acc)
<1>1. Len(delayedDb) \in Nat /\ Len(acc) \in Nat
  BY LenProperties
<1>2. IsPrefix(acc, delayedDb) \/ IsPrefix(delayedDb, acc)
  BY <1>1, PrefixOrder
<1>3. IsPrefix(delayedDb, delayedDb) /\ IsPrefix(acc, acc)
  BY PrefixOrder
<1> QED
  BY <1>2, <1>3 DEF NewDelayed

\* The delayed messages of the new items, where the database reads on
LEMMA ItemsAccepted ==
  ASSUME NEW new \in Seq(Items), NEW kept \in Seq(Items), NEW delayed \in Seq(Messages),
         InOrder(new),
         \A i \in Len(kept) + 1 .. Len(new) : IsPrefix(new[i].delayedAcc, delayed)
  PROVE  ItemsFit(delayed, new, kept)
<1>1. Len(new) \in Nat /\ Len(kept) \in Nat /\ DOMAIN new = 1 .. Len(new)
  BY LenProperties
<1> SUFFICES ASSUME NEW i \in Len(kept) + 1 .. Len(new), new[i].tx = NoTx
             PROVE  Len(new[i].delayedAcc) > TotalDelayedSequenced(SubSeq(new, 1, i - 1))
  BY DEF ItemsFit
<1>2. i \in Nat /\ i - 1 \in 0 .. Len(new) /\ i \in DOMAIN new
  BY <1>1
<1> PICK s \in Seq(Items) : s = SubSeq(new, 1, i - 1)
  BY <1>2, Beginning
<1>3. IsPrefix(s, new) /\ Len(s) = i - 1
  BY <1>2, Beginning, BeginningIsPrefix
<1>4. InOrder(s)
  BY <1>3, BeginningInOrder
<1> PICK total \in Nat : total = TotalDelayedSequenced(s)
  BY <1>4, TotalIs
<1>5. \/ total = 0
      \/ \E j \in DOMAIN s : s[j].tx = NoTx /\ total = Len(s[j].delayedAcc)
  BY <1>4, TotalIs
<1>6. new[i].delayedAcc \in Seq(Messages) /\ new[i].delayedAcc # <<>>
  <2>1. new[i] \in Items
    BY <1>1, <1>2, ElementOfSeq
  <2> QED
    BY <1>2, <2>1 DEF Items, InOrder
<1>7. Len(new[i].delayedAcc) \in Nat \ {0}
  BY <1>6, EmptySeq
<1>8. ASSUME NEW j \in DOMAIN s, s[j].tx = NoTx, total = Len(s[j].delayedAcc)
      PROVE  total < Len(new[i].delayedAcc)
  <2>1. j \in 1 .. i - 1
    BY <1>3, LenProperties
  <2>2. j \in DOMAIN new /\ j < i /\ s[j] = new[j]
    BY <1>1, <1>2, <1>3, <2>1, PrefixIs
  <2>3. new[j].tx = NoTx /\ total = Len(new[j].delayedAcc)
    BY <1>8, <2>2
  <2> QED
    BY <1>2, <2>2, <2>3 DEF InOrder
<1>9. total < Len(new[i].delayedAcc)
  BY <1>5, <1>7, <1>8
<1> QED
  BY <1>7, <1>9

\* A delivery that ArbCore accepts: the lists of delayed messages are both
\* settled, and what the items read is there.
Deliverable(prevAcc, items, acc, first, settled) ==
  /\ prevAcc \in Seq(Items) /\ items \in Seq(Items)
  /\ acc \in Seq(Messages) /\ first \in Nat \ {0}
  /\ settled \in Seq(Messages)
  /\ IsPrefix(delayedDb, settled) /\ IsPrefix(acc, settled)
  /\ Len(acc) >= first => IsPrefix(SubSeq(acc, 1, first - 1), delayedDb)
  /\ items # <<>> =>
       /\ IsPrefix(prevAcc, db) /\ ~IsPrefix(prevAcc \o items, db)
       /\ InOrder(prevAcc \o items)
       /\ \A i \in Len(prevAcc) + 1 .. Len(prevAcc \o items) :
            IsPrefix((prevAcc \o items)[i].delayedAcc, NewDelayed(acc))

\* ArbCore accepts it.
LEMMA Accepts ==
  ASSUME db \in Seq(Items), delayedDb \in Seq(Messages), InOrder(db), Within(db, delayedDb),
         NEW prevAcc, NEW items, NEW acc, NEW first, NEW settled,
         Deliverable(prevAcc, items, acc, first, settled)
  PROVE  Acceptable(prevAcc, items, acc, first)
<1>1. /\ prevAcc \in Seq(Items) /\ items \in Seq(Items)
      /\ acc \in Seq(Messages) /\ first \in Nat \ {0} /\ settled \in Seq(Messages)
      /\ IsPrefix(delayedDb, settled) /\ IsPrefix(acc, settled)
  BY DEF Deliverable
<1> PICK new \in Seq(Items) : new = prevAcc \o items
  BY <1>1, ContinuedIsPrefix
<1>2. IsPrefix(prevAcc, new) /\ Len(prevAcc) \in Nat
  BY <1>1, ContinuedIsPrefix, LenProperties
<1> PICK kept : kept = IF items = <<>> THEN db ELSE KeptItems(new)
  OBVIOUS
<1>3. kept \in Seq(Items) /\ IsPrefix(kept, db)
  <2>1. CASE items = <<>>
    BY <2>1, PrefixOrder
  <2>2. CASE items # <<>>
    BY <2>2, KeptIs
  <2> QED
    BY <2>1, <2>2
<1>4. InOrder(kept) /\ Within(kept, delayedDb)
  BY <1>3, BeginningInOrder
<1>5. TotalDelayedSequenced(kept) <= Len(delayedDb)
  <2>1. Len(delayedDb) \in Nat
    BY LenProperties
  <2>2. ASSUME NEW i \in DOMAIN kept
        PROVE  Len(kept[i].delayedAcc) <= Len(delayedDb)
    BY <1>4 DEF Within, IsPrefix
  <2>3. \/ TotalDelayedSequenced(kept) = 0
        \/ \E i \in DOMAIN kept : TotalDelayedSequenced(kept) = Len(kept[i].delayedAcc)
    BY <1>3, <1>4, TotalIs
  <2> QED
    BY <2>1, <2>2, <2>3
<1>6. Len(acc) >= first => DelayedFit(acc, first, kept)
  <2> SUFFICES ASSUME Len(acc) >= first, ~IsPrefix(acc, delayedDb)
               PROVE  /\ IsPrefix(SubSeq(acc, 1, first - 1), delayedDb)
                      /\ Agree(acc, delayedDb) >= TotalDelayedSequenced(kept)
    BY DEF DelayedFit
  <2>1. IsPrefix(SubSeq(acc, 1, first - 1), delayedDb)
    BY DEF Deliverable
  <2>2. IsPrefix(delayedDb, acc) /\ IsPrefix(delayedDb, delayedDb)
    BY <1>1, NewDelayedIs, PrefixOrder
  <2>3. Len(delayedDb) <= Agree(acc, delayedDb) /\ Agree(acc, delayedDb) \in 0 .. Len(delayedDb)
    BY <1>1, <2>2, AgreeIs
  <2>4. TotalDelayedSequenced(kept) \in Nat /\ Len(delayedDb) \in Nat
    BY <1>3, <1>4, TotalIs, LenProperties
  <2>5. Agree(acc, delayedDb) >= TotalDelayedSequenced(kept)
    BY <1>5, <2>3, <2>4
  <2> QED
    BY <2>1, <2>5
<1>7. items # <<>> => IsPrefix(prevAcc, db)
  BY DEF Deliverable
<1>8. ASSUME items # <<>>
      PROVE  ItemsFit(NewDelayed(acc), new, kept)
  <2>1. /\ InOrder(new)
        /\ \A i \in Len(prevAcc) + 1 .. Len(new) : IsPrefix(new[i].delayedAcc, NewDelayed(acc))
    BY <1>8 DEF Deliverable
  <2>2. Len(prevAcc) <= Len(kept)
    BY <1>1, <1>2, <1>7, <1>8, KeptIs
  <2>3. Len(kept) \in Nat /\ Len(new) \in Nat
    BY <1>3, LenProperties
  <2>4. \A i \in Len(kept) + 1 .. Len(new) : i \in Len(prevAcc) + 1 .. Len(new)
    BY <1>2, <2>2, <2>3
  <2>5. NewDelayed(acc) \in Seq(Messages)
    BY <1>1, NewDelayedIs
  <2> QED
    BY <1>3, <2>1, <2>4, <2>5, ItemsAccepted
<1> QED
  BY <1>6, <1>7, <1>8 DEF Acceptable

\* What AddMessages leaves: the items end where the new ones do, and what
\* they read is there.
LEMMA Adds ==
  ASSUME db \in Seq(Items), delayedDb \in Seq(Messages), InOrder(db), Within(db, delayedDb),
         NEW prevAcc, NEW items, NEW acc, NEW first, NEW settled,
         Deliverable(prevAcc, items, acc, first, settled),
         AddMessages(prevAcc, items, acc)
  PROVE  /\ db' = IF items = <<>> THEN db ELSE prevAcc \o items
         /\ db' \in Seq(Items) /\ delayedDb' \in Seq(Messages)
         /\ InOrder(db)' /\ Within(db, delayedDb)'
         /\ IsPrefix(delayedDb', settled)
<1>1. /\ prevAcc \in Seq(Items) /\ items \in Seq(Items)
      /\ acc \in Seq(Messages) /\ settled \in Seq(Messages)
      /\ IsPrefix(delayedDb, settled) /\ IsPrefix(acc, settled)
  BY DEF Deliverable
<1> PICK new \in Seq(Items) : new = prevAcc \o items
  BY <1>1, ContinuedIsPrefix
<1> PICK delayed \in Seq(Messages) : delayed = NewDelayed(acc)
  BY <1>1, NewDelayedIs
<1>2. /\ delayedDb' = delayed
      /\ IsPrefix(delayedDb, delayed) /\ IsPrefix(delayed, settled)
  BY <1>1, NewDelayedIs DEF AddMessages
<1> PICK d \in Seq(Items) : d = db
  OBVIOUS
<1>3. \A i \in DOMAIN d : IsPrefix(d[i].delayedAcc, delayed)
  <2> TAKE i \in DOMAIN d
  <2>1. d[i].delayedAcc \in Seq(Messages)
    <3>1. d[i] \in Items
      BY ElementOfSeq, LenProperties
    <3> QED
      BY <3>1 DEF Items
  <2>2. IsPrefix(d[i].delayedAcc, delayedDb)
    BY DEF Within
  <2> QED
    BY <1>2, <2>1, <2>2, PrefixOrder
<1>4. CASE items = <<>>
  <2>1. db' = d
    BY <1>4 DEF AddMessages
  <2> QED
    BY <1>2, <1>3, <1>4, <2>1 DEF InOrder, Within
<1>5. CASE items # <<>>
  <2>1. /\ IsPrefix(prevAcc, db) /\ ~IsPrefix(new, db) /\ InOrder(new)
        /\ \A i \in Len(prevAcc) + 1 .. Len(new) : IsPrefix(new[i].delayedAcc, delayed)
    BY <1>5 DEF Deliverable
  <2> PICK kept : kept = KeptItems(new)
    OBVIOUS
  <2>2. kept \o SubSeq(new, Len(kept) + 1, Len(new)) = new
    BY <2>1, KeptIs
  <2>3. db' = new
    BY <1>5, <2>2 DEF AddMessages
  <2>4. /\ Len(prevAcc) \in Nat /\ Len(new) \in Nat /\ Len(prevAcc) <= Len(db)
        /\ DOMAIN new = 1 .. Len(new) /\ DOMAIN d = 1 .. Len(d) /\ Len(d) \in Nat
    BY <1>1, <2>1, LenProperties DEF IsPrefix
  <2>5. ASSUME NEW i \in 1 .. Len(prevAcc)
        PROVE  IsPrefix(new[i].delayedAcc, delayed)
    <3>1. IsPrefix(prevAcc, new)
      BY <1>1, ContinuedIsPrefix
    <3>2. prevAcc[i] = new[i]
      BY <1>1, <3>1, PrefixIs
    <3>3. prevAcc[i] = d[i]
      BY <1>1, <2>1, PrefixIs
    <3>4. i \in DOMAIN d
      BY <2>4
    <3> QED
      BY <1>3, <3>2, <3>3, <3>4
  <2>6. Within(new, delayed)
    <3>1. \A i \in DOMAIN new : i \in 1 .. Len(prevAcc) \/ i \in Len(prevAcc) + 1 .. Len(new)
      BY <2>4
    <3> QED
      BY <2>1, <2>5, <3>1 DEF Within
  <2> QED
    BY <1>2, <1>5, <2>1, <2>3, <2>6 DEF InOrder, Within
<1> QED
  BY <1>4, <1>5

(***************************************************************************)
(* L1.                                                                     *)
(***************************************************************************)
Blocks == [delayed : Seq(Messages), batches : Seq(Items)]

\* The types of what a block has
LEMMA BlockTypes ==
  ASSUME TypeOK
  PROVE  /\ chain \in Seq(Blocks) /\ Height \in Nat \ {0} /\ DOMAIN chain = 1 .. Height
         /\ \A n \in 1 .. Height : /\ chain[n] \in Blocks
                                   /\ chain[n].delayed \in Seq(Messages)
                                   /\ chain[n].batches \in Seq(Items)
         /\ \A n \in Int : n <= Height => Delayed(n) \in Seq(Messages) /\ Batches(n) \in Seq(Items)
<1>1. chain \in Seq(Blocks) /\ chain # <<>>
  BY DEF TypeOK, Blocks
<1>2. Len(chain) \in Nat \ {0} /\ DOMAIN chain = 1 .. Len(chain)
  BY <1>1, EmptySeq, LenProperties
<1>3. \A n \in 1 .. Len(chain) : chain[n] \in Blocks
  BY <1>1, ElementOfSeq
<1>4. \A n \in 1 .. Len(chain) : chain[n].delayed \in Seq(Messages) /\ chain[n].batches \in Seq(Items)
  BY <1>3 DEF Blocks
<1>5. <<>> \in Seq(Messages) /\ <<>> \in Seq(Items)
  BY EmptySeq
<1>6. \A n \in Int : n <= Len(chain) /\ ~(n < 1) => n \in 1 .. Len(chain)
  BY <1>2
<1>7. \A n \in Int : n <= Len(chain) => Delayed(n) \in Seq(Messages) /\ Batches(n) \in Seq(Items)
  BY <1>4, <1>5, <1>6 DEF Delayed, Batches, FirstMessageBlock
<1> QED
  BY <1>1, <1>2, <1>3, <1>4, <1>7 DEF Height

\* The settled height
LEMMA SettledIs ==
  ASSUME TypeOK
  PROVE  /\ SettledHeight \in 1 .. Height
         /\ Height - MaxReorg <= SettledHeight
         /\ SettledHeight = IF 1 >= Height - MaxReorg THEN 1 ELSE Height - MaxReorg
         /\ Settled = chain[SettledHeight].delayed /\ Settled \in Seq(Messages)
<1>1. Height \in Nat \ {0} /\ MaxReorg \in Nat
  BY BlockTypes, ConstantAssumption
<1>2. SettledHeight = IF 1 >= Height - MaxReorg THEN 1 ELSE Height - MaxReorg
  BY <1>1, MaxOfTwo DEF SettledHeight, FirstMessageBlock
<1>3. SettledHeight \in 1 .. Height /\ Height - MaxReorg <= SettledHeight
  BY <1>1, <1>2
<1>4. Settled = chain[SettledHeight].delayed
  BY <1>3 DEF Settled, Delayed, FirstMessageBlock
<1> QED
  BY <1>2, <1>3, <1>4, BlockTypes

\* The inboxes of an earlier block begin those of a later one.
LEMMA InboxesGrow ==
  ASSUME TypeOK, ChainInv, NEW m \in Int, NEW n \in Int, m <= n, n <= Height
  PROVE  IsPrefix(Delayed(m), Delayed(n)) /\ IsPrefix(Batches(m), Batches(n))
<1>1. /\ Delayed(n) \in Seq(Messages) /\ Batches(n) \in Seq(Items) /\ Height \in Nat
  BY BlockTypes
<1>2. CASE m < 1
  <2>1. Delayed(m) = <<>> /\ Batches(m) = <<>>
    BY <1>2 DEF Delayed, Batches, FirstMessageBlock
  <2> QED
    BY <1>1, <2>1, PrefixOrder
<1>3. CASE ~(m < 1)
  <2>1. m \in 1 .. Height /\ n \in 1 .. Height
    BY <1>1, <1>3
  <2>2. /\ Delayed(m) = chain[m].delayed /\ Batches(m) = chain[m].batches
        /\ Delayed(n) = chain[n].delayed /\ Batches(n) = chain[n].batches
    BY <2>1 DEF Delayed, Batches, FirstMessageBlock
  <2> QED
    BY <2>1, <2>2 DEF ChainInv
<1> QED
  BY <1>2, <1>3

\* The same of the next state
LEMMA SettledNext ==
  TypeOK' => /\ SettledHeight' \in 1 .. Height'
             /\ SettledHeight' = IF 1 >= Height' - MaxReorg THEN 1 ELSE Height' - MaxReorg
             /\ Settled' = chain'[SettledHeight'].delayed
             /\ Settled' \in Seq(Messages)
<1>1. TypeOK => /\ SettledHeight \in 1 .. Height
                /\ SettledHeight = IF 1 >= Height - MaxReorg THEN 1 ELSE Height - MaxReorg
                /\ Settled = chain[SettledHeight].delayed
                /\ Settled \in Seq(Messages)
  BY SettledIs
<1>2. (TypeOK => /\ SettledHeight \in 1 .. Height
                 /\ SettledHeight = IF 1 >= Height - MaxReorg THEN 1 ELSE Height - MaxReorg
                 /\ Settled = chain[SettledHeight].delayed
                 /\ Settled \in Seq(Messages))'
  BY <1>1, PTL
<1> QED
  BY <1>2

\* What a batch posts reads delayed messages that are there.
LEMMA PostedWithin ==
  ASSUME NEW d \in Seq(Messages), NEW d2 \in Seq(Messages), IsPrefix(d, d2),
         NEW p \in Seq(Items), NEW l \in Seq(Items), IsPrefix(p, l), Within(p, d),
         NEW n \in Nat, Len(p) <= n, n <= Len(l),
         \A i \in Len(p) + 1 .. n : IsPrefix(l[i].delayedAcc, d),
         NEW p2 \in Seq(Items), IsPrefix(p2, l), Len(p2) = n
  PROVE  Within(p2, d2)
<1> SUFFICES ASSUME NEW i \in DOMAIN p2
             PROVE  IsPrefix(p2[i].delayedAcc, d2)
  BY DEF Within
<1>1. Len(p) \in Nat /\ i \in 1 .. n
  BY LenProperties
<1>2. p2[i] = l[i]
  BY <1>1, PrefixElement
<1>3. p2[i].delayedAcc \in Seq(Messages)
  <2>1. p2[i] \in Items
    BY <1>1, ElementOfSeq
  <2> QED
    BY <2>1 DEF Items
<1>4. IsPrefix(p2[i].delayedAcc, d)
  <2>1. CASE i \in 1 .. Len(p)
    <3>1. p[i] = l[i]
      BY <2>1, PrefixElement
    <3>2. i \in DOMAIN p
      BY <2>1, LenProperties
    <3> QED
      BY <1>2, <3>1, <3>2 DEF Within
  <2>2. CASE i \in Len(p) + 1 .. n
    BY <1>2, <2>2
  <2> QED
    BY <1>1, <2>1, <2>2
<1> QED
  BY <1>3, <1>4, PrefixTrans

\* A new block
LEMMA MineChain ==
  ASSUME TypeOK, ChainInv, Mine
  PROVE  /\ chain' \in Seq(Blocks) /\ chain' # <<>> /\ Height' = Height + 1
         /\ \A n \in 1 .. Height : chain'[n] = chain[n]
         /\ ChainInv'
<1> PICK h \in Nat \ {0} : h = Height
  BY BlockTypes
<1> PICK ch \in Seq(Blocks) : ch = chain
  BY BlockTypes
<1> PICK d \in Seq(Messages) : d = Delayed(Height)
  BY BlockTypes
<1> PICK p \in Seq(Items) : p = Batches(Height)
  BY BlockTypes
<1> PICK l \in Seq(Items) : l = log
  BY DEF TypeOK
<1>1. /\ d = ch[h].delayed /\ p = ch[h].batches /\ Len(ch) = h /\ log' = l
      /\ IsPrefix(p, l) /\ Within(p, d)
  BY DEF Delayed, Batches, FirstMessageBlock, ChainInv, Height, Mine
<1>2. PICK more \in {<<>>, <<NewDelayedMessage>>}, n \in Len(p) .. Len(l) :
        /\ \A i \in Len(p) + 1 .. n : IsPrefix(l[i].delayedAcc, d)
        /\ chain' = Append(ch, [delayed |-> d \o more, batches |-> SubSeq(l, 1, n)])
  BY DEF Mine
<1>3. more \in Seq(Messages)
  <2>1. Len(d) \in Nat /\ faults \in Nat
    BY LenProperties DEF TypeOK
  <2>2. NewDelayedMessage \in Messages
    BY <2>1 DEF NewDelayedMessage, Messages
  <2>3. <<>> \in Seq(Messages) /\ <<NewDelayedMessage>> \in Seq(Messages)
    BY <2>2
  <2> QED
    BY <2>3
<1>4. Len(p) \in Nat /\ Len(l) \in Nat /\ n \in 0 .. Len(l) /\ Len(p) <= n
  BY LenProperties
<1> PICK d2 \in Seq(Messages) : d2 = d \o more
  BY <1>3, ContinuedIsPrefix
<1> PICK p2 \in Seq(Items) : p2 = SubSeq(l, 1, n)
  BY <1>4, Beginning
<1>5. IsPrefix(d, d2) /\ IsPrefix(p2, l) /\ Len(p2) = n /\ IsPrefix(p, p2)
  <2>1. IsPrefix(d, d2)
    BY <1>3, ContinuedIsPrefix
  <2>2. IsPrefix(p2, l) /\ Len(p2) = n
    BY <1>4, Beginning, BeginningIsPrefix
  <2>3. IsPrefix(p, p2)
    BY <1>1, <1>4, <2>2, PrefixShorter
  <2> QED
    BY <2>1, <2>2, <2>3
<1> PICK b \in Blocks : b = [delayed |-> d2, batches |-> p2]
  BY DEF Blocks
<1>6. b.delayed = d2 /\ b.batches = p2
  OBVIOUS
<1>7. /\ chain' \in Seq(Blocks) /\ Len(chain') = h + 1
      /\ \A m \in 1 .. h : chain'[m] = ch[m]
      /\ chain'[h + 1] = b
  BY <1>1, <1>2, AppendProperties
<1>8. Within(p2, d2)
  <2>1. n \in Nat /\ Len(p) <= n /\ n <= Len(l)
    BY <1>4
  <2>2. IsPrefix(d, d2) /\ IsPrefix(p, l) /\ IsPrefix(p2, l) /\ Within(p, d) /\ Len(p2) = n
    BY <1>1, <1>5
  <2>3. \A i \in Len(p) + 1 .. n : IsPrefix(l[i].delayedAcc, d)
    BY <1>2
  <2> QED
    BY <2>1, <2>2, <2>3, PostedWithin, Zenon
<1>9. \A m, k \in 1 .. h + 1 : m <= k =>
        /\ IsPrefix(chain'[m].delayed, chain'[k].delayed)
        /\ IsPrefix(chain'[m].batches, chain'[k].batches)
  <2> TAKE m, k \in 1 .. h + 1
  <2> HAVE m <= k
  <2>1. CASE k \in 1 .. h
    <3>1. m \in 1 .. h
      BY <2>1
    <3> QED
      BY <1>7, <2>1, <3>1 DEF ChainInv
  <2>2. CASE k = h + 1 /\ m \in 1 .. h
    <3>1. /\ ch[m].delayed \in Seq(Messages) /\ ch[m].batches \in Seq(Items)
          /\ IsPrefix(ch[m].delayed, d) /\ IsPrefix(ch[m].batches, p)
      <4>1. ch[m].delayed \in Seq(Messages) /\ ch[m].batches \in Seq(Items)
        BY <2>2, BlockTypes
      <4>2. h \in 1 .. h /\ m <= h
        BY <2>2
      <4>3. IsPrefix(ch[m].delayed, ch[h].delayed) /\ IsPrefix(ch[m].batches, ch[h].batches)
        BY <2>2, <4>2 DEF ChainInv
      <4> QED
        BY <1>1, <4>1, <4>3
    <3>2. IsPrefix(ch[m].delayed, d2) /\ IsPrefix(ch[m].batches, p2)
      BY <1>5, <3>1, PrefixTrans
    <3> QED
      BY <1>6, <1>7, <2>2, <3>2
  <2>3. CASE k = h + 1 /\ m = h + 1
    <3>1. IsPrefix(d2, d2) /\ IsPrefix(p2, p2)
      BY PrefixSelf
    <3> QED
      BY <1>6, <1>7, <2>3, <3>1
  <2> QED
    BY <2>1, <2>2, <2>3
<1>10. \A m \in 1 .. h + 1 : Within(chain'[m].batches, chain'[m].delayed)
  <2>1. \A m \in 1 .. h : Within(ch[m].batches, ch[m].delayed)
    BY DEF ChainInv
  <2>2. \A m \in 1 .. h + 1 : m \in 1 .. h \/ m = h + 1
    OBVIOUS
  <2> QED
    BY <1>6, <1>7, <1>8, <2>1, <2>2
<1>11. Height' = h + 1
  BY <1>7 DEF Height
<1>12. IsPrefix(chain'[h + 1].batches, log')
  BY <1>1, <1>5, <1>6, <1>7
<1>13. chain' # <<>>
  BY <1>7, EmptySeq
<1>14. ChainInv'
  BY <1>9, <1>10, <1>11, <1>12 DEF ChainInv, Within
<1> QED
  BY <1>7, <1>11, <1>13, <1>14

\* A reorg takes no settled block back.
LEMMA ReorgChain ==
  ASSUME TypeOK, ChainInv, Reorg
  PROVE  /\ chain' \in Seq(Blocks) /\ chain' # <<>> /\ Height' = Height
         /\ \A n \in 1 .. SettledHeight : chain'[n] = chain[n]
         /\ ChainInv'
<1> PICK h \in Nat \ {0} : h = Height
  BY BlockTypes
<1> PICK ch \in Seq(Blocks) : ch = chain
  BY BlockTypes
<1>1. /\ log' = log /\ log \in Seq(Items) /\ Len(ch) = h
      /\ \A n \in 1 .. h : ch[n] \in Blocks /\ ch[n].batches \in Seq(Items)
  BY BlockTypes DEF Reorg, Height, TypeOK
<1>2. PICK kept \in 1 .. h - 1 : /\ h - kept <= MaxReorg
                                 /\ chain' = [n \in 1 .. h |-> ch[Min({n, kept})]]
  BY DEF Reorg
<1> DEFINE old(n) == IF n <= kept THEN n ELSE kept
<1>3. \A n \in 1 .. h : chain'[n] = ch[old(n)] /\ old(n) \in 1 .. h
  BY <1>2, MinOfTwo
<1>4. chain' \in Seq(Blocks) /\ Len(chain') = h
  <2>1. \A n \in 1 .. h : Min({n, kept}) \in 1 .. h
    BY <1>2, MinOfTwo
  <2>2. \A n \in 1 .. h : ch[n] \in Blocks
    BY <1>1
  <2>3. \A n \in 1 .. h : ch[Min({n, kept})] \in Blocks
    BY <2>1, <2>2, Zenon
  <2>4. chain' \in [1 .. h -> Blocks]
    BY <1>2, <2>3
  <2> QED
    BY <2>4
<1>5. Height' = h /\ chain' # <<>>
  BY <1>4, EmptySeq DEF Height
<1>6. \A n \in 1 .. SettledHeight : chain'[n] = ch[n]
  <2>1. SettledHeight <= kept /\ SettledHeight \in Nat
    BY <1>2, SettledIs, ConstantAssumption
  <2> QED
    BY <1>3, <2>1
<1>7. \A m, n \in 1 .. h : m <= n =>
        /\ IsPrefix(chain'[m].delayed, chain'[n].delayed)
        /\ IsPrefix(chain'[m].batches, chain'[n].batches)
  <2>1. \A m, n \in 1 .. h : m <= n => old(m) <= old(n)
    OBVIOUS
  <2> HIDE DEF old
  <2> TAKE m, n \in 1 .. h
  <2> HAVE m <= n
  <2>2. old(m) \in 1 .. h /\ old(n) \in 1 .. h /\ old(m) <= old(n)
    BY <1>3, <2>1
  <2>3. /\ IsPrefix(ch[old(m)].delayed, ch[old(n)].delayed)
        /\ IsPrefix(ch[old(m)].batches, ch[old(n)].batches)
    BY <2>2 DEF ChainInv
  <2> QED
    BY <1>3, <2>3
<1>8. \A n \in 1 .. h : Within(chain'[n].batches, chain'[n].delayed)
  <2> HIDE DEF old
  <2> QED
    BY <1>3 DEF ChainInv
<1>9. IsPrefix(chain'[h].batches, log')
  <2>1. old(h) \in 1 .. h /\ old(h) <= h /\ h \in 1 .. h
    BY <1>3
  <2> HIDE DEF old
  <2>2. chain'[h].batches = ch[old(h)].batches
    BY <1>3, <2>1
  <2>3. IsPrefix(ch[old(h)].batches, ch[h].batches) /\ IsPrefix(ch[h].batches, log)
    BY <2>1 DEF ChainInv
  <2>4. ch[old(h)].batches \in Seq(Items) /\ ch[h].batches \in Seq(Items)
    BY <1>1, <2>1
  <2>5. IsPrefix(ch[old(h)].batches, log)
    BY <1>1, <2>3, <2>4, PrefixTrans
  <2> QED
    BY <1>1, <2>2, <2>5
<1>10. ChainInv'
  BY <1>5, <1>7, <1>8, <1>9 DEF ChainInv, Within
<1> QED
  BY <1>4, <1>5, <1>6, <1>10

\* What was settled stays settled.
LEMMA WithinLonger ==
  ASSUME NEW items \in Seq(Items), NEW s \in Seq(Messages), NEW t \in Seq(Messages),
         IsPrefix(s, t), Within(items, s)
  PROVE  Within(items, t)
<1> SUFFICES ASSUME NEW i \in DOMAIN items
             PROVE  IsPrefix(items[i].delayedAcc, t)
  BY DEF Within
<1>1. items[i] \in Items
  BY ElementOfSeq, LenProperties
<1>2. items[i].delayedAcc \in Seq(Messages)
  BY <1>1 DEF Items
<1>3. IsPrefix(items[i].delayedAcc, s)
  BY DEF Within
<1> QED
  BY <1>2, <1>3, PrefixTrans

\* The parts of the types
LEMMA Types ==
  ASSUME TypeOK
  PROVE  /\ chain \in Seq(Blocks) /\ log \in Seq(Items)
         /\ delayedDb \in Seq(Messages) /\ db \in Seq(Items) /\ lastAcc \in Seq(Items)
         /\ from \in Nat /\ to \in Nat /\ currentHeight \in Nat /\ faults \in Nat
         /\ delayedMessages \in [acc : Seq(Messages), first : Nat \ {0}]
         /\ sequencerFeedQueue \in Queues
         /\ sequencerFeedQueue.prevAcc \in Seq(Items) /\ sequencerFeedQueue.items \in Seq(Items)
         /\ sequencerFeedQueue.prevAcc \o sequencerFeedQueue.items \in Seq(Items)
<1>1. sequencerFeedQueue.prevAcc \in Seq(Items) /\ sequencerFeedQueue.items \in Seq(Items)
  BY DEF TypeOK, Queues
<1>2. sequencerFeedQueue.prevAcc \o sequencerFeedQueue.items \in Seq(Items)
  BY <1>1, ContinuedIsPrefix
<1> QED
  BY <1>1, <1>2 DEF TypeOK, Blocks

\* L1 moves and the invariant stays.
LEMMA ChainMoves ==
  ASSUME ReaderInv, Mine \/ Reorg
  PROVE  ReaderInv'
<1>1. TypeOK /\ ChainInv /\ ItemsInv /\ CoreInv
  BY DEF ReaderInv
<1>2. /\ chain' \in Seq(Blocks) /\ chain' # <<>> /\ Height <= Height' /\ Height' \in Nat
      /\ \A n \in 1 .. SettledHeight : chain'[n] = chain[n]
      /\ ChainInv'
  <2>1. Height \in Nat /\ SettledHeight \in 1 .. Height
    BY <1>1, BlockTypes, SettledIs
  <2>2. CASE Mine
    <3>1. \A n \in 1 .. SettledHeight : n \in 1 .. Height
      BY <2>1
    <3> QED
      BY <1>1, <2>1, <2>2, <3>1, MineChain
  <2>3. CASE Reorg
    BY <1>1, <2>1, <2>3, ReorgChain
  <2> QED
    BY <2>2, <2>3
<1>3. UNCHANGED <<log, late, readerVars>> /\ faults' \in Nat
  <2>1. faults \in Nat
    BY <1>1, Types
  <2> QED
    BY <2>1 DEF Mine, Reorg, GoesWrong
<1>4. TypeOK'
  BY <1>1, <1>2, <1>3 DEF TypeOK, Blocks, readerVars, coreVars, windowVars, passVars,
                          feedVars, modeVars
<1>5. /\ SettledHeight \in 1 .. Height /\ SettledHeight' \in 1 .. Height'
      /\ SettledHeight <= SettledHeight'
      /\ Height \in Nat
  <2>1. /\ SettledHeight \in 1 .. Height /\ Height \in Nat /\ MaxReorg \in Nat
        /\ SettledHeight = IF 1 >= Height - MaxReorg THEN 1 ELSE Height - MaxReorg
    BY <1>1, SettledIs, BlockTypes, ConstantAssumption
  <2>2. /\ SettledHeight' \in 1 .. Height'
        /\ SettledHeight' = IF 1 >= Height' - MaxReorg THEN 1 ELSE Height' - MaxReorg
    BY <1>4, SettledNext
  <2>3. SettledHeight <= SettledHeight'
    <3>1. PICK s1, s2, h1, h2 : /\ s1 = SettledHeight /\ s2 = SettledHeight'
                                /\ h1 = Height /\ h2 = Height'
      OBVIOUS
    <3>2. /\ h1 \in Nat /\ h2 \in Nat /\ h1 <= h2 /\ MaxReorg \in Nat
          /\ s1 = IF 1 >= h1 - MaxReorg THEN 1 ELSE h1 - MaxReorg
          /\ s2 = IF 1 >= h2 - MaxReorg THEN 1 ELSE h2 - MaxReorg
      BY <1>2, <2>1, <2>2, <3>1
    <3>3. s1 <= s2
      BY <3>2
    <3> QED
      BY <3>1, <3>3
  <2> QED
    BY <2>1, <2>2, <2>3
<1>6. IsPrefix(Settled, Settled')
  <2>1. SettledHeight \in 1 .. Height'
    BY <1>2, <1>5
  <2>2. IsPrefix(chain'[SettledHeight].delayed, chain'[SettledHeight'].delayed)
    <3> PICK k : k = SettledHeight
      OBVIOUS
    <3>1. k \in 1 .. Height' /\ SettledHeight' \in 1 .. Height' /\ k <= SettledHeight'
      BY <1>5, <2>1
    <3>2. IsPrefix(chain'[k].delayed, chain'[SettledHeight'].delayed)
      BY <1>2, <3>1 DEF ChainInv
    <3> QED
      BY <3>2
  <2>3. chain'[SettledHeight] = chain[SettledHeight]
    BY <1>2, <1>5
  <2> QED
    BY <1>1, <1>4, <2>2, <2>3, SettledIs, SettledNext
<1>7. Settled \in Seq(Messages) /\ Settled' \in Seq(Messages)
  BY <1>1, <1>4, SettledIs, SettledNext
<1>8. UNCHANGED <<log, late, sequencerFeedQueue, db, delayedDb, pc, to, currentHeight,
                  delayedMessages, lastAcc, coreError>>
  BY <1>3 DEF readerVars, coreVars, windowVars, passVars, feedVars, modeVars
<1>9. ItemsInv'
  <2> PICK q : q = sequencerFeedQueue
    OBVIOUS
  <2>1. log \in Seq(Items) /\ All(q) \in Seq(Items)
    BY <1>1, Types DEF All
  <2>2. /\ InOrder(log) /\ Within(log, Settled)
        /\ q \in Queues /\ InOrder(All(q)) /\ Within(All(q), Settled)
    BY <1>1 DEF ItemsInv, GoodQueue
  <2>3. Within(log, Settled') /\ Within(All(q), Settled')
    BY <1>6, <1>7, <2>1, <2>2, WithinLonger
  <2>4. GoodLogs(late, Settled')
    BY <1>1, <1>6, <1>7, WithinLonger DEF ItemsInv, GoodLogs
  <2> QED
    <3>1. GoodQueue(q, Settled')
      BY <2>2, <2>3 DEF GoodQueue
    <3>2. sequencerFeedQueue' = q /\ log' = log /\ late' = late
      BY <1>8
    <3>3. /\ InOrder(log') /\ Within(log', Settled') /\ GoodQueue(sequencerFeedQueue', Settled')
          /\ GoodLogs(late', Settled')
      BY <2>2, <2>3, <2>4, <3>1, <3>2
    <3> QED
      BY <3>3 DEF ItemsInv
<1>10. IsPrefix(delayedDb, Settled')
  BY <1>1, <1>6, <1>7, Types, PrefixTrans DEF CoreInv
<1>11. currentHeight <= SettledHeight'
  BY <1>1, <1>2, <1>5, Types DEF CoreInv
<1>12. ASSUME pc = "batches"
       PROVE  to <= currentHeight /\ delayedMessages.acc = Delayed(to)'
  <2>1. to <= currentHeight /\ currentHeight <= SettledHeight /\ delayedMessages.acc = Delayed(to)
    BY <1>1, <1>12 DEF CoreInv
  <2>2. to \in Nat /\ currentHeight \in Nat
    BY <1>1, Types
  <2>3. ~(to < 1) => to \in 1 .. SettledHeight
    BY <1>2, <1>5, <2>1, <2>2
  <2>4. ~(to < 1) => chain'[to] = chain[to]
    BY <1>2, <2>3
  <2> QED
    BY <1>8, <2>1, <2>4 DEF Delayed, FirstMessageBlock
<1>13. CoreInv'
  BY <1>1, <1>8, <1>10, <1>11, <1>12 DEF CoreInv, InOrder, Within
<1> QED
  BY <1>2, <1>4, <1>9, <1>13 DEF ReaderInv

(***************************************************************************)
(* The sequencer.                                                          *)
(***************************************************************************)
\* One more item
LEMMA OneMore ==
  ASSUME NEW items \in Seq(Items), NEW it \in Items, NEW delayed \in Seq(Messages),
         InOrder(items), Within(items, delayed),
         it.tx = NoTx <=> it.delayedAcc # <<>>,
         it.tx = NoTx => Len(it.delayedAcc) > TotalDelayedSequenced(items),
         IsPrefix(it.delayedAcc, delayed)
  PROVE  /\ Append(items, it) \in Seq(Items) /\ IsPrefix(items, Append(items, it))
         /\ InOrder(Append(items, it)) /\ Within(Append(items, it), delayed)
<1> PICK n \in Nat : n = Len(items)
  BY LenProperties
<1> PICK more \in Seq(Items) : more = Append(items, it)
  BY AppendProperties
<1>1. /\ Len(more) = n + 1 /\ more[n + 1] = it
      /\ \A i \in 1 .. n : more[i] = items[i]
  BY AppendProperties
<1>2. DOMAIN items = 1 .. n /\ DOMAIN more = 1 .. n + 1
  BY <1>1, LenProperties
<1>3. IsPrefix(items, more)
  <2>1. Len(items) <= Len(more) /\ \A i \in 1 .. Len(items) : items[i] = more[i]
    BY <1>1
  <2> QED
    BY <2>1, PrefixIs
<1>4. \A i \in DOMAIN more : (i \in DOMAIN items /\ more[i] = items[i]) \/ (i = n + 1 /\ more[i] = it)
  BY <1>1, <1>2
<1>5. Within(more, delayed)
  BY <1>4 DEF Within
<1>6. \A i \in DOMAIN more : more[i].tx = NoTx <=> more[i].delayedAcc # <<>>
  BY <1>4 DEF InOrder
<1>7. ASSUME NEW i \in DOMAIN more, NEW j \in DOMAIN more, i < j,
             more[i].tx = NoTx, more[j].tx = NoTx
      PROVE  Len(more[i].delayedAcc) < Len(more[j].delayedAcc)
  <2>1. i \in DOMAIN items /\ more[i] = items[i]
    BY <1>1, <1>2, <1>7
  <2>2. CASE j \in DOMAIN items /\ more[j] = items[j]
    BY <1>7, <2>1, <2>2 DEF InOrder
  <2>3. CASE j = n + 1 /\ more[j] = it
    <3>1. TotalDelayedSequenced(items) \in Nat
          /\ Len(items[i].delayedAcc) <= TotalDelayedSequenced(items)
      BY <2>1, TotalIs
    <3>2. items[i].delayedAcc \in Seq(Messages) /\ it.delayedAcc \in Seq(Messages)
      <4>1. items[i] \in Items
        BY <1>2, <2>1, ElementOfSeq
      <4> QED
        BY <4>1 DEF Items
    <3>3. Len(items[i].delayedAcc) \in Nat /\ Len(it.delayedAcc) \in Nat
      BY <3>2, LenProperties
    <3>4. Len(it.delayedAcc) > TotalDelayedSequenced(items)
      BY <1>7, <2>3
    <3> QED
      BY <2>1, <2>3, <3>1, <3>3, <3>4
  <2> QED
    BY <1>4, <2>2, <2>3
<1>8. InOrder(more)
  BY <1>6, <1>7 DEF InOrder
<1> QED
  BY <1>3, <1>5, <1>8

\* The log after a step of the sequencer
LEMMA LogStays ==
  ASSUME TypeOK, ChainInv, ItemsInv, SequenceTx \/ SequenceDelayed \/ Handover
  PROVE  /\ log' \in Seq(Items) /\ IsPrefix(chain[Height].batches, log')
         /\ InOrder(log)' /\ Within(log', Settled)
<1>1. /\ log \in Seq(Items) /\ faults \in Nat /\ Height \in Nat \ {0}
      /\ chain[Height].batches \in Seq(Items)
      /\ Settled \in Seq(Messages) /\ InOrder(log) /\ Within(log, Settled)
      /\ IsPrefix(chain[Height].batches, log)
  <2>1. Height \in Nat \ {0} /\ chain[Height].batches \in Seq(Items)
    BY BlockTypes
  <2> QED
    BY <2>1, Types, SettledIs DEF ItemsInv, ChainInv
<1>2. ASSUME NEW it \in Items, log' = Append(log, it),
             it.tx = NoTx <=> it.delayedAcc # <<>>,
             it.tx = NoTx => Len(it.delayedAcc) > TotalDelayedSequenced(log),
             IsPrefix(it.delayedAcc, Settled)
      PROVE  /\ log' \in Seq(Items) /\ IsPrefix(chain[Height].batches, log')
             /\ InOrder(log') /\ Within(log', Settled)
  <2> PICK l : l = log /\ l \in Seq(Items)
    BY <1>1
  <2> PICK more : more = Append(l, it)
    OBVIOUS
  <2>1. more \in Seq(Items) /\ IsPrefix(l, more) /\ InOrder(more) /\ Within(more, Settled)
    BY <1>1, <1>2, OneMore
  <2>2. IsPrefix(chain[Height].batches, more)
    BY <1>1, <2>1, PrefixTrans
  <2> QED
    BY <1>2, <2>1, <2>2
<1>3. CASE SequenceTx
  <2> PICK it : it = Item(faults, <<>>, Height)
    OBVIOUS
  <2>1. it \in Items /\ it.tx # NoTx /\ it.delayedAcc = <<>>
    <3>1. <<>> \in Seq(Messages)
      BY EmptySeq
    <3> QED
      BY <1>1, <3>1, NoTxAssumption DEF Item, Items
  <2>2. IsPrefix(it.delayedAcc, Settled)
    BY <1>1, <2>1, PrefixOrder
  <2>3. log' = Append(log, it)
    BY <1>3 DEF SequenceTx
  <2> QED
    BY <1>2, <2>1, <2>2, <2>3 DEF InOrder
<1>4. CASE SequenceDelayed
  <2> PICK h \in Int : h = Height - TargetDelay
    BY <1>1, ConstantAssumption
  <2> PICK deep : deep = Delayed(h)
    OBVIOUS
  <2> PICK it : it = Item(NoTx, deep, h)
    OBVIOUS
  <2>1. /\ Height > TargetDelay /\ Len(deep) > TotalDelayedSequenced(log)
        /\ log' = Append(log, it)
    BY <1>4 DEF SequenceDelayed
  <2>2. h \in Nat /\ h <= SettledHeight /\ SettledHeight <= Height /\ SettledHeight \in Int
    <3>1. /\ SettledHeight \in 1 .. Height /\ Height - MaxReorg <= SettledHeight
      BY SettledIs
    <3>2. /\ TargetDelay \in Nat /\ MaxReorg \in Nat /\ MaxReorg <= TargetDelay
      BY ConstantAssumption, DepthAssumption
    <3> QED
      BY <1>1, <2>1, <3>1, <3>2
  <2>3. deep \in Seq(Messages) /\ IsPrefix(deep, Settled)
    <3>1. h <= Height
      BY <1>1, <2>2
    <3> QED
      BY <2>2, <3>1, BlockTypes, InboxesGrow DEF Settled
  <2>4. it \in Items /\ it.tx = NoTx /\ it.delayedAcc = deep
    BY <2>2, <2>3 DEF Item, Items
  <2>5. deep # <<>>
    <3>1. TotalDelayedSequenced(log) \in Nat
      BY <1>1, TotalIs
    <3> QED
      BY <2>1, <3>1, EmptySeq
  <2> QED
    BY <1>2, <2>1, <2>3, <2>4, <2>5 DEF InOrder
<1>5. CASE Handover
  <2> PICK l : l = log /\ l \in Seq(Items)
    BY <1>1
  <2> PICK p : p = chain[Height].batches /\ p \in Seq(Items)
    BY <1>1
  <2>1. p = Batches(Height)
    BY <1>1 DEF Batches, FirstMessageBlock
  <2>2. PICK n \in Len(p) .. Len(l) - 1 : log' = SubSeq(l, 1, n)
    BY <1>5, <2>1 DEF Handover
  <2>3. n \in 0 .. Len(l) /\ Len(p) <= n
    BY LenProperties
  <2> PICK s : s = SubSeq(l, 1, n)
    OBVIOUS
  <2>4. s \in Seq(Items) /\ IsPrefix(s, l) /\ Len(s) = n
    BY <2>3, Beginning, BeginningIsPrefix
  <2>5. IsPrefix(p, s)
    BY <1>1, <2>3, <2>4, PrefixShorter
  <2>6. InOrder(s) /\ Within(s, Settled)
    BY <1>1, <2>4, BeginningInOrder
  <2> QED
    BY <2>2, <2>4, <2>5, <2>6 DEF InOrder
<1> QED
  BY <1>3, <1>4, <1>5

\* What a new sequencer does not know was good.
LEMMA LateStays ==
  ASSUME TypeOK, ChainInv, ItemsInv, SequenceTx \/ SequenceDelayed \/ Handover
  PROVE  late' \subseteq Seq(Items) /\ GoodLogs(late', Settled)
<1>1. /\ log \in Seq(Items) /\ Settled \in Seq(Messages) /\ InOrder(log) /\ Within(log, Settled)
      /\ GoodLogs(late, Settled)
  BY Types, SettledIs DEF ItemsInv
<1>2. CASE UNCHANGED late
  BY <1>1, <1>2 DEF GoodLogs
<1>3. CASE Handover
  <2> PICK l : l = log /\ l \in Seq(Items)
    BY <1>1
  <2> PICK old : old = late
    OBVIOUS
  <2>1. PICK n \in Len(Batches(Height)) .. Len(l) - 1 :
          late' = old \cup {SubSeq(l, 1, k) : k \in n + 1 .. Len(l)}
    BY <1>3 DEF Handover
  <2>2. n \in Nat /\ Len(l) \in Nat
    <3>1. Len(Batches(Height)) \in Nat
      BY BlockTypes, LenProperties
    <3> QED
      BY <3>1, LenProperties
  <2>3. ASSUME NEW k \in n + 1 .. Len(l)
        PROVE  /\ SubSeq(l, 1, k) \in Seq(Items) /\ SubSeq(l, 1, k) # <<>>
               /\ InOrder(SubSeq(l, 1, k)) /\ Within(SubSeq(l, 1, k), Settled)
    <3>1. k \in 0 .. Len(l) /\ k # 0
      BY <2>2
    <3> PICK s : s = SubSeq(l, 1, k)
      OBVIOUS
    <3>2. s \in Seq(Items) /\ IsPrefix(s, l) /\ Len(s) = k
      BY <3>1, Beginning, BeginningIsPrefix
    <3>3. InOrder(s) /\ Within(s, Settled)
      BY <1>1, <3>2, BeginningInOrder
    <3> QED
      BY <3>1, <3>2, <3>3, EmptySeq
  <2>4. GoodLogs(late', Settled)
    BY <1>1, <2>1, <2>3 DEF GoodLogs
  <2> QED
    BY <2>4 DEF GoodLogs
<1> QED
  BY <1>2, <1>3 DEF SequenceTx, SequenceDelayed

\* While L1 stands still, so does what is settled.
LEMMA ChainStill ==
  ASSUME UNCHANGED chain
  PROVE  /\ Height' = Height /\ SettledHeight' = SettledHeight /\ Settled' = Settled
         /\ \A n : Delayed(n)' = Delayed(n) /\ Batches(n)' = Batches(n)
BY DEF Height, SettledHeight, Settled, Delayed, Batches

\* The sequencer moves and the invariant stays.
LEMMA LogMoves ==
  ASSUME ReaderInv, SequenceTx \/ SequenceDelayed \/ Handover
  PROVE  ReaderInv'
<1>1. TypeOK /\ ChainInv /\ ItemsInv /\ CoreInv
  BY DEF ReaderInv
<1>2. /\ log' \in Seq(Items) /\ IsPrefix(chain[Height].batches, log')
      /\ InOrder(log') /\ Within(log', Settled)
      /\ late' \subseteq Seq(Items) /\ GoodLogs(late', Settled)
  BY <1>1, LogStays, LateStays
<1>3. UNCHANGED chain /\ UNCHANGED readerVars /\ faults' \in Nat
  <2>1. faults \in Nat
    BY <1>1, Types
  <2> QED
    BY <2>1 DEF SequenceTx, SequenceDelayed, Handover, GoesWrong
<1>4. TypeOK'
  BY <1>1, <1>2, <1>3 DEF TypeOK, readerVars, coreVars, windowVars, passVars, feedVars, modeVars
<1>5. Height' = Height /\ SettledHeight' = SettledHeight /\ Settled' = Settled
      /\ \A n : Delayed(n)' = Delayed(n)
  BY <1>3, ChainStill
<1>6. ChainInv'
  BY <1>1, <1>2, <1>3, <1>5 DEF ChainInv
<1>7. ItemsInv'
  <2>1. GoodQueue(sequencerFeedQueue', Settled')
    BY <1>1, <1>3, <1>5 DEF ItemsInv, readerVars, feedVars
  <2> QED
    BY <1>2, <1>5, <2>1 DEF ItemsInv
<1>8. CoreInv'
  <2>1. UNCHANGED <<db, delayedDb, pc, to, currentHeight, delayedMessages, lastAcc, coreError>>
    BY <1>3 DEF readerVars, coreVars, windowVars, passVars, feedVars
  <2>2. InOrder(db') /\ Within(db', delayedDb') /\ IsPrefix(delayedDb', Settled')
    BY <1>1, <1>5, <2>1 DEF CoreInv
  <2>3. Delayed(to)' = Delayed(to)
    BY <1>3, <2>1 DEF Delayed
  <2> QED
    BY <1>1, <1>5, <2>1, <2>2, <2>3 DEF CoreInv
<1> QED
  BY <1>4, <1>6, <1>7, <1>8 DEF ReaderInv

(***************************************************************************)
(* The queue of feed items.                                                *)
(***************************************************************************)
\* A queue is what it was made of.
LEMMA QueueIs ==
  ASSUME NEW a \in Seq(Items), NEW b \in Seq(Items), NEW q, q = [prevAcc |-> a, items |-> b]
  PROVE  q \in Queues /\ q.prevAcc = a /\ q.items = b /\ All(q) = a \o b
BY DEF Queues, All

\* A queue that is cut elsewhere holds the same items.
LEMMA Recut ==
  ASSUME NEW q \in Queues, NEW settled, GoodQueue(q, settled), NEW n \in 0 .. Len(All(q))
  PROVE  GoodQueue([prevAcc |-> SubSeq(All(q), 1, n),
                    items |-> SubSeq(All(q), n + 1, Len(All(q)))], settled)
<1>1. q.prevAcc \in Seq(Items) /\ q.items \in Seq(Items)
  BY DEF Queues
<1> PICK all : all = All(q) /\ all \in Seq(Items)
  BY <1>1, ContinuedIsPrefix DEF All
<1> PICK a : a = SubSeq(all, 1, n)
  OBVIOUS
<1> PICK b : b = SubSeq(all, n + 1, Len(all))
  OBVIOUS
<1>2. a \in Seq(Items) /\ b \in Seq(Items) /\ a \o b = all
  BY Beginning, CutInTwo
<1> PICK r : r = [prevAcc |-> a, items |-> b]
  OBVIOUS
<1>3. r \in Queues /\ All(r) = all
  BY <1>2 DEF Queues, All
<1>4. GoodQueue(r, settled)
  BY <1>3 DEF GoodQueue
<1> QED
  BY <1>4

\* So does one that is dropped when it is empty.
LEMMA NormalGood ==
  ASSUME NEW q, NEW settled, GoodQueue(q, settled)
  PROVE  GoodQueue(EmptyQueue, settled) /\ GoodQueue(Normal(q), settled)
<1>1. <<>> \in Seq(Items) /\ <<>> \o <<>> = <<>> /\ DOMAIN <<>> = {}
  BY EmptySeq
<1>2. EmptyQueue \in Queues /\ All(EmptyQueue) = <<>>
  BY <1>1 DEF EmptyQueue, Queues, All
<1>3. InOrder(<<>>) /\ Within(<<>>, settled)
  BY <1>1 DEF InOrder, Within
<1>4. GoodQueue(EmptyQueue, settled)
  BY <1>2, <1>3 DEF GoodQueue
<1> QED
  BY <1>4 DEF Normal

\* getNextBlockToRead drops the items that the database has.
LEMMA UnreadGood ==
  ASSUME db \in Seq(Items), NEW settled, GoodQueue(sequencerFeedQueue, settled)
  PROVE  GoodQueue(Normal(UnreadItems), settled)
<1> PICK q \in Queues : q = sequencerFeedQueue
  BY DEF GoodQueue
<1>1. q.prevAcc \in Seq(Items) /\ q.items \in Seq(Items)
  BY DEF Queues
<1> PICK all \in Seq(Items) : all = All(q)
  BY <1>1, ContinuedIsPrefix DEF All
<1>2. GoodQueue(UnreadItems, settled)
  <2>1. CASE Len(db) > Len(q.prevAcc) /\ IsPrefix(db, all)
    <3>1. Len(db) \in 0 .. Len(all) /\ db = SubSeq(all, 1, Len(db))
      BY <2>1, PrefixIsBeginning
    <3>2. UnreadItems = [prevAcc |-> db, items |-> SubSeq(all, Len(db) + 1, Len(all))]
      BY <2>1 DEF UnreadItems, All
    <3> PICK n : n = Len(db)
      OBVIOUS
    <3>3. GoodQueue([prevAcc |-> SubSeq(All(q), 1, n),
                     items |-> SubSeq(All(q), n + 1, Len(All(q)))], settled)
      BY <3>1, Recut
    <3> QED
      BY <3>1, <3>2, <3>3
  <2>2. CASE ~(Len(db) > Len(q.prevAcc) /\ IsPrefix(db, all))
    BY <2>2 DEF UnreadItems, All
  <2> QED
    BY <2>1, <2>2
<1> QED
  BY <1>2, NormalGood

\* So does addMessages with those that it has read from L1.
LEMMA WithoutDuplicatesGood ==
  ASSUME NEW settled, GoodQueue(sequencerFeedQueue, settled),
         NEW prevAcc \in Seq(Items), NEW new \in Seq(Items)
  PROVE  GoodQueue(WithoutDuplicates(prevAcc, new), settled)
<1> PICK q \in Queues : q = sequencerFeedQueue
  BY DEF GoodQueue
<1>1. q.prevAcc \in Seq(Items) /\ q.items \in Seq(Items)
  BY DEF Queues
<1> PICK all \in Seq(Items) : all = All(q)
  BY <1>1, ContinuedIsPrefix DEF All
<1> PICK n : n = Agree(new, all)
  OBVIOUS
<1>2. n \in 0 .. Len(all)
  BY AgreeIs
<1> PICK r : r = [prevAcc |-> SubSeq(all, 1, n), items |-> SubSeq(all, n + 1, Len(all))]
  OBVIOUS
<1>3. GoodQueue(r, settled)
  BY <1>2, Recut
<1>4. WithoutDuplicates(prevAcc, new) = q \/ WithoutDuplicates(prevAcc, new) = Normal(r)
  BY DEF WithoutDuplicates, All
<1> QED
  BY <1>3, <1>4, NormalGood

\* Where an item is put at the end
LEMMA AppendBehind ==
  ASSUME NEW S, NEW a \in Seq(S), NEW b \in Seq(S), NEW x \in S
  PROVE  a \o Append(b, x) = Append(a \o b, x)
OBVIOUS

\* The last item of a sequencer's log joins the queue.
LEMMA QueuedGood ==
  ASSUME NEW settled \in Seq(Messages), GoodQueue(sequencerFeedQueue, settled),
         NEW l \in Seq(Items), InOrder(l), Within(l, settled), NEW n \in 1 .. Len(l)
  PROVE  GoodQueue(Queued(SubSeq(l, 1, n - 1), l[n]), settled)
<1> PICK q \in Queues : q = sequencerFeedQueue
  BY DEF GoodQueue
<1>1. q.prevAcc \in Seq(Items) /\ q.items \in Seq(Items)
  BY DEF Queues
<1>2. Len(l) \in Nat /\ n - 1 \in 0 .. Len(l) /\ n \in 0 .. Len(l)
  BY LenProperties
<1> PICK p \in Seq(Items) : p = SubSeq(l, 1, n - 1)
  BY <1>2, Beginning
<1> PICK it \in Items : it = l[n]
  BY ElementOfSeq
<1> PICK s \in Seq(Items) : s = SubSeq(l, 1, n)
  BY <1>2, Beginning
<1>3. InOrder(s) /\ Within(s, settled)
  BY <1>2, BeginningIsPrefix, BeginningInOrder
<1>4. Append(p, it) = s /\ p \o <<it>> = s
  <2>1. Len(p) = n - 1 /\ Len(s) = n /\ n \in Nat
    BY <1>2, Beginning
  <2>2. \A i \in 1 .. n - 1 : p[i] = l[i]
    BY <1>2, Beginning
  <2>3. \A i \in 1 .. n : s[i] = l[i]
    BY <1>2, Beginning
  <2>4. /\ Append(p, it) \in Seq(Items) /\ Len(Append(p, it)) = (n - 1) + 1
        /\ \A i \in 1 .. n - 1 : Append(p, it)[i] = p[i]
        /\ Append(p, it)[(n - 1) + 1] = it
    <3>1. /\ Append(p, it) \in Seq(Items) /\ Len(Append(p, it)) = Len(p) + 1
          /\ \A i \in 1 .. Len(p) : Append(p, it)[i] = p[i]
          /\ Append(p, it)[Len(p) + 1] = it
      BY AppendProperties
    <3> QED
      BY <2>1, <3>1
  <2>5. \A i \in 1 .. n : Append(p, it)[i] = s[i]
    <3>1. \A i \in 1 .. n : i \in 1 .. n - 1 \/ i = n
      BY <2>1
    <3>2. Append(p, it)[n] = it /\ s[n] = it
      BY <2>1, <2>3, <2>4
    <3> QED
      BY <2>2, <2>3, <2>4, <3>1, <3>2
  <2>6. Append(p, it) = s
    BY <2>1, <2>4, <2>5, SeqEqual
  <2>7. p \o <<it>> = Append(p, it)
    OBVIOUS
  <2> QED
    BY <2>6, <2>7
<1> PICK r : r = Queued(p, it)
  OBVIOUS
<1>5. r \in Queues /\ All(r) = s
  <2>1. CASE r = [prevAcc |-> p, items |-> <<it>>]
    <3>1. <<it>> \in Seq(Items)
      OBVIOUS
    <3>2. PICK one \in Seq(Items) : one = <<it>>
      BY <3>1
    <3>3. r = [prevAcc |-> p, items |-> one]
      BY <2>1, <3>2
    <3>4. r \in Queues /\ All(r) = p \o one
      BY ONLY p \in Seq(Items), one \in Seq(Items), <3>3, QueueIs
    <3> QED
      BY <1>4, <3>2, <3>4
  <2>2. CASE r = [q EXCEPT !.items = Append(@, it)] /\ All(q) = p
    <3>1. PICK a \in Seq(Items), b \in Seq(Items) : a = q.prevAcc /\ b = q.items
      BY <1>1
    <3>2. Append(b, it) \in Seq(Items) /\ a \o Append(b, it) = Append(a \o b, it)
      BY AppendBehind, AppendProperties
    <3>3. PICK c \in Seq(Items) : c = Append(b, it)
      BY <3>2
    <3>4. r = [prevAcc |-> a, items |-> c]
      BY <2>2, <3>1, <3>3 DEF Queues
    <3>5. r \in Queues /\ All(r) = a \o c
      BY <3>4, QueueIs
    <3>6. a \o b = p
      BY <2>2, <3>1 DEF All
    <3> QED
      BY <1>4, <3>2, <3>3, <3>5, <3>6
  <2> QED
    BY <2>1, <2>2 DEF Queued, All
<1> QED
  BY <1>3, <1>5 DEF GoodQueue

(***************************************************************************)
(* The reader.                                                             *)
(***************************************************************************)
\* A step of the reader that leaves the core alone
LEMMA CoreAlone ==
  ASSUME ReaderInv, UNCHANGED <<chain, log, coreVars>>, late' \subseteq late, TypeOK',
         GoodQueue(sequencerFeedQueue', Settled),
         currentHeight' <= SettledHeight,
         pc' = "batches" => to' <= currentHeight' /\ delayedMessages'.acc = Delayed(to'),
         pc' # "start" => lastAcc' = db
  PROVE  ReaderInv'
<1>1. UNCHANGED <<chain, log, db, delayedDb, coreError>>
  BY DEF coreVars
<1>2. Height' = Height /\ SettledHeight' = SettledHeight /\ Settled' = Settled
  BY <1>1, ChainStill
<1>3. Delayed(to') = Delayed(to)'
  BY <1>1 DEF Delayed
<1>4. ChainInv'
  BY <1>1, <1>2 DEF ReaderInv, ChainInv
<1>5. ItemsInv'
  BY <1>1, <1>2 DEF ReaderInv, ItemsInv, GoodLogs
<1>6. CoreInv'
  <2>1. InOrder(db') /\ Within(db', delayedDb') /\ IsPrefix(delayedDb', Settled') /\ ~coreError'
    BY <1>1, <1>2 DEF ReaderInv, CoreInv
  <2> QED
    BY <1>1, <1>2, <1>3, <2>1 DEF CoreInv
<1> QED
  BY <1>4, <1>5, <1>6 DEF ReaderInv

\* What the invariant says, for the steps of the reader
LEMMA ReaderFacts ==
  ASSUME ReaderInv
  PROVE  /\ TypeOK /\ ChainInv /\ ItemsInv /\ CoreInv
         /\ SettledHeight \in Nat \ {0} /\ Settled \in Seq(Messages)
         /\ Height \in Nat \ {0} /\ SettledHeight <= Height
         /\ GoodQueue(sequencerFeedQueue, Settled) /\ GoodQueue(EmptyQueue, Settled)
<1>1. TypeOK /\ ChainInv /\ ItemsInv /\ CoreInv
  BY DEF ReaderInv
<1>2. SettledHeight \in 1 .. Height /\ Settled \in Seq(Messages) /\ Height \in Nat \ {0}
  BY <1>1, SettledIs, BlockTypes
<1>3. GoodQueue(sequencerFeedQueue, Settled) /\ GoodQueue(EmptyQueue, Settled)
  BY <1>1, NormalGood DEF ItemsInv
<1> QED
  BY <1>1, <1>2, <1>3

\* The empty values have their types.
LEMMA EmptyTypes ==
  /\ NoMessages \in [acc : Seq(Messages), first : Nat \ {0}]
  /\ EmptyQueue \in Queues
  /\ <<>> \in Seq(Items) /\ <<>> \in Seq(Messages)
<1>1. <<>> \in Seq(Items) /\ <<>> \in Seq(Messages)
  BY EmptySeq
<1>2. NoMessages \in [acc : Seq(Messages), first : Nat \ {0}]
  BY <1>1 DEF NoMessages
<1>3. EmptyQueue \in Queues
  BY <1>1, QueueIs DEF EmptyQueue
<1> QED
  BY <1>1, <1>2, <1>3

\* getNextBlockToRead
LEMMA StartStep ==
  ASSUME ReaderInv, Start
  PROVE  ReaderInv'
<1>1. /\ TypeOK /\ ItemsInv /\ CoreInv
      /\ SettledHeight \in Nat \ {0} /\ GoodQueue(sequencerFeedQueue, Settled)
  BY ReaderFacts
<1>2. GoodQueue(sequencerFeedQueue', Settled)
  BY <1>1, UnreadGood, Types DEF Start
<1>3. from' \in Nat
  <2>1. CASE db = <<>>
    BY <2>1 DEF Start, FirstMessageBlock
  <2>2. CASE db # <<>>
    <3>1. db \in Seq(Items) /\ Len(db) \in Nat \ {0}
      BY <1>1, <2>2, Types, EmptySeq
    <3>2. Last(db) \in Items
      <4>1. Len(db) \in 1 .. Len(db)
        BY <3>1
      <4> QED
        BY <3>1, <4>1, ElementOfSeq DEF Last
    <3>3. Last(db).at \in Nat
      BY <3>2 DEF Items
    <3>4. Last(db).at - Recheck \in Int
      BY <3>3, ConstantAssumption
    <3>5. from' = Max({0, Last(db).at - Recheck})
      BY <2>2 DEF Start
    <3> QED
      BY <3>4, <3>5, MaxOfTwo
  <2> QED
    BY <2>1, <2>2
<1>4. TypeOK'
  <2>1. sequencerFeedQueue' \in Queues
    BY <1>2 DEF GoodQueue
  <2> QED
    BY <1>1, <1>3, <2>1 DEF TypeOK, Start, envVars, coreVars, passVars, modeVars
<1> QED
  BY <1>1, <1>2, <1>4, CoreAlone DEF Start, CoreInv, passVars, envVars

\* A pass begins.
LEMMA BeginStep ==
  ASSUME ReaderInv, BeginPass
  PROVE  ReaderInv'
<1>1. /\ TypeOK /\ CoreInv /\ SettledHeight \in Nat \ {0} /\ Height \in Nat \ {0}
      /\ GoodQueue(sequencerFeedQueue, Settled)
  BY ReaderFacts
<1>2. currentHeight' \in Nat /\ currentHeight' <= SettledHeight
  <2>1. currentHeight' = IF 1 >= Height - DelayBlocks THEN 1 ELSE Height - DelayBlocks
    BY <1>1, ConstantAssumption, MaxOfTwo DEF BeginPass
  <2>2. SettledHeight = IF 1 >= Height - MaxReorg THEN 1 ELSE Height - MaxReorg
    BY <1>1, SettledIs
  <2>3. DelayBlocks \in Nat /\ MaxReorg \in Nat /\ MaxReorg <= DelayBlocks
    BY ConstantAssumption, DepthAssumption
  <2> PICK h \in Nat \ {0} : h = Height
    BY <1>1
  <2> QED
    BY <2>1, <2>2, <2>3
<1>3. TypeOK'
  BY <1>1, <1>2 DEF TypeOK, BeginPass, envVars, coreVars, feedVars, modeVars
<1> QED
  BY <1>1, <1>2, <1>3, CoreAlone DEF BeginPass, CoreInv, feedVars, Running, envVars

\* The comparison with the latest accumulators
LEMMA CompareStep ==
  ASSUME ReaderInv, CompareCounts
  PROVE  ReaderInv'
<1>1. TypeOK /\ CoreInv /\ GoodQueue(sequencerFeedQueue, Settled)
  BY ReaderFacts
<1>2. reorgingDelayed' \in BOOLEAN /\ reorgingSequencer' \in BOOLEAN
  BY DEF CompareCounts
<1>3. TypeOK'
  BY <1>1, <1>2 DEF TypeOK, CompareCounts, envVars, coreVars, feedVars, modeVars
<1> QED
  BY <1>1, <1>3, CoreAlone DEF CompareCounts, CoreInv, feedVars, Running, envVars

\* The variables of a pass have their types when it is over.
LEMMA PassOverTypes ==
  ASSUME PassOver
  PROVE  /\ to' \in Nat /\ currentHeight' = 0
         /\ reorgingDelayed' \in BOOLEAN /\ reorgingSequencer' \in BOOLEAN
         /\ delayedMessages' \in [acc : Seq(Messages), first : Nat \ {0}]
BY EmptyTypes DEF PassOver

\* A pass ends.
LEMMA EndStep ==
  ASSUME ReaderInv, EndPass
  PROVE  ReaderInv'
<1>1. /\ TypeOK /\ CoreInv /\ SettledHeight \in Nat \ {0} /\ GoodQueue(sequencerFeedQueue, Settled)
  BY ReaderFacts
<1>2. TypeOK'
  <2>1. PassOver /\ pc' = "feed" /\ missingFeedDelayedReference' = FALSE
    BY DEF EndPass
  <2>2. UNCHANGED <<chain, log, late, faults, delayedDb, db, coreError, from, sequencerFeedQueue,
                    lastAcc, caughtUp, temporarilyParanoid>>
    BY DEF EndPass, envVars, coreVars, modeVars
  <2>3. /\ to' \in Nat /\ currentHeight' \in Nat
        /\ reorgingDelayed' \in BOOLEAN /\ reorgingSequencer' \in BOOLEAN
        /\ delayedMessages' \in [acc : Seq(Messages), first : Nat \ {0}]
    BY <2>1, PassOverTypes
  <2> QED
    BY <1>1, <2>1, <2>2, <2>3 DEF TypeOK
<1> QED
  BY <1>1, <1>2, CoreAlone DEF EndPass, PassOver, CoreInv, Running, envVars

\* A call fails, or the process dies.
LEMMA FailStep ==
  ASSUME ReaderInv, ReadFails \/ Restart
  PROVE  ReaderInv'
<1>1. /\ TypeOK /\ CoreInv /\ SettledHeight \in Nat \ {0}
      /\ GoodQueue(sequencerFeedQueue, Settled) /\ GoodQueue(EmptyQueue, Settled)
  BY ReaderFacts
<1>2. CASE ReadFails
  <2>1. TypeOK'
    <3>1. /\ PassOver /\ pc' = "start" /\ from' \in Nat
          /\ temporarilyParanoid' \in BOOLEAN /\ missingFeedDelayedReference' \in BOOLEAN
      BY <1>2 DEF ReadFails, Errs
    <3>2. UNCHANGED <<chain, log, late, delayedDb, db, coreError, sequencerFeedQueue, lastAcc, caughtUp>>
      BY <1>2 DEF ReadFails, envVars, coreVars
    <3>3. /\ to' \in Nat /\ currentHeight' \in Nat
          /\ reorgingDelayed' \in BOOLEAN /\ reorgingSequencer' \in BOOLEAN
          /\ delayedMessages' \in [acc : Seq(Messages), first : Nat \ {0}]
      BY <3>1, PassOverTypes
    <3>4. faults' \in Nat
      BY <1>1, <1>2, Types DEF ReadFails, GoesWrong
    <3> QED
      BY <1>1, <3>1, <3>2, <3>3, <3>4 DEF TypeOK
  <2> QED
    BY <1>1, <1>2, <2>1, CoreAlone DEF ReadFails, Errs, PassOver, envVars
<1>3. CASE Restart
  <2>1. TypeOK'
    <3>1. /\ PassOver /\ pc' = "start" /\ from' \in Nat
          /\ temporarilyParanoid' \in BOOLEAN /\ missingFeedDelayedReference' \in BOOLEAN
          /\ caughtUp' \in BOOLEAN /\ sequencerFeedQueue' \in Queues /\ lastAcc' \in Seq(Items)
      BY <1>3, EmptyTypes DEF Restart
    <3>2. UNCHANGED <<chain, log, late, delayedDb, db, coreError>>
      BY <1>3 DEF Restart, envVars, coreVars
    <3>3. /\ to' \in Nat /\ currentHeight' \in Nat
          /\ reorgingDelayed' \in BOOLEAN /\ reorgingSequencer' \in BOOLEAN
          /\ delayedMessages' \in [acc : Seq(Messages), first : Nat \ {0}]
      BY <3>1, PassOverTypes
    <3>4. faults' \in Nat
      BY <1>1, <1>3, Types DEF Restart, GoesWrong
    <3> QED
      BY <1>1, <3>1, <3>2, <3>3, <3>4 DEF TypeOK
  <2> QED
    BY <1>1, <1>3, <2>1, CoreAlone DEF Restart, PassOver, envVars
<1> QED
  BY <1>2, <1>3

\* LookupMessagesInRange
LEMMA LookupDelayedStep ==
  ASSUME ReaderInv, NEW w \in Windows, LookupDelayed(w)
  PROVE  ReaderInv'
<1>1. /\ TypeOK /\ CoreInv /\ SettledHeight \in Nat \ {0} /\ Height \in Nat \ {0}
      /\ SettledHeight <= Height /\ GoodQueue(sequencerFeedQueue, Settled)
  BY ReaderFacts
<1>2. w \in Nat /\ from \in Nat /\ currentHeight \in Nat /\ currentHeight <= SettledHeight
  BY <1>1, ConstantAssumption, Types DEF CoreInv
<1> PICK start : start = IF from >= currentHeight THEN Max({0, currentHeight - w}) ELSE from
  OBVIOUS
<1>3. start \in Nat /\ start <= currentHeight
  BY <1>2, MaxOfTwo
<1> PICK end : end = Min({start + w, currentHeight})
  OBVIOUS
<1>4. end \in Nat /\ end <= currentHeight
  BY <1>2, <1>3, MinOfTwo
<1>5. Min({end, Height}) = end
  <2>1. end <= Height
    BY <1>1, <1>2, <1>4
  <2>2. end \in Int /\ Height \in Int
    BY <1>1, <1>4
  <2>3. Min({end, Height}) = IF end <= Height THEN end ELSE Height
    BY <2>2, MinOfTwo, Zenon
  <2> QED
    BY <2>1, <2>3
<1>6. /\ from' = start /\ to' = end /\ pc' = "batches"
      /\ delayedMessages' = [acc |-> Delayed(end), first |-> Len(Delayed(start - 1)) + 1]
      /\ UNCHANGED <<envVars, faults, coreVars, currentHeight, reorgingDelayed,
                     reorgingSequencer, feedVars, modeVars>>
  BY <1>5 DEF LookupDelayed
<1>7. delayedMessages' \in [acc : Seq(Messages), first : Nat \ {0}]
  <2>1. end <= Height /\ start - 1 \in Int /\ start - 1 <= Height
    BY <1>1, <1>2, <1>3, <1>4
  <2>2. Delayed(end) \in Seq(Messages) /\ Delayed(start - 1) \in Seq(Messages)
    BY <1>1, <1>4, <2>1, BlockTypes
  <2>3. Len(Delayed(start - 1)) + 1 \in Nat \ {0}
    BY <2>2, LenProperties
  <2> QED
    BY <1>6, <2>2, <2>3
<1>8. TypeOK'
  BY <1>1, <1>3, <1>4, <1>6, <1>7 DEF TypeOK, envVars, coreVars, feedVars, modeVars
<1>9. delayedMessages'.acc = Delayed(to')
  <2>1. delayedMessages'.acc = Delayed(end)
    BY <1>6
  <2> QED
    BY <1>6, <2>1
<1>10. lastAcc' = db
  BY <1>1, <1>6 DEF LookupDelayed, Running, CoreInv, feedVars
<1> QED
  BY <1>1, <1>2, <1>4, <1>6, <1>8, <1>9, <1>10, CoreAlone DEF feedVars, envVars

\* The window lies in settled blocks.
LEMMA WindowIs ==
  ASSUME ReaderInv, pc = "batches"
  PROVE  /\ from \in Nat /\ to \in Nat /\ to <= SettledHeight /\ to <= Height
         /\ BatchBlocks = {n \in from .. to : Batches(n) # Batches(n - 1)}
         /\ BatchBlocks \in SUBSET Nat /\ NewBatchBlocks \in SUBSET Nat
         /\ NewBatchBlocks \in SUBSET BatchBlocks
         /\ delayedMessages.acc = Delayed(to) /\ delayedMessages.acc \in Seq(Messages)
         /\ delayedMessages.first \in Nat \ {0}
<1>1. /\ TypeOK /\ CoreInv /\ SettledHeight \in Nat \ {0} /\ Height \in Nat \ {0}
      /\ SettledHeight <= Height
  BY ReaderFacts
<1>2. /\ from \in Nat /\ to \in Nat /\ currentHeight \in Nat
      /\ delayedMessages \in [acc : Seq(Messages), first : Nat \ {0}]
  BY <1>1, Types
<1>3. to <= currentHeight /\ currentHeight <= SettledHeight /\ delayedMessages.acc = Delayed(to)
  BY <1>1 DEF CoreInv
<1>4. to <= SettledHeight /\ to <= Height
  BY <1>1, <1>2, <1>3
<1>5. Min({to, Height}) = to
  <2>1. to \in Int /\ Height \in Int
    BY <1>1, <1>2
  <2>2. Min({to, Height}) = IF to <= Height THEN to ELSE Height
    BY <2>1, MinOfTwo, Zenon
  <2> QED
    BY <1>4, <2>2
<1>6. BatchBlocks = {n \in from .. to : Batches(n) # Batches(n - 1)}
  BY <1>5 DEF BatchBlocks
<1>7. BatchBlocks \in SUBSET Nat
  BY <1>2, <1>6
<1>8. NewBatchBlocks \in SUBSET BatchBlocks
  BY DEF NewBatchBlocks
<1> QED
  BY <1>2, <1>3, <1>4, <1>6, <1>7, <1>8

\* Where the new batches begin, the database has what comes before: it has
\* what comes before the window, and the batches of the window up to there.
LEMMA FirstFits ==
  ASSUME ReaderInv, pc = "batches", ~ReorgsSequencer, NewBatchBlocks # {}
  PROVE  IsPrefix(FirstBeforeAcc(NewBatchBlocks), db)
<1>1. /\ from \in Nat /\ to \in Nat /\ to <= Height
      /\ BatchBlocks = {n \in from .. to : Batches(n) # Batches(n - 1)}
      /\ BatchBlocks \in SUBSET Nat /\ NewBatchBlocks \in SUBSET Nat
      /\ NewBatchBlocks \in SUBSET BatchBlocks /\ BatchBlocks # {}
  BY WindowIs
<1> PICK b : b = Min(BatchBlocks)
  OBVIOUS
<1> PICK m : m = Min(NewBatchBlocks)
  OBVIOUS
<1>2. b \in BatchBlocks /\ \A n \in BatchBlocks : b <= n
  BY <1>1, MinOf
<1>3. m \in NewBatchBlocks /\ \A n \in NewBatchBlocks : m <= n
  BY <1>1, MinOf
<1>4. b \in from .. to /\ m \in from .. to /\ b <= m
  BY <1>1, <1>2, <1>3
<1>5. IsPrefix(Batches(b - 1), db)
  BY <1>1 DEF ReorgsSequencer, FirstBeforeAcc
<1> DEFINE T == {k \in b .. m - 1 : ~IsPrefix(Batches(k), db)}
<1>6. T = {}
  <2> SUFFICES ASSUME T # {}
               PROVE  FALSE
    OBVIOUS
  <2>1. T \in SUBSET Nat
    BY <1>1, <1>4
  <2>2. PICK k \in T : \A j \in T : k <= j
    BY <2>1, LeastOf
  <2>3. k \in b .. m - 1 /\ ~IsPrefix(Batches(k), db) /\ k \in Nat
    BY <2>1, <2>2
  <2>4. k - 1 \notin T
    BY <2>2, <2>3
  <2>5. IsPrefix(Batches(k - 1), db)
    <3>1. CASE k = b
      BY <1>5, <3>1
    <3>2. CASE k # b
      <4>1. k - 1 \in b .. m - 1
        BY <1>1, <1>4, <2>3, <3>2
      <4> QED
        BY <2>4, <4>1
    <3> QED
      BY <3>1, <3>2
  <2>6. Batches(k) # Batches(k - 1) /\ k \in from .. to
    BY <1>1, <1>4, <2>3, <2>5
  <2>7. k \in NewBatchBlocks
    BY <1>1, <2>3, <2>6 DEF NewBatchBlocks
  <2>8. ~(m <= k)
    BY <1>1, <1>4, <2>3
  <2> QED
    BY <1>3, <2>7, <2>8
<1>7. IsPrefix(Batches(m - 1), db)
  <2>1. CASE m = b
    BY <1>5, <2>1
  <2>2. CASE m # b
    <3>1. m - 1 \in b .. m - 1
      BY <1>1, <1>4, <2>2
    <3> QED
      BY <1>6, <3>1
  <2> QED
    BY <2>1, <2>2
<1> QED
  BY <1>7 DEF FirstBeforeAcc

\* Every new item comes from one of the new batches.
LEMMA ItemsBatch ==
  ASSUME ReaderInv, pc = "batches", NewBatchBlocks # {},
         NEW m \in NewBatchBlocks, NEW x \in NewBatchBlocks,
         \A n \in NewBatchBlocks : m <= n,
         NEW i \in Len(Batches(m - 1)) + 1 .. Len(Batches(x))
  PROVE  \E n \in NewBatchBlocks : /\ n <= x
                                   /\ i \in Len(Batches(n - 1)) + 1 .. Len(Batches(n))
<1>1. /\ from \in Nat /\ to \in Nat /\ to <= Height
      /\ BatchBlocks = {n \in from .. to : Batches(n) # Batches(n - 1)}
      /\ m \in from .. to /\ x \in from .. to /\ m <= x
      /\ m \in Nat /\ x \in Nat
  BY WindowIs
<1>2. TypeOK /\ ChainInv /\ Height \in Nat /\ db \in Seq(Items)
  BY ReaderFacts, Types
<1>3. \A n \in m - 1 .. x : n \in Int /\ n <= Height /\ Len(Batches(n)) \in Nat
  <2> TAKE n \in m - 1 .. x
  <2>1. n \in Int /\ n <= Height
    BY <1>1, <1>2
  <2>2. Batches(n) \in Seq(Items)
    BY <1>2, <2>1, BlockTypes
  <2> QED
    BY <2>1, <2>2, LenProperties
<1> DEFINE T == {n \in m .. x : Len(Batches(n)) >= i}
<1>4. T \in SUBSET Nat /\ x \in T
  <2>1. Len(Batches(x)) \in Nat /\ Len(Batches(m - 1)) \in Nat
    BY <1>1, <1>3
  <2>2. Len(Batches(x)) >= i
    BY <2>1
  <2> QED
    BY <1>1, <2>2
<1>5. PICK k \in T : \A j \in T : k <= j
  BY <1>4, LeastOf
<1>6. k \in m .. x /\ Len(Batches(k)) >= i
  BY <1>5
<1>7. k \in m - 1 .. x /\ k - 1 \in m - 1 .. x
  BY <1>1, <1>6
<1>8. Len(Batches(k - 1)) < i
  <2>1. Len(Batches(k - 1)) \in Nat /\ i \in Int
    BY <1>1, <1>3, <1>7
  <2>2. CASE k = m
    BY <2>1, <2>2
  <2>3. CASE k # m
    <3>1. k - 1 \in m .. x /\ ~(k <= k - 1)
      BY <1>1, <1>6, <2>3
    <3>2. k - 1 \notin T
      BY <1>5, <3>1
    <3>3. ~(Len(Batches(k - 1)) >= i)
      BY <3>1, <3>2
    <3> QED
      BY <2>1, <3>3
  <2> QED
    BY <2>2, <2>3
<1>9. i \in Len(Batches(k - 1)) + 1 .. Len(Batches(k))
  <2>1. Len(Batches(k - 1)) \in Nat /\ Len(Batches(k)) \in Nat /\ Len(Batches(m - 1)) \in Nat
    BY <1>1, <1>3, <1>7
  <2> QED
    BY <1>6, <1>8, <2>1
<1>10. k \in BatchBlocks
  <2>1. Len(Batches(k)) # Len(Batches(k - 1))
    BY <1>3, <1>6, <1>7, <1>8
  <2>2. k \in from .. to
    BY <1>1, <1>6
  <2> QED
    BY <1>1, <2>1, <2>2
<1>11. ~IsPrefix(Batches(k), db)
  <2>1. ~IsPrefix(Batches(m), db)
    BY DEF NewBatchBlocks
  <2>2. m \in Int /\ k \in Int /\ m <= k /\ k <= Height /\ m <= Height
    BY <1>1, <1>2, <1>6
  <2>3. IsPrefix(Batches(m), Batches(k)) /\ Batches(m) \in Seq(Items) /\ Batches(k) \in Seq(Items)
    BY <1>2, <2>2, InboxesGrow, BlockTypes
  <2> QED
    BY <1>2, <2>1, <2>3, PrefixTrans
<1>12. k \in NewBatchBlocks /\ k <= x
  BY <1>1, <1>6, <1>10, <1>11 DEF NewBatchBlocks
<1> QED
  BY <1>9, <1>12

\* What a batch of the window reads is there by the end of the window.
LEMMA BatchReads ==
  ASSUME ReaderInv, pc = "batches", NEW x \in NewBatchBlocks
  PROVE  /\ Batches(x) \in Seq(Items) /\ InOrder(Batches(x))
         /\ Within(Batches(x), delayedMessages.acc)
<1>1. /\ to \in Nat /\ to <= Height /\ x \in Nat /\ x <= to
      /\ delayedMessages.acc = Delayed(to) /\ delayedMessages.acc \in Seq(Messages)
  BY WindowIs
<1>2. TypeOK /\ ChainInv /\ ItemsInv /\ Height \in Nat \ {0} /\ log \in Seq(Items)
  BY ReaderFacts, Types
<1>3. x <= Height /\ x \in Int /\ Height \in Int /\ to \in Int
  BY <1>1, <1>2
<1> PICK s \in Seq(Items) : s = Batches(x)
  BY <1>2, <1>3, BlockTypes
<1>4. InOrder(s)
  <2> PICK t \in Seq(Items) : t = Batches(Height)
    BY <1>2, <1>3, BlockTypes
  <2>1. IsPrefix(s, t)
    BY <1>2, <1>3, InboxesGrow
  <2>2. IsPrefix(t, log)
    BY <1>2 DEF ChainInv, Batches, FirstMessageBlock
  <2>3. IsPrefix(s, log)
    BY <1>2, <2>1, <2>2, PrefixTrans
  <2> QED
    BY <1>2, <2>3, BeginningInOrder DEF ItemsInv
<1>5. Within(s, delayedMessages.acc)
  <2>1. CASE x < 1
    <3>1. s = <<>>
      BY <2>1 DEF Batches, FirstMessageBlock
    <3> QED
      BY <3>1, EmptySeq DEF Within
  <2>2. CASE ~(x < 1)
    <3>1. x \in 1 .. Height
      BY <1>2, <1>3, <2>2
    <3> PICK d \in Seq(Messages) : d = Delayed(x)
      BY <1>2, <1>3, BlockTypes
    <3>2. Within(s, d)
      BY <1>2, <2>2, <3>1 DEF ChainInv, Batches, Delayed, FirstMessageBlock
    <3>3. IsPrefix(d, Delayed(to))
      BY <1>1, <1>2, <1>3, InboxesGrow
    <3> QED
      BY <1>1, <3>2, <3>3, WithinLonger
  <2> QED
    BY <2>1, <2>2
<1> QED
  BY <1>4, <1>5

\* What the reader delivers after its checks is what ArbCore accepts.
LEMMA DeliveryFits ==
  ASSUME ReaderInv, pc = "batches", ~ReorgsSequencer, ~ReorgsDelayed, ~MissingDelayed,
         NEW prevAcc, NEW new, NEW items, NEW delayed,
         prevAcc = IF NewBatchBlocks = {} THEN <<>> ELSE FirstBeforeAcc(NewBatchBlocks),
         new = IF NewBatchBlocks = {} THEN <<>> ELSE Batches(Max(NewBatchBlocks)),
         items = SubSeq(new, Len(prevAcc) + 1, Len(new)),
         delayed = IF HasDelayed THEN delayedMessages.acc ELSE <<>>
  PROVE  /\ Deliverable(prevAcc, items, delayed, delayedMessages.first, Settled)
         /\ prevAcc \in Seq(Items) /\ new \in Seq(Items)
         /\ items # <<>> => prevAcc \o items = new
<1>1. /\ from \in Nat /\ to \in Nat /\ to <= SettledHeight /\ to <= Height
      /\ BatchBlocks \in SUBSET (from .. to)
      /\ NewBatchBlocks \in SUBSET Nat /\ NewBatchBlocks \in SUBSET BatchBlocks
      /\ delayedMessages.acc = Delayed(to) /\ delayedMessages.acc \in Seq(Messages)
      /\ delayedMessages.first \in Nat \ {0}
  BY WindowIs
<1>2. /\ TypeOK /\ ChainInv /\ CoreInv /\ Settled \in Seq(Messages)
      /\ Height \in Nat \ {0} /\ SettledHeight \in Nat /\ SettledHeight <= Height
      /\ db \in Seq(Items) /\ delayedDb \in Seq(Messages) /\ IsPrefix(delayedDb, Settled)
  BY ReaderFacts, Types DEF CoreInv
<1> PICK first \in Nat \ {0} : first = delayedMessages.first
  BY <1>1
<1> PICK acc \in Seq(Messages) : acc = delayedMessages.acc
  BY <1>1
<1>3. IsPrefix(acc, Settled)
  <2>1. to \in Int /\ SettledHeight \in Int
    BY <1>1, <1>2
  <2> QED
    BY <1>1, <1>2, <2>1, InboxesGrow DEF Settled
<1>4. /\ delayed \in Seq(Messages) /\ IsPrefix(delayed, Settled)
      /\ Len(delayed) >= first => IsPrefix(SubSeq(delayed, 1, first - 1), delayedDb)
  <2>1. CASE HasDelayed
    <3>1. IsPrefix(SubSeq(acc, 1, first - 1), delayedDb)
      BY <2>1 DEF ReorgsDelayed
    <3> QED
      BY <1>3, <2>1, <3>1
  <2>2. CASE ~HasDelayed
    <3>1. delayed = <<>> /\ delayed \in Seq(Messages) /\ Len(delayed) = 0
      BY <2>2, EmptySeq
    <3>2. IsPrefix(delayed, Settled)
      BY <1>2, <3>1, PrefixOrder
    <3> QED
      BY <3>1, <3>2
  <2> QED
    BY <2>1, <2>2
<1>5. CASE NewBatchBlocks = {}
  <2>1. prevAcc = <<>> /\ new = <<>> /\ <<>> \in Seq(Items) /\ Len(<<>>) = 0
    BY <1>5, EmptySeq
  <2>2. items = <<>>
    BY <2>1
  <2> QED
    BY <1>2, <1>4, <2>1, <2>2 DEF Deliverable
<1>6. CASE NewBatchBlocks # {}
  <2> PICK m : m = Min(NewBatchBlocks)
    OBVIOUS
  <2> PICK x : x = Max(NewBatchBlocks)
    OBVIOUS
  <2>1. m \in NewBatchBlocks /\ \A n \in NewBatchBlocks : m <= n
    BY <1>1, <1>6, MinOf
  <2>2. x \in NewBatchBlocks
    <3>1. NewBatchBlocks \in SUBSET (0 .. to)
      BY <1>1
    <3> QED
      BY <1>1, <1>6, <3>1, MaxOf
  <2>3. m \in from .. to /\ x \in from .. to /\ m <= x
    BY <1>1, <2>1, <2>2
  <2>4. prevAcc = Batches(m - 1) /\ new = Batches(x)
    BY <1>6 DEF FirstBeforeAcc
  <2>5. m - 1 \in Int /\ x \in Int /\ m - 1 <= x /\ x <= Height /\ m - 1 <= Height
    BY <1>1, <1>2, <2>3
  <2>6. prevAcc \in Seq(Items) /\ new \in Seq(Items) /\ IsPrefix(prevAcc, new)
    BY <1>2, <2>4, <2>5, BlockTypes, InboxesGrow
  <2>7. items \in Seq(Items) /\ prevAcc \o items = new
    <3>1. Len(prevAcc) \in 0 .. Len(new) /\ prevAcc = SubSeq(new, 1, Len(prevAcc))
      BY <2>6, PrefixIsBeginning
    <3> PICK n \in 0 .. Len(new) : n = Len(prevAcc)
      BY <3>1
    <3>2. /\ SubSeq(new, n + 1, Len(new)) \in Seq(Items)
          /\ SubSeq(new, 1, n) \o SubSeq(new, n + 1, Len(new)) = new
      BY <2>6, CutInTwo, Zenon
    <3> QED
      BY <3>1, <3>2
  <2>8. IsPrefix(prevAcc, db) /\ ~IsPrefix(new, db)
    <3>1. IsPrefix(prevAcc, db)
      BY <1>6, FirstFits
    <3>2. ~IsPrefix(new, db)
      BY <2>2, <2>4 DEF NewBatchBlocks
    <3> QED
      BY <3>1, <3>2
  <2>9. InOrder(new) /\ Within(new, acc)
    BY <2>2, <2>4, BatchReads
  <2>10. ASSUME NEW i \in Len(prevAcc) + 1 .. Len(new)
         PROVE  IsPrefix(new[i].delayedAcc, NewDelayed(delayed))
    <3>1. Len(prevAcc) \in Nat /\ Len(new) \in Nat /\ i \in DOMAIN new /\ i \in 1 .. Len(new)
      <4>1. Len(prevAcc) \in Nat /\ Len(new) \in Nat /\ DOMAIN new = 1 .. Len(new)
        BY <2>6, LenProperties
      <4> QED
        BY <4>1
    <3>2. new[i].delayedAcc \in Seq(Messages)
      <4>1. new[i] \in Items
        BY <2>6, <3>1, ElementOfSeq
      <4> QED
        BY <4>1 DEF Items
    <3>3. CASE HasDelayed
      <4>1. delayed = acc
        BY <3>3
      <4>2. IsPrefix(new[i].delayedAcc, acc)
        BY <2>9, <3>1 DEF Within
      <4>3. NewDelayed(acc) \in Seq(Messages) /\ IsPrefix(acc, NewDelayed(acc))
        BY <1>2, <1>3, NewDelayedIs
      <4>4. IsPrefix(new[i].delayedAcc, NewDelayed(acc))
        BY <3>2, <4>2, <4>3, PrefixTrans
      <4> QED
        BY <4>1, <4>4
    <3>4. CASE ~HasDelayed
      <4>1. PICK n \in NewBatchBlocks : /\ n <= x
                                        /\ i \in Len(Batches(n - 1)) + 1 .. Len(Batches(n))
        BY <1>6, <2>1, <2>2, <2>4, ItemsBatch
      <4>2. IsPrefix(Batches(n)[i].delayedAcc, delayedDb)
        BY <3>4, <4>1 DEF MissingDelayed
      <4>3. n \in Int /\ n <= Height
        BY <1>1, <1>2, <2>5, <4>1
      <4>4. Batches(n) \in Seq(Items) /\ IsPrefix(Batches(n), new)
        BY <1>2, <2>4, <2>5, <4>1, <4>3, BlockTypes, InboxesGrow
      <4>5. Batches(n)[i] = new[i]
        <5>1. PICK s \in Seq(Items) : s = Batches(n)
          BY <4>4
        <5>2. i \in 1 .. Len(s) /\ IsPrefix(s, new)
          BY <3>1, <4>1, <4>4, <5>1, LenProperties
        <5>3. s[i] = new[i]
          BY <2>6, <5>2, PrefixIs
        <5> QED
          BY <5>1, <5>3
      <4>6. NewDelayed(delayed) = delayedDb
        <5>1. delayed = <<>> /\ IsPrefix(<<>>, delayedDb)
          BY <1>2, <3>4, PrefixOrder
        <5> QED
          BY <5>1 DEF NewDelayed
      <4> QED
        BY <4>2, <4>5, <4>6
    <3> QED
      BY <3>3, <3>4
  <2>11. Deliverable(prevAcc, items, delayed, first, Settled)
    BY <1>2, <1>4, <2>6, <2>7, <2>8, <2>9, <2>10 DEF Deliverable
  <2> QED
    BY <2>6, <2>7, <2>11
<1> QED
  BY <1>5, <1>6

\* A step of the reader that changes the core
LEMMA CoreChanges ==
  ASSUME ReaderInv, UNCHANGED <<chain, log>>, late' \subseteq late, TypeOK',
         GoodQueue(sequencerFeedQueue', Settled),
         currentHeight' <= SettledHeight,
         pc' # "batches", lastAcc' = db',
         InOrder(db'), Within(db', delayedDb'), IsPrefix(delayedDb', Settled), ~coreError'
  PROVE  ReaderInv'
<1>1. UNCHANGED <<chain, log>>
  OBVIOUS
<1>2. Height' = Height /\ SettledHeight' = SettledHeight /\ Settled' = Settled
  BY <1>1, ChainStill
<1>3. ChainInv'
  BY <1>1, <1>2 DEF ReaderInv, ChainInv
<1>4. ItemsInv'
  BY <1>1, <1>2 DEF ReaderInv, ItemsInv, GoodLogs
<1>5. CoreInv'
  BY <1>2 DEF CoreInv
<1> QED
  BY <1>3, <1>4, <1>5 DEF ReaderInv

\* addMessages, when the checks before it were passed
LEMMA DeliverStep ==
  ASSUME ReaderInv, pc = "batches", ~ReorgsSequencer, ~ReorgsDelayed, ~MissingDelayed,
         Deliver(NewBatchBlocks)
  PROVE  /\ db' \in Seq(Items) /\ delayedDb' \in Seq(Messages) /\ coreError' = FALSE
         /\ lastAcc' = db' /\ GoodQueue(sequencerFeedQueue', Settled)
         /\ InOrder(db') /\ Within(db', delayedDb') /\ IsPrefix(delayedDb', Settled)
<1>1. PICK prevAcc, new, items, delayed, first :
        /\ prevAcc = IF NewBatchBlocks = {} THEN <<>> ELSE FirstBeforeAcc(NewBatchBlocks)
        /\ new = IF NewBatchBlocks = {} THEN <<>> ELSE Batches(Max(NewBatchBlocks))
        /\ items = SubSeq(new, Len(prevAcc) + 1, Len(new))
        /\ delayed = IF HasDelayed THEN delayedMessages.acc ELSE <<>>
        /\ first = delayedMessages.first
  OBVIOUS
<1>2. /\ Deliverable(prevAcc, items, delayed, first, Settled)
      /\ prevAcc \in Seq(Items) /\ new \in Seq(Items)
      /\ items # <<>> => prevAcc \o items = new
  BY <1>1, DeliveryFits
<1>3. /\ TypeOK /\ CoreInv /\ db \in Seq(Items) /\ delayedDb \in Seq(Messages)
      /\ InOrder(db) /\ Within(db, delayedDb) /\ lastAcc = db
      /\ GoodQueue(sequencerFeedQueue, Settled)
  BY ReaderFacts, Types DEF CoreInv
<1>4. Acceptable(prevAcc, items, delayed, first)
  BY <1>2, <1>3, Accepts
<1>5. /\ coreError' = ~Acceptable(prevAcc, items, delayed, first)
      /\ ~coreError' => /\ AddMessages(prevAcc, items, delayed)
                        /\ lastAcc' = IF items = <<>> THEN lastAcc ELSE new
                        /\ sequencerFeedQueue' = WithoutDuplicates(prevAcc, new)
  BY <1>1 DEF Deliver
<1>6. coreError' = FALSE
  BY <1>4, <1>5
<1>7. /\ AddMessages(prevAcc, items, delayed)
      /\ lastAcc' = IF items = <<>> THEN lastAcc ELSE new
      /\ sequencerFeedQueue' = WithoutDuplicates(prevAcc, new)
  BY <1>5, <1>6
<1>8. /\ db' = IF items = <<>> THEN db ELSE prevAcc \o items
      /\ db' \in Seq(Items) /\ delayedDb' \in Seq(Messages)
      /\ InOrder(db') /\ Within(db', delayedDb') /\ IsPrefix(delayedDb', Settled)
  BY <1>2, <1>3, <1>7, Adds
<1>9. lastAcc' = db'
  BY <1>2, <1>3, <1>7, <1>8
<1>10. GoodQueue(sequencerFeedQueue', Settled)
  BY <1>2, <1>3, <1>7, WithoutDuplicatesGood
<1> QED
  BY <1>6, <1>8, <1>9, <1>10

\* LookupBatchesInRange and what follows it
LEMMA LookupBatchesStep ==
  ASSUME ReaderInv, NEW w \in Windows, LookupBatches(w)
  PROVE  ReaderInv'
<1>1. /\ TypeOK /\ CoreInv /\ SettledHeight \in Nat \ {0}
      /\ GoodQueue(sequencerFeedQueue, Settled)
      /\ from \in Nat /\ to \in Nat /\ currentHeight \in Nat /\ currentHeight <= SettledHeight
      /\ w \in Nat /\ lastAcc = db
      /\ pc = "batches" /\ UNCHANGED <<envVars, faults>>
  BY ReaderFacts, Types, ConstantAssumption DEF LookupBatches, Running, CoreInv
<1>2. CASE ~(ReorgsSequencer \/ ReorgsDelayed) /\ ~MissingDelayed
  <2>1. /\ Deliver(NewBatchBlocks) /\ from' = NextFrom(w)
        /\ reorgingDelayed' = FALSE /\ reorgingSequencer' = FALSE
        /\ caughtUp' \in {caughtUp, caughtUp \/ to = currentHeight}
        /\ to' = 0 /\ delayedMessages' = NoMessages /\ pc' = "window"
        /\ UNCHANGED <<currentHeight, temporarilyParanoid, missingFeedDelayedReference>>
    BY <1>2 DEF LookupBatches
  <2>2. /\ db' \in Seq(Items) /\ delayedDb' \in Seq(Messages) /\ coreError' = FALSE
        /\ lastAcc' = db' /\ GoodQueue(sequencerFeedQueue', Settled)
        /\ InOrder(db') /\ Within(db', delayedDb') /\ IsPrefix(delayedDb', Settled)
    BY <1>1, <1>2, <2>1, DeliverStep
  <2>3. from' \in Nat
    <3>1. from + w \div 2 \in Nat
      BY <1>1
    <3>2. NextFrom(w) \in Nat
      BY <1>1, <3>1, MinOfTwo DEF NextFrom
    <3> QED
      BY <2>1, <3>2
  <2>4. caughtUp' \in BOOLEAN
    BY <1>1, <2>1 DEF TypeOK
  <2>5. sequencerFeedQueue' \in Queues /\ lastAcc' \in Seq(Items)
    BY <2>2 DEF GoodQueue
  <2>6. delayedMessages' \in [acc : Seq(Messages), first : Nat \ {0}]
    BY <2>1, EmptyTypes
  <2>7. UNCHANGED <<chain, log, late, faults>>
    BY <1>1 DEF envVars
  <2>8. TypeOK'
    BY <1>1, <2>1, <2>2, <2>3, <2>4, <2>5, <2>6, <2>7 DEF TypeOK
  <2> QED
    BY <1>1, <2>1, <2>2, <2>7, <2>8, CoreChanges
<1>3. CASE (ReorgsSequencer \/ ReorgsDelayed) \/ MissingDelayed
  <2>1. /\ GoesBack(ReorgsDelayed \/ ~(ReorgsSequencer \/ ReorgsDelayed), ReorgsSequencer)
        /\ UNCHANGED <<coreVars, lastAcc, sequencerFeedQueue, caughtUp>>
    BY <1>3 DEF LookupBatches
  <2>2. UNCHANGED <<chain, log, late, faults, db, delayedDb, coreError>>
    BY <1>1, <2>1 DEF envVars, coreVars
  <2>3. CASE Errs
    <3>1. /\ to' \in Nat /\ currentHeight' = 0
          /\ reorgingDelayed' \in BOOLEAN /\ reorgingSequencer' \in BOOLEAN
          /\ delayedMessages' \in [acc : Seq(Messages), first : Nat \ {0}]
      BY <2>3, PassOverTypes DEF Errs
    <3>2. /\ pc' = "start" /\ from' = 0 /\ temporarilyParanoid' = TRUE
          /\ missingFeedDelayedReference' = FALSE
      BY <2>3 DEF Errs
    <3>3. TypeOK'
      BY <1>1, <2>1, <2>2, <3>1, <3>2 DEF TypeOK
    <3>4. currentHeight' <= SettledHeight
      BY <1>1, <3>1
    <3> QED
      BY <1>1, <2>1, <2>2, <3>2, <3>3, <3>4, CoreAlone
  <2>4. CASE ~Errs
    <3>1. /\ from' = Max({FirstMessageBlock, from - BackStep})
          /\ reorgingDelayed' = (ReorgsDelayed \/ ~(ReorgsSequencer \/ ReorgsDelayed))
          /\ reorgingSequencer' = ReorgsSequencer
          /\ to' = 0 /\ delayedMessages' = NoMessages /\ pc' = "window"
          /\ UNCHANGED <<currentHeight, temporarilyParanoid, missingFeedDelayedReference>>
      BY <2>1, <2>4 DEF GoesBack
    <3>2. from' \in Nat
      <4>1. from - BackStep \in Int
        BY <1>1, ConstantAssumption
      <4>2. Max({1, from - BackStep}) = IF 1 >= from - BackStep THEN 1 ELSE from - BackStep
        BY <4>1, MaxOfTwo
      <4> QED
        BY <3>1, <4>1, <4>2 DEF FirstMessageBlock
    <3>3. reorgingDelayed' \in BOOLEAN /\ reorgingSequencer' \in BOOLEAN
      <4>1. ReorgsSequencer \in BOOLEAN
        BY <1>1 DEF ReorgsSequencer, TypeOK, IsPrefix
      <4> QED
        BY <3>1, <4>1
    <3>4. delayedMessages' \in [acc : Seq(Messages), first : Nat \ {0}]
      BY <3>1, EmptyTypes
    <3>5. TypeOK'
      BY <1>1, <2>1, <2>2, <3>1, <3>2, <3>3, <3>4 DEF TypeOK
    <3> QED
      BY <1>1, <2>1, <2>2, <3>1, <3>5, CoreAlone
  <2> QED
    BY <2>3, <2>4
<1> QED
  BY <1>2, <1>3

\* What the reader takes from the queue is what ArbCore accepts.
LEMMA FeedFits ==
  ASSUME ReaderInv, pc = "feed", NEW q, GoodQueue(q, Settled), Continues(q), ~NeedsDelayed(q)
  PROVE  /\ Deliverable(q.prevAcc, q.items, <<>>, 1, Settled)
         /\ q.items # <<>> /\ All(q) \in Seq(Items)
<1>1. /\ TypeOK /\ CoreInv /\ Settled \in Seq(Messages)
      /\ db \in Seq(Items) /\ delayedDb \in Seq(Messages) /\ IsPrefix(delayedDb, Settled)
      /\ lastAcc = db
  BY ReaderFacts, Types DEF CoreInv
<1>2. PICK a \in Seq(Items), b \in Seq(Items) : a = q.prevAcc /\ b = q.items
  BY DEF GoodQueue, Queues
<1>3. a = db /\ b # <<>>
  BY <1>1, <1>2 DEF Continues
<1> PICK all \in Seq(Items) : all = a \o b
  BY ContinuedIsPrefix
<1>4. all = All(q) /\ InOrder(all) /\ Within(all, Settled)
  BY <1>2 DEF GoodQueue, All
<1>5. IsPrefix(a, db) /\ ~IsPrefix(all, db)
  <2>1. Len(a) < Len(all) /\ Len(a) \in Nat /\ Len(all) \in Nat
    BY <1>3, ContinuedIsPrefix, LenProperties
  <2>2. IsPrefix(all, db) => Len(all) <= Len(db)
    BY DEF IsPrefix
  <2>3. IsPrefix(a, a)
    BY PrefixSelf
  <2> QED
    BY <1>3, <2>1, <2>2, <2>3
<1>6. /\ <<>> \in Seq(Messages) /\ Len(<<>>) = 0
      /\ IsPrefix(<<>>, Settled) /\ IsPrefix(<<>>, delayedDb)
  BY <1>1, EmptySeq, PrefixOrder
<1>7. NewDelayed(<<>>) = delayedDb
  BY <1>6 DEF NewDelayed
<1>8. ASSUME NEW i \in Len(a) + 1 .. Len(all)
      PROVE  IsPrefix(all[i].delayedAcc, delayedDb)
  <2>1. i \in 1 .. Len(all) /\ DOMAIN all = 1 .. Len(all)
    <3>1. Len(a) \in Nat /\ Len(all) \in Nat
      BY LenProperties
    <3> QED
      BY <3>1, LenProperties
  <2>2. all[i].delayedAcc \in Seq(Messages)
    <3>1. all[i] \in Items
      BY <2>1, ElementOfSeq
    <3> QED
      BY <3>1 DEF Items
  <2>3. IsPrefix(all[i].delayedAcc, Settled)
    BY <1>4, <2>1 DEF Within
  <2>4. Len(all[i].delayedAcc) <= Len(delayedDb)
    <3>1. /\ TotalDelayedSequenced(all) \in Nat
          /\ Len(all[i].delayedAcc) <= TotalDelayedSequenced(all)
      BY <1>4, <2>1, TotalIs
    <3>2. ~(Len(delayedDb) < TotalDelayedSequenced(all))
      BY <1>4 DEF NeedsDelayed, All
    <3>3. Len(delayedDb) \in Nat /\ Len(all[i].delayedAcc) \in Nat
      BY <1>1, <2>2, LenProperties
    <3> QED
      BY <3>1, <3>2, <3>3
  <2> QED
    BY <1>1, <2>2, <2>3, <2>4, PrefixShorter
<1>9. Deliverable(a, b, <<>>, 1, Settled)
  BY <1>1, <1>4, <1>5, <1>6, <1>7, <1>8 DEF Deliverable
<1> QED
  BY <1>2, <1>3, <1>4, <1>9

\* deliverQueueItems
LEMMA QueueStep ==
  ASSUME ReaderInv, pc = "feed", NEW q, GoodQueue(q, Settled), DeliverQueueItems(q)
  PROVE  /\ db' \in Seq(Items) /\ delayedDb' \in Seq(Messages) /\ coreError' = FALSE
         /\ lastAcc' = db' /\ GoodQueue(sequencerFeedQueue', Settled)
         /\ InOrder(db') /\ Within(db', delayedDb') /\ IsPrefix(delayedDb', Settled)
         /\ missingFeedDelayedReference' \in BOOLEAN
<1>1. /\ TypeOK /\ CoreInv /\ db \in Seq(Items) /\ delayedDb \in Seq(Messages)
      /\ InOrder(db) /\ Within(db, delayedDb) /\ IsPrefix(delayedDb, Settled)
      /\ lastAcc = db /\ coreError = FALSE
      /\ GoodQueue(EmptyQueue, Settled)
  BY ReaderFacts, Types DEF CoreInv, TypeOK
<1>2. CASE ~Continues(q) \/ NeedsDelayed(q)
  <2>1. /\ sequencerFeedQueue' = q /\ missingFeedDelayedReference' \in BOOLEAN
        /\ UNCHANGED <<db, delayedDb, coreError, lastAcc>>
    BY <1>2 DEF DeliverQueueItems, coreVars
  <2> QED
    BY <1>1, <2>1
<1>3. CASE Continues(q) /\ ~NeedsDelayed(q)
  <2>1. /\ Deliverable(q.prevAcc, q.items, <<>>, 1, Settled)
        /\ q.items # <<>> /\ All(q) \in Seq(Items)
    BY <1>3, FeedFits
  <2>2. PICK a, b : a = q.prevAcc /\ b = q.items
    OBVIOUS
  <2>3. Acceptable(a, b, <<>>, 1)
    BY <1>1, <2>1, <2>2, Accepts
  <2>4. /\ sequencerFeedQueue' = EmptyQueue /\ missingFeedDelayedReference' = FALSE
        /\ coreError' = ~Acceptable(a, b, <<>>, 1)
        /\ ~coreError' => AddMessages(a, b, <<>>) /\ lastAcc' = a \o b
    BY <1>3, <2>2 DEF DeliverQueueItems
  <2>5. coreError' = FALSE
    BY <2>3, <2>4
  <2>6. AddMessages(a, b, <<>>) /\ lastAcc' = a \o b
    BY <2>4, <2>5
  <2>7. Deliverable(a, b, <<>>, 1, Settled) /\ b # <<>>
    BY <2>1, <2>2
  <2>8. /\ db' = a \o b
        /\ db' \in Seq(Items) /\ delayedDb' \in Seq(Messages)
        /\ InOrder(db') /\ Within(db', delayedDb') /\ IsPrefix(delayedDb', Settled)
    BY <1>1, <2>6, <2>7, Adds
  <2> QED
    BY <1>1, <2>4, <2>5, <2>6, <2>8
<1> QED
  BY <1>2, <1>3

\* An item arrives from the feed, or its time is over.
LEMMA FeedStep ==
  ASSUME ReaderInv, EndFeed \/ \E items \in Broadcasts : FeedItem(items)
  PROVE  ReaderInv'
<1>1. /\ TypeOK /\ CoreInv /\ ItemsInv /\ SettledHeight \in Nat \ {0} /\ Settled \in Seq(Messages)
      /\ GoodQueue(sequencerFeedQueue, Settled) /\ currentHeight <= SettledHeight
      /\ pc = "feed" /\ lastAcc = db
      /\ UNCHANGED <<chain, log, faults, windowVars, modeVars>> /\ late' \subseteq late
  BY ReaderFacts DEF CoreInv, EndFeed, FeedItem, Running, envVars
<1>2. UNCHANGED <<chain, log, faults, from, to, currentHeight, reorgingDelayed,
                  reorgingSequencer, delayedMessages, caughtUp, temporarilyParanoid>>
  BY <1>1 DEF windowVars, passVars, modeVars
<1>3. ASSUME NEW q, GoodQueue(q, Settled), DeliverQueueItems(q), pc' \in {"height", "feed"}
      PROVE  ReaderInv'
  <2>1. /\ db' \in Seq(Items) /\ delayedDb' \in Seq(Messages) /\ coreError' = FALSE
        /\ lastAcc' = db' /\ GoodQueue(sequencerFeedQueue', Settled)
        /\ InOrder(db') /\ Within(db', delayedDb') /\ IsPrefix(delayedDb', Settled)
        /\ missingFeedDelayedReference' \in BOOLEAN
    BY <1>1, <1>3, QueueStep
  <2>2. sequencerFeedQueue' \in Queues /\ lastAcc' \in Seq(Items) /\ coreError' \in BOOLEAN
    BY <2>1 DEF GoodQueue
  <2>3. TypeOK'
    BY <1>1, <1>2, <1>3, <2>1, <2>2 DEF TypeOK
  <2>4. currentHeight' <= SettledHeight /\ pc' # "batches"
    BY <1>1, <1>2, <1>3
  <2> QED
    BY <1>1, <2>1, <2>3, <2>4, CoreChanges
<1>4. CASE EndFeed
  BY <1>1, <1>3, <1>4 DEF EndFeed
<1>5. ASSUME NEW items \in Broadcasts, FeedItem(items)
      PROVE  ReaderInv'
  <2> PICK q : q = Queued(Front(items), Last(items))
    OBVIOUS
  <2>1. GoodQueue(q, Settled)
    <3>1. items \in Seq(Items) /\ items # <<>> /\ InOrder(items) /\ Within(items, Settled)
      <4>1. CASE items \in late
        BY <1>1, <4>1 DEF ItemsInv, GoodLogs
      <4>2. CASE \E n \in 1 .. Len(log) : items = SubSeq(log, 1, n)
        <5>1. log \in Seq(Items) /\ InOrder(log) /\ Within(log, Settled)
          BY <1>1, Types DEF ItemsInv
        <5>2. PICK n \in 1 .. Len(log) : items = SubSeq(log, 1, n)
          BY <4>2
        <5>3. n \in 0 .. Len(log) /\ n # 0
          BY <5>1, LenProperties
        <5>4. items \in Seq(Items) /\ Len(items) = n /\ IsPrefix(items, log)
          BY <5>1, <5>2, <5>3, Beginning, BeginningIsPrefix
        <5>5. InOrder(items) /\ Within(items, Settled)
          BY <1>1, <5>1, <5>4, BeginningInOrder
        <5> QED
          BY <5>3, <5>4, <5>5, EmptySeq
      <4> QED
        BY <4>1, <4>2 DEF Broadcasts
    <3>2. PICK k : k = Len(items) /\ k \in 1 .. Len(items)
      BY <3>1, LenProperties, EmptySeq
    <3>3. Front(items) = SubSeq(items, 1, k - 1) /\ Last(items) = items[k]
      BY <3>2 DEF Front, Last
    <3> QED
      BY <1>1, <3>1, <3>2, <3>3, QueuedGood
  <2>2. CASE DeliverQueueItems(q) /\ pc' \in {"height", "feed"}
    BY <1>3, <2>1, <2>2
  <2>3. CASE /\ sequencerFeedQueue' = q
             /\ UNCHANGED <<coreVars, lastAcc, missingFeedDelayedReference, pc>>
    <3>1. q \in Queues
      BY <2>1 DEF GoodQueue
    <3>2. UNCHANGED <<db, delayedDb, coreError, lastAcc, missingFeedDelayedReference, pc>>
      BY <2>3 DEF coreVars
    <3>3. TypeOK'
      BY <1>1, <1>2, <2>3, <3>1, <3>2 DEF TypeOK
    <3> QED
      BY <1>1, <1>2, <2>1, <2>3, <3>2, <3>3, CoreAlone
  <2> QED
    BY <1>5, <2>2, <2>3 DEF FeedItem
<1> QED
  BY <1>4, <1>5

(***************************************************************************)
(* The theorems.                                                           *)
(***************************************************************************)
\* A sequence of one element
LEMMA OneElement ==
  ASSUME NEW S, NEW x \in S
  PROVE  /\ <<x>> \in Seq(S) /\ Len(<<x>>) = 1 /\ <<x>> # <<>>
         /\ DOMAIN <<x>> = {1} /\ <<x>>[1] = x
OBVIOUS

\* The invariant holds at first.
LEMMA ReaderInit == Init => ReaderInv
<1> SUFFICES ASSUME Init
             PROVE  ReaderInv
  OBVIOUS
<1> PICK msg \in Messages : msg = [id |-> 1, fork |-> 0]
  BY DEF Messages
<1> PICK ds : ds = <<msg>> /\ ds \in Seq(Messages)
  BY OneElement, Zenon
<1> PICK it : it = Item(NoTx, ds, 1)
  OBVIOUS
<1>1. it \in Items /\ it.tx = NoTx /\ it.delayedAcc = ds
  BY DEF Item, Items
<1> PICK bs : bs = <<it>> /\ bs \in Seq(Items)
  BY <1>1, OneElement, Zenon
<1>2. Len(ds) = 1 /\ ds # <<>> /\ Len(bs) = 1 /\ DOMAIN bs = {1} /\ bs[1] = it
  OBVIOUS
<1> PICK b : b = [delayed |-> ds, batches |-> bs]
  OBVIOUS
<1>3. b \in Blocks /\ b.delayed = ds /\ b.batches = bs
  BY DEF Blocks
<1>4. chain = <<b>> /\ log = bs /\ late = {}
  BY <1>3 DEF Init, Genesis
<1>5. chain \in Seq(Blocks) /\ chain # <<>> /\ Len(chain) = 1 /\ chain[1] = b
  BY <1>3, <1>4
<1>6. TypeOK
  <2>1. /\ NoMessages \in [acc : Seq(Messages), first : Nat \ {0}]
        /\ EmptyQueue \in Queues /\ <<>> \in Seq(Items) /\ <<>> \in Seq(Messages)
    BY EmptyTypes
  <2>2. /\ delayedDb \in Seq(Messages) /\ db \in Seq(Items) /\ lastAcc \in Seq(Items)
        /\ delayedMessages \in [acc : Seq(Messages), first : Nat \ {0}]
        /\ sequencerFeedQueue \in Queues
    BY <2>1 DEF Init
  <2> QED
    BY <1>4, <1>5, <2>2 DEF Init, TypeOK, Blocks
<1>7. Height = 1 /\ SettledHeight = 1 /\ Settled = ds
  <2>1. Height = 1
    BY <1>5 DEF Height
  <2>2. SettledHeight \in 1 .. 1 /\ Settled = chain[SettledHeight].delayed
    BY <1>6, <2>1, SettledIs
  <2>3. SettledHeight = 1
    BY <2>2
  <2> QED
    BY <1>3, <1>5, <2>1, <2>2, <2>3
<1>8. IsPrefix(ds, ds) /\ IsPrefix(bs, bs) /\ IsPrefix(<<>>, ds)
  BY PrefixSelf, PrefixOrder
<1>9. InOrder(bs) /\ Within(bs, ds)
  BY <1>1, <1>2, <1>8 DEF InOrder, Within
<1>10. ChainInv
  <2>1. \A m \in 1 .. Height : m = 1
    BY <1>7
  <2> QED
    BY <1>3, <1>4, <1>5, <1>7, <1>8, <1>9, <2>1 DEF ChainInv
<1>11. InOrder(<<>>) /\ \A s : Within(<<>>, s)
  BY DEF InOrder, Within
<1>12. GoodQueue(EmptyQueue, ds)
  <2>1. <<>> \in Seq(Items) /\ <<>> \o <<>> = <<>>
    BY EmptySeq
  <2>2. EmptyQueue \in Queues /\ All(EmptyQueue) = <<>>
    BY <2>1, QueueIs DEF EmptyQueue
  <2> QED
    BY <1>11, <2>2 DEF GoodQueue
<1>13. ItemsInv
  BY <1>4, <1>7, <1>9, <1>12 DEF ItemsInv, GoodLogs, Init
<1>14. CoreInv
  BY <1>7, <1>8, <1>11 DEF CoreInv, Init
<1> QED
  BY <1>6, <1>10, <1>13, <1>14 DEF ReaderInv

\* No step of L1, the sequencer, the reader or the feed breaks it.
LEMMA ReaderNext == ReaderInv /\ [Next]_vars => ReaderInv'
<1> SUFFICES ASSUME ReaderInv, [Next]_vars
             PROVE  ReaderInv'
  OBVIOUS
<1>1. CASE EnvStep
  BY <1>1, ChainMoves, LogMoves DEF EnvStep
<1>2. CASE ReaderStep
  <2>1. ASSUME NEW w \in Windows, LookupDelayed(w) \/ LookupBatches(w)
        PROVE  ReaderInv'
    BY <2>1, LookupDelayedStep, LookupBatchesStep
  <2>2. CASE Start \/ BeginPass \/ CompareCounts \/ EndPass \/ EndFeed
    BY <2>2, StartStep, BeginStep, CompareStep, EndStep, FeedStep
  <2> QED
    BY <1>2, <2>1, <2>2 DEF ReaderStep
<1>3. CASE ReadFails \/ Restart
  BY <1>3, FailStep
<1>4. CASE \E items \in Broadcasts : FeedItem(items)
  BY <1>4, FeedStep
<1>5. CASE UNCHANGED vars
  BY <1>5 DEF vars, envVars, readerVars, coreVars, windowVars, passVars, feedVars, modeVars,
              ReaderInv, TypeOK, ChainInv, ItemsInv, CoreInv, Settled, SettledHeight, Height,
              Delayed, Batches
<1> QED
  BY <1>1, <1>2, <1>3, <1>4, <1>5 DEF Next

\* The inductive invariant of the inbox reader: whatever L1, the sequencers
\* and the faults do, everything in the node and in the feed reads only
\* delayed messages that no reorg takes back.
THEOREM ReaderInvariant == Spec => []ReaderInv
BY ReaderInit, ReaderNext, PTL DEF Spec

\* The variables keep their types.
THEOREM ReaderTypes == Spec => []TypeOK
<1>1. ReaderInv => TypeOK
  BY DEF ReaderInv
<1> QED
  BY <1>1, ReaderInvariant, PTL

\* ArbCore accepts everything that the reader delivers (inboxReader.go
\* 319-363, 480-493, 573-581), for any delays, windows and steps back, as long
\* as no reorg is deeper than the delays.
THEOREM CoreAcceptsAll == Spec => []CoreNeverFails
<1>1. ReaderInv => CoreNeverFails
  BY DEF ReaderInv, CoreInv, CoreNeverFails
<1> QED
  BY <1>1, ReaderInvariant, PTL

\* The reader knows where the database ends (inboxReader.go 436, 480).
THEOREM ReaderKnowsEnd == Spec => []LastAccIsEnd
<1>1. ReaderInv => LastAccIsEnd
  BY DEF ReaderInv, CoreInv, LastAccIsEnd
<1> QED
  BY <1>1, ReaderInvariant, PTL
=============================================================================
