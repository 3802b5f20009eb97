--------------------------- MODULE TxQueue_proofs ---------------------------
(***************************************************************************)
(* Proofs about TxQueue, for any number of calls, any sizes and any        *)
(* interleaving of errors, lost lockouts and cancelled calls: every call   *)
(* is answered once and truthfully, and the feed says what the database    *)
(* holds.                                                                  *)
(***************************************************************************)
EXTENDS TxQueue, SequenceTheorems, FiniteSetTheorems, TLAPS

(***************************************************************************)
(* Sequences as the sets of their elements.                                *)
(***************************************************************************)
Distinct(s) == \A i, j \in DOMAIN s : s[i] = s[j] => i = j

\* Nothing is in the empty sequence.
LEMMA EmptyFacts == ToSet(<<>>) = {} /\ Distinct(<<>>)
BY DEF ToSet, Distinct

\* What an element at the end adds
LEMMA AppendFacts ==
  ASSUME NEW S, NEW s \in Seq(S), NEW x \in S
  PROVE  /\ Append(s, x) \in Seq(S)
         /\ Len(Append(s, x)) = Len(s) + 1
         /\ Append(s, x) # <<>>
         /\ ToSet(Append(s, x)) = ToSet(s) \cup {x}
         /\ Distinct(s) /\ x \notin ToSet(s) => Distinct(Append(s, x))
<1> DEFINE t == Append(s, x)
<1>1. /\ t \in Seq(S) /\ Len(t) = Len(s) + 1 /\ t # <<>>
      /\ \A i \in 1 .. Len(s) : t[i] = s[i]
      /\ t[Len(s) + 1] = x
      /\ DOMAIN t = 1 .. Len(s) + 1 /\ DOMAIN s = 1 .. Len(s) /\ Len(s) \in Nat
  BY AppendProperties, LenProperties
<1> HIDE DEF t
<1>2. 1 .. Len(s) + 1 = 1 .. Len(s) \cup {Len(s) + 1}
  BY <1>1
<1>3. ToSet(t) = ToSet(s) \cup {x}
  BY <1>1, <1>2 DEF ToSet
<1>4. ASSUME Distinct(s), x \notin ToSet(s) PROVE Distinct(t)
  BY <1>1, <1>2, <1>4 DEF Distinct, ToSet
<1> QED
  BY <1>1, <1>3, <1>4 DEF t

\* What taking the first element away leaves
LEMMA TailFacts ==
  ASSUME NEW S, NEW s \in Seq(S), s # <<>>
  PROVE  /\ Head(s) \in S /\ Tail(s) \in Seq(S)
         /\ Len(Tail(s)) = Len(s) - 1 /\ Len(s) \in Nat
         /\ ToSet(s) = ToSet(Tail(s)) \cup {Head(s)}
         /\ Distinct(s) => Distinct(Tail(s)) /\ Head(s) \notin ToSet(Tail(s))
<1> DEFINE t == Tail(s)
<1>1. /\ t \in Seq(S) /\ Head(s) = s[1] /\ Head(s) \in S
      /\ Len(s) \in Nat \ {0} /\ Len(t) = Len(s) - 1
      /\ \A i \in 1 .. Len(s) - 1 : t[i] = s[i + 1]
      /\ DOMAIN t = 1 .. Len(s) - 1 /\ DOMAIN s = 1 .. Len(s)
  BY HeadTailProperties, LenProperties, EmptySeq
<1> HIDE DEF t
<1>2. \A i \in 1 .. Len(s) : i # 1 => i - 1 \in 1 .. Len(s) - 1 /\ s[i] = t[i - 1]
  BY <1>1
<1>3. ToSet(s) = ToSet(t) \cup {s[1]}
  <2>1. \A i \in 1 .. Len(s) - 1 : i + 1 \in 1 .. Len(s) /\ t[i] = s[i + 1]
    BY <1>1
  <2>2. ToSet(t) \subseteq ToSet(s) /\ s[1] \in ToSet(s)
    <3>1. ToSet(t) = {t[i] : i \in 1 .. Len(s) - 1} /\ ToSet(s) = {s[i] : i \in 1 .. Len(s)}
      BY <1>1 DEF ToSet
    <3>2. 1 \in 1 .. Len(s)
      BY <1>1
    <3> QED
      BY <2>1, <3>1, <3>2, Zenon
  <2>3. ToSet(s) \subseteq ToSet(t) \cup {s[1]}
    BY <1>1, <1>2 DEF ToSet
  <2> QED
    BY <2>2, <2>3
<1>4. ASSUME Distinct(s) PROVE Distinct(t) /\ s[1] \notin ToSet(t)
  <2>1. \A i \in 1 .. Len(s) - 1 : i + 1 \in 1 .. Len(s) /\ i + 1 # 1 /\ t[i] = s[i + 1]
    BY <1>1
  <2>2. s[1] \notin ToSet(t)
    BY <1>1, <1>4, <2>1 DEF Distinct, ToSet
  <2>3. Distinct(t)
    <3> SUFFICES ASSUME NEW i \in 1 .. Len(s) - 1, NEW j \in 1 .. Len(s) - 1, t[i] = t[j]
                 PROVE  i = j
      BY <1>1 DEF Distinct
    <3>1. i + 1 \in DOMAIN s /\ j + 1 \in DOMAIN s /\ s[i + 1] = s[j + 1]
      BY <1>1, <2>1
    <3>2. i + 1 = j + 1
      BY <1>4, <3>1 DEF Distinct
    <3> QED
      BY <3>2
  <2> QED
    BY <2>2, <2>3
<1> QED
  BY <1>1, <1>3, <1>4 DEF t

\* A call that stands once in the batch is answered once by AnswerAll, one
\* that does not stand in it is not answered.
LEMMA AnswerAllFacts ==
  ASSUME TypeOK, Distinct(batchTxs), NEW v \in Values, AnswerAll(batchTxs, v)
  PROVE  /\ answers' \in [Calls -> Seq(Values)]
         /\ \A c \in Calls \ ToSet(batchTxs) : answers'[c] = answers[c]
         /\ \A c \in ToSet(batchTxs) : answers[c] = <<>> => answers'[c] = <<v>>
<1> DEFINE Count(c) == Cardinality({j \in DOMAIN batchTxs : batchTxs[j] = c})
           Copies(c) == [i \in 1 .. Count(c) |-> v]
<1>1. /\ batchTxs \in Seq(Calls) /\ ToSet(batchTxs) \subseteq Calls
      /\ DOMAIN batchTxs = 1 .. Len(batchTxs)
      /\ answers \in [Calls -> Seq(Values)]
      /\ answers' = [c \in Calls |-> answers[c] \o Copies(c)]
  <2>1. batchTxs \in Seq(Calls) /\ answers \in [Calls -> Seq(Values)]
        /\ answers' = [c \in Calls |-> answers[c] \o Copies(c)]
    BY DEF TypeOK, AnswerAll
  <2>2. DOMAIN batchTxs = 1 .. Len(batchTxs) /\ \A i \in 1 .. Len(batchTxs) : batchTxs[i] \in Calls
    BY <2>1, LenProperties, ElementOfSeq
  <2> QED
    BY <2>1, <2>2 DEF ToSet
<1>2. ASSUME NEW c \in Calls \ ToSet(batchTxs) PROVE Count(c) = 0
  <2>1. {j \in DOMAIN batchTxs : batchTxs[j] = c} = {}
    BY DEF ToSet
  <2> QED
    BY <2>1, FS_EmptySet
<1>3. ASSUME NEW c \in ToSet(batchTxs) PROVE Count(c) = 1
  <2>1. PICK i \in DOMAIN batchTxs : batchTxs[i] = c
    BY DEF ToSet
  <2>2. {j \in DOMAIN batchTxs : batchTxs[j] = c} = {i}
    BY <2>1 DEF Distinct
  <2> QED
    BY <2>2, FS_Singleton
<1> HIDE DEF Count
<1>4. /\ \A c \in Calls \ ToSet(batchTxs) : Copies(c) = <<>>
      /\ \A c \in ToSet(batchTxs) : Copies(c) = <<v>>
  <2>1. \A c \in Calls \ ToSet(batchTxs) : Copies(c) = <<>>
    <3> SUFFICES ASSUME NEW c \in Calls \ ToSet(batchTxs) PROVE [i \in 1 .. 0 |-> v] = <<>>
      BY <1>2
    <3> QED
      OBVIOUS
  <2>2. \A c \in ToSet(batchTxs) : Copies(c) = <<v>>
    <3> SUFFICES ASSUME NEW c \in ToSet(batchTxs) PROVE [i \in 1 .. 1 |-> v] = <<v>>
      BY <1>3
    <3> QED
      OBVIOUS
  <2> QED
    BY <2>1, <2>2
<1> HIDE DEF Copies
<1>5. \A c \in Calls : Copies(c) \in Seq(Values)
  <2>1. <<>> \in Seq(Values) /\ <<v>> \in Seq(Values)
    OBVIOUS
  <2> QED
    BY <1>4, <2>1
<1>6. \A c \in Calls : answers[c] \in Seq(Values)
  BY <1>1
<1>7. \A c \in Calls : answers[c] \o Copies(c) \in Seq(Values)
  BY <1>5, <1>6, ConcatProperties
<1>8. \A c \in Calls \ ToSet(batchTxs) : answers'[c] = answers[c]
  BY <1>1, <1>4, <1>6, ConcatEmptySeq
<1>9. \A c \in ToSet(batchTxs) : answers[c] = <<>> => answers'[c] = <<v>>
  <2>1. <<v>> \in Seq(Values)
    OBVIOUS
  <2>2. <<>> \o <<v>> = <<v>>
    BY <2>1, ConcatEmptySeq
  <2> QED
    BY <1>1, <1>4, <2>2
<1> QED
  BY <1>1, <1>7, <1>8, <1>9


(***************************************************************************)
(* Type correctness.                                                       *)
(***************************************************************************)
\* The state the sequencer starts in has its types.
LEMMA QueueTypeInit == Init => TypeOK
<1> SUFFICES ASSUME Init PROVE TypeOK
  OBVIOUS
<1>1. /\ <<>> \in Seq(Values) /\ <<>> \in Seq(Calls) /\ <<>> \in Seq(Messages)
      /\ <<>> \in Seq([prevAcc : Nat, items : Seq(Messages)]) /\ Len(<<>>) = 0
  OBVIOUS
<1>2. /\ call \in [Calls -> {"new", "queued", "holding", "returned"}]
      /\ answers \in [Calls -> Seq(Values)]
      /\ returned \in [Calls -> Values \cup {"none"}]
  BY <1>1 DEF Init
<1>3. shouldSequence \in BOOLEAN /\ seenOwnTx \in BOOLEAN /\ emptiedQueue \in BOOLEAN
  BY Zenon DEF Init
<1>4. /\ txQueue \in Seq(Calls) /\ Len(txQueue) <= QueueCap
      /\ mutex \in Calls \cup {NoCall} /\ taken \in Calls \cup {NoCall}
      /\ step \in Steps /\ batchTxs \in Seq(Calls)
      /\ originalAcc \in Nat /\ sequencedBatchItems \in Seq(Messages)
      /\ db \in Seq(Messages) /\ feed \in Seq([prevAcc : Nat, items : Seq(Messages)])
      /\ cancelled \subseteq Calls /\ faults \in Nat /\ losses \in Nat
  BY <1>1, TxQueueAssumption DEF Init, Steps
<1> QED
  BY <1>2, <1>3, <1>4 DEF TypeOK

\* An answer is a value more in the channel of one call.
LEMMA AnswerType ==
  ASSUME TypeOK, NEW c \in Calls, NEW v \in Values, Answer(c, v)
  PROVE  /\ answers' \in [Calls -> Seq(Values)]
         /\ answers[c] = <<>> => answers'[c] = <<v>>
         /\ \A d \in Calls \ {c} : answers'[d] = answers[d]
<1>1. answers[c] \in Seq(Values) /\ Append(answers[c], v) \in Seq(Values)
  BY AppendFacts DEF TypeOK
<1>2. answers' = [answers EXCEPT ![c] = Append(answers[c], v)]
  BY DEF Answer
<1>3. Append(<<>>, v) = <<v>>
  OBVIOUS
<1> QED
  BY <1>1, <1>2, <1>3 DEF TypeOK

\* What the machine makes of a batch is a message with an outcome for each of
\* its transactions.
LEMMA DeliveredType ==
  ASSUME NEW cs \in Seq(Calls), NEW r \in TxResults(cs)
  PROVE  /\ \A i \in DOMAIN cs : r[TxHash[cs[i]]] \in BOOLEAN
         /\ Txs([i \in DOMAIN cs |-> Outcome(TxHash[cs[i]], r[TxHash[cs[i]]])]) \in Messages
<1>1. DOMAIN cs = 1 .. Len(cs) /\ Len(cs) \in Nat /\ \A i \in DOMAIN cs : cs[i] \in Calls
  BY LenProperties, ElementOfSeq
<1>2. r \in [Hashes(cs) -> BOOLEAN]
  BY DEF TxResults
<1>3. \A i \in DOMAIN cs : TxHash[cs[i]] \in Hashes(cs)
  BY DEF Hashes
<1>4. \A i \in DOMAIN cs : r[TxHash[cs[i]]] \in BOOLEAN
  BY <1>2, <1>3
<1> DEFINE O == [hash : {TxHash[c] : c \in Calls}, included : BOOLEAN]
           out == [i \in DOMAIN cs |-> Outcome(TxHash[cs[i]], r[TxHash[cs[i]]])]
<1>5. \A i \in DOMAIN cs : Outcome(TxHash[cs[i]], r[TxHash[cs[i]]]) \in O
  BY <1>1, <1>4 DEF Outcome
<1>6. out \in [1 .. Len(cs) -> O]
  BY <1>1, <1>5
<1>7. out \in Seq(O)
  BY <1>1, <1>6, SeqDef
<1> HIDE DEF out, O
<1>8. Txs(out) \in [kind : {"txs"}, txs : Seq(O)]
  BY <1>7 DEF Txs
<1> QED
  BY <1>4, <1>8 DEF Messages, out, O

\* Taking the last message out again leaves a database.
LEMMA FrontFacts ==
  ASSUME NEW S, NEW s \in Seq(S), s # <<>>
  PROVE  /\ Front(s) \in Seq(S)
         /\ Len(Front(s)) = Len(s) - 1 /\ Len(s) \in Nat
         /\ Last(s) \in S
         /\ \A i \in 1 .. Len(s) - 1 : Front(s)[i] = s[i]
<1>1. Len(s) \in Nat \ {0} /\ \A i \in 1 .. Len(s) : s[i] \in S
  BY EmptySeq, ElementOfSeq
<1> DEFINE n == Len(s) - 1
<1>2. n \in Int /\ 1 \in Int /\ n \in Nat /\ \A i \in 1 .. n : s[i] \in S
  BY <1>1
<1> HIDE DEF n
<1>3. /\ SubSeq(s, 1, n) \in Seq(S)
      /\ Len(SubSeq(s, 1, n)) = IF 1 <= n THEN n - 1 + 1 ELSE 0
      /\ \A i \in 1 .. n - 1 + 1 : SubSeq(s, 1, n)[i] = s[1 + i - 1]
  BY <1>2, SubSeqProperties
<1>4. Len(SubSeq(s, 1, n)) = n /\ \A i \in 1 .. n : SubSeq(s, 1, n)[i] = s[i]
  BY <1>2, <1>3
<1> QED
  BY <1>1, <1>3, <1>4 DEF Front, Last, n


\* Where the holder of the mutex is, and what it has in its hands there.
HolderInv ==
  /\ mutex = NoCall <=> step = "idle"
  /\ mutex # NoCall => call[mutex] = "holding"
  /\ \A c \in Calls : call[c] = "holding" => c = mutex
  /\ taken # NoCall <=> step = "place"
  /\ step = "idle" => batchTxs = <<>> /\ ~seenOwnTx
  /\ step \in {"results", "judge"} => db # <<>>
  /\ step = "judge" => batchTxs # <<>>

(***************************************************************************)
(* Every call is answered once.  A transaction is in one place at a time:  *)
(* in the channel, in the holder's hand, in its batch, or answered.        *)
(***************************************************************************)
Queued == ToSet(txQueue)

\* The calls of the batch that have not been answered yet
Batched ==
  IF step \in {"take", "place", "gathered", "deliver", "results", "single", "judge"}
  THEN ToSet(batchTxs) ELSE {}

OnceInv ==
  /\ Distinct(txQueue)
  /\ Batched # {} => Distinct(batchTxs)
  /\ \A c \in Calls : call[c] = "new" =>
       c \notin Queued /\ c # taken /\ c \notin Batched /\ answers[c] = <<>>
  /\ \A c \in Queued : c # taken /\ c \notin Batched /\ answers[c] = <<>>
  /\ taken # NoCall => taken \notin Batched /\ answers[taken] = <<>>
  /\ \A c \in Batched : answers[c] = <<>>
  /\ \A c \in Calls : Len(answers[c]) <= 1
  \* the holder's own transaction, until it has been seen
  /\ mutex # NoCall /\ ~seenOwnTx => answers[mutex] = <<>> /\ mutex \notin Batched
  /\ step = "gathered" /\ emptiedQueue => mutex \notin Queued

\* A batch that is being sequenced names no call twice.
LEMMA BatchDistinct ==
  ASSUME TypeOK, OnceInv, step \in {"results", "single", "judge", "deliver"}
  PROVE  Distinct(batchTxs) /\ Batched = ToSet(batchTxs)
<1>1. Batched = ToSet(batchTxs)
  BY DEF Batched
<1>2. CASE ToSet(batchTxs) = {}
  <2>1. \A i \in DOMAIN batchTxs : FALSE
    BY <1>2 DEF ToSet
  <2> QED
    BY <1>1, <2>1 DEF Distinct
<1>3. CASE ToSet(batchTxs) # {}
  BY <1>1, <1>3 DEF OnceInv
<1> QED
  BY <1>2, <1>3

\* A transaction by itself is delivered as a message of one outcome.
LEMMA SingleDelivered ==
  ASSUME TypeOK, DeliverSingle
  PROVE  \E ok \in BOOLEAN :
           LET m == Txs(<<Outcome(TxHash[Head(batchTxs)], ok)>>)
           IN  m \in Messages /\ db' = Append(db, m)
<1> DEFINE c == Head(batchTxs)
<1>1. c \in Calls
  BY TailFacts DEF DeliverSingle, TypeOK
<1>2. PICK r \in TxResults(<<c>>) : db' = Append(db, Txs(<<Outcome(TxHash[c], r[TxHash[c]])>>))
  BY DEF DeliverSingle
<1>3. r[TxHash[c]] \in BOOLEAN
  <2>1. TxHash[c] \in Hashes(<<c>>)
    BY DEF Hashes
  <2> QED
    BY <2>1 DEF TxResults
<1>4. ASSUME NEW ok \in BOOLEAN PROVE Txs(<<Outcome(TxHash[c], ok)>>) \in Messages
  <2>1. Outcome(TxHash[c], ok) \in [hash : {TxHash[d] : d \in Calls}, included : BOOLEAN]
    BY <1>1 DEF Outcome
  <2> QED
    BY <2>1 DEF Txs, Messages
<1> QED
  BY <1>2, <1>3, <1>4

\* What one step of the holder changes of the types: everything else is as it was.
LEMMA HolderType ==
  ASSUME TypeOK, HolderInv, OnceInv, HolderStep \/ InternalError
  PROVE  TypeOK' /\ HolderInv'
<1> USE DEF holderVars, envVars
<1> DEFINE Item == [prevAcc : Nat, items : Seq(Messages)]
<1>0. NoCall \notin Calls
  BY TxQueueAssumption
<1>1. ASSUME TakeItem PROVE TypeOK' /\ HolderInv'
  <2>1. Head(txQueue) \in Calls /\ Tail(txQueue) \in Seq(Calls)
        /\ Len(Tail(txQueue)) = Len(txQueue) - 1 /\ Len(txQueue) \in Nat
    BY <1>1, TailFacts DEF TakeItem, TypeOK
  <2>2. txQueue' \in Seq(Calls) /\ Len(txQueue') <= QueueCap
    BY <1>1, <2>1, TxQueueAssumption DEF TakeItem, TypeOK
  <2>3. TypeOK'
    BY <1>1, <2>1, <2>2 DEF TakeItem, TypeOK, Steps
  <2> QED
    BY <1>0, <1>1, <2>1, <2>3 DEF TakeItem, HolderInv
<1>2. ASSUME PlaceCancelled PROVE TypeOK' /\ HolderInv'
  <2>1. taken \in Calls /\ answers' \in [Calls -> Seq(Values)]
    BY <1>2, AnswerType DEF PlaceCancelled, TypeOK, Values
  <2>2. seenOwnTx' \in BOOLEAN
    BY <1>2, Zenon DEF PlaceCancelled
  <2>3. TypeOK'
    BY <1>2, <2>1, <2>2 DEF PlaceCancelled, TypeOK, Steps
  <2> QED
    BY <1>2, <2>3 DEF PlaceCancelled, HolderInv
<1>3. ASSUME PlaceBack PROVE TypeOK' /\ HolderInv'
  <2>1. taken \in Calls
    BY <1>3 DEF PlaceBack, HolderInv, TypeOK
  <2>2. /\ answers' \in [Calls -> Seq(Values)]
        /\ txQueue' \in Seq(Calls) /\ Len(txQueue') <= QueueCap
    <3>1. CASE Len(txQueue) < QueueCap
      <4>1. txQueue' = Append(txQueue, taken) /\ UNCHANGED answers
        BY <1>3, <3>1, TxQueueAssumption DEF PlaceBack
      <4>2. txQueue' \in Seq(Calls) /\ Len(txQueue') = Len(txQueue) + 1 /\ Len(txQueue) \in Nat
        BY <2>1, <4>1, AppendFacts, LenProperties DEF TypeOK
      <4> QED
        BY <3>1, <4>1, <4>2, TxQueueAssumption DEF TypeOK
    <3>2. CASE ~(Len(txQueue) < QueueCap)
      <4>1. Answer(taken, "error") /\ UNCHANGED txQueue
        BY <1>3, <3>2 DEF PlaceBack
      <4> QED
        BY <2>1, <4>1, AnswerType DEF TypeOK, Values
    <3> QED
      BY <3>1, <3>2
  <2>3. seenOwnTx' \in BOOLEAN
    BY <1>3, Zenon DEF PlaceBack, TypeOK
  <2>4. emptiedQueue' \in BOOLEAN
    BY <1>3, Zenon DEF PlaceBack
  <2>5. TypeOK'
    BY <1>3, <2>2, <2>3, <2>4 DEF PlaceBack, TypeOK, Steps
  <2> QED
    BY <1>3, <2>5 DEF PlaceBack, HolderInv
<1>4. ASSUME PlaceInBatch PROVE TypeOK' /\ HolderInv'
  <2>1. taken \in Calls
    BY <1>4 DEF PlaceInBatch, HolderInv, TypeOK
  <2>2. answers' \in [Calls -> Seq(Values)] /\ batchTxs' \in Seq(Calls)
    <3>1. CASE TxHash[taken] \in Hashes(batchTxs)
      BY <1>4, <2>1, <3>1, AnswerType DEF PlaceInBatch, TypeOK, Values
    <3>2. CASE TxHash[taken] \notin Hashes(batchTxs)
      <4>1. batchTxs' = Append(batchTxs, taken) /\ UNCHANGED answers
        BY <1>4, <3>2 DEF PlaceInBatch
      <4> QED
        BY <2>1, <4>1, AppendFacts DEF TypeOK
    <3> QED
      BY <3>1, <3>2
  <2>3. seenOwnTx' \in BOOLEAN
    BY <1>4, Zenon DEF PlaceInBatch
  <2>4. TypeOK'
    BY <1>4, <2>2, <2>3 DEF PlaceInBatch, TypeOK, Steps
  <2> QED
    BY <1>4, <2>4 DEF PlaceInBatch, HolderInv
<1>5. ASSUME QueueDrained PROVE TypeOK' /\ HolderInv'
  BY <1>5 DEF QueueDrained, TypeOK, HolderInv, Steps
<1>6. ASSUME BeginBatch PROVE TypeOK' /\ HolderInv'
  <2>1. mutex \in Calls
    BY <1>6 DEF BeginBatch, HolderInv, TypeOK
  <2>2. batchTxs' \in Seq(Calls) /\ step' \in {"await", "deliver"}
    <3>1. Append(batchTxs, mutex) \in Seq(Calls)
      BY <2>1, AppendFacts DEF TypeOK
    <3> QED
      BY <1>6, <3>1 DEF BeginBatch, TypeOK
  <2>3. seenOwnTx' \in BOOLEAN
    BY <1>6, Zenon DEF BeginBatch
  <2>4. originalAcc' \in Nat /\ sequencedBatchItems' \in Seq(Messages)
    BY <1>6, LenProperties DEF BeginBatch, TypeOK
  <2>5. TypeOK'
    BY <1>6, <2>2, <2>3, <2>4 DEF BeginBatch, TypeOK, Steps
  <2> QED
    BY <1>6, <2>1, <2>2, <2>5, <1>0 DEF BeginBatch, HolderInv
<1>7. ASSUME DeliverBatch PROVE TypeOK' /\ HolderInv'
  <2>1. db' \in Seq(Messages) /\ db' # <<>>
    <3>1. PICK r \in TxResults(batchTxs) :
            db' = Append(db, Txs([i \in DOMAIN batchTxs |->
                                    Outcome(TxHash[batchTxs[i]], r[TxHash[batchTxs[i]]])]))
      BY <1>7 DEF DeliverBatch
    <3>2. PICK m \in Messages : db' = Append(db, m)
      BY <3>1, DeliveredType DEF TypeOK
    <3> QED
      BY <3>2, AppendFacts DEF TypeOK
  <2>2. TypeOK'
    BY <1>7, <2>1 DEF DeliverBatch, TypeOK, Steps
  <2> QED
    BY <1>7, <2>1, <2>2 DEF DeliverBatch, HolderInv
<1>8. ASSUME AllSucceeded PROVE TypeOK' /\ HolderInv'
  <2>1. answers' \in [Calls -> Seq(Values)]
    <3>1. Distinct(batchTxs)
      BY <1>8, BatchDistinct DEF AllSucceeded
    <3> QED
      BY <1>8, <3>1, AnswerAllFacts DEF AllSucceeded, Values
  <2>2. sequencedBatchItems' \in Seq(Messages)
    <3>1. Last(db) \in Messages
      BY <1>8, FrontFacts DEF AllSucceeded, HolderInv, TypeOK
    <3> QED
      BY <1>8, <3>1 DEF AllSucceeded
  <2>3. TypeOK'
    BY <1>8, <2>1, <2>2 DEF AllSucceeded, TypeOK, Steps
  <2> QED
    BY <1>8, <2>3 DEF AllSucceeded, HolderInv
<1>9. ASSUME SomeFailed PROVE TypeOK' /\ HolderInv'
  <2>1. db' \in Seq(Messages)
    BY <1>9, FrontFacts DEF SomeFailed, ReorgOut, HolderInv, TypeOK
  <2>2. answers' \in [Calls -> Seq(Values)] /\ step' \in {"await", "single"}
    <3>1. Distinct(batchTxs)
      BY <1>9, BatchDistinct DEF SomeFailed
    <3> QED
      BY <1>9, <3>1, AnswerAllFacts DEF SomeFailed, Values, TypeOK
  <2>3. TypeOK'
    BY <1>9, <2>1, <2>2 DEF SomeFailed, TypeOK, Steps
  <2> QED
    BY <1>9, <2>2, <2>3 DEF SomeFailed, HolderInv
<1>10. ASSUME SkipFailed PROVE TypeOK' /\ HolderInv'
  <2>1. Head(batchTxs) \in Calls /\ Tail(batchTxs) \in Seq(Calls)
    BY <1>10, TailFacts DEF SkipFailed, TypeOK
  <2>2. answers' \in [Calls -> Seq(Values)]
    BY <1>10, <2>1, AnswerType DEF SkipFailed, Values
  <2>3. TypeOK'
    BY <1>10, <2>1, <2>2 DEF SkipFailed, TypeOK
  <2> QED
    BY <1>10, <2>3 DEF SkipFailed, HolderInv
<1>11. ASSUME DeliverSingle PROVE TypeOK' /\ HolderInv'
  <2>1. PICK m \in Messages : db' = Append(db, m)
    BY <1>11, SingleDelivered DEF DeliverSingle
  <2>2. db' \in Seq(Messages) /\ db' # <<>>
    BY <2>1, AppendFacts DEF TypeOK
  <2>3. TypeOK'
    BY <1>11, <2>2 DEF DeliverSingle, TypeOK, Steps
  <2> QED
    BY <1>11, <2>2, <2>3 DEF DeliverSingle, HolderInv
<1>12. ASSUME JudgeSingle PROVE TypeOK' /\ HolderInv'
  <2>1. Head(batchTxs) \in Calls /\ Tail(batchTxs) \in Seq(Calls)
    BY <1>12, TailFacts DEF JudgeSingle, HolderInv, TypeOK
  <2>2. answers' \in [Calls -> Seq(Values)]
    BY <1>12, <2>1, AnswerType DEF JudgeSingle, Values
  <2>3. Last(db) \in Messages /\ Front(db) \in Seq(Messages)
    BY <1>12, FrontFacts DEF JudgeSingle, HolderInv, TypeOK
  <2>4. db' \in Seq(Messages) /\ sequencedBatchItems' \in Seq(Messages)
    <3>1. Append(sequencedBatchItems, Last(db)) \in Seq(Messages)
      BY <2>3, AppendFacts DEF TypeOK
    <3> QED
      BY <1>12, <2>3, <3>1 DEF JudgeSingle, ReorgOut, TypeOK
  <2>5. TypeOK'
    BY <1>12, <2>1, <2>2, <2>4 DEF JudgeSingle, TypeOK, Steps
  <2> QED
    BY <1>12, <2>5 DEF JudgeSingle, HolderInv
<1>13. ASSUME DeliverEndOfBlock PROVE TypeOK' /\ HolderInv'
  <2>1. EndOfBlock \in Messages
    BY DEF EndOfBlock, Messages
  <2>2. db' \in Seq(Messages) /\ sequencedBatchItems' \in Seq(Messages)
    BY <1>13, <2>1, AppendFacts DEF DeliverEndOfBlock, TypeOK
  <2>3. TypeOK'
    BY <1>13, <2>2 DEF DeliverEndOfBlock, TypeOK, Steps
  <2> QED
    BY <1>13, <2>3 DEF DeliverEndOfBlock, HolderInv
<1>14. ASSUME BroadcastItems PROVE TypeOK' /\ HolderInv'
  <2>1. [prevAcc |-> originalAcc, items |-> sequencedBatchItems] \in Item
    BY DEF TypeOK
  <2>2. feed' \in Seq(Item)
    <3> HIDE DEF Item
    <3>1. feed \in Seq(Item)
      BY DEF TypeOK, Item
    <3> QED
      BY <1>14, <2>1, <3>1, AppendFacts DEF BroadcastItems, BroadcastAcc
  <2>3. emptiedQueue' \in BOOLEAN
    BY <1>14, Zenon DEF BroadcastItems
  <2>4. step' \in {"await", "take"} /\ batchTxs' = <<>>
    BY <1>14 DEF BroadcastItems
  <2>5. TypeOK'
    BY <1>14, <2>2, <2>3, <2>4 DEF BroadcastItems, TypeOK, Steps
  <2> QED
    BY <1>14, <2>4, <2>5 DEF BroadcastItems, HolderInv
<1>15. ASSUME Return(mutex, "error") \/ Return(mutex, Head(answers[mutex])), Unlock,
              Await \/ InternalError
       PROVE  TypeOK' /\ HolderInv'
  <2>1. mutex \in Calls
    BY <1>15 DEF Await, InternalError, HolderInv, TypeOK
  <2>2. returned' \in [Calls -> Values \cup {"none"}]
    <3>1. Await => Head(answers[mutex]) \in Values
      BY <2>1, TailFacts DEF Await, TypeOK
    <3> QED
      BY <1>15, <2>1, <3>1 DEF Await, InternalError, Return, TypeOK, Values
  <2>3. call' \in [Calls -> {"new", "queued", "holding", "returned"}]
        /\ \A c \in Calls : call'[c] # "holding"
    BY <1>15, <2>1 DEF Return, TypeOK, HolderInv
  <2>4. seenOwnTx' \in BOOLEAN /\ emptiedQueue' \in BOOLEAN
    BY <1>15, Zenon DEF Unlock
  <2>5. faults' \in Nat
    BY <1>15 DEF Await, InternalError, TypeOK
  <2>6. TypeOK'
    BY <1>15, <2>2, <2>3, <2>4, <2>5 DEF Await, InternalError, Unlock, TypeOK, Steps
  <2> QED
    BY <1>15, <2>3, <2>6 DEF Unlock, HolderInv
<1> QED
  BY <1>1, <1>2, <1>3, <1>4, <1>5, <1>6, <1>7, <1>8, <1>9, <1>10, <1>11, <1>12, <1>13,
     <1>14, <1>15 DEF HolderStep, Await, InternalError


\* The steps that are not the holder's have the types, too.
LEMMA OtherType ==
  ASSUME TypeOK, HolderInv,
         \/ \E c \in Calls : Enqueue(c) \/ Lock(c) \/ Cancel(c)
         \/ LoseLockout
         \/ GainLockout
         \/ UNCHANGED vars
  PROVE  TypeOK' /\ HolderInv'
<1> USE DEF holderVars, envVars
<1>0. NoCall \notin Calls
  BY TxQueueAssumption
<1>1. ASSUME NEW c \in Calls, Enqueue(c) PROVE TypeOK' /\ HolderInv'
  <2>1. txQueue' \in Seq(Calls) /\ Len(txQueue') = Len(txQueue) + 1 /\ Len(txQueue) \in Nat
    BY <1>1, AppendFacts, LenProperties DEF Enqueue, TypeOK
  <2>2. Len(txQueue') <= QueueCap
    BY <1>1, <2>1, TxQueueAssumption DEF Enqueue
  <2>3. call' \in [Calls -> {"new", "queued", "holding", "returned"}]
    BY <1>1 DEF Enqueue, TypeOK
  <2>4. TypeOK'
    BY <1>1, <2>1, <2>2, <2>3 DEF Enqueue, TypeOK
  <2>5. /\ mutex # NoCall => call'[mutex] = "holding"
        /\ \A d \in Calls : call'[d] = "holding" => d = mutex
    BY <1>1 DEF Enqueue, HolderInv, TypeOK
  <2> QED
    BY <1>1, <2>4, <2>5 DEF Enqueue, HolderInv
<1>2. ASSUME NEW c \in Calls, LockWithoutLockout(c) \/ LockAndReturn(c)
      PROVE  TypeOK' /\ HolderInv'
  <2>1. returned' \in [Calls -> Values \cup {"none"}]
    <3>1. LockAndReturn(c) => Head(answers[c]) \in Values
      BY TailFacts DEF LockAndReturn, LockAnswered, TypeOK
    <3> QED
      BY <1>2, <3>1 DEF LockWithoutLockout, LockAndReturn, Return, TypeOK, Values
  <2>2. /\ call' \in [Calls -> {"new", "queued", "holding", "returned"}]
        /\ mutex = NoCall /\ UNCHANGED mutex
        /\ \A d \in Calls : call'[d] = "holding" => d = mutex
    BY <1>2 DEF LockWithoutLockout, LockAndReturn, Return, TypeOK, HolderInv
  <2>3. TypeOK'
    BY <1>2, <2>1, <2>2 DEF LockWithoutLockout, LockAndReturn, TypeOK
  <2> QED
    BY <1>2, <2>2, <2>3 DEF LockWithoutLockout, LockAndReturn, HolderInv
<1>3. ASSUME NEW c \in Calls, LockAndSequence(c) PROVE TypeOK' /\ HolderInv'
  <2>1. /\ call' \in [Calls -> {"new", "queued", "holding", "returned"}]
        /\ mutex' = c /\ mutex = NoCall
        /\ call'[c] = "holding"
        /\ \A d \in Calls : call'[d] = "holding" => d = c
    BY <1>0, <1>3 DEF LockAndSequence, TypeOK, HolderInv
  <2>2. TypeOK'
    BY <1>3, <2>1 DEF LockAndSequence, TypeOK, Steps
  <2> QED
    BY <1>0, <1>3, <2>1, <2>2 DEF LockAndSequence, HolderInv
<1>4. ASSUME NEW c \in Calls, Cancel(c) PROVE TypeOK' /\ HolderInv'
  BY <1>4 DEF Cancel, TypeOK, HolderInv
<1>5. ASSUME LoseLockout \/ GainLockout PROVE TypeOK' /\ HolderInv'
  <2>1. shouldSequence' \in BOOLEAN
    BY <1>5, Zenon DEF LoseLockout, GainLockout
  <2>2. losses' \in Nat
    BY <1>5 DEF LoseLockout, GainLockout, TypeOK
  <2>3. TypeOK'
    BY <1>5, <2>1, <2>2 DEF LoseLockout, GainLockout, TypeOK
  <2> QED
    BY <1>5, <2>3 DEF LoseLockout, GainLockout, HolderInv
<1>6. ASSUME UNCHANGED vars PROVE TypeOK' /\ HolderInv'
  BY <1>6 DEF vars, TypeOK, HolderInv
<1> QED
  BY <1>1, <1>2, <1>3, <1>4, <1>5, <1>6 DEF Lock

\* OnceInv speaks of the places a call can be in: a step that leaves them
\* alone keeps it.
LEMMA OnceUnchanged ==
  ASSUME OnceInv, UNCHANGED <<txQueue, taken, batchTxs, answers, mutex, seenOwnTx>>,
         Batched' \subseteq Batched,
         \A c \in Calls : call'[c] = "new" => call[c] = "new",
         step' = "gathered" /\ emptiedQueue' => mutex \notin Queued
  PROVE  OnceInv'
BY DEF OnceInv, Queued

\* A call has its transaction in one place, whoever else steps.
LEMMA OnceOther ==
  ASSUME TypeOK, HolderInv, OnceInv,
         \/ \E c \in Calls : Enqueue(c) \/ Lock(c) \/ Cancel(c)
         \/ LoseLockout
         \/ GainLockout
         \/ UNCHANGED vars
  PROVE  OnceInv'
<1> USE DEF holderVars, envVars
<1>0. NoCall \notin Calls
  BY TxQueueAssumption
<1>1. ASSUME NEW c \in Calls, Enqueue(c) PROVE OnceInv'
  <2>1. /\ c \notin Queued /\ c # taken /\ c \notin Batched /\ answers[c] = <<>>
        /\ Distinct(txQueue) /\ txQueue \in Seq(Calls)
    BY <1>1 DEF Enqueue, OnceInv, TypeOK
  <2>2. Queued' = Queued \cup {c} /\ Distinct(txQueue)'
    BY <1>1, <2>1, AppendFacts DEF Enqueue, Queued
  <2>3. Batched' = Batched
    BY <1>1 DEF Enqueue, Batched
  <2>4. \A d \in Calls : call'[d] = "new" => call[d] = "new" /\ d # c
    BY <1>1 DEF Enqueue, TypeOK
  <2>5. mutex # c
    BY <1>0, <1>1 DEF Enqueue, HolderInv
  <2> HIDE DEF Queued
  <2> QED
    BY <1>1, <2>1, <2>2, <2>3, <2>4, <2>5 DEF Enqueue, OnceInv
<1>2. ASSUME NEW c \in Calls, LockWithoutLockout(c) \/ LockAndReturn(c) PROVE OnceInv'
  <2>1. \A d \in Calls : call'[d] = "new" => call[d] = "new"
    BY <1>2 DEF LockWithoutLockout, LockAndReturn, Return, TypeOK
  <2>2. UNCHANGED <<txQueue, taken, batchTxs, answers, mutex, seenOwnTx, step, emptiedQueue>>
    BY <1>2 DEF LockWithoutLockout, LockAndReturn
  <2> QED
    BY <2>1, <2>2, OnceUnchanged DEF Batched, OnceInv
<1>3. ASSUME NEW c \in Calls, LockAndSequence(c) PROVE OnceInv'
  <2>1. \A d \in Calls : call'[d] = "new" => call[d] = "new"
    BY <1>3 DEF LockAndSequence, TypeOK
  <2>2. Batched' = {} /\ Batched = {} /\ answers[c] = <<>> /\ batchTxs = <<>>
    BY <1>3, EmptyFacts DEF LockAndSequence, LockAnswered, Batched, HolderInv
  <2> QED
    BY <1>3, <2>1, <2>2 DEF LockAndSequence, OnceInv, Queued
<1>4. ASSUME \/ \E c \in Calls : Cancel(c)
             \/ LoseLockout \/ GainLockout \/ UNCHANGED vars
      PROVE  OnceInv'
  <2>1. UNCHANGED <<call, txQueue, taken, batchTxs, answers, mutex, seenOwnTx, step,
                    emptiedQueue>>
    BY <1>4 DEF Cancel, LoseLockout, GainLockout, vars
  <2> QED
    BY <2>1, OnceUnchanged DEF Batched, OnceInv
<1> QED
  BY <1>1, <1>2, <1>3, <1>4 DEF Lock

\* Some calls are answered for the first time and leave the holder's hands:
\* the rest of the places is as it was.
LEMMA OnceAnswered ==
  ASSUME OnceInv, NEW A, NEW v, UNCHANGED <<call, txQueue, mutex>>,
         A \subseteq Batched \cup ({taken} \ {NoCall}),
         \A c \in A : answers'[c] = <<v>>,
         \A c \in Calls \ A : answers'[c] = answers[c],
         Batched' \subseteq Batched \ A, Batched' # {} => Distinct(batchTxs)',
         taken' = NoCall \/ (taken' = taken /\ taken \notin A), NoCall \notin Calls,
         Batched \subseteq Calls, Queued \subseteq Calls, taken \in Calls \cup {NoCall},
         mutex \in Calls \cup {NoCall},
         ~seenOwnTx' => ~seenOwnTx /\ mutex \notin A,
         step' = "gathered" /\ emptiedQueue' => mutex \notin Queued
  PROVE  OnceInv'
<1>1. A \subseteq Calls /\ Queued' = Queued
  BY DEF Queued
<1>2. \A c \in Calls : Len(answers'[c]) <= 1
  <2>1. Len(<<v>>) = 1
    OBVIOUS
  <2>2. \A c \in A : Len(answers'[c]) = 1
    BY <2>1, Zenon
  <2>3. \A c \in Calls \ A : Len(answers'[c]) <= 1
    BY DEF OnceInv
  <2> SUFFICES ASSUME NEW c \in Calls PROVE Len(answers'[c]) <= 1
    OBVIOUS
  <2>4. PICK n : n = Len(answers'[c])
    OBVIOUS
  <2>5. n = 1 \/ n <= 1
    BY <2>2, <2>3, <2>4, Zenon
  <2>6. n <= 1
    BY <2>5
  <2> QED
    BY <2>4, <2>6, Zenon
<1>3. \A c \in Calls : call[c] = "new" => c \notin A
  BY <1>1 DEF OnceInv
<1>4. \A c \in Queued : c \notin A
  BY <1>1 DEF OnceInv
<1>5. \A c \in Batched' : answers'[c] = <<>>
  BY <1>1 DEF OnceInv
<1>6. taken' # NoCall => taken' \notin Batched' /\ answers'[taken'] = <<>>
  BY DEF OnceInv
<1>7. mutex # NoCall /\ ~seenOwnTx' => answers'[mutex] = <<>> /\ mutex \notin Batched'
  BY DEF OnceInv
<1>8. \A c \in Calls : call'[c] = "new" =>
        c \notin Queued' /\ c # taken' /\ c \notin Batched' /\ answers'[c] = <<>>
  BY <1>1, <1>3 DEF OnceInv
<1>9. \A c \in Queued' : c # taken' /\ c \notin Batched' /\ answers'[c] = <<>>
  BY <1>1, <1>4 DEF OnceInv
<1>10. Distinct(txQueue)'
  BY DEF OnceInv
<1> QED
  BY <1>1, <1>2, <1>5, <1>6, <1>7, <1>8, <1>9, <1>10 DEF OnceInv

\* The transactions of the channel and of the batch are those of calls.
LEMMA PlacesAreCalls == TypeOK => Queued \subseteq Calls /\ ToSet(batchTxs) \subseteq Calls
                                  /\ Batched \subseteq Calls
<1> SUFFICES ASSUME TypeOK PROVE Queued \subseteq Calls /\ ToSet(batchTxs) \subseteq Calls
                                 /\ Batched \subseteq Calls
  OBVIOUS
<1>1. \A s \in Seq(Calls) : ToSet(s) \subseteq Calls
  BY ElementOfSeq, LenProperties DEF ToSet
<1>2. Queued \subseteq Calls /\ ToSet(batchTxs) \subseteq Calls
  BY <1>1 DEF TypeOK, Queued
<1> QED
  BY <1>2 DEF Batched

\* A call has its transaction in one place, whatever the holder does with it.
LEMMA OnceHolder ==
  ASSUME TypeOK, HolderInv, OnceInv, HolderStep \/ InternalError
  PROVE  OnceInv'
<1> USE DEF holderVars, envVars
<1>0. /\ NoCall \notin Calls
      /\ Queued \subseteq Calls /\ ToSet(batchTxs) \subseteq Calls /\ Batched \subseteq Calls
      /\ txQueue \in Seq(Calls) /\ batchTxs \in Seq(Calls)
      /\ taken \in Calls \cup {NoCall} /\ mutex \in Calls \cup {NoCall}
      /\ Distinct(txQueue)
      /\ "error" \in Values /\ "ok" \in Values
  BY TxQueueAssumption, PlacesAreCalls DEF TypeOK, OnceInv, Values
<1>1. ASSUME TakeItem PROVE OnceInv'
  <2>1. /\ Queued = Queued' \cup {taken'} /\ taken' \notin Queued' /\ taken' \in Calls
        /\ Distinct(txQueue)'
    BY <1>0, <1>1, TailFacts DEF TakeItem, Queued
  <2>2. Batched' = Batched
    BY <1>1 DEF TakeItem, Batched
  <2>3. UNCHANGED <<call, answers, mutex, seenOwnTx, batchTxs>> /\ step' = "place"
    BY <1>1 DEF TakeItem
  <2> QED
    BY <2>1, <2>2, <2>3 DEF OnceInv
<1>2. ASSUME PlaceCancelled PROVE OnceInv'
  <2>1. /\ taken \in Calls /\ taken' = NoCall /\ Answer(taken, "error")
        /\ UNCHANGED <<call, txQueue, mutex, batchTxs>>
        /\ ~seenOwnTx' => ~seenOwnTx /\ mutex # taken
        /\ step' = "take" /\ step = "place"
    BY <1>0, <1>2 DEF PlaceCancelled, HolderInv
  <2>2. taken \notin Batched /\ answers[taken] = <<>>
    BY <1>0, <2>1 DEF OnceInv
  <2>3. answers'[taken] = <<"error">> /\ \A c \in Calls \ {taken} : answers'[c] = answers[c]
    BY <1>0, <2>1, <2>2, AnswerType
  <2>4. Batched' = Batched /\ (Batched' # {} => Distinct(batchTxs)')
    BY <2>1 DEF Batched, OnceInv
  <2>5. {taken} \subseteq {taken} \ {NoCall} /\ Batched' \subseteq Batched \ {taken}
    BY <1>0, <2>1, <2>2, <2>4
  <2>6. PICK A : A = {taken}
    OBVIOUS
  <2>7. step' # "gathered"
    BY <2>1
  <2> QED
    BY <1>0, <2>1, <2>2, <2>3, <2>4, <2>5, <2>6, <2>7, OnceAnswered
<1>3. ASSUME PlaceBack PROVE OnceInv'
  <2>1. /\ taken \in Calls /\ taken' = NoCall /\ ~emptiedQueue'
        /\ UNCHANGED <<call, mutex, batchTxs>>
        /\ step' = "gathered" /\ step = "place"
    BY <1>0, <1>3 DEF PlaceBack, HolderInv
  <2>2. taken \notin Batched /\ answers[taken] = <<>> /\ taken \notin Queued /\ call[taken] # "new"
    BY <1>0, <2>1 DEF OnceInv
  <2>3. Batched' = Batched /\ (Batched' # {} => Distinct(batchTxs)')
    BY <2>1 DEF Batched, OnceInv
  <2>4. CASE txQueue' = Append(txQueue, taken) /\ UNCHANGED <<answers, seenOwnTx>>
    <3>1. Queued' = Queued \cup {taken} /\ Distinct(txQueue)'
      BY <1>0, <2>1, <2>2, <2>4, AppendFacts DEF Queued
    <3> QED
      BY <1>0, <2>1, <2>2, <2>3, <2>4, <3>1 DEF OnceInv
  <2>5. CASE /\ Answer(taken, "error") /\ seenOwnTx' = (seenOwnTx \/ taken = mutex)
             /\ UNCHANGED txQueue
    <3>1. answers'[taken] = <<"error">> /\ \A c \in Calls \ {taken} : answers'[c] = answers[c]
      BY <1>0, <2>1, <2>2, <2>5, AnswerType
    <3>2. ~seenOwnTx' => ~seenOwnTx /\ mutex # taken
      BY <2>5
    <3>3. {taken} \subseteq {taken} \ {NoCall} /\ Batched' \subseteq Batched \ {taken}
      BY <1>0, <2>1, <2>2, <2>3
    <3>4. PICK A : A = {taken}
      OBVIOUS
    <3> QED
      BY <1>0, <2>1, <2>2, <2>3, <2>5, <3>1, <3>2, <3>3, <3>4, OnceAnswered
  <2> QED
    BY <1>3, <2>4, <2>5 DEF PlaceBack
<1>4. ASSUME PlaceInBatch PROVE OnceInv'
  <2>1. /\ taken \in Calls /\ taken' = NoCall
        /\ UNCHANGED <<call, txQueue, mutex>>
        /\ ~seenOwnTx' => ~seenOwnTx /\ mutex # taken
        /\ step' = "take" /\ step = "place"
    BY <1>0, <1>4 DEF PlaceInBatch, HolderInv
  <2>2. taken \notin Batched /\ answers[taken] = <<>> /\ taken \notin Queued /\ call[taken] # "new"
    BY <1>0, <2>1 DEF OnceInv
  <2>3. CASE Answer(taken, "error") /\ UNCHANGED batchTxs
    <3>1. answers'[taken] = <<"error">> /\ \A c \in Calls \ {taken} : answers'[c] = answers[c]
      BY <1>0, <2>1, <2>2, <2>3, AnswerType
    <3>2. Batched' = Batched /\ (Batched' # {} => Distinct(batchTxs)')
      BY <2>1, <2>3 DEF Batched, OnceInv
    <3>3. {taken} \subseteq {taken} \ {NoCall} /\ Batched' \subseteq Batched \ {taken}
      BY <1>0, <2>1, <2>2, <3>2
    <3>4. PICK A : A = {taken}
      OBVIOUS
    <3> QED
      BY <1>0, <2>1, <2>2, <3>1, <3>2, <3>3, <3>4, OnceAnswered
  <2>4. CASE batchTxs' = Append(batchTxs, taken) /\ UNCHANGED answers
    <3>1. Batched = ToSet(batchTxs) /\ Batched' = ToSet(batchTxs')
      BY <2>1 DEF Batched
    <3>2. Distinct(batchTxs)
      <4>1. CASE Batched = {}
        <5>1. \A i \in DOMAIN batchTxs : FALSE
          BY <3>1, <4>1 DEF ToSet
        <5> QED
          BY <5>1 DEF Distinct
      <4>2. CASE Batched # {}
        BY <4>2 DEF OnceInv
      <4> QED
        BY <4>1, <4>2
    <3>3. Batched' = Batched \cup {taken} /\ Distinct(batchTxs)'
      BY <1>0, <2>1, <2>2, <2>4, <3>1, <3>2, AppendFacts
    <3>4. Queued' = Queued
      BY <2>1 DEF Queued
    <3> QED
      BY <1>0, <2>1, <2>2, <2>4, <3>3, <3>4 DEF OnceInv
  <2> QED
    BY <1>4, <2>3, <2>4 DEF PlaceInBatch
<1>5. ASSUME QueueDrained PROVE OnceInv'
  <2>1. UNCHANGED <<call, txQueue, taken, batchTxs, answers, mutex, seenOwnTx>>
    BY <1>5 DEF QueueDrained
  <2>2. Batched' = Batched
    BY <1>5 DEF QueueDrained, Batched
  <2>3. Queued = {}
    BY <1>5, EmptyFacts DEF QueueDrained, Queued
  <2> QED
    BY <2>1, <2>2, <2>3, OnceUnchanged
<1>6. ASSUME BeginBatch PROVE OnceInv'
  <2>1. /\ UNCHANGED <<call, answers, txQueue, mutex, taken, emptiedQueue>>
        /\ step = "gathered" /\ step' # "gathered" /\ taken = NoCall /\ mutex \in Calls
        /\ seenOwnTx' = (seenOwnTx \/ RetriesOwnTx)
    BY <1>0, <1>6 DEF BeginBatch, HolderInv
  <2>2. Batched = ToSet(batchTxs)
    BY <2>1 DEF Batched
  <2>3. CASE RetriesOwnTx
    <3>1. batchTxs' = Append(batchTxs, mutex) /\ seenOwnTx'
      BY <1>6, <2>3 DEF BeginBatch
    <3>2. answers[mutex] = <<>> /\ mutex \notin Batched /\ mutex \notin Queued
      BY <1>0, <2>1, <2>3 DEF OnceInv, RetriesOwnTx
    <3>3. Distinct(batchTxs)
      <4>1. CASE Batched = {}
        <5>1. \A i \in DOMAIN batchTxs : FALSE
          BY <2>2, <4>1 DEF ToSet
        <5> QED
          BY <5>1 DEF Distinct
      <4>2. CASE Batched # {}
        BY <4>2 DEF OnceInv
      <4> QED
        BY <4>1, <4>2
    <3>4. batchTxs' # <<>> /\ ToSet(batchTxs') = Batched \cup {mutex} /\ Distinct(batchTxs)'
      BY <1>0, <2>1, <2>2, <3>1, <3>2, <3>3, AppendFacts
    <3>5. Batched' = Batched \cup {mutex}
      BY <1>6, <2>3, <3>4 DEF BeginBatch, Batched
    <3>6. Queued' = Queued /\ call[mutex] # "new"
      BY <1>0, <2>1 DEF Queued, HolderInv
    <3> QED
      BY <1>0, <2>1, <3>1, <3>2, <3>4, <3>5, <3>6 DEF OnceInv
  <2>4. CASE ~RetriesOwnTx
    <3>1. UNCHANGED <<batchTxs, seenOwnTx>>
      <4>1. seenOwnTx' = seenOwnTx
        BY <1>6, <2>4 DEF BeginBatch, TypeOK
      <4>2. batchTxs' = batchTxs
        BY <1>6, <2>4 DEF BeginBatch
      <4> QED
        BY <4>1, <4>2
    <3>2. Batched' \subseteq Batched
      BY <2>2, <3>1 DEF Batched
    <3> QED
      BY <2>1, <3>1, <3>2, OnceUnchanged
  <2> QED
    BY <2>3, <2>4
<1>7. ASSUME DeliverBatch \/ DeliverSingle PROVE OnceInv'
  <2>1. UNCHANGED <<call, txQueue, taken, batchTxs, answers, mutex, seenOwnTx>>
        /\ step' # "gathered"
    BY <1>7 DEF DeliverBatch, DeliverSingle
  <2>2. Batched' = Batched
    BY <1>7 DEF DeliverBatch, DeliverSingle, Batched
  <2> QED
    BY <2>1, <2>2, OnceUnchanged
<1>8. ASSUME NEW v \in Values, AnswerAll(batchTxs, v), AllSucceeded \/ SomeFailed,
             step' \in {"endOfBlock", "await"}
      PROVE  OnceInv'
  <2>1. Distinct(batchTxs) /\ Batched = ToSet(batchTxs)
    BY <1>8, BatchDistinct DEF AllSucceeded, SomeFailed
  <2>2. /\ \A c \in Calls \ Batched : answers'[c] = answers[c]
        /\ \A c \in Batched : answers[c] = <<>> => answers'[c] = <<v>>
    BY <1>8, <2>1, AnswerAllFacts
  <2>3. \A c \in Batched : answers'[c] = <<v>>
    BY <2>2 DEF OnceInv
  <2>4. Batched' = {}
    BY <1>8 DEF Batched
  <2>5. UNCHANGED <<call, txQueue, mutex, taken, seenOwnTx>> /\ taken = NoCall /\ mutex \in Calls
    BY <1>0, <1>8 DEF AllSucceeded, SomeFailed, HolderInv
  <2>6. ~seenOwnTx' => ~seenOwnTx /\ mutex \notin Batched
    BY <1>0, <2>5 DEF OnceInv
  <2> QED
    BY <1>0, <1>8, <2>2, <2>3, <2>4, <2>5, <2>6, OnceAnswered
<1>9. ASSUME SomeFailed, UNCHANGED answers, step' = "single" PROVE OnceInv'
  <2>1. UNCHANGED <<call, txQueue, taken, batchTxs, mutex, seenOwnTx>>
    BY <1>9 DEF SomeFailed
  <2>2. Batched' = Batched
    BY <1>9 DEF SomeFailed, Batched
  <2> QED
    BY <1>9, <2>1, <2>2, OnceUnchanged
<1>10. ASSUME NEW v \in Values, Answer(Head(batchTxs), v), SkipFailed \/ JudgeSingle
       PROVE  OnceInv'
  <2>1. /\ batchTxs # <<>> /\ batchTxs' = Tail(batchTxs)
        /\ UNCHANGED <<call, txQueue, mutex, taken, seenOwnTx>> /\ taken = NoCall /\ mutex \in Calls
        /\ step' = "single" /\ step \in {"single", "judge"}
    BY <1>0, <1>10 DEF SkipFailed, JudgeSingle, HolderInv
  <2>2. Distinct(batchTxs) /\ Batched = ToSet(batchTxs)
    BY <2>1, BatchDistinct
  <2>3. /\ Batched = ToSet(batchTxs') \cup {Head(batchTxs)}
        /\ Head(batchTxs) \notin ToSet(batchTxs') /\ Distinct(batchTxs)'
        /\ Head(batchTxs) \in Calls
    BY <1>0, <2>1, <2>2, TailFacts
  <2>4. PICK c : c = Head(batchTxs)
    OBVIOUS
  <2>5. answers[c] = <<>> /\ c \in Calls
    BY <2>3, <2>4 DEF OnceInv
  <2>6. answers'[c] = <<v>> /\ \A d \in Calls \ {c} : answers'[d] = answers[d]
    BY <1>10, <2>4, <2>5, AnswerType
  <2>7. Batched' = Batched \ {c} /\ c \in Batched
    BY <2>1, <2>3, <2>4 DEF Batched
  <2>8. ~seenOwnTx' => ~seenOwnTx /\ mutex \notin {c}
    BY <1>0, <2>1, <2>7 DEF OnceInv
  <2> QED
    BY <1>0, <2>1, <2>3, <2>6, <2>7, <2>8, OnceAnswered
<1>11. ASSUME DeliverEndOfBlock PROVE OnceInv'
  <2>1. UNCHANGED <<call, txQueue, taken, batchTxs, answers, mutex, seenOwnTx>>
        /\ step' = "broadcast"
    BY <1>11 DEF DeliverEndOfBlock
  <2>2. Batched' = {}
    BY <2>1 DEF Batched
  <2> QED
    BY <2>1, <2>2, OnceUnchanged
<1>12. ASSUME BroadcastItems PROVE OnceInv'
  <2>1. UNCHANGED <<call, txQueue, taken, answers, mutex, seenOwnTx>> /\ batchTxs' = <<>>
        /\ step' # "gathered"
    BY <1>12 DEF BroadcastItems
  <2>2. Batched' = {}
    BY <2>1, EmptyFacts DEF Batched
  <2> QED
    BY <2>1, <2>2 DEF OnceInv, Queued
<1>13. ASSUME Unlock, Await \/ InternalError PROVE OnceInv'
  <2>1. UNCHANGED <<txQueue, answers>> /\ mutex' = NoCall /\ step' = "idle" /\ taken' = NoCall
    BY <1>13 DEF Unlock, Await, InternalError
  <2>2. \A c \in Calls : call'[c] = "new" => call[c] = "new"
    BY <1>13 DEF Await, InternalError, Return, TypeOK
  <2>3. Batched' = {}
    BY <2>1 DEF Batched
  <2> QED
    BY <1>0, <2>1, <2>2, <2>3 DEF OnceInv, Queued
<1> QED
  <2>1. AllSucceeded => OnceInv'
    BY <1>0, <1>8 DEF AllSucceeded
  <2>2. SomeFailed => OnceInv'
    BY <1>0, <1>8, <1>9 DEF SomeFailed
  <2>3. SkipFailed => OnceInv'
    BY <1>0, <1>10 DEF SkipFailed
  <2>4. JudgeSingle => OnceInv'
    BY <1>0, <1>10 DEF JudgeSingle
  <2> QED
    BY <1>1, <1>2, <1>3, <1>4, <1>5, <1>6, <1>7, <1>11, <1>12, <1>13, <2>1, <2>2, <2>3, <2>4
    DEF HolderStep, Await, InternalError

\* The types, where the holder is, and the place of every transaction hold
\* together.
QueueInv == TypeOK /\ HolderInv /\ OnceInv

\* Every step keeps the invariant.
LEMMA QueueStep == ASSUME QueueInv, [Next]_vars PROVE QueueInv'
<1>1. CASE HolderStep \/ InternalError
  BY <1>1, HolderType, OnceHolder DEF QueueInv
<1>2. CASE \/ \E c \in Calls : Enqueue(c) \/ Lock(c) \/ Cancel(c)
           \/ LoseLockout
           \/ GainLockout
           \/ UNCHANGED vars
  BY <1>2, OtherType, OnceOther DEF QueueInv
<1> QED
  BY <1>1, <1>2 DEF Next

\* The inductive invariant of SendTransaction.
THEOREM QueueInvariant == Spec => []QueueInv
<1>1. Init => QueueInv
  <2> SUFFICES ASSUME Init PROVE QueueInv
    OBVIOUS
  <2>1. TypeOK
    BY QueueTypeInit
  <2>2. HolderInv
    BY DEF Init, HolderInv
  <2>3. OnceInv
    <3>1. Queued = {} /\ Batched = {} /\ Distinct(txQueue)
      BY EmptyFacts DEF Init, Queued, Batched
    <3>2. \A c \in Calls : answers[c] = <<>> /\ Len(answers[c]) <= 1
      BY DEF Init
    <3> QED
      BY <3>1, <3>2, TxQueueAssumption DEF Init, OnceInv
  <2> QED
    BY <2>1, <2>2, <2>3 DEF QueueInv
<1>2. QueueInv /\ [Next]_vars => QueueInv'
  BY QueueStep
<1> QED
  BY <1>1, <1>2, PTL DEF Spec

\* No call's result channel gets a second value, so that no holder of the
\* mutex blocks on one (the sends on resultChan in SendTransaction).
THEOREM CallsAnsweredOnce == Spec => []AnsweredOnce
<1>1. QueueInv => AnsweredOnce
  BY DEF QueueInv, OnceInv, AnsweredOnce
<1> QED
  BY <1>1, QueueInvariant, PTL

\* The types are right, whatever the calls and the machine do.
THEOREM QueueTypes == Spec => []TypeOK
<1>1. QueueInv => TypeOK
  BY DEF QueueInv
<1> QED
  BY <1>1, QueueInvariant, PTL

(***************************************************************************)
(* What is in the database to stay.  A message whose results are being     *)
(* looked at may be taken out again; the others stay.                      *)
(***************************************************************************)
Kept == IF step \in {"results", "judge"} THEN Len(db) - 1 ELSE Len(db)

\* No step takes out or changes a message that is to stay.
LEMMA KeptStays ==
  ASSUME QueueInv, [Next]_vars
  PROVE  /\ Kept \in Nat /\ Kept' \in Nat
         /\ Kept <= Kept'
         /\ \A i \in 1 .. Kept : db'[i] = db[i]
<1> USE DEF holderVars, envVars
<1>0. /\ db \in Seq(Messages) /\ db' \in Seq(Messages)
      /\ step \in {"results", "judge"} => db # <<>>
      /\ step' \in {"results", "judge"} => db' # <<>>
  <2>1. QueueInv'
    BY QueueStep
  <2> QED
    BY <2>1 DEF QueueInv, TypeOK, HolderInv
<1>1. /\ Len(db) \in Nat /\ Len(db') \in Nat
      /\ step \in {"results", "judge"} => Len(db) # 0
      /\ step' \in {"results", "judge"} => Len(db') # 0
  BY <1>0, LenProperties, EmptySeq
<1>2. Kept \in Nat /\ Kept' \in Nat
  BY <1>1 DEF Kept
<1>3. ASSUME NEW m \in Messages, db' = Append(db, m), step \notin {"results", "judge"}
      PROVE  Kept <= Kept' /\ \A i \in 1 .. Kept : db'[i] = db[i]
  <2>1. Len(db') = Len(db) + 1 /\ \A i \in 1 .. Len(db) : db'[i] = db[i]
    BY <1>0, <1>3, AppendProperties
  <2> QED
    BY <1>1, <1>3, <2>1 DEF Kept
<1>4. ASSUME db' = Front(db), step \in {"results", "judge"}, step' \notin {"results", "judge"}
      PROVE  Kept <= Kept' /\ \A i \in 1 .. Kept : db'[i] = db[i]
  <2>1. Len(db') = Len(db) - 1 /\ \A i \in 1 .. Len(db) - 1 : db'[i] = db[i]
    BY <1>0, <1>4, FrontFacts
  <2> QED
    BY <1>1, <1>4, <2>1 DEF Kept
<1>5. ASSUME UNCHANGED db, step' \in {"results", "judge"} => UNCHANGED step
      PROVE  Kept <= Kept' /\ \A i \in 1 .. Kept : db'[i] = db[i]
  BY <1>1, <1>5 DEF Kept
<1>6. ASSUME DeliverBatch PROVE Kept <= Kept' /\ \A i \in 1 .. Kept : db'[i] = db[i]
  <2>1. PICK r \in TxResults(batchTxs) :
          db' = Append(db, Txs([i \in DOMAIN batchTxs |->
                                  Outcome(TxHash[batchTxs[i]], r[TxHash[batchTxs[i]]])]))
    BY <1>6 DEF DeliverBatch
  <2>2. PICK m \in Messages : db' = Append(db, m)
    BY <2>1, DeliveredType DEF QueueInv, TypeOK
  <2> QED
    BY <1>3, <1>6, <2>2 DEF DeliverBatch
<1>7. ASSUME DeliverSingle PROVE Kept <= Kept' /\ \A i \in 1 .. Kept : db'[i] = db[i]
  <2>1. PICK m \in Messages : db' = Append(db, m)
    BY <1>7, SingleDelivered DEF QueueInv
  <2> QED
    BY <1>3, <1>7, <2>1 DEF DeliverSingle
<1>8. ASSUME DeliverEndOfBlock PROVE Kept <= Kept' /\ \A i \in 1 .. Kept : db'[i] = db[i]
  <2>1. EndOfBlock \in Messages
    BY DEF EndOfBlock, Messages
  <2> QED
    BY <1>3, <1>8, <2>1 DEF DeliverEndOfBlock
<1>9. ASSUME SomeFailed PROVE Kept <= Kept' /\ \A i \in 1 .. Kept : db'[i] = db[i]
  BY <1>4, <1>9 DEF SomeFailed, ReorgOut
<1>10. ASSUME JudgeSingle PROVE Kept <= Kept' /\ \A i \in 1 .. Kept : db'[i] = db[i]
  BY <1>4, <1>5, <1>10 DEF JudgeSingle, ReorgOut
<1>11. ASSUME \/ TakeItem \/ PlaceCancelled \/ PlaceBack \/ PlaceInBatch \/ QueueDrained
              \/ BeginBatch \/ AllSucceeded \/ SkipFailed \/ BroadcastItems \/ Await
              \/ InternalError
       PROVE  UNCHANGED db /\ step' \notin {"results", "judge"}
  BY <1>11 DEF TakeItem, PlaceCancelled, PlaceBack, PlaceInBatch, QueueDrained, BeginBatch,
               AllSucceeded, SkipFailed, BroadcastItems, Await, InternalError, Unlock
<1>12. ASSUME NEW c \in Calls, Enqueue(c) \/ Lock(c) \/ Cancel(c)
       PROVE  UNCHANGED db /\ (step' \in {"results", "judge"} => UNCHANGED step)
  BY <1>12 DEF Enqueue, Lock, LockWithoutLockout, LockAndReturn, LockAndSequence, Cancel
<1>13. ASSUME LoseLockout \/ GainLockout \/ UNCHANGED vars
       PROVE  UNCHANGED db /\ (step' \in {"results", "judge"} => UNCHANGED step)
  BY <1>13 DEF LoseLockout, GainLockout, vars
<1> QED
  BY <1>2, <1>5, <1>6, <1>7, <1>8, <1>9, <1>10, <1>11, <1>12, <1>13 DEF Next, HolderStep

(***************************************************************************)
(* The feed follows the database.                                          *)
(***************************************************************************)
Sequencing == step \in {"deliver", "results", "single", "judge", "endOfBlock", "broadcast"}

\* The items are those the database has after acc, and they are there to stay.
Follows(acc, items) ==
  /\ acc + Len(items) <= Kept
  /\ \A k \in 1 .. Len(items) : items[k] = db[acc + k]

\* The broadcasts follow the database; what the holder has sequenced so far is
\* all the database has after originalAcc; and without an internal error the
\* broadcasts reach as far as that.
FeedInv ==
  /\ \A i \in DOMAIN feed : Follows(feed[i].prevAcc, feed[i].items)
  /\ Sequencing =>
       /\ originalAcc + Len(sequencedBatchItems) = Kept
       /\ Follows(originalAcc, sequencedBatchItems)
  /\ step \in {"deliver", "results"} => sequencedBatchItems = <<>>
  /\ faults = 0 =>
       /\ \A i \in DOMAIN feed : feed[i].prevAcc = FeedEnd(i - 1)
       /\ FeedEnd(Len(feed)) = IF Sequencing THEN originalAcc ELSE Len(db)

\* What follows the database goes on doing so.
LEMMA GoesOnFollowing ==
  ASSUME QueueInv, [Next]_vars, NEW acc \in Nat, NEW items \in Seq(Messages),
         Follows(acc, items)
  PROVE  /\ acc + Len(items) <= Kept'
         /\ \A k \in 1 .. Len(items) : items[k] = db'[acc + k]
<1>1. /\ Kept \in Nat /\ Kept' \in Nat /\ Kept <= Kept'
      /\ \A i \in 1 .. Kept : db'[i] = db[i]
  BY KeptStays
<1>2. Len(items) \in Nat
  BY LenProperties
<1>3. \A k \in 1 .. Len(items) : acc + k \in 1 .. Kept
  BY <1>1, <1>2 DEF Follows
<1> QED
  BY <1>1, <1>2, <1>3 DEF Follows

\* The feed and the accumulators agree initially.
LEMMA FeedInit == Init => FeedInv
<1> SUFFICES ASSUME Init PROVE FeedInv
  OBVIOUS
<1>1. feed = <<>> /\ db = <<>> /\ step = "idle" /\ DOMAIN feed = {} /\ Len(feed) = 0 /\ Len(db) = 0
  BY DEF Init
<1> QED
  BY <1>1 DEF FeedInv, Sequencing, FeedEnd

\* What happened before stays broadcast, and every step of the holder adds to
\* its items what it adds to the database.
LEMMA FeedStep == ASSUME QueueInv, FeedInv, [Next]_vars PROVE FeedInv'
<1> USE DEF holderVars, envVars
<1> DEFINE Contiguous == /\ \A i \in DOMAIN feed : feed[i].prevAcc = FeedEnd(i - 1)
                         /\ FeedEnd(Len(feed)) = IF Sequencing THEN originalAcc ELSE Len(db)
           Current == Sequencing =>
                        /\ originalAcc + Len(sequencedBatchItems) = Kept
                        /\ Follows(originalAcc, sequencedBatchItems)
           Item == [prevAcc : Nat, items : Seq(Messages)]
<1>0. /\ db \in Seq(Messages) /\ feed \in Seq(Item) /\ originalAcc \in Nat
      /\ sequencedBatchItems \in Seq(Messages) /\ faults \in Nat
      /\ Len(db) \in Nat /\ Len(feed) \in Nat /\ DOMAIN feed = 1 .. Len(feed)
      /\ Len(sequencedBatchItems) \in Nat
      /\ \A i \in DOMAIN feed : feed[i] \in Item
      /\ step \in {"results", "judge"} => db # <<>>
      /\ Kept \in Nat
  <2>1. /\ db \in Seq(Messages) /\ feed \in Seq(Item) /\ originalAcc \in Nat
        /\ sequencedBatchItems \in Seq(Messages) /\ faults \in Nat
        /\ step \in {"results", "judge"} => db # <<>>
    BY DEF QueueInv, TypeOK, HolderInv
  <2> HIDE DEF Item
  <2>2. /\ Len(db) \in Nat /\ Len(feed) \in Nat /\ DOMAIN feed = 1 .. Len(feed)
        /\ Len(sequencedBatchItems) \in Nat
        /\ \A i \in DOMAIN feed : feed[i] \in Item
    BY <2>1, LenProperties, ElementOfSeq
  <2> QED
    BY <2>1, <2>2, KeptStays
<1>1. \A i \in DOMAIN feed : Follows(feed[i].prevAcc, feed[i].items)
  BY DEF FeedInv
<1>2. UNCHANGED feed => (\A i \in DOMAIN feed : Follows(feed[i].prevAcc, feed[i].items))'
  <2> SUFFICES ASSUME UNCHANGED feed, NEW i \in DOMAIN feed
               PROVE  Follows(feed[i].prevAcc, feed[i].items)'
    OBVIOUS
  <2>1. feed[i].prevAcc \in Nat /\ feed[i].items \in Seq(Messages) /\ feed'[i] = feed[i]
    BY <1>0
  <2>2. /\ feed[i].prevAcc + Len(feed[i].items) <= Kept'
        /\ \A k \in 1 .. Len(feed[i].items) : feed[i].items[k] = db'[feed[i].prevAcc + k]
    BY <1>1, <2>1, GoesOnFollowing
  <2> QED
    BY <2>1, <2>2 DEF Follows
\* the steps that sequence nothing
<1>3. ASSUME UNCHANGED <<db, feed, originalAcc, sequencedBatchItems, faults, step>> PROVE FeedInv'
  BY <1>3 DEF FeedInv, Sequencing, Follows, Kept, FeedEnd
<1>4. ASSUME UNCHANGED <<db, feed, faults>>, ~Sequencing, ~Sequencing' PROVE FeedInv'
  BY <1>2, <1>4 DEF FeedInv, Sequencing, FeedEnd
<1>5. ASSUME InternalError PROVE FeedInv'
  <2>1. UNCHANGED feed /\ step' = "idle" /\ faults' # 0
    BY <1>0, <1>5 DEF InternalError, Unlock
  <2> QED
    BY <1>2, <2>1 DEF FeedInv, Sequencing
\* the others that broadcast nothing
<1>6. ASSUME UNCHANGED <<feed, faults, originalAcc>>, Sequencing, Sequencing', Current',
             step' \in {"deliver", "results"} => sequencedBatchItems' = <<>>
      PROVE  FeedInv'
  BY <1>2, <1>6 DEF FeedInv, FeedEnd
<1>7. ASSUME Sequencing', UNCHANGED <<originalAcc, sequencedBatchItems>>, Sequencing, Kept' = Kept
      PROVE  Current'
  <2>1. originalAcc + Len(sequencedBatchItems) = Kept /\ Follows(originalAcc, sequencedBatchItems)
    BY <1>7 DEF FeedInv
  <2>2. \A k \in 1 .. Len(sequencedBatchItems) :
          sequencedBatchItems[k] = db'[originalAcc + k]
    BY <1>0, <2>1, GoesOnFollowing
  <2> QED
    BY <1>0, <1>7, <2>1, <2>2 DEF Follows
<1>8. ASSUME NEW m, Kept' = Kept + 1, db'[Kept'] = m, UNCHANGED originalAcc, Sequencing,
             m \in Messages, sequencedBatchItems' = Append(sequencedBatchItems, m)
      PROVE  Current'
  <2>1. originalAcc + Len(sequencedBatchItems) = Kept /\ Follows(originalAcc, sequencedBatchItems)
    BY <1>8 DEF FeedInv
  <2>2. \A k \in 1 .. Len(sequencedBatchItems) :
          sequencedBatchItems[k] = db'[originalAcc + k]
    BY <1>0, <2>1, GoesOnFollowing
  <2>3. /\ Len(sequencedBatchItems') = Len(sequencedBatchItems) + 1
        /\ \A k \in 1 .. Len(sequencedBatchItems) : sequencedBatchItems'[k] = sequencedBatchItems[k]
        /\ sequencedBatchItems'[Len(sequencedBatchItems) + 1] = m
    BY <1>0, <1>8, AppendProperties
  <2>4. originalAcc + Len(sequencedBatchItems') = Kept'
    <3>1. Kept' = Kept + 1
      BY <1>8
    <3>2. /\ Len(sequencedBatchItems) \in Nat /\ originalAcc \in Nat
          /\ originalAcc + Len(sequencedBatchItems) = Kept
          /\ Len(sequencedBatchItems') = Len(sequencedBatchItems) + 1
      BY <1>0, <2>1, <2>3
    <3> HIDE DEF Current, Contiguous, Item
    <3> QED
      BY <3>1, <3>2
  <2>5. \A k \in 1 .. Len(sequencedBatchItems') : sequencedBatchItems'[k] = db'[originalAcc + k]
    <3> SUFFICES ASSUME NEW k \in 1 .. Len(sequencedBatchItems')
                 PROVE  sequencedBatchItems'[k] = db'[originalAcc + k]
      OBVIOUS
    <3>1. CASE k \in 1 .. Len(sequencedBatchItems)
      BY <2>2, <2>3, <3>1
    <3>2. CASE k = Len(sequencedBatchItems) + 1
      <4>1. originalAcc + k = Kept'
        BY <1>0, <2>3, <2>4, <3>2
      <4> QED
        BY <1>8, <2>3, <3>2, <4>1
    <3>3. k \in 1 .. Len(sequencedBatchItems) \/ k = Len(sequencedBatchItems) + 1
      <4>1. PICK n \in Nat : n = Len(sequencedBatchItems)
        BY <1>0
      <4>2. k \in 1 .. n + 1
        BY <2>3, <4>1
      <4> QED
        BY <4>1, <4>2
    <3> QED
      BY <3>1, <3>2, <3>3
  <2> QED
    BY <1>0, <1>8, <2>4, <2>5 DEF Follows
<1>9. ASSUME NEW m \in Messages, db' = Append(db, m)
      PROVE  Len(db') = Len(db) + 1 /\ db'[Len(db')] = m
  BY <1>0, <1>9, AppendProperties
<1>10. ASSUME DeliverBatch PROVE FeedInv'
  <2>1. PICK r \in TxResults(batchTxs) :
          db' = Append(db, Txs([i \in DOMAIN batchTxs |->
                                  Outcome(TxHash[batchTxs[i]], r[TxHash[batchTxs[i]]])]))
    BY <1>10 DEF DeliverBatch
  <2>2. PICK m \in Messages : db' = Append(db, m)
    BY <2>1, DeliveredType DEF QueueInv, TypeOK
  <2>3. Kept' = Kept
    BY <1>0, <1>9, <1>10, <2>2 DEF DeliverBatch, Kept
  <2>4. /\ UNCHANGED <<feed, faults, originalAcc, sequencedBatchItems>> /\ Sequencing /\ Sequencing'
        /\ sequencedBatchItems' = <<>>
    BY <1>10 DEF DeliverBatch, Sequencing, FeedInv
  <2> QED
    BY <1>6, <1>7, <2>3, <2>4
<1>11. ASSUME DeliverSingle PROVE FeedInv'
  <2>1. PICK m \in Messages : db' = Append(db, m)
    BY <1>11, SingleDelivered DEF QueueInv
  <2>2. Kept' = Kept
    BY <1>0, <1>9, <1>11, <2>1 DEF DeliverSingle, Kept
  <2>3. /\ UNCHANGED <<feed, faults, originalAcc, sequencedBatchItems>> /\ Sequencing /\ Sequencing'
        /\ step' = "judge"
    BY <1>11 DEF DeliverSingle, Sequencing
  <2> QED
    BY <1>6, <1>7, <2>2, <2>3
<1>12. ASSUME AllSucceeded PROVE FeedInv'
  <2>1. /\ UNCHANGED <<feed, faults, originalAcc, db>> /\ Sequencing /\ Sequencing'
        /\ step' = "endOfBlock" /\ step = "results" /\ sequencedBatchItems = <<>>
        /\ sequencedBatchItems' = <<Last(db)>>
    BY <1>12 DEF AllSucceeded, Sequencing, FeedInv
  <2>2. Last(db) \in Messages /\ Last(db) = db[Len(db)]
    BY <1>0, <2>1, FrontFacts DEF Last
  <2>3. Kept' = Kept + 1 /\ Kept' = Len(db)
    BY <1>0, <2>1 DEF Kept
  <2>4. sequencedBatchItems' = Append(sequencedBatchItems, Last(db))
    <3>1. \A m : Append(<<>>, m) = <<m>>
      OBVIOUS
    <3> QED
      BY <2>1, <3>1
  <2>5. Current'
    BY <1>8, <2>1, <2>2, <2>3, <2>4
  <2> QED
    BY <1>6, <2>1, <2>5
<1>13. ASSUME SomeFailed PROVE FeedInv'
  <2>1. /\ UNCHANGED <<feed, faults, originalAcc, sequencedBatchItems>> /\ Sequencing
        /\ step' \in {"await", "single"} /\ step = "results" /\ sequencedBatchItems = <<>>
        /\ db' = Front(db)
    BY <1>13 DEF SomeFailed, Sequencing, FeedInv, ReorgOut
  <2>2. Kept' = Kept /\ Len(db') = Kept
    <3>1. Len(db') = Len(db) - 1
      BY <1>0, <2>1, FrontFacts
    <3> QED
      BY <2>1, <3>1 DEF Kept
  <2>3. CASE step' = "single"
    BY <1>6, <1>7, <2>1, <2>2, <2>3 DEF Sequencing
  <2>4. CASE step' = "await"
    <3>1. originalAcc = Len(db')
      BY <1>0, <2>1, <2>2 DEF FeedInv
    <3> QED
      BY <1>2, <2>1, <2>4, <3>1 DEF FeedInv, Sequencing, FeedEnd
  <2> QED
    BY <2>1, <2>3, <2>4
<1>14. ASSUME JudgeSingle PROVE FeedInv'
  <2>1. /\ UNCHANGED <<feed, faults, originalAcc>> /\ Sequencing /\ Sequencing'
        /\ step' = "single" /\ step = "judge"
    BY <1>14 DEF JudgeSingle, Sequencing
  <2>2. CASE sequencedBatchItems' = Append(sequencedBatchItems, Last(db)) /\ UNCHANGED db
    <3>1. Last(db) \in Messages /\ Last(db) = db[Len(db)]
      BY <1>0, <2>1, FrontFacts DEF Last
    <3>2. Kept' = Kept + 1 /\ Kept' = Len(db)
      BY <1>0, <2>1, <2>2 DEF Kept
    <3>3. Current'
      BY <1>8, <2>1, <2>2, <3>1, <3>2
    <3> QED
      BY <1>6, <2>1, <3>3
  <2>3. CASE db' = Front(db) /\ UNCHANGED sequencedBatchItems
    <3>1. Len(db') = Len(db) - 1
      BY <1>0, <2>1, <2>3, FrontFacts
    <3>2. Kept' = Kept
      BY <2>1, <3>1 DEF Kept
    <3> QED
      BY <1>6, <1>7, <2>1, <2>3, <3>2
  <2> QED
    BY <1>14, <2>2, <2>3 DEF JudgeSingle, ReorgOut
<1>15. ASSUME DeliverEndOfBlock PROVE FeedInv'
  <2>1. /\ UNCHANGED <<feed, faults, originalAcc>> /\ Sequencing /\ Sequencing'
        /\ step' = "broadcast" /\ step \in {"single", "endOfBlock"}
        /\ db' = Append(db, EndOfBlock)
        /\ sequencedBatchItems' = Append(sequencedBatchItems, EndOfBlock)
    BY <1>15 DEF DeliverEndOfBlock, Sequencing
  <2>2. EndOfBlock \in Messages
    BY DEF EndOfBlock, Messages
  <2>3. Len(db') = Len(db) + 1 /\ db'[Len(db')] = EndOfBlock
    BY <1>9, <2>1, <2>2
  <2>4. Kept' = Kept + 1 /\ Kept' = Len(db')
    BY <1>0, <2>1, <2>3 DEF Kept
  <2>5. Current'
    BY <1>8, <2>1, <2>2, <2>3, <2>4
  <2> QED
    BY <1>6, <2>1, <2>5
<1>16. ASSUME BeginBatch PROVE FeedInv'
  <2>1. /\ UNCHANGED <<feed, faults, db>> /\ ~Sequencing
        /\ step' \in {"deliver", "await"}
        /\ sequencedBatchItems' = <<>> /\ originalAcc' = Len(db)
    BY <1>16 DEF BeginBatch, Sequencing
  <2>2. /\ Kept' = Len(db) /\ originalAcc' + Len(sequencedBatchItems') = Len(db)
        /\ \A k \in 1 .. Len(sequencedBatchItems') : FALSE
    BY <1>0, <2>1 DEF Kept
  <2>3. Current'
    BY <1>0, <2>2 DEF Follows
  <2>4. faults = 0 => Contiguous'
    BY <2>1 DEF FeedInv, FeedEnd
  <2> QED
    BY <1>2, <2>1, <2>3, <2>4 DEF FeedInv
<1>17. ASSUME BroadcastItems PROVE FeedInv'
  <2> DEFINE b == [prevAcc |-> originalAcc, items |-> sequencedBatchItems]
  <2>1. /\ UNCHANGED <<faults, db, originalAcc, sequencedBatchItems>> /\ Sequencing /\ ~Sequencing'
        /\ step' \in {"take", "await"} /\ step = "broadcast"
        /\ feed' = Append(feed, b)
    BY <1>17 DEF BroadcastItems, Sequencing, BroadcastAcc
  <2>2. b \in Item /\ b.prevAcc = originalAcc /\ b.items = sequencedBatchItems
    BY <1>0
  <2>3. /\ Len(feed') = Len(feed) + 1 /\ DOMAIN feed' = 1 .. Len(feed) + 1
        /\ \A i \in DOMAIN feed : feed'[i] = feed[i]
        /\ feed'[Len(feed) + 1] = b
    <3> HIDE DEF Item, b
    <3> QED
      BY <1>0, <2>1, <2>2, AppendProperties
  <2> HIDE DEF b
  <2>4. /\ originalAcc + Len(sequencedBatchItems) = Len(db)
        /\ Follows(originalAcc, sequencedBatchItems)
    BY <2>1 DEF FeedInv, Kept
  <2>5. Kept' = Kept /\ Kept = Len(db)
    BY <2>1 DEF Kept
  <2>6. \A i \in DOMAIN feed' : Follows(feed[i].prevAcc, feed[i].items)'
    <3> SUFFICES ASSUME NEW i \in DOMAIN feed'
                 PROVE  Follows(feed[i].prevAcc, feed[i].items)'
      OBVIOUS
    <3>1. CASE i \in DOMAIN feed
      <4>1. Follows(feed[i].prevAcc, feed[i].items) /\ feed'[i] = feed[i]
        BY <1>1, <2>3, <3>1
      <4> QED
        BY <2>1, <2>5, <4>1 DEF Follows
    <3>2. CASE i = Len(feed) + 1
      BY <2>1, <2>2, <2>3, <2>4, <2>5, <3>2 DEF Follows
    <3> QED
      BY <1>0, <2>3, <3>1, <3>2
  <2>7. faults = 0 => Contiguous'
    <3> SUFFICES ASSUME faults = 0 PROVE Contiguous'
      OBVIOUS
    <3>1. /\ \A i \in DOMAIN feed : feed[i].prevAcc = FeedEnd(i - 1)
          /\ FeedEnd(Len(feed)) = originalAcc
      BY <2>1 DEF FeedInv
    <3>2. PICK n : n = Len(feed)
      OBVIOUS
    <3>3. n \in Nat /\ DOMAIN feed = 1 .. n /\ Len(feed') = n + 1 /\ DOMAIN feed' = 1 .. n + 1
          /\ feed'[n + 1] = b
      BY <1>0, <2>3, <3>2
    <3>4. \A i \in 0 .. n : FeedEnd(i)' = FeedEnd(i)
      <4> SUFFICES ASSUME NEW i \in 0 .. n PROVE FeedEnd(i)' = FeedEnd(i)
        OBVIOUS
      <4>1. CASE i = 0
        BY <4>1 DEF FeedEnd
      <4>2. CASE i # 0
        <5>1. feed'[i] = feed[i]
          BY <2>3, <3>3, <4>2
        <5> QED
          BY <4>2, <5>1 DEF FeedEnd
      <4> QED
        BY <4>1, <4>2
    <3>5. FeedEnd(n + 1)' = originalAcc + Len(sequencedBatchItems)
      <4>1. n + 1 # 0
        BY <3>3
      <4> QED
        BY <2>2, <3>3, <4>1 DEF FeedEnd
    <3>6. ASSUME NEW i \in DOMAIN feed' PROVE feed'[i].prevAcc = FeedEnd(i - 1)'
      <4>1. CASE i \in DOMAIN feed
        <5>1. i - 1 \in 0 .. n
          BY <3>3, <4>1
        <5> QED
          BY <2>3, <3>1, <3>4, <4>1, <5>1
      <4>2. CASE i = n + 1
        <5>1. i - 1 = n /\ n \in 0 .. n
          BY <3>3, <4>2
        <5> QED
          BY <2>2, <3>1, <3>2, <3>3, <3>4, <4>2, <5>1
      <4> QED
        BY <3>3, <4>1, <4>2
    <3>7. FeedEnd(Len(feed))' = Len(db')
      BY <2>1, <2>4, <3>3, <3>5
    <3> QED
      BY <2>1, <3>6, <3>7
  <2> QED
    BY <2>1, <2>6, <2>7 DEF FeedInv, Sequencing
<1>18. ASSUME TakeItem \/ PlaceCancelled \/ PlaceBack \/ PlaceInBatch \/ QueueDrained \/ Await
       PROVE  FeedInv'
  <2>1. UNCHANGED <<db, feed, faults>> /\ ~Sequencing /\ ~Sequencing'
    BY <1>18 DEF TakeItem, PlaceCancelled, PlaceBack, PlaceInBatch, QueueDrained, Await, Unlock,
                 Sequencing
  <2> QED
    BY <1>4, <2>1
<1>19. ASSUME NEW c \in Calls, Enqueue(c) \/ Lock(c) \/ Cancel(c) PROVE FeedInv'
  <2>1. CASE LockAndSequence(c)
    <3>1. UNCHANGED <<db, feed, faults>> /\ ~Sequencing /\ ~Sequencing'
      BY <2>1 DEF LockAndSequence, Sequencing, QueueInv, HolderInv
    <3> QED
      BY <1>4, <3>1
  <2>2. CASE ~LockAndSequence(c)
    <3>1. UNCHANGED <<db, feed, originalAcc, sequencedBatchItems, faults, step>>
      BY <1>19, <2>2 DEF Enqueue, Lock, LockWithoutLockout, LockAndReturn, Cancel
    <3> QED
      BY <1>3, <3>1
  <2> QED
    BY <2>1, <2>2
<1>20. ASSUME LoseLockout \/ GainLockout \/ SkipFailed \/ UNCHANGED vars PROVE FeedInv'
  <2>1. UNCHANGED <<db, feed, originalAcc, sequencedBatchItems, faults, step>>
    BY <1>20 DEF LoseLockout, GainLockout, SkipFailed, vars
  <2> QED
    BY <1>3, <2>1
<1> QED
  BY <1>5, <1>10, <1>11, <1>12, <1>13, <1>14, <1>15, <1>16, <1>17, <1>18, <1>19, <1>20
  DEF Next, HolderStep

\* What follows the database is the part of it after the accumulator.
LEMMA FollowsSubSeq ==
  ASSUME db \in Seq(Messages), Kept <= Len(db), Kept \in Nat,
         NEW acc \in Nat, NEW items \in Seq(Messages), Follows(acc, items)
  PROVE  acc + Len(items) <= Len(db) /\ items = SubSeq(db, acc + 1, acc + Len(items))
<1> DEFINE n == acc + Len(items)
           s == SubSeq(db, acc + 1, n)
<1>1. Len(items) \in Nat /\ Len(db) \in Nat
  BY LenProperties
<1>2. n <= Len(db) /\ n \in Nat
  BY <1>1 DEF Follows
<1>3. \A i \in acc + 1 .. n : db[i] \in Messages
  <2>1. \A i \in acc + 1 .. n : i \in 1 .. Len(db)
    BY <1>1, <1>2
  <2> QED
    BY <2>1, ElementOfSeq
<1>4. acc + 1 \in Int /\ n \in Int /\ acc + 1 \in Nat
  BY <1>2
<1> HIDE DEF n
<1>5. /\ s \in Seq(Messages)
      /\ Len(s) = IF acc + 1 <= n THEN n - (acc + 1) + 1 ELSE 0
      /\ \A i \in 1 .. n - (acc + 1) + 1 : s[i] = db[(acc + 1) + i - 1]
  BY <1>3, <1>4, SubSeqProperties
<1> HIDE DEF s
<1>6. n - (acc + 1) + 1 = Len(items) /\ Len(s) = Len(items)
  BY <1>1, <1>5 DEF n
<1>7. \A i \in 1 .. Len(items) : s[i] = items[i]
  <2> SUFFICES ASSUME NEW i \in 1 .. Len(items) PROVE s[i] = items[i]
    OBVIOUS
  <2>1. (acc + 1) + i - 1 = acc + i
    BY <1>1
  <2> QED
    BY <1>5, <1>6, <2>1 DEF Follows
<1>8. s = items
  BY <1>5, <1>6, <1>7, SeqEqual
<1> QED
  BY <1>2, <1>8 DEF s, n

\* The feed says what the database holds, for every number of calls and every
\* interleaving of their steps, errors and cancellations.
THEOREM FeedIsFaithful == Spec => []FeedFollowsDb
<1>1. QueueInv /\ FeedInv => FeedFollowsDb
  <2> SUFFICES ASSUME QueueInv, FeedInv PROVE FeedFollowsDb
    OBVIOUS
  <2>1. /\ db \in Seq(Messages) /\ feed \in Seq([prevAcc : Nat, items : Seq(Messages)])
        /\ (step \in {"results", "judge"} => db # <<>>) /\ (Quiet => step = "idle")
    BY DEF QueueInv, TypeOK, HolderInv, Quiet
  <2>2. Kept \in Nat /\ Kept <= Len(db)
    BY <2>1, LenProperties, EmptySeq DEF Kept
  <2>3. ASSUME NEW i \in DOMAIN feed
        PROVE  FeedEnd(i) <= Len(db) /\ feed[i].items = SubSeq(db, feed[i].prevAcc + 1, FeedEnd(i))
    <3>1. i # 0 /\ feed[i].prevAcc \in Nat /\ feed[i].items \in Seq(Messages)
      <4> DEFINE Item == [prevAcc : Nat, items : Seq(Messages)]
      <4> HIDE DEF Item
      <4>1. feed \in Seq(Item)
        BY <2>1 DEF Item
      <4>2. i \in 1 .. Len(feed) /\ feed[i] \in Item
        BY <4>1, LenProperties, ElementOfSeq
      <4> QED
        BY <4>2 DEF Item
    <3>2. Follows(feed[i].prevAcc, feed[i].items)
      BY DEF FeedInv
    <3>3. /\ feed[i].prevAcc + Len(feed[i].items) <= Len(db)
          /\ feed[i].items = SubSeq(db, feed[i].prevAcc + 1, feed[i].prevAcc + Len(feed[i].items))
      BY <2>1, <2>2, <3>1, <3>2, FollowsSubSeq
    <3> QED
      BY <3>1, <3>3 DEF FeedEnd
  <2>4. Quiet /\ faults = 0 => /\ \A i \in DOMAIN feed : feed[i].prevAcc = FeedEnd(i - 1)
                               /\ FeedEnd(Len(feed)) = Len(db)
    BY <2>1 DEF FeedInv, Sequencing
  <2> QED
    BY <2>3, <2>4 DEF FeedFollowsDb
<1>2. Init => FeedInv
  BY FeedInit
<1>3. QueueInv /\ FeedInv /\ [Next]_vars => FeedInv'
  BY FeedStep
<1> QED
  BY <1>1, <1>2, <1>3, QueueInvariant, PTL DEF Spec

(***************************************************************************)
(* Callers are told the truth.                                             *)
(***************************************************************************)
\* The message executes a transaction of hash h.
Says(m, h) ==
  m.kind = "txs" /\ \E j \in DOMAIN m.txs : m.txs[j].hash = h /\ m.txs[j].included

Executed(n, h) == \E i \in 1 .. n : Says(db[i], h)

OkCalls == {c \in Calls : answers[c] = <<"ok">>}

\* The message that is being looked at is the one the machine made of the batch.
OutcomeInv ==
  /\ step = "results" =>
       /\ results \in [Hashes(batchTxs) -> BOOLEAN]
       /\ Last(db) = Txs([i \in DOMAIN batchTxs |->
                            Outcome(TxHash[batchTxs[i]], results[TxHash[batchTxs[i]]])])
  /\ step = "judge" =>
       \E ok \in BOOLEAN : Last(db) = Txs(<<Outcome(TxHash[Head(batchTxs)], ok)>>)

\* Calls are answered ok, and return ok, for what has been executed for good,
\* and without an internal error what has been executed is answered ok.
TruthInv ==
  /\ \A c \in OkCalls : Executed(Kept, TxHash[c])
  /\ \A c \in Calls : returned[c] = "ok" => Executed(Kept, TxHash[c])
  /\ faults = 0 => \A h : Executed(Kept, h) => \E c \in OkCalls : TxHash[c] = h

\* Included is what the messages say.
LEMMA IncludedIsExecuted ==
  ASSUME db \in Seq(Messages) PROVE \A h : h \in Included(db) <=> Executed(Len(db), h)
<1>1. DOMAIN db = 1 .. Len(db)
  BY LenProperties
<1> SUFFICES ASSUME NEW h PROVE h \in Included(db) <=> Executed(Len(db), h)
  OBVIOUS
<1>2. ASSUME h \in Included(db) PROVE Executed(Len(db), h)
  <2>1. PICK i \in DOMAIN db : /\ db[i].kind = "txs"
                               /\ \E o \in ToSet(db[i].txs) : o.included /\ o.hash = h
    BY <1>2 DEF Included
  <2> QED
    BY <1>1, <2>1 DEF Executed, Says, ToSet
<1>3. ASSUME Executed(Len(db), h) PROVE h \in Included(db)
  <2>1. PICK i \in DOMAIN db : /\ db[i].kind = "txs"
                               /\ \E o \in ToSet(db[i].txs) : o.included /\ o.hash = h
    BY <1>1, <1>3 DEF Executed, Says, ToSet
  <2> QED
    BY <2>1 DEF Included
<1> QED
  BY <1>2, <1>3

\* What has been executed for good stays executed.
LEMMA ExecutedStays ==
  ASSUME QueueInv, [Next]_vars, NEW h, Executed(Kept, h)
  PROVE  Executed(Kept, h)'
<1>1. /\ Kept \in Nat /\ Kept' \in Nat /\ Kept <= Kept'
      /\ \A i \in 1 .. Kept : db'[i] = db[i]
  BY KeptStays
<1>2. PICK i \in 1 .. Kept : Says(db[i], h)
  BY DEF Executed
<1>3. i \in 1 .. Kept' /\ db'[i] = db[i]
  BY <1>1
<1> QED
  BY <1>2, <1>3 DEF Executed, Says

\* Answers to calls that had none make ok calls of them if they are ok.
LEMMA OkAfter ==
  ASSUME NEW A \in SUBSET Calls, NEW v \in Values,
         \A c \in A : answers[c] = <<>> /\ answers'[c] = <<v>>,
         \A c \in Calls \ A : answers'[c] = answers[c]
  PROVE  OkCalls' = IF v = "ok" THEN OkCalls \cup A ELSE OkCalls
<1>1. <<>> # <<"ok">> /\ <<"error">> # <<"ok">>
  OBVIOUS
<1> QED
  BY <1>1 DEF OkCalls, Values

\* The two ways what is there to stay can grow: by an end of block, or by
\* transactions that are answered ok in the same step.
LEMMA TruthQuiet ==
  ASSUME QueueInv, TruthInv, [Next]_vars, OkCalls' = OkCalls,
         \/ faults' # 0
         \/ faults' = faults /\ Kept' = Kept
         \/ faults' = faults /\ Kept' = Kept + 1 /\ db'[Kept'] = EndOfBlock,
         \A c \in Calls : returned'[c] = "ok" => returned[c] = "ok" \/ c \in OkCalls
  PROVE  TruthInv'
<1>1. \A h : Executed(Kept, h) => Executed(Kept, h)'
  BY ExecutedStays
<1>2. \A c \in OkCalls' : Executed(Kept, TxHash[c])'
  BY <1>1 DEF TruthInv
<1>3. \A c \in Calls : returned'[c] = "ok" => Executed(Kept, TxHash[c])'
  BY <1>1 DEF TruthInv
<1>4. ASSUME faults' = 0, NEW h, Executed(Kept, h)' PROVE \E c \in OkCalls' : TxHash[c] = h
  <2>1. /\ Kept \in Nat /\ Kept' \in Nat
        /\ \A i \in 1 .. Kept : db'[i] = db[i]
    BY KeptStays
  <2>2. PICK i \in 1 .. Kept' : Says(db'[i], h)
    BY <1>4 DEF Executed
  <2>3. ~Says(EndOfBlock, h)
    BY DEF Says, EndOfBlock
  <2>4. faults = 0 /\ (Kept' = Kept \/ (Kept' = Kept + 1 /\ db'[Kept'] = EndOfBlock))
    BY <1>4
  <2>5. i \in 1 .. Kept
    BY <2>1, <2>2, <2>3, <2>4
  <2>6. Executed(Kept, h)
    BY <2>1, <2>2, <2>5 DEF Executed
  <2> QED
    BY <2>4, <2>6 DEF TruthInv
<1> QED
  BY <1>2, <1>3, <1>4 DEF TruthInv

\* The other way: transactions are executed and answered ok.
LEMMA TruthOk ==
  ASSUME QueueInv, TruthInv, [Next]_vars, NEW A \in SUBSET Calls, OkCalls' = OkCalls \cup A,
         Kept' = Kept + 1, \A h : Says(db'[Kept'], h) <=> \E c \in A : TxHash[c] = h,
         UNCHANGED <<returned, faults>>
  PROVE  TruthInv'
<1>1. \A h : Executed(Kept, h) => Executed(Kept, h)'
  BY ExecutedStays
<1>2. /\ Kept \in Nat /\ Kept' \in Nat
      /\ \A i \in 1 .. Kept : db'[i] = db[i]
  BY KeptStays
<1>3. ASSUME NEW c \in A PROVE Executed(Kept, TxHash[c])'
  <2>1. Says(db'[Kept'], TxHash[c]) /\ Kept' \in 1 .. Kept'
    BY <1>2
  <2> QED
    BY <2>1 DEF Executed
<1>4. \A c \in OkCalls' : Executed(Kept, TxHash[c])'
  BY <1>1, <1>3 DEF TruthInv
<1>5. \A c \in Calls : returned'[c] = "ok" => Executed(Kept, TxHash[c])'
  BY <1>1 DEF TruthInv
<1>6. ASSUME faults' = 0, NEW h, Executed(Kept, h)' PROVE \E c \in OkCalls' : TxHash[c] = h
  <2>1. PICK i \in 1 .. Kept' : Says(db'[i], h)
    BY <1>6 DEF Executed
  <2>2. CASE i = Kept'
    BY <2>1, <2>2
  <2>3. CASE i \in 1 .. Kept
    <3>1. Executed(Kept, h)
      BY <1>2, <2>1, <2>3 DEF Executed
    <3> QED
      BY <1>6, <3>1 DEF TruthInv
  <2> QED
    BY <1>2, <2>1, <2>2, <2>3
<1> QED
  BY <1>4, <1>5, <1>6 DEF TruthInv

\* A count of successes as long as the batch leaves out none of it.
LEMMA CountAll ==
  ASSUME TypeOK, SuccessCount = Len(batchTxs)
  PROVE  \A i \in DOMAIN batchTxs : Succeeded(batchTxs[i])
<1> DEFINE n == Len(batchTxs)
           S == {i \in DOMAIN batchTxs : Succeeded(batchTxs[i])}
<1>1. n \in Nat /\ DOMAIN batchTxs = 1 .. n
  BY LenProperties DEF TypeOK
<1>2. IsFiniteSet(1 .. n) /\ Cardinality(1 .. n) = n
  <2> HIDE DEF n
  <2>1. 1 \in Int /\ n \in Int
    BY <1>1
  <2>2. /\ IsFiniteSet(1 .. n)
        /\ Cardinality(1 .. n) = IF 1 > n THEN 0 ELSE n - 1 + 1
    BY <2>1, FS_Interval
  <2> QED
    BY <1>1, <2>2
<1>3. S \subseteq 1 .. n /\ Cardinality(S) = n
  BY <1>1 DEF SuccessCount
<1>4. S = 1 .. n
  <2> HIDE DEF S, n
  <2> QED
    BY <1>2, <1>3, FS_Subset
<1> QED
  BY <1>1, <1>4

\* The message being looked at is the machine's until it has been looked at.
LEMMA OutcomeStep == ASSUME QueueInv, OutcomeInv, [Next]_vars PROVE OutcomeInv'
<1> USE DEF holderVars, envVars
<1>1. ASSUME DeliverBatch PROVE OutcomeInv'
  <2>1. PICK r \in TxResults(batchTxs) :
          /\ results' = r
          /\ db' = Append(db, Txs([i \in DOMAIN batchTxs |->
                                     Outcome(TxHash[batchTxs[i]], r[TxHash[batchTxs[i]]])]))
    BY <1>1 DEF DeliverBatch
  <2>2. PICK m \in Messages :
          m = Txs([i \in DOMAIN batchTxs |->
                     Outcome(TxHash[batchTxs[i]], r[TxHash[batchTxs[i]]])])
    BY DeliveredType DEF QueueInv, TypeOK
  <2>3. Last(db') = m
    <3>1. db \in Seq(Messages) /\ db' = Append(db, m)
      BY <2>1, <2>2 DEF QueueInv, TypeOK
    <3> QED
      BY <3>1, AppendProperties DEF Last
  <2>4. step' = "results" /\ UNCHANGED batchTxs /\ results' \in [Hashes(batchTxs) -> BOOLEAN]
    BY <1>1, <2>1 DEF DeliverBatch, TxResults
  <2>5. UNCHANGED Hashes(batchTxs)
    BY <2>4 DEF Hashes
  <2> QED
    BY <2>1, <2>2, <2>3, <2>4, <2>5 DEF OutcomeInv
<1>2. ASSUME DeliverSingle PROVE OutcomeInv'
  <2>1. PICK ok \in BOOLEAN :
          LET m == Txs(<<Outcome(TxHash[Head(batchTxs)], ok)>>)
          IN  m \in Messages /\ db' = Append(db, m)
    BY <1>2, SingleDelivered DEF QueueInv
  <2>2. PICK m \in Messages : m = Txs(<<Outcome(TxHash[Head(batchTxs)], ok)>>) /\ db' = Append(db, m)
    BY <2>1
  <2>3. Last(db') = m
    BY <2>2, AppendProperties DEF Last, QueueInv, TypeOK
  <2>4. step' = "judge" /\ UNCHANGED batchTxs
    BY <1>2 DEF DeliverSingle
  <2> QED
    BY <2>2, <2>3, <2>4 DEF OutcomeInv
<1>3. ASSUME step' \notin {"results", "judge"} PROVE OutcomeInv'
  BY <1>3 DEF OutcomeInv
<1>4. ASSUME UNCHANGED <<step, results, batchTxs, db>> PROVE OutcomeInv'
  BY <1>4 DEF OutcomeInv, Hashes
<1>5. ASSUME HolderStep \/ InternalError, ~DeliverBatch, ~DeliverSingle
      PROVE  step' \notin {"results", "judge"}
  BY <1>5 DEF HolderStep, TakeItem, PlaceCancelled, PlaceBack, PlaceInBatch, QueueDrained,
              BeginBatch, AllSucceeded, SomeFailed, SkipFailed, JudgeSingle, DeliverEndOfBlock,
              BroadcastItems, Await, InternalError, Unlock
<1>6. ASSUME NEW c \in Calls, Enqueue(c) \/ Lock(c) \/ Cancel(c)
      PROVE  step' \notin {"results", "judge"} \/ UNCHANGED <<step, results, batchTxs, db>>
  BY <1>6 DEF Enqueue, Lock, LockWithoutLockout, LockAndReturn, LockAndSequence, Cancel
<1>7. ASSUME LoseLockout \/ GainLockout \/ UNCHANGED vars
      PROVE  UNCHANGED <<step, results, batchTxs, db>>
  BY <1>7 DEF LoseLockout, GainLockout, vars
<1> QED
  BY <1>1, <1>2, <1>3, <1>4, <1>5, <1>6, <1>7 DEF Next

\* A call that returns the answer it has got returns what it was told.
LEMMA ReturnsAnswer ==
  ASSUME QueueInv, NEW c \in Calls, answers[c] # <<>>, Return(c, Head(answers[c]))
  PROVE  \A d \in Calls : returned'[d] = "ok" => returned[d] = "ok" \/ d \in OkCalls
<1>1. answers[c] \in Seq(Values) /\ Len(answers[c]) <= 1 /\ Len(answers[c]) # 0
  BY EmptySeq DEF QueueInv, TypeOK, OnceInv
<1>2. Len(answers[c]) = 1
  <2>1. Len(answers[c]) \in Nat
    BY <1>1, LenProperties
  <2>2. PICK n : n = Len(answers[c])
    OBVIOUS
  <2>3. n \in Nat /\ n <= 1 /\ n # 0
    BY <1>1, <2>1, <2>2, Zenon
  <2>4. n = 1
    BY <2>3
  <2> QED
    BY <2>2, <2>4
<1>3. Head(answers[c]) = "ok" => answers[c] = <<"ok">>
  <2> SUFFICES ASSUME Head(answers[c]) = "ok" PROVE answers[c] = <<"ok">>
    OBVIOUS
  <2>1. answers[c][1] = "ok"
    BY <1>1
  <2>2. <<"ok">> \in Seq(Values) /\ Len(<<"ok">>) = 1 /\ <<"ok">>[1] = "ok"
    BY DEF Values
  <2> QED
    BY <1>1, <1>2, <2>1, <2>2, SeqEqual
<1>4. returned' = [returned EXCEPT ![c] = Head(answers[c])] /\ DOMAIN returned = Calls
  BY DEF Return, QueueInv, TypeOK
<1> QED
  BY <1>3, <1>4 DEF OkCalls

\* Every step leaves the callers told the truth.
LEMMA TruthStep == ASSUME QueueInv, OutcomeInv, TruthInv, [Next]_vars PROVE TruthInv'
<1> USE DEF holderVars, envVars
<1>0. /\ NoCall \notin Calls /\ db \in Seq(Messages) /\ Len(db) \in Nat
      /\ step \in {"results", "judge"} => db # <<>> /\ Len(db) # 0
      /\ "ok" \in Values /\ "error" \in Values
      /\ batchTxs \in Seq(Calls) /\ ToSet(batchTxs) \subseteq Calls
      /\ mutex \in Calls \cup {NoCall} /\ taken \in Calls \cup {NoCall}
  <2>1. /\ db \in Seq(Messages)
        /\ step \in {"results", "judge"} => db # <<>>
        /\ batchTxs \in Seq(Calls)
        /\ mutex \in Calls \cup {NoCall} /\ taken \in Calls \cup {NoCall}
    BY DEF QueueInv, TypeOK, HolderInv
  <2>2. ToSet(batchTxs) \subseteq Calls
    BY PlacesAreCalls DEF QueueInv
  <2>3. Len(db) \in Nat /\ (db # <<>> => Len(db) # 0)
    BY <2>1, LenProperties, EmptySeq
  <2>4. NoCall \notin Calls /\ "ok" \in Values /\ "error" \in Values
    BY TxQueueAssumption DEF Values
  <2> QED
    BY <2>1, <2>2, <2>3, <2>4
\* nothing is answered
<1>1. ASSUME UNCHANGED <<answers, returned, faults>>, Kept' = Kept PROVE TruthInv'
  <2>1. OkCalls' = OkCalls
    BY <1>1 DEF OkCalls
  <2> QED
    BY <1>1, <2>1, TruthQuiet
\* calls are answered with an error
<1>2. ASSUME NEW A \in SUBSET Calls, \A c \in A : answers[c] = <<>> /\ answers'[c] = <<"error">>,
             \A c \in Calls \ A : answers'[c] = answers[c],
             UNCHANGED <<returned, faults>>, Kept' = Kept
      PROVE  TruthInv'
  <2>1. OkCalls' = OkCalls
    BY <1>0, <1>2, OkAfter
  <2> QED
    BY <1>2, <2>1, TruthQuiet
<1>3. ASSUME NEW c \in Calls, answers[c] = <<>>, Answer(c, "error"),
             UNCHANGED <<returned, faults>>, Kept' = Kept
      PROVE  TruthInv'
  <2>1. answers'[c] = <<"error">> /\ \A d \in Calls \ {c} : answers'[d] = answers[d]
    BY <1>0, <1>3, AnswerType DEF QueueInv
  <2>2. PICK A \in SUBSET Calls : A = {c}
    OBVIOUS
  <2> QED
    BY <1>2, <1>3, <2>1, <2>2
<1>4. ASSUME PlaceCancelled \/ PlaceBack \/ PlaceInBatch PROVE TruthInv'
  <2>1. /\ taken \in Calls /\ answers[taken] = <<>> /\ UNCHANGED <<returned, faults, db>>
        /\ step \notin {"results", "judge"} /\ step' \notin {"results", "judge"}
    BY <1>0, <1>4 DEF PlaceCancelled, PlaceBack, PlaceInBatch, QueueInv, HolderInv, OnceInv
  <2>2. Kept' = Kept
    BY <2>1 DEF Kept
  <2>3. UNCHANGED answers \/ Answer(taken, "error")
    BY <1>4 DEF PlaceCancelled, PlaceBack, PlaceInBatch
  <2> QED
    BY <1>1, <1>3, <2>1, <2>2, <2>3
<1>5. ASSUME TakeItem \/ QueueDrained \/ BeginBatch \/ BroadcastItems PROVE TruthInv'
  <2>1. /\ UNCHANGED <<answers, returned, faults, db>>
        /\ step \notin {"results", "judge"} /\ step' \notin {"results", "judge"}
    BY <1>5 DEF TakeItem, QueueDrained, BeginBatch, BroadcastItems
  <2>2. Kept' = Kept
    BY <2>1 DEF Kept
  <2> QED
    BY <1>1, <2>1, <2>2
<1>6. ASSUME DeliverBatch \/ DeliverSingle PROVE TruthInv'
  <2>1. PICK m : db' = Append(db, m) /\ m \in Messages
    <3>1. CASE DeliverBatch
      <4>1. PICK r \in TxResults(batchTxs) :
              db' = Append(db, Txs([i \in DOMAIN batchTxs |->
                                      Outcome(TxHash[batchTxs[i]], r[TxHash[batchTxs[i]]])]))
        BY <3>1 DEF DeliverBatch
      <4> QED
        BY <1>0, <4>1, DeliveredType
    <3>2. CASE DeliverSingle
      BY <3>2, SingleDelivered DEF QueueInv
    <3> QED
      BY <1>6, <3>1, <3>2
  <2>2. Len(db') = Len(db) + 1
    BY <1>0, <2>1, AppendFacts
  <2>3. /\ UNCHANGED <<answers, returned, faults>>
        /\ step \notin {"results", "judge"} /\ step' \in {"results", "judge"}
    BY <1>6 DEF DeliverBatch, DeliverSingle
  <2>4. Kept' = Kept
    BY <1>0, <2>2, <2>3 DEF Kept
  <2> QED
    BY <1>1, <2>3, <2>4
<1>7. ASSUME SkipFailed PROVE TruthInv'
  <2>1. /\ UNCHANGED <<returned, faults, db, step>> /\ Answer(Head(batchTxs), "error")
        /\ batchTxs # <<>> /\ step = "single"
    BY <1>7 DEF SkipFailed
  <2>2. Head(batchTxs) \in Calls /\ answers[Head(batchTxs)] = <<>>
    <3>1. Head(batchTxs) \in Calls /\ Head(batchTxs) \in Batched
      BY <1>0, <2>1, TailFacts DEF Batched
    <3> QED
      BY <3>1 DEF QueueInv, OnceInv
  <2>3. Kept' = Kept
    BY <2>1 DEF Kept
  <2> QED
    BY <1>3, <2>1, <2>2, <2>3
<1>8. ASSUME SomeFailed PROVE TruthInv'
  <2>1. Len(db') = Len(db) - 1
    BY <1>0, <1>8, FrontFacts DEF SomeFailed, ReorgOut
  <2>2. /\ UNCHANGED <<returned, faults>>
        /\ step = "results" /\ step' \notin {"results", "judge"}
        /\ UNCHANGED answers \/ AnswerAll(batchTxs, "error")
    BY <1>8 DEF SomeFailed
  <2>3. Kept' = Kept
    BY <2>1, <2>2 DEF Kept
  <2>4. CASE AnswerAll(batchTxs, "error")
    <3>1. Distinct(batchTxs) /\ Batched = ToSet(batchTxs)
      BY <2>2, BatchDistinct DEF QueueInv
    <3>2. /\ \A c \in Calls \ ToSet(batchTxs) : answers'[c] = answers[c]
          /\ \A c \in ToSet(batchTxs) : answers[c] = <<>> => answers'[c] = <<"error">>
      BY <1>0, <2>4, <3>1, AnswerAllFacts DEF QueueInv
    <3>3. \A c \in ToSet(batchTxs) : answers[c] = <<>>
      BY <3>1 DEF QueueInv, OnceInv
    <3> QED
      BY <1>0, <1>2, <2>2, <2>3, <3>2, <3>3
  <2> QED
    BY <1>1, <2>2, <2>3, <2>4
<1>9. ASSUME AllSucceeded PROVE TruthInv'
  <2>1. /\ UNCHANGED <<returned, faults, db>> /\ AnswerAll(batchTxs, "ok")
        /\ step = "results" /\ step' = "endOfBlock" /\ SuccessCount = Len(batchTxs)
    BY <1>9 DEF AllSucceeded
  <2>2. Kept' = Kept + 1 /\ Kept' = Len(db)
    BY <1>0, <2>1 DEF Kept
  <2>3. Distinct(batchTxs) /\ Batched = ToSet(batchTxs)
    BY <2>1, BatchDistinct DEF QueueInv
  <2>4. /\ \A c \in Calls \ ToSet(batchTxs) : answers'[c] = answers[c]
        /\ \A c \in ToSet(batchTxs) : answers[c] = <<>> /\ answers'[c] = <<"ok">>
    <3>1. /\ \A c \in Calls \ ToSet(batchTxs) : answers'[c] = answers[c]
          /\ \A c \in ToSet(batchTxs) : answers[c] = <<>> => answers'[c] = <<"ok">>
      BY <1>0, <2>1, <2>3, AnswerAllFacts DEF QueueInv
    <3>2. \A c \in ToSet(batchTxs) : answers[c] = <<>>
      BY <2>3 DEF QueueInv, OnceInv
    <3> QED
      BY <3>1, <3>2
  <2>5. OkCalls' = OkCalls \cup ToSet(batchTxs)
    BY <1>0, <2>4, OkAfter
  <2>6. \A i \in DOMAIN batchTxs : results[TxHash[batchTxs[i]]]
    BY <2>1, CountAll DEF QueueInv, Succeeded
  <2>7. Last(db) = Txs([i \in DOMAIN batchTxs |->
                          Outcome(TxHash[batchTxs[i]], results[TxHash[batchTxs[i]]])])
    BY <2>1 DEF OutcomeInv
  <2>8. Last(db) = db'[Kept']
    BY <2>1, <2>2 DEF Last
  <2>9. \A h : Says(Last(db), h) <=> \E i \in DOMAIN batchTxs : TxHash[batchTxs[i]] = h
    <3> DEFINE out == [i \in DOMAIN batchTxs |->
                         Outcome(TxHash[batchTxs[i]], results[TxHash[batchTxs[i]]])]
    <3>1. DOMAIN out = DOMAIN batchTxs
      OBVIOUS
    <3>2. \A i \in DOMAIN batchTxs : out[i].hash = TxHash[batchTxs[i]] /\ out[i].included
      BY <2>6 DEF Outcome
    <3> HIDE DEF out
    <3>3. Last(db).kind = "txs" /\ Last(db).txs = out
      BY <2>7 DEF Txs, out
    <3> QED
      BY <3>1, <3>2, <3>3 DEF Says
  <2>10. \A h : Says(db'[Kept'], h) <=> \E c \in ToSet(batchTxs) : TxHash[c] = h
    BY <2>8, <2>9 DEF ToSet
  <2> QED
    BY <1>0, <2>1, <2>2, <2>5, <2>10, TruthOk
<1>10. ASSUME JudgeSingle PROVE TruthInv'
  <2>1. /\ UNCHANGED <<returned, faults>> /\ batchTxs # <<>>
        /\ step = "judge" /\ step' = "single"
    BY <1>10 DEF JudgeSingle, QueueInv, HolderInv
  <2>2. PICK c : c = Head(batchTxs)
    OBVIOUS
  <2>3. c \in Calls /\ answers[c] = <<>>
    <3>1. c \in Calls /\ c \in Batched
      BY <1>0, <2>1, <2>2, TailFacts DEF Batched
    <3> QED
      BY <3>1 DEF QueueInv, OnceInv
  <2>4. PICK ok \in BOOLEAN : Last(db) = Txs(<<Outcome(TxHash[c], ok)>>)
    BY <2>1, <2>2 DEF OutcomeInv
  <2>5. Last(db).txs[1].included = ok
    BY <2>4 DEF Txs, Outcome
  <2>6. CASE ok
    <3>1. Answer(c, "ok") /\ UNCHANGED db
      BY <1>10, <2>2, <2>5, <2>6 DEF JudgeSingle
    <3>2. answers'[c] = <<"ok">> /\ \A d \in Calls \ {c} : answers'[d] = answers[d]
      BY <1>0, <2>3, <3>1, AnswerType DEF QueueInv
    <3>3. PICK A \in SUBSET Calls : A = {c}
      BY <2>3
    <3>4. OkCalls' = OkCalls \cup A
      BY <1>0, <2>3, <3>2, <3>3, OkAfter
    <3>5. Kept' = Kept + 1 /\ Kept' = Len(db)
      BY <1>0, <2>1, <3>1 DEF Kept
    <3>6. Last(db) = db'[Kept']
      BY <3>1, <3>5 DEF Last
    <3>7. \A h : Says(Last(db), h) <=> TxHash[c] = h
      BY <2>4, <2>6 DEF Says, Txs, Outcome
    <3>8. \A h : Says(db'[Kept'], h) <=> \E d \in A : TxHash[d] = h
      BY <3>3, <3>6, <3>7
    <3> QED
      BY <2>1, <3>4, <3>5, <3>8, TruthOk
  <2>7. CASE ~ok
    <3>1. Answer(c, "error") /\ db' = Front(db)
      BY <1>10, <2>2, <2>5, <2>7 DEF JudgeSingle, ReorgOut
    <3>2. Len(db') = Len(db) - 1
      BY <1>0, <2>1, <3>1, FrontFacts
    <3>3. Kept' = Kept
      BY <2>1, <3>2 DEF Kept
    <3> QED
      BY <1>3, <2>1, <2>3, <3>1, <3>3
  <2> QED
    BY <2>6, <2>7
<1>11. ASSUME DeliverEndOfBlock PROVE TruthInv'
  <2>1. /\ UNCHANGED <<answers, returned, faults>> /\ db' = Append(db, EndOfBlock)
        /\ step \notin {"results", "judge"} /\ step' = "broadcast"
    BY <1>11 DEF DeliverEndOfBlock
  <2>2. EndOfBlock \in Messages
    BY DEF EndOfBlock, Messages
  <2>3. Len(db') = Len(db) + 1 /\ db'[Len(db')] = EndOfBlock
    BY <1>0, <2>1, <2>2, AppendProperties
  <2>4. Kept' = Kept + 1 /\ db'[Kept'] = EndOfBlock
    BY <1>0, <2>1, <2>3 DEF Kept
  <2>5. OkCalls' = OkCalls
    BY <2>1 DEF OkCalls
  <2> QED
    BY <2>1, <2>4, <2>5, TruthQuiet
<1>12. ASSUME Await PROVE TruthInv'
  <2>1. /\ UNCHANGED <<answers, faults, db>> /\ answers[mutex] # <<>>
        /\ Return(mutex, Head(answers[mutex]))
        /\ step = "await" /\ step' = "idle" /\ mutex \in Calls
    BY <1>0, <1>12 DEF Await, Unlock, QueueInv, HolderInv
  <2>2. OkCalls' = OkCalls /\ Kept' = Kept
    BY <2>1 DEF OkCalls, Kept
  <2> QED
    BY <2>1, <2>2, ReturnsAnswer, TruthQuiet
<1>13. ASSUME InternalError PROVE TruthInv'
  <2>1. /\ UNCHANGED <<answers, db>> /\ faults' # 0 /\ Return(mutex, "error")
    BY <1>13 DEF InternalError, QueueInv, TypeOK
  <2>2. OkCalls' = OkCalls
    BY <2>1 DEF OkCalls
  <2>3. \A d \in Calls : returned'[d] = "ok" => returned[d] = "ok"
    BY <2>1 DEF Return, QueueInv, TypeOK
  <2> QED
    BY <2>1, <2>2, <2>3, TruthQuiet
<1>14. ASSUME NEW c \in Calls, LockWithoutLockout(c) \/ LockAndReturn(c) PROVE TruthInv'
  <2>1. UNCHANGED <<answers, faults, db, step>>
    BY <1>14 DEF LockWithoutLockout, LockAndReturn
  <2>2. OkCalls' = OkCalls /\ Kept' = Kept
    BY <2>1 DEF OkCalls, Kept
  <2>3. \A d \in Calls : returned'[d] = "ok" => returned[d] = "ok" \/ d \in OkCalls
    <3>1. CASE LockWithoutLockout(c)
      BY <3>1 DEF LockWithoutLockout, Return, QueueInv, TypeOK
    <3>2. CASE LockAndReturn(c)
      BY <3>2, ReturnsAnswer DEF LockAndReturn, LockAnswered
    <3> QED
      BY <1>14, <3>1, <3>2
  <2> QED
    BY <2>1, <2>2, <2>3, TruthQuiet
<1>15. ASSUME NEW c \in Calls, Enqueue(c) \/ LockAndSequence(c) \/ Cancel(c) PROVE TruthInv'
  <2>1. /\ UNCHANGED <<answers, returned, faults, db>>
        /\ (step' = step \/ (step = "idle" /\ step' = "take"))
    BY <1>15 DEF Enqueue, LockAndSequence, Cancel, QueueInv, HolderInv
  <2>2. Kept' = Kept
    BY <2>1 DEF Kept
  <2> QED
    BY <1>1, <2>1, <2>2
<1>16. ASSUME LoseLockout \/ GainLockout \/ UNCHANGED vars PROVE TruthInv'
  <2>1. UNCHANGED <<answers, returned, faults, db, step>>
    BY <1>16 DEF LoseLockout, GainLockout, vars
  <2>2. Kept' = Kept
    BY <2>1 DEF Kept
  <2> QED
    BY <1>1, <2>1, <2>2
<1> QED
  BY <1>4, <1>5, <1>6, <1>7, <1>8, <1>9, <1>10, <1>11, <1>12, <1>13, <1>14, <1>15, <1>16
  DEF Next, HolderStep, Lock

\* Callers are told the truth, for every number of calls and every interleaving
\* of their steps: an ok means that the transaction has been executed for
\* good, and what has been executed was answered with an ok unless something
\* failed inside.
THEOREM CallersToldTheTruth == Spec => []AnswersTruthful
<1>1. QueueInv /\ TruthInv => AnswersTruthful
  <2> SUFFICES ASSUME QueueInv, TruthInv PROVE AnswersTruthful
    OBVIOUS
  <2>1. db \in Seq(Messages) /\ (step \in {"results", "judge"} => db # <<>>) /\ (Quiet => step = "idle")
    BY DEF QueueInv, TypeOK, HolderInv, Quiet
  <2>2. \A h : h \in Included(db) <=> Executed(Len(db), h)
    BY <2>1, IncludedIsExecuted
  <2>3. \A h : Executed(Kept, h) => Executed(Len(db), h)
    <3>1. Len(db) \in Nat /\ \A i \in 1 .. Kept : i \in 1 .. Len(db)
      BY <2>1, LenProperties, EmptySeq DEF Kept
    <3> QED
      BY <3>1 DEF Executed
  <2>4. \A c \in Calls : (returned[c] = "ok" \/ answers[c] = <<"ok">>) => TxHash[c] \in Included(db)
    BY <2>2, <2>3 DEF TruthInv, OkCalls
  <2>5. Quiet => Kept = Len(db)
    BY <2>1 DEF Kept
  <2>6. Quiet /\ faults = 0 => \A h \in Included(db) : \E c \in Calls : TxHash[c] = h /\ answers[c] = <<"ok">>
    BY <2>2, <2>5 DEF TruthInv, OkCalls
  <2> QED
    BY <2>4, <2>6 DEF AnswersTruthful
<1>2. Init => OutcomeInv /\ TruthInv
  <2> SUFFICES ASSUME Init PROVE OutcomeInv /\ TruthInv
    OBVIOUS
  <2>1. Kept = 0
    BY DEF Init, Kept
  <2>2. \A h : ~Executed(Kept, h)
    BY <2>1 DEF Executed
  <2>3. OkCalls = {} /\ \A c \in Calls : returned[c] # "ok"
    BY DEF Init, OkCalls
  <2>4. OutcomeInv
    BY DEF Init, OutcomeInv
  <2> QED
    BY <2>2, <2>3, <2>4 DEF TruthInv
<1>3. QueueInv /\ OutcomeInv /\ TruthInv /\ [Next]_vars => OutcomeInv' /\ TruthInv'
  BY OutcomeStep, TruthStep
<1> QED
  BY <1>1, <1>2, <1>3, QueueInvariant, PTL DEF Spec
=============================================================================
