------------------------- MODULE FlowControlProofs -------------------------
(***************************************************************************)
(* Proofs about FlowControl, for every number and size of chunks, every    *)
(* limit, every batching parameter and every admissible ACK encoding.      *)
(*                                                                         *)
(* First come facts about Bytes, the sum of chunk sizes; then the          *)
(* inductive invariant, which says where each chunk is; then the safety    *)
(* properties that follow from it.                                         *)
(***************************************************************************)
EXTENDS FlowControl, FiniteSetTheorems, TLAPS

----------------------------------------------------------------------------
(* Bytes of sets of chunks. *)

(* The byte count of any set of chunks is a natural number. *)
LEMMA BytesType ==
    ASSUME NEW S \in SUBSET Chunks
    PROVE  IsFiniteSet(BytePositions(S)) /\ Bytes(S) \in Nat
<1>a. IsFiniteSet(Chunks) /\ IsFiniteSet(1 .. MaxChunkBytes)
  BY FS_Interval, SeqAssumption, SizeAssumption DEF Chunks
<1>1. IsFiniteSet(Chunks \X (1 .. MaxChunkBytes))
  BY <1>a, FS_Product
<1>2. BytePositions(S) \in SUBSET (Chunks \X (1 .. MaxChunkBytes))
  BY DEF BytePositions
<1>3. QED
  BY <1>1, <1>2, FS_Subset, FS_CardinalityType DEF Bytes

(* No chunks, no bytes. *)
LEMMA BytesEmpty == Bytes({}) = 0
<1>1. BytePositions({}) = {}
  BY DEF BytePositions
<1>2. QED
  BY <1>1, FS_EmptySet DEF Bytes

(* The bytes of a chunk of n bytes, numbered. *)
LEMMA IntervalBytes ==
    ASSUME NEW n \in Nat
    PROVE  IsFiniteSet(1 .. n) /\ Cardinality(1 .. n) = n
<1>1. IsFiniteSet(1 .. n) /\ Cardinality(1 .. n) = IF 1 > n THEN 0 ELSE n - 1 + 1
  BY FS_Interval
<1>2. QED
  BY <1>1

(* One chunk counts its size. *)
LEMMA BytesSingleton ==
    ASSUME NEW s \in Chunks
    PROVE  Bytes({s}) = Size[s]
<1>1. Size[s] \in Nat /\ Size[s] <= MaxChunkBytes /\ MaxChunkBytes \in Nat
  BY SizeAssumption
<1>2. BytePositions({s}) = {s} \X (1 .. Size[s])
  BY <1>1 DEF BytePositions
<1>3. IsFiniteSet({s}) /\ Cardinality({s}) = 1
  BY FS_Singleton
<1>4. IsFiniteSet(1 .. Size[s]) /\ Cardinality(1 .. Size[s]) = Size[s]
  BY <1>1, IntervalBytes
<1>5. Cardinality({s} \X (1 .. Size[s])) = Cardinality({s}) * Cardinality(1 .. Size[s])
  BY <1>3, <1>4, FS_Product
<1>6. 1 * Size[s] = Size[s]
  BY <1>1
<1>7. QED
  BY <1>2, <1>3, <1>4, <1>5, <1>6 DEF Bytes

(* Disjoint sets of chunks add up. *)
LEMMA BytesUnion ==
    ASSUME NEW S \in SUBSET Chunks, NEW T \in SUBSET Chunks, S \cap T = {}
    PROVE  Bytes(S \cup T) = Bytes(S) + Bytes(T)
<1>1. BytePositions(S \cup T) = BytePositions(S) \cup BytePositions(T)
  BY DEF BytePositions
<1>2. BytePositions(S) \cap BytePositions(T) = {}
  BY DEF BytePositions
<1>3. Cardinality(BytePositions(S) \cap BytePositions(T)) = 0
  BY <1>2, FS_EmptySet
<1>4. /\ IsFiniteSet(BytePositions(S)) /\ Bytes(S) \in Nat
      /\ IsFiniteSet(BytePositions(T)) /\ Bytes(T) \in Nat
  BY BytesType
<1>5. Cardinality(BytePositions(S) \cup BytePositions(T))
        = Cardinality(BytePositions(S)) + Cardinality(BytePositions(T))
          - Cardinality(BytePositions(S) \cap BytePositions(T))
  BY <1>4, FS_Union
<1>6. Bytes(S \cup T) = Bytes(S) + Bytes(T) - 0
  BY <1>1, <1>3, <1>5 DEF Bytes
<1>7. QED
  BY <1>4, <1>6

(* Taking chunks away takes their bytes away. *)
LEMMA BytesDifference ==
    ASSUME NEW S \in SUBSET Chunks, NEW T \in SUBSET S
    PROVE  Bytes(S \ T) = Bytes(S) - Bytes(T)
<1>1. (S \ T) \in SUBSET Chunks /\ T \in SUBSET Chunks
  OBVIOUS
<1>2. Bytes((S \ T) \cup T) = Bytes(S \ T) + Bytes(T)
  BY <1>1, BytesUnion
<1>3. (S \ T) \cup T = S
  OBVIOUS
<1>4. Bytes(S \ T) \in Nat /\ Bytes(T) \in Nat
  BY <1>1, BytesType
<1>5. Bytes(S) = Bytes(S \ T) + Bytes(T)
  BY <1>2, <1>3
<1>6. QED
  BY <1>4, <1>5

(* Fewer chunks, at most as many bytes. *)
LEMMA BytesMonotone ==
    ASSUME NEW S \in SUBSET Chunks, NEW T \in SUBSET S
    PROVE  Bytes(T) <= Bytes(S)
<1>1. Bytes(S \ T) = Bytes(S) - Bytes(T)
  BY BytesDifference
<1>2. Bytes(S) \in Nat /\ Bytes(T) \in Nat /\ Bytes(S \ T) \in Nat
  BY BytesType
<1>3. QED
  BY <1>1, <1>2

(* One more chunk, its size more. *)
LEMMA BytesAdd ==
    ASSUME NEW S \in SUBSET Chunks, NEW s \in Chunks, s \notin S
    PROVE  Bytes(S \cup {s}) = Bytes(S) + Size[s]
  BY BytesUnion, BytesSingleton

(* One chunk fewer, its size less. *)
LEMMA BytesRemove ==
    ASSUME NEW S \in SUBSET Chunks, NEW s \in S
    PROVE  Bytes(S \ {s}) = Bytes(S) - Size[s]
  BY BytesDifference, BytesSingleton
----------------------------------------------------------------------------
(* The wires: what taking from and adding to a FIFO does to its elements.  *)

(* Taking the head of a wire shifts the rest by one.                       *)
LEMMA TakeFromWire ==
    ASSUME NEW X, NEW q \in Seq(X), q # <<>>
    PROVE  /\ Tail(q) \in Seq(X) /\ Head(q) \in X /\ Head(q) = q[1]
           /\ Len(q) \in Nat /\ Len(q) >= 1 /\ Len(Tail(q)) = Len(q) - 1
           /\ \A i \in 1 .. Len(Tail(q)) : Tail(q)[i] = q[i + 1]
  OBVIOUS

(* Adding to a wire keeps what is on it and puts the new one last.         *)
LEMMA AddToWire ==
    ASSUME NEW X, NEW q \in Seq(X), NEW e \in X
    PROVE  /\ Append(q, e) \in Seq(X)
           /\ Len(q) \in Nat /\ Len(Append(q, e)) = Len(q) + 1
           /\ \A i \in 1 .. Len(q) : Append(q, e)[i] = q[i]
           /\ Append(q, e)[Len(q) + 1] = e
  OBVIOUS

----------------------------------------------------------------------------
(* Nothing has been sent yet.                                              *)
LEMMA InitIInv == Init => IInv
<1> SUFFICES ASSUME Init PROVE IInv
  OBVIOUS
<1> USE DEF Init
<1>1. TypeOK
  <2>1. dataWire \in Seq(Chunks) /\ ackWire \in Seq(SUBSET Chunks)
    OBVIOUS
  <2>2. readyToAck \in BOOLEAN /\ ackSend \in BOOLEAN
    BY Zenon
  <2>3. QED
    BY <2>1, <2>2, SeqAssumption DEF TypeOK
<1>2. WireInOrder
  BY DEF WireInOrder
<1>3. EachChunkInOnePlace
  BY DEF EachChunkInOnePlace, readAckInfo, AcksInTransit
<1>4. CountersMatch
  BY BytesEmpty DEF CountersMatch, readAckInfo
<1>5. WriteTaskOK
  BY DEF WriteTaskOK
<1>6. WithinWriteLimit /\ NoViolation
  BY LimitAssumption DEF WithinWriteLimit, NoViolation
<1>7. QED
  BY <1>1, <1>2, <1>3, <1>4, <1>5, <1>6 DEF IInv
----------------------------------------------------------------------------
(* One lemma per action.  "Unmoved" collects the parts of IInv that an     *)
(* action leaves alone because it moves no chunk and counts no byte.       *)

Places == <<nextWriteSeq, writeAckInfo, nextReadSeq, unprocessedSeqs, processedSeqs,
            dataWire, ackWire>>
Counters == <<written, read, unprocessed, ackableBytes>>

(* A step that moves no chunk and changes no counter keeps all but types   *)
(* and the write task.                                                     *)
LEMMA Unmoved ==
    ASSUME IInv, UNCHANGED <<Places, Counters, violations>>
    PROVE  /\ WireInOrder' /\ EachChunkInOnePlace' /\ CountersMatch'
           /\ WithinWriteLimit' /\ NoViolation'
<1> USE DEF IInv, Places, Counters
<1>1. WireInOrder'
  BY DEF WireInOrder
<1>2. EachChunkInOnePlace'
  BY DEF EachChunkInOnePlace, readAckInfo, AcksInTransit
<1>3. CountersMatch'
  BY DEF CountersMatch, readAckInfo
<1>4. WithinWriteLimit' /\ NoViolation'
  BY DEF WithinWriteLimit, NoViolation
<1>5. QED
  BY <1>1, <1>2, <1>3, <1>4

(* A new #write is only counted: it is one more in limbo.                  *)
LEMMA WriteStep == IInv /\ Write => IInv'
<1> SUFFICES ASSUME IInv, Write PROVE IInv'
  OBVIOUS
<1> USE DEF Write, inVars, ackVars, wireVars
<1>1. TypeOK'
  BY DEF IInv, TypeOK
<1>2. WriteTaskOK'
  BY DEF IInv, TypeOK, WriteTaskOK, WriteBudgetCovers
<1>3. QED
  BY <1>1, <1>2, Unmoved DEF IInv, Places, Counters

(* writable() lets a chunk pass only when it fits, and else waits for it.  *)
LEMMA WritableStep == IInv /\ Writable => IInv'
<1> SUFFICES ASSUME IInv, Writable PROVE IInv'
  OBVIOUS
<1> USE DEF Writable, inVars, ackVars, wireVars
<1>1. Reserve[nextWriteSeq] \in Nat \ {0} /\ WriteLimit \in Nat
  BY SizeAssumption, LimitAssumption DEF IInv, TypeOK, Chunks
<1>2. TypeOK'
  BY <1>1 DEF IInv, TypeOK
<1>3. WriteTaskOK'
  BY <1>1 DEF IInv, TypeOK, WriteTaskOK, WriteBudgetCovers, WriteBudgetExceeds
<1>4. QED
  BY <1>2, <1>3, Unmoved DEF IInv, Places, Counters

(* The end of a #write takes it out of limbo, where it was.                *)
LEMMA WriteReturnsStep == IInv /\ WriteReturns => IInv'
<1> SUFFICES ASSUME IInv, WriteReturns PROVE IInv'
  OBVIOUS
<1> USE DEF WriteReturns, inVars, ackVars, wireVars
<1>1. TypeOK'
  BY DEF IInv, TypeOK
<1>2. WriteTaskOK'
  BY DEF IInv, TypeOK, WriteTaskOK, WriteBudgetCovers
<1>3. QED
  BY <1>1, <1>2, Unmoved DEF IInv, Places, Counters

(* allWritesAcked() only sets the promise.                                 *)
LEMMA AllWritesAckedStep == IInv /\ AllWritesAcked => IInv'
<1> SUFFICES ASSUME IInv, AllWritesAcked PROVE IInv'
  OBVIOUS
<1> USE DEF AllWritesAcked, writeVars, inVars, ackVars, wireVars
<1>1. TypeOK'
  BY DEF IInv, TypeOK
<1>2. WriteTaskOK'
  BY DEF IInv, WriteTaskOK, WriteBudgetCovers
<1>3. QED
  BY <1>1, <1>2, Unmoved DEF IInv, Places, Counters

(* The callback only queues an ACK task.                                   *)
LEMMA AckCallbackStep == IInv /\ AckCallback => IInv'
<1> SUFFICES ASSUME IInv, AckCallback PROVE IInv'
  OBVIOUS
<1> USE DEF AckCallback, outVars, writeVars, wireVars
<1>1. TypeOK'
  BY DEF IInv, TypeOK
<1>2. WriteTaskOK'
  BY DEF IInv, WriteTaskOK, WriteBudgetCovers
<1>3. QED
  BY <1>1, <1>2, Unmoved DEF IInv, Places, Counters

(* The ACK task only hands over to the transport.                          *)
LEMMA SendAckNowStep == IInv /\ SendAckNow => IInv'
<1> SUFFICES ASSUME IInv, SendAckNow PROVE IInv'
  OBVIOUS
<1> USE DEF SendAckNow, outVars, writeVars, inVars, wireVars
<1>1. readyToAck' \in BOOLEAN /\ ackSend' \in BOOLEAN
  BY Zenon
<1>2. TypeOK'
  BY <1>1 DEF IInv, TypeOK
<1>3. WriteTaskOK'
  BY DEF IInv, WriteTaskOK, WriteBudgetCovers
<1>4. QED
  BY <1>2, <1>3, Unmoved DEF IInv, Places, Counters

(* A disconnect at the writing end ends the waiting write.                 *)
LEMMA StopSenderStep == IInv /\ StopSender => IInv'
<1> SUFFICES ASSUME IInv, StopSender PROVE IInv'
  OBVIOUS
<1> USE DEF StopSender, inVars, ackVars, wireVars
<1>1. TypeOK'
  BY DEF IInv, TypeOK, WriteTaskOK
<1>2. WriteTaskOK'
  BY DEF IInv, TypeOK, WriteTaskOK, WriteBudgetCovers
<1>3. QED
  BY <1>1, <1>2, Unmoved DEF IInv, Places, Counters

(* A disconnect at the reading end only stops the timer.                   *)
LEMMA StopReceiverStep == IInv /\ StopReceiver => IInv'
<1> SUFFICES ASSUME IInv, StopReceiver PROVE IInv'
  OBVIOUS
<1> USE DEF StopReceiver, outVars, writeVars, ackVars, wireVars
<1>1. TypeOK'
  BY DEF IInv, TypeOK
<1>2. WriteTaskOK'
  BY DEF IInv, WriteTaskOK, WriteBudgetCovers
<1>3. QED
  BY <1>1, <1>2, Unmoved DEF IInv, Places, Counters

(* #scheduleAcks touches nothing but the timer and the microtasks. *)
LEMMA ScheduleAcksType ==
    ASSUME NEW timer \in {"off", "running", "dead"}, NEW ackable, NEW ackBytes, NEW unproc,
           callbacks \in Nat, ScheduleAcks(timer, ackable, ackBytes, unproc)
    PROVE  ackBatchTimer' \in {"off", "running", "dead"} /\ callbacks' \in Nat
  BY DEF ScheduleAcks

(* The batch timer only queues a callback or restarts.                     *)
LEMMA BatchTimerFiresStep == IInv /\ BatchTimerFires => IInv'
<1> SUFFICES ASSUME IInv, BatchTimerFires PROVE IInv'
  OBVIOUS
<1> USE DEF BatchTimerFires, outVars, writeVars, ackVars, wireVars
<1>1. ackBatchTimer' \in {"off", "running", "dead"} /\ callbacks' \in Nat
  BY ScheduleAcksType DEF IInv, TypeOK
<1>2. TypeOK'
  BY <1>1 DEF IInv, TypeOK
<1>3. WriteTaskOK'
  BY DEF IInv, WriteTaskOK, WriteBudgetCovers
<1>4. QED
  BY <1>2, <1>3, Unmoved DEF IInv, Places, Counters

(* A chunk sent joins the wire and the outstanding ones; writable() made   *)
(* it fit.                                                                 *)
LEMMA SendChunkStep == IInv /\ SendChunk => IInv'
<1> SUFFICES ASSUME IInv, SendChunk PROVE IInv'
  OBVIOUS
<1> USE DEF SendChunk, inVars, ackVars
<1> DEFINE s == nextWriteSeq
<1>1. /\ s \in Chunks /\ Size[s] \in Nat \ {0} /\ Reserve[s] \in Nat
      /\ Size[s] <= Reserve[s] /\ WriteLimit \in Nat
  BY SizeAssumption, LimitAssumption DEF IInv, TypeOK, WriteTaskOK, Chunks
<1>2. /\ dataWire' \in Seq(Chunks) /\ Len(dataWire) \in Nat
      /\ Len(dataWire') = Len(dataWire) + 1 /\ dataWire'[Len(dataWire) + 1] = s
      /\ \A i \in 1 .. Len(dataWire) : dataWire'[i] = dataWire[i]
  BY <1>1, AddToWire DEF IInv, TypeOK
<1>3. s \notin writeAckInfo
  <2>1. readAckInfo \cup AcksInTransit \subseteq 1 .. nextReadSeq - 1 /\ nextReadSeq <= s
    BY <1>2 DEF IInv, EachChunkInOnePlace, WireInOrder, TypeOK
  <2>2. s \notin 1 .. nextReadSeq - 1 /\ s \notin nextReadSeq .. s - 1
    BY <2>1, <1>1 DEF IInv, TypeOK, Chunks
  <2>3. QED
    BY <2>1, <2>2 DEF IInv, EachChunkInOnePlace
<1>4. written' = Bytes(writeAckInfo') /\ written' = written + Size[s]
  BY <1>1, <1>3, BytesAdd DEF IInv, TypeOK, CountersMatch
<1>5. TypeOK'
  <2>1. nextWriteSeq' \in 1 .. MaxSeq + 1 /\ writeAckInfo' \subseteq Chunks /\ written' \in Nat
    BY <1>1, SeqAssumption DEF IInv, TypeOK, WriteTaskOK, Chunks
  <2>2. returning' \in 0 .. inFlight'
    BY DEF IInv, TypeOK, WriteTaskOK
  <2>3. QED
    BY <1>2, <2>1, <2>2 DEF IInv, TypeOK
<1>6. WireInOrder'
  <2>1. nextReadSeq' + Len(dataWire') = nextWriteSeq' /\ s = nextReadSeq + Len(dataWire)
    <3>1. nextReadSeq' = nextReadSeq /\ nextWriteSeq' = nextWriteSeq + 1
      OBVIOUS
    <3>2. nextReadSeq \in Int /\ nextWriteSeq \in Int /\ nextReadSeq + Len(dataWire) = nextWriteSeq
      BY DEF IInv, TypeOK, WireInOrder
    <3> HIDE DEF SendChunk
    <3>3. QED
      BY <1>2, <3>1, <3>2
  <2>2. ASSUME NEW i \in 1 .. Len(dataWire')
        PROVE  dataWire'[i] = nextReadSeq' + i - 1
    <3>1. nextReadSeq' = nextReadSeq /\ nextReadSeq \in Int
      BY DEF IInv, TypeOK
    <3>2. CASE i = Len(dataWire) + 1
      BY <1>2, <2>1, <3>1, <3>2
    <3>3. CASE i # Len(dataWire) + 1
      <4>1. i \in 1 .. Len(dataWire)
        BY <1>2, <3>3
      <4>2. QED
        BY <1>2, <3>1, <4>1 DEF IInv, WireInOrder
    <3>4. QED
      BY <3>2, <3>3
  <2>3. QED
    BY <2>1, <2>2 DEF WireInOrder
<1>7. EachChunkInOnePlace'
  <2>1. readAckInfo' = readAckInfo /\ AcksInTransit' = AcksInTransit
    BY DEF readAckInfo, AcksInTransit
  <2>2. nextReadSeq .. s = (nextReadSeq .. s - 1) \cup {s}
    BY <1>2 DEF IInv, TypeOK, WireInOrder, Chunks
  <2>3. (nextWriteSeq - 1)' = s
    BY <1>1 DEF Chunks
  <2>4. QED
    BY <2>1, <2>2, <2>3 DEF IInv, EachChunkInOnePlace
<1>8. CountersMatch'
  BY <1>4 DEF IInv, CountersMatch, readAckInfo
<1>9. WriteTaskOK'
  BY DEF IInv, TypeOK, WriteTaskOK
<1>10. WithinWriteLimit'
  BY <1>1, <1>4 DEF IInv, TypeOK, WithinWriteLimit, WriteTaskOK, WriteBudgetCovers
<1>11. QED
  BY <1>5, <1>6, <1>7, <1>8, <1>9, <1>10 DEF IInv, NoViolation

(* A chunk received is the next in order, and fits because the writer      *)
(* counts it too.                                                          *)
LEMMA ReceiveStep == IInv /\ Receive => IInv'
<1> SUFFICES ASSUME IInv, Receive PROVE IInv'
  OBVIOUS
<1> USE DEF Receive, outVars, writeVars, ackVars
<1> DEFINE s == Head(dataWire)
<1>1. /\ s \in Chunks /\ s = dataWire[1] /\ dataWire' \in Seq(Chunks)
      /\ Len(dataWire) \in Nat /\ Len(dataWire) >= 1 /\ Len(dataWire') = Len(dataWire) - 1
      /\ \A i \in 1 .. Len(dataWire') : dataWire'[i] = dataWire[i + 1]
  BY TakeFromWire DEF IInv, TypeOK
<1>2. s = nextReadSeq
  BY <1>1 DEF IInv, TypeOK, WireInOrder
<1>3. Size[s] \in Nat /\ ReadLimit \in Nat /\ WriteLimit \in Nat
  BY <1>1, SizeAssumption, LimitAssumption
<1>4. s \in writeAckInfo /\ s \notin readAckInfo /\ s \notin AcksInTransit
      /\ readAckInfo \subseteq writeAckInfo /\ writeAckInfo \subseteq Chunks
  BY <1>1, <1>2 DEF IInv, TypeOK, WireInOrder, EachChunkInOnePlace
\* Nothing is over budget: what is unread fits in what the writer has outstanding.
<1>5. ReadBudgetCovers(Size[s])
  <2>1. Bytes(readAckInfo \cup {s}) = read + Size[s]
    BY <1>1, <1>4, BytesAdd DEF IInv, CountersMatch
  <2>2. Bytes(readAckInfo \cup {s}) <= written
    BY <1>4, BytesMonotone DEF IInv, CountersMatch
  <2>3. read + Size[s] <= written /\ read \in Nat /\ written \in Nat
    BY <2>1, <2>2 DEF IInv, TypeOK
  <2>4. CASE ReadLimit = 0
    BY <2>4 DEF ReadBudgetCovers
  <2>5. CASE ReadLimit # 0
    <3>1. WriteLimit # 0 /\ WriteLimit <= ReadLimit /\ written <= WriteLimit
      BY <2>5, LimitAssumption DEF IInv, WithinWriteLimit
    <3>2. QED
      BY <2>3, <3>1, <1>3 DEF ReadBudgetCovers
  <2>6. QED
    BY <2>4, <2>5
<1>6. /\ unprocessedSeqs' = unprocessedSeqs \cup {s} /\ processedSeqs' = processedSeqs
      /\ read' = read + Size[s] /\ unprocessed' = unprocessed + Size[s]
      /\ nextReadSeq' = nextReadSeq + 1 /\ violations' = violations
  BY <1>2, <1>5
<1>7. TypeOK'
  <2>1. nextReadSeq' \in 1 .. MaxSeq + 1
    BY <1>1, <1>2, <1>6, SeqAssumption DEF IInv, TypeOK, Chunks
  <2>2. read' \in Nat /\ unprocessed' \in Nat /\ unprocessedSeqs' \subseteq Chunks
    BY <1>1, <1>3, <1>6 DEF IInv, TypeOK
  <2>3. QED
    BY <1>1, <1>6, <2>1, <2>2 DEF IInv, TypeOK
<1>8. WireInOrder'
  <2>1. nextReadSeq' + Len(dataWire') = nextWriteSeq'
    <3>1. nextReadSeq' = nextReadSeq + 1 /\ nextWriteSeq' = nextWriteSeq
      BY <1>6
    <3>2. nextReadSeq \in Int /\ nextWriteSeq \in Int /\ nextReadSeq + Len(dataWire) = nextWriteSeq
      BY DEF IInv, TypeOK, WireInOrder
    <3> HIDE DEF Receive
    <3>3. QED
      BY <1>1, <3>1, <3>2
  <2>2. ASSUME NEW i \in 1 .. Len(dataWire')
        PROVE  dataWire'[i] = nextReadSeq' + i - 1
    <3>1. i + 1 \in 1 .. Len(dataWire)
      BY <1>1
    <3>2. dataWire[i + 1] = nextReadSeq + (i + 1) - 1 /\ nextReadSeq \in Int
      BY <3>1 DEF IInv, TypeOK, WireInOrder
    <3>3. dataWire'[i] = dataWire[i + 1]
      BY <1>1
    <3>4. QED
      BY <1>6, <3>2, <3>3
  <2>3. QED
    BY <2>1, <2>2 DEF WireInOrder
<1>9. EachChunkInOnePlace'
  <2>1. readAckInfo' = readAckInfo \cup {s} /\ AcksInTransit' = AcksInTransit
    BY <1>6 DEF readAckInfo, AcksInTransit
  <2>2. /\ nextReadSeq .. nextWriteSeq - 1 = {s} \cup (nextReadSeq + 1 .. nextWriteSeq - 1)
        /\ 1 .. nextReadSeq = (1 .. nextReadSeq - 1) \cup {s}
    BY <1>1, <1>2 DEF IInv, TypeOK, WireInOrder
  <2>3. (nextReadSeq - 1)' = nextReadSeq
    BY <1>6 DEF IInv, TypeOK
  <2>4. unprocessedSeqs' \cap processedSeqs' = {}
    BY <1>4, <1>6 DEF IInv, EachChunkInOnePlace, readAckInfo
  <2>5. readAckInfo' \cup AcksInTransit' \subseteq 1 .. (nextReadSeq - 1)'
    BY <2>1, <2>2, <2>3 DEF IInv, EachChunkInOnePlace
  <2>6. writeAckInfo' = (nextReadSeq' .. (nextWriteSeq - 1)') \cup readAckInfo' \cup AcksInTransit'
    BY <2>1, <2>2, <1>6 DEF IInv, EachChunkInOnePlace
  <2>7. \A i \in 1 .. Len(ackWire) : s \notin ackWire[i]
    BY <1>4 DEF AcksInTransit
  <2>8. QED
    BY <2>1, <2>4, <2>5, <2>6, <2>7 DEF IInv, EachChunkInOnePlace
<1>10. CountersMatch'
  <2>1. read' = Bytes(readAckInfo \cup {s}) /\ readAckInfo' = readAckInfo \cup {s}
    BY <1>1, <1>4, <1>6, BytesAdd DEF IInv, CountersMatch, readAckInfo
  <2>2. unprocessed' = Bytes(unprocessedSeqs')
    BY <1>1, <1>4, <1>6, BytesAdd DEF IInv, TypeOK, CountersMatch, readAckInfo
  <2>3. QED
    BY <1>6, <2>1, <2>2 DEF IInv, CountersMatch
<1>11. WriteTaskOK' /\ WithinWriteLimit' /\ NoViolation'
  BY <1>6 DEF IInv, WriteTaskOK, WriteBudgetCovers, WithinWriteLimit, NoViolation
<1>12. QED
  BY <1>7, <1>8, <1>9, <1>10, <1>11 DEF IInv

(* A chunk marked processed moves from the unprocessed to the ackable.     *)
LEMMA MarkProcessedStep ==
    ASSUME NEW s \in Chunks
    PROVE  IInv /\ MarkProcessed(s) => IInv'
<1> SUFFICES ASSUME IInv, MarkProcessed(s) PROVE IInv'
  OBVIOUS
<1> USE DEF MarkProcessed, outVars, writeVars, ackVars, wireVars
<1>1. s \in unprocessedSeqs /\ s \notin processedSeqs /\ Size[s] \in Nat
  BY SizeAssumption DEF IInv, EachChunkInOnePlace
<1>2. ackBatchTimer' \in {"off", "running", "dead"} /\ callbacks' \in Nat
  BY ScheduleAcksType DEF IInv, TypeOK
<1>3. readAckInfo' = readAckInfo /\ AcksInTransit' = AcksInTransit
  BY <1>1 DEF readAckInfo, AcksInTransit
<1>4. CountersMatch'
  <2>1. unprocessed' = Bytes(unprocessedSeqs') /\ unprocessedSeqs' \subseteq Chunks
    BY <1>1, BytesRemove DEF IInv, TypeOK, CountersMatch
  <2>2. ackableBytes' = Bytes(processedSeqs') /\ processedSeqs' \subseteq Chunks
    BY <1>1, BytesAdd DEF IInv, TypeOK, CountersMatch
  <2>3. QED
    BY <1>3, <2>1, <2>2 DEF IInv, CountersMatch
<1>5. TypeOK'
  <2>1. unprocessedSeqs' \subseteq Chunks /\ processedSeqs' \subseteq Chunks
    BY DEF IInv, TypeOK
  <2>2. unprocessed' \in Nat /\ ackableBytes' \in Nat
    BY <1>4, <2>1, BytesType DEF CountersMatch
  <2>3. QED
    BY <1>2, <2>1, <2>2 DEF IInv, TypeOK
<1>6. WireInOrder'
  BY DEF IInv, WireInOrder
<1>7. EachChunkInOnePlace'
  BY <1>1, <1>3 DEF IInv, EachChunkInOnePlace
<1>8. WriteTaskOK' /\ WithinWriteLimit' /\ NoViolation'
  BY DEF IInv, WriteTaskOK, WriteBudgetCovers, WithinWriteLimit, NoViolation
<1>9. QED
  BY <1>4, <1>5, <1>6, <1>7, <1>8 DEF IInv

(* An ACK sent takes the chunks it covers from the reader to the wire.     *)
LEMMA TransportSendsAckStep == IInv /\ TransportSendsAck => IInv'
<1> SUFFICES ASSUME IInv, TransportSendsAck PROVE IInv'
  OBVIOUS
<1> USE DEF TransportSendsAck, outVars, writeVars
<1>1. CASE processedSeqs = {}
  <2>1. UNCHANGED <<Places, Counters, violations, ackBatchTimer, callbacks, stopped>>
    BY <1>1 DEF Places, Counters
  <2>2. readyToAck' \in BOOLEAN /\ ackSend' \in BOOLEAN
    BY Zenon DEF IInv, TypeOK
  <2>3. TypeOK'
    BY <2>1, <2>2 DEF IInv, TypeOK, Places, Counters
  <2>4. WriteTaskOK'
    BY <2>1 DEF IInv, WriteTaskOK, WriteBudgetCovers
  <2>5. QED
    BY <2>1, <2>3, <2>4, Unmoved DEF IInv
<1>2. CASE processedSeqs # {}
  <2> DEFINE acked == AckSet(processedSeqs)
  <2>1. acked \subseteq processedSeqs /\ processedSeqs \subseteq Chunks /\ unprocessedSeqs \subseteq Chunks
    BY AckSetAssumption DEF IInv, TypeOK
  <2>2. /\ ackWire' = Append(ackWire, acked) /\ processedSeqs' = processedSeqs \ acked
        /\ ackableBytes' = ackableBytes - Bytes(acked) /\ read' = read - Bytes(acked)
        /\ ScheduleAcks(ackBatchTimer, processedSeqs', ackableBytes', unprocessed)
    BY <1>2 DEF Unacked
  <2>3. /\ ackWire' \in Seq(SUBSET Chunks) /\ Len(ackWire) \in Nat
        /\ Len(ackWire') = Len(ackWire) + 1 /\ ackWire'[Len(ackWire) + 1] = acked
        /\ \A i \in 1 .. Len(ackWire) : ackWire'[i] = ackWire[i]
    BY <2>1, <2>2, AddToWire DEF IInv, TypeOK
  <2>4. /\ unprocessedSeqs' = unprocessedSeqs /\ writeAckInfo' = writeAckInfo
        /\ nextReadSeq' = nextReadSeq /\ nextWriteSeq' = nextWriteSeq
    OBVIOUS
  <2>5. readAckInfo' = readAckInfo \ acked /\ acked \subseteq readAckInfo
    BY <2>1, <2>2, <2>4 DEF IInv, EachChunkInOnePlace, readAckInfo
  <2>6. AcksInTransit' = AcksInTransit \cup acked
    <3>1. 1 .. Len(ackWire') = (1 .. Len(ackWire)) \cup {Len(ackWire) + 1}
      BY <2>3
    <3>2. QED
      BY <2>3, <3>1 DEF AcksInTransit
  <2>7. CountersMatch'
    <3>1. read' = Bytes(readAckInfo')
      BY <2>1, <2>2, <2>5, BytesDifference DEF IInv, CountersMatch, readAckInfo
    <3>2. ackableBytes' = Bytes(processedSeqs')
      BY <2>1, <2>2, BytesDifference DEF IInv, CountersMatch
    <3>3. QED
      BY <2>4, <3>1, <3>2 DEF IInv, CountersMatch
  <2>8. TypeOK'
    <3>1. readAckInfo' \in SUBSET Chunks /\ processedSeqs' \in SUBSET Chunks
      BY <2>1, <2>2, <2>5 DEF readAckInfo
    <3>2. read' \in Nat /\ ackableBytes' \in Nat
      BY <2>7, <3>1, BytesType DEF CountersMatch
    <3>3. ackBatchTimer' \in {"off", "running", "dead"} /\ callbacks' \in Nat
      BY <2>2, ScheduleAcksType DEF IInv, TypeOK
    <3>4. readyToAck' \in BOOLEAN /\ ackSend' \in BOOLEAN
      BY Zenon DEF IInv, TypeOK
    <3>5. QED
      BY <2>3, <3>1, <3>2, <3>3, <3>4 DEF IInv, TypeOK
  <2>9. WireInOrder'
    BY DEF IInv, WireInOrder
  <2>10. EachChunkInOnePlace'
    <3>1. unprocessedSeqs' \cap processedSeqs' = {}
      BY <2>2, <2>4 DEF IInv, EachChunkInOnePlace
    <3>2. readAckInfo' \cup AcksInTransit' = readAckInfo \cup AcksInTransit
      BY <2>5, <2>6
    <3>3. ASSUME NEW i \in 1 .. Len(ackWire')
          PROVE  /\ ackWire'[i] \cap readAckInfo' = {}
                 /\ \A j \in 1 .. Len(ackWire') : i # j => ackWire'[i] \cap ackWire'[j] = {}
      <4>1. CASE i \in 1 .. Len(ackWire)
        BY <2>3, <2>5, <4>1 DEF IInv, EachChunkInOnePlace
      <4>2. CASE i = Len(ackWire) + 1
        BY <2>3, <2>5, <4>2 DEF IInv, EachChunkInOnePlace
      <4>3. QED
        BY <2>3, <4>1, <4>2
    <3>4. QED
      BY <2>4, <3>1, <3>2, <3>3 DEF IInv, EachChunkInOnePlace
  <2>11. WriteTaskOK' /\ WithinWriteLimit' /\ NoViolation'
    BY DEF IInv, WriteTaskOK, WriteBudgetCovers, WithinWriteLimit, NoViolation
  <2>12. QED
    BY <2>7, <2>8, <2>9, <2>10, <2>11 DEF IInv
<1>3. QED
  BY <1>1, <1>2

(* An ACK received covers outstanding chunks only, so none is duplicate or *)
(* premature.                                                              *)
LEMMA ReceiveAckStep == IInv /\ ReceiveAck => IInv'
<1> SUFFICES ASSUME IInv, ReceiveAck PROVE IInv'
  OBVIOUS
<1> USE DEF ReceiveAck, inVars, ackVars
<1> DEFINE acked == Head(ackWire)
<1>1. /\ acked \subseteq Chunks /\ acked = ackWire[1] /\ ackWire' \in Seq(SUBSET Chunks)
      /\ Len(ackWire) \in Nat /\ Len(ackWire) >= 1 /\ Len(ackWire') = Len(ackWire) - 1
      /\ \A i \in 1 .. Len(ackWire') : ackWire'[i] = ackWire[i + 1]
  BY TakeFromWire DEF IInv, TypeOK
<1>2. acked \subseteq AcksInTransit /\ 1 \in 1 .. Len(ackWire)
  BY <1>1 DEF AcksInTransit
\* Every sequence of the ACK was received, so it is neither premature nor a duplicate.
<1>3. /\ acked \subseteq writeAckInfo
      /\ \A s \in acked : s \in Int /\ s < nextReadSeq /\ s < nextWriteSeq
  <2>1. acked \subseteq 1 .. nextReadSeq - 1 /\ acked \subseteq writeAckInfo
    BY <1>2 DEF IInv, EachChunkInOnePlace
  <2>2. nextReadSeq <= nextWriteSeq
    BY DEF IInv, TypeOK, WireInOrder
  <2>3. QED
    BY <2>1, <2>2 DEF IInv, TypeOK
<1>4. {s \in acked : s >= nextWriteSeq} = {}
  BY <1>3 DEF IInv, TypeOK
<1>5. /\ writeAckInfo' = writeAckInfo \ acked /\ written' = written - Bytes(acked)
      /\ violations' = violations
  BY <1>3, <1>4
<1>6. AcksInTransit' = AcksInTransit \ acked
  <2>1. ASSUME NEW i \in 1 .. Len(ackWire), i # 1
        PROVE  ackWire[i] \cap acked = {}
    BY <1>1, <1>2, <2>1 DEF IInv, EachChunkInOnePlace
  <2>2. ASSUME NEW i \in 1 .. Len(ackWire')
        PROVE  i + 1 \in 1 .. Len(ackWire) /\ i + 1 # 1 /\ ackWire'[i] = ackWire[i + 1]
    BY <1>1
  <2>3. ASSUME NEW i \in 1 .. Len(ackWire), i # 1
        PROVE  i - 1 \in 1 .. Len(ackWire') /\ ackWire[i] = ackWire'[i - 1]
    <3>1. i - 1 \in 1 .. Len(ackWire')
      BY <1>1, <2>3
    <3>2. ackWire'[i - 1] = ackWire[(i - 1) + 1] /\ (i - 1) + 1 = i
      BY <1>1, <3>1
    <3>3. QED
      BY <3>1, <3>2
  <2>4. AcksInTransit' \subseteq AcksInTransit \ acked
    BY <2>1, <2>2 DEF AcksInTransit
  <2>5. ASSUME NEW x \in AcksInTransit, x \notin acked
        PROVE  x \in AcksInTransit'
    <3>1. PICK i \in 1 .. Len(ackWire) : x \in ackWire[i]
      BY DEF AcksInTransit
    <3>2. i # 1
      BY <1>1, <2>5, <3>1
    <3> HIDE DEF ReceiveAck
    <3>3. i - 1 \in 1 .. Len(ackWire') /\ x \in ackWire'[i - 1]
      BY <2>3, <3>1, <3>2
    <3>4. QED
      BY <3>3 DEF AcksInTransit
  <2>6. QED
    BY <2>4, <2>5
<1>7. readAckInfo' = readAckInfo /\ acked \cap readAckInfo = {}
  BY <1>1, <1>2 DEF IInv, EachChunkInOnePlace, readAckInfo
<1>8. CountersMatch'
  <2>1. written' = Bytes(writeAckInfo')
    BY <1>3, <1>5, BytesDifference DEF IInv, TypeOK, CountersMatch
  <2>2. QED
    BY <1>7, <2>1 DEF IInv, CountersMatch
<1>9. written' \in Nat /\ written' <= written /\ written \in Nat /\ WriteLimit \in Nat
  <2>1. writeAckInfo \in SUBSET Chunks /\ writeAckInfo' \in SUBSET writeAckInfo
    BY <1>5 DEF IInv, TypeOK
  <2>2. QED
    BY <1>8, <2>1, BytesType, BytesMonotone, LimitAssumption DEF IInv, CountersMatch
<1>10. TypeOK'
  BY <1>1, <1>5, <1>9 DEF IInv, TypeOK
<1>11. WireInOrder'
  BY DEF IInv, WireInOrder
<1>12. EachChunkInOnePlace'
  <2>1. unprocessedSeqs' \cap processedSeqs' = {}
    BY DEF IInv, EachChunkInOnePlace
  <2>2. readAckInfo' \cup AcksInTransit' \subseteq 1 .. (nextReadSeq - 1)'
    BY <1>6, <1>7 DEF IInv, EachChunkInOnePlace
  <2>3. acked \cap (nextReadSeq .. nextWriteSeq - 1) = {}
    BY <1>3 DEF IInv, TypeOK
  <2>4. writeAckInfo' = (nextReadSeq' .. (nextWriteSeq - 1)') \cup readAckInfo' \cup AcksInTransit'
    BY <1>5, <1>6, <1>7, <2>3 DEF IInv, EachChunkInOnePlace
  <2>5. ASSUME NEW i \in 1 .. Len(ackWire')
        PROVE  /\ ackWire'[i] \cap readAckInfo' = {}
               /\ \A j \in 1 .. Len(ackWire') : i # j => ackWire'[i] \cap ackWire'[j] = {}
    <3>1. i + 1 \in 1 .. Len(ackWire) /\ ackWire'[i] = ackWire[i + 1]
      BY <1>1
    <3>2. ASSUME NEW j \in 1 .. Len(ackWire'), i # j
          PROVE  ackWire'[i] \cap ackWire'[j] = {}
      <4>1. j + 1 \in 1 .. Len(ackWire) /\ ackWire'[j] = ackWire[j + 1] /\ i + 1 # j + 1
        BY <1>1, <3>2
      <4>2. QED
        BY <3>1, <4>1 DEF IInv, EachChunkInOnePlace
    <3>3. ackWire'[i] \cap readAckInfo' = {}
      BY <1>7, <3>1 DEF IInv, EachChunkInOnePlace
    <3>4. QED
      BY <3>2, <3>3
  <2>6. QED
    BY <2>1, <2>2, <2>4, <2>5 DEF EachChunkInOnePlace
<1>13. WriteTaskOK'
  <2>1. nextWriteSeq' = nextWriteSeq /\ returning' = returning /\ inFlight' = inFlight
    OBVIOUS
  <2>2. task # "idle" => Reserve[nextWriteSeq] \in Nat
    BY SizeAssumption DEF IInv, TypeOK, WriteTaskOK, Chunks
  <2>3. CASE WriterFits(written')
    BY <1>9, <2>1, <2>2, <2>3 DEF IInv, TypeOK, WriteTaskOK, WriteBudgetCovers, WriterFits
  <2>4. CASE ~WriterFits(written')
    BY <1>9, <2>1, <2>2, <2>4 DEF IInv, TypeOK, WriteTaskOK, WriteBudgetCovers
  <2>5. QED
    BY <2>3, <2>4
<1>14. WithinWriteLimit' /\ NoViolation'
  <2>1. WriteLimit = 0 \/ written <= WriteLimit
    BY DEF IInv, WithinWriteLimit
  <2>2. NoViolation'
    BY <1>5 DEF IInv, NoViolation
  <2> HIDE DEF ReceiveAck
  <2>3. QED
    BY <1>9, <2>1, <2>2 DEF WithinWriteLimit
<1>15. QED
  BY <1>8, <1>10, <1>11, <1>12, <1>13, <1>14 DEF IInv

----------------------------------------------------------------------------
(* The invariant and the theorems.                                         *)

(* Every step of either end, or of the connection, keeps the invariant.    *)
LEMMA NextIInv == IInv /\ [Next]_vars => IInv'
<1> SUFFICES ASSUME IInv, [Next]_vars PROVE IInv'
  OBVIOUS
<1>1. CASE SenderStep
  BY <1>1, WriteStep, WritableStep, SendChunkStep, WriteReturnsStep, AllWritesAckedStep,
     ReceiveAckStep DEF SenderStep
<1>2. CASE ReceiverStep
  BY <1>2, ReceiveStep, MarkProcessedStep, BatchTimerFiresStep, AckCallbackStep,
     SendAckNowStep, TransportSendsAckStep DEF ReceiverStep
<1>3. CASE StopSender \/ StopReceiver
  BY <1>3, StopSenderStep, StopReceiverStep
<1>4. CASE UNCHANGED vars
  <2> USE <1>4 DEF vars, outVars, writeVars, inVars, ackVars, wireVars
  <2>1. TypeOK'
    BY DEF IInv, TypeOK
  <2>2. WriteTaskOK'
    BY DEF IInv, WriteTaskOK, WriteBudgetCovers
  <2>3. QED
    BY <2>1, <2>2, Unmoved DEF IInv, Places, Counters
<1>5. QED
  BY <1>1, <1>2, <1>3, <1>4 DEF Next

(* The inductive invariant holds in every behaviour: each chunk sent and   *)
(* not ACKed is in exactly one place and each byte counter is their sum.   *)
THEOREM Invariant == Spec => []IInv
  BY InitIInv, NextIInv, PTL DEF Spec

(* Every variable keeps its type; in particular no byte counter and no     *)
(* in-limbo count of ChannelFlowControl ever goes negative.                *)
THEOREM TypeCorrect == Spec => []TypeOK
<1>1. IInv => TypeOK
  BY DEF IInv
<1>2. QED
  BY <1>1, Invariant, PTL

(* received() never finds a chunk out of order or over budget, and         *)
(* clearWriteAckInfo() never a duplicate or a premature ACK: two honest    *)
(* ends never report a protocol violation and so never close the channel.  *)
THEOREM HonestEndsNeverAccused == Spec => []NoViolation
<1>1. IInv => NoViolation
  BY DEF IInv
<1>2. QED
  BY <1>1, Invariant, PTL

(* writable() keeps the bytes outstanding within the granted limit.        *)
THEOREM LimitRespected == Spec => []WithinWriteLimit
<1>1. IInv => WithinWriteLimit
  BY DEF IInv
<1>2. QED
  BY <1>1, Invariant, PTL

----------------------------------------------------------------------------
(* The drain of close(). *)

(* Of the steps of the writing end, those that move a write need one in    *)
(* limbo, and those that end the drain check that none is left.            *)
LEMMA NextDrained ==
    IInv /\ DrainedMeansEmpty /\ [Next]_vars => DrainedMeansEmpty'
<1> SUFFICES ASSUME IInv, DrainedMeansEmpty, [Next]_vars, allWritesAcked' = "resolved"
             PROVE  writeAckInfo' = {} /\ inFlight' = 0 /\ writer' = 0
  BY DEF DrainedMeansEmpty
<1> USE DEF DrainedMeansEmpty, Drained, inVars, ackVars, wireVars, writeVars, outVars
<1>0. /\ inFlight \in Nat /\ returning \in 0 .. inFlight
      /\ task # "idle" => returning < inFlight
      /\ task = "waiting" <=> writer # 0
  BY DEF IInv, TypeOK, WriteTaskOK
<1>1. CASE Write \/ Writable \/ SendChunk
  BY <1>0, <1>1 DEF Write, Writable, SendChunk
<1>2. CASE WriteReturns
  BY <1>0, <1>2 DEF WriteReturns
<1>3. CASE AllWritesAcked
  BY <1>0, <1>3 DEF AllWritesAcked
<1>4. CASE ReceiveAck
  <2>1. inFlight' = inFlight /\ writeAckInfo' \subseteq writeAckInfo
    BY <1>4 DEF ReceiveAck
  <2>2. CASE allWritesAcked = "resolved"
    BY <1>4, <2>1, <2>2 DEF ReceiveAck, WriterFits
  <2>3. CASE allWritesAcked # "resolved"
    BY <1>4, <2>1, <2>3 DEF ReceiveAck
  <2>4. QED
    BY <2>2, <2>3
<1>5. CASE ReceiverStep
  BY <1>5 DEF ReceiverStep, Receive, MarkProcessed, BatchTimerFires, AckCallback,
              SendAckNow, TransportSendsAck
<1>6. CASE StopSender \/ StopReceiver
  BY <1>6 DEF StopSender, StopReceiver
<1>7. CASE UNCHANGED vars
  BY <1>7 DEF vars
<1>8. QED
  BY <1>1, <1>2, <1>3, <1>4, <1>5, <1>6, <1>7 DEF Next, SenderStep

(* When allWritesAcked() resolves, and from then on, no chunk is           *)
(* outstanding and no #write is in limbo.                                  *)
THEOREM DrainIsComplete == Spec => []DrainedMeansEmpty
<1>1. Init => DrainedMeansEmpty
  BY DEF Init, DrainedMeansEmpty
<1>2. QED
  BY <1>1, NextDrained, Invariant, PTL DEF Spec

----------------------------------------------------------------------------
(* The ACK scheduler. *)

(* A timer handle is dead only after stop().                               *)
DeadOnlyWhenStopped == ackBatchTimer = "dead" => "receiver" \in stopped

(* Whatever #scheduleAcks decides, something is under way if it must be.   *)
LEMMA ScheduleAcksSuffices ==
    ASSUME NEW timer \in {"off", "running", "dead"}, NEW ackBytes,
           timer = "dead" => "receiver" \in stopped, stopped' = stopped,
           callbacks \in Nat, unprocessed' \in Nat,
           ScheduleAcks(timer, processedSeqs', ackBytes, unprocessed')
    PROVE  AckIsComing' /\ DeadOnlyWhenStopped'
<1> DEFINE Early == \/ processedSeqs' = {}
                    \/ LowWater # 0 /\ unprocessed' > LowWater
                    \/ /\ timer # "off"
                       /\ ForceAckBytes = 0 \/ ackBytes < ForceAckBytes
                       /\ ForceAckChunks = 0 \/ Cardinality(processedSeqs') < ForceAckChunks
<1>1. CASE Early
  <2>1. ackBatchTimer' = timer /\ callbacks' = callbacks
    BY <1>1 DEF ScheduleAcks
  <2>2. processedSeqs' # {} /\ ~(LowWater # 0 /\ unprocessed' > LowWater) => timer # "off"
    BY <1>1
  <2>3. LowWater # 0 /\ unprocessed' <= LowWater => ~(unprocessed' > LowWater)
    BY AckAssumption
  <2>4. QED
    BY <2>1, <2>2, <2>3 DEF AckIsComing, DeadOnlyWhenStopped
<1>2. CASE ~Early
  <2>1. ackBatchTimer' \in {"off", "running"} /\ callbacks' = callbacks + 1
    BY <1>2 DEF ScheduleAcks
  <2>2. callbacks' > 0
    BY <2>1
  <2>3. QED
    BY <2>1, <2>2 DEF AckIsComing, DeadOnlyWhenStopped
<1>3. QED
  BY <1>1, <1>2

(* Each step that makes something ackable, or uses up a timer or task,     *)
(* leaves another.                                                         *)
LEMMA NextAckIsComing ==
    IInv /\ AckIsComing /\ DeadOnlyWhenStopped /\ [Next]_vars
        => AckIsComing' /\ DeadOnlyWhenStopped'
<1> SUFFICES ASSUME IInv, AckIsComing, DeadOnlyWhenStopped, [Next]_vars
             PROVE  AckIsComing' /\ DeadOnlyWhenStopped'
  OBVIOUS
<1>0. /\ ackBatchTimer \in {"off", "running", "dead"} /\ callbacks \in Nat
      /\ unprocessed \in Nat /\ LowWater \in Nat
  BY AckAssumption DEF IInv, TypeOK
<1>1. CASE UNCHANGED <<processedSeqs, unprocessed, ackBatchTimer, callbacks, readyToAck,
                       ackSend, stopped>>
  BY <1>1 DEF AckIsComing, DeadOnlyWhenStopped
<1>2. CASE SenderStep
  BY <1>1, <1>2 DEF SenderStep, Write, Writable, SendChunk, WriteReturns, AllWritesAcked,
                    ReceiveAck, inVars, ackVars
<1>3. CASE Receive
  <2>1. /\ UNCHANGED <<processedSeqs, ackBatchTimer, callbacks, readyToAck, ackSend, stopped>>
        /\ unprocessed' = unprocessed \/ unprocessed' = unprocessed + Size[Head(dataWire)]
    BY <1>3 DEF Receive, ackVars
  <2>2. Head(dataWire) \in Chunks
    BY <1>3 DEF Receive, IInv, TypeOK
  <2>3. Size[Head(dataWire)] \in Nat
    BY <2>2, SizeAssumption
  <2>4. unprocessed' <= LowWater => unprocessed <= LowWater
    BY <1>0, <2>1, <2>3
  <2>5. QED
    BY <2>1, <2>4 DEF AckIsComing, DeadOnlyWhenStopped
<1>4. ASSUME NEW s \in Chunks, MarkProcessed(s)
      PROVE  AckIsComing' /\ DeadOnlyWhenStopped'
  <2>1. unprocessed' \in Nat
    BY NextIInv DEF IInv, TypeOK
  <2>2. QED
    BY <1>0, <1>4, <2>1, ScheduleAcksSuffices DEF MarkProcessed, DeadOnlyWhenStopped
<1>5. CASE BatchTimerFires
  <2>1. processedSeqs' = processedSeqs /\ unprocessed' = unprocessed /\ stopped' = stopped
    BY <1>5 DEF BatchTimerFires
  <2>2. ScheduleAcks("off", processedSeqs', ackableBytes, unprocessed')
    BY <1>5, <2>1 DEF BatchTimerFires
  <2>3. QED
    BY <1>0, <2>1, <2>2, ScheduleAcksSuffices
<1>6. CASE AckCallback
  BY <1>6 DEF AckCallback, AckIsComing, DeadOnlyWhenStopped
<1>7. CASE SendAckNow
  BY <1>7 DEF SendAckNow, inVars, AckIsComing, DeadOnlyWhenStopped
<1>8. CASE TransportSendsAck
  <2>1. CASE processedSeqs = {}
    BY <1>8, <2>1 DEF TransportSendsAck, AckIsComing, DeadOnlyWhenStopped
  <2>2. CASE processedSeqs # {}
    <3>1. /\ ScheduleAcks(ackBatchTimer, processedSeqs', ackableBytes', unprocessed)
          /\ unprocessed' = unprocessed /\ stopped' = stopped
      BY <1>8, <2>2 DEF TransportSendsAck
    <3>2. ScheduleAcks(ackBatchTimer, processedSeqs', ackableBytes', unprocessed')
      BY <3>1
    <3>3. QED
      BY <1>0, <3>1, <3>2, ScheduleAcksSuffices DEF DeadOnlyWhenStopped
  <2>3. QED
    BY <2>1, <2>2
<1>9. CASE StopSender
  BY <1>9 DEF StopSender, inVars, ackVars, AckIsComing, DeadOnlyWhenStopped
<1>10. CASE StopReceiver
  BY <1>10 DEF StopReceiver, AckIsComing, DeadOnlyWhenStopped
<1>11. CASE UNCHANGED vars
  BY <1>1, <1>11 DEF vars, inVars, ackVars
<1>12. QED
  BY <1>2, <1>3, <1>4, <1>5, <1>6, <1>7, <1>8, <1>9, <1>10, <1>11
     DEF Next, ReceiverStep

(* No ACK is forgotten: while the reading end is connected and its         *)
(* low-water mark allows, an ackable chunk has a timer, a microtask, a     *)
(* queued task or a send under way that will ACK it.                       *)
THEOREM NoAckForgotten == Spec => []AckIsComing
<1>1. Init => AckIsComing /\ DeadOnlyWhenStopped
  BY DEF Init, AckIsComing, DeadOnlyWhenStopped
<1>2. QED
  BY <1>1, NextAckIsComing, Invariant, PTL DEF Spec

----------------------------------------------------------------------------
(* ACKs are final. *)

(* Only sendChunk makes a chunk outstanding, and only the next one.        *)
LEMMA OnlyNextChunkSent ==
    [Next]_vars => writeAckInfo' \subseteq writeAckInfo \cup {nextWriteSeq}
<1> SUFFICES ASSUME [Next]_vars PROVE writeAckInfo' \subseteq writeAckInfo \cup {nextWriteSeq}
  OBVIOUS
<1>1. CASE SenderStep
  BY <1>1 DEF SenderStep, Write, Writable, SendChunk, WriteReturns, AllWritesAcked, ReceiveAck
<1>2. CASE ReceiverStep \/ StopSender \/ StopReceiver
  BY <1>2 DEF ReceiverStep, Receive, MarkProcessed, BatchTimerFires, AckCallback, SendAckNow,
              TransportSendsAck, StopSender, StopReceiver, outVars
<1>3. CASE UNCHANGED vars
  BY <1>3 DEF vars, outVars
<1>4. QED
  BY <1>1, <1>2, <1>3 DEF Next

(* A chunk whose ACK the writer has taken is gone for good: it is not      *)
(* outstanding, held by the reader, or covered by another ACK again.       *)
THEOREM AcksAreFinal == Spec => AckedStaysAcked
<1>1. IInv /\ IInv' /\ [Next]_vars =>
        [\A s \in Chunks : (s < nextWriteSeq /\ s \notin writeAckInfo)
           => s \notin writeAckInfo' \cup readAckInfo' \cup AcksInTransit']_vars
  <2> SUFFICES ASSUME IInv, IInv', [Next]_vars, NEW s \in Chunks,
                      s < nextWriteSeq, s \notin writeAckInfo
               PROVE  s \notin writeAckInfo' \cup readAckInfo' \cup AcksInTransit'
    OBVIOUS
  <2>1. s # nextWriteSeq
    BY DEF Chunks, IInv, TypeOK
  <2>2. s \notin writeAckInfo'
    BY <2>1, OnlyNextChunkSent
  <2>3. readAckInfo' \cup AcksInTransit' \subseteq writeAckInfo'
    BY DEF IInv, EachChunkInOnePlace
  <2>4. QED
    BY <2>2, <2>3
<1>2. QED
  BY <1>1, Invariant, PTL DEF Spec, AckedStaysAcked

----------------------------------------------------------------------------
(* The waiting writer. *)

(* What keeps a writer waiting: its budget is not there.                   *)
WaiterDoesNotFit == writer # 0 => ~WriteBudgetExceeds(written, writer)

(* ACKs wake the writer as soon as its budget is there; nothing else frees *)
(* budget.                                                                 *)
LEMMA NextWaiterDoesNotFit ==
    IInv /\ WaiterDoesNotFit /\ [Next]_vars => WaiterDoesNotFit'
<1> SUFFICES ASSUME IInv, WaiterDoesNotFit, [Next]_vars PROVE WaiterDoesNotFit'
  OBVIOUS
<1> USE DEF WaiterDoesNotFit, WriteBudgetExceeds, inVars, ackVars, wireVars, writeVars, outVars
<1>1. CASE UNCHANGED <<writer, written>>
  BY <1>1
<1>2. CASE Write \/ WriteReturns \/ AllWritesAcked \/ ReceiverStep \/ StopReceiver \/ UNCHANGED vars
  BY <1>1, <1>2 DEF Write, WriteReturns, AllWritesAcked, ReceiverStep, Receive, MarkProcessed,
       BatchTimerFires, AckCallback, SendAckNow, TransportSendsAck, StopReceiver, vars
<1>3. CASE Writable
  BY <1>3 DEF Writable, IInv, WriteTaskOK
<1>4. CASE SendChunk \/ StopSender
  BY <1>4 DEF SendChunk, StopSender, IInv, WriteTaskOK
<1>5. CASE ReceiveAck
  <2>1. /\ WriteLimit \in Nat /\ writer' \in Nat /\ written' \in Nat
        /\ writer' # 0 => writer' = writer /\ ~WriterFits(written')
    BY <1>5, NextIInv, LimitAssumption DEF ReceiveAck, IInv, TypeOK
  <2>2. QED
    BY <2>1 DEF WriterFits, WriteBudgetCovers
<1>6. QED
  BY <1>2, <1>3, <1>4, <1>5 DEF Next, SenderStep

(* No lost wakeup: as long as every chunk is smaller than the limit, a     *)
(* waiting writer's budget is missing and ACKs that will bring it back are *)
(* outstanding.                                                            *)
THEOREM NoLostWakeup ==
    ASSUME \A s \in Chunks : WriteLimit # 0 => Reserve[s] < WriteLimit
    PROVE  Spec => []WaiterIsNeeded
<1>1. Init => WaiterDoesNotFit
  BY DEF Init, WaiterDoesNotFit
<1>2. IInv /\ WaiterDoesNotFit => WaiterIsNeeded
  <2> SUFFICES ASSUME IInv, WaiterDoesNotFit, writer # 0
               PROVE  writeAckInfo # {} /\ ~WriteBudgetExceeds(written, writer)
    BY DEF WaiterIsNeeded
  <2>1. nextWriteSeq \in Chunks /\ writer = Reserve[nextWriteSeq]
    BY DEF IInv, TypeOK, WriteTaskOK, Chunks
  <2>2. /\ WriteLimit # 0 => writer < WriteLimit - 0
        /\ WriteLimit \in Nat /\ writer \in Nat
    BY <2>1, SizeAssumption, LimitAssumption
  <2>3. writeAckInfo = {} => written = 0
    BY BytesEmpty DEF IInv, CountersMatch
  <2>4. QED
    BY <2>2, <2>3 DEF WaiterDoesNotFit, WriteBudgetExceeds
<1>3. QED
  BY <1>1, <1>2, NextWaiterDoesNotFit, Invariant, PTL DEF Spec
============================================================================
