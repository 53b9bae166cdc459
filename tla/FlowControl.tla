---------------------------- MODULE FlowControl ----------------------------
(***************************************************************************)
(* ChannelFlowControl (src/channel-flow-control.esm.js) of one direction   *)
(* of a channel: the outbound half at the writing end, the inbound half at *)
(* the reading end, and the two FIFO wires between them, data one way and  *)
(* ACK messages the other.  Around the two halves stand the pieces of      *)
(* Channel that call them: the write task (#write / sendAChunk), whose     *)
(* steps are serialised by the channel's task queue, and the ACK sender    *)
(* (#sendAckMessage).  Sequence numbers are 1, 2, ... as in the code; the  *)
(* bytes of chunk s are Size[s] and what its writer reserves is Reserve[s].*)
(*                                                                         *)
(* An ACK message is the set of sequence numbers its base and ranges       *)
(* cover; module AckRanges has the encoding itself.                        *)
(***************************************************************************)
EXTENDS Integers, Sequences, FiniteSets

CONSTANTS
    MaxSeq,          \* bound: chunks 1 .. MaxSeq are written in a behaviour
    MaxChunkBytes,   \* maxChunkBytes of the channel, header included
    Size,            \* Size[s]: bytes of chunk s, header included
    Reserve,         \* Reserve[s]: bytes the writer of chunk s asks for
    MessageOf,       \* MessageOf[s]: the #write call that chunk s belongs to
    ReadLimit,       \* readLimit of the reader (0 = unlimited)
    WriteLimit,      \* writeLimit of the writer (0 = unlimited)
    LowWater,        \* lowWaterBytes (0 = no low-water mark)
    ForceAckBytes,   \* forceAckBytes (0 = no override)
    ForceAckChunks,  \* forceAckChunks (0 = no override)
    Batching,        \* ackBatchTime # 0
    AckSet(_)        \* the sequences one ACK message covers, of those ackable

Chunks == 1 .. MaxSeq

ASSUME SeqAssumption == MaxSeq \in Nat
ASSUME SizeAssumption ==
    /\ MaxChunkBytes \in Nat
    /\ Size \in [Chunks -> 1 .. MaxChunkBytes]
    /\ Reserve \in [Chunks -> 1 .. MaxChunkBytes]
    /\ \A s \in Chunks : Size[s] <= Reserve[s]
ASSUME MessageAssumption ==
    /\ MessageOf \in [Chunks -> Nat \ {0}]
    /\ MaxSeq # 0 => MessageOf[1] = 1
    /\ \A s \in Chunks \ {MaxSeq} : MessageOf[s + 1] \in {MessageOf[s], MessageOf[s] + 1}
\* Both ends agree on the limit: the writer never assumes more than is there.
ASSUME LimitAssumption ==
    /\ ReadLimit \in Nat
    /\ WriteLimit \in Nat
    /\ ReadLimit # 0 => WriteLimit \in 1 .. ReadLimit
ASSUME AckAssumption ==
    /\ LowWater \in Nat
    /\ ForceAckBytes \in Nat
    /\ ForceAckChunks \in Nat
    /\ Batching \in BOOLEAN
\* What AckRanges establishes of getAckInfo: an ACK covers only ackable
\* sequences, and at least one of them when there is one.
ASSUME AckSetAssumption ==
    \A P \in SUBSET Chunks : /\ AckSet(P) \subseteq P
                             /\ P # {} => AckSet(P) # {}

VARIABLES
    \* outbound half
    nextWriteSeq,    \* sequence number of the next chunk sent
    writeAckInfo,    \* sequences sent and not ACKed
    written,         \* bytes sent and not ACKed
    writer,          \* bytes the waiting writer needs, 0 when none waits
    inFlight,        \* #write calls under way ("in limbo")
    allWritesAcked,  \* promise of close(): "none", "pending", "resolved", "rejected"
    \* the writing channel
    calls,           \* #write calls made
    task,            \* step of the serialised write task
    returning,       \* #write calls whose task is over, their finally still to run
    \* inbound half
    nextReadSeq,     \* sequence number expected next
    unprocessedSeqs, \* readAckInfo entries with processed = false
    processedSeqs,   \* readAckInfo entries with processed = true
    read,            \* bytes received and not locally ACKed
    unprocessed,     \* bytes received and not processed
    ackableBytes,    \* bytes processed and not locally ACKed
    ackBatchTimer,   \* "off", "running", or "dead": cleared but not nulled by stop()
    \* the reading channel
    callbacks,       \* ackCallback microtasks queued
    readyToAck,      \* Channel.#readyToAck: an ACK task is in its write queue
    ackSend,         \* an ACK is being sent by the transport
    \* the connection
    dataWire,        \* chunks on their way
    ackWire,         \* ACK messages on their way
    stopped,         \* ends whose flow control was stopped by a disconnect
    violations       \* protocol violations either end reported

outVars == <<nextWriteSeq, writeAckInfo, written, writer, inFlight, allWritesAcked>>
writeVars == <<calls, task, returning>>
inVars == <<nextReadSeq, unprocessedSeqs, processedSeqs, read, unprocessed,
            ackableBytes, ackBatchTimer, callbacks>>
ackVars == <<readyToAck, ackSend>>
wireVars == <<dataWire, ackWire>>
vars == <<outVars, writeVars, inVars, ackVars, wireVars, stopped, violations>>

----------------------------------------------------------------------------
(* Bytes of a set of chunks, as a set of byte positions, so that sums are  *)
(* cardinalities.                                                          *)
BytePositions(S) == {p \in S \X (1 .. MaxChunkBytes) : p[2] <= Size[p[1]]}
Bytes(S) == Cardinality(BytePositions(S))

readAckInfo == unprocessedSeqs \cup processedSeqs

(* readBudget and writeBudget; the limit 0 means unlimited. *)
ReadBudgetCovers(bytes) == ReadLimit = 0 \/ bytes <= ReadLimit - read
WriteBudgetCovers(w, bytes) == WriteLimit = 0 \/ bytes <= WriteLimit - w
MutAnyBudget(w, bytes) == WriteLimit = 0 \/ w < WriteLimit
WriteBudgetExceeds(w, bytes) == WriteLimit = 0 \/ bytes < WriteLimit - w

(* Wake the waiting writer once the budget, with w bytes left outstanding, *)
(* covers what it asked for.                                               *)
MutStaleBudget(w) == writer # 0 /\ WriteBudgetCovers(written, writer)
WriterFits(w) == writer # 0 /\ WriteBudgetCovers(w, writer)

(* Nothing outstanding and no write in limbo: the drain is over. *)
MutDrainedIgnoresLimbo(outstanding, limbo) == outstanding = {}
Drained(outstanding, limbo) == outstanding = {} /\ limbo = 0

(* #clearAckInfo on readAckInfo: what stays to be ACKed. *)
MutNotCleared(acked) == processedSeqs
Unacked(acked) == processedSeqs \ acked

LastOfMessage(s) == s = MaxSeq \/ MessageOf[s + 1] # MessageOf[s]

Init ==
    /\ nextWriteSeq = 1 /\ writeAckInfo = {} /\ written = 0
    /\ writer = 0 /\ inFlight = 0 /\ allWritesAcked = "none"
    /\ calls = 0 /\ task = "idle" /\ returning = 0
    /\ nextReadSeq = 1 /\ unprocessedSeqs = {} /\ processedSeqs = {}
    /\ read = 0 /\ unprocessed = 0 /\ ackableBytes = 0
    /\ ackBatchTimer = "off" /\ callbacks = 0
    /\ readyToAck = FALSE /\ ackSend = FALSE
    /\ dataWire = <<>> /\ ackWire = <<>>
    /\ stopped = {} /\ violations = {}

----------------------------------------------------------------------------
(* The writing end. *)

(* #write: only while the channel is open, that is before allWritesAcked   *)
(* is called and before a disconnect; inFlight(1), and the write waits its *)
(* turn in the write queue.                                                *)
Write ==
    /\ allWritesAcked = "none" /\ "sender" \notin stopped
    /\ MaxSeq # 0 /\ calls < MessageOf[MaxSeq]
    /\ calls' = calls + 1
    /\ inFlight' = inFlight + 1
    /\ UNCHANGED <<nextWriteSeq, writeAckInfo, written, writer, allWritesAcked,
                   task, returning, inVars, ackVars, wireVars, stopped, violations>>

(* sendAChunk up to writable(bytes): go on when the budget exceeds the     *)
(* bytes, wait as the one writer otherwise.                                *)
Writable ==
    /\ task = "idle" /\ inFlight > returning /\ nextWriteSeq <= MaxSeq
    /\ IF WriteBudgetExceeds(written, Reserve[nextWriteSeq])
       THEN task' = "cleared" /\ writer' = writer
       ELSE task' = "waiting" /\ writer' = Reserve[nextWriteSeq]
    /\ UNCHANGED <<nextWriteSeq, writeAckInfo, written, inFlight, allWritesAcked,
                   calls, returning, inVars, ackVars, wireVars, stopped, violations>>

(* transport.sendChunk and sent(bytes); the last chunk ends the task. *)
SendChunk ==
    /\ task = "cleared"
    /\ dataWire' = Append(dataWire, nextWriteSeq)
    /\ nextWriteSeq' = nextWriteSeq + 1
    /\ writeAckInfo' = writeAckInfo \cup {nextWriteSeq}
    /\ written' = written + Size[nextWriteSeq]
    /\ task' = "idle"
    /\ returning' = IF LastOfMessage(nextWriteSeq) THEN returning + 1 ELSE returning
    /\ UNCHANGED <<writer, inFlight, allWritesAcked, calls, inVars, ackVars,
                   ackWire, stopped, violations>>

(* The finally of #write: inFlight(-1), which may end the drain. *)
WriteReturns ==
    /\ returning > 0
    /\ returning' = returning - 1
    /\ inFlight' = IF inFlight > 0 THEN inFlight - 1 ELSE 0
    /\ allWritesAcked' = IF /\ allWritesAcked = "pending" /\ writer = 0
                            /\ Drained(writeAckInfo, inFlight')
                         THEN "resolved" ELSE allWritesAcked
    /\ UNCHANGED <<nextWriteSeq, writeAckInfo, written, writer, calls, task,
                   inVars, ackVars, wireVars, stopped, violations>>

(* allWritesAcked(), called once by close(). *)
AllWritesAcked ==
    /\ allWritesAcked = "none" /\ "sender" \notin stopped
    /\ allWritesAcked' = IF Drained(writeAckInfo, inFlight) THEN "resolved" ELSE "pending"
    /\ UNCHANGED <<nextWriteSeq, writeAckInfo, written, writer, inFlight,
                   writeVars, inVars, ackVars, wireVars, stopped, violations>>

(* clearWriteAckInfo: drop the sequences an ACK covers, report the ones    *)
(* that are not outstanding, then wake the writer or else end the drain.   *)
ReceiveAck ==
    /\ "sender" \notin stopped /\ ackWire # <<>>
    /\ ackWire' = Tail(ackWire)
    /\ LET acked == Head(ackWire)
           premature == {s \in acked : s >= nextWriteSeq}
           cleared == (acked \ premature) \cap writeAckInfo
           duplicate == (acked \ premature) \ writeAckInfo
       IN  /\ writeAckInfo' = writeAckInfo \ cleared
           /\ written' = written - Bytes(cleared)
           /\ violations' = violations
                \cup (IF duplicate # {} THEN {"duplicateAcks"} ELSE {})
                \cup (IF premature # {} THEN {"prematureAcks"} ELSE {})
    /\ IF WriterFits(written')
       THEN /\ writer' = 0 /\ task' = "cleared"
            /\ UNCHANGED allWritesAcked
       ELSE /\ allWritesAcked' = IF /\ allWritesAcked = "pending" /\ writer = 0
                                    /\ Drained(writeAckInfo', inFlight)
                                 THEN "resolved" ELSE allWritesAcked
            /\ UNCHANGED <<writer, task>>
    /\ UNCHANGED <<nextWriteSeq, inFlight, calls, returning, inVars, ackVars,
                   dataWire, stopped>>

----------------------------------------------------------------------------
(* The reading end. *)

(* #scheduleAcks, given the ackable and unprocessed amounts just computed: *)
(* queue the callback and restart the batch timer, unless there is nothing *)
(* to ACK, too much is unprocessed, or a batch is being gathered.          *)
ScheduleAcks(timer, ackable, ackBytes, unproc) ==
    IF \/ ackable = {}
       \/ LowWater # 0 /\ unproc > LowWater
       \/ /\ timer # "off"
          /\ ForceAckBytes = 0 \/ ackBytes < ForceAckBytes
          /\ ForceAckChunks = 0 \/ Cardinality(ackable) < ForceAckChunks
    THEN /\ ackBatchTimer' = timer
         /\ UNCHANGED callbacks
    ELSE /\ ackBatchTimer' = IF Batching /\ "receiver" \notin stopped THEN "running" ELSE "off"
         /\ callbacks' = callbacks + 1

(* received: accept the chunk that is next in order and within the budget. *)
Receive ==
    /\ "receiver" \notin stopped /\ dataWire # <<>>
    /\ dataWire' = Tail(dataWire)
    /\ LET s == Head(dataWire)
       IN  IF s = nextReadSeq /\ ReadBudgetCovers(Size[s])
           THEN /\ unprocessedSeqs' = unprocessedSeqs \cup {s}
                /\ read' = read + Size[s]
                /\ unprocessed' = unprocessed + Size[s]
                /\ nextReadSeq' = nextReadSeq + 1
                /\ UNCHANGED violations
           ELSE /\ violations' = violations \cup
                     {IF s = nextReadSeq THEN "overBudget" ELSE "outOfOrder"}
                /\ UNCHANGED <<unprocessedSeqs, read, unprocessed, nextReadSeq>>
    /\ UNCHANGED <<outVars, writeVars, processedSeqs, ackableBytes, ackBatchTimer,
                   callbacks, ackVars, ackWire, stopped>>

(* markProcessed(s): the application is done with chunk s, in any order. *)
MarkProcessed(s) ==
    /\ s \in unprocessedSeqs
    /\ unprocessedSeqs' = unprocessedSeqs \ {s}
    /\ processedSeqs' = processedSeqs \cup {s}
    /\ ackableBytes' = ackableBytes + Size[s]
    /\ unprocessed' = unprocessed - Size[s]
    /\ ScheduleAcks(ackBatchTimer, processedSeqs', ackableBytes', unprocessed')
    /\ UNCHANGED <<outVars, writeVars, nextReadSeq, read, ackVars, wireVars,
                   stopped, violations>>

MutTimerWithoutRecheck ==
    /\ ackBatchTimer = "running" /\ callbacks = 0
    /\ ackBatchTimer' = "off"
    /\ UNCHANGED <<outVars, writeVars, nextReadSeq, unprocessedSeqs, processedSeqs, read,
                   unprocessed, ackableBytes, callbacks, ackVars, wireVars, stopped, violations>>

(* The batch timer fires, in a turn of the event loop of its own, so with  *)
(* no microtask left: recheck after the batching delay.                    *)
BatchTimerFires ==
    /\ ackBatchTimer = "running" /\ callbacks = 0
    /\ ScheduleAcks("off", processedSeqs, ackableBytes, unprocessed)
    /\ UNCHANGED <<outVars, writeVars, nextReadSeq, unprocessedSeqs, processedSeqs,
                   read, unprocessed, ackableBytes, ackVars, wireVars, stopped, violations>>

(* The ackCallback microtask: #sendAckMessage() queues one ACK task. *)
AckCallback ==
    /\ callbacks > 0
    /\ callbacks' = callbacks - 1
    /\ readyToAck' = TRUE
    /\ UNCHANGED <<outVars, writeVars, nextReadSeq, unprocessedSeqs, processedSeqs,
                   read, unprocessed, ackableBytes, ackBatchTimer, ackSend, wireVars,
                   stopped, violations>>

(* #sendAckMessage(true): the task clears #readyToAck and hands over to    *)
(* the transport, unless the channel is disconnected.                      *)
SendAckNow ==
    /\ readyToAck /\ ~ackSend
    /\ readyToAck' = FALSE
    /\ ackSend' = ("receiver" \notin stopped)
    /\ UNCHANGED <<outVars, writeVars, inVars, wireVars, stopped, violations>>

(* The transport's sendAckMessage, once it has room: getAckInfo, send the  *)
(* ACK and clearReadAckInfo; nothing when nothing is ackable any more.     *)
TransportSendsAck ==
    /\ ackSend
    /\ ackSend' = FALSE
    /\ IF processedSeqs = {}
       THEN UNCHANGED <<processedSeqs, ackableBytes, read, ackBatchTimer, callbacks, ackWire>>
       ELSE LET acked == AckSet(processedSeqs)
            IN  /\ ackWire' = Append(ackWire, acked)
                /\ processedSeqs' = Unacked(acked)
                /\ ackableBytes' = ackableBytes - Bytes(acked)
                /\ read' = read - Bytes(acked)
                /\ ScheduleAcks(ackBatchTimer, processedSeqs', ackableBytes', unprocessed)
    /\ UNCHANGED <<outVars, writeVars, nextReadSeq, unprocessedSeqs, unprocessed,
                   readyToAck, dataWire, stopped, violations>>

----------------------------------------------------------------------------

(* stop({disconnected: true}) at either end: waiters are rejected, a       *)
(* rejected write ends its task, and the timer is cleared but its handle   *)
(* stays.                                                                  *)
StopSender ==
    /\ "sender" \notin stopped
    /\ stopped' = stopped \cup {"sender"}
    /\ writer' = 0
    /\ IF writer # 0
       THEN task' = "idle" /\ returning' = returning + 1
       ELSE UNCHANGED <<task, returning>>
    /\ allWritesAcked' = IF allWritesAcked = "pending" THEN "rejected" ELSE allWritesAcked
    /\ UNCHANGED <<nextWriteSeq, writeAckInfo, written, inFlight, calls,
                   inVars, ackVars, wireVars, violations>>

StopReceiver ==
    /\ "receiver" \notin stopped
    /\ stopped' = stopped \cup {"receiver"}
    /\ ackBatchTimer' = IF ackBatchTimer = "off" THEN "off" ELSE "dead"
    /\ UNCHANGED <<outVars, writeVars, nextReadSeq, unprocessedSeqs, processedSeqs,
                   read, unprocessed, ackableBytes, callbacks, ackVars, wireVars, violations>>

----------------------------------------------------------------------------
SenderStep == \/ Write \/ Writable \/ SendChunk \/ WriteReturns
              \/ AllWritesAcked \/ ReceiveAck
ReceiverStep == \/ Receive \/ (\E s \in Chunks : MarkProcessed(s))
                \/ BatchTimerFires \/ AckCallback \/ SendAckNow \/ TransportSendsAck

(* A disconnect is noticed by either end at any time. *)
Next == SenderStep \/ ReceiverStep \/ StopSender \/ StopReceiver

(* The event loop runs every queued task, microtask and timer, the         *)
(* transport delivers, and the application processes what it was given.    *)
Fairness ==
    /\ WF_vars(Writable) /\ WF_vars(SendChunk) /\ WF_vars(WriteReturns)
    /\ WF_vars(ReceiveAck) /\ WF_vars(Receive)
    /\ \A s \in Chunks : WF_vars(MarkProcessed(s))
    /\ WF_vars(BatchTimerFires) /\ WF_vars(AckCallback)
    /\ WF_vars(SendAckNow) /\ WF_vars(TransportSendsAck)

Spec == Init /\ [][Next]_vars
FairSpec == Spec /\ Fairness

----------------------------------------------------------------------------
TypeOK ==
    /\ nextWriteSeq \in 1 .. MaxSeq + 1
    /\ writeAckInfo \subseteq Chunks
    /\ written \in Nat /\ writer \in Nat
    /\ inFlight \in Nat /\ calls \in Nat /\ returning \in 0 .. inFlight
    /\ allWritesAcked \in {"none", "pending", "resolved", "rejected"}
    /\ task \in {"idle", "waiting", "cleared"}
    /\ nextReadSeq \in 1 .. MaxSeq + 1
    /\ unprocessedSeqs \subseteq Chunks /\ processedSeqs \subseteq Chunks
    /\ read \in Nat /\ unprocessed \in Nat /\ ackableBytes \in Nat
    /\ ackBatchTimer \in {"off", "running", "dead"}
    /\ callbacks \in Nat
    /\ readyToAck \in BOOLEAN /\ ackSend \in BOOLEAN
    /\ dataWire \in Seq(Chunks) /\ ackWire \in Seq(SUBSET Chunks)
    /\ stopped \subseteq {"sender", "receiver"}
    /\ violations \subseteq {"outOfOrder", "overBudget", "duplicateAcks", "prematureAcks"}

(* What the proofs need beside the properties below: where each chunk is.  *)
(* The data wire holds the chunks sent and not received, in order; ...     *)
WireInOrder ==
    /\ nextReadSeq + Len(dataWire) = nextWriteSeq
    /\ \A i \in 1 .. Len(dataWire) : dataWire[i] = nextReadSeq + i - 1
(* ... every outstanding chunk is in exactly one place: on the data wire,  *)
(* unprocessed or processed at the reader, or in one ACK on its way; ...   *)
AcksInTransit == UNION {ackWire[i] : i \in 1 .. Len(ackWire)}
EachChunkInOnePlace ==
    /\ unprocessedSeqs \cap processedSeqs = {}
    /\ \A i \in 1 .. Len(ackWire) :
          /\ ackWire[i] \cap readAckInfo = {}
          /\ \A j \in 1 .. Len(ackWire) : i # j => ackWire[i] \cap ackWire[j] = {}
    /\ readAckInfo \cup AcksInTransit \subseteq 1 .. nextReadSeq - 1
    /\ writeAckInfo = (nextReadSeq .. nextWriteSeq - 1) \cup readAckInfo \cup AcksInTransit
(* ... each byte counter is the sum over the chunks it stands for; ...     *)
CountersMatch ==
    /\ written = Bytes(writeAckInfo)
    /\ read = Bytes(readAckInfo)
    /\ unprocessed = Bytes(unprocessedSeqs)
    /\ ackableBytes = Bytes(processedSeqs)
(* ... and a write past writable() fits, a waiting one waits for its chunk.*)
WriteTaskOK ==
    /\ task = "waiting" <=> writer # 0
    /\ task # "idle" => nextWriteSeq <= MaxSeq /\ returning < inFlight
    /\ writer # 0 => writer = Reserve[nextWriteSeq]
    /\ task = "cleared" => WriteBudgetCovers(written, Reserve[nextWriteSeq])

(* Two honest ends never accuse each other: received() finds every chunk   *)
(* in order and within the budget, and clearWriteAckInfo finds neither a   *)
(* duplicate nor a premature ACK, whatever order chunks are processed in   *)
(* and however ACKs are batched.  (A report closes the channel.)           *)
NoViolation == violations = {}

(* The writer never has more outstanding than the limit it was granted.    *)
WithinWriteLimit == WriteLimit = 0 \/ written <= WriteLimit

(* All of it together, which is inductive. *)
IInv ==
    TypeOK /\ WireInOrder /\ EachChunkInOnePlace /\ CountersMatch /\ WriteTaskOK
           /\ WithinWriteLimit /\ NoViolation

(* No ACK is forgotten: as long as something is ackable and the low-water  *)
(* mark does not hold it back, a timer, a microtask, a queued ACK task or  *)
(* an ACK being sent will get to it.  (#scheduleAcks returns early in      *)
(* three cases and is the only place that starts any of these.)            *)
AckIsComing ==
    (/\ processedSeqs # {} /\ "receiver" \notin stopped
     /\ LowWater = 0 \/ unprocessed <= LowWater)
    => ackBatchTimer = "running" \/ callbacks > 0 \/ readyToAck \/ ackSend

(* When close() is told that all writes are ACKed, they are: nothing is    *)
(* outstanding, no write is in limbo between its chunks, none returns late.*)
DrainedMeansEmpty ==
    allWritesAcked = "resolved" => writeAckInfo = {} /\ inFlight = 0 /\ writer = 0

(* No lost wakeup: a waiting writer waits for ACKs that are outstanding,   *)
(* and would not fit now (or exactly fits, which writable() also refuses). *)
WaiterIsNeeded ==
    writer # 0 /\ "sender" \notin stopped =>
        writeAckInfo # {} /\ ~WriteBudgetExceeds(written, writer)

(* An ACK is final: a chunk whose ACK the writer has taken is never        *)
(* outstanding again, nor held at the reader, nor in a second ACK.         *)
AckedStaysAcked ==
    [][\A s \in Chunks : (s < nextWriteSeq /\ s \notin writeAckInfo)
         => s \notin writeAckInfo' \cup readAckInfo' \cup AcksInTransit']_vars

(* Every #write returns, every chunk sent is ACKed, and close() does not   *)
(* wait for ever on allWritesAcked, unless the connection is lost.  (A     *)
(* write that calls writable() after stop() has rejected who waited then   *)
(* waits for good; a drain waits if only the other end has gone.)          *)
EverythingSettles ==
    /\ inFlight > 0 ~> inFlight = 0 \/ stopped # {}
    /\ \A s \in Chunks : s \in writeAckInfo ~> s \notin writeAckInfo \/ stopped # {}
    /\ allWritesAcked = "pending" ~> allWritesAcked # "pending" \/ "receiver" \in stopped
============================================================================
