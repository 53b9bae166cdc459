--------------------------- MODULE DechunkedRead ---------------------------
(***************************************************************************)
(* Reading whole messages, the default of Channel.read(): chunks gather    *)
(* (#receiveDataMessage, src/channel.esm.js) until the last chunk of a     *)
(* message is there; then read() returns the message, and its done() marks *)
(* all its chunks processed.  Flow control meanwhile counts the chunks of  *)
(* the incomplete message against the writer's budget and the low-water    *)
(* mark (#scheduleAcks, src/channel-flow-control.esm.js).                  *)
(*                                                                         *)
(* Chunks are one unit of budget and are sent, received, processed and     *)
(* ACKed in order, so each stage is the number of chunks that passed it.   *)
(***************************************************************************)
EXTENDS Integers, Sequences, FiniteSets, SequencesExt

CONSTANTS
    MaxMessages,   \* bound: messages written
    MaxLength,     \* chunks of the longest message
    Limit,         \* readLimit = writeLimit, in chunks
    LowWater,      \* lowWaterBytes, in chunks (0 = no low-water mark)
    Batching       \* ackBatchTime # 0

ASSUME BoundsAssumption == MaxMessages \in Nat /\ MaxLength \in Nat \ {0}
ASSUME LimitAssumption == Limit \in Nat \ {0} /\ LowWater \in Nat
ASSUME BatchingAssumption == Batching \in BOOLEAN

VARIABLES
    messages,   \* chunks of each message written, in order
    sent,       \* chunks sent
    writer,     \* "none", "waiting" in writable(), or "cleared" by it
    received,   \* chunks received
    readCount,  \* messages read() has returned
    processed,  \* chunks marked processed
    acked,      \* chunks covered by ACKs sent
    clearedUpTo,\* chunks covered by ACKs the writer has received
    ackDue,     \* an ACK callback is queued, or its ACK task
    ackBatchTimer

vars == <<messages, sent, writer, received, readCount, processed, acked,
          clearedUpTo, ackDue, ackBatchTimer>>

ChunksUpTo(i) == FoldLeft(+, 0, SubSeq(messages, 1, i))
Total == ChunksUpTo(Len(messages))
unprocessed == received - processed
outstanding == sent - clearedUpTo
Fits == Limit - outstanding > 1

Init ==
    /\ messages \in UNION {[1 .. n -> 1 .. MaxLength] : n \in 1 .. MaxMessages}
    /\ sent = 0 /\ writer = "none" /\ received = 0 /\ readCount = 0
    /\ processed = 0 /\ acked = 0 /\ clearedUpTo = 0
    /\ ackDue = FALSE /\ ackBatchTimer = FALSE

----------------------------------------------------------------------------
(* sendAChunk: wait in writable() unless the budget exceeds the chunk, ... *)
Wait ==
    /\ writer = "none" /\ sent < Total /\ ~Fits
    /\ writer' = "waiting"
    /\ UNCHANGED <<messages, sent, received, readCount, processed, acked, clearedUpTo,
                   ackDue, ackBatchTimer>>

(* ... and send it. *)
SendChunk ==
    /\ \/ writer = "cleared"
       \/ writer = "none" /\ sent < Total /\ Fits
    /\ writer' = "none"
    /\ sent' = sent + 1
    /\ UNCHANGED <<messages, received, readCount, processed, acked, clearedUpTo,
                   ackDue, ackBatchTimer>>

(* clearWriteAckInfo *)
ReceiveAck ==
    /\ clearedUpTo < acked
    /\ clearedUpTo' = acked
    /\ writer' = IF writer = "waiting" /\ Limit - (sent - acked) >= 1 THEN "cleared" ELSE writer
    /\ UNCHANGED <<messages, sent, received, readCount, processed, acked, ackDue, ackBatchTimer>>

(* #receiveDataMessage *)
Receive ==
    /\ received < sent
    /\ received' = received + 1
    /\ UNCHANGED <<messages, sent, writer, readCount, processed, acked, clearedUpTo,
                   ackDue, ackBatchTimer>>

(* read(): the next message, once its last chunk is there. *)
MessageComplete == readCount < Len(messages) /\ received >= ChunksUpTo(readCount + 1)
Read ==
    /\ processed = ChunksUpTo(readCount)
    /\ MessageComplete
    /\ readCount' = readCount + 1
    /\ UNCHANGED <<messages, sent, writer, received, processed, acked, clearedUpTo,
                   ackDue, ackBatchTimer>>

(* #scheduleAcks *)
MutLowWaterExclusive(unproc) == LowWater # 0 /\ unproc >= LowWater
AboveLowWater(unproc) == LowWater # 0 /\ unproc > LowWater
ScheduleAcks(timer, ackable, unproc) ==
    IF ackable = 0 \/ AboveLowWater(unproc) \/ timer
    THEN ackBatchTimer' = timer /\ UNCHANGED ackDue
    ELSE ackBatchTimer' = Batching /\ ackDue' = TRUE

(* The message's done() marks its chunks processed one by one. *)
Done ==
    /\ processed < ChunksUpTo(readCount)
    /\ processed' = processed + 1
    /\ ScheduleAcks(ackBatchTimer, processed' - acked, received - processed')
    /\ UNCHANGED <<messages, sent, writer, received, readCount, acked, clearedUpTo>>

(* The batch timer's recheck. *)
BatchTimerFires ==
    /\ ackBatchTimer /\ ~ackDue
    /\ ScheduleAcks(FALSE, processed - acked, unprocessed)
    /\ UNCHANGED <<messages, sent, writer, received, readCount, processed, acked, clearedUpTo>>

(* sendAckMessage: ACK all that is processed. *)
SendAck ==
    /\ ackDue
    /\ ackDue' = FALSE
    /\ acked' = processed
    /\ UNCHANGED <<messages, sent, writer, received, readCount, processed, clearedUpTo,
                   ackBatchTimer>>

Next == \/ Wait \/ SendChunk \/ ReceiveAck
        \/ Receive \/ Read \/ Done \/ BatchTimerFires \/ SendAck

(* Tasks, timers and the transport go on, and the application reads one    *)
(* message after the other and is done with each.                          *)
Fairness ==
    /\ WF_vars(Wait) /\ WF_vars(SendChunk) /\ WF_vars(ReceiveAck) /\ WF_vars(Receive)
    /\ WF_vars(Read) /\ WF_vars(Done) /\ WF_vars(BatchTimerFires) /\ WF_vars(SendAck)

Spec == Init /\ [][Next]_vars /\ Fairness

----------------------------------------------------------------------------
(* "By default, `channel.read()` reassembles chunks into complete messages *)
(* automatically": every message written is read, however the chunks of    *)
(* several messages share the budget.                                      *)
EveryMessageRead == <>(readCount = Len(messages))
============================================================================
