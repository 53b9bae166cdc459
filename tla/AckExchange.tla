---------------------------- MODULE AckExchange ----------------------------
(***************************************************************************)
(* The use the two ends of a channel make of AckRanges: the reading end    *)
(* turns what is processed into ACK messages (#sendAckMessage of the       *)
(* transports), and both ends clear what each message covers               *)
(* (clearReadAckInfo, clearWriteAckInfo).                                  *)
(***************************************************************************)
EXTENDS AckRanges

CONSTANT Seqs    \* window of sequence numbers, 1 .. n

ASSUME SeqsAssumption == Seqs = 1 .. Cardinality(Seqs)

VARIABLES
    unprocessed,   \* readAckInfo entries still to be processed
    processed,     \* readAckInfo entries to ACK
    writeAckInfo,  \* sequences the writer has outstanding
    ackWire,       \* the ACK message on its way, if any
    faults         \* "duplicate" and "premature" counts that were not 0

vars == <<unprocessed, processed, writeAckInfo, ackWire, faults>>

nextSeq == Cardinality(Seqs) + 1

(* Every window the two ends can have reached: each sequence is already    *)
(* ACKed, or received and unprocessed, or processed.                       *)
Init ==
    /\ processed \in SUBSET Seqs
    /\ unprocessed \in SUBSET (Seqs \ processed)
    /\ writeAckInfo = processed \cup unprocessed
    /\ ackWire = <<>> /\ faults = {}

Faults(covered, info) ==
    (IF \E s \in covered : s < nextSeq /\ s \notin info THEN {"duplicate"} ELSE {})
    \cup (IF \E s \in covered : s >= nextSeq THEN {"premature"} ELSE {})

(* The transport's #sendAckMessage: getAckInfo, send, clearReadAckInfo.    *)
SendAck ==
    /\ processed # {} /\ ackWire = <<>>
    /\ LET ack == GetAckInfo(processed)
           covered == Covered(ack.base, ack.ranges)
       IN  /\ ackWire' = <<ack>>
           /\ processed' = processed \ covered
           /\ unprocessed' = unprocessed \ covered
           /\ faults' = faults \cup Faults(covered, processed \cup unprocessed)
    /\ UNCHANGED writeAckInfo

(* clearWriteAckInfo on what arrives. *)
ReceiveAck ==
    /\ ackWire # <<>>
    /\ ackWire' = <<>>
    /\ LET ack == Transmitted(Head(ackWire))
           covered == Covered(ack.base, ack.ranges)
       IN  /\ writeAckInfo' = writeAckInfo \ covered
           /\ faults' = faults \cup Faults(covered, writeAckInfo)
    /\ UNCHANGED <<unprocessed, processed>>

Next == SendAck \/ ReceiveAck
Spec == Init /\ [][Next]_vars

----------------------------------------------------------------------------
(* Types; in particular every ACK message fits its header: at most         *)
(* MaxRanges counts of one byte, none or an odd number (last an include).  *)
TypeOK ==
    /\ \A S \in {unprocessed, processed, writeAckInfo} : S \subseteq Seqs
    /\ Len(ackWire) <= 1
    /\ \A ack \in Range(ackWire) :
          /\ ack.base \in Seqs
          /\ ack.ranges \in Seq(0 .. MaxCount) /\ Len(ack.ranges) <= MaxRanges
          /\ Len(ack.ranges) = 0 \/ Len(ack.ranges) % 2 = 1
    /\ faults \subseteq {"duplicate", "premature"}

(* Whatever the gaps, the ends take from an ACK what was put in: no        *)
(* unprocessed sequence is ever ACKed, none is ACKed twice, and writer and *)
(* reader agree on what is left once the message has arrived; and the      *)
(* message always fits its header.                                         *)
EncodingExact ==
    /\ TypeOK
    /\ faults = {}
    /\ ackWire = <<>> => writeAckInfo = unprocessed \cup processed

(* A message that runs out of ranges says it is incomplete, but still      *)
(* ACKs some sequences, the earliest first, so the rest will get its turn; *)
(* one that says it is complete leaves nothing behind.                     *)
EarliestFirst ==
    [][Len(ackWire') > Len(ackWire) =>
        /\ processed' # processed
        /\ \A s \in processed \ processed', t \in processed' : s < t
        /\ Head(ackWire').complete <=> processed' = {}]_vars
============================================================================
