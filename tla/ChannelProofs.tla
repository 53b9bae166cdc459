----------------------------- MODULE ChannelProofs -----------------------------
(***************************************************************************)
(* What a channel owes to its queues and lists.  Of Duplex, for every      *)
(* limit, any messages and either way of writing them: whatever order the  *)
(* tasks of the two write queues run in, no chunk and no ACK of a channel  *)
(* is lost from the accounts of its two ends.  Of ControlMessages (from    *)
(* Control on), for any control messages of any number of chunks: each is  *)
(* handled as it was sent, while no chunk arrives during a handler.        *)
(***************************************************************************)
EXTENDS Duplex, TLAPS

(* A write task that is not done has a chunk left. *)
InWriteTask == {"chunk", "ackFirst", "writable", "waiting", "send"}
TaskHasChunk == \A e \in Ends : step[e] \in InWriteTask => remaining[e] > 0

IInv == EveryChunkAccounted /\ TaskHasChunk

(* There are two ends. *)
LEMMA PeerFacts ==
    \A e \in Ends : Peer(e) \in Ends /\ Peer(e) # e /\ Peer(Peer(e)) = e /\ \A o \in Ends : o = e \/ o = Peer(e)
<1>1. Peer("a") = "b"
  BY DEF Ends, Peer
<1>2. Peer("b") = "a"
  BY DEF Ends, Peer
<1> QED
  BY <1>1, <1>2 DEF Ends

(* Adding a task to a queue leaves those that are in it. *)
LEMMA AppendKeeps ==
    ASSUME NEW q \in Seq(Nat), NEW t \in Nat
    PROVE  /\ Append(q, t) \in Seq(Nat)
           /\ Contains(q, AckTask) => Contains(Append(q, t), AckTask)
           /\ t = AckTask => Contains(Append(q, t), AckTask)
<1>1. Append(q, t) \in Seq(Nat) /\ Len(Append(q, t)) = Len(q) + 1 /\ Append(q, t)[Len(q) + 1] = t
  OBVIOUS
<1>2. \A i \in 1 .. Len(q) : Append(q, t)[i] = q[i]
  OBVIOUS
<1> QED
  BY <1>1, <1>2 DEF Contains

(* Taking the first task leaves the others. *)
LEMMA TailKeeps ==
    ASSUME NEW q \in Seq(Nat), q # <<>>
    PROVE  /\ Tail(q) \in Seq(Nat) /\ Head(q) \in Nat
           /\ Contains(q, AckTask) /\ Head(q) # AckTask => Contains(Tail(q), AckTask)
<1>1. Tail(q) \in Seq(Nat) /\ Head(q) = q[1] /\ Head(q) \in Nat /\ Len(Tail(q)) = Len(q) - 1
  OBVIOUS
<1>2. ASSUME NEW i \in 1 .. Len(q), q[i] = AckTask, q[1] # AckTask
      PROVE  i - 1 \in 1 .. Len(Tail(q)) /\ Tail(q)[i - 1] = AckTask
  BY <1>1, <1>2
<1> QED
  BY <1>1, <1>2 DEF Contains

(* A channel without writes is in balance. *)
LEMMA InvInit == Init => IInv
BY PeerFacts, WritesAssumption DEF Init, IInv, EveryChunkAccounted, TypeOK, Balanced, AckUnderWay, AckTaskQueued,
   TaskHasChunk, InWriteTask, Contains

----------------------------------------------------------------------------
(* Every action keeps the invariant.                                       *)

LEMMA NatFacts ==
    ASSUME TypeOK
    PROVE  \A e \in Ends :
              /\ remaining[e] \in Nat /\ outstanding[e] \in Nat /\ dataWire[e] \in Nat
              /\ ackWire[e] \in Nat /\ unprocessed[e] \in Nat /\ ackable[e] \in Nat
BY DEF TypeOK

LEMMA WriteKeeps == ASSUME IInv, NEW e \in Ends, Write(e) PROVE IInv'
<1>a. TypeOK /\ TaskHasChunk /\ \A o \in Ends : Balanced(o) /\ AckUnderWay(o) /\ AckTaskQueued(o)
  BY DEF IInv, EveryChunkAccounted
<1>b. /\ written \in [Ends -> Nat] /\ \A o \in Ends : written[o] <= Len(Writes[o])
      /\ writeQueue \in [Ends -> Seq(Nat)]
  BY <1>a DEF TypeOK
<1>1. Writes[e] \in Seq(Nat \ {0}) /\ written[e] \in Nat /\ written[e] < Len(Writes[e]) /\ Len(Writes[e]) \in Nat
  BY <1>b, WritesAssumption DEF Write
<1>2. written[e] + 1 \in 1 .. Len(Writes[e]) /\ Writes[e][written[e] + 1] \in Nat
  BY <1>1
<1>3. written' = [written EXCEPT ![e] = written[e] + 1]
  BY DEF Write
<1>4. \A o \in Ends : writeQueue'[o] = IF o = e THEN Append(writeQueue[o], Writes[e][written[e] + 1]) ELSE writeQueue[o]
  BY <1>b, <1>3 DEF Write
<1>5. TypeOK'
  <2>1. written' \in [Ends -> Nat]
    BY <1>b, <1>1, <1>3
  <2>2. \A o \in Ends : written'[o] <= Len(Writes[o])
    BY <1>b, <1>1, <1>3
  <2>3. writeQueue' \in [Ends -> Seq(Nat)]
    BY <1>b, <1>2, <1>3, AppendKeeps DEF Write
  <2> QED
    BY <1>a, <2>1, <2>2, <2>3 DEF Write, readVars, TypeOK
<1>6. \A o \in Ends : Balanced(o)' /\ AckUnderWay(o)'
  BY <1>a DEF Write, readVars, Balanced, AckUnderWay
<1>7. \A o \in Ends : AckTaskQueued(o)'
  <2> TAKE o \in Ends
  <2>1. AckTaskQueued(o) /\ writeQueue[o] \in Seq(Nat) /\ readyToAck' = readyToAck
    BY <1>a, <1>b DEF Write
  <2> QED
    BY <1>2, <2>1, <1>4, AppendKeeps DEF AckTaskQueued
<1>8. TaskHasChunk'
  BY <1>a DEF Write, TaskHasChunk
<1> QED
  BY <1>5, <1>6, <1>7, <1>8 DEF IInv, EveryChunkAccounted

LEMMA StartTaskKeeps == ASSUME IInv, NEW e \in Ends, StartTask(e) PROVE IInv'
<1> USE DEF IInv, EveryChunkAccounted, TypeOK
<1>1. Tail(writeQueue[e]) \in Seq(Nat) /\ Head(writeQueue[e]) \in Nat
  BY TailKeeps DEF StartTask
<1>2. TypeOK'
  BY <1>1 DEF StartTask, readVars
<1>3. \A o \in Ends : Balanced(o)'
  BY DEF StartTask, readVars, Balanced
<1>4. \A o \in Ends : AckUnderWay(o)'
  BY DEF StartTask, readVars, AckUnderWay
<1>5. \A o \in Ends : AckTaskQueued(o)'
  BY TailKeeps DEF StartTask, AckTaskQueued
<1>6. TaskHasChunk'
  <2>1. CASE Head(writeQueue[e]) = AckTask
    BY <2>1 DEF StartTask, TaskHasChunk, InWriteTask
  <2>2. CASE Head(writeQueue[e]) # AckTask
    <3>1. step' = [step EXCEPT ![e] = "chunk"] /\ remaining' = [remaining EXCEPT ![e] = Head(writeQueue[e])]
      BY <2>2 DEF StartTask
    <3>2. Head(writeQueue[e]) > 0
      BY <1>1, <2>2 DEF AckTask
    <3> QED
      BY <3>1, <3>2 DEF TaskHasChunk, InWriteTask
  <2> QED
    BY <2>1, <2>2
<1> QED
  BY <1>2, <1>3, <1>4, <1>5, <1>6

LEMMA AckFirstKeeps == ASSUME IInv, NEW e \in Ends, AckFirst(e) PROVE IInv'
<1> USE DEF IInv, EveryChunkAccounted, TypeOK, AckFirst, readVars
<1>1. TypeOK'
  OBVIOUS
<1>2. \A o \in Ends : Balanced(o)' /\ AckUnderWay(o)' /\ AckTaskQueued(o)'
  BY DEF Balanced, AckUnderWay, AckTaskQueued
<1>3. TaskHasChunk'
  BY DEF TaskHasChunk, InWriteTask
<1> QED
  BY <1>1, <1>2, <1>3

LEMMA SendAckKeeps == ASSUME IInv, NEW e \in Ends, SendAck(e) PROVE IInv'
<1>a. TypeOK /\ TaskHasChunk /\ \A o \in Ends : Balanced(o) /\ AckUnderWay(o) /\ AckTaskQueued(o)
  BY DEF IInv, EveryChunkAccounted
<1>1. Peer(e) \in Ends /\ ackWire[Peer(e)] + ackable[e] \in Nat
  BY <1>a, PeerFacts, NatFacts
<1>2. TypeOK'
  BY <1>a, <1>1 DEF SendAck, TypeOK
<1>3. \A o \in Ends : Balanced(o)'
  <2> TAKE o \in Ends
  <2>1. Balanced(o)
    BY <1>a
  <2>2. ackWire'[o] = IF o = Peer(e) THEN ackWire[o] + ackable[e] ELSE ackWire[o]
    BY <1>a DEF SendAck, TypeOK
  <2>3. ackable'[Peer(o)] = IF Peer(o) = e THEN 0 ELSE ackable[Peer(o)]
    BY <1>a, PeerFacts DEF SendAck, TypeOK
  <2> QED
    BY <1>a, <2>1, <2>2, <2>3, NatFacts, PeerFacts DEF Balanced, SendAck
<1>4. \A o \in Ends : AckUnderWay(o)' /\ AckTaskQueued(o)'
  BY <1>a DEF SendAck, AckUnderWay, AckTaskQueued, TypeOK
<1>5. TaskHasChunk'
  BY <1>a DEF SendAck, TaskHasChunk, InWriteTask, TypeOK
<1> QED
  BY <1>2, <1>3, <1>4, <1>5 DEF IInv, EveryChunkAccounted

LEMMA WritableKeeps == ASSUME IInv, NEW e \in Ends, Writable(e) PROVE IInv'
<1> USE DEF IInv, EveryChunkAccounted, TypeOK, Writable, readVars
<1>1. TypeOK'
  OBVIOUS
<1>2. \A o \in Ends : Balanced(o)' /\ AckUnderWay(o)' /\ AckTaskQueued(o)'
  BY DEF Balanced, AckUnderWay, AckTaskQueued
<1>3. TaskHasChunk'
  BY DEF TaskHasChunk, InWriteTask
<1> QED
  BY <1>1, <1>2, <1>3

LEMMA SendChunkKeeps == ASSUME IInv, NEW e \in Ends, SendChunk(e) PROVE IInv'
<1>a. TypeOK /\ TaskHasChunk /\ \A o \in Ends : Balanced(o) /\ AckUnderWay(o) /\ AckTaskQueued(o)
  BY DEF IInv, EveryChunkAccounted
<1>0. /\ Peer(e) \in Ends /\ unprocessed' = unprocessed /\ ackable' = ackable /\ ackWire' = ackWire
      /\ outstanding' = [outstanding EXCEPT ![e] = @ + 1] /\ dataWire' = [dataWire EXCEPT ![Peer(e)] = @ + 1]
  BY PeerFacts DEF SendChunk, readVars
<1>1. remaining[e] - 1 \in Nat /\ remaining'[e] = remaining[e] - 1
  BY <1>a, NatFacts DEF SendChunk, TaskHasChunk, InWriteTask, TypeOK
<1>2. writeQueue' = [writeQueue EXCEPT ![e] = writeQueue'[e]] /\ writeQueue'[e] \in Seq(Nat)
      /\ (Contains(writeQueue[e], AckTask) => Contains(writeQueue'[e], AckTask))
  BY <1>a, <1>1, AppendKeeps DEF SendChunk, TypeOK
<1>3. TypeOK'
  <2>1. dataWire' \in [Ends -> Nat]
    <3>1. dataWire \in [Ends -> Nat]
      BY <1>a DEF TypeOK
    <3>2. dataWire[Peer(e)] + 1 \in Nat
      BY <1>0, <3>1
    <3>3. dataWire' = [dataWire EXCEPT ![Peer(e)] = dataWire[Peer(e)] + 1]
      BY <1>0
    <3> QED
      BY <3>1, <3>2, <3>3
  <2>2. step' \in [Ends -> {"idle", "ack", "chunk", "ackFirst", "writable", "waiting", "send"}]
    BY <1>a DEF SendChunk, TypeOK
  <2>3. remaining' \in [Ends -> Nat]
    <3>1. remaining' = [remaining EXCEPT ![e] = remaining'[e]] /\ remaining \in [Ends -> Nat]
      BY <1>a DEF SendChunk, TypeOK
    <3>2. remaining'[e] \in Nat
      BY <1>1
    <3> QED
      BY <3>1, <3>2
  <2>4. outstanding' \in [Ends -> Nat]
    <3>1. outstanding \in [Ends -> Nat] /\ outstanding[e] + 1 \in Nat
      BY <1>a DEF TypeOK
    <3> QED
      BY <3>1, <1>0
  <2>5. writeQueue' \in [Ends -> Seq(Nat)]
    <3>1. writeQueue \in [Ends -> Seq(Nat)]
      BY <1>a DEF TypeOK
    <3> QED
      BY <3>1, <1>2
  <2>6. written' = written /\ ackDue' = ackDue /\ readyToAck' = readyToAck
    BY DEF SendChunk, readVars
  <2> QED
    BY <1>a, <1>0, <2>1, <2>2, <2>3, <2>4, <2>5, <2>6 DEF TypeOK
<1>4. \A o \in Ends : Balanced(o)'
  <2> TAKE o \in Ends
  <2>1. Balanced(o)
    BY <1>a
  <2>2. outstanding'[o] = IF o = e THEN outstanding[o] + 1 ELSE outstanding[o]
    BY <1>0, <1>a DEF TypeOK
  <2>3. dataWire'[Peer(o)] = IF o = e THEN dataWire[Peer(o)] + 1 ELSE dataWire[Peer(o)]
    BY <1>0, <1>a, PeerFacts DEF TypeOK
  <2> QED
    <3>1. /\ Peer(o) \in Ends /\ outstanding[o] \in Nat /\ dataWire[Peer(o)] \in Nat
          /\ unprocessed[Peer(o)] \in Nat /\ ackable[Peer(o)] \in Nat /\ ackWire[o] \in Nat
      BY <1>a, NatFacts, PeerFacts
    <3>2. unprocessed' = unprocessed /\ ackable' = ackable /\ ackWire' = ackWire
      BY <1>0
    <3> QED
      BY <2>1, <2>2, <2>3, <3>1, <3>2 DEF Balanced
<1>5. \A o \in Ends : AckUnderWay(o)'
  BY <1>a DEF SendChunk, readVars, AckUnderWay, TypeOK
<1>6. \A o \in Ends : AckTaskQueued(o)'
  BY <1>a, <1>2 DEF SendChunk, AckTaskQueued, TypeOK
<1>7. TaskHasChunk'
  BY <1>a, <1>1 DEF SendChunk, TaskHasChunk, InWriteTask, TypeOK
<1> QED
  BY <1>3, <1>4, <1>5, <1>6, <1>7 DEF IInv, EveryChunkAccounted

LEMMA ReceiveAckKeeps == ASSUME IInv, NEW e \in Ends, ReceiveAck(e) PROVE IInv'
<1>a. TypeOK /\ TaskHasChunk /\ \A o \in Ends : Balanced(o) /\ AckUnderWay(o) /\ AckTaskQueued(o)
  BY DEF IInv, EveryChunkAccounted
<1>1. outstanding[e] - ackWire[e] \in Nat
  BY <1>a, PeerFacts, NatFacts DEF Balanced
<1>2. TypeOK'
  BY <1>a, <1>1 DEF ReceiveAck, readVars, TypeOK
<1>3. \A o \in Ends : Balanced(o)'
  <2> TAKE o \in Ends
  <2>1. Balanced(o)
    BY <1>a
  <2>2. outstanding'[o] = IF o = e THEN outstanding[o] - ackWire[o] ELSE outstanding[o]
    BY <1>a DEF ReceiveAck, TypeOK
  <2>3. ackWire'[o] = IF o = e THEN 0 ELSE ackWire[o]
    BY <1>a DEF ReceiveAck, TypeOK
  <2> QED
    BY <1>a, <2>1, <2>2, <2>3, NatFacts, PeerFacts DEF Balanced, ReceiveAck, readVars
<1>4. \A o \in Ends : AckUnderWay(o)' /\ AckTaskQueued(o)'
  BY <1>a DEF ReceiveAck, readVars, AckUnderWay, AckTaskQueued, TypeOK
<1>5. TaskHasChunk'
  BY <1>a DEF ReceiveAck, TaskHasChunk, InWriteTask, TypeOK
<1> QED
  BY <1>2, <1>3, <1>4, <1>5 DEF IInv, EveryChunkAccounted

LEMMA ReceiveKeeps == ASSUME IInv, NEW e \in Ends, Receive(e) PROVE IInv'
<1>a. TypeOK /\ TaskHasChunk /\ \A o \in Ends : Balanced(o) /\ AckUnderWay(o) /\ AckTaskQueued(o)
  BY DEF IInv, EveryChunkAccounted
<1>b. dataWire \in [Ends -> Nat] /\ unprocessed \in [Ends -> Nat]
  BY <1>a DEF TypeOK
<1>0. /\ dataWire' = [dataWire EXCEPT ![e] = @ - 1] /\ unprocessed' = [unprocessed EXCEPT ![e] = @ + 1]
      /\ dataWire[e] > 0 /\ UNCHANGED <<outstanding, ackable, ackWire>>
  BY DEF Receive, sendVars
<1>1. TypeOK'
  <2>1. dataWire[e] - 1 \in Nat /\ unprocessed[e] + 1 \in Nat
    BY <1>b, <1>0
  <2>2. dataWire' \in [Ends -> Nat] /\ unprocessed' \in [Ends -> Nat]
    BY <1>b, <1>0, <2>1
  <2> QED
    BY <1>a, <2>2 DEF Receive, sendVars, TypeOK
<1>2. \A o \in Ends : Balanced(o)'
  <2> TAKE o \in Ends
  <2>1. Balanced(o) /\ Peer(o) \in Ends
    BY <1>a, PeerFacts
  <2>2. dataWire'[Peer(o)] = IF Peer(o) = e THEN dataWire[Peer(o)] - 1 ELSE dataWire[Peer(o)]
    BY <1>b, <1>0, <2>1
  <2>3. unprocessed'[Peer(o)] = IF Peer(o) = e THEN unprocessed[Peer(o)] + 1 ELSE unprocessed[Peer(o)]
    BY <1>b, <1>0, <2>1
  <2>4. /\ outstanding[o] \in Nat /\ dataWire[Peer(o)] \in Nat
        /\ unprocessed[Peer(o)] \in Nat /\ ackable[Peer(o)] \in Nat /\ ackWire[o] \in Nat
    BY <1>a, <2>1, NatFacts
  <2> QED
    BY <1>0, <2>1, <2>2, <2>3, <2>4 DEF Balanced
<1>3. \A o \in Ends : AckUnderWay(o)' /\ AckTaskQueued(o)'
  BY <1>a DEF Receive, sendVars, AckUnderWay, AckTaskQueued
<1>4. TaskHasChunk'
  BY <1>a DEF Receive, sendVars, TaskHasChunk
<1> QED
  BY <1>1, <1>2, <1>3, <1>4 DEF IInv, EveryChunkAccounted

LEMMA MarkProcessedKeeps == ASSUME IInv, NEW e \in Ends, MarkProcessed(e) PROVE IInv'
<1>a. TypeOK /\ TaskHasChunk /\ \A o \in Ends : Balanced(o) /\ AckUnderWay(o) /\ AckTaskQueued(o)
  BY DEF IInv, EveryChunkAccounted
<1>b. unprocessed \in [Ends -> Nat] /\ ackable \in [Ends -> Nat] /\ ackDue \in [Ends -> BOOLEAN]
  BY <1>a DEF TypeOK
<1>0. /\ unprocessed' = [unprocessed EXCEPT ![e] = @ - 1] /\ ackable' = [ackable EXCEPT ![e] = @ + 1]
      /\ ackDue' = [ackDue EXCEPT ![e] = TRUE]
      /\ unprocessed[e] > 0 /\ UNCHANGED <<outstanding, dataWire, ackWire, readyToAck, step>>
  BY DEF MarkProcessed, sendVars
<1>1. TypeOK'
  <2>1. unprocessed[e] - 1 \in Nat /\ ackable[e] + 1 \in Nat
    BY <1>b, <1>0
  <2>2. unprocessed' \in [Ends -> Nat] /\ ackable' \in [Ends -> Nat] /\ ackDue' \in [Ends -> BOOLEAN]
    BY <1>b, <1>0, <2>1
  <2> QED
    BY <1>a, <2>2 DEF MarkProcessed, sendVars, TypeOK
<1>2. \A o \in Ends : Balanced(o)'
  <2> TAKE o \in Ends
  <2>1. Balanced(o) /\ Peer(o) \in Ends
    BY <1>a, PeerFacts
  <2>2. unprocessed'[Peer(o)] = IF Peer(o) = e THEN unprocessed[Peer(o)] - 1 ELSE unprocessed[Peer(o)]
    BY <1>b, <1>0, <2>1
  <2>3. ackable'[Peer(o)] = IF Peer(o) = e THEN ackable[Peer(o)] + 1 ELSE ackable[Peer(o)]
    BY <1>b, <1>0, <2>1
  <2>4. /\ outstanding[o] \in Nat /\ dataWire[Peer(o)] \in Nat
        /\ unprocessed[Peer(o)] \in Nat /\ ackable[Peer(o)] \in Nat /\ ackWire[o] \in Nat
    BY <1>a, <2>1, NatFacts
  <2> QED
    BY <1>0, <2>1, <2>2, <2>3, <2>4 DEF Balanced
<1>3. \A o \in Ends : AckUnderWay(o)'
  <2> TAKE o \in Ends
  <2>1. AckUnderWay(o) /\ ackDue'[o] = IF o = e THEN TRUE ELSE ackDue[o]
    BY <1>a, <1>b, <1>0
  <2>2. o # e => ackable'[o] = ackable[o]
    BY <1>b, <1>0
  <2> QED
    BY <1>0, <2>1, <2>2 DEF AckUnderWay
<1>4. TaskHasChunk' /\ \A o \in Ends : AckTaskQueued(o)'
  BY <1>a DEF MarkProcessed, sendVars, TaskHasChunk, AckTaskQueued
<1> QED
  BY <1>1, <1>2, <1>3, <1>4 DEF IInv, EveryChunkAccounted

LEMMA AckCallbackKeeps == ASSUME IInv, NEW e \in Ends, AckCallback(e) PROVE IInv'
<1> USE DEF IInv, EveryChunkAccounted, TypeOK, AckCallback
<1>1. TypeOK' /\ TaskHasChunk'
  BY AppendKeeps DEF AckTask, TaskHasChunk
<1>2. \A o \in Ends : Balanced(o)' /\ AckUnderWay(o)'
  BY DEF Balanced, AckUnderWay
<1>3. \A o \in Ends : AckTaskQueued(o)'
  BY AppendKeeps DEF AckTaskQueued, AckTask
<1> QED
  BY <1>1, <1>2, <1>3

LEMMA InvNext == IInv /\ [Next]_vars => IInv'
<1> SUFFICES ASSUME IInv, [Next]_vars PROVE IInv'
  OBVIOUS
<1>1. CASE UNCHANGED vars
  BY <1>1 DEF vars, sendVars, readVars, IInv, EveryChunkAccounted, TypeOK,
     Balanced, AckUnderWay, AckTaskQueued, TaskHasChunk
<1>2. ASSUME NEW e \in Ends, Write(e) \/ TaskStep(e) \/ WireStep(e) \/ AckStep(e) PROVE IInv'
  BY <1>2, WriteKeeps, StartTaskKeeps, AckFirstKeeps, SendAckKeeps, WritableKeeps, SendChunkKeeps,
     ReceiveAckKeeps, ReceiveKeeps, MarkProcessedKeeps, AckCallbackKeeps
     DEF TaskStep, WireStep, AckStep
<1> QED
  BY <1>1, <1>2 DEF Next

(* What one end of a channel has outstanding is on the wire, at the other  *)
(* end, or in an ACK; processed chunks have their ACK under way; and       *)
(* #readyToAck has an ACK task in the queue (Channel.#write,               *)
(* #sendAckMessage).                                                       *)
THEOREM AccountsBalance == Spec => []EveryChunkAccounted
<1>1. IInv => EveryChunkAccounted
  BY DEF IInv
<1> QED
  BY <1>1, InvInit, InvNext, PTL DEF Spec

----------------------------------------------------------------------------
(* Control messages (#receiveControlMessage), which have variables of      *)
(* their own.                                                              *)

CONSTANT MaxChunks
VARIABLES sent, oneAtATime, nextReadSeq, controlChunks, handled, dispatching, processed, closed
Control == INSTANCE ControlMessages

(* Where the message that is arriving begins. *)
NextFirst == IF handled = <<>> THEN 1 ELSE Control!Last(handled[Len(handled)]) + 1

(* When no handler is under way, #controlChunks has what has arrived of    *)
(* the next message, which is not all of it; else the message of the event,*)
(* and nothing of the next one has arrived.                                *)
Gathering ==
    /\ nextReadSeq = NextFirst + Len(controlChunks)
    /\ \A k \in DOMAIN controlChunks :
          /\ controlChunks[k] = NextFirst + k - 1
          /\ ~Control!EndOfMessage(controlChunks[k])
          /\ Control!TypeOf(controlChunks[k]) = Control!TypeOf(NextFirst)
Dispatching ==
    /\ nextReadSeq = NextFirst /\ handled # <<>>
    /\ dispatching = {Len(handled)} /\ controlChunks = handled[Len(handled)]

(* The invariant: in any case the types, and when chunks come one at a     *)
(* time what HandledInTurn says and where the chunks are.                  *)
ControlTyped ==
    /\ sent \in Seq(Control!Headers) /\ Control!WholeMessages(sent)
    /\ controlChunks \in Seq(Nat) /\ handled \in Seq(Seq(Nat))
ControlInTurn ==
    /\ Control!HandledAsSent /\ Control!HandledBeforeProcessed
    /\ IF dispatching = {} THEN Gathering ELSE Dispatching
ControlInv == Control!TypeOK /\ ControlTyped /\ (oneAtATime => ControlInTurn)

(* A list of chunks that gets another one. *)
LEMMA ArrivedFacts ==
    ASSUME NEW q \in Seq(Nat), NEW s \in Nat
    PROVE  /\ Control!Range(Append(q, s)) = Control!Range(q) \cup {s} /\ Append(q, s) \in Seq(Nat)
           /\ Control!Range(<<>>) = {}
<1>1. /\ DOMAIN Append(q, s) = 1 .. Len(q) + 1 /\ DOMAIN q = 1 .. Len(q) /\ Len(q) \in Nat
      /\ Append(q, s)[Len(q) + 1] = s /\ \A i \in 1 .. Len(q) : Append(q, s)[i] = q[i]
      /\ Append(q, s) \in Seq(Nat)
  OBVIOUS
<1>2. \A i \in 1 .. Len(q) + 1 : i \in 1 .. Len(q) \/ i = Len(q) + 1
  BY <1>1
<1>3. \A i \in 1 .. Len(q) : i \in 1 .. Len(q) + 1
  BY <1>1
<1>4. Len(q) + 1 \in 1 .. Len(q) + 1
  BY <1>1
<1> QED
  BY <1>1, <1>2, <1>3, <1>4 DEF Control!Range

(* At first nothing has arrived. *)
LEMMA ControlInit == Control!Init => ControlInv
<1> SUFFICES ASSUME Control!Init PROVE ControlInv
  OBVIOUS
<1>1. PICK n \in 0 .. MaxChunks : sent \in [1 .. n -> Control!Headers]
  BY DEF Control!Init
<1>2. sent \in Seq(Control!Headers) /\ Len(sent) \in Nat
  BY <1>1
<1>3. Control!TypeOK /\ ControlTyped
  <2>1. controlChunks = <<>> /\ handled = <<>> /\ dispatching = {} /\ processed = {} /\ nextReadSeq = 1
    BY DEF Control!Init
  <2>2. Control!Range(controlChunks) = {}
    BY <2>1 DEF Control!Range
  <2>3. Control!TypeOK
    <3>1. oneAtATime \in BOOLEAN /\ closed \in BOOLEAN
      BY DEF Control!Init
    <3>2. nextReadSeq \in 1 .. Len(sent) + 1
      BY <1>2, <2>1
    <3> QED
      BY <2>1, <2>2, <3>1, <3>2 DEF Control!TypeOK
  <2>4. ControlTyped
    BY <1>2, <2>1 DEF Control!Init, ControlTyped
  <2> QED
    BY <2>3, <2>4
<1>4. ControlInTurn
  BY DEF Control!Init, ControlInTurn, Control!HandledAsSent, Control!HandledBeforeProcessed, Gathering, NextFirst
<1> QED
  BY <1>3, <1>4 DEF ControlInv

(* When chunks come one at a time, the next one is of the type of those    *)
(* before it, and the message that it ends is whole.                       *)
LEMMA NextChunk ==
    ASSUME ControlTyped, ControlInTurn, dispatching = {}, nextReadSeq \in 1 .. Len(sent),
           NEW chunks, chunks = Append(controlChunks, nextReadSeq)
    PROVE  /\ ~Control!Incomplete(nextReadSeq)
           /\ chunks \in Seq(Nat) /\ Len(chunks) = Len(controlChunks) + 1
           /\ chunks[1] = NextFirst /\ nextReadSeq + 1 = NextFirst + Len(chunks)
           /\ \A k \in DOMAIN chunks :
                 /\ chunks[k] = NextFirst + k - 1 /\ Control!TypeOf(chunks[k]) = Control!TypeOf(NextFirst)
                 /\ chunks[k] \in DOMAIN sent
                 /\ Control!EndOfMessage(chunks[k]) <=> k = Len(chunks) /\ Control!EndOfMessage(nextReadSeq)
<1>1. /\ controlChunks \in Seq(Nat) /\ Len(controlChunks) \in Nat
      /\ DOMAIN controlChunks = 1 .. Len(controlChunks)
      /\ sent \in Seq(Control!Headers) /\ DOMAIN sent = 1 .. Len(sent) /\ Len(sent) \in Nat /\ nextReadSeq \in Nat
  BY DEF ControlTyped
<1>2. /\ chunks \in Seq(Nat) /\ Len(chunks) = Len(controlChunks) + 1
      /\ DOMAIN chunks = 1 .. Len(controlChunks) + 1
      /\ chunks[Len(controlChunks) + 1] = nextReadSeq
      /\ \A k \in 1 .. Len(controlChunks) : chunks[k] = controlChunks[k]
  BY <1>1
<1>3. /\ nextReadSeq = NextFirst + Len(controlChunks) 
      /\ \A k \in 1 .. Len(controlChunks) :
            /\ controlChunks[k] = NextFirst + k - 1
            /\ ~Control!EndOfMessage(controlChunks[k]) /\ Control!TypeOf(controlChunks[k]) = Control!TypeOf(NextFirst)
  BY <1>1 DEF ControlInTurn, Gathering
<1>4. NextFirst \in Nat \ {0}
  <2>1. CASE handled = <<>>
    BY <2>1 DEF NextFirst
  <2>2. CASE handled # <<>>
    <3>1. handled \in Seq(Seq(Nat)) /\ Len(handled) \in DOMAIN handled /\ handled[Len(handled)] \in Seq(Nat)
      BY <2>2 DEF ControlTyped
    <3>2. handled[Len(handled)] # <<>>
      BY <3>1 DEF ControlInTurn, Control!HandledAsSent, Control!IsMessage
    <3>3. Control!Last(handled[Len(handled)]) \in Nat
      BY <3>1, <3>2 DEF Control!Last
    <3> QED
      BY <2>2, <3>3 DEF NextFirst
  <2> QED
    BY <2>1, <2>2
<1>5. \A k \in 1 .. Len(controlChunks) : controlChunks[k] \in 1 .. Len(sent)
  BY <1>1, <1>3, <1>4
<1>6. Control!TypeOf(nextReadSeq) = Control!TypeOf(NextFirst)
  <2>1. CASE Len(controlChunks) = 0
    BY <2>1, <1>3, <1>4
  <2>2. CASE Len(controlChunks) > 0
    <3>1. Len(controlChunks) \in 1 .. Len(controlChunks) /\ controlChunks[Len(controlChunks)] = nextReadSeq - 1
      BY <2>2, <1>1, <1>3, <1>4
    <3>2. /\ ~Control!EndOfMessage(nextReadSeq - 1) /\ nextReadSeq - 1 \in DOMAIN sent
          /\ Control!TypeOf(nextReadSeq - 1) = Control!TypeOf(NextFirst)
      BY <3>1, <1>1, <1>3, <1>5
    <3>3. (nextReadSeq - 1) + 1 = nextReadSeq
      BY <1>1
    <3> QED
      BY <3>2, <3>3 DEF ControlTyped, Control!WholeMessages, Control!EndOfMessage, Control!TypeOf
  <2> QED
    BY <1>1, <2>1, <2>2
<1>7. ~Control!Incomplete(nextReadSeq)
  <2> SUFFICES ASSUME controlChunks # <<>> PROVE Control!TypeOf(Head(controlChunks)) = Control!TypeOf(nextReadSeq)
    BY DEF Control!Incomplete
  <2>1. Head(controlChunks) = controlChunks[1] /\ 1 \in 1 .. Len(controlChunks)
    BY <1>1
  <2> QED
    BY <2>1, <1>3, <1>6
<1>8. chunks[1] = NextFirst /\ nextReadSeq + 1 = NextFirst + Len(chunks)
  <2>1. CASE Len(controlChunks) = 0
    BY <2>1, <1>2, <1>3, <1>4
  <2>2. CASE Len(controlChunks) > 0
    <3>1. 1 \in 1 .. Len(controlChunks)
      BY <2>2, <1>1
    <3>2. chunks[1] = controlChunks[1] /\ controlChunks[1] = NextFirst + 1 - 1
      BY <3>1, <1>2, <1>3
    <3> QED
      BY <3>2, <1>1, <1>2, <1>3, <1>4
  <2> QED
    BY <1>1, <2>1, <2>2
<1>9. ASSUME NEW k \in DOMAIN chunks
      PROVE  /\ chunks[k] = NextFirst + k - 1 /\ Control!TypeOf(chunks[k]) = Control!TypeOf(NextFirst)
             /\ chunks[k] \in DOMAIN sent
             /\ Control!EndOfMessage(chunks[k]) <=> k = Len(chunks) /\ Control!EndOfMessage(nextReadSeq)
  <2>1. CASE k \in 1 .. Len(controlChunks)
    BY <2>1, <1>1, <1>2, <1>3, <1>5
  <2>2. CASE k = Len(controlChunks) + 1
    BY <2>2, <1>1, <1>2, <1>3, <1>4, <1>6
  <2>3. k \in 1 .. Len(controlChunks) \/ k = Len(controlChunks) + 1
    BY <1>1, <1>2
  <2> QED
    BY <2>1, <2>2, <2>3
<1> QED
  BY <1>2, <1>7, <1>8, <1>9

(* The whole message is the next one to be handled. *)
LEMMA HandlesNext ==
    ASSUME ControlTyped, ControlInTurn, dispatching = {}, nextReadSeq \in 1 .. Len(sent), Control!EndOfMessage(nextReadSeq),
           ControlTyped', NEW chunks, chunks = Append(controlChunks, nextReadSeq),
           handled' = Append(handled, chunks), nextReadSeq' = nextReadSeq + 1, UNCHANGED <<sent, closed>>
    PROVE  /\ Control!HandledAsSent' /\ NextFirst' = nextReadSeq' /\ Len(handled') = Len(handled) + 1
           /\ handled' # <<>> /\ handled'[Len(handled')] = chunks
<1>1. /\ chunks \in Seq(Nat) /\ Len(chunks) = Len(controlChunks) + 1 /\ Len(controlChunks) \in Nat
      /\ chunks[1] = NextFirst /\ nextReadSeq + 1 = NextFirst + Len(chunks)
      /\ \A k \in DOMAIN chunks :
            /\ chunks[k] = NextFirst + k - 1 /\ chunks[k] \in DOMAIN sent
            /\ Control!EndOfMessage(chunks[k]) <=> k = Len(chunks)
  <2>1. controlChunks \in Seq(Nat) /\ Len(controlChunks) \in Nat
    BY DEF ControlTyped
  <2> QED
    BY <2>1, NextChunk
<1>2. /\ handled \in Seq(Seq(Nat)) /\ Len(handled) \in Nat /\ Len(handled') = Len(handled) + 1
      /\ DOMAIN handled = 1 .. Len(handled) /\ DOMAIN handled' = 1 .. Len(handled) + 1
      /\ handled'[Len(handled) + 1] = chunks /\ \A i \in 1 .. Len(handled) : handled'[i] = handled[i]
      /\ handled' # <<>>
  <2>1. handled \in Seq(Seq(Nat)) /\ chunks \in Seq(Nat)
    BY <1>1 DEF ControlTyped
  <2>2. Len(Append(handled, chunks)) = Len(handled) + 1 /\ Len(handled) \in Nat
    BY <2>1
  <2>3. DOMAIN handled = 1 .. Len(handled) /\ DOMAIN handled' = 1 .. Len(handled) + 1
    BY <2>1, <2>2
  <2>5. Append(handled, chunks) # <<>>
    <3> SUFFICES ASSUME Append(handled, chunks) = <<>> PROVE FALSE
      OBVIOUS
    <3>1. Len(Append(handled, chunks)) = 0
      OBVIOUS
    <3> QED
      BY <2>2, <3>1
  <2>4. handled'[Len(handled) + 1] = chunks /\ \A i \in 1 .. Len(handled) : handled'[i] = handled[i]
    BY <2>1, <2>2
  <2> QED
    BY <2>1, <2>2, <2>3, <2>4, <2>5
<1>3. chunks # <<>> /\ Len(chunks) \in DOMAIN chunks /\ 1 \in DOMAIN chunks /\ Head(chunks) = NextFirst
  BY <1>1
<1>4. nextReadSeq \in Nat /\ NextFirst \in Int
  BY <1>1, <1>3
<1>5. Control!Last(chunks) = nextReadSeq
  BY <1>1, <1>3, <1>4 DEF Control!Last
<1>6. Control!IsMessage(chunks)'
  <2>1. \A k \in DOMAIN chunks : chunks[k] = chunks[1] + k - 1
    BY <1>1
  <2> QED
    BY <1>1, <1>3, <2>1 DEF Control!IsMessage, Control!EndOfMessage
<1>7. ASSUME NEW i \in DOMAIN handled'
      PROVE  Control!IsMessage(handled[i])' /\ Head(handled'[i]) = IF i = 1 THEN 1 ELSE Control!Last(handled'[i - 1]) + 1
  <2>1. CASE i \in 1 .. Len(handled)
    <3>1. i = 1 \/ i - 1 \in 1 .. Len(handled)
      BY <2>1, <1>2
    <3>2. Control!IsMessage(handled[i]) /\ Head(handled[i]) = IF i = 1 THEN 1 ELSE Control!Last(handled[i - 1]) + 1
      BY <2>1, <1>2 DEF ControlInTurn, Control!HandledAsSent
    <3> QED
      BY <2>1, <3>1, <3>2, <1>2 DEF Control!IsMessage, Control!EndOfMessage
  <2>2. CASE i = Len(handled) + 1
    <3>1. CASE handled = <<>>
      <4>1. i = 1 /\ NextFirst = 1
        BY <2>2, <3>1 DEF NextFirst
      <4> QED
        BY <2>2, <4>1, <1>2, <1>3, <1>6
    <3>2. CASE handled # <<>>
      <4>1. i # 1 /\ i - 1 = Len(handled) /\ i - 1 \in 1 .. Len(handled)
        BY <2>2, <3>2, <1>2
      <4> QED
        BY <2>2, <3>2, <4>1, <1>2, <1>3, <1>6 DEF NextFirst
    <3> QED
      BY <3>1, <3>2
  <2>3. i \in 1 .. Len(handled) \/ i = Len(handled) + 1
    BY <1>2
  <2> QED
    BY <2>1, <2>2, <2>3
<1>8. ASSUME NEW s \in 1 .. nextReadSeq' - 1, Control!EndOfMessage(s)'
      PROVE  \E i \in DOMAIN handled' : Control!Last(handled'[i]) = s
  <2>1. CASE s = nextReadSeq
    <3>1. Len(handled) + 1 \in DOMAIN handled'
      BY <1>2
    <3> QED
      BY <2>1, <3>1, <1>2, <1>5
  <2>2. CASE s # nextReadSeq
    <3>1. s \in 1 .. nextReadSeq - 1 /\ Control!EndOfMessage(s)
      BY <2>2, <1>4, <1>8 DEF Control!EndOfMessage
    <3>2. PICK i \in DOMAIN handled : Control!Last(handled[i]) = s
      BY <3>1 DEF ControlInTurn, Control!HandledAsSent
    <3>3. i \in DOMAIN handled' /\ handled'[i] = handled[i]
      BY <1>2
    <3> QED
      BY <3>2, <3>3
  <2> QED
    BY <2>1, <2>2
<1>9. Control!HandledAsSent'
  BY <1>7, <1>8 DEF ControlInTurn, Control!HandledAsSent
<1> QED
  BY <1>2, <1>4, <1>5, <1>9 DEF NextFirst

(* A chunk that arrives keeps the invariant, in each of the four cases. *)
LEMMA ControlReceiveKeeps == ASSUME ControlInv, Control!ReceiveControlMessage PROVE ControlInv'
<1> DEFINE s == nextReadSeq
           chunks == Append(controlChunks, s)
<1>1. /\ nextReadSeq \in 1 .. Len(sent) /\ nextReadSeq \in Nat /\ nextReadSeq' = nextReadSeq + 1 /\ ~closed
      /\ sent' = sent /\ oneAtATime' = oneAtATime /\ (oneAtATime => dispatching = {}) /\ Len(sent) \in Nat
  BY DEF Control!ReceiveControlMessage, ControlInv, Control!TypeOK, ControlTyped
<1>2. /\ controlChunks \in Seq(Nat) /\ handled \in Seq(Seq(Nat)) /\ chunks \in Seq(Nat)
      /\ Control!Range(chunks) = Control!Range(controlChunks) \cup {s} /\ Control!Range(<<>>) = {}
  BY <1>1, ArrivedFacts DEF ControlInv, ControlTyped
<1>3. /\ Control!Range(controlChunks) \subseteq 1 .. s - 1 /\ dispatching \subseteq DOMAIN handled
      /\ processed \subseteq (1 .. s - 1) \ Control!Range(controlChunks) /\ oneAtATime \in BOOLEAN /\ closed \in BOOLEAN
  BY DEF ControlInv, Control!TypeOK
<1>4. /\ 1 .. s - 1 \subseteq 1 .. nextReadSeq' - 1 /\ s \in 1 .. nextReadSeq' - 1 /\ s \notin 1 .. s - 1
      /\ nextReadSeq' \in 1 .. Len(sent) + 1
  BY <1>1
<1>5. /\ DOMAIN handled \subseteq DOMAIN Append(handled, chunks) /\ Append(handled, chunks) \in Seq(Seq(Nat))
      /\ Len(Append(handled, chunks)) \in DOMAIN Append(handled, chunks)
  BY <1>2
<1>6. oneAtATime => ControlInTurn /\ dispatching = {} /\ ~Control!Incomplete(s)
  BY <1>1, NextChunk DEF ControlInv
<1>a. CASE /\ Control!Incomplete(s) /\ closed' = TRUE /\ UNCHANGED <<controlChunks, handled, dispatching, processed>>
  BY <1>a, <1>1, <1>2, <1>3, <1>4, <1>6 DEF ControlInv, Control!TypeOK, ControlTyped
<1>b. CASE /\ ~Control!Incomplete(s) /\ ~Control!EndOfMessage(s) /\ controlChunks' = chunks
           /\ UNCHANGED <<handled, dispatching, processed, closed>>
  <2>1. Control!TypeOK' /\ ControlTyped'
    BY <1>b, <1>1, <1>2, <1>3, <1>4 DEF ControlInv, Control!TypeOK, ControlTyped
  <2>2. ASSUME oneAtATime PROVE ControlInTurn'
    <3>1. NextFirst' = NextFirst
      BY <1>b DEF NextFirst
    <3>2. /\ nextReadSeq + 1 = NextFirst + Len(chunks)
          /\ \A k \in DOMAIN chunks : 
                /\ chunks[k] = NextFirst + k - 1 /\ ~Control!EndOfMessage(chunks[k])
                /\ Control!TypeOf(chunks[k]) = Control!TypeOf(NextFirst)
      BY <2>2, <1>1, <1>6, <1>b, NextChunk DEF ControlInv
    <3>3. Gathering'
      BY <3>1, <3>2, <1>1, <1>b DEF Gathering, Control!TypeOf, Control!EndOfMessage
    <3>4. Control!HandledAsSent'
      <4>1. ASSUME NEW t \in 1 .. nextReadSeq' - 1, Control!EndOfMessage(t)'
            PROVE  \E i \in DOMAIN handled : Control!Last(handled[i]) = t
        <5>1. Control!EndOfMessage(t) /\ t # s
          BY <4>1, <1>1, <1>b DEF Control!EndOfMessage
        <5>2. t \in 1 .. s - 1
          BY <5>1, <1>1
        <5> QED
          BY <5>1, <5>2, <2>2, <1>6 DEF ControlInTurn, Control!HandledAsSent
      <4> QED
        BY <4>1, <2>2, <1>1, <1>6, <1>b DEF ControlInTurn, Control!HandledAsSent, Control!IsMessage, Control!EndOfMessage
    <3> QED
      BY <2>2, <3>3, <3>4, <1>6, <1>b DEF ControlInTurn, Control!HandledBeforeProcessed
  <2> QED
    BY <2>1, <2>2, <1>1 DEF ControlInv
<1>c. CASE /\ ~Control!Incomplete(s) /\ Control!EndOfMessage(s) /\ handled' = Append(handled, chunks)
           /\ Control!FinishHandling(chunks) /\ UNCHANGED <<dispatching, closed>>
  <2>a. controlChunks' = <<>> /\ processed' = processed \cup Control!Range(chunks)
    BY <1>c DEF Control!FinishHandling
  <2>b. Control!Range(controlChunks') = {} /\ processed' \subseteq 1 .. nextReadSeq' - 1
    BY <2>a, <1>2, <1>3, <1>4
  <2>1. Control!TypeOK' /\ ControlTyped'
    BY <1>c, <2>a, <2>b, <1>1, <1>2, <1>3, <1>4, <1>5 DEF ControlInv, Control!TypeOK, ControlTyped
  <2>2. ASSUME oneAtATime PROVE ControlInTurn'
    <3>1. Control!HandledAsSent' /\ NextFirst' = nextReadSeq'
      BY <2>1, <2>2, <1>1, <1>6, <1>c, HandlesNext DEF ControlInv
    <3>2. controlChunks' = <<>> /\ dispatching' = {}
      BY <2>2, <1>6, <1>c DEF Control!FinishHandling
    <3>3. Gathering'
      BY <3>1, <3>2, <1>1 DEF Gathering
    <3> QED
      BY <3>1, <3>2, <3>3 DEF ControlInTurn, Control!HandledBeforeProcessed
  <2> QED
    BY <2>1, <2>2, <1>1 DEF ControlInv
<1>d. CASE /\ ~Control!Incomplete(s) /\ Control!EndOfMessage(s) /\ handled' = Append(handled, chunks)
           /\ Control!Dispatch(chunks) /\ UNCHANGED closed
  <2>1. Control!TypeOK' /\ ControlTyped'
    BY <1>d, <1>1, <1>2, <1>3, <1>4, <1>5 DEF ControlInv, Control!TypeOK, ControlTyped, Control!Dispatch
  <2>2. ASSUME oneAtATime PROVE ControlInTurn'
    <3>1. /\ Control!HandledAsSent' /\ NextFirst' = nextReadSeq' /\ handled' # <<>>
          /\ handled'[Len(handled')] = chunks
      BY <2>1, <2>2, <1>1, <1>6, <1>d, HandlesNext DEF ControlInv
    <3>2. controlChunks' = chunks /\ dispatching' = {Len(handled')} /\ processed' = processed
      BY <2>2, <1>6, <1>d DEF Control!Dispatch
    <3>3. Control!HandledBeforeProcessed'
      BY <3>1, <3>2, <1>2, <1>3, <1>4 DEF Control!HandledBeforeProcessed
    <3> QED
      BY <3>1, <3>2, <3>3 DEF ControlInTurn, Dispatching
  <2> QED
    BY <2>1, <2>2, <1>1 DEF ControlInv
<1> QED
  BY <1>a, <1>b, <1>c, <1>d DEF Control!ReceiveControlMessage

(* So do handlers that return, which empty #controlChunks. *)
LEMMA SignalHandledKeeps == ASSUME ControlInv, NEW d \in dispatching, Control!SignalHandled(d) PROVE ControlInv'
<1>1. /\ dispatching' = dispatching \ {d} /\ controlChunks' = <<>>
      /\ processed' = processed \cup Control!Range(controlChunks)
      /\ UNCHANGED <<sent, oneAtATime, nextReadSeq, handled, closed>>
  BY DEF Control!SignalHandled, Control!FinishHandling
<1>2. Control!Range(<<>>) = {}
  BY DEF Control!Range
<1>3. Control!TypeOK' /\ ControlTyped'
  <2>1. Control!Range(controlChunks') = {}
    BY <1>1, <1>2
  <2>2. processed' \subseteq 1 .. nextReadSeq' - 1
    BY <1>1 DEF ControlInv, Control!TypeOK
  <2>3. <<>> \in Seq(Nat)
    OBVIOUS
  <2> QED
    BY <1>1, <2>1, <2>2, <2>3 DEF ControlInv, Control!TypeOK, ControlTyped
<1>4. ASSUME oneAtATime PROVE ControlInTurn'
  <2>1. Dispatching /\ Control!HandledAsSent
    BY <1>4 DEF ControlInv, ControlInTurn
  <2>2. dispatching' = {}
    BY <1>1, <2>1 DEF Dispatching
  <2>3. Control!HandledAsSent'
    BY <1>1, <2>1 DEF Control!HandledAsSent, Control!IsMessage, Control!EndOfMessage
  <2>4. nextReadSeq \in Nat
    BY DEF ControlInv, Control!TypeOK
  <2>5. Gathering'
    BY <1>1, <2>1, <2>4 DEF Dispatching, Gathering, NextFirst
  <2> QED
    BY <2>2, <2>3, <2>5 DEF ControlInTurn, Control!HandledBeforeProcessed
<1> QED
  BY <1>1, <1>3, <1>4 DEF ControlInv

(* And steps of others. *)
LEMMA ControlStutterKeeps == ASSUME ControlInv, UNCHANGED Control!vars PROVE ControlInv'
<1>1. UNCHANGED <<sent, oneAtATime, nextReadSeq, controlChunks, handled, dispatching, processed, closed>>
  BY DEF Control!vars
<1> QED
  BY <1>1 DEF ControlInv, ControlTyped, ControlInTurn, Gathering, Dispatching, NextFirst, Control!TypeOK,
     Control!HandledAsSent, Control!HandledBeforeProcessed, Control!IsMessage, Control!EndOfMessage, Control!TypeOf

(* When the chunks of control messages arrive one at a time, every message *)
(* is handled once, in order and as it was sent, no handler sees chunks of *)
(* another one, and none is ACKed while it is handled                      *)
(* (#receiveControlMessage); and the types are right in any case.          *)
THEOREM HandledAsTheyCome == Control!Spec => []Control!HandledInTurn
<1>1. ControlInv /\ [Control!Next]_(Control!vars) => ControlInv'
  BY ControlReceiveKeeps, SignalHandledKeeps, ControlStutterKeeps DEF Control!Next
<1>2. ControlInv => Control!HandledInTurn
  BY DEF ControlInv, ControlInTurn, Control!HandledInTurn
<1> QED
  BY ControlInit, <1>1, <1>2, PTL DEF Control!Spec
=============================================================================
