------------------------------- MODULE Duplex -------------------------------
(***************************************************************************)
(* The two directions of one channel together.  At each end data chunks    *)
(* and ACK messages go through the same serialised task queue of the       *)
(* channel (Channel.#writeQueue, src/channel.esm.js): a write task sends   *)
(* the chunks of a message and waits in writable() for budget, an ACK task *)
(* sends the ACKs that are due, and a write task that finds #readyToAck    *)
(* set sends them first.  FlowControl has one direction in detail; here    *)
(* all chunks are one unit of budget, ACKs are counts, and the timers and  *)
(* microtasks behind an ACK are one flag, which FlowControl justifies      *)
(* (AckIsComing).                                                          *)
(***************************************************************************)
EXTENDS Integers, Sequences, FiniteSets, SequencesExt

CONSTANTS
    Limit,      \* writeLimit of either end, in chunks
    Writes,     \* Writes[e]: chunks of each message end e will write, in order
    Together    \* Together[e]: e's option of write(), a message's chunks in one task

Ends == {"a", "b"}
Peer(e) == CHOOSE p \in Ends : p # e

ASSUME LimitAssumption == Limit \in Nat \ {0}
ASSUME WritesAssumption == Writes \in [Ends -> Seq(Nat \ {0})]
ASSUME TogetherAssumption == Together \in [Ends -> BOOLEAN]

VARIABLES
    written,      \* written[e]: messages e has written
    writeQueue,   \* writeQueue[e]: tasks not started, AckTask or chunks to send
    step,         \* step[e]: where the running task of e is
    remaining,    \* remaining[e]: chunks the running write task has left
    outstanding,  \* outstanding[e]: chunks e sent and has no ACK for
    dataWire,     \* dataWire[e]: chunks on their way to e
    unprocessed,  \* unprocessed[e]: chunks e received and has not processed
    ackable,      \* ackable[e]: chunks e processed and has not ACKed
    ackDue,       \* ackDue[e]: a callback or batch timer of e is under way
    readyToAck,   \* readyToAck[e]
    ackWire       \* ackWire[e]: chunks ACKed by messages on their way to e

sendVars == <<written, writeQueue, step, remaining, outstanding>>
readVars == <<unprocessed, ackable, ackDue>>
vars == <<sendVars, readVars, dataWire, readyToAck, ackWire>>

AckTask == 0

Init ==
    /\ written = [e \in Ends |-> 0]
    /\ writeQueue = [e \in Ends |-> <<>>]
    /\ step = [e \in Ends |-> "idle"] /\ remaining = [e \in Ends |-> 0]
    /\ outstanding = [e \in Ends |-> 0] /\ dataWire = [e \in Ends |-> 0]
    /\ unprocessed = [e \in Ends |-> 0] /\ ackable = [e \in Ends |-> 0]
    /\ ackDue = [e \in Ends |-> FALSE] /\ readyToAck = [e \in Ends |-> FALSE]
    /\ ackWire = [e \in Ends |-> 0]

----------------------------------------------------------------------------
(* #write: queue the next message. *)
Write(e) ==
    /\ written[e] < Len(Writes[e])
    /\ written' = [written EXCEPT ![e] = @ + 1]
    /\ writeQueue' = [writeQueue EXCEPT ![e] = Append(@, Writes[e][written'[e]])]
    /\ UNCHANGED <<step, remaining, outstanding, readVars, dataWire, readyToAck, ackWire>>

(* The queue starts its next task once the one before is done. *)
StartTask(e) ==
    /\ step[e] = "idle" /\ writeQueue[e] # <<>>
    /\ writeQueue' = [writeQueue EXCEPT ![e] = Tail(@)]
    /\ LET task == Head(writeQueue[e])
       IN  IF task = AckTask
           THEN /\ step' = [step EXCEPT ![e] = "ack"]
                /\ readyToAck' = [readyToAck EXCEPT ![e] = FALSE]
                /\ UNCHANGED remaining
           ELSE /\ step' = [step EXCEPT ![e] = "chunk"]
                /\ remaining' = [remaining EXCEPT ![e] = task]
                /\ UNCHANGED readyToAck
    /\ UNCHANGED <<written, outstanding, readVars, dataWire, ackWire>>

(* sendAChunk, first line: ACKs that are ready go before the chunk. *)
AckFirst(e) ==
    /\ step[e] = "chunk" /\ readyToAck[e]
    /\ step' = [step EXCEPT ![e] = "ackFirst"]
    /\ readyToAck' = [readyToAck EXCEPT ![e] = FALSE]
    /\ UNCHANGED <<written, writeQueue, remaining, outstanding, readVars, dataWire, ackWire>>

(* transport.sendAckMessage, for an ACK task or within a write task. *)
SendAck(e) ==
    /\ step[e] \in {"ack", "ackFirst"}
    /\ step' = [step EXCEPT ![e] = IF @ = "ack" THEN "idle" ELSE "writable"]
    /\ ackWire' = [ackWire EXCEPT ![Peer(e)] = @ + ackable[e]]
    /\ ackable' = [ackable EXCEPT ![e] = 0]
    /\ UNCHANGED <<written, writeQueue, remaining, outstanding, unprocessed, ackDue,
                   dataWire, readyToAck>>

(* writable(): on when the budget exceeds one chunk, else wait. *)
Writable(e) ==
    /\ step[e] = "writable" \/ (step[e] = "chunk" /\ ~readyToAck[e])
    /\ step' = [step EXCEPT ![e] = IF Limit - outstanding[e] > 1 THEN "send" ELSE "waiting"]
    /\ UNCHANGED <<written, writeQueue, remaining, outstanding, readVars, dataWire,
                   readyToAck, ackWire>>

(* transport.sendChunk; the rest of the message follows in this task or,   *)
(* unless its chunks go together, in a new task at the end of the queue.   *)
SendChunk(e) ==
    /\ step[e] = "send"
    /\ outstanding' = [outstanding EXCEPT ![e] = @ + 1]
    /\ dataWire' = [dataWire EXCEPT ![Peer(e)] = @ + 1]
    /\ remaining' = [remaining EXCEPT ![e] = @ - 1]
    /\ step' = [step EXCEPT ![e] = IF remaining'[e] > 0 /\ Together[e] THEN "chunk" ELSE "idle"]
    /\ writeQueue' = [writeQueue EXCEPT ![e] =
                        IF remaining'[e] > 0 /\ ~Together[e] THEN Append(@, remaining'[e]) ELSE @]
    /\ UNCHANGED <<written, readVars, readyToAck, ackWire>>

MutBudgetBeforeAck(e) ==
    /\ ackWire[e] > 0
    /\ outstanding' = [outstanding EXCEPT ![e] = @ - ackWire[e]]
    /\ ackWire' = [ackWire EXCEPT ![e] = 0]
    /\ step' = [step EXCEPT ![e] = IF @ = "waiting" /\ Limit - outstanding[e] > 1
                                   THEN "send" ELSE @]
    /\ UNCHANGED <<written, writeQueue, remaining, readVars, dataWire, readyToAck>>
(* clearWriteAckInfo: the waiting writer goes on once its chunk fits. *)
ReceiveAck(e) ==
    /\ ackWire[e] > 0
    /\ outstanding' = [outstanding EXCEPT ![e] = @ - ackWire[e]]
    /\ ackWire' = [ackWire EXCEPT ![e] = 0]
    /\ step' = [step EXCEPT ![e] = IF @ = "waiting" /\ Limit - outstanding'[e] >= 1
                                   THEN "send" ELSE @]
    /\ UNCHANGED <<written, writeQueue, remaining, readVars, dataWire, readyToAck>>

(* received(), and markProcessed() by the application. *)
Receive(e) ==
    /\ dataWire[e] > 0
    /\ dataWire' = [dataWire EXCEPT ![e] = @ - 1]
    /\ unprocessed' = [unprocessed EXCEPT ![e] = @ + 1]
    /\ UNCHANGED <<sendVars, ackable, ackDue, readyToAck, ackWire>>

MutAckWhenAllProcessed(e) ==
    /\ unprocessed[e] > 0
    /\ unprocessed' = [unprocessed EXCEPT ![e] = @ - 1]
    /\ ackable' = [ackable EXCEPT ![e] = @ + 1]
    /\ ackDue' = [ackDue EXCEPT ![e] = unprocessed'[e] = 0]
    /\ UNCHANGED <<sendVars, dataWire, readyToAck, ackWire>>
MarkProcessed(e) ==
    /\ unprocessed[e] > 0
    /\ unprocessed' = [unprocessed EXCEPT ![e] = @ - 1]
    /\ ackable' = [ackable EXCEPT ![e] = @ + 1]
    /\ ackDue' = [ackDue EXCEPT ![e] = TRUE]
    /\ UNCHANGED <<sendVars, dataWire, readyToAck, ackWire>>

(* #sendAckMessage(): one ACK task in the queue, for whatever is ackable   *)
(* by the time it runs.                                                    *)
AckCallback(e) ==
    /\ ackDue[e]
    /\ ackDue' = [ackDue EXCEPT ![e] = FALSE]
    /\ readyToAck' = [readyToAck EXCEPT ![e] = TRUE]
    /\ writeQueue' = [writeQueue EXCEPT ![e] =
                        IF readyToAck[e] THEN @ ELSE Append(@, AckTask)]
    /\ UNCHANGED <<written, step, remaining, outstanding, unprocessed, ackable, dataWire, ackWire>>

----------------------------------------------------------------------------
TaskStep(e) == StartTask(e) \/ AckFirst(e) \/ SendAck(e) \/ Writable(e) \/ SendChunk(e)
WireStep(e) == Receive(e) \/ ReceiveAck(e)
AckStep(e) == MarkProcessed(e) \/ AckCallback(e)

Next == \E e \in Ends : Write(e) \/ TaskStep(e) \/ WireStep(e) \/ AckStep(e)

(* Each end's event loop runs the tasks that can go on, the transport      *)
(* delivers both ways, and the application processes what it is given.     *)
Fairness ==
    \A e \in Ends : /\ WF_vars(TaskStep(e)) /\ WF_vars(Receive(e)) /\ WF_vars(ReceiveAck(e))
                    /\ WF_vars(MarkProcessed(e)) /\ WF_vars(AckCallback(e))

Spec == Init /\ [][Next]_vars /\ Fairness

----------------------------------------------------------------------------
TypeOK ==
    /\ written \in [Ends -> Nat] /\ \A e \in Ends : written[e] <= Len(Writes[e])
    /\ writeQueue \in [Ends -> Seq(Nat)]
    /\ step \in [Ends -> {"idle", "ack", "chunk", "ackFirst", "writable", "waiting", "send"}]
    /\ remaining \in [Ends -> Nat] /\ outstanding \in [Ends -> Nat]
    /\ dataWire \in [Ends -> Nat] /\ ackWire \in [Ends -> Nat]
    /\ unprocessed \in [Ends -> Nat] /\ ackable \in [Ends -> Nat]
    /\ ackDue \in [Ends -> BOOLEAN] /\ readyToAck \in [Ends -> BOOLEAN]

Waiting(e) == step[e] = "waiting"

(* However the tasks interleave, what one end has outstanding is on the    *)
(* wire, at the other end, or in an ACK; ...                               *)
Balanced(e) ==
    outstanding[e] = dataWire[Peer(e)] + unprocessed[Peer(e)] + ackable[Peer(e)] + ackWire[e]
(* ... an ACK is on its way whenever an end holds processed chunks; ...    *)
AckUnderWay(e) ==
    ackable[e] > 0 => ackDue[e] \/ readyToAck[e] \/ step[e] \in {"ack", "ackFirst"}
(* ... and #readyToAck never promises an ACK nobody sends: while it is     *)
(* set, an ACK task is queued, even when a write task may piggy-back it    *)
(* first.                                                                  *)
AckTaskQueued(e) == readyToAck[e] => Contains(writeQueue[e], AckTask)
EveryChunkAccounted ==
    /\ TypeOK
    /\ \A e \in Ends : Balanced(e) /\ AckUnderWay(e) /\ AckTaskQueued(e)

(* A blocked write only ever waits for good when the other end is blocked  *)
(* in a write too: ACKs of an end that is not get through.                 *)
WaitsForWaiterOnly ==
    \A e \in Ends : Waiting(e) ~> ~Waiting(e) \/ Waiting(Peer(e))
=============================================================================
