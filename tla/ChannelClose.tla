---------------------------- MODULE ChannelClose ----------------------------
(***************************************************************************)
(* Closing a channel (src/channel.esm.js: close, #discardExistingInput,    *)
(* onRemoteChanClosed, #finalizeClosure, #onDisconnect), with the part the *)
(* transport has in it (src/transport/base.esm.js: sendTccMessage,         *)
(* #tccReader, #onChannelClose, #onChannelClosed, receiveMessage,          *)
(* nullChannel).                                                           *)
(*                                                                         *)
(* All messages between two transports share one FIFO.  Data and ACKs are  *)
(* handled as they arrive; chanClose and chanClosed are messages of the    *)
(* transport control channel (TCC): they are written through its queue,    *)
(* and gather at the other end until #tccReader comes to them.  close() is *)
(* async: each of its awaits ends a step here.  Chunks are one unit of     *)
(* budget; FlowControl has flow control, and the drain, in detail.         *)
(***************************************************************************)
EXTENDS Integers, Sequences, FiniteSets, SequencesExt

CONSTANTS
    MaxWrites,      \* bound: MaxWrites[e] #write calls of end e
    MessageChunks,  \* chunks of a message
    Limit,          \* writeLimit, in chunks
    MaxCloses,      \* bound: MaxCloses[e] close() calls of the application at e
    MayDisconnect   \* ends that notice the loss of the connection

Ends == {"a", "b"}
Peer(e) == CHOOSE p \in Ends : p # e

ASSUME BoundsAssumption == MaxWrites \in [Ends -> Nat] /\ MaxCloses \in [Ends -> Nat]
ASSUME DisconnectAssumption == MayDisconnect \subseteq Ends
ASSUME ChunksAssumption == MessageChunks \in Nat \ {0} /\ Limit \in Nat \ {0}

VARIABLES
    state,       \* state[e]: #state
    discard,     \* discard[e]: #discard
    closing,     \* closing[e]: step of the close() that left OPEN
    switching,   \* switching[e]: step of a close() that switched to discard
    nulled,      \* ends whose channel record is nulled
    closes,      \* closes[e]: close() calls of the application
    writes,      \* writes[e]: chunks left of each #write under way
    written,     \* written[e]: #write calls made
    sending,     \* ends whose write task is past its check of #discard
    outstanding, \* outstanding[e]: chunks sent and not ACKed
    buffered,    \* buffered[e]: chunks received and not read
    held,        \* held[e]: chunks read and not done
    ackable,     \* ackable[e]: chunks processed and not ACKed
    tccOut,      \* tccOut[e]: TCC messages written and not sent
    wire,        \* wire[e]: messages on their way to e
    tccIn,       \* tccIn[e]: TCC messages received and not handled
    faults       \* messages that came to a closed channel: the transport stops

closeVars == <<state, discard, closing, switching, nulled>>
writeVars == <<writes, written, sending>>
readVars == <<buffered, held, ackable>>
vars == <<closeVars, closes, writeVars, outstanding, readVars, tccOut, wire, tccIn, faults>>

Closing == {"CLOSING", "LOCAL_CLOSING", "REMOTE_CLOSING"}
Message(type) == [type |-> type]
Ack(n) == [type |-> "ack", count |-> n]
ChanClose(d) == [type |-> "chanClose", discard |-> d]

Init ==
    /\ state = [e \in Ends |-> "OPEN"] /\ discard = [e \in Ends |-> FALSE]
    /\ closing = [e \in Ends |-> "no"] /\ switching = [e \in Ends |-> "no"]
    /\ nulled = {} /\ closes = [e \in Ends |-> 0]
    /\ writes = [e \in Ends |-> <<>>] /\ written = [e \in Ends |-> 0] /\ sending = {}
    /\ outstanding = [e \in Ends |-> 0]
    /\ buffered = [e \in Ends |-> 0] /\ held = [e \in Ends |-> 0]
    /\ ackable = [e \in Ends |-> 0]
    /\ tccOut = [e \in Ends |-> <<>>] /\ wire = [e \in Ends |-> <<>>]
    /\ tccIn = [e \in Ends |-> <<>>] /\ faults = {}

----------------------------------------------------------------------------
(* Writing and reading, as far as closing depends on it. *)

Write(e) ==
    /\ state[e] = "OPEN" /\ written[e] < MaxWrites[e]
    /\ written' = [written EXCEPT ![e] = @ + 1]
    /\ writes' = [writes EXCEPT ![e] = Append(@, MessageChunks)]
    /\ UNCHANGED <<closeVars, closes, sending, outstanding, readVars, tccOut, wire, tccIn, faults>>

(* while (!#discard): the next chunk of the first write, or the end of it. *)
NextChunk(e) ==
    /\ state[e] # "DISCONNECTED"
    /\ writes[e] # <<>> /\ e \notin sending
    /\ IF discard[e]
       THEN writes' = [writes EXCEPT ![e] = Tail(@)] /\ UNCHANGED sending
       ELSE sending' = sending \cup {e} /\ UNCHANGED writes
    /\ UNCHANGED <<closeVars, closes, written, outstanding, readVars, tccOut, wire, tccIn, faults>>

(* What the writes have left once a chunk of the first is sent *)
OneChunkLess(w) == IF Head(w) = 1 THEN Tail(w) ELSE [w EXCEPT ![1] = @ - 1]

(* sendAChunk, once writable(). *)
SendChunk(e) ==
    /\ state[e] # "DISCONNECTED"
    /\ e \in sending /\ outstanding[e] < Limit
    /\ sending' = sending \ {e}
    /\ wire' = [wire EXCEPT ![Peer(e)] = Append(@, Message("data"))]
    /\ outstanding' = [outstanding EXCEPT ![e] = @ + 1]
    /\ writes' = [writes EXCEPT ![e] = OneChunkLess(@)]
    /\ UNCHANGED <<closeVars, closes, written, readVars, tccOut, tccIn, faults>>

Read(e) ==
    /\ buffered[e] > 0
    /\ buffered' = [buffered EXCEPT ![e] = @ - 1]
    /\ held' = [held EXCEPT ![e] = @ + 1]
    /\ UNCHANGED <<closeVars, closes, writeVars, outstanding, ackable, tccOut, wire, tccIn, faults>>

Done(e) ==
    /\ held[e] > 0
    /\ held' = [held EXCEPT ![e] = @ - 1]
    /\ ackable' = [ackable EXCEPT ![e] = @ + 1]
    /\ UNCHANGED <<closeVars, closes, writeVars, outstanding, buffered, tccOut, wire, tccIn, faults>>

(* #sendAckMessage(true); nothing for a closed channel. *)
SendAck(e) ==
    /\ ackable[e] > 0 /\ state[e] \notin {"CLOSED", "DISCONNECTED"}
    /\ ackable' = [ackable EXCEPT ![e] = 0]
    /\ wire' = [wire EXCEPT ![Peer(e)] = Append(@, Ack(ackable[e]))]
    /\ UNCHANGED <<closeVars, closes, writeVars, outstanding, buffered, held, tccOut, tccIn, faults>>

(* receiveMessage of the transport: data and ACKs go to the channel, ...   *)
ReceiveData(e) ==
    /\ wire[e] # <<>> /\ Head(wire[e]).type = "data" /\ state[e] # "DISCONNECTED"
    /\ wire' = [wire EXCEPT ![e] = Tail(@)]
    /\ \/ /\ state[e] = "CLOSED"
          /\ faults' = faults \cup {"data"}
          /\ UNCHANGED readVars
       \/ /\ state[e] # "CLOSED" /\ discard[e]
          /\ ackable' = [ackable EXCEPT ![e] = @ + 1]
          /\ UNCHANGED <<buffered, held, faults>>
       \/ /\ state[e] # "CLOSED" /\ ~discard[e]
          /\ buffered' = [buffered EXCEPT ![e] = @ + 1]
          /\ UNCHANGED <<held, ackable, faults>>
    /\ UNCHANGED <<closeVars, closes, writeVars, outstanding, tccOut, tccIn>>

ReceiveAck(e) ==
    /\ wire[e] # <<>> /\ Head(wire[e]).type = "ack" /\ state[e] # "DISCONNECTED"
    /\ wire' = [wire EXCEPT ![e] = Tail(@)]
    /\ IF state[e] = "CLOSED"
       THEN faults' = faults \cup {"ack"} /\ UNCHANGED outstanding
       ELSE /\ outstanding' = [outstanding EXCEPT ![e] = @ - Head(wire[e]).count]
            /\ UNCHANGED faults
    /\ UNCHANGED <<closeVars, closes, writeVars, readVars, tccOut, tccIn>>

(* ... and TCC messages to the TCC, where they wait for #tccReader.        *)
ReceiveTcc(e) ==
    /\ wire[e] # <<>> /\ Head(wire[e]).type \in {"chanClose", "chanClosed"}
    /\ state[e] # "DISCONNECTED"
    /\ wire' = [wire EXCEPT ![e] = Tail(@)]
    /\ tccIn' = [tccIn EXCEPT ![e] = Append(@, Head(wire[e]))]
    /\ UNCHANGED <<closeVars, closes, writeVars, outstanding, readVars, tccOut, faults>>

----------------------------------------------------------------------------
(* close() *)

(* #discardExistingInput *)
DiscardExistingInput(e) ==
    /\ buffered' = [buffered EXCEPT ![e] = 0]
    /\ ackable' = [ackable EXCEPT ![e] = @ + buffered[e]]
    /\ UNCHANGED held

(* close({discard: d}) up to its first await: the first call of all leaves *)
(* OPEN; a later one may switch to discard mode, and tells the remote when *)
(* the state is (still) CLOSING.                                           *)
CallClose(e, d) ==
    \/ /\ state[e] = "OPEN"
       /\ state' = [state EXCEPT ![e] = "CLOSING"]
       /\ discard' = [discard EXCEPT ![e] = d]
       /\ closing' = [closing EXCEPT ![e] = "sendClose"]
       /\ tccOut' = [tccOut EXCEPT ![e] = Append(@, ChanClose(d))]
       /\ UNCHANGED <<switching, nulled, readVars>>
    \/ /\ state[e] = "CLOSING" /\ d /\ ~discard[e]
       /\ discard' = [discard EXCEPT ![e] = TRUE]
       /\ switching' = [switching EXCEPT ![e] = "sendClose"]
       /\ tccOut' = [tccOut EXCEPT ![e] = Append(@, ChanClose(TRUE))]
       /\ UNCHANGED <<state, closing, nulled, readVars>>
    \/ /\ state[e] \in {"LOCAL_CLOSING", "REMOTE_CLOSING"} /\ d /\ ~discard[e]
       /\ discard' = [discard EXCEPT ![e] = TRUE]
       /\ DiscardExistingInput(e)
       /\ UNCHANGED <<state, closing, switching, nulled, tccOut>>
    \/ /\ state[e] \notin {"OPEN"} \cup Closing \/ (state[e] # "OPEN" /\ (~d \/ discard[e]))
       /\ UNCHANGED <<closeVars, readVars, tccOut>>

Close(e, d) ==
    /\ closes[e] < MaxCloses[e]
    /\ closes' = [closes EXCEPT ![e] = @ + 1]
    /\ CallClose(e, d)
    /\ UNCHANGED <<writeVars, outstanding, wire, tccIn, faults>>

(* The TCC sends a message, and the close() that awaits that goes on.      *)
TccSend(e) ==
    /\ tccOut[e] # <<>> /\ state[e] # "DISCONNECTED"
    /\ LET m == Head(tccOut[e])
       IN  /\ wire' = [wire EXCEPT ![Peer(e)] = Append(@, m)]
           /\ \/ /\ m.type = "chanClosed"
                 /\ closing' = [closing EXCEPT ![e] = "closedSent"]
                 /\ UNCHANGED switching
              \/ /\ m.type = "chanClose" /\ closing[e] = "sendClose"
                 /\ closing' = [closing EXCEPT ![e] = "beforeClosing"]
                 /\ UNCHANGED switching
              \/ /\ m.type = "chanClose" /\ closing[e] # "sendClose"
                 /\ switching' = [switching EXCEPT ![e] = "discard"]
                 /\ UNCHANGED closing
    /\ tccOut' = [tccOut EXCEPT ![e] = Tail(@)]
    /\ UNCHANGED <<state, discard, nulled, closes, writeVars, outstanding, readVars, tccIn, faults>>

(* The switch to discard mode, once the remote has been told. *)
SwitchToDiscard(e) ==
    /\ switching[e] = "discard"
    /\ switching' = [switching EXCEPT ![e] = "no"]
    /\ IF state[e] = "CLOSED" THEN UNCHANGED readVars ELSE DiscardExistingInput(e)
    /\ UNCHANGED <<state, discard, closing, nulled, closes, writeVars, outstanding, tccOut,
                   wire, tccIn, faults>>

(* The beforeClosing handlers are done. *)
BeforeClosingDone(e) ==
    /\ closing[e] = "beforeClosing"
    /\ closing' = [closing EXCEPT ![e] = "drain"]
    /\ IF discard[e] THEN DiscardExistingInput(e) ELSE UNCHANGED readVars
    /\ UNCHANGED <<state, discard, switching, nulled, closes, writeVars, outstanding,
                   tccOut, wire, tccIn, faults>>

(* allWritesAcked() *)
MutAckedOnly(e) == outstanding[e] = 0
AllWritesAcked(e) == outstanding[e] = 0 /\ writes[e] = <<>>

SendChanClosed(e) ==
    /\ closing[e] = "drain" /\ state[e] # "DISCONNECTED"
    /\ AllWritesAcked(e)
    /\ closing' = [closing EXCEPT ![e] = "sendClosed"]
    /\ tccOut' = [tccOut EXCEPT ![e] = Append(@, Message("chanClosed"))]
    /\ UNCHANGED <<state, discard, switching, nulled, closes, writeVars, outstanding, readVars,
                   wire, tccIn, faults>>

(* The rest of close(), once chanClosed is sent: the state depends on      *)
(* whether the remote's chanClosed came first.                             *)
MutStateBeforeAwait(s) == "REMOTE_CLOSING"
AfterChanClosedSent(s) ==
    CASE s = "CLOSING" -> "REMOTE_CLOSING"
      [] s = "LOCAL_CLOSING" -> "CLOSED"
      [] OTHER -> s

CloseReturns(e) ==
    /\ closing[e] = "closedSent"
    /\ closing' = [closing EXCEPT ![e] = "returned"]
    /\ state' = [state EXCEPT ![e] = AfterChanClosedSent(@)]
    /\ UNCHANGED <<discard, switching, nulled, closes, writeVars, outstanding, readVars, tccOut,
                   wire, tccIn, faults>>

(* onRemoteChanClosed *)
MutClosesAtOnce(s) == IF s \in {"CLOSING", "REMOTE_CLOSING"} THEN "CLOSED" ELSE s
AfterRemoteChanClosed(s) ==
    CASE s = "CLOSING" -> "LOCAL_CLOSING"
      [] s = "REMOTE_CLOSING" -> "CLOSED"
      [] OTHER -> s

(* #finalizeClosure after its closed event: the record is nulled. *)
NullChannel(e) ==
    /\ state[e] = "CLOSED" /\ e \notin nulled
    /\ nulled' = nulled \cup {e}
    /\ UNCHANGED <<state, discard, closing, switching, closes, writeVars, outstanding, readVars,
                   tccOut, wire, tccIn, faults>>

----------------------------------------------------------------------------
(* #tccReader: #onChannelClose and #onChannelClosed.  Either is a protocol *)
(* violation for a nulled record, and stops the transport (what the stop   *)
(* then does is not modelled: the fault is what matters here).             *)
HandleChanClose(e) ==
    /\ tccIn[e] # <<>> /\ Head(tccIn[e]).type = "chanClose"
    /\ tccIn' = [tccIn EXCEPT ![e] = Tail(@)]
    /\ IF e \in nulled
       THEN faults' = faults \cup {"chanClose"} /\ UNCHANGED <<closeVars, readVars, tccOut>>
       ELSE CallClose(e, Head(tccIn[e]).discard) /\ UNCHANGED faults
    /\ UNCHANGED <<closes, writeVars, outstanding, wire>>

HandleChanClosed(e) ==
    /\ tccIn[e] # <<>> /\ Head(tccIn[e]).type = "chanClosed"
    /\ tccIn' = [tccIn EXCEPT ![e] = Tail(@)]
    /\ IF e \in nulled
       THEN faults' = faults \cup {"chanClosed"} /\ UNCHANGED state
       ELSE state' = [state EXCEPT ![e] = AfterRemoteChanClosed(@)] /\ UNCHANGED faults
    /\ UNCHANGED <<discard, closing, switching, nulled, closes, writeVars, outstanding, readVars,
                   tccOut, wire>>

(* #onDisconnect at end e.  A drain under way is rejected; a TCC message   *)
(* not sent yet goes nowhere, and the close() that awaits it fails or goes *)
(* on (after chanClosed there is nothing more to do); writes are rejected, *)
(* or hang (see EverythingSettles in FlowControl).                         *)
AfterDisconnect(step) ==
    CASE step = "sendClose" -> {"failed", "beforeClosing"}
      [] step \in {"drain", "sendClosed"} -> {"failed"}
      [] OTHER -> {step}

Disconnect(e) ==
    /\ state[e] \notin {"CLOSED", "DISCONNECTED"}
    /\ state' = [state EXCEPT ![e] = "DISCONNECTED"]
    /\ tccOut' = [tccOut EXCEPT ![e] = <<>>]
    /\ \E step \in AfterDisconnect(closing[e]) : closing' = [closing EXCEPT ![e] = step]
    /\ switching' = [switching EXCEPT ![e] = "no"]
    /\ \E w \in {<<>>, writes[e]} : writes' = [writes EXCEPT ![e] = w]
    /\ UNCHANGED <<discard, nulled, closes, written, sending, outstanding, readVars,
                   wire, tccIn, faults>>

(* A drain asked for only now: the TCC has no more use for chanClosed.     *)
CloseFails(e) ==
    /\ closing[e] = "drain" /\ state[e] = "DISCONNECTED" /\ AllWritesAcked(e)
    /\ closing' = [closing EXCEPT ![e] = "failed"]
    /\ UNCHANGED <<state, discard, switching, nulled, closes, writeVars, outstanding, readVars,
                   tccOut, wire, tccIn, faults>>

----------------------------------------------------------------------------
WriteStep(e) == NextChunk(e) \/ SendChunk(e)
ReceiveStep(e) == ReceiveData(e) \/ ReceiveAck(e) \/ ReceiveTcc(e)
CloseStep(e) == \/ TccSend(e) \/ SwitchToDiscard(e) \/ BeforeClosingDone(e)
                \/ SendChanClosed(e) \/ CloseReturns(e) \/ CloseFails(e) \/ NullChannel(e)
TccReader(e) == HandleChanClose(e) \/ HandleChanClosed(e)

Use(e) == Write(e) \/ Read(e) \/ \E d \in BOOLEAN : Close(e, d)
Progress(e) == WriteStep(e) \/ Done(e) \/ SendAck(e) \/ ReceiveStep(e) \/ CloseStep(e) \/ TccReader(e)

Next == \E e \in Ends : Use(e) \/ Progress(e) \/ (e \in MayDisconnect /\ Disconnect(e))

(* Tasks, handlers and the transport go on, and what is read is done with; *)
(* but the application may write, close or read, or not.  Every behaviour  *)
(* is finite, so this keeps none of the steps from being taken for ever.   *)
Spec == Init /\ [][Next]_vars /\ WF_vars(\E e \in Ends : Progress(e))

----------------------------------------------------------------------------
TccMessages == [type : {"chanClose"}, discard : BOOLEAN] \cup [type : {"chanClosed"}]
Messages == TccMessages \cup [type : {"data"}] \cup [type : {"ack"}, count : Nat \ {0}]

TypeOK ==
    /\ state \in [Ends -> {"OPEN", "CLOSED", "DISCONNECTED"} \cup Closing]
    /\ discard \in [Ends -> BOOLEAN]
    /\ closing \in [Ends -> {"no", "sendClose", "beforeClosing", "drain", "sendClosed",
                             "closedSent", "returned", "failed"}]
    /\ switching \in [Ends -> {"no", "sendClose", "discard"}]
    /\ nulled \subseteq {e \in Ends : state[e] = "CLOSED"}
    /\ writes \in [Ends -> Seq(1 .. MessageChunks)] /\ sending \subseteq Ends
    /\ closes \in [Ends -> Nat] /\ written \in [Ends -> Nat]
    /\ outstanding \in [Ends -> Nat] /\ \A e \in Ends : outstanding[e] <= Limit
    /\ buffered \in [Ends -> Nat] /\ held \in [Ends -> Nat] /\ ackable \in [Ends -> Nat]
    /\ tccOut \in [Ends -> Seq(TccMessages)] /\ tccIn \in [Ends -> Seq(TccMessages)]
    /\ wire \in [Ends -> Seq(Messages)]

(* The chunks e has written that its peer's application has not processed. *)
DataTo(e) == Cardinality({i \in DOMAIN wire[e] : wire[e][i].type = "data"})
ToSend(e) == IF writes[e] = <<>> THEN 0 ELSE Head(writes[e]) + (Len(writes[e]) - 1) * MessageChunks
Pending(e) == ToSend(e) + DataTo(Peer(e)) + buffered[Peer(e)] + held[Peer(e)]

(* The close handshake implements Closure: neither end is closed before    *)
(* both have finished, and an end that has finished has had all it wrote   *)
(* processed (or discarded by a remote in discard mode).                   *)
Status(e) == CASE state[e] = "OPEN" -> "open"
               [] state[e] \in Closing -> "closing"
               [] state[e] = "CLOSED" -> "closed"
               [] OTHER -> "disconnected"
Promise == INSTANCE Closure WITH
    status <- [e \in Ends |-> Status(e)],
    pending <- [e \in Ends |-> Pending(e)],
    finished <- {e \in Ends : closing[e] \in {"closedSent", "returned"}}
ImplementsClosure == Promise!Spec

(* However closes cross, nothing of a channel is on its way to an end that *)
(* is already closed (which would stop the whole transport), but for the   *)
(* echo of a switch to discard mode.  (The types come with it.)            *)
OnlyEchoIsLate == TypeOK /\ faults \subseteq {"chanClose"}

(* "This message will get echoed back to us if the remote isn't already in *)
(* discard mode, but won't have any further effect."                       *)
EchoIsHarmless == "chanClose" \notin faults

(* Only unread input, or a connection lost, keeps a close from completing: *)
(* no order of closes, switches and handshake messages leaves an end       *)
(* waiting for one that has finished.                                      *)
CloseCompletes ==
    \A e \in Ends : <>[](state[e] \in Closing =>
        \E p \in Ends : state[p] = "DISCONNECTED" \/ (buffered[p] > 0 /\ ~discard[p]))
=============================================================================
