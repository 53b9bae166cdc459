-------------------------- MODULE ControlMessages --------------------------
(***************************************************************************)
(* Channel.#receiveControlMessage (src/channel.esm.js): control messages   *)
(* (signals, message-type registration requests and responses) arrive in   *)
(* chunks, which gather in #controlChunks until the last one; the message  *)
(* is then handled, its chunks are marked processed and the list is        *)
(* cleared.  Requests and responses are handled on the spot.  A signal is  *)
(* dispatched as an event, and what follows the dispatch runs when its     *)
(* handlers are done; receiveMessage does not wait for that.               *)
(***************************************************************************)
EXTENDS Integers, Sequences, FiniteSets, SequencesExt

CONSTANT
    MaxChunks      \* bound: chunks of control messages that the remote sends

ASSUME BoundsAssumption == MaxChunks \in Nat

Types == {"signal", "regRequest", "regResponse"}
Headers == [type : Types, eom : BOOLEAN]

VARIABLES
    sent,           \* what the remote sends: the headers of the chunks
    oneAtATime,     \* the event loop turns between chunks and no handler awaits
    nextReadSeq,    \* the chunk received next; earlier ones have arrived
    controlChunks,  \* #controlChunks, as sequence numbers
    handled,        \* chunks of each message handled, in order of handling
    dispatching,    \* signals whose handlers are not done, as indices of handled
    processed,      \* chunks marked processed
    closed          \* close() was called for an incomplete control message

vars == <<sent, oneAtATime, nextReadSeq, controlChunks, handled, dispatching, processed, closed>>

----------------------------------------------------------------------------
(* A message goes on with its own type until its last chunk. *)
WholeMessages(headers) ==
    \A k \in DOMAIN headers :
        ~headers[k].eom => k + 1 \in DOMAIN headers /\ headers[k + 1].type = headers[k].type

TypeOf(s) == sent[s].type
EndOfMessage(s) == sent[s].eom

Init ==
    /\ sent \in UNION {[1 .. n -> Headers] : n \in 0 .. MaxChunks} /\ WholeMessages(sent)
    /\ oneAtATime \in BOOLEAN
    /\ nextReadSeq = 1 /\ controlChunks = <<>> /\ handled = <<>>
    /\ dispatching = {} /\ processed = {} /\ closed = FALSE

(* Another type in the middle of a message: an incomplete message. *)
Incomplete(s) == controlChunks # <<>> /\ TypeOf(Head(controlChunks)) # TypeOf(s)

MutKeepsChunks(chunks) ==
    /\ processed' = processed \cup Range(chunks)
    /\ controlChunks' = chunks
MutLastChunkOnly(chunks) ==
    /\ processed' = processed \cup (IF chunks = <<>> THEN {} ELSE {Last(chunks)})
    /\ controlChunks' = <<>>
(* The finally of the handling: whatever is in #controlChunks by then. *)
FinishHandling(chunks) ==
    /\ processed' = processed \cup Range(chunks)
    /\ controlChunks' = <<>>

(* The event is dispatched; the chunks stay until its handlers are done.   *)
Dispatch(chunks) ==
    /\ dispatching' = dispatching \cup {Len(handled')}
    /\ controlChunks' = chunks
    /\ UNCHANGED processed

(* A chunk arrives.  (A type that is none of the three, and a chunk that   *)
(* received() rejects, close the channel too: no honest remote sends one.) *)
ReceiveControlMessage ==
    /\ nextReadSeq <= Len(sent) /\ ~closed
    /\ oneAtATime => dispatching = {}
    /\ nextReadSeq' = nextReadSeq + 1
    /\ LET s == nextReadSeq
           chunks == Append(controlChunks, s)
       IN  \/ /\ Incomplete(s)
              /\ closed' = TRUE
              /\ UNCHANGED <<controlChunks, handled, dispatching, processed>>
           \/ /\ ~Incomplete(s) /\ ~EndOfMessage(s)
              /\ controlChunks' = chunks
              /\ UNCHANGED <<handled, dispatching, processed, closed>>
           \/ /\ ~Incomplete(s) /\ EndOfMessage(s) /\ TypeOf(s) # "signal"
              /\ handled' = Append(handled, chunks)
              /\ FinishHandling(chunks)
              /\ UNCHANGED <<dispatching, closed>>
           \/ /\ ~Incomplete(s) /\ EndOfMessage(s) /\ TypeOf(s) = "signal"
              /\ handled' = Append(handled, chunks)
              /\ Dispatch(chunks)
              /\ UNCHANGED closed
    /\ UNCHANGED <<sent, oneAtATime>>

(* All handlers of the event of signal d are done. *)
SignalHandled(d) ==
    /\ d \in dispatching
    /\ dispatching' = dispatching \ {d}
    /\ FinishHandling(controlChunks)
    /\ UNCHANGED <<sent, oneAtATime, nextReadSeq, handled, closed>>

Next == ReceiveControlMessage \/ \E d \in dispatching : SignalHandled(d)

(* The remote's chunks arrive and handlers return. *)
Spec == Init /\ [][Next]_vars
             /\ WF_vars(ReceiveControlMessage)
             /\ \A d \in 1 .. MaxChunks : WF_vars(SignalHandled(d))

----------------------------------------------------------------------------
TypeOK ==
    /\ oneAtATime \in BOOLEAN
    /\ nextReadSeq \in 1 .. Len(sent) + 1
    /\ Range(controlChunks) \subseteq 1 .. nextReadSeq - 1
    /\ dispatching \subseteq DOMAIN handled
    /\ processed \subseteq (1 .. nextReadSeq - 1) \ Range(controlChunks)
    /\ closed \in BOOLEAN

(* "The `event.detail` is the raw text string sent by the remote", and     *)
(* handlers "are awaited before the message is marked as processed": when  *)
(* control chunks arrive one at a time, every message is handled once, in  *)
(* order and as it was sent.  No handler sees chunks of another message or *)
(* misses some of its own, none is taken for incomplete, and none is ACKed *)
(* while it is handled.                                                    *)
IsMessage(chunks) ==
    chunks # <<>> /\ \A k \in DOMAIN chunks :
        /\ chunks[k] = chunks[1] + k - 1 /\ chunks[k] \in DOMAIN sent
        /\ EndOfMessage(chunks[k]) <=> k = Len(chunks)
HandledAsSent ==
    /\ ~closed
    /\ \A i \in DOMAIN handled :
          /\ IsMessage(handled[i])
          /\ Head(handled[i]) = IF i = 1 THEN 1 ELSE Last(handled[i - 1]) + 1
    /\ \A s \in 1 .. nextReadSeq - 1 :
          EndOfMessage(s) => \E i \in DOMAIN handled : Last(handled[i]) = s
HandledBeforeProcessed == \A d \in dispatching : Range(handled[d]) \cap processed = {}
HandledInTurn == TypeOK /\ (oneAtATime => HandledAsSent /\ HandledBeforeProcessed)

(* Budget does not leak, however signals overlap: every chunk accepted is  *)
(* marked processed in the end, unless the channel is closed.              *)
EveryChunkProcessed ==
    \A s \in 1 .. MaxChunks :
        s < nextReadSeq ~> s \in processed \/ closed
============================================================================
