------------------------- MODULE TransportLifecycle -------------------------
(***************************************************************************)
(* Starting, stopping and losing a transport (src/transport/base.esm.js:   *)
(* start, stop, #finalizeStop, #onDisconnect, #onTransportStop,            *)
(* #onTransportStopped, #tccReader; src/transport/byte.esm.js: the         *)
(* handshake of #byteReader).  Both ends of a byte-stream transport, with  *)
(* one channel that either may request and that is open, closing or being  *)
(* requested when a stop or the loss of the connection comes in.           *)
(*                                                                         *)
(* A stop() is a process of its own; it awaits its event handlers, what it *)
(* sends and the closing of the channel, while #tccReader handles, one by  *)
(* one, the messages of the remote.  What can go wrong beyond interleaving *)
(* is the `trouble` of a behaviour, at most one kind each, so that the     *)
(* properties can name the kinds they do not survive.                      *)
(***************************************************************************)
EXTENDS Integers, Sequences, FiniteSets

CONSTANTS
    Troubles,     \* the kinds of trouble there may be
    MaxStops,     \* bound: calls of stop() by applications
    MaxRequests   \* bound: calls of requestChannel that send a request

Ends == {"a", "b"}
Peer(e) == CHOOSE p \in Ends : p # e

(* "timeout"     stop() is given a timeout                                 *)
(* "early"       stop() is called before the transport is active           *)
(* "handler"     a newChannel handler awaits stop()                        *)
(* "accept"      a newChannel handler accepts when it is no longer active  *)
(* "text"        a handler of outOfBandData takes its time                 *)
(* "abort"       stop({ disconnected: true }) is called                    *)
(* "loss"        the connection is lost                                    *)
(* "starting"    the connection is lost during the handshake               *)
(* "sending"     the connection is lost as tranStopped is sent             *)
(* "draining"    the connection is lost as the last output is written      *)
(* "crash"       an end is gone without a word                             *)
AllTroubles == {"timeout", "early", "handler", "accept", "text", "abort",
                "loss", "starting", "sending", "draining", "crash"}
Losses == {"loss", "early", "text", "starting", "sending", "draining"}

(* Bounds: trouble of these kinds comes without requests for channels, or  *)
(* with one stop only; in all but the last kinds nothing else happens      *)
(* before both ends are active; and channels are requested more than once  *)
(* where there is no trouble.                                              *)
WithoutChannel == {"early", "text", "starting", "sending", "draining"}
WithOneStop == {"early", "text", "loss", "crash"}
InHandshake == {"early", "text", "starting"}

ASSUME TroublesAssumption == Troubles \subseteq AllTroubles
ASSUME BoundsAssumption == MaxStops \in Nat /\ MaxRequests \in Nat

VARIABLES
    trouble,    \* the kind of trouble of this behaviour, or "none"
    state,      \* state[e] of the transport; "crashed" if there is none any more
    started,    \* started[e]: the promise of start()
    reader,     \* reader[e]: what #byteReader expects
    text,       \* text[e]: a handler of outOfBandData: "none", "handled" or it is awaited
    tcc,        \* tcc[e]: state of the transport control channel
    handling,   \* handling[e]: what #tccReader awaits
    channel,    \* channel[e]: state of the regular channel
    pending,    \* pending[e]: the entry of pendingChannelRequests and its promise
    calls,      \* calls[e]: the stop() calls that do not return at once
    stopped,    \* stopped[e]: the current promise, by the call that made it; 0 is null
    resolved,   \* resolved[e]: promises that are resolved
    final,      \* final[e]: how far #finalizeStop is
    wire,       \* wire[e]: what is on its way to e
    inbox,      \* inbox[e]: messages of the TCC that #tccReader has not taken
    lost,       \* the connection is lost
    stops, requests  \* counts

startVars == <<started, reader, text>>
stopVars == <<calls, stopped, resolved, final>>
channelVars == <<channel, pending>>
countVars == <<stops, requests>>
vars == <<trouble, state, startVars, tcc, handling, channelVars, stopVars, wire, inbox, lost, countVars>>

Terminal == {"stopped", "disconnected"}
Stopping == {"stopping", "localStopping", "remoteStopping"}
Closing == {"closing", "localClosing", "remoteClosing"}

Ready == trouble \in InHandshake \/ \A e \in Ends : started[e] = "resolved"
RequestsLeft == requests < IF trouble # "none" /\ MaxRequests > 1 THEN 1 ELSE MaxRequests
StopsLeft == stops < IF trouble \in WithOneStop /\ MaxStops > 1 THEN 1 ELSE MaxStops
Running(e) == state[e] \notin Terminal \cup {"crashed"}

SendAll(e, ms) == wire' = IF lost THEN wire ELSE [wire EXCEPT ![Peer(e)] = @ \o ms]
Send(e, m) == SendAll(e, <<m>>)
Taken(e) == wire' = [wire EXCEPT ![e] = Tail(@)]

Init ==
    /\ trouble \in Troubles \cup {"none"}
    /\ state = [e \in Ends |-> "created"] /\ started = [e \in Ends |-> "none"]
    /\ reader = [e \in Ends |-> "none"] /\ text = [e \in Ends |-> "none"]
    /\ tcc = [e \in Ends |-> "none"] /\ handling = [e \in Ends |-> "none"]
    /\ channel = [e \in Ends |-> "none"] /\ pending = [e \in Ends |-> "none"]
    /\ calls = [e \in Ends |-> <<>>] /\ stopped = [e \in Ends |-> 0]
    /\ resolved = [e \in Ends |-> {}] /\ final = [e \in Ends |-> "none"]
    /\ wire = [e \in Ends |-> <<>>] /\ inbox = [e \in Ends |-> <<>>]
    /\ lost = FALSE
    /\ stops = 0 /\ requests = 0

----------------------------------------------------------------------------
(* Starting: the greeting with the configuration, then the mark that what  *)
(* follows are messages.                                                   *)

Start(e) ==
    /\ state[e] = "created"
    /\ state' = [state EXCEPT ![e] = "starting"]
    /\ started' = [started EXCEPT ![e] = "pending"]
    /\ reader' = [reader EXCEPT ![e] = "config"]
    /\ Send(e, "config")
    /\ UNCHANGED <<trouble, text, tcc, handling, channelVars, stopVars, inbox, lost, countVars>>

Arrived(e, m) == text[e] # "awaited" /\ Running(e) /\ wire[e] # <<>> /\ Head(wire[e]) = m

(* onRemoteConfig *)
ReceiveConfig(e) ==
    /\ reader[e] = "config" /\ Arrived(e, "config")
    /\ tcc' = [tcc EXCEPT ![e] = "open"]
    /\ wire' = [wire EXCEPT ![e] = Tail(@), ![Peer(e)] = IF lost THEN @ ELSE Append(@, "start")]
    /\ reader' = [reader EXCEPT ![e] = "start"]
    /\ UNCHANGED <<trouble, state, started, text, handling, channelVars, stopVars, inbox, lost, countVars>>

(* onRemoteReady sets the state whatever it is. *)
OnRemoteReady(e) ==
    /\ state' = [state EXCEPT ![e] = "active"]
    /\ started' = [started EXCEPT ![e] = "resolved"]
    /\ reader' = [reader EXCEPT ![e] = "messages"]
ReceiveStart(e) ==
    /\ reader[e] = "start" /\ Arrived(e, "start")
    /\ OnRemoteReady(e)
    /\ Taken(e)
    /\ UNCHANGED <<trouble, text, tcc, handling, channelVars, stopVars, inbox, lost, countVars>>

(* Text that is not part of the protocol, before it starts (bound: once). *)
ReceiveText(e) ==
    /\ trouble = "text" /\ reader[e] \in {"config", "start"} /\ text[e] = "none" /\ Running(e)
    /\ text' = [text EXCEPT ![e] = "awaited"]
    /\ UNCHANGED <<trouble, state, started, reader, tcc, handling, channelVars, stopVars, wire, inbox, lost, countVars>>

(* In a terminal state the loop of the handshake ends, and what follows it *)
(* is onRemoteReady(): after the handlers of the text, or when input comes *)
(* while stop() still drains the output (then what is read is not what the *)
(* message loop expects).                                                  *)
TextHandled(e) ==
    /\ text[e] = "awaited" /\ state[e] # "crashed"
    /\ text' = [text EXCEPT ![e] = "handled"]
    /\ IF state[e] \in Terminal THEN OnRemoteReady(e) ELSE UNCHANGED <<state, started, reader>>
    /\ UNCHANGED <<trouble, tcc, handling, channelVars, stopVars, wire, inbox, lost, countVars>>
InputWhileDraining(e) ==
    /\ reader[e] \in {"config", "start"} /\ text[e] # "awaited"
    /\ state[e] = "stopped" /\ final[e] = "draining" /\ wire[e] # <<>>
    /\ state' = [state EXCEPT ![e] = "active"]
    /\ started' = [started EXCEPT ![e] = "resolved"]
    /\ reader' = [reader EXCEPT ![e] = "ended"]
    /\ UNCHANGED <<trouble, text, tcc, handling, channelVars, stopVars, wire, inbox, lost, countVars>>

(* A reader that waits for input is woken when the transport has stopped.  *)
ReaderEnds(e) == reader' = [reader EXCEPT ![e] = IF text[e] = "awaited" THEN @ ELSE "ended"]

----------------------------------------------------------------------------
(* The channel *)

RequestChannel(e) ==
    /\ RequestsLeft /\ trouble \notin WithoutChannel /\ Ready
    /\ state[e] = "active" /\ channel[e] = "none" /\ pending[e] = "none"
    /\ pending' = [pending EXCEPT ![e] = "waiting"]
    /\ Send(e, "chanRequest")
    /\ requests' = requests + 1
    /\ UNCHANGED <<trouble, state, startVars, tcc, handling, channel, stopVars, inbox, lost, stops>>

IsClosing(e) == channel[e] \in Closing
StartClosing(e) == [channel EXCEPT ![e] = IF @ = "open" THEN "closing" ELSE @]

(* All is ACKed, and chanClosed can be sent. *)
SendChanClosed(e) ==
    /\ channel[e] \in {"closing", "localClosing"} /\ tcc[e] = "open" /\ state[e] # "crashed"
    /\ channel' = [channel EXCEPT ![e] = IF @ = "closing" THEN "remoteClosing" ELSE "closed"]
    /\ Send(e, "chanClosed")
    /\ UNCHANGED <<trouble, state, startVars, tcc, handling, pending, stopVars, inbox, lost, countVars>>

----------------------------------------------------------------------------
(* stop() *)

Call(pc, promise, timeout, handler) ==
    [pc |-> pc, promise |-> promise, timeout |-> timeout, handler |-> handler, waits |-> FALSE]

(* A stop that is under way, or over, is waited for; after a timeout there *)
(* is no promise, and undefined is there at once.                          *)
Joins(e) == IF stopped[e] = 0 THEN "returned" ELSE "waiting"
NewStop(e, timeout, handler) ==
    IF state[e] \in {"created", "starting", "active"}
    THEN /\ calls' = [calls EXCEPT ![e] = Append(@, Call("beforeStopping", Len(@) + 1, timeout, handler))]
         /\ stopped' = [stopped EXCEPT ![e] = Len(calls[e]) + 1]
         /\ state' = [state EXCEPT ![e] = "stopping"]
    ELSE /\ calls' = [calls EXCEPT ![e] = Append(@, Call(Joins(e), stopped[e], FALSE, handler))]
         /\ UNCHANGED <<stopped, state>>

Stop(e, timeout) ==
    /\ StopsLeft /\ state[e] # "crashed" /\ Ready
    /\ timeout => trouble = "timeout"
    /\ trouble # "early" => state[e] \notin {"created", "starting"}
    /\ stops' = stops + 1
    /\ NewStop(e, timeout, FALSE)
    /\ UNCHANGED <<trouble, startVars, tcc, handling, channelVars, resolved, final, wire, inbox, lost, requests>>

At(e, k, pc) == k \in DOMAIN calls[e] /\ calls[e][k].pc = pc /\ state[e] # "crashed"
Goto(e, k, pc) == calls' = [calls EXCEPT ![e][k].pc = pc]

(* The handlers of beforeStopping are done: pending requests are rejected, *)
(* and tranStop is sent.  Without a TCC, as the handshake did not come so  *)
(* far, there is nothing to send and nothing to close.                     *)
MutLeavesRequests(e) == pending
RejectRequests(e) == [pending EXCEPT ![e] = IF @ = "waiting" THEN "settled" ELSE @]
BeforeStoppingDone(e, k) ==
    /\ At(e, k, "beforeStopping")
    /\ pending' = RejectRequests(e)
    /\ CASE tcc[e] = "none" /\ state[e] = "disconnected" ->
                Goto(e, k, "waiting") /\ UNCHANGED <<state, final, wire>>
         [] tcc[e] = "none" /\ state[e] # "disconnected" ->
                /\ Goto(e, k, "finalizing") /\ UNCHANGED wire
                /\ state' = [state EXCEPT ![e] = "stopped"]
                /\ final' = [final EXCEPT ![e] = "draining"]
         [] tcc[e] = "open" ->
                Goto(e, k, "tranStop") /\ Send(e, "tranStop") /\ UNCHANGED <<state, final>>
         [] tcc[e] = "closed" -> Goto(e, k, "failed") /\ UNCHANGED <<state, final, wire>>
    /\ UNCHANGED <<trouble, startVars, tcc, handling, channel, stopped, resolved, inbox, lost, countVars>>

(* tranStop is sent: the channel is closed, if there is one by now. *)
MutDoesNotWait(e) == FALSE
AwaitsChannel(e) == channel[e] = "open" \/ IsClosing(e)
CloseChannels(e, k) ==
    /\ At(e, k, "tranStop")
    /\ channel' = StartClosing(e)
    /\ SendAll(e, IF channel[e] = "open" /\ tcc[e] = "open" THEN <<"chanClose">> ELSE <<>>)
    /\ calls' = [calls EXCEPT ![e][k].pc = "closing", ![e][k].waits = AwaitsChannel(e)]
    /\ UNCHANGED <<trouble, state, startVars, tcc, handling, pending, stopped, resolved, final, inbox, lost, countVars>>

(* #finalizeStop, up to the closed event of the TCC. *)
FinalizeStop(e) ==
    /\ tcc' = [tcc EXCEPT ![e] = "closed"]
    /\ final' = [final EXCEPT ![e] = "closing"]

(* The channel is closed (or its close() failed, for want of a TCC to tell *)
(* the remote): tranStopped is sent, unless the transport is disconnected  *)
(* by then.                                                                *)
ChannelsClosed(e, k) ==
    /\ At(e, k, "closing")
    /\ calls[e][k].waits => channel[e] \in {"closed", "disconnected"} \/ tcc[e] = "closed"
    /\ CASE state[e] = "disconnected" -> Goto(e, k, "waiting") /\ UNCHANGED wire
         [] state[e] # "disconnected" /\ tcc[e] = "open" ->
                Goto(e, k, "tranStopped") /\ Send(e, "tranStopped")
         [] state[e] # "disconnected" /\ tcc[e] = "closed" -> Goto(e, k, "failed") /\ UNCHANGED wire
    /\ UNCHANGED <<trouble, state, startVars, tcc, handling, channelVars, stopped, resolved, final, inbox, lost, countVars>>

(* The timeout comes first: stop() is rejected. *)
Timeout(e, k) ==
    /\ At(e, k, "closing") /\ calls[e][k].timeout /\ state[e] # "disconnected"
    /\ stopped' = [stopped EXCEPT ![e] = 0]
    /\ Goto(e, k, "failed")
    /\ UNCHANGED <<trouble, state, startVars, tcc, handling, channelVars, resolved, final, wire, inbox, lost, countVars>>

(* tranStopped is sent.  Only now is the state looked at: has the remote   *)
(* sent its own?                                                           *)
MutFinalizesFirst(e) == TRUE
RemoteIsDone(e) == state[e] = "localStopping"
TranStoppedSent(e, k) ==
    /\ At(e, k, "tranStopped")
    /\ IF RemoteIsDone(e)
       THEN Goto(e, k, "finalizing") /\ FinalizeStop(e) /\ UNCHANGED state
       ELSE /\ Goto(e, k, "waiting")
            /\ state' = [state EXCEPT ![e] = "remoteStopping"]
            /\ UNCHANGED <<tcc, final>>
    /\ UNCHANGED <<trouble, startVars, handling, channelVars, stopped, resolved, wire, inbox, lost, countVars>>

(* #finalizeStop goes on when the TCC is closed, ... *)
TccClosed(e) ==
    /\ final[e] = "closing" /\ state[e] # "crashed"
    /\ IF state[e] = "disconnected"
       THEN final' = [final EXCEPT ![e] = "done"] /\ UNCHANGED state
       ELSE final' = [final EXCEPT ![e] = "draining"] /\ state' = [state EXCEPT ![e] = "stopped"]
    /\ UNCHANGED <<trouble, startVars, tcc, handling, channelVars, calls, stopped, resolved, wire, inbox, lost, countVars>>

(* ... and when the last output is written; or that fails, and with it the *)
(* rest of #finalizeStop.                                                  *)
Drained(e) ==
    /\ final[e] = "draining" /\ state[e] # "crashed"
    /\ final' = [final EXCEPT ![e] = "done"]
    /\ resolved' = [resolved EXCEPT ![e] = @ \cup {stopped[e]}]
    /\ ReaderEnds(e)
    /\ UNCHANGED <<trouble, state, started, text, tcc, handling, channelVars, calls, stopped, wire, inbox, lost, countVars>>
DrainFails(e) ==
    /\ final[e] = "draining" /\ trouble = "draining" /\ lost
    /\ final' = [final EXCEPT ![e] = "failed"]
    /\ UNCHANGED <<trouble, state, startVars, tcc, handling, channelVars, calls, stopped, resolved, wire, inbox, lost, countVars>>

(* Whoever awaits #finalizeStop goes on. *)
Finalized(e, k) ==
    /\ At(e, k, "finalizing") /\ final[e] \in {"done", "failed"}
    /\ Goto(e, k, IF final[e] = "done" THEN "waiting" ELSE "failed")
    /\ UNCHANGED <<trouble, state, startVars, tcc, handling, channelVars, stopped, resolved, final, wire, inbox, lost, countVars>>

----------------------------------------------------------------------------
(* Messages.  #byteReader puts them into the channel of the TCC, and stops *)
(* after the response to a request until all of the TCC is processed;      *)
(* #tccReader takes them one by one, and goes on with what is there when   *)
(* the transport has been disconnected.                                    *)

Responses == {"chanAccepted", "chanRejected"}
Receive(e) ==
    /\ reader[e] = "messages" /\ Running(e) /\ tcc[e] = "open" /\ wire[e] # <<>>
    /\ \A i \in DOMAIN inbox[e] : inbox[e][i] \notin Responses
    /\ inbox' = [inbox EXCEPT ![e] = Append(@, Head(wire[e]))]
    /\ Taken(e)
    /\ UNCHANGED <<trouble, state, startVars, tcc, handling, channelVars, stopVars, lost, countVars>>

Takes(e, ms) ==
    /\ handling[e] = "none" /\ state[e] # "crashed"
    /\ inbox[e] # <<>> /\ Head(inbox[e]) \in ms
    /\ inbox' = [inbox EXCEPT ![e] = Tail(@)]

(* #onChannelRequest: a channel that is open is not opened again; else the *)
(* handlers of newChannel are asked.                                       *)
OnChannelRequest(e) ==
    /\ Takes(e, {"chanRequest"})
    /\ IF channel[e] = "open"
       THEN Send(e, "chanRejected") /\ UNCHANGED handling
       ELSE handling' = [handling EXCEPT ![e] = "request"] /\ UNCHANGED wire
    /\ UNCHANGED <<trouble, state, startVars, tcc, channelVars, stopVars, lost, countVars>>

HandlersDone(e) ==
    /\ state[e] # "crashed"
    /\ handling' = [handling EXCEPT ![e] = "none"]

(* They accept: the state is not asked again, but to see whether there is  *)
(* somebody to send the response to.                                       *)
Accept(e) ==
    /\ handling[e] = "request" /\ HandlersDone(e)
    /\ trouble # "accept" => state[e] = "active"
    /\ channel' = [channel EXCEPT ![e] = IF @ \in {"none", "closed"} THEN "open" ELSE @]
    /\ SendAll(e, IF state[e] = "disconnected" THEN <<>> ELSE <<"chanAccepted">>)
    /\ pending' = [pending EXCEPT ![e] = IF @ = "waiting" THEN "settled" ELSE @]
    /\ UNCHANGED <<trouble, state, startVars, tcc, stopVars, inbox, lost, countVars>>

Settled(e, k) ==
    \/ calls[e][k].pc \in {"returned", "failed"}
    \/ calls[e][k].pc = "waiting" /\ calls[e][k].promise \in resolved[e]
StoppedByHandler(e) == \E k \in DOMAIN calls[e] : calls[e][k].handler

Reject(e) ==
    /\ \/ handling[e] = "request"
       \/ handling[e] = "stop" /\ \A k \in DOMAIN calls[e] : calls[e][k].handler => Settled(e, k)
    /\ HandlersDone(e)
    /\ SendAll(e, IF state[e] = "disconnected" THEN <<>> ELSE <<"chanRejected">>)
    /\ UNCHANGED <<trouble, state, startVars, tcc, channelVars, stopVars, inbox, lost, countVars>>

(* A handler awaits stop() while #tccReader awaits the handler. *)
HandlerStops(e) ==
    /\ trouble = "handler" /\ handling[e] = "request" /\ Running(e) /\ ~StoppedByHandler(e)
    /\ NewStop(e, FALSE, TRUE)
    /\ handling' = [handling EXCEPT ![e] = "stop"]
    /\ UNCHANGED <<trouble, startVars, tcc, channelVars, resolved, final, wire, inbox, lost, countVars>>

(* #onChannelResponse.  The entry of a request that stop() has rejected is *)
(* still there, and the channel is created.                                *)
OnChannelResponse(e) ==
    /\ Takes(e, Responses)
    /\ channel' = [channel EXCEPT ![e] =
           IF Head(inbox[e]) = "chanAccepted" /\ pending[e] # "none" /\ @ \in {"none", "closed"}
           THEN "open" ELSE @]
    /\ pending' = [pending EXCEPT ![e] = "none"]
    /\ UNCHANGED <<trouble, state, startVars, tcc, handling, stopVars, wire, lost, countVars>>

(* #onChannelClose, #onChannelClosed *)
OnChannelClose(e) ==
    /\ Takes(e, {"chanClose"})
    /\ channel' = StartClosing(e)
    /\ SendAll(e, IF channel[e] = "open" THEN <<"chanClose">> ELSE <<>>)
    /\ UNCHANGED <<trouble, state, startVars, tcc, handling, pending, stopVars, lost, countVars>>
OnChannelClosed(e) ==
    /\ Takes(e, {"chanClosed"})
    /\ channel' = [channel EXCEPT ![e] = CASE @ = "closing" -> "localClosing"
                                           [] @ = "remoteClosing" -> "closed"
                                           [] OTHER -> @]
    /\ UNCHANGED <<trouble, state, startVars, tcc, handling, pending, stopVars, wire, lost, countVars>>

(* #onTransportStop: this end stops, too. *)
MutIgnoresStop(e) == FALSE
Follows(e) == state[e] = "active"
OnTransportStop(e) ==
    /\ Takes(e, {"tranStop"})
    /\ IF Follows(e) THEN NewStop(e, FALSE, FALSE) ELSE UNCHANGED <<calls, stopped, state>>
    /\ UNCHANGED <<trouble, startVars, tcc, handling, channelVars, resolved, final, wire, lost, countVars>>

(* #onTransportStopped: which end is done first? *)
OnTransportStopped(e) ==
    /\ Takes(e, {"tranStopped"})
    /\ state' = [state EXCEPT ![e] = IF @ = "stopping" THEN "localStopping" ELSE @]
    /\ IF state[e] = "remoteStopping"
       THEN FinalizeStop(e) /\ handling' = [handling EXCEPT ![e] = "finalize"]
       ELSE UNCHANGED <<tcc, final, handling>>
    /\ UNCHANGED <<trouble, startVars, channelVars, calls, stopped, resolved, wire, lost, countVars>>
FinalizeHandled(e) ==
    /\ handling[e] = "finalize" /\ final[e] = "done" /\ HandlersDone(e)
    /\ UNCHANGED <<trouble, state, startVars, tcc, channelVars, stopVars, wire, inbox, lost, countVars>>

----------------------------------------------------------------------------
(* Losing the connection *)

Lose ==
    /\ ~lost /\ trouble \in Losses /\ Ready
    /\ lost' = TRUE
    /\ UNCHANGED <<trouble, state, startVars, tcc, handling, channelVars, stopVars, wire, inbox, countVars>>

Crash(e) ==
    /\ trouble = "crash" /\ Ready /\ Running(e) /\ state[Peer(e)] # "crashed"
    /\ state' = [state EXCEPT ![e] = "crashed"]
    /\ UNCHANGED <<trouble, startVars, tcc, handling, channelVars, stopVars, wire, inbox, lost, countVars>>

(* #onDisconnect: without a promise it makes one of its own. *)
OwnPromise == -1
DisconnectChannel(e) ==
    [channel EXCEPT ![e] = IF @ \in {"open"} \cup Closing THEN "disconnected" ELSE @]
MutForgetsItIsOver(e) == state[e] # "crashed"
MayDisconnect(e) == Running(e)
OnDisconnect(e) ==
    /\ MayDisconnect(e)
    /\ trouble \notin InHandshake => state[e] \notin {"created", "starting"}
    /\ trouble # "sending" => \A k \in DOMAIN calls[e] : calls[e][k].pc # "tranStopped"
    /\ state' = [state EXCEPT ![e] = "disconnected"]
    /\ LET promise == IF stopped[e] = 0 THEN OwnPromise ELSE stopped[e] IN
       /\ stopped' = [stopped EXCEPT ![e] = promise]
       /\ resolved' = [resolved EXCEPT ![e] = @ \cup {promise}]
    /\ pending' = [pending EXCEPT ![e] = "none"]
    /\ channel' = DisconnectChannel(e)
    /\ tcc' = [tcc EXCEPT ![e] = IF @ = "none" THEN @ ELSE "closed"]
    /\ ReaderEnds(e)
    /\ wire' = [wire EXCEPT ![e] = <<>>]
    /\ UNCHANGED <<trouble, started, text, handling, calls, final, inbox, lost>>

NoticeLoss(e) == lost /\ OnDisconnect(e) /\ UNCHANGED countVars

Abort(e) ==   \* stop({ disconnected: true })
    /\ trouble = "abort" /\ StopsLeft /\ stops' = stops + 1 /\ Ready
    /\ OnDisconnect(e)
    /\ UNCHANGED requests

(* The remote has closed the connection.  That is what the end of a stop   *)
(* looks like, so it is not looked at while tranStopped is waited for.     *)
Gone(e) == state[e] \in {"crashed", "disconnected"} \/ (state[e] = "stopped" /\ final[e] = "done")
EndOfInput(e) ==
    /\ Gone(Peer(e)) /\ wire[e] = <<>>
    /\ state[e] \notin {"stopped", "remoteStopping"}
    /\ OnDisconnect(e)
    /\ UNCHANGED countVars

----------------------------------------------------------------------------
CallStep(e, k) ==
    \/ BeforeStoppingDone(e, k) \/ CloseChannels(e, k) \/ ChannelsClosed(e, k)
    \/ Timeout(e, k) \/ TranStoppedSent(e, k) \/ Finalized(e, k)
HandlerStep(e) == Accept(e) \/ Reject(e) \/ HandlerStops(e)
TakeStep(e) ==
    \/ OnChannelRequest(e) \/ OnChannelResponse(e) \/ OnChannelClose(e) \/ OnChannelClosed(e)
    \/ OnTransportStop(e) \/ OnTransportStopped(e) \/ FinalizeHandled(e)
StartStep(e) == ReceiveConfig(e) \/ ReceiveStart(e) \/ TextHandled(e)

Next ==
    \/ \E e \in Ends :
        \/ Start(e) \/ StartStep(e) \/ ReceiveText(e) \/ InputWhileDraining(e)
        \/ RequestChannel(e) \/ SendChanClosed(e)
        \/ \E timeout \in BOOLEAN : Stop(e, timeout)
        \/ \E k \in DOMAIN calls[e] : CallStep(e, k)
        \/ TccClosed(e) \/ Drained(e) \/ DrainFails(e)
        \/ Receive(e) \/ TakeStep(e) \/ HandlerStep(e)
        \/ Crash(e) \/ NoticeLoss(e) \/ Abort(e) \/ EndOfInput(e)
    \/ Lose

(* What runs by itself goes on, and handlers return: promises settle and   *)
(* input is read.  No step is ever undone, so that a behaviour in which    *)
(* some step of the two programs is taken while there is one takes all.    *)
Works(e) ==
    \/ StartStep(e) \/ SendChanClosed(e)
    \/ \E k \in DOMAIN calls[e] : CallStep(e, k)
    \/ TccClosed(e) \/ Drained(e) \/ DrainFails(e)
    \/ Receive(e) \/ TakeStep(e) \/ HandlerStep(e)
    \/ NoticeLoss(e) \/ EndOfInput(e)
Fairness == WF_vars(\E e \in Ends : Works(e))

Spec == Init /\ [][Next]_vars /\ Fairness

----------------------------------------------------------------------------
(* Properties *)

CallSet == [pc : {"beforeStopping", "tranStop", "closing", "tranStopped", "finalizing",
                  "waiting", "returned", "failed"},
            promise : Int, timeout : BOOLEAN, handler : BOOLEAN, waits : BOOLEAN]
HandshakeMessages == {"config", "start"}
Messages == Responses \cup {"chanRequest", "chanClose", "chanClosed", "tranStop", "tranStopped"}

(* Types; a stop() that joins another has its promise to wait for, and     *)
(* messages are what follows the handshake.                                *)
TypeOK ==
    /\ trouble \in AllTroubles \cup {"none"} /\ lost \in BOOLEAN
    /\ state \in [Ends -> {"created", "starting", "active", "crashed"} \cup Stopping \cup Terminal]
    /\ started \in [Ends -> {"none", "pending", "resolved"}]
    /\ reader \in [Ends -> {"none", "config", "start", "messages", "ended"}]
    /\ text \in [Ends -> {"none", "awaited", "handled"}]
    /\ tcc \in [Ends -> {"none", "open", "closed"}]
    /\ handling \in [Ends -> {"none", "request", "stop", "finalize"}]
    /\ channel \in [Ends -> {"none", "open", "closed", "disconnected"} \cup Closing]
    /\ pending \in [Ends -> {"none", "waiting", "settled"}]
    /\ calls \in [Ends -> Seq(CallSet)]
    /\ \A e \in Ends : \A k \in DOMAIN calls[e] : calls[e][k].pc = "waiting" => calls[e][k].promise # 0
    /\ stopped \in [Ends -> Int] /\ \A e \in Ends : stopped[e] \in OwnPromise .. Len(calls[e])
    /\ resolved \in [Ends -> SUBSET Int]
    /\ final \in [Ends -> {"none", "closing", "draining", "done", "failed"}]
    /\ wire \in [Ends -> Seq(HandshakeMessages \cup Messages)] /\ inbox \in [Ends -> Seq(Messages)]
    /\ stops \in 0 .. MaxStops /\ requests \in 0 .. MaxRequests

(* A transport that is stopped or disconnected has no channel that is      *)
(* still open or closing, whenever that was requested (stop,               *)
(* #onDisconnect): unless a handler of newChannel accepts one after the    *)
(* channels have been closed, or the end of the handshake has made active  *)
(* what was already stopping.                                              *)
NoChannelOutlives ==
    /\ TypeOK
    /\ trouble \notin {"accept", "early"} =>
          \A e \in Ends : state[e] \in Terminal => channel[e] \notin {"open"} \cup Closing

(* One end is stopped only when the other has nothing left to write on its *)
(* channel (its chanClosed is sent) and is on its way out                  *)
(* (#onTransportStopped, stop): the handshake of stopping has no short cut. *)
(* An end that stops before it is active makes none, nor does one that is  *)
(* active again after the connection is lost.                              *)
StoppedTogether ==
    trouble \notin {"accept", "early", "text"} =>
        \A e \in Ends : state[e] = "stopped" =>
            /\ channel[Peer(e)] \notin {"open", "closing", "localClosing"}
            /\ state[Peer(e)] \notin {"starting", "active", "stopping"}
               \/ \E k \in DOMAIN calls[Peer(e)] : calls[Peer(e)][k].pc = "tranStopped"

(* Stopped and disconnected are for good (onRemoteReady, stop,             *)
(* #finalizeStop, #onDisconnect), in every interleaving of stop() with the *)
(* loss of the connection but those named: text that takes its time, a     *)
(* stop() before the transport is active, and a loss while tranStopped is  *)
(* sent each put an earlier state back.                                    *)
TerminalStays ==
    [][\A e \in Ends : state[e] \in Terminal /\ trouble \notin {"text", "early", "sending"}
                           => state'[e] = state[e]]_vars

(* Every requestChannel() settles: by the response, by a request of the    *)
(* remote, by stop() or by the loss of the connection.                     *)
Requesting(e) == pending[e] = "waiting" /\ state[e] # "crashed"
RequestsSettle == (\E e \in Ends : Requesting(e)) ~> (\A e \in Ends : ~Requesting(e))

(* "Closes all channels, exchanges stop handshake with remote, then         *)
(* resolves": every stop() settles, unless a handler that #tccReader awaits *)
(* awaits it, another was given a timeout, or the connection is lost where  *)
(* stop() does not look; and unless the remote was gone before it sent      *)
(* tranStopped, which is not noticed.                                       *)
Unsettled(e) == state[e] # "crashed" /\ \E k \in DOMAIN calls[e] : ~Settled(e, k)
WaitsInVain(e) == state[e] = "remoteStopping" /\ Gone(Peer(e))
StopSettles ==
    (/\ \E e \in Ends : Unsettled(e)
     /\ trouble \notin {"handler", "timeout", "draining", "sending", "early", "text"})
        ~> (\A e \in Ends : Unsettled(e) => WaitsInVain(e))
=============================================================================
