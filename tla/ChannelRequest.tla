--------------------------- MODULE ChannelRequest ---------------------------
(***************************************************************************)
(* Requesting a channel by name, and requesting it again after it closed   *)
(* (src/transport/base.esm.js: requestChannel, #onChannelRequest,          *)
(* #onChannelResponse, #createChannel, nullChannel).  Either end may       *)
(* request at any time, both at once included; the requested end's         *)
(* newChannel handlers take their time before they accept or do not; a     *)
(* channel accepted at both ends is one channel with two ids, of which the *)
(* smaller is used.  TCC messages are handled one by one, in order, and    *)
(* #tccReader waits for the newChannel handlers.                           *)
(*                                                                         *)
(* One channel name is followed; its closing is the handshake without the  *)
(* drain, of which ChannelClose has the details.                           *)
(***************************************************************************)
EXTENDS RoleIds, FiniteSets, SequencesExt

CONSTANTS
    MaxRequests,   \* bound: requestChannel calls that send a request
    MaxCloses,     \* bound: close calls of the applications
    Limits         \* maxBufferBytes options of requestChannel and accept

Ends == {"a", "b"}
Peer(e) == CHOOSE p \in Ends : p # e

ASSUME BoundsAssumption == MaxRequests \in Nat /\ MaxCloses \in Nat
ASSUME LimitsAssumption == Limits \subseteq Nat

VARIABLES
    careful,    \* both applications are careful (see NothingUnexpected)
    channel,    \* channel[e]: state of the channel or its record, "none" if there is none
    ids,        \* ids[e]: its ids, the one in use first
    limits,     \* limits[e]: localLimit and remoteLimit of the channel
    finalizing, \* finalizing[e]: #finalizeClosure calls awaiting their closed event
    pending,    \* pending[e]: the entry in pendingChannelRequests, a set of at most one
    unsettled,  \* unsettled[e]: promises of requestChannel not settled
    handling,   \* handling[e]: the request whose newChannel event is under way, likewise
    wire,       \* wire[e]: TCC messages on their way to e
    requests,   \* requestChannel calls that sent a request
    closes,     \* close calls of the applications
    faults      \* protocol violations: each stops a transport

channelVars == <<channel, ids, limits, finalizing>>
requestVars == <<pending, unsettled>>
vars == <<careful, channelVars, requestVars, handling, wire, requests, closes, faults>>

Closing == {"CLOSING", "LOCAL_CLOSING", "REMOTE_CLOSING"}

Request(limit) == [type |-> "chanRequest", limit |-> limit]
Acceptance(id, limit) == [type |-> "chanResponse", accepted |-> TRUE, id |-> id, limit |-> limit]
Rejection == [type |-> "chanResponse", accepted |-> FALSE]
ChanMessage(type, id) == [type |-> type, id |-> id]
Send(e, m) == wire' = [wire EXCEPT ![Peer(e)] = Append(@, m)]

Init ==
    /\ careful \in BOOLEAN
    /\ channel = [e \in Ends |-> "none"] /\ ids = [e \in Ends |-> <<>>]
    /\ limits = [e \in Ends |-> [local |-> 0, remote |-> 0]]
    /\ finalizing = [e \in Ends |-> 0]
    /\ pending = [e \in Ends |-> {}] /\ unsettled = [e \in Ends |-> 0]
    /\ handling = [e \in Ends |-> {}] /\ wire = [e \in Ends |-> <<>>]
    /\ requests = 0 /\ closes = 0
    /\ faults = {}

----------------------------------------------------------------------------
(* A first channel takes the end's next id; a's ids are even, b's odd. *)
nextChannelId == [a |-> 2, b |-> 3]

(* #createChannel; a record that is there keeps its id. *)
CreateChannel(e, id, local, remote) ==
    /\ channel' = [channel EXCEPT ![e] = "OPEN"]
    /\ ids' = [ids EXCEPT ![e] = IF channel[e] = "none" THEN <<id>> ELSE <<Head(@)>>]
    /\ limits' = [limits EXCEPT ![e] = [local |-> local, remote |-> remote]]
    /\ UNCHANGED finalizing

(* The pending promise is settled, unless it was before. *)
Unsettled(e) == \E r \in pending[e] : ~r.settled
Settle(e) == unsettled' = [unsettled EXCEPT ![e] = IF Unsettled(e) THEN @ - 1 ELSE @]

(* requestChannel.  (An open channel is returned at once, as is a pending  *)
(* request's promise.)                                                     *)
RequestChannel(e, limit) ==
    /\ requests < MaxRequests
    /\ channel[e] # "OPEN" /\ pending[e] = {}
    /\ careful => channel[e] \in {"none", "nulled"}
    /\ requests' = requests + 1
    /\ pending' = [pending EXCEPT ![e] = {[limit |-> limit, settled |-> FALSE]}]
    /\ unsettled' = [unsettled EXCEPT ![e] = @ + 1]
    /\ Send(e, Request(limit))
    /\ UNCHANGED <<careful, channelVars, handling, closes, faults>>

----------------------------------------------------------------------------
(* #tccReader takes the next message once it is through with the last.     *)
TakesNext(e, type) ==
    /\ handling[e] = {} /\ wire[e] # <<>> /\ Head(wire[e]).type = type
Replies(e, m) ==
    wire' = [wire EXCEPT ![e] = Tail(@), ![Peer(e)] = Append(@, m)]
Taken(e) == wire' = [wire EXCEPT ![e] = Tail(@)]

(* #onChannelRequest up to the newChannel event: an open channel is not    *)
(* opened twice.                                                           *)
OnChannelRequest(e) ==
    /\ TakesNext(e, "chanRequest")
    /\ IF channel[e] = "OPEN"
       THEN Replies(e, Rejection) /\ UNCHANGED handling
       ELSE Taken(e) /\ handling' = [handling EXCEPT ![e] = {Head(wire[e]).limit}]
    /\ UNCHANGED <<careful, channelVars, requestVars, requests, closes, faults>>

(* The handlers are done, and some called accept({maxBufferBytes: limit}): *)
(* a channel that has come to be open meanwhile, or one still closing, is  *)
(* used as it is.  Our own request is granted too, but its response is     *)
(* still to come, so the entry stays.                                      *)
MutForgetsRequest(e) == {}
AfterAccept(e) == {[r EXCEPT !.settled = TRUE] : r \in pending[e]}
Accept(e, limit) ==
    /\ handling[e] # {}
    /\ careful => \A r \in pending[e] : r.limit = limit
    /\ IF channel[e] \in {"none", "CLOSED", "nulled"}
       THEN CreateChannel(e, nextChannelId[e], limit, CHOOSE r \in handling[e] : TRUE)
       ELSE UNCHANGED channelVars
    /\ Send(e, Acceptance(Head(ids'[e]), limit))
    /\ handling' = [handling EXCEPT ![e] = {}]
    /\ Settle(e)
    /\ pending' = [pending EXCEPT ![e] = AfterAccept(e)]
    /\ UNCHANGED <<careful, requests, closes, faults>>

(* No handler called accept(). *)
Reject(e) ==
    /\ handling[e] # {}
    /\ careful => channel[e] # "nulled"
    /\ Send(e, Rejection)
    /\ handling' = [handling EXCEPT ![e] = {}]
    /\ UNCHANGED <<careful, channelVars, requestVars, requests, closes, faults>>

(* #onChannelResponse *)
MutSwapsLimits(local, remote) == <<remote, local>>
RequesterLimits(local, remote) == <<local, remote>>
OnAcceptance(e, m) ==
    \/ /\ channel[e] \in {"none", "CLOSED", "nulled"}
       /\ \E r \in pending[e] :
             LET l == RequesterLimits(r.limit, m.limit) IN CreateChannel(e, m.id, l[1], l[2])
       /\ Settle(e)
    \/ /\ channel[e] \in {"OPEN"} \cup Closing /\ MayAddRoleId(ids[e], m.id)
       /\ ids' = [ids EXCEPT ![e] = AddRoleId(@, m.id)]
       /\ UNCHANGED <<channel, limits, finalizing, unsettled>>
    \/ /\ channel[e] \in {"OPEN"} \cup Closing /\ ~MayAddRoleId(ids[e], m.id)
       /\ Settle(e)
       /\ UNCHANGED channelVars

MutIgnoresRejection(e) == UNCHANGED unsettled
OnRejection(e) == IF channel[e] = "none" THEN Settle(e) ELSE UNCHANGED unsettled

OnChannelResponse(e) ==
    /\ TakesNext(e, "chanResponse")
    /\ Taken(e)
    /\ LET m == Head(wire[e])
       IN  \/ /\ pending[e] = {}
              /\ faults' = faults \cup {"chanResponse"}
              /\ UNCHANGED <<channelVars, unsettled>>
           \/ /\ pending[e] # {} /\ m.accepted
              /\ OnAcceptance(e, m)
              /\ UNCHANGED faults
           \/ /\ pending[e] # {} /\ ~m.accepted
              /\ OnRejection(e)
              /\ UNCHANGED <<channelVars, faults>>
    /\ pending' = [pending EXCEPT ![e] = {}]
    /\ UNCHANGED <<careful, handling, requests, closes>>

----------------------------------------------------------------------------
(* Closing, as far as the record is concerned. *)

StartClosing(e) == channel' = [channel EXCEPT ![e] = "CLOSING"]
Close(e) ==
    /\ closes < MaxCloses /\ channel[e] = "OPEN"
    /\ closes' = closes + 1
    /\ StartClosing(e)
    /\ Send(e, ChanMessage("chanClose", Head(ids[e])))
    /\ UNCHANGED <<careful, ids, limits, finalizing, requestVars, handling, requests, faults>>

(* #finalizeClosure up to its closed event.  When no handler of that event *)
(* waits, the record is nulled before another message is handled.          *)
Nulled(e) == ids' = [ids EXCEPT ![e] = <<Head(@)>>]
FinalizeClosure(e) ==
    IF careful
    THEN channel' = [channel EXCEPT ![e] = "nulled"] /\ Nulled(e) /\ UNCHANGED finalizing
    ELSE /\ channel' = [channel EXCEPT ![e] = "CLOSED"]
         /\ finalizing' = [finalizing EXCEPT ![e] = @ + 1]
         /\ UNCHANGED ids

(* The drain is over: chanClosed. *)
SendChanClosed(e) ==
    /\ channel[e] \in {"CLOSING", "LOCAL_CLOSING"}
    /\ Send(e, ChanMessage("chanClosed", Head(ids[e])))
    /\ IF channel[e] = "LOCAL_CLOSING"
       THEN FinalizeClosure(e)
       ELSE channel' = [channel EXCEPT ![e] = "REMOTE_CLOSING"] /\ UNCHANGED <<ids, finalizing>>
    /\ UNCHANGED <<careful, limits, requestVars, handling, requests, closes, faults>>

(* Whether an id leads to a channel, and not to nothing or a nulled record.*)
Known(e, id) == channel[e] \notin {"none", "nulled"} /\ id \in Range(ids[e])

OnChannelClose(e) ==
    /\ TakesNext(e, "chanClose")
    /\ \/ /\ ~Known(e, Head(wire[e]).id)
          /\ faults' = faults \cup {"chanClose"}
          /\ Taken(e) /\ UNCHANGED channel
       \/ /\ Known(e, Head(wire[e]).id) /\ channel[e] = "OPEN"
          /\ StartClosing(e)
          /\ Replies(e, ChanMessage("chanClose", Head(ids[e])))
          /\ UNCHANGED faults
       \/ /\ Known(e, Head(wire[e]).id) /\ channel[e] # "OPEN"
          /\ Taken(e) /\ UNCHANGED <<channel, faults>>
    /\ UNCHANGED <<careful, ids, limits, finalizing, requestVars, handling, requests, closes>>

OnChannelClosed(e) ==
    /\ TakesNext(e, "chanClosed")
    /\ Taken(e)
    /\ \/ /\ ~Known(e, Head(wire[e]).id)
          /\ faults' = faults \cup {"chanClosed"}
          /\ UNCHANGED <<channel, ids, finalizing>>
       \/ /\ Known(e, Head(wire[e]).id) /\ channel[e] = "CLOSING"
          /\ channel' = [channel EXCEPT ![e] = "LOCAL_CLOSING"]
          /\ UNCHANGED <<ids, finalizing, faults>>
       \/ /\ Known(e, Head(wire[e]).id) /\ channel[e] = "REMOTE_CLOSING"
          /\ FinalizeClosure(e)
          /\ UNCHANGED faults
       \/ /\ Known(e, Head(wire[e]).id) /\ channel[e] \notin {"CLOSING", "REMOTE_CLOSING"}
          /\ UNCHANGED <<channel, ids, finalizing, faults>>
    /\ UNCHANGED <<careful, limits, requestVars, handling, requests, closes>>

(* nullChannel, once the handlers of the closed event are done: it nulls   *)
(* whatever has the name and the id by then.                               *)
NullChannel(e) ==
    /\ finalizing[e] > 0
    /\ finalizing' = [finalizing EXCEPT ![e] = @ - 1]
    /\ channel' = [channel EXCEPT ![e] = "nulled"]
    /\ Nulled(e)
    /\ UNCHANGED <<careful, limits, requestVars, handling, wire, requests, closes, faults>>

----------------------------------------------------------------------------
Use(e) == Close(e) \/ \E limit \in Limits : RequestChannel(e, limit)
Handlers(e) == Reject(e) \/ \E limit \in Limits : Accept(e, limit)
TccReader(e) == \/ OnChannelRequest(e) \/ OnChannelResponse(e)
                \/ OnChannelClose(e) \/ OnChannelClosed(e)
Progress(e) == Handlers(e) \/ TccReader(e) \/ SendChanClosed(e) \/ NullChannel(e)

Next == \E e \in Ends : Use(e) \/ Progress(e)

(* Messages arrive, handlers return, channels that close drain. *)
Spec == Init /\ [][Next]_vars /\ \A e \in Ends : WF_vars(Progress(e))

----------------------------------------------------------------------------
TypeOK ==
    /\ careful \in BOOLEAN
    /\ channel \in [Ends -> {"none", "OPEN", "CLOSED", "nulled"} \cup Closing]
    /\ \A e \in Ends : /\ Range(ids[e]) \subseteq {2, 3} /\ Len(ids[e]) <= 2
                       /\ Len(ids[e]) = 2 => ids[e][1] < ids[e][2]
                       /\ channel[e] = "none" <=> ids[e] = <<>>
                       /\ Cardinality(pending[e]) <= 1 /\ Cardinality(handling[e]) <= 1
    /\ finalizing \in [Ends -> Nat] /\ unsettled \in [Ends -> Nat]

(* What the rest depends on: a careful application requests a channel only *)
(* when it has none or its record is nulled, gives accept() the limit it   *)
(* asked for itself, accepts a name again that it had before, and does not *)
(* keep the closed event waiting.                                          *)

(* However requests, responses and closing cross, no message names a       *)
(* channel its receiver does not know, and no response is unexpected:      *)
(* each would stop a transport.                                            *)
NothingUnexpected == TypeOK /\ (careful => faults = {})

(* When all is said, either both ends have the channel open or neither,    *)
(* and under the same ids in the same order; and what an end may send is   *)
(* what the other end allows ("`remoteLimit`: Maximum channel buffer       *)
(* remote is willing to receive"), which flow control takes for granted.   *)
Quiet == \A e \in Ends : wire[e] = <<>> /\ handling[e] = {} /\ pending[e] = {}
OpenTogether ==
    careful /\ Quiet =>
        /\ channel["a"] = "OPEN" <=> channel["b"] = "OPEN"
        /\ channel["a"] = "OPEN" =>
              /\ ids["a"] = ids["b"]
              /\ \A e \in Ends : limits[e].remote = limits[Peer(e)].local

(* Every requestChannel() is settled in the end: whoever accepts first,    *)
(* and whatever the other end answers.                                     *)
RequestsSettle == \A e \in Ends : careful /\ unsettled[e] > 0 ~> unsettled[e] = 0
=============================================================================
