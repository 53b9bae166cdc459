----------------------- MODULE TransportLifecycleProofs -----------------------
(***************************************************************************)
(* For any number of stops and of requests for channels, and for each kind *)
(* of trouble: stopped and disconnected are for good, no channel outlives  *)
(* its transport, and one end is stopped only when the other is on its way *)
(* out.                                                                    *)
(***************************************************************************)
EXTENDS TransportLifecycle, TLAPS

----------------------------------------------------------------------------
(* The invariant, in layers, each inductive given those before it: types   *)
(* and the handshake (Handshake), what troubles leave out (Quiet), states  *)
(* and promises (Lives), what both ends know of the channel (ChannelInv),  *)
(* who was told of the stop (Parts), and the end of the channel (EndInv).  *)

NotYet == {"none", "config", "start"}
ClosingPCs == {"tranStop", "closing", "tranStopped"}
Going == {"beforeStopping", "finalizing"} \cup ClosingPCs
Up == {"open"} \cup Closing
Before == {"created", "starting"}
IsAt(e, pcs) == \E k \in DOMAIN calls[e] : calls[e][k].pc \in pcs
Asking == {"request", "stop"}
IsAsked(e) == handling[e] \in Asking

(* The handshake, at one end: what there is before the reader expects      *)
(* messages, and where there is no trouble with it, before it is over.     *)
Starts(e) ==
    /\ text[e] # "none" => trouble = "text"
    /\ state[e] = "created" => reader[e] = "none"
    /\ started[e] = "resolved" => reader[e] \in {"messages", "ended"}
    /\ reader[e] \in {"none", "config"} => tcc[e] = "none"
    /\ reader[e] = "start" => tcc[e] # "none"
    /\ reader[e] = "messages" /\ trouble # "text" => tcc[e] # "none"
    /\ reader[e] \in NotYet => inbox[e] = <<>> /\ handling[e] = "none"
    /\ reader[e] \in NotYet /\ trouble \notin InHandshake =>
          calls[e] = <<>> /\ final[e] = "none" /\ state[e] \in Before
    /\ tcc[e] = "none" =>
          inbox[e] = <<>> /\ handling[e] = "none" /\ ~IsAt(e, ClosingPCs)
    /\ final[e] # "none" => state[e] # "created"
    /\ final[e] = "closing" => tcc[e] = "closed"
    /\ state[e] \in Terminal => tcc[e] # "open"
    /\ state[e] = "active" /\ trouble \notin WithoutChannel => tcc[e] # "none"
    /\ \A k \in DOMAIN calls[e] : calls[e][k].pc # "returned" => calls[e][k].promise # 0

(* What comes to p: the configuration, the mark, messages, in this order   *)
(* and as far as the other end has come.                                   *)
Comes(p) ==
    LET e == Peer(p) IN
    /\ reader[e] = "none" => wire[p] = <<>>
    /\ tcc[e] = "none" => wire[p] \in {<<>>, <<"config">>}
    /\ \A i \in DOMAIN wire[p] :
          /\ wire[p][i] = "config" => i = 1
          /\ wire[p][i] = "start" => i = 1 \/ (i = 2 /\ wire[p][1] = "config")
    /\ tcc[p] = "open" /\ reader[p] \in {"start", "messages"} =>
          state[e] # "created" /\ \A i \in DOMAIN wire[p] : wire[p][i] # "config"
    /\ tcc[p] = "open" /\ reader[p] = "messages" =>
          reader[e] # "config" /\ \A i \in DOMAIN wire[p] : wire[p][i] # "start"

Handshake == \A e \in Ends : Starts(e) /\ Comes(e)

(* No channel where it is not looked at. *)
QuietMessages == HandshakeMessages \cup {"tranStop", "tranStopped"}
Quiet ==
    trouble \in WithoutChannel => \A e \in Ends :
        /\ channel[e] = "none" /\ pending[e] = "none" /\ ~IsAsked(e)
        /\ inbox[e] \in Seq(QuietMessages) /\ wire[e] \in Seq(QuietMessages)

(* The life of one end: one stop() at a time is under way, in a state that *)
(* goes with where it is.                                                  *)
OneGoes(e) == \A k, l \in DOMAIN calls[e] : calls[e][k].pc \in Going /\ calls[e][l].pc \in Going => k = l
Life(e) ==
    /\ OneGoes(e)
    /\ IsAt(e, Going) => tcc[e] # "none" /\ state[e] \notin Before \cup {"active", "remoteStopping"}
    /\ IsAt(e, Going \ {"finalizing"}) =>
          state[e] \in {"stopping", "localStopping", "disconnected", "crashed"} /\ final[e] = "none"
    /\ IsAt(e, {"tranStopped"}) /\ trouble # "sending" => state[e] # "disconnected"
    /\ final[e] # "none" => state[e] \notin Before \cup {"active", "stopping"} /\ tcc[e] = "closed"
    /\ state[e] = "stopped" => final[e] \notin {"none", "closing"}
    /\ final[e] \notin {"none", "closing"} => state[e] \in Terminal
    /\ reader[e] \in NotYet => state[e] \in Before \cup {"disconnected", "crashed"}
    /\ state[e] \in Before => reader[e] \in NotYet /\ calls[e] = <<>> /\ tcc[e] # "closed"
    /\ state[e] \in {"active"} \cup Stopping => tcc[e] # "none"
    /\ state[e] = "active" => tcc[e] = "open"
    /\ state[e] = "disconnected" => pending[e] = "none" /\ (trouble # "accept" => channel[e] \notin Up)
    /\ channel[e] = "disconnected" => state[e] = "disconnected" \/ trouble = "sending"
    /\ tcc[e] = "closed" => state[e] \in Terminal \/ final[e] # "none" \/ trouble = "sending"
Lives == trouble \notin {"early", "text"} => \A e \in Ends : Life(e)

(* Messages on their way to an end, received or not. *)
Queue(e) == inbox[e] \o wire[e]
Has(q, m) == \E i \in DOMAIN q : q[i] = m
Once(q, S) == \A i, j \in DOMAIN q : q[i] \in S /\ q[j] \in S => i = j
Ordered(q, m, n) == \A i, j \in DOMAIN q : q[i] = m /\ q[j] = n => i < j
OneRequest(q) == Once(q, {"chanRequest"})
OneResponse(q) == Once(q, Responses)
HasResponse(q) == Has(q, "chanAccepted") \/ Has(q, "chanRejected")

(* What the channel of one end (c) and the messages from it (q) say of     *)
(* each other and of the channel of the other end (d).                     *)
Tells(c, d, q) ==
    /\ Has(q, "chanAccepted") =>
          c # "none" /\ (d = "none" => c \in {"open", "closing", "remoteClosing", "disconnected"})
    /\ Has(q, "chanClose") => c \notin {"none", "open"}
    /\ d \in {"localClosing", "closed"} \/ Has(q, "chanClosed") => c \in {"remoteClosing", "closed", "disconnected"}
    /\ d \in {"localClosing", "closed"} => ~Has(q, "chanAccepted")
    /\ Ordered(q, "chanRequest", "chanAccepted") /\ Ordered(q, "chanAccepted", "chanClose")
    /\ Ordered(q, "chanAccepted", "chanClosed") /\ Ordered(q, "chanClose", "chanClosed")

(* What has been sent is on its way until it has been received. *)
Delivers(c, d, q) ==
    /\ c \in Up \cup {"closed"} /\ d = "none" => Has(q, "chanAccepted")
    /\ c \in Closing \cup {"closed"} /\ d \in {"none", "open"} => Has(q, "chanClose")
    /\ c \in {"remoteClosing", "closed"} /\ d \notin {"localClosing", "closed", "disconnected"} => Has(q, "chanClosed")

(* A request (in q) is under way once, and while its entry is there (a) or *)
(* the end is disconnected (v); a response (in r) comes after it; and an   *)
(* end whose channel (d) is there is not asked (y).                        *)
Asks(v, a, y, d, q, r) ==
    /\ v # "disconnected" /\ a = "none" => ~Has(q, "chanRequest") /\ y \notin Asking /\ ~HasResponse(r)
    /\ OneRequest(q) /\ OneResponse(r)
    /\ Has(q, "chanRequest") => y \notin Asking
    /\ Has(q, "chanRequest") \/ y \in Asking => ~HasResponse(r) /\ d \in {"none", "disconnected"}

(* Both ends of it: their channels (c, d), the queues from the one to the  *)
(* other (q, r), the states (v, w), the entries of a request (a, b) and    *)
(* what is handled (x, y).                                                 *)
Pair(gone, c, d, q, r, v, w, a, b, x, y) ==
    /\ Tells(c, d, q) /\ Tells(d, c, r)
    /\ ~gone /\ w # "disconnected" => Delivers(c, d, q)
    /\ ~gone /\ v # "disconnected" => Delivers(d, c, r)
    /\ Asks(v, a, y, d, q, r) /\ Asks(w, b, x, c, r, q)

Regular == trouble \notin {"accept"} \cup WithoutChannel
View(e) ==
    LET p == Peer(e) IN
    Pair(lost, channel[e], channel[p], Queue(p), Queue(e), state[e], state[p], pending[e], pending[p],
         handling[e], handling[p])
ChannelInv == Regular => \A e \in Ends : View(e)

(* The end of it: tranStopped is there, or has been; the other end is on   *)
(* its way out; nothing is left to be waited for.                          *)
Told(e) == Has(Queue(e), "tranStopped") \/ state[e] = "localStopping" \/ final[e] # "none"
Out(e) == state[e] \notin Before \cup {"active", "stopping"} \/ IsAt(e, {"tranStopped"})
Leaves(e) ==
    \/ state[e] = "remoteStopping"
    \/ \E k \in DOMAIN calls[e] : \/ calls[e][k].pc = "tranStopped"
                                  \/ calls[e][k].pc = "closing" /\ ~calls[e][k].waits
Parts == trouble \notin {"accept", "early", "text"} => \A e \in Ends : Told(e) => Out(Peer(e))

(* An end that leaves has no channel the other does not have; and of two  *)
(* ends that leave, one has none.                                          *)
Unopened(e) == Leaves(e) /\ channel[Peer(e)] = "none" => channel[e] \notin Up
NotBoth(e) == Leaves(e) /\ Leaves(Peer(e)) => channel[e] \notin Up \/ channel[Peer(e)] \notin Up

(* An end that is told, and has no channel, gets none; and if it leaves,   *)
(* it has written all there is to, and is to find chanClosed first.        *)
ToldNone(e) == Told(e) /\ channel[e] = "none" => channel[Peer(e)] \notin Up /\ ~Has(Queue(e), "chanAccepted")
ToldLeaves(e) ==
    Leaves(e) /\ Told(e) =>
        /\ channel[e] \notin {"open", "closing", "localClosing"}
        /\ channel[e] = "remoteClosing" =>
              /\ state[e] # "localStopping" /\ final[e] = "none"
              /\ Has(Queue(e), "chanClosed") /\ Ordered(Queue(e), "chanClosed", "tranStopped")

(* When an end finalizes its stop, both have written all there is to.      *)
Finalizes(e) ==
    final[e] # "none" =>
        /\ channel[e] \notin Up /\ channel[Peer(e)] \notin {"open", "closing", "localClosing"}
        /\ channel[Peer(e)] = "none" => ~Has(Queue(Peer(e)), "chanAccepted")
Ending(e) == Unopened(e) /\ NotBoth(e) /\ ToldNone(e) /\ ToldLeaves(e) /\ Finalizes(e)
EndInv == Regular => \A e \in Ends : Ending(e)

----------------------------------------------------------------------------
(* Two ends, their calls and their queues. *)

LEMMA TwoEnds ==
    ASSUME NEW e \in Ends
    PROVE  /\ Peer(e) \in Ends /\ Peer(e) # e /\ Peer(Peer(e)) = e
           /\ \A f \in Ends : f = e \/ f = Peer(e)
<1>1. Peer("a") = "b" /\ Peer("b") = "a"
  BY DEF Ends, Peer
<1> QED
  BY <1>1 DEF Ends

PCs == {"beforeStopping", "tranStop", "closing", "tranStopped", "finalizing", "waiting", "returned", "failed"}

(* A call goes on: it is elsewhere, and nothing else of it changes. *)
LEMMA CallGoes ==
    ASSUME calls \in [Ends -> Seq(CallSet)], NEW e \in Ends, NEW k \in DOMAIN calls[e], NEW pc \in PCs, Goto(e, k, pc)
    PROVE  /\ calls' \in [Ends -> Seq(CallSet)]
           /\ DOMAIN calls'[e] = DOMAIN calls[e] /\ Len(calls'[e]) = Len(calls[e])
           /\ calls'[e][k] = [calls[e][k] EXCEPT !.pc = pc]
           /\ calls'[e][k].pc = pc /\ calls'[e][k].promise = calls[e][k].promise
           /\ calls'[e][k].waits = calls[e][k].waits
           /\ \A l \in DOMAIN calls[e] : l # k => calls'[e][l] = calls[e][l]
           /\ \A f \in Ends : f # e => calls'[f] = calls[f]
<1> DEFINE c == calls[e]
           d == [calls[e] EXCEPT ![k].pc = pc]
<1>1. c \in Seq(CallSet) /\ k \in 1 .. Len(c) /\ c[k] \in CallSet
  OBVIOUS
<1>2. [c[k] EXCEPT !.pc = pc] \in CallSet
  BY <1>1 DEF CallSet, PCs
<1>3. d \in Seq(CallSet) /\ Len(d) = Len(c) /\ DOMAIN d = DOMAIN c
  BY <1>1, <1>2
<1>4. calls' = [calls EXCEPT ![e] = d]
  BY DEF Goto
<1>5. calls'[e] = d /\ \A f \in Ends : f # e => calls'[f] = calls[f]
  BY <1>4
<1>6. calls' \in [Ends -> Seq(CallSet)]
  BY <1>3, <1>4
<1>7. d[k] = [c[k] EXCEPT !.pc = pc] /\ \A l \in DOMAIN c : l # k => d[l] = c[l]
  BY <1>1
<1>8. d[k].pc = pc /\ d[k].promise = c[k].promise /\ d[k].waits = c[k].waits
  BY <1>1, <1>7 DEF CallSet
<1> QED
  BY <1>3, <1>5, <1>6, <1>7, <1>8

LEMMA CallCloses ==
    ASSUME calls \in [Ends -> Seq(CallSet)], NEW e \in Ends, NEW k \in DOMAIN calls[e], NEW w \in BOOLEAN,
           calls' = [calls EXCEPT ![e][k].pc = "closing", ![e][k].waits = w]
    PROVE  /\ calls' \in [Ends -> Seq(CallSet)]
           /\ DOMAIN calls'[e] = DOMAIN calls[e] /\ Len(calls'[e]) = Len(calls[e])
           /\ calls'[e][k].pc = "closing" /\ calls'[e][k].promise = calls[e][k].promise
           /\ calls'[e][k].waits = w
           /\ \A l \in DOMAIN calls[e] : l # k => calls'[e][l] = calls[e][l]
           /\ \A f \in Ends : f # e => calls'[f] = calls[f]
<1> DEFINE c == calls[e]
           r == [c[k] EXCEPT !.pc = "closing", !.waits = w]
           d == [c EXCEPT ![k] = r]
<1>1. c \in Seq(CallSet) /\ k \in 1 .. Len(c) /\ c[k] \in CallSet
  OBVIOUS
<1>2. r \in CallSet /\ r.pc = "closing" /\ r.promise = c[k].promise /\ r.waits = w
  BY <1>1 DEF CallSet
<1>3. calls' = [calls EXCEPT ![e] = d]
  BY <1>1
<1> HIDE DEF r
<1>4. d \in Seq(CallSet) /\ Len(d) = Len(c) /\ DOMAIN d = DOMAIN c
  BY <1>1, <1>2
<1>5. calls'[e] = d /\ \A f \in Ends : f # e => calls'[f] = calls[f]
  BY <1>3
<1>6. d[k] = r /\ \A l \in DOMAIN c : l # k => d[l] = c[l]
  BY <1>1
<1>7. calls' \in [Ends -> Seq(CallSet)]
  BY <1>3, <1>4
<1> QED
  BY <1>2, <1>4, <1>5, <1>6, <1>7

(* There is another call. *)
LEMMA CallAdded ==
    ASSUME calls \in [Ends -> Seq(CallSet)], NEW e \in Ends, NEW c \in CallSet,
           calls' = [calls EXCEPT ![e] = Append(@, c)]
    PROVE  /\ calls' \in [Ends -> Seq(CallSet)]
           /\ Len(calls'[e]) = Len(calls[e]) + 1 /\ calls'[e][Len(calls[e]) + 1] = c
           /\ \A l \in DOMAIN calls'[e] :
                 \/ l \in DOMAIN calls[e] /\ calls'[e][l] = calls[e][l]
                 \/ l = Len(calls[e]) + 1 /\ calls'[e][l] = c
           /\ \A l \in DOMAIN calls[e] : l \in DOMAIN calls'[e] /\ calls'[e][l] = calls[e][l] /\ l # Len(calls[e]) + 1
           /\ Len(calls[e]) + 1 \in DOMAIN calls'[e]
           /\ \A f \in Ends : f # e => calls'[f] = calls[f]
<1>1. calls[e] \in Seq(CallSet) /\ DOMAIN calls[e] = 1 .. Len(calls[e]) /\ Len(calls[e]) \in Nat
  OBVIOUS
<1>2. calls'[e] = Append(calls[e], c) /\ \A f \in Ends : f # e => calls'[f] = calls[f]
  OBVIOUS
<1>3. calls'[e] \in Seq(CallSet) /\ DOMAIN calls'[e] = 1 .. Len(calls[e]) + 1 /\ Len(calls'[e]) = Len(calls[e]) + 1
  BY <1>1, <1>2
<1>4. \A l \in 1 .. Len(calls[e]) : calls'[e][l] = calls[e][l]
  BY <1>1, <1>2
<1>5. calls'[e][Len(calls[e]) + 1] = c
  BY <1>1, <1>2
<1>6. calls' \in [Ends -> Seq(CallSet)]
  BY <1>2, <1>3
<1>7. \A l \in 1 .. Len(calls[e]) + 1 : l \in 1 .. Len(calls[e]) \/ l = Len(calls[e]) + 1
  BY <1>1
<1>8. \A l \in 1 .. Len(calls[e]) : l \in 1 .. Len(calls[e]) + 1 /\ l # Len(calls[e]) + 1
  BY <1>1
<1>9. Len(calls[e]) + 1 \in 1 .. Len(calls[e]) + 1
  BY <1>1
<1> QED
  BY <1>1, <1>2, <1>3, <1>4, <1>5, <1>6, <1>7, <1>8, <1>9

----------------------------------------------------------------------------
(* Types *)

CallTypes ==
    /\ calls \in [Ends -> Seq(CallSet)]
    /\ \A e \in Ends : \A k \in DOMAIN calls[e] : calls[e][k].pc = "waiting" => calls[e][k].promise # 0
    /\ stopped \in [Ends -> Int] /\ \A e \in Ends : stopped[e] \in OwnPromise .. Len(calls[e])

LEMMA CallTypesGo ==
    ASSUME CallTypes, NEW e \in Ends, NEW k \in DOMAIN calls[e], NEW pc \in PCs, Goto(e, k, pc),
           pc = "waiting" => calls[e][k].promise # 0, stopped' \in {stopped, [stopped EXCEPT ![e] = 0]}
    PROVE  CallTypes'
<1>1. stopped' \in [Ends -> Int] /\ \A f \in Ends : stopped'[f] = stopped[f] \/ stopped'[f] = 0
  BY DEF CallTypes
<1>a. /\ DOMAIN calls'[e] = DOMAIN calls[e] /\ Len(calls'[e]) = Len(calls[e])
      /\ calls'[e][k].pc = pc /\ calls'[e][k].promise = calls[e][k].promise
      /\ \A f \in Ends : f # e => calls'[f] = calls[f]
  <2>1. calls \in [Ends -> Seq(CallSet)]
    BY DEF CallTypes
  <2> QED
    BY <2>1, CallGoes DEF Goto
<1>2. \A f \in Ends : Len(calls'[f]) = Len(calls[f]) /\ DOMAIN calls'[f] = DOMAIN calls[f]
  BY <1>a
<1>3. \A f \in Ends : Len(calls[f]) \in Nat
  BY DEF CallTypes
<1>4. ASSUME NEW f \in Ends PROVE stopped'[f] \in OwnPromise .. Len(calls'[f])
  <2>1. stopped[f] \in OwnPromise .. Len(calls[f]) /\ Len(calls[f]) \in Nat
    BY <1>3 DEF CallTypes
  <2>2. 0 \in OwnPromise .. Len(calls[f])
    BY <2>1 DEF OwnPromise
  <2> QED
    BY <1>1, <1>2, <2>1, <2>2
<1>5. ASSUME NEW f \in Ends, NEW l \in DOMAIN calls'[f], calls'[f][l].pc = "waiting" PROVE calls'[f][l].promise # 0
  <2>1. CASE f = e /\ l = k
    BY <1>a, <1>5, <2>1
  <2>2. CASE ~(f = e /\ l = k)
    <3>1. calls'[f][l] = calls[f][l] /\ l \in DOMAIN calls[f]
      BY <1>2, <2>2, CallGoes DEF CallTypes
    <3> QED
      BY <1>5, <3>1 DEF CallTypes
  <2> QED
    BY <2>1, <2>2
<1> QED
  BY <1>1, <1>4, <1>5, CallGoes DEF CallTypes

(* A call of stop() that returns at once, joins another, or is under way. *)
LEMMA CallTypesStop ==
    ASSUME TypeOK, NEW e \in Ends, NEW t \in BOOLEAN, NEW h \in BOOLEAN, NewStop(e, t, h)
    PROVE  /\ CallTypes'
           /\ \E c \in CallSet :
                 /\ calls' = [calls EXCEPT ![e] = Append(@, c)]
                 /\ c.pc \in {"beforeStopping", "waiting", "returned"} /\ (c.pc # "returned" => c.promise # 0)
                 /\ c.pc = "beforeStopping" => state[e] \in {"created", "starting", "active"}
           /\ state' = [state EXCEPT ![e] = IF @ \in {"created", "starting", "active"} THEN "stopping" ELSE @]
<1>1. CallTypes /\ Len(calls[e]) \in Nat /\ \A f \in Ends : Len(calls[f]) \in Nat
  BY DEF CallTypes, TypeOK
<1> DEFINE n == Len(calls[e]) + 1
<1>2. CASE state[e] \in {"created", "starting", "active"}
  <2> DEFINE c == Call("beforeStopping", n, t, h)
  <2>1. c \in CallSet /\ c.promise = n /\ c.pc = "beforeStopping"
    BY <1>1 DEF Call, CallSet
  <2>2. calls' = [calls EXCEPT ![e] = Append(@, c)] /\ stopped' = [stopped EXCEPT ![e] = n]
        /\ state' = [state EXCEPT ![e] = "stopping"]
    BY <1>2 DEF NewStop
  <2> HIDE DEF c
  <2>3. \A f \in Ends : stopped'[f] \in OwnPromise .. Len(calls'[f])
    BY <1>1, <2>1, <2>2, CallAdded DEF CallTypes, OwnPromise
  <2>4. ASSUME NEW f \in Ends, NEW l \in DOMAIN calls'[f], calls'[f][l].pc = "waiting" PROVE calls'[f][l].promise # 0
    BY <1>1, <2>1, <2>2, <2>4, CallAdded DEF CallTypes
  <2>5. stopped' \in [Ends -> Int]
    BY <1>1, <2>2 DEF CallTypes
  <2>6. state' = [state EXCEPT ![e] = IF @ \in {"created", "starting", "active"} THEN "stopping" ELSE @]
    BY <1>2, <2>2
  <2>7. CallTypes'
    BY <1>1, <2>1, <2>2, <2>3, <2>4, <2>5, CallAdded DEF CallTypes
  <2>8. c.promise # 0
    BY <1>1, <2>1
  <2> QED
    BY <1>2, <2>1, <2>2, <2>6, <2>7, <2>8
<1>3. CASE state[e] \notin {"created", "starting", "active"}
  <2> DEFINE c == Call(Joins(e), stopped[e], FALSE, h)
  <2>1. c \in CallSet /\ c.pc \in {"waiting", "returned"} /\ (c.pc = "waiting" => c.promise # 0)
    BY <1>1 DEF Call, CallSet, Joins, CallTypes
  <2>2. calls' = [calls EXCEPT ![e] = Append(@, c)] /\ stopped' = stopped /\ state' = state
    BY <1>3 DEF NewStop
  <2> HIDE DEF c
  <2>3. \A f \in Ends : stopped'[f] \in OwnPromise .. Len(calls'[f])
    BY <1>1, <2>1, <2>2, CallAdded DEF CallTypes, OwnPromise
  <2>4. ASSUME NEW f \in Ends, NEW l \in DOMAIN calls'[f], calls'[f][l].pc = "waiting" PROVE calls'[f][l].promise # 0
    BY <1>1, <2>1, <2>2, <2>4, CallAdded DEF CallTypes
  <2>5. state' = [state EXCEPT ![e] = IF @ \in {"created", "starting", "active"} THEN "stopping" ELSE @]
    BY <1>3, <2>2 DEF TypeOK
  <2> QED
    BY <1>1, <2>1, <2>2, <2>3, <2>4, <2>5, CallAdded DEF CallTypes
<1> QED
  BY <1>2, <1>3

OtherTypes ==
    /\ trouble \in AllTroubles \cup {"none"} /\ lost \in BOOLEAN
    /\ state \in [Ends -> {"created", "starting", "active", "crashed"} \cup Stopping \cup Terminal]
    /\ started \in [Ends -> {"none", "pending", "resolved"}]
    /\ reader \in [Ends -> {"none", "config", "start", "messages", "ended"}]
    /\ text \in [Ends -> {"none", "awaited", "handled"}]
    /\ tcc \in [Ends -> {"none", "open", "closed"}]
    /\ handling \in [Ends -> {"none", "request", "stop", "finalize"}]
    /\ channel \in [Ends -> {"none", "open", "closed", "disconnected"} \cup Closing]
    /\ pending \in [Ends -> {"none", "waiting", "settled"}]
    /\ resolved \in [Ends -> SUBSET Int]
    /\ final \in [Ends -> {"none", "closing", "draining", "done", "failed"}]
    /\ wire \in [Ends -> Seq(HandshakeMessages \cup Messages)] /\ inbox \in [Ends -> Seq(Messages)]
    /\ stops \in 0 .. MaxStops /\ requests \in 0 .. MaxRequests

LEMMA AllTypes == TypeOK <=> CallTypes /\ OtherTypes
BY DEF TypeOK, CallTypes, OtherTypes

(* Messages that are sent, and received. *)
LEMMA SentTypes ==
    ASSUME OtherTypes, NEW e \in Ends, NEW ms \in Seq(Messages), SendAll(e, ms)
    PROVE  wire' \in [Ends -> Seq(HandshakeMessages \cup Messages)]
<1>1. ms \in Seq(HandshakeMessages \cup Messages)
  OBVIOUS
<1>2. Peer(e) \in Ends
  BY TwoEnds
<1>3. wire[Peer(e)] \o ms \in Seq(HandshakeMessages \cup Messages)
  BY <1>1, <1>2 DEF OtherTypes
<1> QED
  BY <1>2, <1>3 DEF OtherTypes, SendAll

LEMMA OneSentTypes ==
    ASSUME OtherTypes, NEW e \in Ends, NEW m \in Messages, Send(e, m)
    PROVE  wire' \in [Ends -> Seq(HandshakeMessages \cup Messages)]
<1>1. <<m>> \in Seq(Messages)
  OBVIOUS
<1> QED
  BY <1>1, SentTypes DEF Send, SendAll

LEMMA TakenTypes ==
    ASSUME OtherTypes, NEW e \in Ends, NEW ms, Takes(e, ms)
    PROVE  inbox' \in [Ends -> Seq(Messages)] /\ Head(inbox[e]) \in Messages
<1>1. inbox[e] \in Seq(Messages) /\ inbox[e] # <<>> /\ inbox' = [inbox EXCEPT ![e] = Tail(@)]
  BY DEF OtherTypes, Takes
<1>2. Tail(inbox[e]) \in Seq(Messages) /\ Head(inbox[e]) \in Messages
  BY <1>1
<1> QED
  BY <1>1, <1>2 DEF OtherTypes

LEMMA StartTypes ==
    ASSUME OtherTypes, NEW e \in Ends, Start(e) \/ ReceiveText(e) \/ InputWhileDraining(e) \/ StartStep(e)
    PROVE  OtherTypes'
<1>1. CASE Start(e)
  BY <1>1, TwoEnds DEF OtherTypes, Start, Send, SendAll, startVars, channelVars, stopVars, countVars, HandshakeMessages
<1>2. CASE ReceiveText(e)
  BY <1>2 DEF OtherTypes, ReceiveText, startVars, channelVars, stopVars, countVars
<1>3. CASE InputWhileDraining(e)
  BY <1>3 DEF OtherTypes, InputWhileDraining, startVars, channelVars, stopVars, countVars
<1>4. CASE ReceiveConfig(e)
  <2>1. /\ wire[e] \in Seq(HandshakeMessages \cup Messages) /\ wire[e] # <<>>
        /\ wire[Peer(e)] \in Seq(HandshakeMessages \cup Messages)
    BY <1>4, TwoEnds DEF OtherTypes, ReceiveConfig, Arrived
  <2>2. /\ Tail(wire[e]) \in Seq(HandshakeMessages \cup Messages)
        /\ Append(wire[Peer(e)], "start") \in Seq(HandshakeMessages \cup Messages)
    BY <2>1 DEF HandshakeMessages
  <2>3. wire' \in [Ends -> Seq(HandshakeMessages \cup Messages)]
    BY <1>4, <2>1, <2>2, TwoEnds DEF OtherTypes, ReceiveConfig
  <2> QED
    BY <1>4, <2>3 DEF OtherTypes, ReceiveConfig, startVars, channelVars, stopVars, countVars
<1>5. CASE ReceiveStart(e)
  BY <1>5 DEF OtherTypes, ReceiveStart, OnRemoteReady, Arrived, Taken, startVars, channelVars, stopVars, countVars
<1>6. CASE TextHandled(e)
  <2>1. CASE state[e] \in Terminal
    BY <1>6, <2>1 DEF OtherTypes, TextHandled, OnRemoteReady, channelVars, stopVars, countVars
  <2>2. CASE state[e] \notin Terminal
    BY <1>6, <2>2 DEF OtherTypes, TextHandled, channelVars, stopVars, countVars
  <2> QED
    BY <2>1, <2>2
<1> QED
  BY <1>1, <1>2, <1>3, <1>4, <1>5, <1>6 DEF StartStep

LEMMA CallStepTypes ==
    ASSUME OtherTypes, Handshake, NEW e \in Ends, NEW k \in DOMAIN calls[e], CallStep(e, k)
    PROVE  OtherTypes'
<1>1. CASE BeforeStoppingDone(e, k)
  <2>1. tcc[e] \in {"none", "open", "closed"}
    BY DEF OtherTypes
  <2>2. wire' \in [Ends -> Seq(HandshakeMessages \cup Messages)]
    <3>1. wire' = wire \/ Send(e, "tranStop")
      BY <1>1, <2>1 DEF BeforeStoppingDone
    <3> QED
      BY <3>1, OneSentTypes DEF Messages, OtherTypes, Send, SendAll
  <2>3. /\ state' \in [Ends -> {"created", "starting", "active", "crashed"} \cup Stopping \cup Terminal]
        /\ final' \in [Ends -> {"none", "closing", "draining", "done", "failed"}]
    <3>1. CASE tcc[e] = "none" /\ state[e] # "disconnected"
      <4>1. state' = [state EXCEPT ![e] = "stopped"] /\ final' = [final EXCEPT ![e] = "draining"]
        BY <1>1, <3>1 DEF BeforeStoppingDone
      <4> QED
        BY <4>1 DEF Terminal, OtherTypes
    <3>2. CASE ~(tcc[e] = "none" /\ state[e] # "disconnected")
      BY <1>1, <2>1, <3>2 DEF BeforeStoppingDone, OtherTypes
    <3> QED
      BY <3>1, <3>2
  <2> QED
    BY <1>1, <2>2, <2>3 DEF OtherTypes, BeforeStoppingDone, RejectRequests, startVars, channelVars, stopVars, countVars
<1>2. CASE CloseChannels(e, k)
  <2>1. wire' \in [Ends -> Seq(HandshakeMessages \cup Messages)]
    <3>1. /\ <<"chanClose">> \in Seq(Messages) /\ <<>> \in Seq(Messages)
          /\ SendAll(e, <<>>) \/ SendAll(e, <<"chanClose">>)
      BY <1>2 DEF CloseChannels, Messages
    <3> QED
      BY <3>1, SentTypes DEF SendAll
  <2> QED
    BY <1>2, <2>1 DEF OtherTypes, CloseChannels, StartClosing, Closing, startVars, channelVars, stopVars, countVars
<1>3. CASE ChannelsClosed(e, k)
  <2>1. tcc[e] \in {"open", "closed"}
    BY <1>3 DEF OtherTypes, ChannelsClosed, At, Handshake, Starts, IsAt, ClosingPCs
  <2>2. wire' \in [Ends -> Seq(HandshakeMessages \cup Messages)]
    <3>1. wire' = wire \/ Send(e, "tranStopped")
      BY <1>3, <2>1 DEF ChannelsClosed
    <3> QED
      BY <3>1, OneSentTypes DEF Messages, OtherTypes, Send, SendAll
  <2> QED
    BY <1>3, <2>2 DEF OtherTypes, ChannelsClosed, startVars, channelVars, stopVars, countVars
<1>4. CASE Timeout(e, k)
  BY <1>4 DEF OtherTypes, Timeout, startVars, channelVars, stopVars, countVars
<1>5. CASE TranStoppedSent(e, k)
  <2>1. CASE RemoteIsDone(e)
    BY <1>5, <2>1 DEF OtherTypes, TranStoppedSent, FinalizeStop, startVars, channelVars, countVars
  <2>2. CASE ~RemoteIsDone(e)
    BY <1>5, <2>2 DEF OtherTypes, TranStoppedSent, Stopping, startVars, channelVars, countVars
  <2> QED
    BY <2>1, <2>2
<1>6. CASE Finalized(e, k)
  BY <1>6 DEF OtherTypes, Finalized, startVars, channelVars, stopVars, countVars
<1> QED
  BY <1>1, <1>2, <1>3, <1>4, <1>5, <1>6 DEF CallStep

LEMMA TakeTypes ==
    ASSUME OtherTypes, NEW e \in Ends, TakeStep(e)
    PROVE  OtherTypes'
<1>1. CASE OnChannelRequest(e)
  <2>1. wire' \in [Ends -> Seq(HandshakeMessages \cup Messages)]
    <3>1. wire' = wire \/ Send(e, "chanRejected")
      BY <1>1 DEF OnChannelRequest
    <3> QED
      BY <3>1, OneSentTypes DEF Messages, Responses, OtherTypes, Send, SendAll
  <2> QED
    BY <1>1, <2>1, TakenTypes DEF OtherTypes, Takes, OnChannelRequest, startVars, channelVars, stopVars, countVars
<1>2. CASE OnChannelResponse(e)
  BY <1>2, TakenTypes DEF OtherTypes, Takes, OnChannelResponse, startVars, channelVars, stopVars, countVars
<1>3. CASE OnChannelClose(e)
  <2>1. wire' \in [Ends -> Seq(HandshakeMessages \cup Messages)]
    <3>1. /\ <<"chanClose">> \in Seq(Messages) /\ <<>> \in Seq(Messages)
          /\ SendAll(e, <<>>) \/ SendAll(e, <<"chanClose">>)
      BY <1>3 DEF OnChannelClose, Messages
    <3> QED
      BY <3>1, SentTypes DEF SendAll
  <2> QED
    BY <1>3, <2>1, TakenTypes DEF OtherTypes, Takes, OnChannelClose, StartClosing, Closing, startVars, channelVars, stopVars, countVars
<1>4. CASE OnChannelClosed(e)
  BY <1>4, TakenTypes DEF OtherTypes, Takes, OnChannelClosed, Closing, startVars, channelVars, stopVars, countVars
<1>5. CASE OnTransportStop(e)
  <2>1. state' \in [Ends -> {"created", "starting", "active", "crashed"} \cup Stopping \cup Terminal]
    <3>1. state' = state \/ state' = [state EXCEPT ![e] = "stopping"]
      BY <1>5 DEF OnTransportStop, NewStop
    <3> QED
      BY <3>1 DEF OtherTypes, Stopping
  <2> QED
    BY <1>5, <2>1, TakenTypes DEF OtherTypes, Takes, OnTransportStop, startVars, channelVars, countVars
<1>6. CASE OnTransportStopped(e)
  <2>1. inbox' \in [Ends -> Seq(Messages)]
    BY <1>6, TakenTypes DEF OnTransportStopped, Takes
  <2>2. CASE state[e] = "remoteStopping"
    <3>1. /\ tcc' = [tcc EXCEPT ![e] = "closed"] /\ final' = [final EXCEPT ![e] = "closing"]
          /\ handling' = [handling EXCEPT ![e] = "finalize"]
          /\ state' = [state EXCEPT ![e] = IF @ = "stopping" THEN "localStopping" ELSE @]
      BY <1>6, <2>2 DEF OnTransportStopped, FinalizeStop
    <3>2. state' \in [Ends -> {"created", "starting", "active", "crashed"} \cup Stopping \cup Terminal]
      BY <3>1 DEF OtherTypes, Stopping
    <3>3. UNCHANGED <<trouble, startVars, channelVars, resolved, wire, lost, countVars>>
      BY <1>6 DEF OnTransportStopped
    <3> QED
      BY <2>1, <3>1, <3>2, <3>3 DEF OtherTypes, startVars, channelVars, countVars
  <2>3. CASE state[e] # "remoteStopping"
    BY <1>6, <2>1, <2>3 DEF OtherTypes, OnTransportStopped, Stopping, startVars, channelVars, countVars
  <2> QED
    BY <2>2, <2>3
<1>7. CASE FinalizeHandled(e)
  BY <1>7 DEF OtherTypes, FinalizeHandled, HandlersDone, startVars, channelVars, stopVars, countVars
<1> QED
  BY <1>1, <1>2, <1>3, <1>4, <1>5, <1>6, <1>7 DEF TakeStep

LEMMA HandlerTypes ==
    ASSUME OtherTypes, NEW e \in Ends, HandlerStep(e)
    PROVE  OtherTypes'
<1>1. CASE Accept(e)
  <2>1. wire' \in [Ends -> Seq(HandshakeMessages \cup Messages)]
    <3>1. /\ <<"chanAccepted">> \in Seq(Messages) /\ <<>> \in Seq(Messages)
          /\ SendAll(e, <<>>) \/ SendAll(e, <<"chanAccepted">>)
      BY <1>1 DEF Accept, Messages, Responses
    <3> QED
      BY <3>1, SentTypes DEF SendAll
  <2> QED
    BY <1>1, <2>1 DEF OtherTypes, Accept, HandlersDone, Closing, startVars, stopVars, countVars
<1>2. CASE Reject(e)
  <2>1. wire' \in [Ends -> Seq(HandshakeMessages \cup Messages)]
    <3>1. /\ <<"chanRejected">> \in Seq(Messages) /\ <<>> \in Seq(Messages)
          /\ SendAll(e, <<>>) \/ SendAll(e, <<"chanRejected">>)
      BY <1>2 DEF Reject, Messages, Responses
    <3> QED
      BY <3>1, SentTypes DEF SendAll
  <2> QED
    BY <1>2, <2>1 DEF OtherTypes, Reject, HandlersDone, startVars, channelVars, stopVars, countVars
<1>3. CASE HandlerStops(e)
  <2>1. state' = state \/ state' = [state EXCEPT ![e] = "stopping"]
    BY <1>3 DEF HandlerStops, NewStop
  <2>2. state' \in [Ends -> {"created", "starting", "active", "crashed"} \cup Stopping \cup Terminal]
    BY <2>1 DEF OtherTypes, Stopping
  <2> QED
    BY <1>3, <2>2 DEF OtherTypes, HandlerStops, startVars, channelVars, countVars
<1> QED
  BY <1>1, <1>2, <1>3 DEF HandlerStep

LEMMA DisconnectTypes ==
    ASSUME OtherTypes, CallTypes, NEW e \in Ends, NoticeLoss(e) \/ Abort(e) \/ EndOfInput(e)
    PROVE  OtherTypes' /\ CallTypes'
<1>1. OnDisconnect(e) /\ stops' \in 0 .. MaxStops /\ requests' = requests
  BY BoundsAssumption DEF OtherTypes, NoticeLoss, Abort, EndOfInput, countVars, StopsLeft
<1>2. PICK promise \in Int : /\ stopped' = [stopped EXCEPT ![e] = promise]
                             /\ resolved' = [resolved EXCEPT ![e] = @ \cup {promise}]
                             /\ promise \in {stopped[e], OwnPromise}
  <2>1. stopped[e] \in Int /\ OwnPromise \in Int
    BY DEF CallTypes, OwnPromise
  <2> QED
    BY <1>1, <2>1 DEF OnDisconnect
<1>3. /\ state' = [state EXCEPT ![e] = "disconnected"]
      /\ pending' = [pending EXCEPT ![e] = "none"]
      /\ channel' = [channel EXCEPT ![e] = IF @ \in {"open"} \cup Closing THEN "disconnected" ELSE @]
      /\ tcc' = [tcc EXCEPT ![e] = IF @ = "none" THEN @ ELSE "closed"]
      /\ reader' = [reader EXCEPT ![e] = IF text[e] = "awaited" THEN @ ELSE "ended"]
      /\ wire' = [wire EXCEPT ![e] = <<>>]
      /\ UNCHANGED <<trouble, started, text, handling, calls, final, inbox, lost>>
  BY <1>1 DEF OnDisconnect, ReaderEnds, DisconnectChannel
<1>4. resolved' \in [Ends -> SUBSET Int] /\ stopped' \in [Ends -> Int]
  BY <1>2 DEF OtherTypes, CallTypes
<1>5. OtherTypes'
  <2>1. state' \in [Ends -> {"created", "starting", "active", "crashed"} \cup Stopping \cup Terminal]
    BY <1>3 DEF OtherTypes, Terminal
  <2>2. channel' \in [Ends -> {"none", "open", "closed", "disconnected"} \cup Closing]
    BY <1>3 DEF OtherTypes
  <2>3. /\ pending' \in [Ends -> {"none", "waiting", "settled"}] /\ tcc' \in [Ends -> {"none", "open", "closed"}]
        /\ reader' \in [Ends -> {"none", "config", "start", "messages", "ended"}]
    BY <1>3 DEF OtherTypes
  <2>4. wire' \in [Ends -> Seq(HandshakeMessages \cup Messages)]
    BY <1>3 DEF OtherTypes
  <2> QED
    BY <1>1, <1>3, <1>4, <2>1, <2>2, <2>3, <2>4 DEF OtherTypes
<1>6. ASSUME NEW f \in Ends PROVE stopped'[f] \in OwnPromise .. Len(calls'[f])
  <2>1. Len(calls[f]) \in Nat /\ stopped[f] \in OwnPromise .. Len(calls[f]) /\ calls'[f] = calls[f]
    BY <1>3 DEF CallTypes
  <2>2. OwnPromise \in OwnPromise .. Len(calls[f])
    BY <2>1 DEF OwnPromise
  <2>3. stopped'[f] = stopped[f] \/ (f = e /\ stopped'[f] = OwnPromise)
    BY <1>2 DEF CallTypes
  <2> QED
    BY <2>1, <2>2, <2>3
<1>7. CallTypes'
  BY <1>3, <1>4, <1>6 DEF CallTypes
<1> QED
  BY <1>5, <1>7

LEMMA TypeStep ==
    ASSUME TypeOK, Handshake, Next
    PROVE  TypeOK'
<1>a. CallTypes /\ OtherTypes
  BY AllTypes
<1> SUFFICES CallTypes' /\ OtherTypes'
  BY DEF TypeOK, CallTypes, OtherTypes
<1>b. ASSUME UNCHANGED <<calls, stopped>> PROVE CallTypes'
  BY <1>a, <1>b DEF CallTypes
<1>c. ASSUME NEW e \in Ends, NEW t \in BOOLEAN, NEW h \in BOOLEAN, NewStop(e, t, h) PROVE CallTypes'
  BY <1>c, CallTypesStop DEF NewStop
<1>1. ASSUME NEW e \in Ends, Start(e) \/ ReceiveText(e) \/ InputWhileDraining(e) \/ StartStep(e)
      PROVE  CallTypes' /\ OtherTypes'
  <2>1. OtherTypes'
    BY <1>a, <1>1, StartTypes
  <2>2. UNCHANGED <<calls, stopped>>
    BY <1>1 DEF Start, ReceiveText, InputWhileDraining, StartStep, ReceiveConfig, ReceiveStart, TextHandled, stopVars
  <2> QED
    BY <1>b, <2>1, <2>2
<1>2. ASSUME NEW e \in Ends, RequestChannel(e) PROVE CallTypes' /\ OtherTypes'
  <2>1. wire' \in [Ends -> Seq(HandshakeMessages \cup Messages)]
    BY <1>2, <1>a, OneSentTypes DEF RequestChannel, Send, SendAll, Messages
  <2>2. requests' \in 0 .. MaxRequests
    BY <1>2, <1>a, BoundsAssumption DEF RequestChannel, RequestsLeft, OtherTypes
  <2>3. OtherTypes'
    BY <1>2, <1>a, <2>1, <2>2 DEF OtherTypes, RequestChannel, startVars, stopVars
  <2> QED
    BY <1>2, <1>b, <2>3 DEF RequestChannel, stopVars
<1>3. ASSUME NEW e \in Ends, SendChanClosed(e) PROVE CallTypes' /\ OtherTypes'
  <2>1. wire' \in [Ends -> Seq(HandshakeMessages \cup Messages)]
    BY <1>3, <1>a, OneSentTypes DEF SendChanClosed, Send, SendAll, Messages
  <2>2. OtherTypes'
    BY <1>3, <1>a, <2>1 DEF OtherTypes, SendChanClosed, Closing, startVars, stopVars, countVars
  <2> QED
    BY <1>3, <1>b, <2>2 DEF SendChanClosed, stopVars
<1>4. ASSUME NEW e \in Ends, NEW t \in BOOLEAN, Stop(e, t) PROVE CallTypes' /\ OtherTypes'
  <2>1. NewStop(e, t, FALSE) /\ (state' = state \/ state' = [state EXCEPT ![e] = "stopping"])
    BY <1>4 DEF Stop, NewStop
  <2>2. state' \in [Ends -> {"created", "starting", "active", "crashed"} \cup Stopping \cup Terminal]
    BY <1>a, <2>1 DEF OtherTypes, Stopping
  <2>3. stops' \in 0 .. MaxStops
    BY <1>4, <1>a, BoundsAssumption DEF Stop, StopsLeft, OtherTypes
  <2>4. OtherTypes'
    BY <1>4, <1>a, <2>2, <2>3 DEF OtherTypes, Stop, startVars, channelVars
  <2> QED
    BY <1>c, <2>1, <2>4
<1>5. ASSUME NEW e \in Ends, NEW k \in DOMAIN calls[e], CallStep(e, k) PROVE CallTypes' /\ OtherTypes'
  <2>1. OtherTypes'
    BY <1>5, <1>a, CallStepTypes
  <2>2. calls[e][k].pc # "returned" /\ calls[e][k].promise # 0 /\ stopped' \in {stopped, [stopped EXCEPT ![e] = 0]}
    BY <1>5 DEF CallStep, BeforeStoppingDone, CloseChannels, ChannelsClosed, Timeout, TranStoppedSent, Finalized, At,
                Handshake, Starts, stopVars
  <2>3. CASE CloseChannels(e, k)
    <3>1. /\ calls' = [calls EXCEPT ![e][k].pc = "closing", ![e][k].waits = AwaitsChannel(e)]
          /\ AwaitsChannel(e) \in BOOLEAN
      BY <2>3 DEF CloseChannels, AwaitsChannel, IsClosing
    <3>2. calls \in [Ends -> Seq(CallSet)] /\ stopped' = stopped
      BY <1>a, <2>3 DEF CallTypes, CloseChannels
    <3>3. /\ calls' \in [Ends -> Seq(CallSet)]
          /\ DOMAIN calls'[e] = DOMAIN calls[e] /\ Len(calls'[e]) = Len(calls[e])
          /\ calls'[e][k].pc = "closing"
          /\ \A l \in DOMAIN calls[e] : l # k => calls'[e][l] = calls[e][l]
          /\ \A f \in Ends : f # e => calls'[f] = calls[f]
      BY <3>1, <3>2, CallCloses
    <3>4. CallTypes'
      BY <1>a, <3>2, <3>3 DEF CallTypes
    <3> QED
      BY <2>1, <3>4
  <2>4. CASE ~CloseChannels(e, k)
    <3>1. PICK pc \in PCs : Goto(e, k, pc)
      <4>1. tcc[e] \in {"none", "open", "closed"} /\ (calls[e][k].pc = "closing" => tcc[e] # "none")
        <5>1. tcc[e] \in {"none", "open", "closed"}
          BY <1>a DEF OtherTypes
        <5>2. tcc[e] = "none" => ~IsAt(e, ClosingPCs)
          BY DEF Handshake, Starts
        <5> QED
          BY <5>1, <5>2 DEF IsAt, ClosingPCs
      <4> QED
        BY <1>5, <2>4, <4>1
        DEF At, CallStep, BeforeStoppingDone, ChannelsClosed, Timeout, TranStoppedSent, Finalized, PCs
    <3> QED
      BY <1>a, <2>1, <2>2, <3>1, CallTypesGo DEF Goto
  <2> QED
    BY <2>3, <2>4
<1>6. ASSUME NEW e \in Ends, TccClosed(e) \/ Drained(e) \/ DrainFails(e) PROVE CallTypes' /\ OtherTypes'
  <2>1. UNCHANGED <<calls, stopped>>
    BY <1>6 DEF TccClosed, Drained, DrainFails, stopVars
  <2>2. CASE TccClosed(e)
    <3>1. /\ state' = state \/ state' = [state EXCEPT ![e] = "stopped"]
          /\ final' = [final EXCEPT ![e] = "done"] \/ final' = [final EXCEPT ![e] = "draining"]
      BY <2>2 DEF TccClosed
    <3>2. state' \in [Ends -> {"created", "starting", "active", "crashed"} \cup Stopping \cup Terminal]
      BY <1>a, <3>1 DEF OtherTypes, Terminal
    <3> QED
      BY <1>a, <1>b, <2>1, <2>2, <3>1, <3>2 DEF OtherTypes, TccClosed, startVars, channelVars, countVars
  <2>3. CASE Drained(e)
    <3>1. stopped[e] \in Int
      BY <1>a DEF CallTypes
    <3>2. resolved' \in [Ends -> SUBSET Int] /\ reader' \in [Ends -> {"none", "config", "start", "messages", "ended"}]
      BY <1>a, <2>3, <3>1 DEF OtherTypes, Drained, ReaderEnds
    <3> QED
      BY <1>a, <1>b, <2>1, <2>3, <3>2 DEF OtherTypes, Drained, channelVars, countVars
  <2>4. CASE DrainFails(e)
    BY <1>a, <1>b, <2>1, <2>4 DEF OtherTypes, DrainFails, startVars, channelVars, countVars
  <2> QED
    BY <1>6, <2>2, <2>3, <2>4
<1>7. ASSUME NEW e \in Ends, Receive(e) PROVE CallTypes' /\ OtherTypes'
  <2>1. wire[e] \in Seq(HandshakeMessages \cup Messages) /\ wire[e] # <<>> /\ inbox[e] \in Seq(Messages)
    BY <1>7, <1>a DEF Receive, OtherTypes
  <2>2. 1 \in DOMAIN wire[e] /\ wire[e][1] = Head(wire[e]) /\ Head(wire[e]) \in HandshakeMessages \cup Messages
    BY <2>1
  <2>3. wire[e][1] # "config" /\ wire[e][1] # "start"
    BY <1>7, <2>2 DEF Receive, Handshake, Comes
  <2>4. Append(inbox[e], Head(wire[e])) \in Seq(Messages) /\ Tail(wire[e]) \in Seq(HandshakeMessages \cup Messages)
    BY <2>1, <2>2, <2>3 DEF HandshakeMessages
  <2>5. OtherTypes'
    BY <1>7, <1>a, <2>4 DEF OtherTypes, Receive, Taken, startVars, channelVars, stopVars, countVars
  <2> QED
    BY <1>7, <1>b, <2>5 DEF Receive, stopVars
<1>8. ASSUME NEW e \in Ends, TakeStep(e) PROVE CallTypes' /\ OtherTypes'
  <2>1. UNCHANGED <<calls, stopped>> \/ NewStop(e, FALSE, FALSE)
    BY <1>8 DEF TakeStep, OnChannelRequest, OnChannelResponse, OnChannelClose, OnChannelClosed, OnTransportStop,
                OnTransportStopped, FinalizeHandled, stopVars
  <2> QED
    BY <1>8, <1>a, <1>b, <1>c, <2>1, TakeTypes
<1>9. ASSUME NEW e \in Ends, HandlerStep(e) PROVE CallTypes' /\ OtherTypes'
  <2>1. UNCHANGED <<calls, stopped>> \/ NewStop(e, FALSE, TRUE)
    BY <1>9 DEF HandlerStep, Accept, Reject, HandlerStops, stopVars
  <2> QED
    BY <1>9, <1>a, <1>b, <1>c, <2>1, HandlerTypes
<1>10. ASSUME NEW e \in Ends, Crash(e) PROVE CallTypes' /\ OtherTypes'
  BY <1>10, <1>a, <1>b DEF OtherTypes, Crash, startVars, channelVars, stopVars, countVars
<1>11. ASSUME NEW e \in Ends, NoticeLoss(e) \/ Abort(e) \/ EndOfInput(e) PROVE CallTypes' /\ OtherTypes'
  BY <1>11, <1>a, DisconnectTypes
<1>12. ASSUME Lose PROVE CallTypes' /\ OtherTypes'
  BY <1>12, <1>a, <1>b DEF OtherTypes, Lose, startVars, channelVars, stopVars, countVars
<1> QED
  BY <1>1, <1>2, <1>3, <1>4, <1>5, <1>6, <1>7, <1>8, <1>9, <1>10, <1>11, <1>12 DEF Next

----------------------------------------------------------------------------
(* A step of one end leaves the other as it is, but for what comes to it. *)

Step(e) ==
    \/ Start(e) \/ StartStep(e) \/ ReceiveText(e) \/ InputWhileDraining(e)
    \/ RequestChannel(e) \/ SendChanClosed(e)
    \/ \E timeout \in BOOLEAN : Stop(e, timeout)
    \/ \E k \in DOMAIN calls[e] : CallStep(e, k)
    \/ TccClosed(e) \/ Drained(e) \/ DrainFails(e)
    \/ Receive(e) \/ TakeStep(e) \/ HandlerStep(e)
    \/ Crash(e) \/ NoticeLoss(e) \/ Abort(e) \/ EndOfInput(e)

LEMMA Steps == Next <=> (\E e \in Ends : Step(e)) \/ Lose
BY DEF Next, Step

SameEnd(f) ==
    /\ state'[f] = state[f] /\ started'[f] = started[f] /\ reader'[f] = reader[f] /\ text'[f] = text[f]
    /\ tcc'[f] = tcc[f] /\ handling'[f] = handling[f] /\ channel'[f] = channel[f] /\ pending'[f] = pending[f]
    /\ calls'[f] = calls[f] /\ final'[f] = final[f] /\ inbox'[f] = inbox[f]

LEMMA StopHere ==
    ASSUME TypeOK, NEW e \in Ends, NEW t \in BOOLEAN, NEW h \in BOOLEAN, NewStop(e, t, h)
    PROVE  \A f \in Ends : f # e => calls'[f] = calls[f] /\ state'[f] = state[f]
<1>1. calls \in [Ends -> Seq(CallSet)]
  BY DEF TypeOK
<1>2. PICK c \in CallSet : calls' = [calls EXCEPT ![e] = Append(@, c)]
  BY CallTypesStop DEF NewStop
<1>3. state' = [state EXCEPT ![e] = IF @ \in {"created", "starting", "active"} THEN "stopping" ELSE @]
  BY CallTypesStop DEF NewStop
<1> QED
  BY <1>1, <1>2, <1>3 DEF TypeOK

LEMMA OtherEnd ==
    ASSUME TypeOK, Handshake, NEW e \in Ends, NEW f \in Ends, f # e, Step(e)
    PROVE  SameEnd(f) /\ trouble' = trouble /\ lost' = lost
<1> USE DEF SameEnd
<1>1. CASE Start(e) \/ ReceiveText(e) \/ InputWhileDraining(e)
  BY <1>1 DEF TypeOK, Start, ReceiveText, InputWhileDraining, startVars, channelVars, stopVars, countVars
<1>2. CASE StartStep(e)
  BY <1>2 DEF TypeOK, StartStep, ReceiveConfig, ReceiveStart, TextHandled, OnRemoteReady, startVars, channelVars, stopVars, countVars
<1>3. CASE RequestChannel(e) \/ SendChanClosed(e)
  BY <1>3 DEF TypeOK, RequestChannel, SendChanClosed, startVars, channelVars, stopVars, countVars
<1>4. CASE \E timeout \in BOOLEAN : Stop(e, timeout)
  <2>1. calls'[f] = calls[f] /\ state'[f] = state[f]
    BY <1>4, StopHere DEF Stop, NewStop
  <2> QED
    BY <1>4, <2>1 DEF TypeOK, Stop, startVars, channelVars
<1>5. CASE \E k \in DOMAIN calls[e] : CallStep(e, k)
  <2> SUFFICES ASSUME NEW k \in DOMAIN calls[e], CallStep(e, k) PROVE SameEnd(f) /\ trouble' = trouble /\ lost' = lost
    BY <1>5
  <2>a. tcc[e] \in {"none", "open", "closed"}
    BY DEF TypeOK
  <2>1. CASE BeforeStoppingDone(e, k)
    <3>1. (state' = state \/ state' = [state EXCEPT ![e] = "stopped"])
          /\ (final' = final \/ final' = [final EXCEPT ![e] = "draining"])
      BY <2>a, <2>1 DEF BeforeStoppingDone
    <3>2. \E pc \in PCs : Goto(e, k, pc)
      BY <2>a, <2>1 DEF BeforeStoppingDone, PCs
    <3>3. calls'[f] = calls[f]
      BY <3>2 DEF TypeOK, Goto
    <3>4. state'[f] = state[f] /\ final'[f] = final[f]
      BY <3>1 DEF TypeOK
    <3> QED
      BY <2>1, <3>3, <3>4 DEF TypeOK, BeforeStoppingDone, RejectRequests, startVars
  <2>2. CASE CloseChannels(e, k)
    BY <2>a, <2>2 DEF TypeOK, CloseChannels, StartClosing, startVars, channelVars, stopVars, countVars
  <2>3. CASE ChannelsClosed(e, k)
    <3>1. tcc[e] = "none" => ~IsAt(e, ClosingPCs)
      BY DEF Handshake, Starts
    <3>2. tcc[e] \in {"open", "closed"}
      BY <2>a, <2>3, <3>1 DEF ChannelsClosed, At, IsAt, ClosingPCs
    <3>3. \E pc \in PCs : Goto(e, k, pc)
      BY <2>3, <3>2 DEF ChannelsClosed, PCs
    <3>4. calls'[f] = calls[f]
      BY <3>3 DEF TypeOK, Goto
    <3> QED
      BY <2>3, <3>4 DEF TypeOK, ChannelsClosed, startVars, channelVars
  <2>4. CASE Timeout(e, k)
    BY <2>a, <2>4 DEF TypeOK, Timeout, Goto, startVars, channelVars, stopVars, countVars
  <2>5. CASE TranStoppedSent(e, k)
    BY <2>a, <2>5 DEF TypeOK, TranStoppedSent, FinalizeStop, Goto, startVars, channelVars, stopVars, countVars
  <2>6. CASE Finalized(e, k)
    BY <2>a, <2>6 DEF TypeOK, Finalized, Goto, startVars, channelVars, stopVars, countVars
  <2> QED
    BY <2>1, <2>2, <2>3, <2>4, <2>5, <2>6 DEF CallStep
<1>6. CASE TccClosed(e) \/ Drained(e) \/ DrainFails(e)
  BY <1>6 DEF TypeOK, TccClosed, Drained, DrainFails, ReaderEnds, startVars, channelVars, stopVars, countVars
<1>7. CASE Receive(e)
  BY <1>7 DEF TypeOK, Receive, startVars, channelVars, stopVars, countVars
<1>8. CASE TakeStep(e)
  <2>1. CASE OnChannelRequest(e)
    BY <2>1 DEF TypeOK, OnChannelRequest, Takes, startVars, channelVars, stopVars, countVars
  <2>2. CASE OnChannelResponse(e)
    BY <2>2 DEF TypeOK, OnChannelResponse, Takes, startVars, channelVars, stopVars, countVars
  <2>3. CASE OnChannelClose(e)
    BY <2>3 DEF TypeOK, OnChannelClose, Takes, StartClosing, startVars, channelVars, stopVars, countVars
  <2>4. CASE OnChannelClosed(e)
    BY <2>4 DEF TypeOK, OnChannelClosed, Takes, startVars, channelVars, stopVars, countVars
  <2>5. CASE OnTransportStop(e)
    <3>1. calls'[f] = calls[f] /\ state'[f] = state[f]
      BY <2>5, StopHere DEF OnTransportStop, NewStop
    <3> QED
      BY <2>5, <3>1 DEF TypeOK, OnTransportStop, Takes, startVars, channelVars
  <2>6. CASE OnTransportStopped(e)
    BY <2>6 DEF TypeOK, OnTransportStopped, Takes, FinalizeStop, startVars, channelVars, stopVars, countVars
  <2>7. CASE FinalizeHandled(e)
    BY <2>7 DEF TypeOK, FinalizeHandled, HandlersDone, startVars, channelVars, stopVars, countVars
  <2> QED
    BY <1>8, <2>1, <2>2, <2>3, <2>4, <2>5, <2>6, <2>7 DEF TakeStep
<1>9. CASE HandlerStep(e)
  <2>1. CASE HandlerStops(e)
    <3>1. calls'[f] = calls[f] /\ state'[f] = state[f]
      BY <2>1, StopHere DEF HandlerStops, NewStop
    <3> QED
      BY <2>1, <3>1 DEF TypeOK, HandlerStops, startVars, channelVars
  <2>2. CASE Accept(e) \/ Reject(e)
    BY <2>2 DEF TypeOK, Accept, Reject, HandlersDone, startVars, channelVars, stopVars
  <2> QED
    BY <1>9, <2>1, <2>2 DEF HandlerStep
<1>10. CASE Crash(e)
  BY <1>10 DEF TypeOK, Crash, startVars, channelVars, stopVars, countVars
<1>11. CASE NoticeLoss(e) \/ Abort(e) \/ EndOfInput(e)
  BY <1>11 DEF TypeOK, NoticeLoss, Abort, EndOfInput, OnDisconnect, DisconnectChannel, ReaderEnds, startVars, channelVars, stopVars, countVars
<1> QED
  BY <1>1, <1>2, <1>3, <1>4, <1>5, <1>6, <1>7, <1>8, <1>9, <1>10, <1>11 DEF Step

----------------------------------------------------------------------------
(* The handshake *)

LEMMA StartsSame ==
    ASSUME NEW f \in Ends, SameEnd(f), trouble' = trouble, Starts(f)
    PROVE  Starts(f)'
BY DEF SameEnd, Starts, IsAt

(* Where no call is new or goes on. *)
LEMMA CallsKept ==
    ASSUME NEW e \in Ends, calls'[e] = calls[e], NEW S
    PROVE  IsAt(e, S)' <=> IsAt(e, S)
BY DEF IsAt

LEMMA StartsFirst ==
    ASSUME TypeOK, Handshake, NEW e \in Ends, Start(e) \/ ReceiveText(e) \/ InputWhileDraining(e) \/ StartStep(e)
    PROVE  Starts(e)'
<1>a. Starts(e) /\ Comes(e)
  BY DEF Handshake
<1>b. calls' = calls /\ calls'[e] = calls[e]
  BY DEF Start, ReceiveText, InputWhileDraining, StartStep, ReceiveConfig, ReceiveStart, TextHandled, stopVars
<1>c. IsAt(e, ClosingPCs)' <=> IsAt(e, ClosingPCs)
  BY <1>b, CallsKept
<1>1. CASE Start(e)
  BY <1>a, <1>b, <1>c, <1>1 DEF TypeOK, Starts, Start, NotYet, Before, Terminal, stopVars
<1>2. CASE ReceiveText(e)
  BY <1>a, <1>b, <1>c, <1>2 DEF TypeOK, Starts, ReceiveText, stopVars
<1>3. CASE InputWhileDraining(e)
  BY <1>a, <1>b, <1>c, <1>3 DEF TypeOK, Starts, InputWhileDraining, NotYet, Terminal, InHandshake, WithoutChannel, stopVars
<1>4. CASE ReceiveConfig(e)
  BY <1>a, <1>b, <1>c, <1>4 DEF TypeOK, Starts, ReceiveConfig, Arrived, Running, NotYet, Terminal, stopVars, startVars
<1>5. CASE ReceiveStart(e)
  BY <1>a, <1>b, <1>c, <1>5 DEF TypeOK, Starts, ReceiveStart, OnRemoteReady, Arrived, Running, NotYet, Terminal, stopVars
<1>6. CASE TextHandled(e)
  <2>1. CASE state[e] \in Terminal
    BY <1>a, <1>b, <1>c, <1>6, <2>1 DEF TypeOK, Starts, TextHandled, OnRemoteReady, NotYet, Terminal, WithoutChannel, stopVars
  <2>2. CASE state[e] \notin Terminal
    BY <1>a, <1>b, <1>c, <1>6, <2>2 DEF TypeOK, Starts, TextHandled, stopVars
  <2> QED
    BY <2>1, <2>2
<1> QED
  BY <1>1, <1>2, <1>3, <1>4, <1>5, <1>6 DEF StartStep

LEMMA CallJoins ==
    ASSUME TypeOK, NEW e \in Ends, NEW t \in BOOLEAN, NEW h \in BOOLEAN, NewStop(e, t, h)
    PROVE  /\ \A S : IsAt(e, S)' =>
                 IsAt(e, S) \/ "waiting" \in S \/ "returned" \in S \/ ("beforeStopping" \in S /\ state'[e] = "stopping")
           /\ \A S : IsAt(e, S) => IsAt(e, S)'
           /\ state'[e] = IF state[e] \in {"created", "starting", "active"} THEN "stopping" ELSE state[e]
<1>1. calls \in [Ends -> Seq(CallSet)] /\ state \in [Ends -> {"created", "starting", "active", "crashed"} \cup Stopping \cup Terminal]
  BY DEF TypeOK
<1>2. PICK c \in CallSet : /\ calls' = [calls EXCEPT ![e] = Append(@, c)]
                           /\ c.pc \in {"beforeStopping", "waiting", "returned"}
                           /\ c.pc = "beforeStopping" => state[e] \in {"created", "starting", "active"}
  BY CallTypesStop DEF NewStop
<1>3. state'[e] = IF state[e] \in {"created", "starting", "active"} THEN "stopping" ELSE state[e]
  <2>1. state' = [state EXCEPT ![e] = IF @ \in {"created", "starting", "active"} THEN "stopping" ELSE @]
    BY CallTypesStop DEF NewStop
  <2> QED
    BY <1>1, <2>1
<1>4. \A l \in DOMAIN calls'[e] : (l \in DOMAIN calls[e] /\ calls'[e][l] = calls[e][l]) \/ calls'[e][l] = c
  BY <1>1, <1>2, CallAdded
<1>5. \A l \in DOMAIN calls[e] : l \in DOMAIN calls'[e] /\ calls'[e][l] = calls[e][l]
  BY <1>1, <1>2, CallAdded
<1> QED
  BY <1>2, <1>3, <1>4, <1>5 DEF IsAt

LEMMA StartsStop ==
    ASSUME TypeOK, NEW e \in Ends, Starts(e), NEW t \in BOOLEAN, NEW h \in BOOLEAN, NewStop(e, t, h),
           reader[e] \in NotYet => trouble \in InHandshake,
           handling'[e] = handling[e] \/ handling[e] # "none", inbox'[e] = inbox[e] \/ inbox[e] # <<>>,
           UNCHANGED <<trouble, startVars, tcc, final>>
    PROVE  Starts(e)'
<1>1. IsAt(e, ClosingPCs)' => IsAt(e, ClosingPCs)
  BY CallJoins DEF NewStop, ClosingPCs
<1>2. state'[e] = IF state[e] \in {"created", "starting", "active"} THEN "stopping" ELSE state[e]
  BY CallJoins DEF NewStop
<1>3. ASSUME NEW k \in DOMAIN calls'[e], calls'[e][k].pc # "returned" PROVE calls'[e][k].promise # 0
  <2>1. calls \in [Ends -> Seq(CallSet)]
    BY DEF TypeOK
  <2>2. PICK c \in CallSet : calls' = [calls EXCEPT ![e] = Append(@, c)] /\ (c.pc # "returned" => c.promise # 0)
    BY CallTypesStop DEF NewStop
  <2>3. (k \in DOMAIN calls[e] /\ calls'[e][k] = calls[e][k]) \/ calls'[e][k] = c
    BY <2>1, <2>2, CallAdded
  <2> QED
    BY <1>3, <2>2, <2>3 DEF Starts
<1>4. UNCHANGED <<text, started, reader, tcc, final, trouble>>
  BY DEF startVars
<1> HIDE DEF NewStop
<1> QED
  BY <1>1, <1>2, <1>3, <1>4 DEF Starts, Terminal

LEMMA StartsCall ==
    ASSUME TypeOK, Handshake, NEW e \in Ends, NEW k \in DOMAIN calls[e], CallStep(e, k)
    PROVE  Starts(e)'
<1>a. Starts(e) /\ calls \in [Ends -> Seq(CallSet)]
  BY DEF Handshake, TypeOK
<1>b. calls[e] # <<>> /\ calls[e][k].pc # "returned" /\ state[e] # "crashed"
  <2>1. calls[e] # <<>>
    BY <1>a
  <2> QED
    BY <2>1 DEF CallStep, BeforeStoppingDone, CloseChannels, ChannelsClosed, Timeout, TranStoppedSent, Finalized, At
<1>c. tcc[e] \in {"none", "open", "closed"} /\ (tcc[e] = "none" => calls[e][k].pc \notin ClosingPCs)
  BY <1>a DEF TypeOK, Starts, IsAt
<1>d. reader[e] \in NotYet => trouble \in InHandshake
  BY <1>a, <1>b DEF Starts
<1>e. UNCHANGED <<trouble, startVars, handling, inbox>>
  BY DEF CallStep, BeforeStoppingDone, CloseChannels, ChannelsClosed, Timeout, TranStoppedSent, Finalized
<1>f. /\ \A l \in DOMAIN calls'[e] : l \in DOMAIN calls[e] /\ calls'[e][l].promise = calls[e][l].promise
      /\ \A l \in DOMAIN calls'[e] : l # k => calls'[e][l] = calls[e][l]
  <2>1. CASE CloseChannels(e, k)
    <3>1. /\ calls' = [calls EXCEPT ![e][k].pc = "closing", ![e][k].waits = AwaitsChannel(e)]
          /\ AwaitsChannel(e) \in BOOLEAN
      BY <2>1 DEF CloseChannels, AwaitsChannel, IsClosing
    <3> QED
      BY <1>a, <3>1, CallCloses
  <2>2. CASE ~CloseChannels(e, k)
    <3>1. PICK pc \in PCs : Goto(e, k, pc)
      BY <1>c, <2>2
      DEF At, CallStep, BeforeStoppingDone, ChannelsClosed, Timeout, TranStoppedSent, Finalized, PCs, ClosingPCs
    <3> QED
      BY <1>a, <3>1, CallGoes DEF Goto
  <2> QED
    BY <2>1, <2>2
<1>g. \A l \in DOMAIN calls'[e] : calls'[e][l].pc # "returned" => calls'[e][l].promise # 0
  BY <1>a, <1>b, <1>f DEF Starts
<1>h. ASSUME calls'[e][k].pc \in ClosingPCs => tcc'[e] # "none", tcc'[e] = tcc[e] \/ tcc'[e] = "closed"
      PROVE  tcc'[e] = "none" => ~IsAt(e, ClosingPCs)'
  BY <1>a, <1>f, <1>h DEF Starts, IsAt
<1>1. CASE BeforeStoppingDone(e, k)
  <2>1. CASE tcc[e] = "none"
    <3>1. (state'[e] = state[e] /\ final'[e] = final[e]) \/ (state'[e] = "stopped" /\ final'[e] = "draining")
      <4>1. \/ state' = state /\ final' = final
            \/ state' = [state EXCEPT ![e] = "stopped"] /\ final' = [final EXCEPT ![e] = "draining"]
        BY <1>1, <2>1 DEF BeforeStoppingDone
      <4> QED
        BY <4>1 DEF TypeOK
    <3>2. calls'[e][k].pc \in {"waiting", "finalizing"}
      BY <1>1, <1>a, <2>1, CallGoes DEF BeforeStoppingDone, Goto, PCs
    <3>3. ~IsAt(e, ClosingPCs)'
      BY <1>1, <1>h, <2>1, <3>2 DEF BeforeStoppingDone, ClosingPCs
    <3> QED
      BY <1>1, <1>a, <1>d, <1>e, <1>g, <2>1, <3>1, <3>3 DEF Starts, BeforeStoppingDone, startVars, Terminal
  <2>2. CASE tcc[e] # "none"
    <3>1. state' = state /\ final' = final /\ tcc' = tcc
      BY <1>1, <1>c, <2>2 DEF BeforeStoppingDone
    <3> QED
      BY <1>a, <1>d, <1>e, <1>g, <2>2, <3>1 DEF Starts, startVars
  <2> QED
    BY <2>1, <2>2
<1>2. CASE CloseChannels(e, k) \/ ChannelsClosed(e, k) \/ Timeout(e, k)
  <2>1. state' = state /\ final' = final /\ tcc' = tcc /\ tcc[e] # "none"
    BY <1>2, <1>c DEF CloseChannels, ChannelsClosed, Timeout, At, ClosingPCs
  <2> QED
    BY <1>a, <1>d, <1>e, <1>g, <2>1 DEF Starts, startVars
<1>3. CASE TranStoppedSent(e, k)
  <2>1. tcc[e] # "none" /\ tcc'[e] # "none"
    BY <1>3, <1>c DEF TranStoppedSent, FinalizeStop, At, ClosingPCs, TypeOK
  <2>2. \/ state'[e] = "localStopping" /\ tcc'[e] = "closed"
        \/ state'[e] = "remoteStopping" /\ tcc' = tcc /\ final' = final
    BY <1>3 DEF TranStoppedSent, FinalizeStop, RemoteIsDone, TypeOK
  <2> QED
    BY <1>a, <1>d, <1>e, <1>g, <2>1, <2>2 DEF Starts, startVars, Terminal
<1>4. CASE Finalized(e, k)
  <2>1. calls'[e][k].pc \in {"waiting", "failed"}
    BY <1>4, <1>a, CallGoes DEF Finalized, Goto, PCs
  <2>2. tcc' = tcc /\ state' = state /\ final' = final
    BY <1>4 DEF Finalized
  <2>3. tcc'[e] = "none" => ~IsAt(e, ClosingPCs)'
    BY <1>h, <2>1, <2>2 DEF ClosingPCs
  <2> QED
    BY <1>a, <1>d, <1>e, <1>g, <2>2, <2>3 DEF Starts, startVars
<1> QED
  BY <1>1, <1>2, <1>3, <1>4 DEF CallStep

LEMMA StartsRest ==
    ASSUME TypeOK, Handshake, NEW e \in Ends, Step(e)
    PROVE  Starts(e)'
<1>a. Starts(e)
  BY DEF Handshake
<1>b. ASSUME calls'[e] = calls[e] PROVE IsAt(e, ClosingPCs)' <=> IsAt(e, ClosingPCs)
  BY <1>b, CallsKept
<1>c. Ready /\ reader[e] \in NotYet => trouble \in InHandshake
  BY <1>a DEF Ready, Starts, NotYet
<1>d. inbox[e] # <<>> \/ handling[e] # "none" => reader[e] \notin NotYet /\ tcc[e] # "none"
  BY <1>a DEF Starts
<1>1. CASE Start(e) \/ ReceiveText(e) \/ InputWhileDraining(e) \/ StartStep(e)
  BY <1>1, StartsFirst
<1>2. CASE RequestChannel(e) \/ SendChanClosed(e)
  <2>1. UNCHANGED <<trouble, state, startVars, tcc, handling, stopVars, inbox>>
    BY <1>2 DEF RequestChannel, SendChanClosed
  <2> QED
    BY <1>a, <1>b, <2>1 DEF Starts, startVars, stopVars
<1>3. CASE \E timeout \in BOOLEAN : Stop(e, timeout)
  <2>1. PICK t \in BOOLEAN : Stop(e, t)
    BY <1>3
  <2> QED
    BY <1>a, <1>c, <2>1, StartsStop DEF Stop, NewStop
<1>4. CASE \E k \in DOMAIN calls[e] : CallStep(e, k)
  BY <1>4, StartsCall
<1>5. CASE TccClosed(e)
  <2>1. /\ final'[e] \in {"done", "draining"} /\ state'[e] \in {state[e], "stopped"}
        /\ state'[e] = "stopped" => final[e] = "closing"
    BY <1>5 DEF TccClosed, TypeOK
  <2>2. UNCHANGED <<trouble, startVars, tcc, handling, calls, inbox>> /\ final[e] = "closing"
    BY <1>5 DEF TccClosed
  <2> QED
    BY <1>a, <1>b, <2>1, <2>2 DEF Starts, startVars
<1>6. CASE Drained(e)
  <2>1. /\ final[e] = "draining" /\ final'[e] = "done" /\ reader'[e] \in {reader[e], "ended"}
    BY <1>6 DEF Drained, ReaderEnds, TypeOK
  <2>2. UNCHANGED <<trouble, state, started, text, tcc, handling, calls, inbox>>
    BY <1>6 DEF Drained
  <2> QED
    BY <1>a, <1>b, <2>1, <2>2 DEF Starts, NotYet
<1>7. CASE DrainFails(e)
  <2>1. final[e] = "draining" /\ final'[e] = "failed"
    BY <1>7 DEF DrainFails, TypeOK
  <2>2. UNCHANGED <<trouble, state, startVars, tcc, handling, calls, inbox>>
    BY <1>7 DEF DrainFails
  <2> QED
    BY <1>a, <1>b, <2>1, <2>2 DEF Starts, startVars
<1>8. CASE Receive(e)
  <2>1. reader[e] = "messages" /\ tcc[e] = "open" /\ UNCHANGED <<trouble, state, startVars, tcc, handling, stopVars>>
    BY <1>8 DEF Receive
  <2> QED
    BY <1>a, <1>b, <2>1 DEF Starts, startVars, stopVars, NotYet
<1>9. CASE TakeStep(e)
  <2>1. CASE OnTransportStop(e) /\ Follows(e)
    <3>1. inbox[e] # <<>> /\ NewStop(e, FALSE, FALSE) /\ UNCHANGED <<trouble, startVars, tcc, handling, final>>
      BY <2>1 DEF OnTransportStop, Takes
    <3> QED
      BY <1>a, <1>d, <3>1, StartsStop DEF NewStop
  <2>2. CASE ~(OnTransportStop(e) /\ Follows(e))
    <3>1. /\ inbox[e] # <<>> \/ handling[e] # "none"
          /\ \/ tcc' = tcc /\ final' = final
             \/ /\ tcc' = [tcc EXCEPT ![e] = "closed"] /\ final' = [final EXCEPT ![e] = "closing"]
                /\ state[e] = "remoteStopping"
          /\ state' = state \/ state' = [state EXCEPT ![e] = IF @ = "stopping" THEN "localStopping" ELSE @]
      BY <1>9, <2>2
      DEF TakeStep, OnChannelRequest, OnChannelResponse, OnChannelClose, OnChannelClosed, OnTransportStop,
          OnTransportStopped, FinalizeHandled, FinalizeStop, Takes, stopVars
    <3>4. /\ \/ tcc'[e] = tcc[e] /\ final'[e] = final[e]
             \/ tcc'[e] = "closed" /\ final'[e] = "closing" /\ state[e] = "remoteStopping"
          /\ state'[e] = state[e] \/ (state'[e] = "localStopping" /\ state[e] = "stopping")
      BY <3>1 DEF TypeOK
    <3>2. UNCHANGED <<trouble, startVars, calls>>
      BY <1>9, <2>2
      DEF TakeStep, OnChannelRequest, OnChannelResponse, OnChannelClose, OnChannelClosed, OnTransportStop,
          OnTransportStopped, FinalizeHandled, stopVars
    <3>3. tcc[e] \in {"none", "open", "closed"}
      BY DEF TypeOK
    <3> QED
      BY <1>a, <1>b, <1>d, <3>1, <3>2, <3>3, <3>4 DEF Starts, startVars, Terminal
  <2> QED
    BY <2>1, <2>2
<1>10. CASE HandlerStep(e)
  <2>1. CASE HandlerStops(e)
    <3>1. handling[e] # "none" /\ NewStop(e, FALSE, TRUE) /\ UNCHANGED <<trouble, startVars, tcc, inbox, final>>
      BY <2>1 DEF HandlerStops
    <3> QED
      BY <1>a, <1>d, <3>1, StartsStop DEF NewStop
  <2>2. CASE Accept(e) \/ Reject(e)
    <3>1. handling[e] # "none" /\ UNCHANGED <<trouble, state, startVars, tcc, stopVars, inbox>>
      BY <2>2 DEF Accept, Reject
    <3> QED
      BY <1>a, <1>b, <1>d, <3>1 DEF Starts, startVars, stopVars
  <2> QED
    BY <1>10, <2>1, <2>2 DEF HandlerStep
<1>11. CASE Crash(e)
  <2>1. state'[e] = "crashed" /\ Ready /\ trouble = "crash"
    BY <1>11 DEF Crash, TypeOK
  <2>2. UNCHANGED <<trouble, startVars, tcc, handling, stopVars, inbox>>
    BY <1>11 DEF Crash
  <2> QED
    BY <1>a, <1>b, <1>c, <2>1, <2>2 DEF Starts, startVars, stopVars, InHandshake, Terminal
<1>12. CASE NoticeLoss(e) \/ Abort(e) \/ EndOfInput(e)
  <2>1. OnDisconnect(e)
    BY <1>12 DEF NoticeLoss, Abort, EndOfInput
  <2>2. /\ state'[e] = "disconnected" /\ tcc'[e] = (IF tcc[e] = "none" THEN "none" ELSE "closed")
        /\ reader'[e] = IF text[e] = "awaited" THEN reader[e] ELSE "ended"
    BY <2>1 DEF OnDisconnect, ReaderEnds, TypeOK
  <2>3. UNCHANGED <<trouble, started, text, handling, calls, final, inbox>>
    BY <2>1 DEF OnDisconnect
  <2> QED
    BY <1>a, <1>b, <2>2, <2>3 DEF Starts, NotYet, InHandshake
<1> QED
  BY <1>1, <1>2, <1>3, <1>4, <1>5, <1>6, <1>7, <1>8, <1>9, <1>10, <1>11, <1>12 DEF Step

(* A prefix or a rest of what comes, or what comes and another message. *)
Shaped(q) ==
    \A i \in DOMAIN q : /\ q[i] = "config" => i = 1
                        /\ q[i] = "start" => i = 1 \/ (i = 2 /\ q[1] = "config")
Without(q, m) == \A i \in DOMAIN q : q[i] # m

LEMMA ShapedTail ==
    ASSUME NEW T, NEW q \in Seq(T), q # <<>>, Shaped(q)
    PROVE  /\ Tail(q) \in Seq(T) /\ Shaped(Tail(q)) /\ Without(Tail(q), "config")
           /\ Head(q) # "config" => Without(Tail(q), "start")
           /\ \A m : Without(q, m) => Without(Tail(q), m) /\ Head(q) # m
<1>1. /\ Tail(q) \in Seq(T) /\ Len(q) \in Nat /\ DOMAIN q = 1 .. Len(q) /\ 1 \in DOMAIN q /\ q[1] = Head(q)
      /\ DOMAIN Tail(q) = 1 .. Len(q) - 1
  OBVIOUS
<1>2. \A i \in 1 .. Len(q) - 1 : Tail(q)[i] = q[i + 1] /\ i + 1 \in 1 .. Len(q) /\ i + 1 # 1 /\ (i + 1 = 2 => i = 1)
  BY <1>1
<1> QED
  BY <1>1, <1>2 DEF Shaped, Without

LEMMA ShapedMore ==
    ASSUME NEW T, NEW q \in Seq(T), NEW ms \in Seq(Messages), Shaped(q)
    PROVE  /\ Shaped(q \o ms)
           /\ \A m \in HandshakeMessages : Without(q, m) => Without(q \o ms, m)
<1>1. \A m \in Messages : m # "config" /\ m # "start"
  BY DEF Messages, Responses
<1>2. /\ Len(q) \in Nat /\ Len(ms) \in Nat /\ DOMAIN q = 1 .. Len(q) /\ DOMAIN (q \o ms) = 1 .. Len(q) + Len(ms)
      /\ DOMAIN ms = 1 .. Len(ms)
  OBVIOUS
<1>3. \A i \in 1 .. Len(q) : (q \o ms)[i] = q[i]
  BY <1>2
<1>4. \A i \in 1 .. Len(q) + Len(ms) : i \in 1 .. Len(q) \/ (q \o ms)[i] \in Messages
  BY <1>2
<1>5. \A i \in 1 .. Len(q) : i # 1 => 1 \in 1 .. Len(q)
  BY <1>2
<1>6. Shaped(q \o ms)
  BY <1>1, <1>2, <1>3, <1>4, <1>5 DEF Shaped
<1>7. \A m \in HandshakeMessages : Without(q, m) => Without(q \o ms, m)
  BY <1>1, <1>2, <1>3, <1>4 DEF Without, HandshakeMessages
<1> QED
  BY <1>6, <1>7

LEMMA CallSends ==
    ASSUME TypeOK, Handshake, NEW e \in Ends, NEW k \in DOMAIN calls[e], CallStep(e, k)
    PROVE  \/ wire' = wire \/ (tcc[e] # "none" /\ SendAll(e, <<>>)) \/ (tcc[e] # "none" /\ SendAll(e, <<"tranStop">>))
           \/ (tcc[e] # "none" /\ SendAll(e, <<"chanClose">>)) \/ (tcc[e] # "none" /\ SendAll(e, <<"tranStopped">>))
<1>a. Starts(e) /\ tcc[e] \in {"none", "open", "closed"}
  BY DEF Handshake, TypeOK
<1>b. calls[e][k].pc \in ClosingPCs => tcc[e] # "none"
  BY <1>a DEF Starts, IsAt
<1>1. CASE BeforeStoppingDone(e, k)
  BY <1>1, <1>a DEF BeforeStoppingDone, Send
<1>2. CASE CloseChannels(e, k)
  BY <1>2, <1>b DEF CloseChannels, At, ClosingPCs
<1>3. CASE ChannelsClosed(e, k)
  BY <1>3, <1>a, <1>b DEF ChannelsClosed, Send, At, ClosingPCs
<1>4. CASE Timeout(e, k) \/ TranStoppedSent(e, k) \/ Finalized(e, k)
  BY <1>4 DEF Timeout, TranStoppedSent, Finalized
<1> QED
  BY <1>1, <1>2, <1>3, <1>4 DEF CallStep

(* What a step sends: the greeting, the mark, or messages when there is a TCC. *)
LEMMA Sends ==
    ASSUME TypeOK, Handshake, NEW e \in Ends, Step(e), NEW p \in Ends, p = Peer(e)
    PROVE  \/ wire'[p] = wire[p]
           \/ Start(e) /\ wire'[p] = wire[p] \o <<"config">>
           \/ ReceiveConfig(e) /\ wire'[p] = Append(wire[p], "start")
           \/ tcc[e] # "none" /\ \E ms \in Seq(Messages) : wire'[p] = wire[p] \o ms
<1>a. Starts(e) /\ tcc[e] \in {"none", "open", "closed"}
  BY DEF Handshake, TypeOK
<1>b. p # e /\ Peer(e) = p /\ wire[p] \in Seq(HandshakeMessages \cup Messages) /\ wire \in [Ends -> Seq(HandshakeMessages \cup Messages)]
  BY TwoEnds DEF TypeOK
<1>c. ASSUME NEW ms \in Seq(Messages), SendAll(e, ms), tcc[e] # "none"
      PROVE  wire'[p] = wire[p] \/ (tcc[e] # "none" /\ \E x \in Seq(Messages) : wire'[p] = wire[p] \o x)
  BY <1>b, <1>c DEF SendAll
<1>d. <<>> \in Seq(Messages) /\ \A m \in Messages : <<m>> \in Seq(Messages)
  OBVIOUS
<1>e. {"chanRequest", "chanClosed", "tranStop", "tranStopped", "chanClose", "chanAccepted", "chanRejected"} \subseteq Messages
  BY DEF Messages, Responses
<1>f. inbox[e] # <<>> \/ handling[e] # "none" => tcc[e] # "none"
  BY <1>a DEF Starts
<1>g. ASSUME NEW S, wire' = [wire EXCEPT ![e] = S] PROVE wire'[p] = wire[p]
  BY <1>b, <1>g
<1>1. CASE Start(e)
  BY <1>1, <1>b DEF Start, Send, SendAll
<1>2. CASE ReceiveConfig(e)
  BY <1>2, <1>b DEF ReceiveConfig
<1>3. CASE RequestChannel(e)
  <2>1. SendAll(e, <<"chanRequest">>) /\ tcc[e] # "none"
    BY <1>3, <1>a DEF RequestChannel, Send, Starts
  <2> QED
    BY <2>1, <1>c, <1>d, <1>e DEF SendAll
<1>4. CASE SendChanClosed(e)
  <2>1. SendAll(e, <<"chanClosed">>) /\ tcc[e] # "none"
    BY <1>4 DEF SendChanClosed, Send
  <2> QED
    BY <2>1, <1>c, <1>d, <1>e DEF SendAll
<1>5. CASE \E k \in DOMAIN calls[e] : CallStep(e, k)
  <2>1. \/ wire' = wire \/ (tcc[e] # "none" /\ SendAll(e, <<>>)) \/ (tcc[e] # "none" /\ SendAll(e, <<"tranStop">>))
        \/ (tcc[e] # "none" /\ SendAll(e, <<"chanClose">>)) \/ (tcc[e] # "none" /\ SendAll(e, <<"tranStopped">>))
    BY <1>5, CallSends DEF SendAll
  <2> QED
    BY <2>1, <1>c, <1>d, <1>e DEF SendAll
<1>6. CASE TakeStep(e)
  <2>1. \/ wire' = wire \/ (tcc[e] # "none" /\ SendAll(e, <<>>)) \/ (tcc[e] # "none" /\ SendAll(e, <<"chanRejected">>))
        \/ (tcc[e] # "none" /\ SendAll(e, <<"chanClose">>))
    BY <1>6, <1>f
    DEF TakeStep, OnChannelRequest, OnChannelResponse, OnChannelClose, OnChannelClosed, OnTransportStop,
        OnTransportStopped, FinalizeHandled, Takes, Send
  <2> QED
    BY <2>1, <1>c, <1>d, <1>e DEF SendAll
<1>7. CASE HandlerStep(e)
  <2>1. \/ wire' = wire \/ (tcc[e] # "none" /\ SendAll(e, <<>>)) \/ (tcc[e] # "none" /\ SendAll(e, <<"chanRejected">>))
        \/ (tcc[e] # "none" /\ SendAll(e, <<"chanAccepted">>))
    BY <1>7, <1>f DEF HandlerStep, Accept, Reject, HandlerStops
  <2> QED
    BY <2>1, <1>c, <1>d, <1>e DEF SendAll
<1>8. CASE ReceiveStart(e) \/ Receive(e)
  BY <1>8, <1>g DEF ReceiveStart, Receive, Taken
<1>9. CASE NoticeLoss(e) \/ Abort(e) \/ EndOfInput(e)
  BY <1>9, <1>g DEF NoticeLoss, Abort, EndOfInput, OnDisconnect
<1>10. CASE \/ TextHandled(e) \/ ReceiveText(e) \/ InputWhileDraining(e) \/ (\E timeout \in BOOLEAN : Stop(e, timeout))
            \/ TccClosed(e) \/ Drained(e) \/ DrainFails(e) \/ Crash(e)
  BY <1>10 DEF TextHandled, ReceiveText, InputWhileDraining, Stop, TccClosed, Drained, DrainFails, Crash
<1> QED
  BY <1>1, <1>2, <1>3, <1>4, <1>5, <1>6, <1>7, <1>8, <1>9, <1>10 DEF Step, StartStep

(* What a step does to what its end has come to. *)
LEMMA Progress ==
    ASSUME TypeOK, Handshake, NEW e \in Ends, Step(e)
    PROVE  /\ reader'[e] = "none" => reader[e] = "none" /\ ~Start(e) /\ ~ReceiveConfig(e)
           /\ reader'[e] = "config" => (reader[e] = "config" /\ ~ReceiveConfig(e)) \/ Start(e)
           /\ reader'[e] = "start" => reader[e] = "start" \/ ReceiveConfig(e)
           /\ reader'[e] = "messages" => reader[e] = "messages" \/ ReceiveStart(e) \/ tcc'[e] # "open"
           /\ tcc'[e] = "none" => tcc[e] = "none" /\ ~ReceiveConfig(e)
           /\ tcc'[e] = "open" => tcc[e] = "open" \/ ReceiveConfig(e)
           /\ state'[e] = "created" => state[e] = "created" /\ ~Start(e)
<1>a. Starts(e)
  BY DEF Handshake
<1>1. CASE Start(e)
  BY <1>1, <1>a DEF Start, ReceiveConfig, Starts, TypeOK
<1>2. CASE ReceiveConfig(e)
  BY <1>2, <1>a DEF ReceiveConfig, Starts, TypeOK, startVars
<1>3. CASE ReceiveStart(e)
  BY <1>3, <1>a DEF ReceiveStart, ReceiveConfig, OnRemoteReady, Starts, TypeOK
<1>4. CASE TextHandled(e)
  <2>1. CASE state[e] \in Terminal
    BY <1>4, <2>1, <1>a DEF TextHandled, ReceiveConfig, Start, OnRemoteReady, Starts, TypeOK, Terminal, Arrived
  <2>2. CASE state[e] \notin Terminal
    BY <1>4, <2>2, <1>a DEF TextHandled, ReceiveConfig, Start, Starts, TypeOK, Arrived
  <2> QED
    BY <2>1, <2>2
<1>b. ASSUME ~Start(e), ~ReceiveConfig(e),
             reader'[e] \in {reader[e], "ended"}, tcc'[e] \in {tcc[e], "closed"}, state'[e] = "created" => state[e] = "created"
      PROVE  /\ reader'[e] = "none" => reader[e] = "none" /\ ~Start(e) /\ ~ReceiveConfig(e)
             /\ reader'[e] = "config" => (reader[e] = "config" /\ ~ReceiveConfig(e)) \/ Start(e)
             /\ reader'[e] = "start" => reader[e] = "start" \/ ReceiveConfig(e)
             /\ reader'[e] = "messages" => reader[e] = "messages" \/ ReceiveStart(e) \/ tcc'[e] # "open"
             /\ tcc'[e] = "none" => tcc[e] = "none" /\ ~ReceiveConfig(e)
             /\ tcc'[e] = "open" => tcc[e] = "open" \/ ReceiveConfig(e)
             /\ state'[e] = "created" => state[e] = "created" /\ ~Start(e)
  BY <1>b
<1>5. ASSUME ~Start(e), ~StartStep(e)
      PROVE  /\ reader'[e] \in {reader[e], "ended"} /\ tcc'[e] \in {tcc[e], "closed"}
             /\ state'[e] = "created" => state[e] = "created"
  <2>1. CASE ReceiveText(e) \/ RequestChannel(e) \/ SendChanClosed(e) \/ DrainFails(e) \/ Receive(e)
    BY <2>1 DEF ReceiveText, RequestChannel, SendChanClosed, DrainFails, Receive, startVars
  <2>2. CASE InputWhileDraining(e)
    BY <2>2 DEF InputWhileDraining, TypeOK
  <2>3. CASE \E timeout \in BOOLEAN : Stop(e, timeout)
    <3>1. state'[e] = (IF state[e] \in {"created", "starting", "active"} THEN "stopping" ELSE state[e])
      BY <2>3, CallJoins DEF Stop, NewStop
    <3> QED
      BY <2>3, <3>1 DEF Stop, startVars
  <2>4. CASE \E k \in DOMAIN calls[e] : CallStep(e, k)
    <3>1. PICK k \in DOMAIN calls[e] : CallStep(e, k)
      BY <2>4
    <3>2. tcc[e] \in {"none", "open", "closed"}
      BY DEF TypeOK
    <3>3. /\ state' = state \/ state' = [state EXCEPT ![e] = "stopped"] \/ state' = [state EXCEPT ![e] = "remoteStopping"]
          /\ tcc' = tcc \/ tcc' = [tcc EXCEPT ![e] = "closed"]
      BY <3>1, <3>2
      DEF CallStep, BeforeStoppingDone, CloseChannels, ChannelsClosed, Timeout, TranStoppedSent, Finalized, FinalizeStop
    <3>4. reader' = reader
      BY <3>1 DEF CallStep, BeforeStoppingDone, CloseChannels, ChannelsClosed, Timeout, TranStoppedSent, Finalized, startVars
    <3> QED
      BY <3>3, <3>4 DEF TypeOK
  <2>5. CASE TccClosed(e)
    BY <2>5 DEF TccClosed, TypeOK, startVars
  <2>6. CASE Drained(e)
    BY <2>6 DEF Drained, ReaderEnds, TypeOK
  <2>7. CASE TakeStep(e)
    <3>1. CASE OnTransportStop(e) /\ Follows(e)
      <4>1. state'[e] = (IF state[e] \in {"created", "starting", "active"} THEN "stopping" ELSE state[e])
        BY <3>1, CallJoins DEF OnTransportStop, NewStop
      <4> QED
        BY <3>1, <4>1 DEF OnTransportStop, startVars
    <3>2. CASE ~(OnTransportStop(e) /\ Follows(e))
      <4>1. /\ tcc' = tcc \/ tcc' = [tcc EXCEPT ![e] = "closed"]
            /\ state' = state \/ state' = [state EXCEPT ![e] = IF @ = "stopping" THEN "localStopping" ELSE @]
            /\ reader' = reader
        BY <2>7, <3>2
        DEF TakeStep, OnChannelRequest, OnChannelResponse, OnChannelClose, OnChannelClosed, OnTransportStop,
            OnTransportStopped, FinalizeHandled, FinalizeStop, startVars
      <4> QED
        BY <4>1 DEF TypeOK
    <3> QED
      BY <3>1, <3>2
  <2>8. CASE HandlerStep(e)
    <3>1. CASE HandlerStops(e)
      <4>1. state'[e] = (IF state[e] \in {"created", "starting", "active"} THEN "stopping" ELSE state[e])
        BY <3>1, CallJoins DEF HandlerStops, NewStop
      <4> QED
        BY <3>1, <4>1 DEF HandlerStops, startVars
    <3>2. CASE Accept(e) \/ Reject(e)
      BY <3>2 DEF Accept, Reject, startVars
    <3> QED
      BY <2>8, <3>1, <3>2 DEF HandlerStep
  <2>9. CASE Crash(e)
    BY <2>9 DEF Crash, TypeOK, startVars
  <2>10. CASE NoticeLoss(e) \/ Abort(e) \/ EndOfInput(e)
    BY <2>10 DEF NoticeLoss, Abort, EndOfInput, OnDisconnect, ReaderEnds, TypeOK
  <2> QED
    BY <1>5, <2>1, <2>2, <2>3, <2>4, <2>5, <2>6, <2>7, <2>8, <2>9, <2>10 DEF Step
<1> QED
  BY <1>1, <1>2, <1>3, <1>4, <1>b, <1>5 DEF StartStep

LEMMA Receives ==
    ASSUME TypeOK, Handshake, NEW e \in Ends, Step(e)
    PROVE  \/ wire'[e] = wire[e] /\ ~ReceiveConfig(e) /\ ~ReceiveStart(e)
           \/ /\ wire'[e] = Tail(wire[e]) /\ wire[e] # <<>>
              /\ (ReceiveConfig(e) /\ Head(wire[e]) = "config") \/ (ReceiveStart(e) /\ Head(wire[e]) = "start") \/ Receive(e)
           \/ wire'[e] = <<>> /\ tcc'[e] # "open"
<1>a. Peer(e) \in Ends /\ Peer(e) # e /\ wire \in [Ends -> Seq(HandshakeMessages \cup Messages)]
  BY TwoEnds DEF TypeOK
<1>b. ASSUME NEW ms, SendAll(e, ms) PROVE wire'[e] = wire[e]
  BY <1>a, <1>b DEF SendAll
<1>c. ReceiveConfig(e) \/ ReceiveStart(e) => reader'[e] \in {"start", "messages"} /\ reader[e] \in {"config", "start"} /\ wire'[e] # wire[e]
  <2>1. wire[e] # <<>> => Tail(wire[e]) # wire[e]
    <3>1. wire[e] # <<>> => Len(Tail(wire[e])) = Len(wire[e]) - 1 /\ Len(wire[e]) \in Nat
      BY <1>a
    <3>2. wire[e] # <<>> => Len(Tail(wire[e])) # Len(wire[e])
      BY <3>1
    <3> QED
      BY <3>2
  <2> QED
    BY <1>a, <2>1 DEF ReceiveConfig, ReceiveStart, OnRemoteReady, Arrived, Taken, TypeOK
<1>d. ASSUME wire'[e] = wire[e]
      PROVE  wire'[e] = wire[e] /\ ~ReceiveConfig(e) /\ ~ReceiveStart(e)
  BY <1>c, <1>d
<1>1. CASE Start(e) \/ RequestChannel(e) \/ SendChanClosed(e)
  <2>1. \E ms : SendAll(e, ms)
    BY <1>1 DEF Start, RequestChannel, SendChanClosed, Send
  <2> QED
    BY <2>1, <1>b, <1>d DEF SendAll
<1>2. CASE ReceiveConfig(e)
  BY <1>2, <1>a DEF ReceiveConfig, Arrived
<1>3. CASE ReceiveStart(e) \/ Receive(e)
  BY <1>3, <1>a DEF ReceiveStart, Receive, Arrived, Taken
<1>4. CASE \E k \in DOMAIN calls[e] : CallStep(e, k)
  <2>1. wire' = wire \/ (\E ms : SendAll(e, ms))
    BY <1>4, CallSends DEF SendAll
  <2> QED
    BY <2>1, <1>b, <1>d DEF SendAll
<1>5. CASE TakeStep(e)
  <2>1. wire' = wire \/ (\E ms : SendAll(e, ms))
    BY <1>5
    DEF TakeStep, OnChannelRequest, OnChannelResponse, OnChannelClose, OnChannelClosed, OnTransportStop,
        OnTransportStopped, FinalizeHandled, Send
  <2> QED
    BY <2>1, <1>b, <1>d DEF SendAll
<1>6. CASE HandlerStep(e)
  <2>1. wire' = wire \/ (\E ms : SendAll(e, ms))
    BY <1>6 DEF HandlerStep, Accept, Reject, HandlerStops
  <2> QED
    BY <2>1, <1>b, <1>d DEF SendAll
<1>7. CASE NoticeLoss(e) \/ Abort(e) \/ EndOfInput(e)
  <2>1. wire' = [wire EXCEPT ![e] = <<>>] /\ tcc' = [tcc EXCEPT ![e] = IF @ = "none" THEN @ ELSE "closed"]
    BY <1>7 DEF NoticeLoss, Abort, EndOfInput, OnDisconnect
  <2> QED
    BY <1>a, <2>1 DEF TypeOK
<1>8. CASE \/ TextHandled(e) \/ ReceiveText(e) \/ InputWhileDraining(e) \/ (\E timeout \in BOOLEAN : Stop(e, timeout))
           \/ TccClosed(e) \/ Drained(e) \/ DrainFails(e) \/ Crash(e)
  <2>1. wire' = wire
    BY <1>8 DEF TextHandled, ReceiveText, InputWhileDraining, Stop, TccClosed, Drained, DrainFails, Crash
  <2> QED
    BY <2>1, <1>d
<1> QED
  BY <1>1, <1>2, <1>3, <1>4, <1>5, <1>6, <1>7, <1>8 DEF Step, StartStep

(* Of what e sends ... *)
LEMMA ComesFrom ==
    ASSUME TypeOK, Handshake, NEW e \in Ends, Step(e), NEW p \in Ends, p = Peer(e)
    PROVE  Comes(p)'
<1>a. Peer(p) = e /\ p # e
  BY TwoEnds
<1>b. Starts(e) /\ Comes(p)
  BY DEF Handshake
<1>c. SameEnd(p)
  BY <1>a, OtherEnd
<1>d. wire[p] \in Seq(HandshakeMessages \cup Messages)
  BY DEF TypeOK
<1> DEFINE q == wire[p]
           r == wire'[p]
<1>e. /\ reader[e] = "none" => q = <<>>
      /\ tcc[e] = "none" => q \in {<<>>, <<"config">>}
      /\ Shaped(q)
      /\ tcc[p] = "open" /\ reader[p] \in {"start", "messages"} => state[e] # "created" /\ Without(q, "config")
      /\ tcc[p] = "open" /\ reader[p] = "messages" => reader[e] # "config" /\ Without(q, "start")
  BY <1>a, <1>b DEF Comes, Shaped, Without
<1>f. /\ reader'[e] = "none" => reader[e] = "none" /\ ~Start(e) /\ ~ReceiveConfig(e)
      /\ reader'[e] = "config" => (reader[e] = "config" /\ ~ReceiveConfig(e)) \/ Start(e)
      /\ tcc'[e] = "none" => tcc[e] = "none" /\ ~ReceiveConfig(e)
      /\ state'[e] = "created" => state[e] = "created" /\ ~Start(e)
  BY Progress
<1>g. tcc'[p] = tcc[p] /\ reader'[p] = reader[p]
  BY <1>c DEF SameEnd
<1> SUFFICES /\ reader'[e] = "none" => r = <<>>
             /\ tcc'[e] = "none" => r \in {<<>>, <<"config">>}
             /\ Shaped(r)
             /\ tcc[p] = "open" /\ reader[p] \in {"start", "messages"} => state'[e] # "created" /\ Without(r, "config")
             /\ tcc[p] = "open" /\ reader[p] = "messages" => reader'[e] # "config" /\ Without(r, "start")
  BY <1>a, <1>g DEF Comes, Shaped, Without
<1>h. ASSUME Start(e) PROVE state[e] = "created" /\ reader[e] = "none" /\ tcc[e] = "none"
  BY <1>b, <1>h DEF Start, Starts
<1>1. CASE r = q
  BY <1>1, <1>e, <1>f, <1>h
<1>2. CASE Start(e) /\ r = q \o <<"config">>
  <2>1. q = <<>> /\ r = <<"config">> /\ ~(tcc[p] = "open" /\ reader[p] \in {"start", "messages"})
    <3>1. <<>> \o <<"config">> = <<"config">>
      OBVIOUS
    <3>2. q = <<>> /\ ~(tcc[p] = "open" /\ reader[p] \in {"start", "messages"})
      BY <1>2, <1>e, <1>h
    <3> QED
      BY <1>2, <3>1, <3>2
  <2>2. Shaped(<<"config">>)
    BY DEF Shaped
  <2> HIDE DEF r
  <2> QED
    BY <1>2, <1>f, <2>1, <2>2
<1>3. CASE ReceiveConfig(e) /\ r = Append(q, "start")
  <2>1. reader[e] = "config" /\ tcc[e] = "none"
    BY <1>3, <1>b DEF ReceiveConfig, Starts
  <2>2. q = <<>> \/ q = <<"config">>
    BY <1>e, <2>1
  <2>3. CASE q = <<>>
    <3>1. DOMAIN r = {1} /\ r[1] = "start"
      BY <1>3, <2>3
    <3>2. Shaped(r) /\ Without(r, "config")
      BY <3>1 DEF Shaped, Without
    <3> HIDE DEF r, q
    <3> QED
      BY <1>3, <1>e, <1>f, <1>h, <2>1, <3>2
  <2>4. CASE q = <<"config">>
    <3>1. DOMAIN r = 1 .. 2 /\ r[1] = "config" /\ r[2] = "start"
      BY <1>3, <2>4
    <3>2. \A i \in 1 .. 2 : i = 1 \/ i = 2
      OBVIOUS
    <3>3. Shaped(r)
      BY <3>1, <3>2 DEF Shaped
    <3>4. ~Without(q, "config")
      BY <2>4 DEF Without
    <3> HIDE DEF r, q
    <3> QED
      BY <1>3, <1>e, <1>f, <1>h, <2>1, <3>3, <3>4
  <2> QED
    BY <2>2, <2>3, <2>4
<1>4. CASE tcc[e] # "none" /\ \E ms \in Seq(Messages) : r = q \o ms
  <2>1. PICK ms \in Seq(Messages) : r = q \o ms
    BY <1>4
  <2>2. Shaped(r) /\ (Without(q, "config") => Without(r, "config")) /\ (Without(q, "start") => Without(r, "start"))
    BY <1>d, <1>e, <2>1, ShapedMore DEF HandshakeMessages
  <2>3. reader[e] # "none"
    BY <1>4, <1>b DEF Starts
  <2> HIDE DEF r, q
  <2> QED
    BY <1>4, <1>e, <1>f, <1>h, <2>2, <2>3
<1> QED
  BY <1>1, <1>2, <1>3, <1>4, Sends

(* ... and of what it receives. *)
LEMMA ComesHere ==
    ASSUME TypeOK, Handshake, NEW e \in Ends, Step(e)
    PROVE  Comes(e)'
<1> DEFINE p == Peer(e)
           q == wire[e]
           r == wire'[e]
<1>a. p \in Ends /\ p # e
  BY TwoEnds
<1>b. Starts(e) /\ Starts(p) /\ Comes(e)
  BY <1>a DEF Handshake
<1>c. reader'[p] = reader[p] /\ tcc'[p] = tcc[p] /\ state'[p] = state[p]
  BY <1>a, OtherEnd DEF SameEnd
<1>d. q \in Seq(HandshakeMessages \cup Messages)
  BY DEF TypeOK
<1>e. /\ reader[p] = "none" => q = <<>>
      /\ tcc[p] = "none" => q \in {<<>>, <<"config">>}
      /\ Shaped(q)
      /\ tcc[e] = "open" /\ reader[e] \in {"start", "messages"} => state[p] # "created" /\ Without(q, "config")
      /\ tcc[e] = "open" /\ reader[e] = "messages" => reader[p] # "config" /\ Without(q, "start")
  BY <1>b DEF Comes, Shaped, Without
<1>f. /\ reader'[e] = "start" => reader[e] = "start" \/ ReceiveConfig(e)
      /\ reader'[e] = "messages" => reader[e] = "messages" \/ ReceiveStart(e) \/ tcc'[e] # "open"
      /\ tcc'[e] = "open" => tcc[e] = "open" \/ ReceiveConfig(e)
  BY Progress
<1>g. /\ reader[p] \in {"none", "config"} => tcc[p] = "none"
      /\ state[p] = "created" => reader[p] = "none"
  BY <1>b DEF Starts
<1> HIDE DEF p
<1> SUFFICES /\ reader[p] = "none" => r = <<>>
             /\ tcc[p] = "none" => r \in {<<>>, <<"config">>}
             /\ Shaped(r)
             /\ tcc'[e] = "open" /\ reader'[e] \in {"start", "messages"} => state[p] # "created" /\ Without(r, "config")
             /\ tcc'[e] = "open" /\ reader'[e] = "messages" => reader[p] # "config" /\ Without(r, "start")
  BY <1>c DEF Comes, Shaped, Without, p
<1>h. ReceiveConfig(e) \/ ReceiveStart(e) \/ Receive(e) =>
        /\ ReceiveStart(e) => reader[e] = "start" /\ tcc' = tcc
        /\ ReceiveConfig(e) => reader'[e] = "start"
        /\ Receive(e) => reader' = reader /\ tcc' = tcc
  BY DEF ReceiveConfig, ReceiveStart, Receive, startVars, TypeOK
<1>1. CASE r = q /\ ~ReceiveConfig(e) /\ ~ReceiveStart(e)
  BY <1>1, <1>e, <1>f
<1>2. CASE /\ r = Tail(q) /\ q # <<>>
           /\ (ReceiveConfig(e) /\ Head(q) = "config") \/ (ReceiveStart(e) /\ Head(q) = "start") \/ Receive(e)
  <2>1. Shaped(r) /\ Without(r, "config") /\ (Head(q) # "config" => Without(r, "start")) /\ (Without(q, "start") => Without(r, "start"))
    BY <1>2, <1>d, <1>e, ShapedTail
  <2>2. tcc[p] = "none" => r = <<>> /\ Head(q) = "config"
    <3>1. Tail(<<"config">>) = <<>> /\ Head(<<"config">>) = "config"
      OBVIOUS
    <3>2. tcc[p] = "none" => q = <<"config">>
      BY <1>2, <1>e
    <3> QED
      BY <1>2, <3>1, <3>2
  <2>3. reader[p] # "none" /\ state[p] # "created"
    BY <1>2, <1>e, <1>g
  <2> HIDE DEF q, r
  <2>4. CASE ReceiveConfig(e)
    BY <2>4, <1>h, <2>1, <2>2, <2>3
  <2>5. CASE ReceiveStart(e) /\ Head(q) = "start"
    BY <2>5, <1>e, <1>g, <1>h, <2>1, <2>2, <2>3
  <2>6. CASE Receive(e)
    BY <2>6, <1>e, <1>g, <1>h, <2>1, <2>2, <2>3
  <2> QED
    BY <1>2, <2>4, <2>5, <2>6
<1>3. CASE r = <<>> /\ tcc'[e] # "open"
  BY <1>3 DEF Shaped
<1> QED
  BY <1>1, <1>2, <1>3, Receives

Base == TypeOK /\ Handshake

LEMMA BaseStep == Base /\ [Next]_vars => Base'
<1> SUFFICES ASSUME TypeOK, Handshake, [Next]_vars PROVE TypeOK' /\ Handshake'
  BY DEF Base
<1>1. CASE UNCHANGED vars
  BY <1>1 DEF vars, startVars, stopVars, channelVars, countVars, TypeOK, Handshake, Starts, Comes, IsAt
<1>2. CASE Lose
  <2>1. Next
    BY <1>2 DEF Next
  <2>2. Handshake'
    BY <1>2 DEF Lose, startVars, stopVars, channelVars, Handshake, Starts, Comes, IsAt
  <2> QED
    BY <2>1, <2>2, TypeStep
<1>3. ASSUME NEW e \in Ends, Step(e) PROVE TypeOK' /\ Handshake'
  <2> DEFINE p == Peer(e)
  <2>1. p \in Ends /\ p # e /\ \A f \in Ends : f = e \/ f = p
    BY TwoEnds
  <2>2. Next
    BY <1>3, Steps
  <2>3. Starts(p)'
    BY <1>3, <2>1, OtherEnd, StartsSame DEF Handshake
  <2>4. Starts(e)' /\ Comes(e)' /\ Comes(p)'
    BY <1>3, <2>1, StartsRest, ComesHere, ComesFrom
  <2>5. Handshake'
    BY <2>1, <2>3, <2>4 DEF Handshake
  <2> QED
    BY <2>2, <2>5, TypeStep
<1> QED
  BY <1>1, <1>2, <1>3, Steps DEF vars

LEMMA BaseInit == Init => Base
<1> SUFFICES ASSUME Init PROVE Base
  OBVIOUS
<1>1. TypeOK
  <2>1. CallTypes
    <3>1. calls \in [Ends -> Seq(CallSet)] /\ stopped \in [Ends -> Int]
      BY DEF Init
    <3>2. \A e \in Ends : calls[e] = <<>> /\ DOMAIN calls[e] = {} /\ Len(calls[e]) = 0 /\ stopped[e] = 0
      BY DEF Init
    <3>3. 0 \in OwnPromise .. 0
      BY DEF OwnPromise
    <3> QED
      BY <3>1, <3>2, <3>3 DEF CallTypes
  <2>2. OtherTypes
    <3>1. trouble \in AllTroubles \cup {"none"} /\ lost \in BOOLEAN
      BY TroublesAssumption DEF Init
    <3>2. stops \in 0 .. MaxStops /\ requests \in 0 .. MaxRequests
      BY BoundsAssumption DEF Init
    <3>3. wire \in [Ends -> Seq(HandshakeMessages \cup Messages)] /\ inbox \in [Ends -> Seq(Messages)]
      BY DEF Init
    <3> QED
      BY <3>1, <3>2, <3>3 DEF Init, OtherTypes
  <2> QED
    BY <2>1, <2>2, AllTypes
<1>2. Handshake
  BY DEF Init, Handshake, Starts, Comes, IsAt, NotYet, Before, Terminal, InHandshake
<1> QED
  BY <1>1, <1>2 DEF Base

(* Every state is of the declared types: among them, what #tccReader finds *)
(* is never a part of the handshake, and a stop() that waits has a promise *)
(* to wait for, whatever the trouble.                                      *)
THEOREM Typed == Spec => []TypeOK
<1>1. Spec => []Base
  BY BaseInit, BaseStep, PTL DEF Spec
<1>2. Base => TypeOK
  BY DEF Base
<1> QED
  BY <1>1, <1>2, PTL

----------------------------------------------------------------------------
(* The life of an end *)

LEMMA LifeSame ==
    ASSUME NEW f \in Ends, SameEnd(f), trouble' = trouble, Life(f)
    PROVE  Life(f)'
BY DEF SameEnd, Life, OneGoes, IsAt

(* A call takes a step, and no other does. *)
LEMMA CallMoves ==
    ASSUME TypeOK, Handshake, NEW e \in Ends, NEW k \in DOMAIN calls[e], CallStep(e, k)
    PROVE  /\ calls[e][k].pc \in Going /\ state[e] # "crashed"
           /\ DOMAIN calls'[e] = DOMAIN calls[e]
           /\ \A l \in DOMAIN calls[e] : l # k => calls'[e][l] = calls[e][l]
           /\ CloseChannels(e, k) => calls'[e][k].pc = "closing" /\ calls'[e][k].waits = AwaitsChannel(e)
           /\ ~CloseChannels(e, k) => calls'[e][k].waits = calls[e][k].waits
           /\ \A pc \in PCs : Goto(e, k, pc) => calls'[e][k].pc = pc
<1>a. Starts(e) /\ calls \in [Ends -> Seq(CallSet)]
  BY DEF Handshake, TypeOK
<1>b. tcc[e] \in {"none", "open", "closed"} /\ (tcc[e] = "none" => calls[e][k].pc \notin ClosingPCs)
  BY <1>a DEF TypeOK, Starts, IsAt
<1>1. calls[e][k].pc \in Going /\ state[e] # "crashed"
  BY DEF CallStep, BeforeStoppingDone, CloseChannels, ChannelsClosed, Timeout, TranStoppedSent, Finalized, At,
         Going, ClosingPCs
<1>2. ASSUME NEW pc \in PCs, Goto(e, k, pc)
      PROVE  /\ DOMAIN calls'[e] = DOMAIN calls[e] /\ calls'[e][k].pc = pc /\ calls'[e][k].waits = calls[e][k].waits
             /\ \A l \in DOMAIN calls[e] : l # k => calls'[e][l] = calls[e][l]
  BY <1>2, <1>a, CallGoes DEF Goto
<1>3. CASE CloseChannels(e, k)
  <2>1. /\ calls' = [calls EXCEPT ![e][k].pc = "closing", ![e][k].waits = AwaitsChannel(e)]
        /\ AwaitsChannel(e) \in BOOLEAN
    BY <1>3 DEF CloseChannels, AwaitsChannel, IsClosing
  <2>2. /\ calls'[e][k].pc = "closing" /\ calls'[e][k].waits = AwaitsChannel(e)
        /\ DOMAIN calls'[e] = DOMAIN calls[e] /\ \A l \in DOMAIN calls[e] : l # k => calls'[e][l] = calls[e][l]
    BY <1>a, <2>1, CallCloses
  <2> QED
    BY <1>1, <1>2, <1>3, <2>2 DEF Goto
<1>4. CASE ~CloseChannels(e, k)
  <2>1. PICK pc \in PCs : Goto(e, k, pc)
    BY <1>b, <1>4 DEF At, CallStep, BeforeStoppingDone, ChannelsClosed, Timeout, TranStoppedSent, Finalized, PCs, ClosingPCs
  <2> QED
    BY <1>1, <1>2, <1>4, <2>1 DEF Goto
<1> QED
  BY <1>3, <1>4 DEF Goto

(* Where one stop() is under way, the others are where they are. *)
LEMMA OneMoves ==
    ASSUME NEW e \in Ends, OneGoes(e), NEW k \in DOMAIN calls[e], calls[e][k].pc \in Going,
           DOMAIN calls'[e] = DOMAIN calls[e], \A l \in DOMAIN calls[e] : l # k => calls'[e][l] = calls[e][l]
    PROVE  /\ OneGoes(e)'
           /\ \A S \in SUBSET Going : (IsAt(e, S) <=> calls[e][k].pc \in S) /\ (IsAt(e, S)' <=> calls'[e][k].pc \in S)
BY DEF OneGoes, IsAt

LEMMA GoingSets ==
    /\ Going = {"beforeStopping", "finalizing", "tranStop", "closing", "tranStopped"}
    /\ Going \in SUBSET Going /\ Going \ {"finalizing"} \in SUBSET Going /\ {"tranStopped"} \in SUBSET Going
    /\ ClosingPCs \in SUBSET Going
BY DEF Going, ClosingPCs

LEMMA LifeCall ==
    ASSUME TypeOK, Handshake, NEW e \in Ends, trouble \notin {"early", "text"}, Life(e),
           NEW k \in DOMAIN calls[e], CallStep(e, k)
    PROVE  Life(e)'
<1>a. /\ calls[e][k].pc \in Going /\ state[e] # "crashed"
      /\ DOMAIN calls'[e] = DOMAIN calls[e] /\ \A l \in DOMAIN calls[e] : l # k => calls'[e][l] = calls[e][l]
      /\ CloseChannels(e, k) => calls'[e][k].pc = "closing"
      /\ \A pc \in PCs : Goto(e, k, pc) => calls'[e][k].pc = pc
  BY CallMoves DEF CallStep
<1> DEFINE pc == calls[e][k].pc
           pcn == calls'[e][k].pc
<1>b. /\ OneGoes(e)'
      /\ IsAt(e, Going) /\ (IsAt(e, Going)' <=> pcn \in Going)
      /\ IsAt(e, Going \ {"finalizing"}) <=> pc # "finalizing"
      /\ IsAt(e, Going \ {"finalizing"})' <=> pcn \in Going /\ pcn # "finalizing"
      /\ (IsAt(e, {"tranStopped"}) <=> pc = "tranStopped") /\ (IsAt(e, {"tranStopped"})' <=> pcn = "tranStopped")
  BY <1>a, OneMoves, GoingSets DEF Life
<1>c. /\ tcc[e] # "none" /\ state[e] \notin Before \cup {"active", "remoteStopping"}
      /\ pc # "finalizing" => state[e] \in {"stopping", "localStopping", "disconnected", "crashed"} /\ final[e] = "none"
      /\ pc = "tranStopped" /\ trouble # "sending" => state[e] # "disconnected"
  BY <1>b DEF Life
<1>d. UNCHANGED <<trouble, reader>>
  BY DEF CallStep, BeforeStoppingDone, CloseChannels, ChannelsClosed, Timeout, TranStoppedSent, Finalized, startVars
<1> HIDE DEF pc, pcn
<1>1. ASSUME pcn \in {"tranStop", "closing", "waiting", "failed"} \/ (pcn = "tranStopped" /\ state[e] # "disconnected"),
             pc \in {"beforeStopping", "tranStop", "closing"} \/ (pc = "finalizing" /\ pcn \in {"waiting", "failed"}),
             UNCHANGED <<state, tcc, final, channel, pending>>
      PROVE  Life(e)'
  BY <1>1, <1>a, <1>b, <1>c, <1>d DEF Life, Going, ClosingPCs
<1>2. CASE BeforeStoppingDone(e, k)
  <2>1. pc = "beforeStopping" /\ tcc[e] \in {"open", "closed"}
    BY <1>2, <1>c DEF BeforeStoppingDone, At, TypeOK, pc
  <2>2. pcn \in {"tranStop", "failed"} /\ UNCHANGED <<state, final, tcc, channel>>
    BY <1>2, <1>a, <2>1 DEF BeforeStoppingDone, PCs, pcn
  <2>3. pending'[e] = "none" \/ pending[e] # "none"
    BY <1>2 DEF BeforeStoppingDone, RejectRequests, TypeOK
  <2> QED
    BY <2>1, <2>2, <2>3, <1>a, <1>b, <1>c, <1>d DEF Life, Going, ClosingPCs
<1>3. CASE CloseChannels(e, k)
  <2>1. pc = "tranStop" /\ pcn = "closing" /\ UNCHANGED <<state, final, tcc, pending>>
    BY <1>3, <1>a DEF CloseChannels, At, pc, pcn
  <2>2. channel'[e] = channel[e] \/ (channel[e] = "open" /\ channel'[e] = "closing")
    BY <1>3 DEF CloseChannels, StartClosing, TypeOK
  <2> QED
    BY <2>1, <2>2, <1>a, <1>b, <1>c, <1>d DEF Life, Going, ClosingPCs, Up
<1>4. CASE ChannelsClosed(e, k)
  <2>1. pc = "closing" /\ tcc[e] \in {"open", "closed"}
    BY <1>4, <1>c DEF ChannelsClosed, At, TypeOK, pc
  <2>2. pcn \in {"waiting", "failed"} \/ (pcn = "tranStopped" /\ state[e] # "disconnected")
    BY <1>4, <1>a, <2>1 DEF ChannelsClosed, PCs, pcn
  <2> QED
    BY <1>1, <1>4, <2>1, <2>2 DEF ChannelsClosed, channelVars
<1>5. CASE Timeout(e, k)
  BY <1>1, <1>5, <1>a DEF Timeout, At, PCs, pc, pcn, channelVars
<1>6. CASE TranStoppedSent(e, k)
  <2>1. pc = "tranStopped" /\ UNCHANGED <<channel, pending>>
    BY <1>6 DEF TranStoppedSent, At, pc, channelVars
  <2>2. CASE RemoteIsDone(e)
    <3>1. pcn = "finalizing" /\ state' = state /\ state[e] = "localStopping"
      BY <1>6, <1>a, <2>2 DEF TranStoppedSent, PCs, pcn, RemoteIsDone
    <3>2. tcc'[e] = "closed" /\ final'[e] = "closing"
      BY <1>6, <2>2 DEF TranStoppedSent, FinalizeStop, TypeOK
    <3> QED
      BY <2>1, <3>1, <3>2, <1>a, <1>b, <1>c, <1>d DEF Life, Going, ClosingPCs, Stopping, Before, Terminal
  <2>3. CASE ~RemoteIsDone(e)
    <3>1. pcn = "waiting" /\ UNCHANGED <<tcc, final>>
      BY <1>6, <1>a, <2>3 DEF TranStoppedSent, PCs, pcn
    <3>2. state'[e] = "remoteStopping"
      BY <1>6, <2>3 DEF TranStoppedSent, TypeOK
    <3>3. reader[e] \notin NotYet
      <4>1. trouble \notin InHandshake => reader[e] \notin NotYet
        <5>1. calls[e] # <<>>
          BY DEF TypeOK
        <5> QED
          BY <5>1 DEF Handshake, Starts
      <4>2. trouble \in InHandshake => trouble # "sending"
        BY DEF InHandshake
      <4> QED
        BY <4>1, <4>2, <2>1, <1>a, <1>c DEF Life
    <3> QED
      BY <2>1, <3>1, <3>2, <3>3, <1>a, <1>b, <1>c, <1>d DEF Life, Going, ClosingPCs, Stopping, Before, Terminal
  <2> QED
    BY <2>2, <2>3
<1>7. CASE Finalized(e, k)
  <2>1. pc = "finalizing" /\ pcn \in {"waiting", "failed"}
    BY <1>7, <1>a DEF Finalized, At, PCs, pc, pcn
  <2> QED
    BY <1>1, <1>7, <2>1 DEF Finalized, channelVars
<1> QED
  BY <1>2, <1>3, <1>4, <1>5, <1>6, <1>7 DEF CallStep

LEMMA LifeStop ==
    ASSUME TypeOK, NEW e \in Ends, Starts(e), trouble \notin {"early", "text"}, Life(e),
           NEW t \in BOOLEAN, NEW h \in BOOLEAN, NewStop(e, t, h), state[e] \notin Before,
           UNCHANGED <<trouble, startVars, tcc, channelVars, final>>
    PROVE  Life(e)'
<1>a. calls \in [Ends -> Seq(CallSet)]
  BY DEF TypeOK
<1>b. PICK c \in CallSet : /\ calls' = [calls EXCEPT ![e] = Append(@, c)]
                           /\ c.pc \in {"beforeStopping", "waiting", "returned"}
                           /\ c.pc = "beforeStopping" => state[e] \in {"created", "starting", "active"}
  BY CallTypesStop DEF NewStop
<1>c. /\ \A l \in DOMAIN calls'[e] : (l \in DOMAIN calls[e] /\ calls'[e][l] = calls[e][l])
                                        \/ (l = Len(calls[e]) + 1 /\ calls'[e][l] = c)
  BY <1>a, <1>b, CallAdded
<1>d. state'[e] = (IF state[e] = "active" THEN "stopping" ELSE state[e])
  <2>1. state'[e] = (IF state[e] \in {"created", "starting", "active"} THEN "stopping" ELSE state[e])
    BY CallJoins DEF NewStop
  <2> QED
    BY <2>1 DEF Before
<1>1. CASE state[e] = "active"
  <2>1. ~IsAt(e, Going) /\ tcc[e] = "open" /\ final[e] = "none" /\ reader[e] \notin NotYet
    BY <1>1 DEF Life, Before
  <2>2. \A l \in DOMAIN calls[e] : calls[e][l].pc \notin Going
    BY <2>1 DEF IsAt
  <2>3. OneGoes(e)'
    BY <1>c, <2>2 DEF OneGoes
  <2>4. ~IsAt(e, {"tranStopped"})'
    BY <1>b, <1>c, <2>2 DEF IsAt, Going, ClosingPCs
  <2>5. UNCHANGED <<trouble, reader, tcc, channel, pending, final>>
    BY DEF startVars, channelVars
  <2> QED
    BY <1>1, <1>d, <2>1, <2>3, <2>4, <2>5 DEF Life, Before, Stopping, Terminal
<1>2. CASE state[e] # "active"
  <2>1. c.pc \notin Going /\ state'[e] = state[e]
    BY <1>b, <1>d, <1>2 DEF Before, Going, ClosingPCs
  <2>2. OneGoes(e)'
    BY <1>c, <2>1 DEF OneGoes, Life
  <2>3. \A S \in SUBSET Going : IsAt(e, S)' => IsAt(e, S)
    BY <1>c, <2>1 DEF IsAt
  <2>4. /\ IsAt(e, Going)' => IsAt(e, Going)
        /\ IsAt(e, Going \ {"finalizing"})' => IsAt(e, Going \ {"finalizing"})
        /\ IsAt(e, {"tranStopped"})' => IsAt(e, {"tranStopped"})
    BY <2>3, GoingSets
  <2>5. UNCHANGED <<trouble, reader, tcc, channel, pending, final>>
    BY DEF startVars, channelVars
  <2> QED
    BY <2>1, <2>2, <2>4, <2>5 DEF Life
<1> QED
  BY <1>1, <1>2

LEMMA LifeRest ==
    ASSUME TypeOK, Handshake, NEW e \in Ends, trouble \notin {"early", "text"}, Life(e), Step(e)
    PROVE  Life(e)'
<1>a. Starts(e)
  BY DEF Handshake
<1>b. ASSUME calls'[e] = calls[e] PROVE (OneGoes(e)' <=> OneGoes(e)) /\ \A S : IsAt(e, S)' <=> IsAt(e, S)
  BY <1>b DEF OneGoes, IsAt
<1>c. ASSUME UNCHANGED <<trouble, state, reader, tcc, calls, final>>,
             pending'[e] \in {pending[e], "settled", "none"}, pending[e] = "none" => pending'[e] # "settled",
             channel'[e] = channel[e] \/ ((state[e] # "disconnected" \/ trouble = "accept") /\ channel'[e] # "disconnected")
               \/ (channel[e] \in Up /\ channel'[e] \in Up) \/ channel'[e] = "closed"
      PROVE  Life(e)'
  <2>1. UNCHANGED <<trouble, state[e], reader[e], tcc[e], final[e]>> /\ calls'[e] = calls[e]
    BY <1>c
  <2> QED
    BY <1>b, <1>c, <2>1 DEF Life, Up, Closing
<1>d. Ready => reader[e] \notin NotYet \/ trouble = "starting"
  BY <1>a DEF Ready, Starts, NotYet, InHandshake
<1>e. inbox[e] # <<>> \/ handling[e] # "none" => state[e] \notin Before
  BY <1>a DEF Life, Starts
<1>1. CASE Start(e) \/ ReceiveConfig(e) \/ ReceiveStart(e)
  <2>1. calls' = calls /\ calls'[e] = calls[e] /\ UNCHANGED <<trouble, final, channel, pending>>
    BY <1>1 DEF Start, ReceiveConfig, ReceiveStart, stopVars, channelVars
  <2>2. CASE Start(e)
    <3>1. state[e] = "created" /\ state'[e] = "starting" /\ reader'[e] = "config" /\ tcc' = tcc
      BY <2>2 DEF Start, TypeOK
    <3> QED
      BY <1>a, <1>b, <2>1, <3>1 DEF Life, Starts, Before, NotYet, Stopping, Terminal
  <2>3. CASE ReceiveConfig(e)
    <3>1. reader[e] = "config" /\ reader'[e] = "start" /\ tcc'[e] = "open" /\ state' = state
          /\ state[e] \notin Terminal \cup {"crashed"}
      BY <2>3 DEF ReceiveConfig, Arrived, Running, TypeOK
    <3> QED
      BY <1>a, <1>b, <2>1, <3>1 DEF Life, Starts, Before, NotYet, Stopping, Terminal
  <2>4. CASE ReceiveStart(e)
    <3>1. reader[e] = "start" /\ reader'[e] = "messages" /\ tcc' = tcc /\ state'[e] = "active"
          /\ state[e] \notin Terminal \cup {"crashed"}
      BY <2>4 DEF ReceiveStart, OnRemoteReady, Arrived, Running, TypeOK
    <3>2. tcc[e] = "open" /\ state[e] \in Before /\ ~IsAt(e, Going) /\ final[e] = "none"
      BY <1>a, <3>1 DEF Life, Starts, NotYet, Before, Terminal, TypeOK
    <3>3. \A S \in SUBSET Going : ~IsAt(e, S)
      BY <3>2 DEF IsAt
    <3>4. ~IsAt(e, {"tranStopped"}) /\ ~IsAt(e, Going \ {"finalizing"})
      BY <3>3, GoingSets
    <3>5. channel[e] # "disconnected" \/ trouble = "sending"
      BY <3>2 DEF Life, Before
    <3> QED
      BY <1>b, <2>1, <3>1, <3>2, <3>4, <3>5 DEF Life, Before, NotYet, Stopping, Terminal
  <2> QED
    BY <1>1, <2>2, <2>3, <2>4
<1>2. CASE TextHandled(e) \/ ReceiveText(e) \/ InputWhileDraining(e)
  <2>1. ~TextHandled(e) /\ ~ReceiveText(e)
    BY <1>a DEF TextHandled, ReceiveText, Starts
  <2>2. ~InputWhileDraining(e)
    BY DEF InputWhileDraining, Life, NotYet, Before
  <2> QED
    BY <1>2, <2>1, <2>2
<1>3. CASE RequestChannel(e) \/ SendChanClosed(e)
  <2>1. CASE RequestChannel(e)
    <3>1. state[e] = "active" /\ UNCHANGED <<trouble, state, reader, tcc, calls, final, channel>>
      BY <2>1 DEF RequestChannel, startVars, stopVars
    <3>2. calls'[e] = calls[e]
      BY <3>1
    <3> QED
      BY <1>b, <3>1, <3>2 DEF Life
  <2>2. CASE SendChanClosed(e)
    <3>1. UNCHANGED <<trouble, state, reader, tcc, calls, final, pending>>
      BY <2>2 DEF SendChanClosed, startVars, stopVars
    <3>2. channel[e] \in Up /\ channel'[e] \in {"remoteClosing", "closed"}
      BY <2>2 DEF SendChanClosed, TypeOK, Up, Closing
    <3> QED
      BY <1>c, <3>1, <3>2 DEF Up, Closing
  <2> QED
    BY <1>3, <2>1, <2>2
<1>4. CASE \E timeout \in BOOLEAN : Stop(e, timeout)
  <2>1. PICK t \in BOOLEAN : Stop(e, t)
    BY <1>4
  <2> QED
    BY <1>a, <2>1, LifeStop DEF Stop, NewStop, Before
<1>5. CASE \E k \in DOMAIN calls[e] : CallStep(e, k)
  BY <1>5, LifeCall
<1>6. CASE TccClosed(e)
  <2>1. /\ UNCHANGED <<trouble, reader, tcc, channel, pending>> /\ calls'[e] = calls[e] /\ final[e] = "closing"
    BY <1>6 DEF TccClosed, startVars, channelVars
  <2>2. /\ final'[e] \in {"done", "draining"} /\ (state[e] = "disconnected" => state'[e] = state[e])
        /\ state[e] # "disconnected" => state'[e] = "stopped" /\ state[e] # "crashed"
    BY <1>6 DEF TccClosed, TypeOK
  <2>3. ~IsAt(e, Going \ {"finalizing"}) /\ tcc[e] = "closed" /\ state[e] \notin Before \cup {"active", "stopping"}
    BY <2>1 DEF Life
  <2>4. ~IsAt(e, {"tranStopped"})
    BY <2>3 DEF IsAt, Going, ClosingPCs
  <2>5. reader[e] \in NotYet => state[e] = "disconnected"
    BY <2>2, <2>3 DEF Life, Before
  <2> QED
    BY <1>b, <2>1, <2>2, <2>3, <2>4, <2>5 DEF Life, Stopping, Before, Terminal
<1>7. CASE Drained(e) \/ DrainFails(e)
  <2>1. /\ UNCHANGED <<trouble, state, tcc, channel, pending>> /\ calls'[e] = calls[e] /\ final[e] = "draining"
    BY <1>7 DEF Drained, DrainFails, startVars, channelVars
  <2>2. final'[e] \in {"done", "failed"} /\ reader'[e] \in {reader[e], "ended"}
    BY <1>7 DEF Drained, DrainFails, ReaderEnds, TypeOK, startVars
  <2> QED
    BY <1>b, <2>1, <2>2 DEF Life, NotYet, Terminal, Before
<1>8. CASE Receive(e)
  <2>1. UNCHANGED <<trouble, state, reader, tcc, calls, final, pending, channel>>
    BY <1>8 DEF Receive, startVars, channelVars, stopVars
  <2>2. pending'[e] = pending[e] /\ channel'[e] = channel[e]
    BY <2>1
  <2> HIDE DEF Life
  <2> QED
    BY <1>c, <2>1, <2>2
<1>9. CASE TakeStep(e)
  <2>1. CASE OnChannelRequest(e) \/ FinalizeHandled(e)
    <3>1. UNCHANGED <<trouble, state, reader, tcc, calls, final, pending, channel>>
      BY <2>1 DEF OnChannelRequest, FinalizeHandled, startVars, channelVars, stopVars
    <3>2. pending'[e] = pending[e] /\ channel'[e] = channel[e]
      BY <3>1
    <3> QED
      BY <1>c, <3>1, <3>2
  <2>2. CASE OnChannelResponse(e)
    <3>1. UNCHANGED <<trouble, state, reader, tcc, calls, final>> /\ pending'[e] = "none"
      BY <2>2 DEF OnChannelResponse, TypeOK, startVars, stopVars
    <3>2. channel'[e] = channel[e] \/ (channel'[e] = "open" /\ pending[e] # "none")
      BY <2>2 DEF OnChannelResponse, TypeOK
    <3>3. state[e] = "disconnected" => pending[e] = "none"
      BY DEF Life
    <3> QED
      BY <1>c, <3>1, <3>2, <3>3
  <2>3. CASE OnChannelClose(e) \/ OnChannelClosed(e)
    <3>1. UNCHANGED <<trouble, state, reader, tcc, calls, final, pending>>
      BY <2>3 DEF OnChannelClose, OnChannelClosed, startVars, stopVars
    <3>2. pending'[e] = pending[e] /\ (channel'[e] = channel[e] \/ (channel[e] \in Up /\ channel'[e] \in Up \cup {"closed"}))
      BY <2>3, <3>1 DEF OnChannelClose, OnChannelClosed, StartClosing, TypeOK, Up, Closing
    <3> QED
      BY <1>c, <3>1, <3>2
  <2>4. CASE OnTransportStop(e)
    <3>1. CASE Follows(e)
      BY <1>a, <2>4, <3>1, LifeStop DEF OnTransportStop, NewStop, Follows, Before
    <3>2. CASE ~Follows(e)
      <4>1. UNCHANGED <<trouble, state, reader, tcc, calls, final, pending, channel>>
        BY <2>4, <3>2 DEF OnTransportStop, startVars, channelVars
      <4>2. pending'[e] = pending[e] /\ channel'[e] = channel[e]
        BY <4>1
      <4> QED
        BY <1>c, <4>1, <4>2
    <3> QED
      BY <3>1, <3>2
  <2>5. CASE OnTransportStopped(e)
    <3>1. UNCHANGED <<trouble, reader, channel, pending>> /\ calls'[e] = calls[e] /\ reader[e] \notin NotYet
      BY <1>a, <2>5 DEF OnTransportStopped, Takes, Starts, startVars, channelVars
    <3>2. CASE state[e] = "remoteStopping"
      <4>1. state'[e] = "remoteStopping" /\ tcc'[e] = "closed" /\ final'[e] = "closing"
        BY <2>5, <3>2 DEF OnTransportStopped, FinalizeStop, TypeOK
      <4>2. ~IsAt(e, Going) /\ \A S \in SUBSET Going : ~IsAt(e, S)
        BY <3>2 DEF Life, IsAt
      <4>3. ~IsAt(e, {"tranStopped"}) /\ ~IsAt(e, Going \ {"finalizing"})
        BY <4>2, GoingSets
      <4> QED
        BY <1>b, <3>1, <3>2, <4>1, <4>2, <4>3 DEF Life, Before, Terminal, Stopping
    <3>3. CASE state[e] # "remoteStopping"
      <4>1. /\ tcc' = tcc /\ final' = final
            /\ state'[e] = IF state[e] = "stopping" THEN "localStopping" ELSE state[e]
        BY <2>5, <3>3 DEF OnTransportStopped, TypeOK
      <4> QED
        BY <1>b, <3>1, <3>3, <4>1 DEF Life, Before, Terminal, Stopping
    <3> QED
      BY <3>2, <3>3
  <2> QED
    BY <1>9, <2>1, <2>2, <2>3, <2>4, <2>5 DEF TakeStep
<1>10. CASE HandlerStep(e)
  <2>1. CASE Accept(e)
    <3>1. UNCHANGED <<trouble, state, reader, tcc, calls, final>> /\ (trouble = "accept" \/ state[e] = "active")
      BY <2>1 DEF Accept, startVars, stopVars
    <3>2. /\ channel'[e] = channel[e] \/ channel'[e] = "open"
          /\ pending'[e] = pending[e] \/ (pending[e] = "waiting" /\ pending'[e] = "settled")
      BY <2>1 DEF Accept, TypeOK
    <3> QED
      BY <1>c, <3>1, <3>2
  <2>2. CASE Reject(e)
    <3>1. UNCHANGED <<trouble, state, reader, tcc, calls, final, pending, channel>>
      BY <2>2 DEF Reject, startVars, channelVars, stopVars
    <3>2. pending'[e] = pending[e] /\ channel'[e] = channel[e]
      BY <3>1
    <3> QED
      BY <1>c, <3>1, <3>2
  <2>3. CASE HandlerStops(e)
    <3>1. state[e] \notin Before
      BY <1>e, <2>3 DEF HandlerStops
    <3> QED
      BY <1>a, <2>3, <3>1, LifeStop DEF HandlerStops, NewStop
  <2> QED
    BY <1>10, <2>1, <2>2, <2>3 DEF HandlerStep
<1>11. CASE Crash(e)
  <2>1. /\ state'[e] = "crashed" /\ trouble = "crash" /\ state[e] \notin Terminal
        /\ UNCHANGED <<trouble, reader, tcc, channel, pending, final>> /\ calls'[e] = calls[e]
    BY <1>11 DEF Crash, Running, TypeOK, startVars, channelVars, stopVars
  <2> QED
    BY <1>b, <2>1 DEF Life, Before, Stopping, Terminal
<1>12. CASE NoticeLoss(e) \/ Abort(e) \/ EndOfInput(e)
  <2>1. OnDisconnect(e)
    BY <1>12 DEF NoticeLoss, Abort, EndOfInput
  <2>2. /\ state'[e] = "disconnected" /\ tcc'[e] = (IF tcc[e] = "none" THEN "none" ELSE "closed")
        /\ reader'[e] = (IF text[e] = "awaited" THEN reader[e] ELSE "ended")
        /\ pending'[e] = "none" /\ channel'[e] = IF channel[e] \in Up THEN "disconnected" ELSE channel[e]
    BY <2>1 DEF OnDisconnect, ReaderEnds, DisconnectChannel, TypeOK, Up
  <2>3. UNCHANGED <<trouble, final>> /\ calls'[e] = calls[e] /\ state[e] \notin Terminal
    BY <2>1 DEF OnDisconnect, MayDisconnect, Running
  <2>4. reader'[e] = "ended"
    BY <1>a, <2>2 DEF Starts
  <2>5. IsAt(e, {"tranStopped"}) => trouble = "sending"
    BY <2>1 DEF OnDisconnect, IsAt
  <2> QED
    BY <1>b, <2>2, <2>3, <2>4, <2>5 DEF Life, Before, NotYet, Stopping, Terminal, Up, Closing
<1> QED
  BY <1>1, <1>2, <1>3, <1>4, <1>5, <1>6, <1>7, <1>8, <1>9, <1>10, <1>11, <1>12 DEF Step, StartStep

LEMMA LivesInit == Init => Lives
<1> SUFFICES ASSUME Init, NEW e \in Ends PROVE Life(e)
  BY DEF Lives
<1>1. /\ state[e] = "created" /\ reader[e] = "none" /\ tcc[e] = "none" /\ final[e] = "none" /\ pending[e] = "none"
      /\ channel[e] = "none" /\ calls[e] = <<>> /\ DOMAIN calls[e] = {}
  BY DEF Init
<1> QED
  BY <1>1 DEF Life, OneGoes, IsAt, Before, NotYet, Stopping, Terminal, Up, Closing

LEMMA LivesStep == Base /\ Lives /\ [Next]_vars => Lives'
<1> SUFFICES ASSUME TypeOK, Handshake, Lives, [Next]_vars PROVE Lives'
  BY DEF Base
<1>1. CASE UNCHANGED vars
  BY <1>1 DEF vars, startVars, stopVars, channelVars, Lives, Life, OneGoes, IsAt
<1>2. CASE Lose
  BY <1>2 DEF Lose, startVars, stopVars, channelVars, Lives, Life, OneGoes, IsAt
<1>3. ASSUME NEW e \in Ends, Step(e) PROVE Lives'
  <2> DEFINE p == Peer(e)
  <2>1. p \in Ends /\ p # e /\ \A f \in Ends : f = e \/ f = p
    BY TwoEnds
  <2>2. SameEnd(p) /\ trouble' = trouble
    BY <1>3, <2>1, OtherEnd
  <2>3. CASE trouble \in {"early", "text"}
    BY <2>2, <2>3 DEF Lives
  <2>4. CASE trouble \notin {"early", "text"}
    <3>1. Life(e)' /\ Life(p)'
      BY <1>3, <2>1, <2>2, <2>4, LifeRest, LifeSame DEF Lives
    <3> QED
      BY <2>1, <3>1 DEF Lives
  <2> QED
    BY <2>3, <2>4
<1> QED
  BY <1>1, <1>2, <1>3, Steps DEF vars

LEMMA LivesAlways == Spec => [](Base /\ Lives)
BY BaseInit, BaseStep, LivesInit, LivesStep, PTL DEF Spec

LEMMA OverIsOver ==
    ASSUME TypeOK, Handshake, NEW e \in Ends, trouble \notin {"text", "early", "sending"}, Life(e),
           state[e] \in Terminal, Step(e)
    PROVE  state'[e] = state[e]
<1>a. Starts(e) /\ state[e] \in {"stopped", "disconnected"}
  BY DEF Handshake, Terminal
<1>1. CASE Start(e) \/ ReceiveConfig(e) \/ ReceiveStart(e) \/ RequestChannel(e) \/ SendChanClosed(e)
  BY <1>1, <1>a DEF Start, ReceiveConfig, ReceiveStart, Arrived, Running, Terminal, RequestChannel, SendChanClosed
<1>2. CASE TextHandled(e) \/ ReceiveText(e) \/ InputWhileDraining(e)
  <2>1. ~TextHandled(e) /\ ~ReceiveText(e)
    BY <1>a DEF TextHandled, ReceiveText, Starts
  <2>2. ~InputWhileDraining(e)
    BY DEF InputWhileDraining, Life, NotYet, Before
  <2> QED
    BY <1>2, <2>1, <2>2
<1>3. ASSUME NEW t \in BOOLEAN, NEW h \in BOOLEAN, NewStop(e, t, h) PROVE state'[e] = state[e]
  BY <1>3, <1>a DEF NewStop
<1>4. CASE (\E timeout \in BOOLEAN : Stop(e, timeout)) \/ HandlerStep(e)
  BY <1>4, <1>3 DEF Stop, HandlerStep, Accept, Reject, HandlerStops, NewStop
<1>5. CASE \E k \in DOMAIN calls[e] : CallStep(e, k)
  <2>1. PICK k \in DOMAIN calls[e] : CallStep(e, k)
    BY <1>5
  <2>2. tcc[e] \in {"none", "open", "closed"}
    BY DEF TypeOK
  <2>3. CASE BeforeStoppingDone(e, k)
    <3>1. tcc[e] # "none"
      BY <2>3 DEF BeforeStoppingDone, At, Life, IsAt, Going
    <3> QED
      BY <2>2, <2>3, <3>1 DEF BeforeStoppingDone
  <2>4. CASE TranStoppedSent(e, k)
    <3>1. IsAt(e, {"tranStopped"}) /\ IsAt(e, Going \ {"finalizing"})
      BY <2>4 DEF TranStoppedSent, At, IsAt, Going, ClosingPCs
    <3> QED
      BY <1>a, <3>1 DEF Life
  <2>5. CASE CloseChannels(e, k) \/ ChannelsClosed(e, k) \/ Timeout(e, k) \/ Finalized(e, k)
    BY <2>5 DEF CloseChannels, ChannelsClosed, Timeout, Finalized
  <2> QED
    BY <2>1, <2>3, <2>4, <2>5 DEF CallStep
<1>6. CASE TccClosed(e)
  <2>1. state[e] # "stopped"
    BY <1>6 DEF TccClosed, Life
  <2> QED
    BY <1>6, <1>a, <2>1 DEF TccClosed
<1>7. CASE Drained(e) \/ DrainFails(e) \/ Receive(e)
  BY <1>7 DEF Drained, DrainFails, Receive
<1>8. CASE TakeStep(e)
  <2>1. CASE OnTransportStop(e)
    BY <1>a, <2>1 DEF OnTransportStop, Follows
  <2>2. CASE OnTransportStopped(e)
    BY <1>a, <2>2 DEF OnTransportStopped, TypeOK
  <2> QED
    BY <1>8, <2>1, <2>2
    DEF TakeStep, OnChannelRequest, OnChannelResponse, OnChannelClose, OnChannelClosed, FinalizeHandled
<1>9. CASE Crash(e) \/ NoticeLoss(e) \/ Abort(e) \/ EndOfInput(e)
  BY <1>9 DEF Crash, Running, NoticeLoss, Abort, EndOfInput, OnDisconnect, MayDisconnect
<1> QED
  BY <1>1, <1>2, <1>4, <1>5, <1>6, <1>7, <1>8, <1>9 DEF Step, StartStep

(* Stopped and disconnected are for good: whatever stop() has under way,   *)
(* no handler of beforeStopping, no reply of the remote, no late input and *)
(* no loss of the connection puts the state back (onRemoteReady, stop,     *)
(* #finalizeStop, #onDisconnect), but with the troubles that are named.    *)
THEOREM OverForGood == Spec => TerminalStays
<1>1. ASSUME Base, Lives, [Next]_vars, NEW e \in Ends, state[e] \in Terminal, trouble \notin {"text", "early", "sending"}
      PROVE  state'[e] = state[e]
  <2>1. CASE UNCHANGED vars \/ Lose
    BY <2>1 DEF vars, Lose
  <2>2. ASSUME NEW f \in Ends, Step(f) PROVE state'[e] = state[e]
    <3>1. CASE f = e
      BY <1>1, <2>2, <3>1, OverIsOver DEF Base, Lives
    <3>2. CASE f # e
      BY <1>1, <2>2, <3>2, OtherEnd DEF Base, SameEnd
    <3> QED
      BY <3>1, <3>2
  <2> QED
    BY <1>1, <2>1, <2>2, Steps DEF vars
<1>2. Base /\ Lives /\ [Next]_vars =>
        [\A e \in Ends : state[e] \in Terminal /\ trouble \notin {"text", "early", "sending"} => state'[e] = state[e]]_vars
  BY <1>1
<1> QED
  BY <1>2, LivesAlways, PTL DEF Spec, TerminalStays

----------------------------------------------------------------------------
(* No channel where it is not looked at *)

LEMMA QuietHere ==
    ASSUME TypeOK, Handshake, Quiet, trouble \in WithoutChannel, NEW e \in Ends, NEW p \in Ends, p = Peer(e), Step(e)
    PROVE  /\ channel'[e] = "none" /\ pending'[e] = "none" /\ ~IsAsked(e)'
           /\ inbox'[e] \in Seq(QuietMessages) /\ wire'[e] \in Seq(QuietMessages) /\ wire'[p] \in Seq(QuietMessages)
<1>a. /\ channel[e] = "none" /\ pending[e] = "none" /\ handling[e] \notin {"request", "stop"}
      /\ inbox[e] \in Seq(QuietMessages) /\ wire[e] \in Seq(QuietMessages) /\ wire[p] \in Seq(QuietMessages)
      /\ p # e /\ Peer(e) = p
  BY TwoEnds DEF Quiet, IsAsked, Asking
<1>b. {"config", "start", "tranStop", "tranStopped"} \subseteq QuietMessages
  BY DEF QuietMessages, HandshakeMessages
<1>c. \A m \in QuietMessages : m \notin Responses \cup {"chanRequest", "chanClose", "chanClosed"}
  BY DEF QuietMessages, HandshakeMessages, Responses
<1>d. ASSUME NEW ms \in Seq(QuietMessages), SendAll(e, ms)
      PROVE  wire'[e] \in Seq(QuietMessages) /\ wire'[p] \in Seq(QuietMessages)
  BY <1>a, <1>d DEF SendAll, TypeOK
<1>e. <<>> \in Seq(QuietMessages) /\ \A m \in QuietMessages : <<m>> \in Seq(QuietMessages)
  OBVIOUS
<1>f. ASSUME Takes(e, Messages)
      PROVE  inbox'[e] \in Seq(QuietMessages) /\ Head(inbox[e]) \notin Responses \cup {"chanRequest", "chanClose", "chanClosed"}
  BY <1>a, <1>c, <1>f DEF Takes, TypeOK
<1>g. ASSUME UNCHANGED wire PROVE wire'[e] \in Seq(QuietMessages) /\ wire'[p] \in Seq(QuietMessages)
  BY <1>a, <1>g
<1>h. ASSUME Taken(e), wire[e] # <<>>
      PROVE  wire'[e] \in Seq(QuietMessages) /\ wire'[p] \in Seq(QuietMessages) /\ Head(wire[e]) \in QuietMessages
  BY <1>a, <1>h DEF Taken, TypeOK
<1>1. CASE Start(e)
  BY <1>1, <1>a, <1>b, <1>d, <1>e DEF Start, Send, SendAll, channelVars, IsAsked, Asking
<1>2. CASE ReceiveConfig(e)
  <2>1. /\ wire'[e] = Tail(wire[e]) /\ wire[e] # <<>>
        /\ wire'[p] = wire[p] \/ wire'[p] = Append(wire[p], "start")
    BY <1>2, <1>a DEF ReceiveConfig, Arrived, TypeOK
  <2>2. Append(wire[p], "start") \in Seq(QuietMessages) /\ Tail(wire[e]) \in Seq(QuietMessages)
    <3>1. "start" \in QuietMessages
      BY <1>b
    <3> QED
      BY <1>a, <2>1, <3>1
  <2>3. UNCHANGED <<channelVars, handling, inbox>>
    BY <1>2 DEF ReceiveConfig
  <2> QED
    BY <1>a, <2>1, <2>2, <2>3 DEF channelVars, IsAsked, Asking
<1>3. CASE ReceiveStart(e)
  BY <1>3, <1>a, <1>h DEF ReceiveStart, Arrived, channelVars, IsAsked, Asking, Taken
<1>4. CASE RequestChannel(e) \/ SendChanClosed(e)
  BY <1>4, <1>a DEF RequestChannel, SendChanClosed
<1>5. CASE \E k \in DOMAIN calls[e] : CallStep(e, k)
  <2>1. PICK k \in DOMAIN calls[e] : CallStep(e, k)
    BY <1>5
  <2>2. tcc[e] \in {"none", "open", "closed"} /\ (calls[e][k].pc \in ClosingPCs => tcc[e] # "none")
    BY DEF TypeOK, Handshake, Starts, IsAt
  <2>3. UNCHANGED <<inbox, handling>>
    BY <2>1 DEF CallStep, BeforeStoppingDone, CloseChannels, ChannelsClosed, Timeout, TranStoppedSent, Finalized
  <2>4. channel'[e] = "none" /\ pending'[e] = "none"
    BY <1>a, <2>1 DEF CallStep, BeforeStoppingDone, CloseChannels, ChannelsClosed, Timeout, TranStoppedSent, Finalized,
                      RejectRequests, StartClosing, channelVars, TypeOK
  <2>5. UNCHANGED wire \/ \E ms \in Seq(QuietMessages) : SendAll(e, ms)
    <3>1. CASE CloseChannels(e, k)
      BY <1>a, <1>e, <3>1 DEF CloseChannels
    <3>2. CASE BeforeStoppingDone(e, k) \/ ChannelsClosed(e, k)
      BY <1>b, <1>e, <2>2, <3>2 DEF BeforeStoppingDone, ChannelsClosed, Send, At, ClosingPCs
    <3>3. CASE Timeout(e, k) \/ TranStoppedSent(e, k) \/ Finalized(e, k)
      BY <3>3 DEF Timeout, TranStoppedSent, Finalized
    <3> QED
      BY <2>1, <3>1, <3>2, <3>3 DEF CallStep
  <2> QED
    BY <1>a, <1>d, <1>g, <2>3, <2>4, <2>5 DEF IsAsked, Asking, SendAll
<1>6. CASE Receive(e)
  <2>1. wire'[e] \in Seq(QuietMessages) /\ wire'[p] \in Seq(QuietMessages) /\ Head(wire[e]) \in QuietMessages
    BY <1>6, <1>h DEF Receive, Taken
  <2>2. inbox'[e] \in Seq(QuietMessages)
    BY <1>6, <1>a, <2>1 DEF Receive, TypeOK
  <2> QED
    BY <1>6, <1>a, <2>1, <2>2 DEF Receive, channelVars, IsAsked, Asking
<1>7. CASE TakeStep(e)
  <2>1. ~FinalizeHandled(e) => Takes(e, Messages)
    BY <1>7 DEF TakeStep, OnChannelRequest, OnChannelResponse, OnChannelClose, OnChannelClosed, OnTransportStop,
        OnTransportStopped, Takes, Messages
  <2>2. CASE FinalizeHandled(e)
    BY <1>a, <1>g, <2>2 DEF FinalizeHandled, HandlersDone, channelVars, IsAsked, Asking, TypeOK
  <2>3. CASE OnTransportStop(e)
    <3>1. inbox'[e] \in Seq(QuietMessages) /\ UNCHANGED <<channelVars, handling, wire>>
      BY <1>f, <2>1, <2>3 DEF OnTransportStop, FinalizeHandled, Takes, Messages
    <3> QED
      BY <1>a, <1>g, <3>1 DEF channelVars, IsAsked, Asking
  <2>4. CASE OnTransportStopped(e)
    <3>1. inbox'[e] \in Seq(QuietMessages) /\ UNCHANGED <<channelVars, wire>>
          /\ (handling' = handling \/ handling' = [handling EXCEPT ![e] = "finalize"])
      BY <1>f, <2>1, <2>4 DEF OnTransportStopped, FinalizeHandled, Takes, Messages
    <3> QED
      BY <1>a, <1>g, <3>1 DEF channelVars, IsAsked, Asking, TypeOK
  <2>5. CASE OnChannelRequest(e) \/ OnChannelResponse(e) \/ OnChannelClose(e) \/ OnChannelClosed(e)
    <3>1. Takes(e, Messages) /\ Head(inbox[e]) \in Responses \cup {"chanRequest", "chanClose", "chanClosed"}
      BY <2>5 DEF OnChannelRequest, OnChannelResponse, OnChannelClose, OnChannelClosed, Takes, Messages
    <3> QED
      BY <1>f, <3>1 DEF Takes
  <2> QED
    BY <1>7, <2>2, <2>3, <2>4, <2>5 DEF TakeStep
<1>8. CASE HandlerStep(e)
  BY <1>8, <1>a DEF HandlerStep, Accept, Reject, HandlerStops
<1>9. CASE NoticeLoss(e) \/ Abort(e) \/ EndOfInput(e)
  <2>1. OnDisconnect(e)
    BY <1>9 DEF NoticeLoss, Abort, EndOfInput
  <2>2. wire'[e] = <<>> /\ wire'[p] = wire[p] /\ pending'[e] = "none" /\ channel'[e] = "none" /\ UNCHANGED <<inbox, handling>>
    BY <1>a, <2>1 DEF OnDisconnect, DisconnectChannel, Closing, TypeOK
  <2> QED
    BY <1>a, <2>2 DEF IsAsked, Asking
<1>10. CASE \/ TextHandled(e) \/ ReceiveText(e) \/ InputWhileDraining(e) \/ (\E timeout \in BOOLEAN : Stop(e, timeout))
            \/ TccClosed(e) \/ Drained(e) \/ DrainFails(e) \/ Crash(e)
  <2>1. UNCHANGED <<channelVars, handling, inbox, wire>>
    BY <1>10 DEF TextHandled, ReceiveText, InputWhileDraining, Stop, TccClosed, Drained, DrainFails, Crash
  <2> QED
    BY <1>a, <1>g, <2>1 DEF channelVars, IsAsked, Asking
<1> QED
  BY <1>1, <1>2, <1>3, <1>4, <1>5, <1>6, <1>7, <1>8, <1>9, <1>10 DEF Step, StartStep

LEMMA QuietInit == Init => Quiet
BY DEF Init, Quiet, IsAsked, Asking

LEMMA QuietStep == Base /\ Quiet /\ [Next]_vars => Quiet'
<1> SUFFICES ASSUME TypeOK, Handshake, Quiet, [Next]_vars PROVE Quiet'
  BY DEF Base
<1>1. CASE UNCHANGED vars
  BY <1>1 DEF vars, channelVars, Quiet, IsAsked, Asking
<1>2. CASE Lose
  BY <1>2 DEF Lose, channelVars, Quiet, IsAsked, Asking
<1>3. ASSUME NEW e \in Ends, Step(e) PROVE Quiet'
  <2> DEFINE p == Peer(e)
  <2>1. p \in Ends /\ p # e /\ \A f \in Ends : f = e \/ f = p
    BY TwoEnds
  <2>2. SameEnd(p) /\ trouble' = trouble
    BY <1>3, <2>1, OtherEnd
  <2>3. CASE trouble \notin WithoutChannel
    BY <2>2, <2>3 DEF Quiet
  <2>4. CASE trouble \in WithoutChannel
    <3>1. /\ channel'[e] = "none" /\ pending'[e] = "none" /\ ~IsAsked(e)'
          /\ inbox'[e] \in Seq(QuietMessages) /\ wire'[e] \in Seq(QuietMessages) /\ wire'[p] \in Seq(QuietMessages)
      BY <1>3, <2>1, <2>4, QuietHere
    <3>2. channel'[p] = "none" /\ pending'[p] = "none" /\ ~IsAsked(p)' /\ inbox'[p] \in Seq(QuietMessages)
      BY <2>1, <2>2, <2>4 DEF Quiet, SameEnd, IsAsked, Asking
    <3> QED
      BY <2>1, <3>1, <3>2 DEF Quiet
  <2> QED
    BY <2>3, <2>4
<1> QED
  BY <1>1, <1>2, <1>3, Steps DEF vars

----------------------------------------------------------------------------
(* What is on its way: one message more, one less, or no more than what    *)
(* has been received.                                                      *)

Adds(q, m, r) ==
    /\ \A x : Has(r, x) <=> Has(q, x) \/ x = m
    /\ \A x, y : x # y => (Ordered(r, x, y) <=> Ordered(q, x, y) /\ ~(m = x /\ Has(q, y)))
    /\ OneRequest(r) <=> OneRequest(q) /\ ~(m = "chanRequest" /\ Has(q, "chanRequest"))
    /\ OneResponse(r) <=> OneResponse(q) /\ ~(m \in Responses /\ HasResponse(q))
Drops(q, m, r) ==
    /\ \A x : Has(q, x) <=> Has(r, x) \/ x = m
    /\ \A x, y : x # y => (Ordered(q, x, y) <=> Ordered(r, x, y) /\ ~(m = y /\ Has(r, x)))
    /\ OneRequest(q) <=> OneRequest(r) /\ ~(m = "chanRequest" /\ Has(r, "chanRequest"))
    /\ OneResponse(q) <=> OneResponse(r) /\ ~(m \in Responses /\ HasResponse(r))
Cuts(q, r) ==
    /\ \A x : Has(r, x) => Has(q, x)
    /\ \A x, y : Ordered(q, x, y) => Ordered(r, x, y)
    /\ (OneRequest(q) => OneRequest(r)) /\ (OneResponse(q) => OneResponse(r))

LEMMA Added ==
    ASSUME NEW T, NEW q \in Seq(T), NEW r \in Seq(T), NEW m, Len(r) = Len(q) + 1, r[Len(q) + 1] = m,
           \A i \in 1 .. Len(q) : r[i] = q[i]
    PROVE  Adds(q, m, r)
<1> DEFINE n == Len(q)
<1>1. n \in Nat /\ DOMAIN q = 1 .. n /\ DOMAIN r = 1 .. n + 1
  OBVIOUS
<1>2. /\ \A i \in DOMAIN q : i \in DOMAIN r /\ r[i] = q[i] /\ i < n + 1 /\ i # n + 1 /\ ~(n + 1 < i)
      /\ \A i \in DOMAIN r : i \in DOMAIN q \/ i = n + 1
      /\ n + 1 \in DOMAIN r /\ r[n + 1] = m /\ ~(n + 1 < n + 1)
  BY <1>1
<1> HIDE DEF n
<1>3. \A x : Has(r, x) <=> Has(q, x) \/ x = m
  BY <1>2 DEF Has
<1>4. ASSUME NEW x, NEW y, x # y PROVE Ordered(r, x, y) <=> Ordered(q, x, y) /\ ~(m = x /\ Has(q, y))
  BY <1>2, <1>4 DEF Ordered, Has
<1>5. ASSUME NEW S PROVE Once(r, S) <=> Once(q, S) /\ ~(m \in S /\ \E x \in S : Has(q, x))
  BY <1>2 DEF Once, Has
<1>6. OneRequest(r) <=> OneRequest(q) /\ ~(m = "chanRequest" /\ Has(q, "chanRequest"))
  BY <1>5 DEF OneRequest
<1>7. OneResponse(r) <=> OneResponse(q) /\ ~(m \in Responses /\ HasResponse(q))
  BY <1>5 DEF OneResponse, Responses, HasResponse
<1> QED
  BY <1>3, <1>4, <1>6, <1>7 DEF Adds

LEMMA Dropped ==
    ASSUME NEW T, NEW q \in Seq(T), NEW r \in Seq(T), NEW m, Len(q) = Len(r) + 1, q[1] = m,
           \A i \in 1 .. Len(r) : r[i] = q[i + 1]
    PROVE  Drops(q, m, r)
<1> DEFINE n == Len(r)
           up(i) == i + 1
<1>1. n \in Nat /\ DOMAIN r = 1 .. n /\ DOMAIN q = 1 .. n + 1
  OBVIOUS
<1>2. /\ \A i \in DOMAIN r : up(i) \in DOMAIN q /\ r[i] = q[up(i)] /\ 1 < up(i) /\ up(i) # 1 /\ ~(up(i) < 1)
      /\ \A i \in DOMAIN q : i = 1 \/ \E j \in DOMAIN r : i = up(j)
      /\ \A i, j \in DOMAIN r : (up(i) < up(j) <=> i < j) /\ (up(i) = up(j) <=> i = j)
      /\ 1 \in DOMAIN q /\ q[1] = m /\ ~(1 < 1)
  <2>1. \A i \in 1 .. n + 1 : i = 1 \/ (i - 1 \in 1 .. n /\ i = (i - 1) + 1)
    BY <1>1
  <2>2. \A i \in 1 .. n + 1 : i = 1 \/ \E j \in 1 .. n : i = j + 1
    BY <2>1
  <2> QED
    BY <1>1, <2>2
<1> HIDE DEF n, up
<1>3. \A x : Has(q, x) <=> Has(r, x) \/ x = m
  BY <1>2 DEF Has
<1>4. ASSUME NEW x, NEW y, x # y PROVE Ordered(q, x, y) <=> Ordered(r, x, y) /\ ~(m = y /\ Has(r, x))
  BY <1>2, <1>4 DEF Ordered, Has
<1>5. ASSUME NEW S PROVE Once(q, S) <=> Once(r, S) /\ ~(m \in S /\ \E x \in S : Has(r, x))
  <2>1. ASSUME Once(q, S) PROVE Once(r, S) /\ ~(m \in S /\ \E x \in S : Has(r, x))
    BY <1>2, <2>1 DEF Once, Has
  <2>2. ASSUME Once(r, S), ~(m \in S /\ \E x \in S : Has(r, x)), NEW i \in DOMAIN q, NEW j \in DOMAIN q, q[i] \in S, q[j] \in S
        PROVE  i = j
    <3>1. CASE i = 1 \/ j = 1
      BY <1>2, <2>2, <3>1 DEF Has
    <3>2. CASE i # 1 /\ j # 1
      BY <1>2, <2>2, <3>2 DEF Once
    <3> QED
      BY <3>1, <3>2
  <2> QED
    BY <2>1, <2>2 DEF Once
<1>6. OneRequest(q) <=> OneRequest(r) /\ ~(m = "chanRequest" /\ Has(r, "chanRequest"))
  BY <1>5 DEF OneRequest
<1>7. OneResponse(q) <=> OneResponse(r) /\ ~(m \in Responses /\ HasResponse(r))
  BY <1>5 DEF OneResponse, Responses, HasResponse
<1> QED
  BY <1>3, <1>4, <1>6, <1>7 DEF Drops

LEMMA Cut ==
    ASSUME NEW q, NEW r, DOMAIN r \subseteq DOMAIN q, \A i \in DOMAIN r : r[i] = q[i]
    PROVE  Cuts(q, r)
BY DEF Cuts, Has, Ordered, OneRequest, OneResponse, Once

(* What an end does to the two queues. *)
LEMMA QueueTypes ==
    ASSUME TypeOK, NEW e \in Ends
    PROVE  /\ inbox[e] \in Seq(HandshakeMessages \cup Messages) /\ wire[e] \in Seq(HandshakeMessages \cup Messages)
           /\ Queue(e) \in Seq(HandshakeMessages \cup Messages)
BY DEF TypeOK, Queue

LEMMA QueueSent ==
    ASSUME TypeOK, NEW e \in Ends, NEW p \in Ends, p = Peer(e), NEW m \in HandshakeMessages \cup Messages,
           inbox'[p] = inbox[p], wire'[p] = Append(wire[p], m)
    PROVE  Adds(Queue(p), m, inbox'[p] \o wire'[p])
<1> DEFINE a == inbox[p]
           b == wire[p]
           T == HandshakeMessages \cup Messages
<1>1. a \in Seq(T) /\ b \in Seq(T) /\ Queue(p) = a \o b /\ Append(b, m) \in Seq(T)
  BY QueueTypes DEF Queue
<1> HIDE DEF a, b, T
<1>2. /\ a \o b \in Seq(T) /\ a \o Append(b, m) \in Seq(T) /\ Len(a \o Append(b, m)) = Len(a \o b) + 1
      /\ Len(a \o b) = Len(a) + Len(b) /\ Len(a) \in Nat /\ Len(b) \in Nat
  BY <1>1
<1>3. \A i \in 1 .. Len(a) + Len(b) : (a \o Append(b, m))[i] = (a \o b)[i]
  BY <1>1
<1>4. (a \o Append(b, m))[Len(a) + Len(b) + 1] = m
  BY <1>1
<1>5. Adds(a \o b, m, a \o Append(b, m))
  BY <1>2, <1>3, <1>4, Added
<1> QED
  BY <1>1, <1>5 DEF a, b

LEMMA QueueTaken ==
    ASSUME TypeOK, NEW e \in Ends, inbox[e] # <<>>, inbox'[e] = Tail(inbox[e]), wire'[e] = wire[e]
    PROVE  Drops(Queue(e), Head(inbox[e]), inbox'[e] \o wire'[e])
<1> DEFINE a == inbox[e]
           b == wire[e]
           T == HandshakeMessages \cup Messages
<1>1. a \in Seq(T) /\ b \in Seq(T) /\ Queue(e) = a \o b /\ a # <<>>
  BY QueueTypes DEF Queue
<1> HIDE DEF a, b, T
<1>2. Tail(a) \in Seq(T) /\ Len(Tail(a)) = Len(a) - 1 /\ Len(a) \in Nat \ {0} /\ Len(b) \in Nat /\ Head(a) = a[1]
  BY <1>1
<1>3. /\ a \o b \in Seq(T) /\ Tail(a) \o b \in Seq(T) /\ Len(a \o b) = Len(Tail(a) \o b) + 1
      /\ Len(Tail(a) \o b) = Len(a) - 1 + Len(b)
  BY <1>1, <1>2
<1>4. \A i \in 1 .. Len(a) - 1 + Len(b) : (Tail(a) \o b)[i] = (a \o b)[i + 1]
  BY <1>1, <1>2
<1>5. (a \o b)[1] = Head(a)
  BY <1>1, <1>2
<1>6. Drops(a \o b, Head(a), Tail(a) \o b)
  BY <1>3, <1>4, <1>5, Dropped
<1> QED
  BY <1>1, <1>6 DEF a, b

(* The handshake takes from the wire while there is no inbox. *)
LEMMA QueueStarts ==
    ASSUME TypeOK, NEW e \in Ends, inbox[e] = <<>>, inbox' = inbox, wire[e] # <<>>, wire'[e] = Tail(wire[e])
    PROVE  Drops(Queue(e), Head(wire[e]), inbox'[e] \o wire'[e])
<1> DEFINE b == wire[e]
           T == HandshakeMessages \cup Messages
<1>1. b \in Seq(T) /\ b # <<>> /\ Queue(e) = <<>> \o b /\ inbox'[e] \o wire'[e] = <<>> \o Tail(b)
  BY QueueTypes DEF Queue
<1> HIDE DEF b, T
<1>2. <<>> \o b = b /\ <<>> \o Tail(b) = Tail(b)
  BY <1>1
<1>3. /\ Tail(b) \in Seq(T) /\ Len(b) = Len(Tail(b)) + 1 /\ Head(b) = b[1]
      /\ \A i \in 1 .. Len(Tail(b)) : Tail(b)[i] = b[i + 1]
  BY <1>1
<1>4. Drops(b, Head(b), Tail(b))
  BY <1>1, <1>3, Dropped
<1> QED
  BY <1>1, <1>2, <1>4 DEF b

(* Receive() takes from the wire what the inbox gets. *)
LEMMA QueueReceived ==
    ASSUME TypeOK, NEW e \in Ends, wire[e] # <<>>, wire'[e] = Tail(wire[e]), inbox'[e] = Append(inbox[e], Head(wire[e]))
    PROVE  inbox'[e] \o wire'[e] = Queue(e)
<1> DEFINE a == inbox[e]
           b == wire[e]
           T == HandshakeMessages \cup Messages
<1>1. a \in Seq(T) /\ b \in Seq(T) /\ Queue(e) = a \o b /\ b # <<>>
  BY QueueTypes DEF Queue
<1> HIDE DEF a, b, T
<1>2. /\ Tail(b) \in Seq(T) /\ Len(Tail(b)) = Len(b) - 1 /\ Len(b) \in Nat \ {0} /\ Len(a) \in Nat /\ Head(b) = b[1]
      /\ Head(b) \in T /\ Append(a, Head(b)) \in Seq(T) /\ Len(Append(a, Head(b))) = Len(a) + 1
  BY <1>1
<1>3. a \o b \in Seq(T) /\ Append(a, Head(b)) \o Tail(b) \in Seq(T) /\ Len(a \o b) = Len(Append(a, Head(b)) \o Tail(b))
  BY <1>1, <1>2
<1>4. \A i \in 1 .. Len(a \o b) : (a \o b)[i] = (Append(a, Head(b)) \o Tail(b))[i]
  BY <1>1, <1>2
<1>5. a \o b = Append(a, Head(b)) \o Tail(b)
  BY <1>3, <1>4
<1> QED
  BY <1>1, <1>5 DEF a, b

(* onDisconnect: nothing more is received. *)
LEMMA QueueCut ==
    ASSUME TypeOK, NEW e \in Ends, inbox' = inbox, wire'[e] = <<>>
    PROVE  Cuts(Queue(e), inbox'[e] \o wire'[e])
<1> DEFINE a == inbox[e]
           b == wire[e]
           T == HandshakeMessages \cup Messages
<1>1. a \in Seq(T) /\ b \in Seq(T) /\ Queue(e) = a \o b /\ inbox'[e] \o wire'[e] = a \o <<>>
  BY QueueTypes DEF Queue
<1> HIDE DEF a, b, T
<1>2. a \o <<>> = a
  BY <1>1
<1>3. DOMAIN a = 1 .. Len(a) /\ DOMAIN (a \o b) = 1 .. Len(a) + Len(b) /\ Len(a) \in Nat /\ Len(b) \in Nat
  BY <1>1
<1>4. DOMAIN a \subseteq DOMAIN (a \o b)
  BY <1>3
<1>5. \A i \in 1 .. Len(a) : a[i] = (a \o b)[i]
  BY <1>1
<1>6. Cuts(a \o b, a)
  BY <1>3, <1>4, <1>5, Cut
<1> QED
  BY <1>1, <1>2, <1>6 DEF a

LEMMA SendEffect ==
    ASSUME TypeOK, NEW e \in Ends, NEW p \in Ends, p = Peer(e), NEW m \in HandshakeMessages \cup Messages,
           inbox'[p] = inbox[p], Send(e, m)
    PROVE  /\ lost => inbox'[p] \o wire'[p] = Queue(p)
           /\ ~lost => Adds(Queue(p), m, inbox'[p] \o wire'[p])
           /\ wire'[e] = wire[e]
<1>1. p # e /\ wire \in [Ends -> Seq(HandshakeMessages \cup Messages)] /\ wire[p] \in Seq(HandshakeMessages \cup Messages)
  BY TwoEnds DEF TypeOK
<1>2. wire[p] \o <<m>> = Append(wire[p], m)
  BY <1>1
<1>3. wire'[e] = wire[e]
  BY <1>1 DEF Send, SendAll
<1>4. lost => wire'[p] = wire[p]
  BY DEF Send, SendAll
<1>5. ~lost => wire'[p] = Append(wire[p], m)
  BY <1>1, <1>2 DEF Send, SendAll
<1>6. lost => inbox'[p] \o wire'[p] = Queue(p)
  BY <1>4 DEF Queue
<1>7. ~lost => Adds(Queue(p), m, inbox'[p] \o wire'[p])
  BY <1>5, QueueSent
<1> QED
  BY <1>3, <1>6, <1>7

LEMMA TakeEffect ==
    ASSUME TypeOK, NEW e \in Ends, NEW S, Takes(e, S), wire'[e] = wire[e]
    PROVE  Drops(Queue(e), Head(inbox[e]), inbox'[e] \o wire'[e]) /\ Head(inbox[e]) \in S /\ ~IsAsked(e)
<1>1. inbox[e] # <<>> /\ Head(inbox[e]) \in S /\ inbox'[e] = Tail(inbox[e]) /\ ~IsAsked(e)
  BY DEF Takes, TypeOK, IsAsked, Asking
<1> QED
  BY <1>1, QueueTaken

----------------------------------------------------------------------------
(* The channel *)

States == {"none", "open", "closed", "disconnected"} \cup Closing
Says(gone, q, m, s) == IF gone THEN s = q ELSE Adds(q, m, s)

LEMMA NeutralKeeps ==
    ASSUME NEW gone \in BOOLEAN, NEW c \in States, NEW d \in States, NEW q, NEW r,
           NEW v, NEW w, NEW a, NEW b, NEW x, NEW y,
           Pair(gone, c, d, q, r, v, w, a, b, x, y),
           NEW s, s = q \/ \E m \in QuietMessages : Adds(q, m, s),
           NEW t, t = r \/ \E m \in QuietMessages : Drops(r, m, t), NEW v1, v = "disconnected" => v1 = "disconnected",
           NEW a1, a1 = "none" <=> a = "none", NEW x1, x1 \in Asking <=> x \in Asking
    PROVE  Pair(gone, c, d, s, t, v1, w, a1, b, x1, y)
<1>1. \A m \in QuietMessages : m \notin Responses \cup {"chanRequest", "chanAccepted", "chanRejected", "chanClose", "chanClosed"}
  BY DEF QuietMessages, HandshakeMessages, Responses
<1>2. /\ \A m \in {"chanRequest", "chanAccepted", "chanRejected", "chanClose", "chanClosed"} : Has(s, m) <=> Has(q, m)
      /\ Ordered(q, "chanRequest", "chanAccepted") => Ordered(s, "chanRequest", "chanAccepted")
      /\ Ordered(q, "chanAccepted", "chanClose") => Ordered(s, "chanAccepted", "chanClose")
      /\ Ordered(q, "chanAccepted", "chanClosed") => Ordered(s, "chanAccepted", "chanClosed")
      /\ Ordered(q, "chanClose", "chanClosed") => Ordered(s, "chanClose", "chanClosed")
      /\ OneRequest(s) <=> OneRequest(q)
      /\ OneResponse(s) <=> OneResponse(q)
  BY <1>1 DEF Adds
<1>3. /\ \A m \in {"chanRequest", "chanAccepted", "chanRejected", "chanClose", "chanClosed"} : Has(t, m) <=> Has(r, m)
      /\ Ordered(r, "chanRequest", "chanAccepted") => Ordered(t, "chanRequest", "chanAccepted")
      /\ Ordered(r, "chanAccepted", "chanClose") => Ordered(t, "chanAccepted", "chanClose")
      /\ Ordered(r, "chanAccepted", "chanClosed") => Ordered(t, "chanAccepted", "chanClosed")
      /\ Ordered(r, "chanClose", "chanClosed") => Ordered(t, "chanClose", "chanClosed")
      /\ OneRequest(r) => OneRequest(t)
      /\ OneResponse(r) => OneResponse(t)
  BY <1>1 DEF Drops
<1>4. Tells(c, d, s) /\ Tells(d, c, t)
  BY <1>2, <1>3 DEF Pair, Tells
<1>5. (~gone /\ w # "disconnected" => Delivers(c, d, s)) /\ (~gone /\ v1 # "disconnected" => Delivers(d, c, t))
  BY <1>2, <1>3 DEF Pair, Delivers
<1>6. Asks(v1, a1, y, d, s, t) /\ Asks(w, b, x1, c, t, s)
  BY <1>2, <1>3 DEF Pair, Asks, HasResponse
<1> QED
  BY <1>4, <1>5, <1>6 DEF Pair

(* What is not looked at changes. *)
LEMMA RestKeeps ==
    ASSUME NEW gone \in BOOLEAN, NEW c, NEW d, NEW q, NEW r, NEW v, NEW w, NEW a, NEW b, NEW x, NEW y,
           Pair(gone, c, d, q, r, v, w, a, b, x, y), NEW v1, v = "disconnected" => v1 = "disconnected",
           NEW a1, a1 = "none" <=> a = "none", NEW x1, x1 \in Asking <=> x \in Asking
    PROVE  Pair(gone, c, d, q, r, v1, w, a1, b, x1, y)
BY DEF Pair, Asks

LEMMA RequestKeeps ==
    ASSUME NEW gone \in BOOLEAN, NEW c, NEW d \in States, NEW q, NEW r, NEW v, NEW w,
           NEW a, NEW b, NEW x, NEW y,
           Pair(gone, c, d, q, r, v, w, a, b, x, y), c = "none", v # "disconnected", a = "none", NEW s, Says(gone, q, "chanRequest", s),
           NEW a1, a1 # "none"
    PROVE  Pair(gone, c, d, s, r, v, w, a1, b, x, y)
<1>1. CASE gone
  BY <1>1 DEF Says, Pair, Asks
<1>2. CASE ~gone
  <2>1. Adds(q, "chanRequest", s) /\ "chanRequest" \notin Responses
    BY <1>2 DEF Says, Responses
  <2>2. Tells(c, d, s)
    BY <2>1 DEF Pair, Tells, Adds
  <2>3. w # "disconnected" => Delivers(c, d, s)
    BY <1>2, <2>1 DEF Pair, Delivers, Up, Closing
  <2>4. Asks(v, a1, y, d, s, r)
    BY <1>2, <2>1 DEF Pair, Asks, Adds, HasResponse, Delivers, States, Up
  <2>5. Asks(w, b, x, c, r, s)
    BY <2>1 DEF Pair, Asks, Adds, HasResponse
  <2> QED
    BY <1>2, <2>2, <2>3, <2>4, <2>5 DEF Pair
<1> QED
  BY <1>1, <1>2

(* An open channel starts closing, and tells. *)
LEMMA CloseKeeps ==
    ASSUME NEW gone \in BOOLEAN, NEW d \in States, NEW q, NEW r, NEW v, NEW w,
           NEW a, NEW b, NEW x, NEW y,
           NEW c, c = "open", Pair(gone, c, d, q, r, v, w, a, b, x, y), NEW s, Says(gone, q, "chanClose", s)
    PROVE  Pair(gone, "closing", d, s, r, v, w, a, b, x, y)
<1>1. Tells("closing", d, s)
  BY DEF Says, Adds, Pair, Tells
<1>2. Tells(d, "closing", r)
  BY DEF Pair, Tells
<1>3. (~gone /\ w # "disconnected" => Delivers("closing", d, s)) /\ (~gone /\ v # "disconnected" => Delivers(d, "closing", r))
  BY DEF Says, Adds, Pair, Delivers, Up, Closing
<1>4. Asks(v, a, y, d, s, r)
  BY DEF Says, Adds, Pair, Asks, HasResponse, Responses
<1>5. Asks(w, b, x, "closing", r, s)
  BY DEF Says, Adds, Pair, Asks, HasResponse, Responses
<1> QED
  BY <1>1, <1>2, <1>3, <1>4, <1>5 DEF Pair

(* All is ACKed. *)
LEMMA ClosedKeeps ==
    ASSUME NEW gone \in BOOLEAN, NEW c \in {"closing", "localClosing"}, NEW d \in States, NEW q, NEW r,
           NEW v, NEW w, NEW a, NEW b, NEW x, NEW y,
           Pair(gone, c, d, q, r, v, w, a, b, x, y), NEW s, Says(gone, q, "chanClosed", s),
           NEW c1, c1 = IF c = "closing" THEN "remoteClosing" ELSE "closed"
    PROVE  Pair(gone, c1, d, s, r, v, w, a, b, x, y)
<1>1. Tells(c1, d, s)
  BY DEF Says, Adds, Pair, Tells
<1>2. Tells(d, c1, r)
  BY DEF Pair, Tells
<1>3. (~gone /\ w # "disconnected" => Delivers(c1, d, s)) /\ (~gone /\ v # "disconnected" => Delivers(d, c1, r))
  BY DEF Says, Adds, Pair, Delivers, Up, Closing
<1>4. Asks(v, a, y, d, s, r)
  BY DEF Says, Adds, Pair, Asks, HasResponse, Responses
<1>5. Asks(w, b, x, c1, r, s)
  BY DEF Says, Adds, Pair, Asks, HasResponse, Responses
<1> QED
  BY <1>1, <1>2, <1>3, <1>4, <1>5 DEF Pair

(* The handlers are asked: nobody has the channel. *)
LEMMA AskedKeeps ==
    ASSUME NEW gone \in BOOLEAN, NEW c \in States, NEW d \in States, NEW q, NEW r,
           NEW v, NEW w, NEW a, NEW b, NEW x, NEW y,
           Pair(gone, c, d, q, r, v, w, a, b, x, y), NEW t, Drops(r, "chanRequest", t), NEW x1, x1 \in Asking
    PROVE  Pair(gone, c, d, q, t, v, w, a, b, x1, y)
<1>0. "chanRequest" \notin Responses
  BY DEF Responses
<1>1. Tells(d, c, t)
  BY DEF Drops, Pair, Tells
<1>2. ~gone /\ v # "disconnected" => Delivers(d, c, t)
  BY DEF Drops, Pair, Delivers
<1>3. Asks(v, a, y, d, q, t)
  BY <1>0 DEF Drops, Pair, Asks, HasResponse
<1>4. Asks(w, b, x1, c, t, q)
  BY <1>0 DEF Drops, Pair, Asks, HasResponse
<1> QED
  BY <1>1, <1>2, <1>3, <1>4 DEF Pair

(* They have accepted or not: there is an answer, to nobody perhaps. *)
LEMMA AcceptKeeps ==
    ASSUME NEW gone \in BOOLEAN, NEW d \in States, NEW q, NEW r,
           NEW v, NEW w, NEW a, NEW b, NEW x, NEW y,
           NEW c, c = "none", x \in Asking, Pair(gone, c, d, q, r, v, w, a, b, x, y), NEW s, Says(gone, q, "chanAccepted", s),
           NEW x1, x1 \notin Asking
    PROVE  Pair(gone, "open", d, s, r, v, w, a, b, x1, y)
<1>0. "chanAccepted" \in Responses
  BY DEF Responses
<1>1. Tells("open", d, s)
  BY DEF Says, Adds, Pair, Tells
<1>2. Tells(d, "open", r)
  BY DEF Pair, Tells
<1>3. (~gone /\ w # "disconnected" => Delivers("open", d, s)) /\ (~gone /\ v # "disconnected" => Delivers(d, "open", r))
  BY DEF Says, Adds, Pair, Delivers, Up, Closing
<1>4. Asks(v, a, y, d, s, r)
  BY DEF Says, Adds, Pair, Asks, HasResponse
<1>5. Asks(w, b, x1, "open", r, s)
  BY <1>0 DEF Says, Adds, Pair, Asks, HasResponse
<1> QED
  BY <1>1, <1>2, <1>3, <1>4, <1>5 DEF Pair

LEMMA RejectKeeps ==
    ASSUME NEW gone \in BOOLEAN, NEW c \in States, NEW d \in States, NEW q, NEW r,
           NEW v, NEW w, NEW a, NEW b, NEW x, NEW y,
           Pair(gone, c, d, q, r, v, w, a, b, x, y), x \in Asking, NEW s, s = q \/ Says(gone, q, "chanRejected", s),
           NEW x1, x1 \notin Asking
    PROVE  Pair(gone, c, d, s, r, v, w, a, b, x1, y)
<1>0. "chanRejected" \in Responses
  BY DEF Responses
<1>1. Tells(c, d, s)
  BY DEF Says, Adds, Pair, Tells
<1>2. ~gone /\ w # "disconnected" => Delivers(c, d, s)
  BY DEF Says, Adds, Pair, Delivers
<1>3. Asks(v, a, y, d, s, r)
  BY DEF Says, Adds, Pair, Asks, HasResponse
<1>4. Asks(w, b, x1, c, r, s)
  BY <1>0 DEF Says, Adds, Pair, Asks, HasResponse
<1> QED
  BY <1>1, <1>2, <1>3, <1>4 DEF Pair

LEMMA ResponseKeeps ==
    ASSUME NEW gone \in BOOLEAN, NEW c \in States, NEW d \in States, NEW q, NEW r,
           NEW v, NEW w, NEW a, NEW b, NEW x, NEW y,
           Pair(gone, c, d, q, r, v, w, a, b, x, y), x \notin Asking, v = "disconnected" => a = "none", NEW m \in Responses, NEW t, Drops(r, m, t),
           NEW c1, c1 = IF m = "chanAccepted" /\ a # "none" /\ c \in {"none", "closed"} THEN "open" ELSE c,
           NEW a1, a1 = "none"
    PROVE  /\ Pair(gone, c1, d, q, t, v, w, a1, b, x, y)
           /\ c1 # c => c = "none" /\ d \in {"open", "closing", "remoteClosing", "disconnected"}
<1>0. m \in {"chanAccepted", "chanRejected"}
  BY DEF Responses
<1>1. c1 # c => m = "chanAccepted" /\ a # "none" /\ c = "none" /\ c1 = "open" /\ d \in {"open", "closing", "remoteClosing", "disconnected"}
  BY DEF Drops, Pair, Tells
<1>2. m = "chanAccepted" /\ c1 = c => c \notin {"none", "closed"} \/ v = "disconnected"
  BY DEF Drops, Pair, Asks, HasResponse
<1>3. Tells(c1, d, q)
  BY <1>1 DEF Pair, Tells
<1>4. Tells(d, c1, t)
  BY <1>0, <1>1 DEF Drops, Pair, Tells
<1>5. ~gone /\ w # "disconnected" => Delivers(c1, d, q)
  BY <1>1 DEF Pair, Delivers, Up, Closing
<1>6. ~gone /\ v # "disconnected" => Delivers(d, c1, t)
  BY <1>0, <1>1, <1>2 DEF Drops, Pair, Delivers, Up, Closing
<1>7. Asks(v, a1, y, d, q, t)
  BY <1>0 DEF Drops, Pair, Asks, HasResponse
<1>8. Asks(w, b, x, c1, t, q)
  <2>1. c1 # c => ~Has(t, "chanRequest")
    BY <1>1 DEF Drops, Pair, Tells
  <2> QED
    BY <1>0, <2>1 DEF Drops, Pair, Asks, HasResponse
<1> QED
  BY <1>1, <1>3, <1>4, <1>5, <1>6, <1>7, <1>8 DEF Pair

(* The other end closes the channel ... *)
LEMMA OnCloseKeeps ==
    ASSUME NEW gone \in BOOLEAN, NEW c \in States, NEW d \in States, NEW q, NEW r,
           NEW v, NEW w, NEW a, NEW b, NEW x, NEW y,
           Pair(gone, c, d, q, r, v, w, a, b, x, y), NEW t, Drops(r, "chanClose", t),
           NEW s, (c = "open" /\ Says(gone, q, "chanClose", s)) \/ (c # "open" /\ s = q),
           NEW c1, c1 = IF c = "open" THEN "closing" ELSE c
    PROVE  Pair(gone, c1, d, s, t, v, w, a, b, x, y)
<1>0. "chanClose" \notin Responses
  BY DEF Responses
<1>1. Tells(c1, d, s)
  BY DEF Says, Adds, Pair, Tells
<1>2. Tells(d, c1, t)
  BY DEF Drops, Pair, Tells
<1>3. ~gone /\ w # "disconnected" => Delivers(c1, d, s)
  BY DEF Says, Adds, Pair, Delivers, Up, Closing
<1>4. ~gone /\ v # "disconnected" => Delivers(d, c1, t)
  <2>1. ~gone /\ v # "disconnected" /\ d \in Closing \cup {"closed"} => c # "none"
    BY DEF Drops, Pair, Delivers, Tells, Up
  <2> QED
    BY <2>1 DEF Drops, Pair, Delivers, Up, Closing
<1>5. Asks(v, a, y, d, s, t)
  BY <1>0 DEF Says, Adds, Drops, Pair, Asks, HasResponse
<1>6. Asks(w, b, x, c1, t, s)
  BY <1>0 DEF Says, Adds, Drops, Pair, Asks, HasResponse
<1> QED
  BY <1>1, <1>2, <1>3, <1>4, <1>5, <1>6 DEF Pair

(* ... and has nothing left to send. *)
LEMMA OnClosedKeeps ==
    ASSUME NEW gone \in BOOLEAN, NEW c \in States, NEW d \in States, NEW q, NEW r,
           NEW v, NEW w, NEW a, NEW b, NEW x, NEW y,
           Pair(gone, c, d, q, r, v, w, a, b, x, y), NEW t, Drops(r, "chanClosed", t),
           NEW c1, \/ c = "closing" /\ c1 = "localClosing"
                   \/ c = "remoteClosing" /\ c1 = "closed"
                   \/ c \notin {"closing", "remoteClosing"} /\ c1 = c
    PROVE  Pair(gone, c1, d, q, t, v, w, a, b, x, y)
<1>0. "chanClosed" \notin Responses /\ d \in {"remoteClosing", "closed", "disconnected"}
  BY DEF Responses, Drops, Pair, Tells
<1>1. Tells(c1, d, q)
  BY <1>0 DEF Pair, Tells
<1>2. Tells(d, c1, t)
  BY <1>0 DEF Drops, Pair, Tells
<1>3. ~gone /\ w # "disconnected" => Delivers(c1, d, q)
  BY <1>0 DEF Pair, Delivers, Up, Closing
<1>4. ~gone /\ v # "disconnected" => Delivers(d, c1, t)
  <2>1. ~gone /\ v # "disconnected" /\ d # "disconnected" => c \notin {"none", "open"}
    BY <1>0 DEF Drops, Pair, Delivers, Tells, Up, Closing
  <2> QED
    BY <1>0, <2>1 DEF Drops, Pair, Delivers, Up, Closing, States
<1>5. Asks(v, a, y, d, q, t)
  BY <1>0 DEF Drops, Pair, Asks, HasResponse
<1>6. Asks(w, b, x, c1, t, q)
  BY <1>0 DEF Drops, Pair, Asks, HasResponse
<1> QED
  BY <1>1, <1>2, <1>3, <1>4, <1>5, <1>6 DEF Pair

LEMMA DisconnectKeeps ==
    ASSUME NEW gone \in BOOLEAN, NEW c \in States, NEW d \in States, NEW q, NEW r,
           NEW v, NEW w, NEW a, NEW b, NEW x, NEW y,
           Pair(gone, c, d, q, r, v, w, a, b, x, y), NEW t, Cuts(r, t),
           NEW c1, c1 = IF c \in Up THEN "disconnected" ELSE c,
           NEW v1, v1 = "disconnected", NEW a1, a1 = "none"
    PROVE  Pair(gone, c1, d, q, t, v1, w, a1, b, x, y)
<1>1. Tells(c1, d, q)
  BY DEF Pair, Tells, Up, Closing
<1>2. Tells(d, c1, t)
  BY DEF Cuts, Pair, Tells, Up, Closing
<1>3. ~gone /\ w # "disconnected" => Delivers(c1, d, q)
  BY DEF Pair, Delivers, Up, Closing
<1>5. Asks(v1, a1, y, d, q, t)
  BY DEF Cuts, Pair, Asks, HasResponse
<1>6. Asks(w, b, x, c1, t, q)
  BY DEF Cuts, Pair, Asks, HasResponse, Up, Closing
<1> QED
  BY <1>1, <1>2, <1>3, <1>5, <1>6 DEF Pair

LEMMA ViewStep ==
    ASSUME TypeOK, Handshake, Lives, Regular, NEW e \in Ends, View(e), Step(e)
    PROVE  View(e)'
<1> DEFINE p == Peer(e)
           c == channel[e]
           d == channel[p]
           q == Queue(p)
           r == Queue(e)
           s == inbox'[p] \o wire'[p]
           t == inbox'[e] \o wire'[e]
           v == state[e]
           v1 == state'[e]
           w == state[p]
           a == pending[e]
           a1 == pending'[e]
           b == pending[p]
           x == handling[e]
           x1 == handling'[e]
           y == handling[p]
<1>a. p \in Ends /\ p # e /\ Peer(e) = p
  BY TwoEnds
<1>b. SameEnd(p) /\ lost' = lost /\ inbox'[p] = inbox[p]
  BY <1>a, OtherEnd DEF SameEnd
<1>c. Pair(lost, c, d, q, r, v, w, a, b, x, y)
  BY DEF View
<1>d. Life(e) /\ trouble \notin {"early", "text", "sending", "accept"} \cup WithoutChannel
  BY DEF Lives, Regular, WithoutChannel
<1>e. v = "disconnected" => v1 = "disconnected"
  BY <1>d, OverIsOver DEF Terminal
<1>g. c \in States /\ d \in States /\ lost \in BOOLEAN
  BY <1>a DEF TypeOK, States
<1> HIDE DEF p
<1> SUFFICES Pair(lost, channel'[e], d, s, t, v1, w, a1, b, x1, y)
  BY <1>a, <1>b DEF View, Queue, SameEnd, p
<1>h. /\ wire' = wire => s = q
      /\ UNCHANGED <<inbox, wire>> => t = r
      /\ SendAll(e, <<>>) => s = q /\ wire'[e] = wire[e]
  <2>1. (wire' = wire => s = q) /\ (UNCHANGED <<inbox, wire>> => t = r)
    BY <1>b DEF Queue
  <2>2. \A i \in Seq(HandshakeMessages \cup Messages) : i \o <<>> = i
    OBVIOUS
  <2>3. SendAll(e, <<>>) => wire'[p] = wire[p] /\ wire'[e] = wire[e]
    BY <1>a, <2>2 DEF SendAll, TypeOK
  <2> QED
    BY <1>b, <2>1, <2>3 DEF Queue
<1>i. ASSUME NEW m \in HandshakeMessages \cup Messages, Send(e, m)
      PROVE  Says(lost, q, m, s) /\ wire'[e] = wire[e] /\ (inbox' = inbox => t = r)
  BY <1>a, <1>b, <1>i, SendEffect DEF Says, Send, Queue, p
<1>j. ASSUME NEW S, Takes(e, S), wire'[e] = wire[e]
      PROVE  Drops(r, Head(inbox[e]), t) /\ Head(inbox[e]) \in S /\ x \notin Asking
  BY <1>j, TakeEffect DEF Takes, IsAsked
<1>k. {"chanRequest", "chanAccepted", "chanRejected", "chanClose", "chanClosed"} \subseteq HandshakeMessages \cup Messages
      /\ QuietMessages \subseteq HandshakeMessages \cup Messages
  BY DEF QuietMessages, HandshakeMessages, Messages, Responses
<1>n. ASSUME channel'[e] = c, a1 = "none" <=> a = "none", x1 \in Asking <=> x \in Asking,
             s = q \/ \E m \in QuietMessages : Says(lost, q, m, s), t = r \/ \E m \in QuietMessages : Drops(r, m, t)
      PROVE  Pair(lost, channel'[e], d, s, t, v1, w, a1, b, x1, y)
  <2>1. s = q \/ \E m \in QuietMessages : Adds(q, m, s)
    BY <1>n DEF Says
  <2> HIDE DEF s, t, c, d, q, r, v, v1, w, a, b, x, x1, y, a1
  <2>2. Pair(lost, c, d, s, t, v1, w, a1, b, x1, y)
    BY <1>c, <1>e, <1>g, <1>n, <2>1, NeutralKeeps
  <2> QED
    BY <1>n, <2>2
<1>o. UNCHANGED <<channel, pending, handling>> => channel'[e] = c /\ a1 = a /\ x1 = x
  OBVIOUS
<1>z. ASSUME Pair(lost, channel'[e], d, s, t, v, w, a1, b, x1, y)
      PROVE  Pair(lost, channel'[e], d, s, t, v1, w, a1, b, x1, y)
  <2> HIDE DEF s, t, c, d, q, r, v, v1, w, a, b, x, x1, y, a1
  <2> QED
    BY <1>e, <1>g, <1>z, RestKeeps
<1>m. inbox' = inbox => (wire'[e] = wire[e] => t = r)
  BY DEF Queue
<1> HIDE DEF s, t
<1>1. CASE Start(e)
  <2>1. UNCHANGED <<channel, pending, handling, inbox>> /\ Send(e, "config") /\ "config" \in QuietMessages
    BY <1>1 DEF Start, channelVars, QuietMessages, HandshakeMessages
  <2> QED
    BY <1>i, <1>k, <1>n, <1>o, <2>1 DEF Send, SendAll
<1>2. CASE ReceiveConfig(e) \/ ReceiveStart(e)
  <2>1. inbox[e] = <<>> /\ inbox' = inbox /\ wire[e] # <<>> /\ wire'[e] = Tail(wire[e]) /\ Head(wire[e]) \in {"config", "start"}
    <3>1. reader[e] \in NotYet
      BY <1>2 DEF ReceiveConfig, ReceiveStart, NotYet
    <3> QED
      BY <1>2, <1>a, <3>1 DEF ReceiveConfig, ReceiveStart, Arrived, Taken, TypeOK, Handshake, Starts
  <2>2. Drops(r, Head(wire[e]), t) /\ Head(wire[e]) \in QuietMessages
    BY <2>1, QueueStarts DEF QuietMessages, HandshakeMessages, t
  <2>3. s = q \/ \E m \in QuietMessages : Says(lost, q, m, s)
    <3>1. CASE wire'[p] = wire[p]
      BY <1>b, <3>1 DEF s, Queue
    <3>2. CASE wire'[p] = Append(wire[p], "start") /\ ~lost
      BY <1>a, <1>b, <3>2, QueueSent DEF s, p, Says, QuietMessages, HandshakeMessages
    <3> QED
      BY <1>2, <1>a, <3>1, <3>2 DEF ReceiveConfig, ReceiveStart, Taken, TypeOK
  <2>4. UNCHANGED <<channel, pending, handling>>
    BY <1>2 DEF ReceiveConfig, ReceiveStart, channelVars
  <2> QED
    BY <1>n, <1>o, <2>2, <2>3, <2>4
<1>3. CASE RequestChannel(e)
  <2>1. /\ state[e] = "active" /\ c = "none" /\ pending[e] = "none" /\ pending'[e] = "waiting" /\ Send(e, "chanRequest")
        /\ UNCHANGED <<channel, handling, inbox>>
    BY <1>3 DEF RequestChannel, stopVars, TypeOK
  <2>2. Says(lost, q, "chanRequest", s) /\ t = r
    BY <1>i, <1>k, <2>1 DEF Send
  <2>3. c = "none" /\ v # "disconnected" /\ a = "none" /\ channel'[e] = c /\ a1 # "none" /\ x1 = x
    BY <2>1
  <2> HIDE DEF s, t, c, d, q, r, v, v1, w, a, b, x, x1, y, a1
  <2>4. Pair(lost, c, d, s, r, v, w, a1, b, x, y)
    BY <1>c, <1>g, <2>2, <2>3, RequestKeeps
  <2> QED
    BY <1>z, <2>2, <2>3, <2>4
<1>4. CASE SendChanClosed(e)
  <2>1. /\ c \in {"closing", "localClosing"} /\ Send(e, "chanClosed") /\ UNCHANGED <<pending, handling, inbox>>
        /\ channel'[e] = IF c = "closing" THEN "remoteClosing" ELSE "closed"
    BY <1>4 DEF SendChanClosed, stopVars, TypeOK
  <2>2. Says(lost, q, "chanClosed", s) /\ t = r
    BY <1>i, <1>k, <2>1 DEF Send
  <2>3. a1 = a /\ x1 = x
    BY <2>1
  <2> HIDE DEF s, t, c, d, q, r, v, v1, w, a, b, x, x1, y, a1
  <2>4. Pair(lost, channel'[e], d, s, r, v, w, a, b, x, y)
    BY <1>c, <1>g, <2>1, <2>2, ClosedKeeps
  <2> QED
    BY <1>z, <2>2, <2>3, <2>4
<1>5. CASE \E k \in DOMAIN calls[e] : CallStep(e, k)
  <2>1. PICK k \in DOMAIN calls[e] : CallStep(e, k)
    BY <1>5
  <2>2. tcc[e] \in {"none", "open", "closed"} /\ (calls[e][k].pc \in ClosingPCs => tcc[e] # "none")
    BY DEF TypeOK, Handshake, Starts, IsAt
  <2>3. UNCHANGED <<inbox, handling>> /\ x1 = x /\ (wire'[e] = wire[e] => t = r)
    BY <1>m, <2>1 DEF CallStep, BeforeStoppingDone, CloseChannels, ChannelsClosed, Timeout, TranStoppedSent, Finalized
  <2>4. CASE BeforeStoppingDone(e, k) \/ ChannelsClosed(e, k)
    <3>1. wire' = wire \/ Send(e, "tranStop") \/ Send(e, "tranStopped")
      BY <2>2, <2>4 DEF BeforeStoppingDone, ChannelsClosed, At, ClosingPCs
    <3>2. {"tranStop", "tranStopped"} \subseteq QuietMessages
      BY DEF QuietMessages
    <3>3. (s = q \/ \E m \in QuietMessages : Says(lost, q, m, s)) /\ t = r
      BY <1>h, <1>i, <1>k, <2>3, <3>1, <3>2 DEF Send
    <3>4. channel'[e] = c /\ (a1 = "none" <=> a = "none")
      BY <2>4 DEF BeforeStoppingDone, ChannelsClosed, RejectRequests, channelVars, TypeOK
    <3> QED
      BY <1>n, <2>3, <3>3, <3>4
  <2>5. CASE CloseChannels(e, k)
    <3>1. /\ a1 = a /\ channel'[e] = IF c = "open" THEN "closing" ELSE c
          /\ SendAll(e, IF c = "open" /\ tcc[e] = "open" THEN <<"chanClose">> ELSE <<>>)
      BY <2>5 DEF CloseChannels, StartClosing, TypeOK
    <3>2. CASE c = "open"
      <4>1. tcc[e] = "open"
        <5>1. calls[e][k].pc = "tranStop" /\ state[e] # "crashed"
          BY <2>5 DEF CloseChannels, At
        <5>2. IsAt(e, Going \ {"finalizing"}) /\ tcc[e] # "none"
          BY <2>2, <5>1 DEF IsAt, Going, ClosingPCs
        <5>3. state[e] # "disconnected" => state[e] \notin Terminal /\ final[e] = "none"
          BY <1>d, <5>1, <5>2 DEF Life, Terminal
        <5>4. state[e] # "disconnected"
          BY <1>d, <3>2 DEF Life, Up
        <5> QED
          BY <1>d, <2>2, <5>2, <5>3, <5>4 DEF Life
      <4>2. Send(e, "chanClose")
        BY <3>1, <3>2, <4>1 DEF Send
      <4>3. Says(lost, q, "chanClose", s) /\ t = r
        BY <1>i, <1>k, <2>3, <4>2 DEF Send
      <4>4. channel'[e] = "closing"
        BY <3>1, <3>2
      <4> HIDE DEF s, t, c, d, q, r, v, v1, w, a, b, x, x1, y, a1
      <4>5. Pair(lost, "closing", d, s, r, v, w, a, b, x, y)
        BY <1>c, <1>g, <3>2, <4>3, CloseKeeps
      <4> QED
        BY <1>z, <2>3, <3>1, <4>3, <4>4, <4>5
    <3>3. CASE c # "open"
      <4>1. SendAll(e, <<>>) /\ channel'[e] = c
        BY <3>1, <3>3
      <4>2. s = q /\ t = r
        BY <1>h, <2>3, <4>1 DEF SendAll
      <4> QED
        BY <1>n, <2>3, <3>1, <4>1, <4>2
    <3> QED
      BY <3>2, <3>3
  <2>6. CASE Timeout(e, k) \/ TranStoppedSent(e, k) \/ Finalized(e, k)
    <3>1. UNCHANGED <<channel, pending, handling, inbox, wire>>
      BY <2>6 DEF Timeout, TranStoppedSent, Finalized, channelVars
    <3> QED
      BY <1>h, <1>n, <1>o, <3>1
  <2> QED
    BY <2>1, <2>4, <2>5, <2>6 DEF CallStep
<1>6. CASE Receive(e)
  <2>1. wire[e] # <<>> /\ wire'[e] = Tail(wire[e]) /\ wire'[p] = wire[p] /\ inbox'[e] = Append(inbox[e], Head(wire[e]))
        /\ UNCHANGED <<channel, pending, handling>>
    BY <1>6, <1>a DEF Receive, Taken, channelVars, TypeOK
  <2>2. s = q /\ t = r
    BY <1>b, <2>1, QueueReceived DEF s, t, Queue
  <2> QED
    BY <1>n, <1>o, <2>1, <2>2
<1>7. CASE OnChannelRequest(e)
  <2>1. wire'[e] = wire[e]
    BY <1>7, <1>a DEF OnChannelRequest, Send, SendAll, TypeOK
  <2>2. Drops(r, "chanRequest", t) /\ x \notin Asking
    BY <1>7, <1>j, <2>1 DEF OnChannelRequest, Takes
  <2>3. channel'[e] = c /\ a1 = a /\ (c # "open" => x1 \in Asking /\ wire' = wire)
    BY <1>7 DEF OnChannelRequest, channelVars, TypeOK, Asking
  <2>4. c # "open" /\ x1 \in Asking
    <3>1. c # "open"
      BY <1>c, <2>2 DEF Pair, Asks, Drops
    <3> QED
      BY <2>3, <3>1
  <2>5. s = q
    BY <1>h, <2>3, <2>4
  <2> HIDE DEF s, t, c, d, q, r, v, v1, w, a, b, x, x1, y, a1
  <2>6. Pair(lost, c, d, q, t, v, w, a, b, x1, y)
    BY <1>c, <1>g, <2>2, <2>3, <2>4, AskedKeeps
  <2> QED
    BY <1>z, <2>3, <2>5, <2>6
<1>8. CASE OnChannelResponse(e)
  <2> DEFINE m == Head(inbox[e])
             c1 == channel'[e]
  <2>1. Drops(r, m, t) /\ m \in Responses /\ x \notin Asking
    BY <1>8, <1>j DEF OnChannelResponse, Takes
  <2>2. c1 = (IF m = "chanAccepted" /\ a # "none" /\ c \in {"none", "closed"} THEN "open" ELSE c) /\ a1 = "none" /\ x1 = x /\ s = q
    BY <1>8, <1>h DEF OnChannelResponse, TypeOK
  <2>3. v = "disconnected" => a = "none"
    BY <1>d DEF Life
  <2> HIDE DEF s, t, c, d, q, r, v, v1, w, a, b, x, x1, y, a1, m, c1
  <2>4. Pair(lost, c1, d, q, t, v, w, a1, b, x, y)
    BY <1>c, <1>g, <2>1, <2>2, <2>3, ResponseKeeps
  <2>5. Pair(lost, c1, d, s, t, v, w, a1, b, x1, y)
    BY <2>2, <2>4
  <2> QED
    BY <1>z, <2>5 DEF c1
<1>9. CASE OnChannelClose(e)
  <2> DEFINE c1 == channel'[e]
  <2>1. wire'[e] = wire[e]
    BY <1>9, <1>a DEF OnChannelClose, SendAll, TypeOK
  <2>2. Drops(r, "chanClose", t)
    BY <1>9, <1>j, <2>1 DEF OnChannelClose, Takes
  <2>3. c1 = (IF c = "open" THEN "closing" ELSE c) /\ a1 = a /\ x1 = x
    BY <1>9 DEF OnChannelClose, StartClosing, TypeOK
  <2>4. (c = "open" /\ Says(lost, q, "chanClose", s)) \/ (c # "open" /\ s = q)
    <3>1. IF c = "open" THEN Send(e, "chanClose") ELSE SendAll(e, <<>>)
      BY <1>9 DEF OnChannelClose, Send
    <3> QED
      BY <1>h, <1>i, <1>k, <3>1 DEF Send, SendAll
  <2> HIDE DEF s, t, c, d, q, r, v, v1, w, a, b, x, x1, y, a1, c1
  <2>5. Pair(lost, c1, d, s, t, v, w, a, b, x, y)
    BY <1>c, <1>g, <2>2, <2>3, <2>4, OnCloseKeeps
  <2>6. Pair(lost, c1, d, s, t, v, w, a1, b, x1, y)
    BY <2>3, <2>5
  <2> QED
    BY <1>z, <2>6 DEF c1
<1>10. CASE OnChannelClosed(e)
  <2> DEFINE c1 == channel'[e]
  <2>1. Drops(r, "chanClosed", t)
    BY <1>10, <1>j DEF OnChannelClosed, Takes
  <2>2. /\ \/ c = "closing" /\ c1 = "localClosing"
           \/ c = "remoteClosing" /\ c1 = "closed"
           \/ c \notin {"closing", "remoteClosing"} /\ c1 = c
        /\ a1 = a /\ x1 = x /\ s = q
    BY <1>10, <1>h DEF OnChannelClosed, TypeOK
  <2> HIDE DEF s, t, c, d, q, r, v, v1, w, a, b, x, x1, y, a1, c1
  <2>3. Pair(lost, c1, d, q, t, v, w, a, b, x, y)
    BY <1>c, <1>g, <2>1, <2>2, OnClosedKeeps
  <2>4. Pair(lost, c1, d, s, t, v, w, a1, b, x1, y)
    BY <2>2, <2>3
  <2> QED
    BY <1>z, <2>4 DEF c1
<1>11. CASE OnTransportStop(e) \/ OnTransportStopped(e)
  <2>1. UNCHANGED <<channel, pending, wire>> /\ (x1 \in Asking <=> x \in Asking)
    <3>1. UNCHANGED <<channel, pending, wire>>
      BY <1>11 DEF OnTransportStop, OnTransportStopped, channelVars
    <3>2. handling' = handling \/ (handling[e] = "none" /\ handling' = [handling EXCEPT ![e] = "finalize"])
      BY <1>11 DEF OnTransportStop, OnTransportStopped, Takes
    <3>3. x1 \in Asking <=> x \in Asking
      BY <3>2 DEF TypeOK, Asking
    <3> QED
      BY <3>1, <3>3
  <2>2. Takes(e, {"tranStop", "tranStopped"})
    BY <1>11 DEF OnTransportStop, OnTransportStopped, Takes
  <2>3. Drops(r, Head(inbox[e]), t) /\ Head(inbox[e]) \in QuietMessages
    BY <1>j, <2>1, <2>2 DEF QuietMessages, Takes
  <2>4. s = q
    BY <1>h, <2>1
  <2> QED
    BY <1>n, <2>1, <2>3, <2>4
<1>12. CASE FinalizeHandled(e)
  <2>1. UNCHANGED <<channel, pending, wire, inbox>> /\ (x1 \in Asking <=> x \in Asking)
    BY <1>12 DEF FinalizeHandled, HandlersDone, channelVars, TypeOK, Asking
  <2> QED
    BY <1>h, <1>n, <2>1
<1>13. CASE Accept(e)
  <2>1. /\ handling[e] = "request" /\ handling'[e] = "none" /\ state[e] = "active" /\ (a1 = "none" <=> a = "none") /\ inbox' = inbox
        /\ channel'[e] = (IF c \in {"none", "closed"} THEN "open" ELSE c) /\ Send(e, "chanAccepted")
    BY <1>13, <1>d DEF Accept, HandlersDone, Send, stopVars, TypeOK
  <2>2. x \in Asking /\ x1 \notin Asking
    BY <2>1 DEF Asking
  <2>3. c = "none"
    <3>1. c \in {"none", "disconnected"}
      BY <1>c, <2>2 DEF Pair, Asks
    <3> QED
      BY <1>d, <2>1, <3>1 DEF Life
  <2>4. Says(lost, q, "chanAccepted", s) /\ t = r /\ channel'[e] = "open"
    BY <1>i, <1>k, <2>1, <2>3 DEF Send
  <2> HIDE DEF s, t, c, d, q, r, v, v1, w, a, b, x, x1, y, a1
  <2>5. Pair(lost, "open", d, s, r, v, w, a, b, x1, y)
    BY <1>c, <1>g, <2>2, <2>3, <2>4, AcceptKeeps
  <2>6. Pair(lost, "open", d, s, r, v1, w, a1, b, x1, y)
    BY <1>e, <1>g, <2>1, <2>5, RestKeeps
  <2> QED
    BY <2>4, <2>6
<1>14. CASE Reject(e)
  <2>1. /\ handling[e] \in {"request", "stop"} /\ handling'[e] = "none" /\ UNCHANGED <<channel, pending, inbox>>
        /\ SendAll(e, <<>>) \/ Send(e, "chanRejected")
    BY <1>14 DEF Reject, HandlersDone, Send, channelVars, TypeOK
  <2>2. x \in Asking /\ x1 \notin Asking /\ channel'[e] = c /\ a1 = a
    BY <2>1 DEF Asking
  <2>3. (s = q \/ Says(lost, q, "chanRejected", s)) /\ t = r
    BY <1>h, <1>i, <1>k, <1>m, <2>1 DEF Send, SendAll
  <2> HIDE DEF s, t, c, d, q, r, v, v1, w, a, b, x, x1, y, a1
  <2>4. Pair(lost, c, d, s, r, v, w, a, b, x1, y)
    BY <1>c, <1>g, <2>2, <2>3, RejectKeeps
  <2> QED
    BY <1>z, <2>2, <2>3, <2>4
<1>15. CASE HandlerStops(e)
  <2>1. UNCHANGED <<channel, pending, wire, inbox>> /\ (x1 \in Asking <=> x \in Asking)
    BY <1>15 DEF HandlerStops, channelVars, TypeOK, Asking
  <2> QED
    BY <1>h, <1>n, <2>1
<1>16. CASE NoticeLoss(e) \/ Abort(e) \/ EndOfInput(e)
  <2> DEFINE c1 == channel'[e]
  <2>1. OnDisconnect(e)
    BY <1>16 DEF NoticeLoss, Abort, EndOfInput
  <2>2. /\ v1 = "disconnected" /\ a1 = "none" /\ x1 = x /\ c1 = (IF c \in Up THEN "disconnected" ELSE c)
        /\ inbox' = inbox /\ wire'[e] = <<>> /\ wire'[p] = wire[p]
    BY <1>a, <2>1 DEF OnDisconnect, DisconnectChannel, TypeOK, Up
  <2>3. s = q
    BY <2>2 DEF s, Queue
  <2>4. Cuts(r, t)
    BY <2>2, QueueCut DEF t
  <2> HIDE DEF s, t, c, d, q, r, v, v1, w, a, b, x, x1, y, a1, c1
  <2>5. Pair(lost, c1, d, q, t, v1, w, a1, b, x, y)
    BY <1>c, <1>g, <2>2, <2>4, DisconnectKeeps
  <2>6. Pair(lost, c1, d, s, t, v1, w, a1, b, x1, y)
    BY <2>2, <2>3, <2>5
  <2> QED
    BY <2>6 DEF c1
<1>17. CASE \/ TextHandled(e) \/ ReceiveText(e) \/ InputWhileDraining(e) \/ (\E timeout \in BOOLEAN : Stop(e, timeout))
            \/ TccClosed(e) \/ Drained(e) \/ DrainFails(e) \/ Crash(e)
  <2>1. UNCHANGED <<channel, pending, handling, inbox, wire>>
    BY <1>17 DEF TextHandled, ReceiveText, InputWhileDraining, Stop, TccClosed, Drained, DrainFails, Crash, channelVars
  <2> QED
    BY <1>h, <1>n, <1>o, <2>1
<1> QED
  BY <1>1, <1>2, <1>3, <1>4, <1>5, <1>6, <1>7, <1>8, <1>9, <1>10, <1>11, <1>12, <1>13, <1>14, <1>15, <1>16, <1>17
  DEF Step, StartStep, TakeStep, HandlerStep

LEMMA PairTurns ==
    ASSUME NEW gone, NEW c, NEW d, NEW q, NEW r, NEW v, NEW w, NEW a, NEW b, NEW x, NEW y,
           Pair(gone, c, d, q, r, v, w, a, b, x, y)
    PROVE  Pair(gone, d, c, r, q, w, v, b, a, y, x)
BY DEF Pair

LEMMA ViewTurns ==
    ASSUME NEW e \in Ends
    PROVE  View(Peer(e))' <=> View(e)'
<1>1. Peer(Peer(e)) = e
  BY TwoEnds
<1> QED
  BY <1>1, PairTurns DEF View

LEMMA ChannelInvInit == Init => ChannelInv
<1> SUFFICES ASSUME Init, NEW e \in Ends PROVE View(e)
  BY DEF ChannelInv
<1> DEFINE p == Peer(e)
<1>1. p \in Ends
  BY TwoEnds
<1>2. /\ channel[e] = "none" /\ channel[p] = "none" /\ pending[e] = "none" /\ pending[p] = "none"
      /\ handling[e] = "none" /\ handling[p] = "none"
      /\ inbox[e] = <<>> /\ inbox[p] = <<>> /\ wire[e] = <<>> /\ wire[p] = <<>>
  BY <1>1 DEF Init
<1>3. Queue(e) = <<>> /\ Queue(p) = <<>> /\ DOMAIN <<>> = {}
  BY <1>2 DEF Queue
<1> QED
  BY <1>2, <1>3 DEF View, Pair, Tells, Delivers, Asks, Has, Once, Ordered, OneRequest, OneResponse, HasResponse, Asking, Up, Closing

LEMMA ChannelInvStep == Base /\ Lives /\ ChannelInv /\ [Next]_vars => ChannelInv'
<1> SUFFICES ASSUME TypeOK, Handshake, Lives, ChannelInv, [Next]_vars, Regular' PROVE \A e \in Ends : View(e)'
  BY DEF Base, ChannelInv
<1>1. CASE UNCHANGED vars
  BY <1>1 DEF vars, startVars, stopVars, channelVars, ChannelInv, Regular, View, Queue
<1>2. CASE Lose
  <2> TAKE e \in Ends
  <2>1. View(e) /\ lost \in BOOLEAN /\ lost' = TRUE
    BY <1>2 DEF Lose, ChannelInv, Regular, TypeOK
  <2>2. UNCHANGED <<channel, state, pending, handling, inbox, wire>>
    BY <1>2 DEF Lose, channelVars
  <2> QED
    BY <2>1, <2>2 DEF View, Pair, Queue
<1>3. ASSUME NEW e \in Ends, Step(e) PROVE \A f \in Ends : View(f)'
  <2> DEFINE p == Peer(e)
  <2>1. p \in Ends /\ p # e /\ \A f \in Ends : f = e \/ f = p
    BY TwoEnds
  <2>2. trouble' = trouble
    BY <1>3, <2>1, OtherEnd
  <2>3. Regular /\ View(e)
    BY <2>2 DEF Regular, ChannelInv
  <2>4. View(e)'
    BY <1>3, <2>3, ViewStep
  <2>5. View(p)'
    BY <2>4, ViewTurns
  <2> QED
    BY <2>1, <2>4, <2>5
<1> QED
  BY <1>1, <1>2, <1>3, Steps DEF vars

----------------------------------------------------------------------------
(* The end of it.  What a step does to the two queues, and which step it   *)
(* is by what it sends and takes.                                          *)

SentBy(e, m) ==
    /\ m = "tranStopped" => \E k \in DOMAIN calls[e] : ChannelsClosed(e, k) /\ state[e] # "disconnected" /\ tcc[e] = "open"
    /\ m = "chanAccepted" => Accept(e)
    /\ m = "chanClosed" => SendChanClosed(e)
TakenBy(e, m) ==
    /\ m = "tranStopped" => OnTransportStopped(e)
    /\ m = "chanClosed" => OnChannelClosed(e)

LEMMA Sending ==
    ASSUME TypeOK, Handshake, NEW e \in Ends, Step(e), NEW p \in Ends, p = Peer(e)
    PROVE  \/ Queue(p)' = Queue(p)
           \/ \E m \in HandshakeMessages \cup Messages : SentBy(e, m) /\ ~lost /\ Adds(Queue(p), m, Queue(p)')
<1> DEFINE Goal == \/ Queue(p)' = Queue(p)
                   \/ \E m \in HandshakeMessages \cup Messages : SentBy(e, m) /\ ~lost /\ Adds(Queue(p), m, Queue(p)')
<1>a. p # e /\ inbox'[p] = inbox[p] /\ Queue(p)' = inbox'[p] \o wire'[p]
  BY TwoEnds, OtherEnd DEF SameEnd, Queue
<1>b. /\ wire[p] \in Seq(HandshakeMessages \cup Messages) /\ wire \in [Ends -> Seq(HandshakeMessages \cup Messages)]
      /\ tcc[e] \in {"none", "open", "closed"}
  BY DEF TypeOK
<1>c. {"chanRequest", "chanClosed", "tranStop", "tranStopped", "chanClose", "chanAccepted", "chanRejected", "config", "start"}
        = HandshakeMessages \cup Messages
  BY DEF HandshakeMessages, Messages, Responses
<1>d. ASSUME wire'[p] = wire[p] PROVE Goal
  BY <1>a, <1>d DEF Queue
<1>e. ASSUME SendAll(e, <<>>) PROVE Goal
  <2>1. wire[p] \o <<>> = wire[p]
    BY <1>b
  <2>2. wire'[p] = wire[p]
    BY <1>b, <1>e, <2>1 DEF SendAll
  <2> QED
    BY <1>d, <2>2
<1>f. ASSUME NEW m \in HandshakeMessages \cup Messages, Send(e, m), SentBy(e, m) PROVE Goal
  <2>1. lost \/ ~lost
    OBVIOUS
  <2> QED
    BY <1>a, <1>f, <2>1, SendEffect DEF Send
<1>g. ASSUME NEW m \in HandshakeMessages \cup Messages, Send(e, m), m \notin {"tranStopped", "chanAccepted", "chanClosed"} PROVE Goal
  BY <1>f, <1>g DEF SentBy, Send
<1> SUFFICES Goal
  OBVIOUS
<1> HIDE DEF Goal
<1>1. CASE Start(e) \/ RequestChannel(e)
  BY <1>1, <1>c, <1>g DEF Start, RequestChannel, Send
<1>2. CASE ReceiveConfig(e)
  <2>1. wire'[p] = IF lost THEN wire[p] ELSE Append(wire[p], "start")
    BY <1>2, <1>a, <1>b DEF ReceiveConfig
  <2>2. CASE lost
    BY <1>d, <2>1, <2>2
  <2>3. CASE ~lost
    <3>1. Adds(Queue(p), "start", Queue(p)') /\ SentBy(e, "start")
      BY <1>a, <1>c, <2>1, <2>3, QueueSent DEF SentBy
    <3> QED
      BY <1>c, <2>3, <3>1 DEF Goal
  <2> QED
    BY <2>2, <2>3
<1>3. CASE SendChanClosed(e)
  <2>1. Send(e, "chanClosed") /\ SentBy(e, "chanClosed")
    BY <1>3 DEF SendChanClosed, SentBy
  <2> QED
    BY <1>c, <1>f, <2>1 DEF Send
<1>4. CASE \E k \in DOMAIN calls[e] : CallStep(e, k)
  <2>1. PICK k \in DOMAIN calls[e] : CallStep(e, k)
    BY <1>4
  <2>2. CASE BeforeStoppingDone(e, k)
    <3>1. wire' = wire \/ Send(e, "tranStop")
      BY <1>b, <2>2 DEF BeforeStoppingDone
    <3> QED
      BY <1>c, <1>d, <1>g, <3>1 DEF Send
  <2>3. CASE CloseChannels(e, k)
    <3>1. SendAll(e, <<>>) \/ Send(e, "chanClose")
      BY <2>3 DEF CloseChannels, Send
    <3> QED
      BY <1>c, <1>e, <1>g, <3>1 DEF Send, SendAll
  <2>4. CASE ChannelsClosed(e, k)
    <3>1. tcc[e] # "none"
      <4>1. IsAt(e, ClosingPCs)
        BY <2>4 DEF ChannelsClosed, At, IsAt, ClosingPCs
      <4> QED
        BY <4>1 DEF Handshake, Starts
    <3>2. wire' = wire \/ (Send(e, "tranStopped") /\ state[e] # "disconnected" /\ tcc[e] = "open")
      BY <1>b, <2>4, <3>1 DEF ChannelsClosed
    <3>3. state[e] # "disconnected" /\ tcc[e] = "open" => SentBy(e, "tranStopped")
      BY <2>4 DEF SentBy
    <3> QED
      BY <1>c, <1>d, <1>f, <3>2, <3>3 DEF Send
  <2>5. CASE Timeout(e, k) \/ TranStoppedSent(e, k) \/ Finalized(e, k)
    BY <1>d, <2>5 DEF Timeout, TranStoppedSent, Finalized
  <2> QED
    BY <2>1, <2>2, <2>3, <2>4, <2>5 DEF CallStep
<1>5. CASE TakeStep(e)
  <2>1. wire' = wire \/ SendAll(e, <<>>) \/ Send(e, "chanRejected") \/ Send(e, "chanClose")
    BY <1>5
    DEF TakeStep, OnChannelRequest, OnChannelResponse, OnChannelClose, OnChannelClosed, OnTransportStop,
        OnTransportStopped, FinalizeHandled, Send
  <2> QED
    BY <1>c, <1>d, <1>e, <1>g, <2>1 DEF Send, SendAll
<1>6. CASE HandlerStep(e)
  <2>1. \/ wire' = wire \/ SendAll(e, <<>>) \/ Send(e, "chanRejected") \/ (Send(e, "chanAccepted") /\ Accept(e))
    BY <1>6 DEF HandlerStep, Accept, Reject, HandlerStops, Send
  <2>2. Accept(e) => SentBy(e, "chanAccepted")
    BY DEF SentBy
  <2> QED
    BY <1>c, <1>d, <1>e, <1>f, <1>g, <2>1, <2>2 DEF Send, SendAll
<1>7. CASE ReceiveStart(e) \/ Receive(e)
  BY <1>7, <1>a, <1>b, <1>d DEF ReceiveStart, Receive, Taken
<1>8. CASE NoticeLoss(e) \/ Abort(e) \/ EndOfInput(e)
  BY <1>8, <1>a, <1>b, <1>d DEF NoticeLoss, Abort, EndOfInput, OnDisconnect
<1>9. CASE \/ TextHandled(e) \/ ReceiveText(e) \/ InputWhileDraining(e) \/ (\E timeout \in BOOLEAN : Stop(e, timeout))
           \/ TccClosed(e) \/ Drained(e) \/ DrainFails(e) \/ Crash(e)
  BY <1>9, <1>d DEF TextHandled, ReceiveText, InputWhileDraining, Stop, TccClosed, Drained, DrainFails, Crash
<1> QED
  BY <1>1, <1>2, <1>3, <1>4, <1>5, <1>6, <1>7, <1>8, <1>9 DEF Step, StartStep, Goal

LEMMA Taking ==
    ASSUME TypeOK, Handshake, NEW e \in Ends, Step(e)
    PROVE  \/ Queue(e)' = Queue(e)
           \/ \E m \in HandshakeMessages \cup Messages : TakenBy(e, m) /\ Drops(Queue(e), m, Queue(e)')
           \/ OnDisconnect(e) /\ Cuts(Queue(e), Queue(e)')
<1> DEFINE Goal == \/ Queue(e)' = Queue(e)
                   \/ \E m \in HandshakeMessages \cup Messages : TakenBy(e, m) /\ Drops(Queue(e), m, Queue(e)')
                   \/ OnDisconnect(e) /\ Cuts(Queue(e), Queue(e)')
<1>a. /\ Peer(e) \in Ends /\ Peer(e) # e /\ Queue(e)' = inbox'[e] \o wire'[e]
      /\ wire \in [Ends -> Seq(HandshakeMessages \cup Messages)] /\ inbox[e] \in Seq(Messages)
  BY TwoEnds DEF TypeOK, Queue
<1>b. ASSUME inbox'[e] = inbox[e], wire'[e] = wire[e] PROVE Goal
  BY <1>b DEF Queue
<1>c. ASSUME NEW ms, SendAll(e, ms) PROVE wire'[e] = wire[e]
  BY <1>a, <1>c DEF SendAll
<1>d. ASSUME NEW S, Takes(e, S), wire'[e] = wire[e], TakenBy(e, Head(inbox[e])) PROVE Goal
  <2>1. Drops(Queue(e), Head(inbox[e]), inbox'[e] \o wire'[e]) /\ Head(inbox[e]) \in S
    BY <1>d, TakeEffect DEF Takes
  <2>2. inbox[e] # <<>>
    BY <1>d DEF Takes
  <2>3. Head(inbox[e]) \in HandshakeMessages \cup Messages
    BY <1>a, <2>2
  <2>4. TakenBy(e, Head(inbox[e])) /\ Drops(Queue(e), Head(inbox[e]), Queue(e)')
    BY <1>a, <1>d, <2>1
  <2> QED
    BY <2>3, <2>4
<1>e. wire' = wire \/ (\E ms : SendAll(e, ms)) => wire'[e] = wire[e]
  BY <1>c DEF SendAll
<1> SUFFICES Goal
  OBVIOUS
<1> HIDE DEF Goal
<1>1. CASE Start(e) \/ RequestChannel(e) \/ SendChanClosed(e)
  <2>1. (\E ms : SendAll(e, ms)) /\ inbox' = inbox
    BY <1>1 DEF Start, RequestChannel, SendChanClosed, Send
  <2> QED
    BY <1>b, <1>e, <2>1
<1>2. CASE ReceiveConfig(e) \/ ReceiveStart(e)
  <2>1. inbox[e] = <<>> /\ inbox' = inbox /\ wire[e] # <<>> /\ wire'[e] = Tail(wire[e]) /\ Head(wire[e]) \in {"config", "start"}
    <3>1. reader[e] \in NotYet
      BY <1>2 DEF ReceiveConfig, ReceiveStart, NotYet
    <3> QED
      BY <1>2, <1>a, <3>1 DEF ReceiveConfig, ReceiveStart, Arrived, Taken, TypeOK, Handshake, Starts
  <2>2. Drops(Queue(e), Head(wire[e]), Queue(e)') /\ TakenBy(e, Head(wire[e])) /\ Head(wire[e]) \in HandshakeMessages
    BY <1>a, <2>1, QueueStarts DEF TakenBy, HandshakeMessages
  <2> QED
    BY <2>2 DEF Goal
<1>3. CASE \E k \in DOMAIN calls[e] : CallStep(e, k)
  <2>1. inbox' = inbox
    BY <1>3 DEF CallStep, BeforeStoppingDone, CloseChannels, ChannelsClosed, Timeout, TranStoppedSent, Finalized
  <2>2. wire' = wire \/ (\E ms : SendAll(e, ms))
    BY <1>3, CallSends DEF SendAll
  <2> QED
    BY <1>b, <1>e, <2>1, <2>2
<1>4. CASE Receive(e)
  <2>1. wire[e] # <<>> /\ wire'[e] = Tail(wire[e]) /\ inbox'[e] = Append(inbox[e], Head(wire[e]))
    BY <1>4, <1>a DEF Receive, Taken, TypeOK
  <2> QED
    BY <1>a, <2>1, QueueReceived DEF Goal
<1>5. CASE TakeStep(e)
  <2>1. CASE OnChannelRequest(e) \/ OnChannelResponse(e) \/ OnChannelClose(e) \/ OnTransportStop(e)
    <3>1. Takes(e, {"chanRequest"}) \/ Takes(e, Responses) \/ Takes(e, {"chanClose"}) \/ Takes(e, {"tranStop"})
      BY <2>1 DEF OnChannelRequest, OnChannelResponse, OnChannelClose, OnTransportStop
    <3>2. wire' = wire \/ (\E ms : SendAll(e, ms))
      BY <2>1 DEF OnChannelRequest, OnChannelResponse, OnChannelClose, OnTransportStop, Send
    <3>3. \A m \in {"chanRequest", "chanClose", "tranStop"} \cup Responses : TakenBy(e, m)
      BY DEF TakenBy, Responses
    <3> QED
      BY <1>d, <1>e, <3>1, <3>2, <3>3 DEF Takes
  <2>2. CASE OnChannelClosed(e)
    <3>1. Takes(e, {"chanClosed"}) /\ wire' = wire /\ TakenBy(e, "chanClosed") /\ Head(inbox[e]) = "chanClosed"
      BY <2>2 DEF OnChannelClosed, TakenBy, Takes
    <3> QED
      BY <1>d, <1>e, <3>1 DEF Takes
  <2>3. CASE OnTransportStopped(e)
    <3>1. Takes(e, {"tranStopped"}) /\ wire' = wire /\ TakenBy(e, "tranStopped") /\ Head(inbox[e]) = "tranStopped"
      BY <2>3 DEF OnTransportStopped, TakenBy, Takes
    <3> QED
      BY <1>d, <1>e, <3>1 DEF Takes
  <2>4. CASE FinalizeHandled(e)
    BY <1>b, <2>4 DEF FinalizeHandled
  <2> QED
    BY <1>5, <2>1, <2>2, <2>3, <2>4 DEF TakeStep
<1>6. CASE HandlerStep(e)
  <2>1. (wire' = wire \/ (\E ms : SendAll(e, ms))) /\ inbox' = inbox
    BY <1>6 DEF HandlerStep, Accept, Reject, HandlerStops
  <2> QED
    BY <1>b, <1>e, <2>1
<1>7. CASE NoticeLoss(e) \/ Abort(e) \/ EndOfInput(e)
  <2>1. OnDisconnect(e)
    BY <1>7 DEF NoticeLoss, Abort, EndOfInput
  <2>2. inbox' = inbox /\ wire'[e] = <<>>
    BY <1>a, <2>1 DEF OnDisconnect
  <2> QED
    BY <1>a, <2>1, <2>2, QueueCut DEF Goal
<1>8. CASE \/ TextHandled(e) \/ ReceiveText(e) \/ InputWhileDraining(e) \/ (\E timeout \in BOOLEAN : Stop(e, timeout))
           \/ TccClosed(e) \/ Drained(e) \/ DrainFails(e) \/ Crash(e)
  <2>1. wire' = wire /\ inbox' = inbox
    BY <1>8 DEF TextHandled, ReceiveText, InputWhileDraining, Stop, TccClosed, Drained, DrainFails, Crash
  <2> QED
    BY <1>b, <2>1
<1> QED
  BY <1>1, <1>2, <1>3, <1>4, <1>5, <1>6, <1>7, <1>8 DEF Step, StartStep, Goal

(* How an end comes to its end: it does not go back, it is told by         *)
(* tranStopped, and it leaves when it has no channel to wait for.          *)
LEMMA Leaving ==
    ASSUME TypeOK, Handshake, NEW e \in Ends, trouble \notin {"early", "text"}, Life(e), Step(e)
    PROVE  /\ Out(e) => Out(e)'
           /\ Leaves(e)' => Leaves(e) \/ channel'[e] \notin Up
           /\ state'[e] = "localStopping" => state[e] = "localStopping" \/ OnTransportStopped(e)
           /\ final'[e] # "none" =>
                 \/ final[e] # "none"
                 \/ OnTransportStopped(e) /\ state[e] = "remoteStopping"
                 \/ (\E k \in DOMAIN calls[e] : TranStoppedSent(e, k)) /\ state[e] = "localStopping"
           /\ \A k \in DOMAIN calls[e] :
                 ChannelsClosed(e, k) /\ state[e] # "disconnected" /\ tcc[e] = "open" => IsAt(e, {"tranStopped"})'
<1> DEFINE Goal ==
           /\ Out(e) => Out(e)'
           /\ Leaves(e)' => Leaves(e) \/ channel'[e] \notin Up
           /\ state'[e] = "localStopping" => state[e] = "localStopping" \/ OnTransportStopped(e)
           /\ final'[e] # "none" =>
                 \/ final[e] # "none"
                 \/ OnTransportStopped(e) /\ state[e] = "remoteStopping"
                 \/ (\E k \in DOMAIN calls[e] : TranStoppedSent(e, k)) /\ state[e] = "localStopping"
<1>a. Starts(e) /\ tcc[e] \in {"none", "open", "closed"} /\ channel[e] \in States
  BY DEF Handshake, TypeOK, States
<1>b. \A k \in DOMAIN calls[e] :
          ChannelsClosed(e, k) /\ state[e] # "disconnected" /\ tcc[e] = "open" => IsAt(e, {"tranStopped"})'
  <2> SUFFICES ASSUME NEW k \in DOMAIN calls[e], ChannelsClosed(e, k), state[e] # "disconnected", tcc[e] = "open"
               PROVE  IsAt(e, {"tranStopped"})'
    OBVIOUS
  <2>1. Goto(e, k, "tranStopped")
    BY DEF ChannelsClosed
  <2>2. calls'[e][k].pc = "tranStopped" /\ k \in DOMAIN calls'[e]
    BY <2>1, CallMoves DEF CallStep, PCs, Goto
  <2> QED
    BY <2>2 DEF IsAt
<1>c. ASSUME calls'[e] = calls[e], state'[e] = state[e], final'[e] = final[e] PROVE Goal
  BY <1>c DEF Out, Leaves, IsAt
<1>d. ASSUME NEW t \in BOOLEAN, NEW h \in BOOLEAN, NewStop(e, t, h), final' = final PROVE Goal
  <2>1. PICK c \in CallSet : /\ calls' = [calls EXCEPT ![e] = Append(@, c)]
                             /\ c.pc \in {"beforeStopping", "waiting", "returned"}
    BY <1>d, CallTypesStop DEF NewStop
  <2>2. calls \in [Ends -> Seq(CallSet)]
    BY DEF TypeOK
  <2>3. /\ \A l \in DOMAIN calls'[e] : (l \in DOMAIN calls[e] /\ calls'[e][l] = calls[e][l]) \/ calls'[e][l] = c
        /\ \A l \in DOMAIN calls[e] : l \in DOMAIN calls'[e] /\ calls'[e][l] = calls[e][l]
    BY <2>1, <2>2, CallAdded
  <2>4. state'[e] = (IF state[e] \in {"created", "starting", "active"} THEN "stopping" ELSE state[e])
    BY <1>d, CallJoins DEF NewStop
  <2>5. Leaves(e)' => Leaves(e)
    BY <2>1, <2>3, <2>4 DEF Leaves
  <2>6. IsAt(e, {"tranStopped"}) => IsAt(e, {"tranStopped"})' /\ state[e] \notin {"created", "starting", "active"}
    <3>1. IsAt(e, {"tranStopped"}) => IsAt(e, {"tranStopped"})'
      BY <2>3 DEF IsAt
    <3>2. IsAt(e, {"tranStopped"}) => IsAt(e, Going)
      BY DEF IsAt, Going, ClosingPCs
    <3> QED
      BY <3>1, <3>2 DEF Life, Before
  <2>7. Out(e) => Out(e)'
    BY <2>4, <2>6 DEF Out, Before
  <2> QED
    BY <1>d, <2>4, <2>5, <2>7
<1>e. state[e] \in Before => ~Out(e)
  BY DEF Life, Out, IsAt
<1> SUFFICES Goal
  BY <1>b
<1> HIDE DEF Goal
<1>1. CASE Start(e)
  BY <1>1, <1>e DEF Start, stopVars, TypeOK, Before, Goal, Leaves
<1>2. CASE ReceiveConfig(e)
  BY <1>2, <1>c DEF ReceiveConfig, stopVars
<1>3. CASE ReceiveStart(e)
  <2>1. state[e] \in Before
    BY <1>3, <1>a DEF ReceiveStart, Arrived, Running, Life, NotYet, Terminal, Starts, TypeOK
  <2>2. UNCHANGED <<calls, final>> /\ state'[e] = "active"
    BY <1>3 DEF ReceiveStart, OnRemoteReady, stopVars, TypeOK
  <2> QED
    BY <1>e, <2>1, <2>2 DEF Goal, Leaves
<1>4. CASE TextHandled(e) \/ ReceiveText(e) \/ InputWhileDraining(e)
  <2>1. ~TextHandled(e) /\ ~ReceiveText(e)
    BY <1>a DEF TextHandled, ReceiveText, Starts
  <2>2. ~InputWhileDraining(e)
    BY DEF InputWhileDraining, Life, NotYet, Before
  <2> QED
    BY <1>4, <2>1, <2>2
<1>5. CASE RequestChannel(e) \/ SendChanClosed(e) \/ Receive(e)
  BY <1>5, <1>c DEF RequestChannel, SendChanClosed, Receive, stopVars
<1>6. CASE \E timeout \in BOOLEAN : Stop(e, timeout)
  BY <1>6, <1>d DEF Stop, NewStop
<1>7. CASE \E k \in DOMAIN calls[e] : CallStep(e, k)
  <2>1. PICK k \in DOMAIN calls[e] : CallStep(e, k)
    BY <1>7
  <2>2. /\ calls[e][k].pc \in Going /\ DOMAIN calls'[e] = DOMAIN calls[e]
        /\ \A l \in DOMAIN calls[e] : l # k => calls'[e][l] = calls[e][l]
        /\ CloseChannels(e, k) => calls'[e][k].pc = "closing" /\ calls'[e][k].waits = AwaitsChannel(e)
        /\ ~CloseChannels(e, k) => calls'[e][k].waits = calls[e][k].waits
        /\ \A pc \in PCs : Goto(e, k, pc) => calls'[e][k].pc = pc
    BY <2>1, CallMoves DEF Goto
  <2>3. OneGoes(e) /\ tcc[e] # "none"
    BY <2>2 DEF Life, IsAt
  <2>4. IsAt(e, {"tranStopped"}) <=> calls[e][k].pc = "tranStopped"
    BY <2>2, <2>3, OneMoves, GoingSets
  <2>5. Leaves(e)' => state'[e] = "remoteStopping" \/ calls'[e][k].pc = "tranStopped"
                        \/ (calls'[e][k].pc = "closing" /\ ~calls'[e][k].waits)
    <3>1. \A l \in DOMAIN calls[e] : l # k => calls'[e][l].pc \notin Going
      BY <2>2, <2>3 DEF OneGoes
    <3> QED
      BY <2>2, <3>1 DEF Leaves, Going, ClosingPCs
  <2>6. Leaves(e) <=> state[e] = "remoteStopping" \/ calls[e][k].pc = "tranStopped"
                        \/ (calls[e][k].pc = "closing" /\ ~calls[e][k].waits)
    <3>1. \A l \in DOMAIN calls[e] : l # k => calls[e][l].pc \notin Going
      BY <2>2, <2>3 DEF OneGoes
    <3> QED
      BY <2>2, <3>1 DEF Leaves, Going, ClosingPCs
  <2>7. CASE BeforeStoppingDone(e, k)
    <3>1. /\ UNCHANGED <<state, final>> /\ calls[e][k].pc = "beforeStopping" /\ (Goto(e, k, "tranStop") \/ Goto(e, k, "failed"))
      BY <1>a, <2>3, <2>7 DEF BeforeStoppingDone, At
    <3>2. calls'[e][k].pc \in {"tranStop", "failed"}
      BY <2>2, <3>1 DEF PCs
    <3> QED
      BY <2>4, <2>5, <2>6, <3>1, <3>2 DEF Goal, Out
  <2>8. CASE CloseChannels(e, k)
    <3>1. UNCHANGED <<state, final>> /\ calls[e][k].pc = "tranStop" /\ calls'[e][k].pc = "closing" /\ calls'[e][k].waits = AwaitsChannel(e)
      BY <2>2, <2>8 DEF CloseChannels, At
    <3>2. ~AwaitsChannel(e) => channel[e] \notin Up /\ channel'[e] = channel[e]
      BY <2>8 DEF CloseChannels, AwaitsChannel, IsClosing, StartClosing, Up, TypeOK
    <3> QED
      BY <2>4, <2>5, <2>6, <3>1, <3>2 DEF Goal, Out
  <2>9. CASE ChannelsClosed(e, k)
    <3>1. /\ UNCHANGED <<state, final, channel>> /\ calls[e][k].pc = "closing" /\ calls'[e][k].waits = calls[e][k].waits
          /\ calls[e][k].waits => channel[e] \in {"closed", "disconnected"} \/ tcc[e] = "closed"
      BY <2>2, <2>9 DEF ChannelsClosed, CloseChannels, At, channelVars
    <3>2. Goto(e, k, "waiting") \/ Goto(e, k, "failed") \/ (tcc[e] = "open" /\ Goto(e, k, "tranStopped"))
      BY <1>a, <2>3, <2>9 DEF ChannelsClosed
    <3>3. calls'[e][k].pc \in {"waiting", "failed"} \/ (calls'[e][k].pc = "tranStopped" /\ tcc[e] = "open")
      BY <2>2, <3>2 DEF PCs
    <3>4. {"closed", "disconnected"} \cap Up = {}
      BY DEF Up, Closing
    <3>5. calls[e][k] \in CallSet
      BY DEF TypeOK
    <3>6. calls[e][k].waits \in BOOLEAN
      BY <3>5 DEF CallSet
    <3>7. Leaves(e)' => Leaves(e) \/ channel'[e] \notin Up
      BY <2>5, <2>6, <3>1, <3>3, <3>4, <3>6
    <3> QED
      BY <2>4, <3>1, <3>7 DEF Goal, Out
  <2>10. CASE Timeout(e, k) \/ Finalized(e, k)
    <3>1. UNCHANGED <<state, final>> /\ calls[e][k].pc \in {"closing", "finalizing"} /\ (Goto(e, k, "waiting") \/ Goto(e, k, "failed"))
      BY <2>10 DEF Timeout, Finalized, At
    <3>2. calls'[e][k].pc \in {"waiting", "failed"}
      BY <2>2, <3>1 DEF PCs
    <3> QED
      BY <2>4, <2>5, <2>6, <3>1, <3>2 DEF Goal, Out
  <2>11. CASE TranStoppedSent(e, k)
    <3>1. calls[e][k].pc = "tranStopped"
      BY <2>11 DEF TranStoppedSent, At
    <3>2. CASE state[e] = "localStopping"
      BY <2>6, <2>11, <3>1, <3>2 DEF TranStoppedSent, RemoteIsDone, Goal, Out, Before
    <3>3. CASE state[e] # "localStopping"
      <4>1. state'[e] = "remoteStopping" /\ final' = final
        BY <2>11, <3>3 DEF TranStoppedSent, RemoteIsDone, TypeOK
      <4> QED
        BY <2>6, <3>1, <4>1 DEF Goal, Out, Before
    <3> QED
      BY <3>2, <3>3
  <2> QED
    BY <2>1, <2>7, <2>8, <2>9, <2>10, <2>11 DEF CallStep
<1>8. CASE TccClosed(e)
  <2>1. final[e] = "closing" /\ state[e] # "crashed" /\ calls'[e] = calls[e]
    BY <1>8 DEF TccClosed
  <2>2. state'[e] \in {"stopped", "disconnected"}
    BY <1>8 DEF TccClosed, TypeOK
  <2> QED
    BY <2>1, <2>2 DEF Goal, Out, Leaves, Before
<1>9. CASE Drained(e) \/ DrainFails(e)
  BY <1>9 DEF Drained, DrainFails, Goal, Out, Leaves, IsAt
<1>10. CASE OnChannelRequest(e) \/ OnChannelResponse(e) \/ OnChannelClose(e) \/ OnChannelClosed(e) \/ FinalizeHandled(e)
  BY <1>10, <1>c DEF OnChannelRequest, OnChannelResponse, OnChannelClose, OnChannelClosed, FinalizeHandled, stopVars
<1>11. CASE OnTransportStop(e)
  BY <1>11, <1>c, <1>d DEF OnTransportStop, NewStop
<1>12. CASE OnTransportStopped(e)
  <2>1. /\ calls'[e] = calls[e] /\ state'[e] = (IF state[e] = "stopping" THEN "localStopping" ELSE state[e])
        /\ state[e] # "remoteStopping" => final' = final
    BY <1>12 DEF OnTransportStopped, TypeOK
  <2> QED
    BY <1>12, <2>1 DEF Goal, Out, Leaves, IsAt, Before
<1>13. CASE Accept(e) \/ Reject(e)
  BY <1>13, <1>c DEF Accept, Reject, stopVars
<1>14. CASE HandlerStops(e)
  BY <1>14, <1>d DEF HandlerStops, NewStop
<1>15. CASE Crash(e)
  BY <1>15 DEF Crash, stopVars, TypeOK, Goal, Out, Leaves, Before
<1>16. CASE NoticeLoss(e) \/ Abort(e) \/ EndOfInput(e)
  <2>1. state'[e] = "disconnected" /\ UNCHANGED <<calls, final>>
    BY <1>16 DEF NoticeLoss, Abort, EndOfInput, OnDisconnect, TypeOK
  <2> QED
    BY <2>1 DEF Goal, Out, Leaves, Before
<1> QED
  BY <1>1, <1>2, <1>3, <1>4, <1>5, <1>6, <1>7, <1>8, <1>9, <1>10, <1>11, <1>12, <1>13, <1>14, <1>15, <1>16
  DEF Step, StartStep, TakeStep, HandlerStep

LEMMA TakesStopped ==
    ASSUME TypeOK, NEW e \in Ends, OnTransportStopped(e)
    PROVE  Drops(Queue(e), "tranStopped", Queue(e)') /\ Has(Queue(e), "tranStopped")
<1>1. Takes(e, {"tranStopped"}) /\ wire'[e] = wire[e] /\ Head(inbox[e]) = "tranStopped"
  BY DEF OnTransportStopped, Takes
<1>2. Drops(Queue(e), Head(inbox[e]), inbox'[e] \o wire'[e])
  BY <1>1, TakeEffect DEF Takes
<1>3. Queue(e)' = inbox'[e] \o wire'[e]
  BY DEF Queue
<1> QED
  BY <1>1, <1>2, <1>3 DEF Drops

(* An end is told once and for all, and not by itself. *)
LEMMA ToldBefore ==
    ASSUME TypeOK, Handshake, NEW e \in Ends, trouble \notin {"early", "text"}, Life(e), Step(e)
    PROVE  Told(e)' => Told(e)
<1>1. Has(Queue(e)', "tranStopped") => Has(Queue(e), "tranStopped")
  BY Taking DEF Drops, Cuts
<1>2. OnTransportStopped(e) => Has(Queue(e), "tranStopped")
  BY TakesStopped
<1> QED
  BY <1>1, <1>2, Leaving DEF Told

(* Only the other end tells, when it is on its way out. *)
LEMMA ToldNow ==
    ASSUME TypeOK, Handshake, NEW e \in Ends, NEW p \in Ends, p = Peer(e), Step(e)
    PROVE  /\ (\A x : Has(Queue(p), x) => Has(Queue(p)', x)) /\ (Told(p) => Told(p)')
           /\ Told(p)' => Told(p) \/ \E k \in DOMAIN calls[e] : ChannelsClosed(e, k) /\ state[e] # "disconnected" /\ tcc[e] = "open"
<1>1. state'[p] = state[p] /\ final'[p] = final[p]
  BY TwoEnds, OtherEnd DEF SameEnd
<1>2. \/ Queue(p)' = Queue(p)
      \/ \E m \in HandshakeMessages \cup Messages : SentBy(e, m) /\ ~lost /\ Adds(Queue(p), m, Queue(p)')
  BY Sending
<1>3. \A x : Has(Queue(p), x) => Has(Queue(p)', x)
  BY <1>2 DEF Adds
<1>4. /\ Has(Queue(p)', "tranStopped")
         => \/ Has(Queue(p), "tranStopped")
            \/ \E k \in DOMAIN calls[e] : ChannelsClosed(e, k) /\ state[e] # "disconnected" /\ tcc[e] = "open"
  BY <1>2 DEF Adds, SentBy
<1> QED
  BY <1>1, <1>3, <1>4 DEF Told

LEMMA PartsInit == Init => Parts
<1> SUFFICES ASSUME Init, NEW e \in Ends PROVE ~Told(e)
  BY DEF Parts
<1>1. inbox[e] = <<>> /\ wire[e] = <<>> /\ state[e] = "created" /\ final[e] = "none"
  BY DEF Init
<1>2. Queue(e) = <<>> /\ DOMAIN <<>> = {}
  BY <1>1 DEF Queue
<1> QED
  BY <1>1, <1>2 DEF Told, Has

LEMMA PartsStep == Base /\ Lives /\ Parts /\ [Next]_vars => Parts'
<1> SUFFICES ASSUME TypeOK, Handshake, Lives, Parts, [Next]_vars PROVE Parts'
  BY DEF Base
<1>1. CASE UNCHANGED vars
  BY <1>1 DEF vars, startVars, stopVars, channelVars, Parts, Told, Out, IsAt, Queue
<1>2. CASE Lose
  BY <1>2 DEF Lose, startVars, stopVars, channelVars, Parts, Told, Out, IsAt, Queue
<1>3. ASSUME NEW e \in Ends, Step(e) PROVE Parts'
  <2> DEFINE p == Peer(e)
  <2>1. p \in Ends /\ p # e /\ Peer(p) = e /\ \A f \in Ends : f = e \/ f = p
    BY TwoEnds
  <2>2. SameEnd(p) /\ trouble' = trouble
    BY <1>3, <2>1, OtherEnd
  <2>3. SUFFICES ASSUME trouble \notin {"accept", "early", "text"} PROVE (Told(e)' => Out(p)') /\ (Told(p)' => Out(e)')
    BY <2>1, <2>2 DEF Parts
  <2>4. Life(e) /\ (Told(e) => Out(p)) /\ (Told(p) => Out(e))
    BY <2>1, <2>3 DEF Lives, Parts
  <2>5. Out(p)' <=> Out(p)
    BY <2>2 DEF SameEnd, Out, IsAt
  <2>6. Told(e)' => Told(e)
    BY <1>3, <2>3, <2>4, ToldBefore
  <2>7. Told(p)' => Told(p) \/ \E k \in DOMAIN calls[e] : ChannelsClosed(e, k) /\ state[e] # "disconnected" /\ tcc[e] = "open"
    BY <1>3, <2>1, ToldNow
  <2>8. (Out(e) => Out(e)') /\ (IsAt(e, {"tranStopped"})' => Out(e)')
        /\ \A k \in DOMAIN calls[e] :
                 ChannelsClosed(e, k) /\ state[e] # "disconnected" /\ tcc[e] = "open" => IsAt(e, {"tranStopped"})'
    <3>1. IsAt(e, {"tranStopped"})' => Out(e)'
      BY DEF Out
    <3> QED
      BY <1>3, <2>3, <2>4, <3>1, Leaving
  <2> QED
    BY <2>4, <2>5, <2>6, <2>7, <2>8
<1> QED
  BY <1>1, <1>2, <1>3, Steps DEF vars

(* How the channel of an end changes. *)
LEMMA ChannelMoves ==
    ASSUME TypeOK, Handshake, Regular, NEW e \in Ends, Life(e), View(e), Step(e), NEW p \in Ends, p = Peer(e)
    PROVE  /\ channel'[e] \in Up /\ channel[e] \notin Up =>
                 /\ channel[e] = "none" /\ channel'[e] = "open"
                 /\ state[e] = "active" \/ (Has(Queue(e), "chanAccepted") /\ channel[p] # "none")
           /\ channel'[e] \in {"open", "closing", "localClosing"} =>
                 channel[e] \in {"open", "closing", "localClosing"} \/ channel[e] \notin Up
           /\ channel'[e] = "remoteClosing" => channel[e] \in {"remoteClosing", "closing"}
           /\ channel'[e] = "none" => channel[e] = "none"
<1> DEFINE Goal ==
           /\ channel'[e] \in Up /\ channel[e] \notin Up =>
                 /\ channel[e] = "none" /\ channel'[e] = "open"
                 /\ state[e] = "active" \/ (Has(Queue(e), "chanAccepted") /\ channel[p] # "none")
           /\ channel'[e] \in {"open", "closing", "localClosing"} =>
                 channel[e] \in {"open", "closing", "localClosing"} \/ channel[e] \notin Up
           /\ channel'[e] = "remoteClosing" => channel[e] \in {"remoteClosing", "closing"}
           /\ channel'[e] = "none" => channel[e] = "none"
<1>a. channel[e] \in States /\ channel \in [Ends -> States]
  BY DEF TypeOK, States
<1>b. ASSUME channel'[e] = channel[e] PROVE Goal
  BY <1>b, <1>a DEF States, Closing, Up
<1>c. ASSUME channel' = StartClosing(e) PROVE Goal
  <2>1. channel'[e] = IF channel[e] = "open" THEN "closing" ELSE channel[e]
    BY <1>a, <1>c DEF StartClosing
  <2> QED
    BY <2>1, <1>b DEF Up, Closing
<1>d. ASSUME OnDisconnect(e) PROVE Goal
  <2>1. channel'[e] = IF channel[e] \in Up THEN "disconnected" ELSE channel[e]
    BY <1>a, <1>d DEF OnDisconnect, DisconnectChannel, Up
  <2> QED
    BY <2>1, <1>b DEF Up, Closing
<1> SUFFICES Goal
  OBVIOUS
<1>1. CASE SendChanClosed(e)
  BY <1>1, <1>a DEF SendChanClosed, Up, Closing
<1>2. CASE Accept(e)
  <2>1. /\ state[e] = "active" /\ handling[e] \in Asking
        /\ channel'[e] = IF channel[e] \in {"none", "closed"} THEN "open" ELSE channel[e]
    BY <1>2, <1>a DEF Accept, Regular, Asking
  <2>2. channel[e] \in {"none", "disconnected"}
    BY <2>1 DEF View, Pair, Asks
  <2> QED
    BY <2>1, <2>2 DEF Up, Closing
<1>3. CASE OnChannelResponse(e)
  <2> DEFINE m == Head(inbox[e])
             c1 == channel'[e]
             c == channel[e]
             a1 == pending'[e]
  <2>1. Takes(e, Responses) /\ wire'[e] = wire[e] /\ m \in Responses /\ handling[e] \notin Asking
    BY <1>3 DEF OnChannelResponse, Takes, Asking
  <2>2. Drops(Queue(e), m, Queue(e)')
    <3>1. Drops(Queue(e), m, inbox'[e] \o wire'[e])
      BY <2>1, TakeEffect DEF Takes
    <3> QED
      BY <3>1 DEF Queue
  <2>3. c1 = (IF m = "chanAccepted" /\ pending[e] # "none" /\ c \in {"none", "closed"} THEN "open" ELSE c) /\ a1 = "none"
    BY <1>3, <1>a DEF OnChannelResponse, TypeOK
  <2>4. state[e] = "disconnected" => pending[e] = "none"
    BY DEF Life
  <2>5. channel[e] \in States /\ channel[p] \in States /\ lost \in BOOLEAN
    BY DEF TypeOK, States
  <2>6. Pair(lost, c, channel[p], Queue(p), Queue(e), state[e], state[p], pending[e], pending[p], handling[e], handling[p])
    BY DEF View
  <2> HIDE DEF c1, c, a1, m
  <2>7. c1 # c => c = "none" /\ channel[p] \in {"open", "closing", "remoteClosing", "disconnected"}
    BY <2>1, <2>2, <2>3, <2>4, <2>5, <2>6, ResponseKeeps DEF c
  <2>8. c1 # c => c1 = "open" /\ m = "chanAccepted"
    BY <2>3
  <2>9. m = "chanAccepted" => Has(Queue(e), "chanAccepted")
    BY <2>2 DEF Drops
  <2>10. channel'[e] # channel[e] => /\ channel[e] = "none" /\ channel[p] # "none" /\ channel'[e] = "open"
                                     /\ Has(Queue(e), "chanAccepted")
    BY <2>7, <2>8, <2>9 DEF c, c1
  <2> QED
    BY <1>b, <2>10 DEF Up, Closing
<1>4. CASE OnChannelClosed(e)
  BY <1>4, <1>a DEF OnChannelClosed, States, Up, Closing
<1>5. CASE OnChannelClose(e)
  BY <1>5, <1>c DEF OnChannelClose
<1>6. CASE \E k \in DOMAIN calls[e] : CallStep(e, k)
  <2>1. channel' = channel \/ channel' = StartClosing(e)
    BY <1>6 DEF CallStep, BeforeStoppingDone, CloseChannels, ChannelsClosed, Timeout, TranStoppedSent, Finalized, channelVars
  <2> HIDE DEF Goal
  <2> QED
    BY <1>b, <1>c, <2>1
<1>7. CASE NoticeLoss(e) \/ Abort(e) \/ EndOfInput(e)
  BY <1>7, <1>d DEF NoticeLoss, Abort, EndOfInput
<1>8. CASE \/ Start(e) \/ StartStep(e) \/ ReceiveText(e) \/ InputWhileDraining(e) \/ RequestChannel(e)
           \/ (\E timeout \in BOOLEAN : Stop(e, timeout))
           \/ TccClosed(e) \/ Drained(e) \/ DrainFails(e) \/ Receive(e) \/ Crash(e)
           \/ OnChannelRequest(e) \/ OnTransportStop(e) \/ OnTransportStopped(e) \/ FinalizeHandled(e)
           \/ Reject(e) \/ HandlerStops(e)
  <2>1. channel' = channel
    BY <1>8
    DEF Start, StartStep, ReceiveConfig, ReceiveStart, TextHandled, ReceiveText, InputWhileDraining, RequestChannel, Stop,
        TccClosed, Drained, DrainFails, Receive, Crash, OnChannelRequest, OnTransportStop, OnTransportStopped,
        FinalizeHandled, Reject, HandlerStops, channelVars
  <2> HIDE DEF Goal
  <2> QED
    BY <1>b, <2>1
<1> QED
  BY <1>1, <1>2, <1>3, <1>4, <1>5, <1>6, <1>7, <1>8 DEF Step, TakeStep, HandlerStep

LEMMA EndingStep ==
    ASSUME TypeOK, Handshake, Lives, Parts, Regular, NEW e \in Ends, NEW p \in Ends, p = Peer(e),
           View(e), Ending(e), Ending(p), Step(e)
    PROVE  Ending(e)' /\ Ending(p)'
<1> DEFINE c == channel[e]
           c1 == channel'[e]
           d == channel[p]
           q == Queue(p)
           q1 == Queue(p)'
           r == Queue(e)
           r1 == Queue(e)'
           Clear(x) == Has(x, "chanClosed") /\ Ordered(x, "chanClosed", "tranStopped")
           Tells1 == \E k \in DOMAIN calls[e] : ChannelsClosed(e, k) /\ state[e] # "disconnected" /\ tcc[e] = "open"
           Sent1 == \E k \in DOMAIN calls[e] : TranStoppedSent(e, k)
(* What is known of both ends. *)
<1>a. p # e /\ Peer(p) = e /\ \A f \in Ends : f = e \/ f = p
  BY TwoEnds
<1>b. /\ channel'[p] = d /\ state'[p] = state[p] /\ final'[p] = final[p] /\ calls'[p] = calls[p]
  BY <1>a, OtherEnd DEF SameEnd
<1>c. Life(e) /\ Life(p) /\ trouble \notin {"accept", "early", "text", "sending"}
  BY DEF Lives, Regular, WithoutChannel
<1>d. (Told(e) => Out(p)) /\ (Told(p) => Out(e))
  BY <1>a, <1>c DEF Parts
<1>e. c \in States /\ c1 \in States /\ d \in States
  <2>1. TypeOK'
    <3>1. Next
      BY Steps
    <3> QED
      BY <3>1, TypeStep
  <2> QED
    BY <2>1 DEF TypeOK, States
<1>f. state[e] = "active" => ~Out(e) /\ ~Leaves(e)
  <2>1. state[e] = "active" => ~IsAt(e, Going)
    BY <1>c DEF Life
  <2> QED
    BY <2>1 DEF Out, Leaves, IsAt, Going, ClosingPCs
<1>g. c = "disconnected" => state[e] = "disconnected"
  BY <1>c DEF Life
<1>h. state[e] = "disconnected" => c \notin Up
  BY <1>c DEF Life
<1>i. state[p] = "disconnected" => d \notin Up
  BY <1>c DEF Life
<1>j. Tells(c, d, q) /\ Tells(d, c, r) /\ (~lost /\ state[p] # "disconnected" => Delivers(c, d, q))
  BY DEF View, Pair
(* What the step does. *)
<1>k. /\ c1 \in Up /\ c \notin Up => c = "none" /\ c1 = "open" /\ (state[e] = "active" \/ (Has(r, "chanAccepted") /\ d # "none"))
      /\ c1 \in {"open", "closing", "localClosing"} => c \in {"open", "closing", "localClosing"} \/ c \notin Up
      /\ c1 = "remoteClosing" => c \in {"remoteClosing", "closing"}
      /\ c1 = "none" => c = "none"
  BY <1>c, ChannelMoves
<1>l. /\ \A x : Has(r1, x) => Has(r, x)
      /\ Ordered(r, "chanClosed", "tranStopped") => Ordered(r1, "chanClosed", "tranStopped")
      /\ c1 = "remoteClosing" /\ c = "remoteClosing" /\ Has(r, "chanClosed") => Has(r1, "chanClosed")
  <2>1. OnDisconnect(e) => c1 # "remoteClosing"
    BY DEF OnDisconnect, DisconnectChannel, Up, Closing, TypeOK
  <2>2. OnChannelClosed(e) /\ c = "remoteClosing" => c1 # "remoteClosing"
    BY DEF OnChannelClosed, TypeOK
  <2> HIDE DEF c, c1, r, r1
  <2>3. \/ r1 = r
        \/ \E m \in HandshakeMessages \cup Messages : TakenBy(e, m) /\ Drops(r, m, r1)
        \/ OnDisconnect(e) /\ Cuts(r, r1)
    BY Taking DEF r, r1
  <2>4. CASE r1 = r
    BY <2>4
  <2>5. ASSUME NEW m, TakenBy(e, m), Drops(r, m, r1)
        PROVE  /\ \A x : Has(r1, x) => Has(r, x)
               /\ Ordered(r, "chanClosed", "tranStopped") => Ordered(r1, "chanClosed", "tranStopped")
               /\ c1 = "remoteClosing" /\ c = "remoteClosing" /\ Has(r, "chanClosed") => Has(r1, "chanClosed")
    BY <2>2, <2>5 DEF TakenBy, Drops
  <2>6. CASE OnDisconnect(e) /\ Cuts(r, r1)
    BY <2>1, <2>6 DEF Cuts
  <2> QED
    BY <2>3, <2>4, <2>5, <2>6
<1>m. /\ \A x : Has(q, x) => Has(q1, x)
      /\ Has(q1, "chanAccepted") => Has(q, "chanAccepted") \/ state[e] = "active"
      /\ Ordered(q, "chanClosed", "tranStopped") => Ordered(q1, "chanClosed", "tranStopped") \/ c \in {"closing", "localClosing"}
      /\ ~Has(q, "tranStopped") => Ordered(q1, "chanClosed", "tranStopped")
      /\ lost => q1 = q
  <2>1. Accept(e) => state[e] = "active"
    BY <1>c DEF Accept
  <2>2. SendChanClosed(e) => c \in {"closing", "localClosing"}
    BY DEF SendChanClosed
  <2> HIDE DEF c, q, q1
  <2>3. q1 = q \/ \E m \in HandshakeMessages \cup Messages : SentBy(e, m) /\ ~lost /\ Adds(q, m, q1)
    BY Sending DEF q, q1
  <2>4. ~Has(q, "tranStopped") => Ordered(q, "chanClosed", "tranStopped")
    BY DEF Has, Ordered
  <2>5. CASE q1 = q
    BY <2>4, <2>5
  <2>6. ASSUME NEW m, SentBy(e, m), ~lost, Adds(q, m, q1)
        PROVE  /\ \A x : Has(q, x) => Has(q1, x)
               /\ Has(q1, "chanAccepted") => Has(q, "chanAccepted") \/ state[e] = "active"
               /\ Ordered(q, "chanClosed", "tranStopped") => Ordered(q1, "chanClosed", "tranStopped") \/ c \in {"closing", "localClosing"}
               /\ ~Has(q, "tranStopped") => Ordered(q1, "chanClosed", "tranStopped")
    BY <2>1, <2>2, <2>4, <2>6 DEF SentBy, Adds
  <2> QED
    BY <2>3, <2>5, <2>6
<1>n. Told(e)' => Told(e)
  BY <1>c, ToldBefore
<1>o. (Told(p) => Told(p)') /\ (Told(p)' => Told(p) \/ Tells1)
  BY ToldNow
<1>p. Tells1 => c1 = c /\ state[e] \notin {"disconnected", "active"} /\ (Leaves(e) \/ c = "closed") /\ Leaves(e)'
  <2> SUFFICES ASSUME NEW k \in DOMAIN calls[e], ChannelsClosed(e, k), state[e] # "disconnected", tcc[e] = "open"
               PROVE  c1 = c /\ state[e] # "active" /\ (Leaves(e) \/ c = "closed") /\ Leaves(e)'
    OBVIOUS
  <2>1. c1 = c /\ calls[e][k].pc = "closing" /\ (calls[e][k].waits => c \in {"closed", "disconnected"})
    BY DEF ChannelsClosed, At, channelVars
  <2>2. calls[e][k] \in CallSet
    BY DEF TypeOK
  <2>3. calls[e][k].waits \in BOOLEAN
    BY <2>2 DEF CallSet
  <2>4. Leaves(e) \/ c = "closed"
    <3>1. CASE calls[e][k].waits
      BY <1>g, <2>1, <3>1
    <3>2. CASE ~calls[e][k].waits
      BY <2>1, <3>2 DEF Leaves
    <3> QED
      BY <2>3, <3>1, <3>2
  <2>5. state[e] # "active"
    BY <1>c, <2>1 DEF Life, IsAt, Going, ClosingPCs
  <2>6. Leaves(e)'
    <3>1. IsAt(e, {"tranStopped"})'
      BY <1>c, Leaving
    <3> QED
      BY <3>1 DEF IsAt, Leaves
  <2> QED
    BY <2>1, <2>4, <2>5, <2>6
<1>q. /\ Leaves(e)' => Leaves(e) \/ c1 \notin Up
      /\ state'[e] = "localStopping" => state[e] = "localStopping" \/ OnTransportStopped(e)
      /\ final'[e] # "none" => \/ final[e] # "none"
                               \/ OnTransportStopped(e) /\ state[e] = "remoteStopping"
                               \/ Sent1 /\ state[e] = "localStopping"
  BY <1>c, Leaving
<1>r. OnTransportStopped(e) => c1 = c /\ ~Clear(r) /\ Told(e) /\ (state[e] = "remoteStopping" => Leaves(e))
  <2>1. OnTransportStopped(e) => c1 = c
    BY DEF OnTransportStopped, channelVars
  <2>2. OnTransportStopped(e) => Drops(r, "tranStopped", r1) /\ Has(r, "tranStopped")
    BY TakesStopped
  <2>3. Drops(r, "tranStopped", r1) => ~Clear(r)
    BY DEF Drops
  <2> QED
    BY <2>1, <2>2, <2>3 DEF Told, Leaves
<1>s. Sent1 => c1 = c /\ Leaves(e)
  BY DEF TranStoppedSent, At, channelVars, Leaves
<1>t. /\ Leaves(p)' <=> Leaves(p)
      /\ channel'[p] = d
  BY <1>b DEF Leaves
<1>u. state[e] = "localStopping" \/ final[e] # "none" => Told(e)
  BY DEF Told
<1>v. state[p] = "localStopping" \/ final[p] # "none" \/ Has(q, "tranStopped") => Told(p)
  BY DEF Told
<1>w. /\ Leaves(e) /\ d = "none" => c \notin Up
      /\ Leaves(e) /\ Leaves(p) => c \notin Up \/ d \notin Up
      /\ Told(e) /\ c = "none" => d \notin Up /\ ~Has(r, "chanAccepted")
      /\ Leaves(e) /\ Told(e) => c \notin {"open", "closing", "localClosing"}
      /\ Leaves(e) /\ Told(e) /\ c = "remoteClosing" => state[e] # "localStopping" /\ final[e] = "none" /\ Clear(r)
      /\ final[e] # "none" => /\ c \notin Up /\ d \notin {"open", "closing", "localClosing"}
                              /\ d = "none" => ~Has(q, "chanAccepted")
  BY DEF Ending, Unopened, NotBoth, ToldNone, ToldLeaves, Finalizes
<1>x. /\ Leaves(p) /\ c = "none" => d \notin Up
      /\ Told(p) /\ d = "none" => c \notin Up /\ ~Has(q, "chanAccepted")
      /\ Leaves(p) /\ Told(p) => d \notin {"open", "closing", "localClosing"}
      /\ Leaves(p) /\ Told(p) /\ d = "remoteClosing" => state[p] # "localStopping" /\ final[p] = "none" /\ Clear(q)
      /\ final[p] # "none" => /\ d \notin Up /\ c \notin {"open", "closing", "localClosing"}
                              /\ c = "none" => ~Has(r, "chanAccepted")
  BY <1>a DEF Ending, Unopened, NotBoth, ToldNone, ToldLeaves, Finalizes
<1> HIDE DEF c, c1, d, q, q1, r, r1, Clear, Tells1, Sent1
<1>1. Leaves(e)' /\ d = "none" => c1 \notin Up
  BY <1>f, <1>k, <1>q, <1>w
<1>2. Leaves(p)' /\ c1 = "none" => d \notin Up
  BY <1>k, <1>t, <1>x
<1>3. Leaves(e)' /\ Leaves(p)' => c1 \notin Up \/ d \notin Up
  BY <1>f, <1>k, <1>q, <1>t, <1>w, <1>x
<1>4. Told(e)' /\ c1 = "none" => d \notin Up /\ ~Has(r1, "chanAccepted")
  BY <1>k, <1>l, <1>n, <1>w
<1>5. Told(p)' /\ d = "none" => c1 \notin Up /\ ~Has(q1, "chanAccepted")
  <2>1. CASE Told(p)
    BY <1>d, <1>f, <1>k, <1>m, <1>x, <2>1
  <2>2. CASE Tells1 /\ d = "none"
    <3>1. c1 \notin Up
      BY <1>p, <1>w, <2>2 DEF Up, Closing
    <3>2. ~Has(q, "chanAccepted")
      BY <1>e, <1>g, <1>j, <1>p, <2>2, <3>1 DEF Tells, Up, Closing
    <3> QED
      BY <1>m, <1>p, <2>2, <3>1, <3>2
  <2> QED
    BY <1>o, <2>1, <2>2
<1>6. Leaves(e)' /\ Told(e)' => c1 \notin {"open", "closing", "localClosing"}
  <2>1. CASE Leaves(e)
    <3>1. Told(e) /\ c \notin Up => c1 \notin Up
      BY <1>f, <1>k, <1>w, <2>1
    <3> QED
      BY <1>k, <1>n, <1>w, <2>1, <3>1 DEF Up, Closing
  <2>2. CASE ~Leaves(e)
    BY <1>q, <2>2 DEF Up, Closing
  <2> QED
    BY <2>1, <2>2
<1>7. Leaves(e)' /\ Told(e)' /\ c1 = "remoteClosing" => state'[e] # "localStopping" /\ final'[e] = "none" /\ Clear(r1)
  <2>1. SUFFICES ASSUME Leaves(e)', Told(e)', c1 = "remoteClosing"
                 PROVE  state'[e] # "localStopping" /\ final'[e] = "none" /\ Clear(r1)
    OBVIOUS
  <2>2. Leaves(e) /\ Told(e) /\ c = "remoteClosing"
    BY <1>k, <1>n, <1>q, <1>w, <2>1 DEF Up, Closing
  <2>3. state[e] # "localStopping" /\ final[e] = "none" /\ Clear(r)
    BY <1>w, <2>2
  <2>4. Clear(r1)
    BY <1>l, <2>1, <2>2, <2>3 DEF Clear
  <2> QED
    BY <1>q, <1>r, <2>3, <2>4
<1>8. Leaves(p)' /\ Told(p)' => /\ d \notin {"open", "closing", "localClosing"}
                                /\ d = "remoteClosing" => state'[p] # "localStopping" /\ final'[p] = "none" /\ Clear(q1)
  <2>1. CASE Told(p) /\ Leaves(p)
    <3>1. d = "remoteClosing" => c \notin {"closing", "localClosing"}
      BY <1>j, <1>x, <2>1 DEF Clear, Tells
    <3> QED
      BY <1>b, <1>m, <1>x, <2>1, <3>1 DEF Clear
  <2>2. CASE Tells1 /\ ~Told(p) /\ Leaves(p)
    <3>1. c # "disconnected"
      BY <1>g, <1>p, <2>2
    <3>2. c = "closed" => d \in {"remoteClosing", "closed", "disconnected"}
      BY <1>j DEF Tells
    <3>3. d \in Up => d = "remoteClosing" /\ c = "closed"
      <4>1. c \notin Up => c \in {"none", "closed"}
        BY <1>e, <3>1 DEF States, Up
      <4>2. d \in Up => c \notin Up /\ c # "none"
        <5>1. CASE Leaves(e)
          BY <1>w, <1>x, <2>2, <5>1
        <5>2. CASE c = "closed"
          BY <5>2 DEF Up, Closing
        <5> QED
          BY <1>p, <2>2, <5>1, <5>2
      <4> QED
        BY <3>2, <4>1, <4>2 DEF Up, Closing
    <3>4. d = "remoteClosing" => Clear(q1) \/ lost
      <4>1. d = "remoteClosing" => d \in Up
        BY DEF Up, Closing
      <4>2. d = "remoteClosing" /\ ~lost => Has(q, "chanClosed")
        BY <1>i, <1>j, <3>3, <4>1 DEF Delivers
      <4> QED
        BY <1>m, <1>v, <2>2, <4>2 DEF Clear
    <3>5. Told(p)' => ~lost
      BY <1>b, <1>m, <1>v, <2>2 DEF Told, q, q1
    <3> QED
      BY <1>b, <1>v, <2>2, <3>3, <3>4, <3>5 DEF Up, Closing
  <2> QED
    BY <1>o, <1>t, <2>1, <2>2
<1>9. final'[e] # "none" => /\ c1 \notin Up /\ d \notin {"open", "closing", "localClosing"}
                            /\ d = "none" => ~Has(q1, "chanAccepted")
  <2>1. CASE final[e] # "none"
    <3>1. state[e] # "active"
      BY <1>c, <2>1 DEF Life
    <3> QED
      BY <1>k, <1>m, <1>u, <1>w, <2>1, <3>1
  <2>2. CASE (OnTransportStopped(e) /\ state[e] = "remoteStopping") \/ (Sent1 /\ state[e] = "localStopping")
    <3>1. Leaves(e) /\ Told(e) /\ c1 = c /\ state[e] \in {"remoteStopping", "localStopping"}
      BY <1>r, <1>s, <1>u, <2>2
    <3>2. c \notin Up
      BY <1>r, <1>w, <2>2, <3>1 DEF Up, Closing
    <3>3. c # "disconnected" /\ c \in {"none", "closed"}
      BY <1>e, <1>g, <3>1, <3>2 DEF States, Up
    <3>4. d \notin {"open", "closing", "localClosing"}
      BY <1>j, <1>w, <3>1, <3>3 DEF Tells, Up, Closing
    <3>5. d = "none" => ~Has(q, "chanAccepted")
      BY <1>j, <3>3 DEF Tells
    <3> QED
      BY <1>m, <3>1, <3>2, <3>4, <3>5
  <2> QED
    BY <1>q, <2>1, <2>2
<1>10. final'[p] # "none" => /\ d \notin Up /\ c1 \notin {"open", "closing", "localClosing"}
                             /\ c1 = "none" => ~Has(r1, "chanAccepted")
  BY <1>b, <1>d, <1>f, <1>k, <1>l, <1>v, <1>x DEF Up, Closing
<1>11. Ending(e)'
  BY <1>1, <1>3, <1>4, <1>6, <1>7, <1>9, <1>t
  DEF Ending, Unopened, NotBoth, ToldNone, ToldLeaves, Finalizes, c1, d, q1, r1, Clear
<1>12. Ending(p)'
  BY <1>2, <1>3, <1>5, <1>8, <1>10, <1>a, <1>t
  DEF Ending, Unopened, NotBoth, ToldNone, ToldLeaves, Finalizes, c1, d, q1, r1, Clear
<1> QED
  BY <1>11, <1>12

LEMMA EndInvInit == Init => EndInv
<1> SUFFICES ASSUME Init, NEW e \in Ends PROVE Ending(e)
  BY DEF EndInv
<1>1. /\ inbox[e] = <<>> /\ wire[e] = <<>> /\ state[e] = "created" /\ final[e] = "none"
      /\ calls[e] = <<>> /\ DOMAIN calls[e] = {}
  BY DEF Init
<1>2. Queue(e) = <<>> /\ DOMAIN <<>> = {}
  BY <1>1 DEF Queue
<1>3. ~Told(e) /\ ~Leaves(e)
  BY <1>1, <1>2 DEF Told, Has, Leaves
<1> QED
  BY <1>1, <1>3 DEF Ending, Unopened, NotBoth, ToldNone, ToldLeaves, Finalizes

LEMMA EndInvStep == Base /\ Lives /\ ChannelInv /\ Parts /\ EndInv /\ [Next]_vars => EndInv'
<1> SUFFICES ASSUME TypeOK, Handshake, Lives, ChannelInv, Parts, EndInv, [Next]_vars, Regular' PROVE \A e \in Ends : Ending(e)'
  BY DEF Base, EndInv
<1>1. CASE UNCHANGED vars \/ Lose
  <2>1. UNCHANGED <<trouble, state, channel, calls, final, inbox, wire>>
    BY <1>1 DEF vars, Lose, stopVars, channelVars
  <2>2. \A e \in Ends : Ending(e)
    BY <2>1 DEF EndInv, Regular
  <2> QED
    BY <2>1, <2>2 DEF Ending, Unopened, NotBoth, ToldNone, ToldLeaves, Finalizes, Leaves, Told, Queue
<1>2. ASSUME NEW e \in Ends, Step(e) PROVE \A f \in Ends : Ending(f)'
  <2> DEFINE p == Peer(e)
  <2>1. p \in Ends /\ p # e /\ \A f \in Ends : f = e \/ f = p
    BY TwoEnds
  <2>2. trouble' = trouble
    BY <1>2, <2>1, OtherEnd
  <2>3. Regular /\ View(e) /\ Ending(e) /\ Ending(p)
    BY <2>1, <2>2 DEF Regular, ChannelInv, EndInv
  <2>4. Ending(e)' /\ Ending(p)'
    BY <1>2, <2>1, <2>3, EndingStep
  <2> QED
    BY <2>1, <2>4
<1> QED
  BY <1>1, <1>2, Steps DEF vars

(* The inductive invariant, all of it. *)
Inv == Base /\ Quiet /\ Lives /\ ChannelInv /\ Parts /\ EndInv

LEMMA InvAlways == Spec => []Inv
<1>1. Init => Inv
  BY BaseInit, QuietInit, LivesInit, ChannelInvInit, PartsInit, EndInvInit DEF Inv
<1>2. Inv /\ [Next]_vars => Inv'
  BY BaseStep, QuietStep, LivesStep, ChannelInvStep, PartsStep, EndInvStep DEF Inv
<1> QED
  BY <1>1, <1>2, PTL DEF Spec

(* However the stops of the two ends, the requests for channels and the    *)
(* loss of the connection interleave, a transport that is stopped or       *)
(* disconnected has no channel that is still open or closing (stop,        *)
(* #onDisconnect, #onChannelRequest, #onChannelResponse), but with the     *)
(* troubles that are named.                                                *)
THEOREM NoneOutlives == Spec => []NoChannelOutlives
<1>1. ASSUME Inv PROVE NoChannelOutlives
  <2>1. TypeOK
    BY <1>1 DEF Inv, Base
  <2>2. ASSUME trouble \notin {"accept", "early"}, NEW e \in Ends, state[e] \in Terminal
        PROVE  channel[e] \notin {"open"} \cup Closing
    <3>1. CASE trouble \in WithoutChannel
      BY <1>1, <3>1 DEF Inv, Quiet, Closing
    <3>2. CASE trouble \notin WithoutChannel
      <4>1. Life(e) /\ Ending(e)
        BY <1>1, <2>2, <3>2 DEF Inv, Lives, EndInv, Regular, WithoutChannel
      <4>2. state[e] = "disconnected" => channel[e] \notin Up
        BY <2>2, <4>1 DEF Life
      <4>3. state[e] = "stopped" => channel[e] \notin Up
        BY <4>1 DEF Life, Ending, Finalizes
      <4> QED
        BY <2>2, <4>2, <4>3 DEF Terminal, Up
    <3> QED
      BY <3>1, <3>2
  <2> QED
    BY <2>1, <2>2 DEF NoChannelOutlives
<1> QED
  BY <1>1, InvAlways, PTL

(* The handshake of stopping has no short cut: an end is stopped only when *)
(* the other has sent its tranStopped, and with it all there was to write  *)
(* on its channel (stop, #onTransportStop, #onTransportStopped).           *)
THEOREM StopTogether == Spec => []StoppedTogether
<1>1. ASSUME Inv PROVE StoppedTogether
  <2> SUFFICES ASSUME trouble \notin {"accept", "early", "text"}, NEW e \in Ends, state[e] = "stopped"
               PROVE  /\ channel[Peer(e)] \notin {"open", "closing", "localClosing"}
                      /\ \/ state[Peer(e)] \notin {"starting", "active", "stopping"}
                         \/ \E k \in DOMAIN calls[Peer(e)] : calls[Peer(e)][k].pc = "tranStopped"
    BY DEF StoppedTogether
  <2>1. Peer(e) \in Ends
    BY TwoEnds
  <2>2. Life(e) /\ (Told(e) => Out(Peer(e)))
    BY <1>1 DEF Inv, Lives, Parts
  <2>3. final[e] # "none"
    BY <2>2 DEF Life
  <2>4. Out(Peer(e))
    BY <2>2, <2>3 DEF Told
  <2>5. channel[Peer(e)] \notin {"open", "closing", "localClosing"}
    <3>1. CASE trouble \in WithoutChannel
      BY <1>1, <2>1, <3>1 DEF Inv, Quiet
    <3>2. CASE trouble \notin WithoutChannel
      BY <1>1, <2>3, <3>2 DEF Inv, EndInv, Regular, Ending, Finalizes
    <3> QED
      BY <3>1, <3>2
  <2> QED
    BY <2>4, <2>5 DEF Out, IsAt, Before
<1> QED
  BY <1>1, InvAlways, PTL
===============================================================================
