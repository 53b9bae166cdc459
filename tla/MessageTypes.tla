---------------------------- MODULE MessageTypes ----------------------------
(***************************************************************************)
(* Registering message types by name, and reading by type (src/            *)
(* channel.esm.js: addMessageTypes, #onMesgTypeRegRequest,                 *)
(* #onMesgTypeRegResponse, #settleMessageType, read, #readSync,            *)
(* #receiveDataMessage, #findReader, #onDisconnect).  Either end may       *)
(* register a name, both at once included: the type then has two ids and   *)
(* settles on the smaller, while messages written under the larger are     *)
(* still under way, arrived, or being waited for.                          *)
(*                                                                         *)
(* Both ends register; the data of one direction is followed, in messages  *)
(* of one chunk (DechunkedRead has the chunks).  The wire of an end stands *)
(* for its peer's write queue, the transport and the input buffer; several *)
(* messages may be handled before a reader that was woken continues.       *)
(***************************************************************************)
EXTENDS RoleIds, FiniteSets, SequencesExt

CONSTANTS
    Names,          \* names of message types
    Registrations,  \* arguments of addMessageTypes: sets of names
    MaxRequests,    \* bound: registration requests sent
    MaxWrites,      \* bound: data messages written
    MaxReads        \* bound: calls of read

Ends == {"a", "b"}
Peer(e) == CHOOSE p \in Ends : p # e
All == "all"  \* an unfiltered read; a filtered one is for a name

ASSUME NamesAssumption == All \notin Names
ASSUME RegistrationsAssumption == Registrations \subseteq SUBSET Names
ASSUME BoundsAssumption == {MaxRequests, MaxWrites, MaxReads} \subseteq Nat

VARIABLES
    careful,   \* the applications are careful (see the properties)
    reader,    \* the end that reads; its peer writes
    types,     \* types[e]: the names in messageTypes, their ids and whether a promise is pending
    names,     \* names[e]: the ids in messageTypes and the name of each
    nextId,    \* nextId[e]: #nextMessageTypeId
    handlers,  \* handlers[e]: #onMesgTypeRegRequest calls in a newMessageType event
    wire,      \* wire[e]: what is on its way to e
    closed,    \* closed[e]: the channel of e is disconnected
    remapping, \* of the reader: #mesgTypeRemapping
    chunks,    \* of the reader: #dataChunks, in order of arrival
    chained,   \* of the reader: the keys of #typeChain
    reads,     \* of the reader: the read call in progress for each filter
    requested, written, called,  \* numbers of requests, messages and reads so far
    faults     \* what must not happen

typeVars == <<types, names, nextId>>
readVars == <<remapping, chunks, chained, reads>>
countVars == <<requested, written, called>>
vars == <<careful, reader, typeVars, handlers, wire, closed, readVars, countVars, faults>>

Filters == Names \cup {All}
NoRead == [state |-> "none", under |-> {}, got |-> 0]

Request(ns) == [type |-> "request", names |-> ns]
Response(accept, reject) == [type |-> "response", accept |-> accept, reject |-> reject]
Data(id, n) == [type |-> "data", id |-> id, name |-> n, serial |-> written]
Send(e, m) == wire' = [wire EXCEPT ![Peer(e)] = IF closed[Peer(e)] THEN @ ELSE Append(@, m)]
Received(e) == wire' = [wire EXCEPT ![e] = Tail(@)]
NextIs(e, type) == ~closed[e] /\ wire[e] # <<>> /\ Head(wire[e]).type = type

Init ==
    /\ careful \in BOOLEAN /\ reader \in Ends
    /\ types = [e \in Ends |-> <<>>] /\ names = [e \in Ends |-> <<>>]
    /\ nextId = [a |-> 2, b |-> 3]  \* a has the even role, b the odd one
    /\ handlers = [e \in Ends |-> {}] /\ wire = [e \in Ends |-> <<>>]
    /\ closed = [e \in Ends |-> FALSE]
    /\ remapping = <<>> /\ chunks = <<>> /\ chained = {}
    /\ reads = [f \in Filters |-> NoRead]
    /\ requested = 0 /\ written = 0 /\ called = 0
    /\ faults = {}

----------------------------------------------------------------------------
(* Registration *)

Known(e, n) == n \in DOMAIN types[e]
IdsOf(e, n) == IF Known(e, n) THEN types[e][n].ids ELSE <<>>
Pending(e, n) == Known(e, n) /\ types[e][n].pending
Entry(ids, pending) == [ids |-> ids, pending |-> pending]

NewEntry(n) == Entry(<<>>, TRUE)
Put(f, x, v) == [y \in DOMAIN f \cup {x} |-> IF y = x THEN v ELSE f[y]]

(* addMessageTypes: a type that has an id is done, one that is pending is  *)
(* waited for, and the others are requested in one message.  They are in   *)
(* any order, so a request is a set.                                       *)
AddMessageTypes(e, ns) ==
    LET new == {n \in ns : ~Known(e, n)}
    IN  /\ ~closed[e] /\ requested < MaxRequests /\ new # {}
        /\ careful => \E n \in Names : ns = {n}
        /\ types' = [types EXCEPT ![e] =
                       [n \in DOMAIN @ \cup new |-> IF n \in new THEN NewEntry(n) ELSE @[n]]]
        /\ Send(e, Request(new))
        /\ requested' = requested + 1
        /\ UNCHANGED <<careful, reader, names, nextId, handlers, closed, readVars, written, called, faults>>

(* #onMesgTypeRegRequest up to its first newMessageType event.  The calls  *)
(* are not awaited: one may overtake another.                              *)
OnRequest(e) ==
    /\ NextIs(e, "request") /\ Received(e)
    /\ handlers' = [handlers EXCEPT ![e] =
                       @ \cup {[names |-> Head(wire[e]).names, accept |-> <<>>, reject |-> {}]}]
    /\ UNCHANGED <<careful, reader, typeVars, closed, readVars, countVars, faults>>

(* The handlers of the event for a name are done.  A type that has         *)
(* an id keeps it, another one gets our next id; with the last name the    *)
(* response is sent.                                                       *)
MutAssignsAnyway(e, n) == TRUE
NeedsId(e, n) == IdsOf(e, n) = <<>>
NextTypeId(id) == id + 2
AcceptName(e, n) ==
    IF NeedsId(e, n)
    THEN /\ types' = [types EXCEPT ![e] = Put(@, n, Entry(<<nextId[e]>>, Pending(e, n)))]
         /\ names' = [names EXCEPT ![e] = Put(@, nextId[e], n)]
         /\ nextId' = [nextId EXCEPT ![e] = NextTypeId(@)]
    ELSE UNCHANGED typeVars

MutSendsAcceptance(accept, reject) == accept # <<>>
SendsResponse(accept, reject) == TRUE
HandleName(e, h, n, accepted) ==
    LET rest == h.names \ {n}
        accept == IF accepted THEN Put(h.accept, n, types'[e][n].ids[1]) ELSE h.accept
        reject == IF accepted THEN h.reject ELSE h.reject \cup {n}
        left == [names |-> rest, accept |-> accept, reject |-> reject]
    IN  /\ IF accepted THEN AcceptName(e, n) ELSE UNCHANGED typeVars
        /\ handlers' = [handlers EXCEPT ![e] = (@ \ {h}) \cup (IF rest = {} THEN {} ELSE {left})]
        /\ IF rest = {} /\ SendsResponse(accept, reject)
           THEN Send(e, Response(accept, reject))
           ELSE UNCHANGED wire
        /\ UNCHANGED <<careful, reader, closed, readVars, countVars, faults>>

(* #settleMessageType for each pair of a smaller and a larger id: what has *)
(* arrived under the larger is relabelled, though it stays in its chain,   *)
(* and a read that waits under the larger waits under the smaller too.     *)
SettleReads(settled) ==
    [f \in Filters |-> [reads[f] EXCEPT !.under =
        @ \cup {settled[high] : high \in DOMAIN settled \cap @}]]
SettleMessageTypes(settled) ==
    /\ remapping' = [id \in DOMAIN remapping \cup DOMAIN settled |->
                       IF id \in DOMAIN settled THEN settled[id] ELSE remapping[id]]
    /\ chunks' = [i \in DOMAIN chunks |->
                    [chunks[i] EXCEPT !.active = IF @ \in DOMAIN settled THEN settled[@] ELSE @]]
    /\ reads' = SettleReads(settled)
    /\ UNCHANGED chained

(* #onMesgTypeRegResponse *)
Rejected(e, m) == {n \in m.reject : Pending(e, n)}
NamesAccepted(e, accept) ==
    [id \in DOMAIN names[e] \cup Range(accept) |->
        IF id \in Range(accept) THEN CHOOSE n \in DOMAIN accept : accept[n] = id ELSE names[e][id]]
OnResponse(e) ==
    LET m == Head(wire[e])
        accepted == DOMAIN m.accept
        ids == [n \in accepted |-> AddRoleId(IdsOf(e, n), m.accept[n])]
        both == {n \in accepted : Len(ids[n]) = 2 /\ ids[n][2] \notin DOMAIN remapping}
        settled == [id \in {ids[n][2] : n \in both} |-> (CHOOSE n \in both : ids[n][2] = id)]
    IN  /\ NextIs(e, "response") /\ Received(e)
        /\ IF \A n \in accepted : MayAddRoleId(IdsOf(e, n), m.accept[n])
           THEN /\ types' = [types EXCEPT ![e] =
                       [n \in (DOMAIN @ \cup accepted) \ Rejected(e, m) |->
                           IF n \in accepted THEN Entry(ids[n], FALSE) ELSE @[n]]]
                /\ names' = [names EXCEPT ![e] = NamesAccepted(e, m.accept)]
                /\ IF e = reader
                   THEN SettleMessageTypes([id \in DOMAIN settled |-> ids[settled[id]][1]])
                   ELSE UNCHANGED readVars
                /\ UNCHANGED faults
           ELSE /\ faults' = faults \cup {"ids"}
                /\ UNCHANGED <<types, names, readVars>>
        /\ UNCHANGED <<careful, reader, nextId, handlers, closed, countVars>>

----------------------------------------------------------------------------
(* Writing and reading *)

(* #write: the id is looked up when write() is called. *)
MutLargerId(ids) == ids[Len(ids)]
IdToWrite(ids) == ids[1]
Write(e, n) ==
    /\ e # reader /\ ~closed[e] /\ written < MaxWrites /\ IdsOf(e, n) # <<>>
    /\ careful => ~Pending(e, n)
    /\ Send(e, Data(IdToWrite(IdsOf(e, n)), n))
    /\ written' = written + 1
    /\ UNCHANGED <<careful, reader, typeVars, handlers, closed, readVars, requested, called, faults>>

Active(f) == reads[f].state \in {"waiting", "woken"}

(* #findReader: the unfiltered read before the one that waits for the id.  *)
FindReader(id) ==
    IF Active(All) THEN {All} ELSE {f \in Names : Active(f) /\ id \in reads[f].under}

(* reader.resolve(): the first call counts. *)
Woken(r, id) == IF r.state = "waiting" THEN [r EXCEPT !.state = "woken", !.got = id] ELSE r

(* #receiveDataMessage *)
MutPrepends(s, c) == <<c>> \o s
Chained(s, c) == Append(s, c)
MutWakesFilteredOnly(id) == {f \in Names : Active(f) /\ id \in reads[f].under}
Wakes(id) == FindReader(id)
ReceiveData(e) ==
    LET m == Head(wire[e])
        active == IF m.id \in DOMAIN remapping THEN remapping[m.id] ELSE m.id
    IN  /\ NextIs(e, "data") /\ Received(e)
        /\ chunks' = Chained(chunks, [active |-> active, chain |-> active, name |-> m.name, serial |-> m.serial])
        /\ chained' = chained \cup {active}
        /\ reads' = [f \in Filters |-> IF f \in Wakes(m.id) THEN Woken(reads[f], m.id) ELSE reads[f]]
        /\ UNCHANGED <<careful, reader, typeVars, handlers, closed, remapping, countVars, faults>>

Chain(id) == {i \in DOMAIN chunks : chunks[i].chain = id}
FirstOf(S) == {i \in S : \A j \in S : i <= j}

(* #readSync, with indices of chunks: with a filter, the first id that has *)
(* a message is chosen, since the descriptors have no sequence to compare. *)
(* The message read is the first in the chain of the chosen one's active   *)
(* type, which throws when there is no such chain, and is nothing when the *)
(* chain is empty.                                                         *)
First == FirstOf(DOMAIN chunks)
FirstAmong(ids) ==
    UNION {FirstOf(Chain(ids[k])) : k \in FirstOf({k \in DOMAIN ids : Chain(ids[k]) # {}})}
Throws(candidate) == \E i \in candidate : chunks[i].active \notin chained
Selected(candidate) == UNION {FirstOf(Chain(chunks[i].active)) : i \in candidate}
ReadSync(candidate) ==
    /\ IF Selected(candidate) = {}
       THEN UNCHANGED chunks
       ELSE \E i \in Selected(candidate) : chunks' = RemoveAt(chunks, i)
    /\ faults' = IF Throws(candidate) THEN faults \cup {"chain"} ELSE faults

(* hasReader: an unfiltered read conflicts with every read, a filtered one *)
(* with the filtered ones that share an id.                                *)
Conflict(f, ids) ==
    \/ f = All /\ \E g \in Filters : Active(g)
    \/ f # All /\ \E g \in Names : Active(g) /\ Range(ids) \cap reads[g].under # {}

(* read(): a message that is there is returned at once, else the read is   *)
(* registered under the ids the name has by now.                           *)
IdsToRead(n) == IdsOf(reader, n)
Read(f) ==
    LET ids == IF f = All THEN <<>> ELSE IdsToRead(f)
        candidate == IF f = All THEN First ELSE FirstAmong(ids)
    IN  /\ called < MaxReads /\ reads[f].state = "none" /\ ~Conflict(f, ids)
        /\ careful => /\ ~closed[reader]
                      /\ f # All => ids # <<>> /\ ~Pending(reader, f) /\ ~Active(All)
        /\ IF Throws(candidate) \/ Selected(candidate) # {}
           THEN ReadSync(candidate) /\ UNCHANGED reads
           ELSE /\ reads' = [reads EXCEPT ![f] =
                               [state |-> "waiting", under |-> Range(ids), got |-> 0]]
                /\ UNCHANGED <<chunks, faults>>
        /\ called' = called + 1
        /\ UNCHANGED <<careful, reader, typeVars, handlers, wire, closed, remapping, chained, requested, written>>

(* The read goes on with the id it was woken with; with null (here 0) it   *)
(* returns null.                                                           *)
Continue(f) ==
    /\ reads[f].state = "woken"
    /\ IF reads[f].got # 0
       THEN ReadSync(FirstAmong(<<reads[f].got>>))
       ELSE UNCHANGED <<chunks, faults>>
    /\ reads' = [reads EXCEPT ![f] = NoRead]
    /\ UNCHANGED <<careful, reader, typeVars, handlers, wire, closed, remapping, chained, countVars>>

(* #onDisconnect: what waits is woken, if it is registered anywhere.  What *)
(* the handlers of newMessageType still return has no effect.              *)
WakesAtDisconnect(f) == f = All \/ reads[f].under # {}
Disconnect(e) ==
    /\ ~closed[e]
    /\ closed' = [closed EXCEPT ![e] = TRUE]
    /\ types' = [types EXCEPT ![e] = <<>>] /\ names' = [names EXCEPT ![e] = <<>>]
    /\ handlers' = [handlers EXCEPT ![e] = {}]
    /\ wire' = [wire EXCEPT ![e] = <<>>]
    /\ reads' = [f \in Filters |->
                   IF e = reader /\ WakesAtDisconnect(f) THEN Woken(reads[f], 0) ELSE reads[f]]
    /\ UNCHANGED <<careful, reader, nextId, remapping, chunks, chained, countVars, faults>>
ConnectionLost(e) == closed[Peer(e)] /\ Disconnect(e)

----------------------------------------------------------------------------
Receive(e) == OnRequest(e) \/ OnResponse(e) \/ ReceiveData(e)
Handle(e) == \E h \in handlers[e], accepted \in BOOLEAN : \E n \in h.names : HandleName(e, h, n, accepted)
Use(e) == \/ \E ns \in Registrations : AddMessageTypes(e, ns)
          \/ \E n \in Names : Write(e, n)
Progress == \/ \E e \in Ends : Receive(e) \/ Handle(e) \/ ConnectionLost(e)
            \/ \E f \in Filters : Continue(f)

Next == Progress \/ (\E e \in Ends : Use(e) \/ Disconnect(e)) \/ (\E f \in Filters : Read(f))

(* Messages arrive, handlers return, a connection lost at one end is       *)
(* noticed at the other, and readers that were woken continue.             *)
Spec == Init /\ [][Next]_vars /\ WF_vars(Progress)

----------------------------------------------------------------------------
TypeOK ==
    /\ reader \in Ends /\ careful \in BOOLEAN /\ closed \in [Ends -> BOOLEAN]
    /\ \A e \in Ends :
          /\ DOMAIN types[e] \subseteq Names /\ Range(names[e]) \subseteq Names
          /\ \A n \in DOMAIN types[e] : types[e][n].pending \/ types[e][n].ids # <<>>
    /\ \A f \in Filters : /\ reads[f].state \in {"none", "waiting", "woken"}
                          /\ reads[f].under \subseteq Nat /\ reads[f].got \in Nat
    /\ faults \subseteq {"ids", "chain"}

(* A careful application registers one type at a time, uses a type by name *)
(* only once its own registration has settled, does not read by name while *)
(* an unfiltered read waits, and does not read from a closed channel.      *)

(* However the registrations of both ends cross, no third id and no second *)
(* id of an end comes up ("Invalid additional id"), which would close the  *)
(* channel; and #readSync finds every chunk in the chain of its type.      *)
NoFaults == TypeOK /\ "ids" \notin faults /\ (careful => "chain" \notin faults)

(* No id ever stands for two types, here or there; and when the messages   *)
(* are through, the two ends agree on the ids of a type that both know, in *)
(* the same order.                                                         *)
Quiet == \A e \in Ends : ~closed[e] /\ wire[e] = <<>> /\ handlers[e] = {}
IdsAgree ==
    /\ \A id \in DOMAIN names["a"] \cap DOMAIN names["b"] : names["a"][id] = names["b"][id]
    /\ careful /\ Quiet => \A n \in Names : Known("a", n) /\ Known("b", n) => IdsOf("a", n) = IdsOf("b", n)

(* No read keeps waiting for a message that has arrived.                   *)
NoReadWaitsInVain ==
    careful => \A f \in Filters : reads[f].state = "waiting"
                   => \A i \in DOMAIN chunks : f # All /\ chunks[i].name # f

Taken == Range(chunks) \ Range(chunks')

(* Messages of a type are read in the order they were written, and under   *)
(* the name they were written under.                                       *)
UnderItsName(c) == c.active \in DOMAIN names[reader] /\ names[reader][c.active] = c.name
ReadsInOrder ==
    [][careful => \A c \in Taken :
        /\ \A d \in Range(chunks') : d.name = c.name => d.serial > c.serial
        /\ closed[reader] \/ UnderItsName(c)]_vars

(* "Returns a message object, or null if the channel was closed,           *)
(* disconnected, or the timeout expired": read() does not return null for  *)
(* any other reason, and least of all when there is a message.             *)
ReturnsNull(f) ==
    reads[f].state = "woken" /\ reads'[f].state = "none" /\ UNCHANGED <<chunks, faults>>
NullMeansClosedIfCareful == [][careful => \A f \in Filters : ReturnsNull(f) => closed[reader]]_vars

(* addMessageTypes() is settled, by the response or as the connection is   *)
(* lost; and a read ends when the connection is lost, if it has not before.*)
EverythingSettles ==
    <>[](/\ \A e \in Ends, n \in Names : ~Pending(e, n)
         /\ careful /\ closed[reader] => \A f \in Filters : ~Active(f))
=============================================================================
