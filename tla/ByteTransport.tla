---------------------------- MODULE ByteTransport ----------------------------
(***************************************************************************)
(* Sending messages as bytes and finding them again                        *)
(* (src/transport/byte.esm.js, with pipe.esm.js and websocket.esm.js).     *)
(*                                                                         *)
(* At one end, tasks of the write queue wait for room in the output ring,  *)
(* one at a time, and commit messages; scheduleWrite batches; writeBytes   *)
(* runs until nothing is committed; stop() waits for an empty ring.  Tasks *)
(* and stop() share one slot for who waits for room, reserveWaiter, and    *)
(* who comes takes it, whoever was in it: he then waits for good.  At the  *)
(* other end, bytes come in pieces, and #byteReader waits for as many as   *)
(* the next header or the data behind it need, until that end stops.       *)
(*                                                                         *)
(* A byte is <<i, k>>: the k-th place of the i-th thing sent, of which the *)
(* first is the line of the configuration and the second the line that     *)
(* ends the handshake.  `carried` tells which byte of the thing was put    *)
(* there, and a message is delivered as the bytes its places carry.        *)
(***************************************************************************)
EXTENDS OutputRing, FiniteSets, SequencesExt

CONSTANTS
    Batch,       \* is there a writeBatchTime?
    ForceBytes,  \* forceWriteBytes
    Reserves,    \* what tasks reserve
    Shapes,      \* [header, data, char] of the messages that may come of it
    LineLength,  \* bytes of a line of the handshake
    MaxTasks,    \* bound: tasks added to the write queue
    Kinds        \* of the connection: {"pipe", "socket"}

(* Every header has at least the two bytes from which #byteReader knows    *)
(* what it is and how long; both lines of a handshake have room in the     *)
(* ring at once (sendHandshake asks for twice the bytes of its line, and   *)
(* the line that ends the handshake is shorter); and the zeroes behind     *)
(* what is released can be told from the bytes of messages, as they are    *)
(* numbered here.                                                          *)
ASSUME BytesAssumption ==
    /\ Batch \in BOOLEAN /\ Kinds \subseteq {"pipe", "socket"}
    /\ ForceBytes \in Nat /\ MaxTasks \in Nat
    /\ LineLength \in Nat \ {0} /\ 2 * LineLength <= Size
    /\ Reserves \subseteq 1 .. Size
    /\ Shapes \subseteq [header : Nat \ {0, 1}, data : Nat, char : Nat \ {0}]
    /\ Zero \notin Nat \X Nat

VARIABLES
    kind,       \* of connection
    state,      \* of the sending transport: "on", "stopped", "disconnected"
    ring,       \* the output buffer
    writing,    \* what writeBytes is about: the bytes it took and views it has to write
    stuck,      \* writeBytes ended without afterWrite
    timer,      \* writeBatchTimer is set
    slot,       \* reserveWaiter: who waits, and for how much
    robbed,     \* from whom the slot was taken while he waited: "none", "task" or "stop"
    shake,      \* the handshake: "no", "greeted", "ready", "done"
    tasks,      \* tasks that are not done: what they reserve
    added,      \* tasks there have been
    task,       \* the first of them: "idle", "waiting" or "ready" to go on
    drain,      \* stop(): "no", "waiting", "done" or "failed"
    stopAt,     \* messages (and lines) that were committed when stop() was called
    fault,      \* 'Insufficient pre-reservation'
    sent,       \* the messages (and lines) that are committed
    carried,    \* what their places carry
    wire,       \* bytes on their way
    lost,       \* the connection is lost
    ended,      \* the other end has stopped or is disconnected
    input,      \* its input buffer
    reader,     \* what #byteReader is at: "line", "type", "header", "data"; or "over", "failed", "astray"
    need,       \* what it waits for (readWaiter), or 0
    header,     \* the header it has read
    delivered   \* the messages (and lines) it has found

ringVars == <<ring, writing, stuck, timer, wire>>
slotVars == <<slot, robbed>>
queueVars == <<tasks, added, task>>
stopVars == <<drain, stopAt>>
sentVars == <<sent, carried>>
senderVars == <<kind, state, ringVars, slotVars, shake, queueVars, stopVars, fault, sentVars, lost>>
readerVars == <<ended, input, reader, need, header, delivered>>
vars == <<senderVars, readerVars>>

NoOne == [who |-> "none", size |-> 0]
Idle == [n |-> 0, views |-> <<>>]

Init ==
    /\ kind \in Kinds
    /\ state = "on" /\ ring = EmptyRing /\ writing = Idle /\ stuck = FALSE /\ timer = FALSE
    /\ slot = NoOne /\ robbed = "none" /\ shake = "no" /\ tasks = <<>> /\ added = 0 /\ task = "idle"
    /\ drain = "no" /\ stopAt = 0 /\ fault = FALSE /\ sent = <<>> /\ carried = <<>> /\ wire = <<>> /\ lost = FALSE
    /\ ended = FALSE /\ input = <<>> /\ reader = "line" /\ need = 0 /\ header = <<>> /\ delivered = <<>>

----------------------------------------------------------------------------
(* Writing *)

Busy == writing # Idle \/ stuck
Taking(r) == [n |-> r.committed, views |-> Views(r, r.committed)]

(* scheduleWrite, when r is the ring.  writeBytes takes what is committed  *)
(* at once; when the writer is closed, it ends at once.  stop() closes the *)
(* writer when the ring is empty, some time later.                         *)
HasWriter == state # "disconnected" /\ drain # "done"
MayWrite == state # "disconnected"
Batches(immediate, r) == Batch /\ r.committed < IF immediate THEN 1 ELSE ForceBytes
ScheduleWrite(immediate, r) ==
    IF Busy \/ r.committed = 0 THEN UNCHANGED <<writing, timer>>
    ELSE IF Batches(immediate, r) THEN timer' = TRUE /\ UNCHANGED writing
    ELSE /\ timer' = FALSE
         /\ \/ MayWrite /\ writing' = Taking(r)
            \/ ~HasWriter /\ UNCHANGED writing

TimerFires ==
    /\ timer
    /\ IF Busy \/ ring.committed = 0
       THEN timer' = FALSE /\ UNCHANGED writing
       ELSE ScheduleWrite(TRUE, ring)
    /\ UNCHANGED <<kind, state, ring, stuck, slotVars, shake, queueVars, stopVars, fault, sentVars, wire, lost, readerVars>>

(* afterWrite wakes whoever is in the slot, if there is room by now. *)
MutWakesAlways(r) == slot.who # "none"
Wakes(r) == slot.who # "none" /\ Available(r) >= slot.size
AfterWrite(r) ==
    /\ slot' = IF Wakes(r) THEN NoOne ELSE slot
    /\ task' = IF Wakes(r) /\ slot.who = "task" THEN "ready" ELSE task
    /\ drain' = IF Wakes(r) /\ slot.who = "stop" THEN "done" ELSE drain

(* What was taken is written: it is released, and what has been committed *)
(* since is taken.                                                         *)
MutTakesOnce(r) == Idle
TakesMore(r) == IF r.committed > 0 THEN Taking(r) ELSE Idle
MutReleasesAll == Release(ring, ring.committed)
Written == Release(ring, writing.n)
GoesOn ==
    /\ ring' = Written /\ writing' = TakesMore(Written)
    /\ IF writing' = Idle THEN AfterWrite(Written) ELSE UNCHANGED <<slot, task, drain>>

(* writeBytes of a pipe awaits the writing of each view, ... *)
WriteView ==
    /\ kind = "pipe" /\ writing # Idle /\ ~lost
    /\ wire' = wire \o BytesOf(ring, Head(writing.views))
    /\ IF Len(writing.views) > 1
       THEN /\ writing' = [writing EXCEPT !.views = Tail(@)]
            /\ UNCHANGED <<ring, slot, task, drain>>
       ELSE GoesOn
    /\ UNCHANGED <<kind, state, stuck, timer, robbed, shake, tasks, added, stopAt, fault, sentVars, lost, readerVars>>

(* ... and of a socket that is open sends them all.  If it is not open,    *)
(* what is committed is left, and the writer is done.                      *)
MutBytesOfFirst(views) == BytesOf(ring, views[1])
BytesOfAll(views) == FlattenSeq([i \in DOMAIN views |-> BytesOf(ring, views[i])])
SendViews ==
    /\ kind = "socket" /\ writing # Idle
    /\ \/ /\ lost \/ drain = "done"
          /\ writing' = Idle /\ AfterWrite(ring) /\ UNCHANGED <<wire, ring>>
       \/ /\ ~lost
          /\ wire' = wire \o BytesOfAll(writing.views) /\ GoesOn
    /\ UNCHANGED <<kind, state, stuck, timer, robbed, shake, tasks, added, stopAt, fault, sentVars, lost, readerVars>>

(* onDisconnect rejects who is in the slot: a task ends, stop() fails. *)
OnDisconnect ==
    /\ state' = IF state = "on" THEN "disconnected" ELSE state
    /\ timer' = IF state = "on" THEN FALSE ELSE timer
    /\ slot' = NoOne
    /\ task' = IF slot.who = "task" THEN "idle" ELSE task
    /\ tasks' = IF slot.who = "task" THEN Tail(tasks) ELSE tasks
    /\ drain' = IF slot.who = "stop" THEN "failed" ELSE drain
    /\ UNCHANGED <<kind, ring, robbed, shake, added, stopAt, fault, sentVars, wire, lost, readerVars>>

(* Nothing can be written when the connection is lost, nor to a writer     *)
(* that is closed.                                                         *)
WriteFails ==
    /\ kind = "pipe" /\ writing # Idle /\ (lost \/ drain = "done")
    /\ writing' = Idle /\ stuck' = TRUE
    /\ OnDisconnect

(* #pipeReader, and ws.onclose and ws.onerror: a connection that is lost   *)
(* is found out by its reader as well, unless the transport has stopped.   *)
Disconnected == state # "disconnected" /\ (state = "on" \/ slot # NoOne) /\ UNCHANGED <<writing, stuck>>
ReadFails == kind = "pipe" /\ lost /\ Disconnected /\ OnDisconnect
SocketCloses == kind = "socket" /\ lost /\ Disconnected /\ OnDisconnect

----------------------------------------------------------------------------
(* Committing *)

(* reservable: there is room, or the slot is taken, whoever was in it. *)
Reservable(r, size) == Available(r) >= size
TakesSlot(who, size) ==
    /\ slot' = [who |-> who, size |-> size]
    /\ robbed' = IF slot = NoOne THEN robbed ELSE slot.who

Length(m) == m.header + m.data
Message(i, m) == [k \in 1 .. Length(m) |-> <<i, k>>]
CommitMessage(m, gap, immediate) ==
    LET r == Commit(ring, Message(Len(sent) + 1, m)) IN
    /\ ring' = r
    /\ sent' = Append(sent, m) /\ carried' = Append(carried, Encoded(m, Before(ring, m), gap))
    /\ ScheduleWrite(immediate, r)

Line == [header |-> LineLength, data |-> 0, char |-> 1]

(* sendHandshake, when the transport is started *)
SendHandshake ==
    /\ shake = "no" /\ state = "on" /\ shake' = "greeted"
    /\ CommitMessage(Line, 0, TRUE)
    /\ UNCHANGED <<kind, state, stuck, slotVars, queueVars, stopVars, fault, wire, lost, readerVars>>

(* startMessageMode, when the configuration of the remote has come: there  *)
(* is room for the other line, but stop() may come before it is committed. *)
ReserveStart ==
    /\ shake = "greeted" /\ state = "on" /\ Reservable(ring, LineLength)
    /\ shake' = "ready"
    /\ UNCHANGED <<kind, state, ringVars, slotVars, queueVars, stopVars, fault, sentVars, lost, readerVars>>
StartMessageMode ==
    /\ shake = "ready" /\ shake' = "done"
    /\ CommitMessage(Line, 0, TRUE)
    /\ UNCHANGED <<kind, state, stuck, slotVars, queueVars, stopVars, fault, wire, lost, readerVars>>

(* sendChunk and sendAckMessage put a task into the write queue.  They     *)
(* come until all channels are closed, and those of ACKs even later, when  *)
(* stop() waits for an empty ring or is through with it.                   *)
Add(size) ==
    /\ shake = "done" /\ added < MaxTasks
    /\ tasks' = Append(tasks, size) /\ added' = added + 1
    /\ UNCHANGED <<kind, state, ringVars, slotVars, shake, task, stopVars, fault, sentVars, lost, readerVars>>

Reserve ==
    /\ task = "idle" /\ tasks # <<>>
    /\ IF Reservable(ring, Head(tasks)) THEN task' = "ready" /\ UNCHANGED slotVars
       ELSE task' = "waiting" /\ TakesSlot("task", Head(tasks))
    /\ UNCHANGED <<kind, state, ringVars, shake, tasks, added, stopVars, fault, sentVars, lost, readerVars>>

(* A task goes on, and reserves what it waited for.  The message is not    *)
(* longer than that, with the gap it may have; or there is nothing to ACK  *)
(* by now.                                                                 *)
TaskEnds == task = "ready" /\ task' = "idle" /\ tasks' = Tail(tasks)
SendChunk(m) ==
    /\ TaskEnds
    /\ \E gap \in Gaps(ring, m) :
          /\ Length(m) + gap <= Head(tasks)
          /\ IF Reservable(ring, Head(tasks)) THEN CommitMessage(m, gap, FALSE) /\ UNCHANGED fault
             ELSE fault' = TRUE /\ UNCHANGED <<ring, writing, timer, sentVars>>
    /\ UNCHANGED <<kind, state, stuck, slotVars, shake, added, stopVars, wire, lost, readerVars>>
SendNoAck ==
    /\ TaskEnds
    /\ fault' = (fault \/ ~Reservable(ring, Head(tasks)))
    /\ UNCHANGED <<kind, state, ringVars, slotVars, shake, added, stopVars, sentVars, lost, readerVars>>

(* stop(), whatever is in the write queue: what is committed is written,   *)
(* and an empty ring waited for, outside that queue.                       *)
DrainSize == Size
Stop ==
    /\ state = "on" /\ state' = "stopped"
    /\ stopAt' = Len(sent)
    /\ ScheduleWrite(TRUE, ring)
    /\ IF Reservable(ring, DrainSize) THEN drain' = "done" /\ UNCHANGED slotVars
       ELSE drain' = "waiting" /\ TakesSlot("stop", DrainSize)
    /\ UNCHANGED <<kind, ring, stuck, shake, queueVars, fault, sentVars, wire, lost, readerVars>>

Lose ==
    /\ ~lost /\ lost' = TRUE
    /\ UNCHANGED <<kind, state, ringVars, slotVars, shake, queueVars, stopVars, fault, sentVars, readerVars>>

----------------------------------------------------------------------------
(* Reading *)

(* receiveBytes: a piece of input; the reader goes on if it has what it    *)
(* needs.  What comes when it does not read any more is not looked at.     *)
Reading == reader \notin {"over", "failed", "astray"}
MutWakesBeyond(n) == need # 0 /\ n > need
Satisfies(n) == need = 0 \/ n >= need
ReceiveBytes(n) ==
    /\ n \in 1 .. Len(wire) /\ Reading
    /\ input' = input \o SubSeq(wire, 1, n)
    /\ wire' = SubSeq(wire, n + 1, Len(wire))
    /\ need' = IF Satisfies(Len(input')) THEN 0 ELSE need
    /\ UNCHANGED <<kind, state, ring, writing, stuck, timer, slotVars, shake, queueVars, stopVars, fault, sentVars, lost,
                   ended, reader, header, delivered>>

Reads == need = 0 /\ Reading /\ UNCHANGED <<senderVars, ended>>
WaitsFor(n) == need' = n /\ UNCHANGED <<input, header, delivered>>
Rest(n) == SubSeq(input, n + 1, Len(input))
Carried(b) == <<b[1], carried[b[1]][b[2]]>>
Delivers(bytes) == delivered' = Append(delivered, [k \in DOMAIN bytes |-> Carried(bytes[k])])

(* The lines of the handshake: up to a newline, the last byte of a line.   *)
(* A reader that has waited for a byte looks at that one before it looks   *)
(* whether the transport is active.                                        *)
Newlines == {k \in DOMAIN input : input[k][2] = LineLength}
ReadLine ==
    /\ Reads /\ reader = "line"
    /\ IF Newlines = {}
       THEN ~ended /\ WaitsFor(Len(input) + 1) /\ UNCHANGED reader
       ELSE LET n == Min(Newlines) IN
            /\ Delivers(SubSeq(input, 1, n)) /\ input' = Rest(n)
            /\ reader' = IF input[1][1] = 2 THEN "type" ELSE "line"
            /\ UNCHANGED <<need, header>>

(* The first two bytes of a message tell how long its header is, ... *)
TotalHeaderSize == sent[input[1][1]].header
ReadType ==
    /\ Reads /\ reader = "type"
    /\ IF Len(input) < 2 THEN ~ended /\ WaitsFor(2) /\ UNCHANGED reader
       ELSE /\ reader' = "header"
            /\ IF Len(input) < TotalHeaderSize THEN WaitsFor(TotalHeaderSize)
               ELSE UNCHANGED <<input, need, header, delivered>>

(* ... and the header how much data follows. *)
DataSize(h) == sent[h[1][1]].data
ReadHeader ==
    /\ Reads /\ reader = "header"
    /\ LET n == TotalHeaderSize h == SubSeq(input, 1, n) IN
       /\ input' = Rest(n) /\ header' = h /\ reader' = "data"
       /\ need' = IF DataSize(h) > Len(input') THEN DataSize(h) ELSE 0
       /\ UNCHANGED delivered

(* receiveMessage drops what comes when the transport has stopped. *)
ReadData ==
    /\ Reads /\ reader = "data"
    /\ input' = Rest(DataSize(header)) /\ header' = <<>> /\ UNCHANGED need
    /\ IF ended THEN reader' = "over" /\ UNCHANGED delivered
       ELSE reader' = "type" /\ Delivers(header \o SubSeq(input, 1, DataSize(header)))

(* The end that reads stops or is disconnected, whatever is still to come. *)
EndStops ==
    /\ ~ended /\ ended' = TRUE
    /\ UNCHANGED <<senderVars, input, reader, need, header, delivered>>

(* Then a reader that waits is woken with false.  It returns, but one that *)
(* waits for the rest of a header goes on to decode it, which throws.      *)
Woken == IF reader = "header" THEN "failed" ELSE "over"
WakesReader ==
    /\ ended /\ need # 0 /\ need' = 0
    /\ reader' = Woken
    /\ UNCHANGED <<senderVars, ended, input, header, delivered>>

(* And one that does not wait leaves its loop: the one for messages, and   *)
(* is over; or the one for lines, and then finds the transport ready       *)
(* (onRemoteReady), which has stopped.                                     *)
LeavesLoop ==
    /\ Reads /\ ended
    /\ \/ reader = "line" /\ reader' = "astray"
       \/ reader = "type" /\ reader' = "over"
    /\ UNCHANGED <<input, need, header, delivered>>

----------------------------------------------------------------------------
Works ==
    \/ TimerFires \/ WriteView \/ SendViews \/ WriteFails \/ ReadFails \/ SocketCloses
    \/ SendHandshake \/ ReserveStart \/ StartMessageMode
    \/ Reserve \/ (\E m \in Shapes : SendChunk(m)) \/ SendNoAck
    \/ (\E n \in 1 .. Len(wire) : ReceiveBytes(n))
    \/ ReadLine \/ ReadType \/ ReadHeader \/ ReadData \/ WakesReader \/ LeavesLoop
Next ==
    \/ Works \/ Stop \/ EndStops \/ Lose
    \/ \E size \in Reserves : Add(size)

(* Timers fire, the connection takes and delivers bytes, promises settle.  *)
(* No step is ever undone, so that some step while there is one is enough. *)
Spec == Init /\ [][Next]_vars /\ WF_vars(Works)

----------------------------------------------------------------------------
(* Properties *)

(* Nothing is written any more to a connection that is lost, or by a       *)
(* writer that has failed.                                                 *)
Cut == lost \/ stuck

(* What has been committed and is still to be written.  When the buffer    *)
(* wraps, a pipe has perhaps written the first of two views.               *)
Gone == IF writing = Idle \/ writing.views = Views(ring, writing.n) THEN 0 ELSE Size - ring.readHead
InRing(r, j) == r.cells[Wrap(r.readHead + j)]
Pending(r, g) == [j \in 1 .. r.committed - g |-> InRing(r, g + (j - 1))]
Left == IF Cut THEN <<>> ELSE Pending(ring, Gone)

(* What the reader has read of a message, its input, what is on its way    *)
(* and what is left in the ring: all that is sent and not delivered.  It   *)
(* is a stream from message d + 1 on, each byte followed by the next one.  *)
All == header \o (input \o (wire \o Left))
IsByte(s, b) == b[1] \in DOMAIN s /\ b[2] \in 1 .. Length(s[b[1]])
Follows(s, b) == IF b[2] < Length(s[b[1]]) THEN <<b[1], b[2] + 1>> ELSE <<b[1] + 1, 1>>
InStep(s, q, d) ==
    \A i \in DOMAIN q : IsByte(s, q[i]) /\ q[i] = IF i = 1 THEN <<d + 1, 1>> ELSE Follows(s, q[i - 1])
Ends(s, q, d) == IF q = <<>> THEN Len(s) = d ELSE q[Len(q)] = <<Len(s), Length(s[Len(s)])>>

(* Types, and the ring as it should be (see BuffersAreWhole). *)
TypeOK ==
    /\ state \in {"on", "stopped", "disconnected"}
    /\ {ring.readHead, ring.writeHead} \subseteq Positions /\ ring.committed \in 0 .. Size
    /\ ring.writeHead = Wrap(ring.readHead + ring.committed)
    /\ Cardinality({i \in Positions : ring.cells[i] = Zero}) = Available(ring)
    /\ writing.n \in 0 .. ring.committed /\ stuck \in BOOLEAN /\ timer \in BOOLEAN
    /\ slot.who \in {"none", "task", "stop"} /\ robbed \in {"none", "task", "stop"}
    /\ shake \in {"no", "greeted", "ready", "done"}
    /\ task \in {"idle", "waiting", "ready"} /\ (task # "idle" => tasks # <<>>)
    /\ drain \in {"no", "waiting", "done", "failed"} /\ stopAt \in 0 .. Len(sent) /\ fault \in BOOLEAN
    /\ lost \in BOOLEAN /\ added \in 0 .. MaxTasks /\ ended \in BOOLEAN
    /\ reader \in {"line", "type", "header", "data", "over", "failed", "astray"} /\ need \in 0 .. Size + LineLength

(* No byte that was committed is left behind.  While the transport is on,  *)
(* it is on its way out, or a timer will see to it (scheduleWrite, which   *)
(* returns while writeBytes runs); and a stop() that has waited for an     *)
(* empty ring has found all written that was committed when it was called, *)
(* whoever took the slot and whatever was committed since.                 *)
CommittedHasWriter == state = "on" /\ ~lost /\ ring.committed > 0 => Busy \/ timer
DrainedMeansSent ==
    drain = "done" => \A i \in Positions : ring.cells[i] # Zero => ring.cells[i][1] > stopAt
NothingStranded == CommittedHasWriter /\ DrainedMeansSent

(* A task that has waited for room, or found it, finds it still there when *)
(* it goes on: 'Insufficient pre-reservation' is never thrown.             *)
ReservationsHold == ~fault

(* Both buffers are whole.  The heads of the ring enclose what is          *)
(* committed, and the rest of it is zeroed.  And wherever the bytes are,   *)
(* with the writer between two views, the connection cutting them where it *)
(* likes and the reader between a header and its data: as long as it reads *)
(* none is missing, twice there or out of order, up to the last one that   *)
(* is committed, or to where the writer or the connection ends.  It stops  *)
(* reading only when its own end has stopped.                              *)
BuffersAreWhole ==
    /\ TypeOK
    /\ Reading => InStep(sent, All, Len(delivered))
    /\ Reading /\ ~Cut => Ends(sent, All, Len(delivered))
    /\ ~Reading => ended

(* Messages come out once and in order, each as long as it was: whole, but *)
(* for text that had a gap where the ring wrapped (see MessageStream).     *)
Stream == INSTANCE MessageStream WITH Messages <- Shapes \cup {Line}
DeliversStream == Stream!Spec

(* Unless the connection is lost or the other end stops: the tasks of the  *)
(* queue are done, but for one that lost the slot to stop() and those      *)
(* behind it; stop() finds the ring empty, but for one that lost the slot  *)
(* to a task; and what is committed is delivered, at least what was        *)
(* committed before stop().                                                *)
TasksSettle == tasks = <<>> \/ robbed = "task" \/ drain = "done"
StopSettles == drain # "waiting" \/ robbed = "stop"
AllArrives == Len(delivered) >= IF drain = "done" THEN stopAt ELSE Len(sent)
Settled == lost \/ ended \/ (TasksSettle /\ StopSettles /\ AllArrives)
AllSettles == ~Settled ~> Settled
=============================================================================
