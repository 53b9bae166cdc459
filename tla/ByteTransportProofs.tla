------------------------- MODULE ByteTransportProofs -------------------------
(***************************************************************************)
(* For every size of ring, messages, lines and batches, any loss, and any  *)
(* stop of either end: who was promised room in the output ring finds it,  *)
(* whoever takes the slot from whom; what was committed before stop() has  *)
(* been written when its wait is over, and no committed byte is left       *)
(* without a writer or a timer before; both buffers are whole; and what    *)
(* comes out at the other end is the stream of messages.                   *)
(*                                                                         *)
(* IInv is about counts: how much is committed and who waits for room.     *)
(* SInv is about the bytes: from what the reader has read, over its input  *)
(* and the wire, to what the ring still has, they are the messages that    *)
(* are sent and not delivered, each byte followed by the next one.         *)
(***************************************************************************)
EXTENDS ByteTransport, FiniteSetTheorems, FunctionTheorems, WellFoundedInduction, TLAPS

IsRing(r) ==
    /\ r = [cells |-> r.cells, writeHead |-> r.writeHead, readHead |-> r.readHead, committed |-> r.committed]
    /\ r.committed \in 0 .. Size

(* The ring counts what it holds, and the writer took some of it. *)
RingOK == IsRing(ring)
WriterOK ==
    /\ writing = [n |-> writing.n, views |-> writing.views]
    /\ writing.n \in 0 .. ring.committed
    /\ writing # Idle => writing.n > 0

(* Who is in the slot waits, for what it needs. *)
SlotOK ==
    /\ slot = [who |-> slot.who, size |-> slot.size]
    /\ slot.who \in {"none", "task", "stop"} /\ robbed \in {"none", "task", "stop"}
    /\ slot.who = "none" => slot = NoOne
    /\ slot.who = "task" => task = "waiting" /\ slot.size = Head(tasks)
    /\ slot.who = "stop" => drain = "waiting" /\ slot.size = Size

(* First the handshake, then tasks one at a time; stop() whenever it comes. *)
InTurn ==
    /\ tasks \in Seq(Reserves)
    /\ tasks # <<>> => shake = "done"
    /\ task # "idle" => tasks # <<>>
    /\ drain # "no" => state # "on"

(* Nobody else commits between a waiter's waking and its going on. *)
RoomIsKept ==
    /\ shake = "no" => ring.committed = 0
    /\ shake = "ready" => Available(ring) >= LineLength
    /\ task = "ready" => Available(ring) >= Head(tasks)

IInv ==
    /\ RingOK /\ WriterOK /\ SlotOK /\ InTurn /\ RoomIsKept
    /\ ReservationsHold /\ CommittedHasWriter

----------------------------------------------------------------------------
(* The ring's counting. *)

(* A message is as long as its header and data. *)
LEMMA MessageLength ==
    ASSUME NEW m \in [header : Nat, data : Nat, char : Nat], NEW i PROVE Len(Message(i, m)) = Length(m) /\ Length(m) \in Nat
<1>1. Length(m) \in Nat
  BY DEF Length
<1>2. Message(i, m) = [k \in 1 .. Length(m) |-> <<i, k>>]
  BY DEF Message
<1> QED
  BY <1>1, <1>2

(* Committing adds what is committed, if there is room. *)
LEMMA CommitCounts ==
    ASSUME NEW r, IsRing(r), NEW bytes, Len(bytes) \in Nat, Len(bytes) <= Available(r)
    PROVE IsRing(Commit(r, bytes)) /\ Commit(r, bytes).committed = r.committed + Len(bytes)
BY SizeAssumption DEF IsRing, Commit, Available

(* Releasing takes away what is released. *)
LEMMA ReleaseCounts ==
    ASSUME NEW r, IsRing(r), NEW n \in 0 .. r.committed
    PROVE IsRing(Release(r, n)) /\ Release(r, n).committed = r.committed - n
BY SizeAssumption DEF IsRing, Release

(* The ring is empty at first, and has room for a line. *)
LEMMA InvInit == Init => IInv
<1> SUFFICES ASSUME Init PROVE IInv
  OBVIOUS
<1>1. RingOK
  BY SizeAssumption DEF Init, RingOK, IsRing, EmptyRing
<1>2. WriterOK /\ SlotOK
  BY DEF Init, WriterOK, SlotOK, Idle, NoOne, EmptyRing
<1>3. InTurn /\ RoomIsKept
  BY DEF Init, InTurn, RoomIsKept, EmptyRing
<1>4. ReservationsHold /\ CommittedHasWriter
  BY DEF Init, ReservationsHold, CommittedHasWriter, EmptyRing
<1> QED
  BY <1>1, <1>2, <1>3, <1>4 DEF IInv

----------------------------------------------------------------------------
(* What the parts of actions do. *)

(* scheduleWrite leaves a writer whose bytes are in the ring, and while    *)
(* the transport is on, what is committed has a writer or a timer.         *)
LEMMA Schedules ==
    ASSUME NEW immediate \in BOOLEAN, NEW r, IsRing(r), WriterOK, ring' = r, writing.n <= r.committed,
           ScheduleWrite(immediate, r)
    PROVE /\ WriterOK'
          /\ HasWriter /\ ring'.committed > 0 => writing' # Idle \/ stuck \/ timer'
<1> USE DEF WriterOK, IsRing, Idle
<1>1. CASE Busy \/ r.committed = 0
  BY <1>1, SizeAssumption DEF ScheduleWrite, Busy
<1>2. CASE ~(Busy \/ r.committed = 0) /\ Batches(immediate, r)
  BY <1>2, SizeAssumption DEF ScheduleWrite
<1>3. CASE ~(Busy \/ r.committed = 0) /\ ~Batches(immediate, r)
  <2>1. writing' = Taking(r) \/ (~HasWriter /\ writing' = writing)
    BY <1>3 DEF ScheduleWrite
  <2> QED
    BY <1>3, <2>1, SizeAssumption DEF Taking
<1> QED
  BY <1>1, <1>2, <1>3

(* A message that fits is in the ring afterwards. *)
LEMMA Commits ==
    ASSUME IInv, NEW m \in [header : Nat, data : Nat, char : Nat], NEW immediate \in BOOLEAN,
           NEW gap, Length(m) <= Available(ring), CommitMessage(m, gap, immediate)
    PROVE /\ RingOK' /\ WriterOK'
          /\ HasWriter /\ ring'.committed > 0 => writing' # Idle \/ stuck \/ timer'
<1> DEFINE bytes == Message(Len(sent) + 1, m)
<1>1. Len(bytes) = Length(m) /\ Length(m) \in Nat
  BY MessageLength
<1>2. ring' = Commit(ring, bytes) /\ ScheduleWrite(immediate, Commit(ring, bytes))
  BY DEF CommitMessage
<1>3. IsRing(Commit(ring, bytes)) /\ Commit(ring, bytes).committed = ring.committed + Len(bytes)
  BY <1>1, <1>2, CommitCounts DEF IInv, RingOK
<1>4. writing.n <= Commit(ring, bytes).committed
  BY <1>1, <1>3, SizeAssumption DEF IInv, WriterOK, RingOK, IsRing
<1> QED
  BY <1>2, <1>3, <1>4, Schedules DEF IInv, RingOK

(* What was taken is released, and the writer goes on if there is more.    *)
LEMMA Releases ==
    ASSUME IInv, GoesOn
    PROVE /\ RingOK' /\ WriterOK' /\ ring'.committed <= ring.committed
          /\ ring'.committed > 0 => writing' # Idle
<1>1. IsRing(ring') /\ ring'.committed = ring.committed - writing.n
  BY ReleaseCounts DEF IInv, RingOK, WriterOK, GoesOn, Written
<1>2. ring'.committed <= ring.committed
  BY <1>1, SizeAssumption DEF IInv, WriterOK, RingOK, IsRing
<1>3. WriterOK' /\ (ring'.committed > 0 => writing' # Idle)
  BY <1>1, SizeAssumption DEF GoesOn, TakesMore, Taking, Idle, WriterOK, IsRing
<1> QED
  BY <1>1, <1>2, <1>3 DEF RingOK

(* Who is woken has room, and what else waits goes on waiting.             *)
LEMMA Wakens ==
    ASSUME IInv, IsRing(ring'), ring'.committed <= ring.committed, AfterWrite(ring'),
           UNCHANGED <<state, robbed, shake, tasks>>
    PROVE SlotOK' /\ InTurn' /\ RoomIsKept'
<1> USE SizeAssumption, BytesAssumption DEF IInv, SlotOK, InTurn, RoomIsKept, RingOK, IsRing, Available, NoOne
<1>1. CASE ~Wakes(ring')
  BY <1>1 DEF AfterWrite
<1>3. CASE Wakes(ring') /\ slot.who = "task"
  BY <1>3 DEF AfterWrite, Wakes
<1>4. CASE Wakes(ring') /\ slot.who = "stop"
  BY <1>4 DEF AfterWrite, Wakes
<1> QED
  BY <1>1, <1>3, <1>4 DEF Wakes

----------------------------------------------------------------------------
(* Every step keeps the invariant. *)

(* The writer: what it writes frees room, which nobody loses by. *)
LEMMA WriteKeeps == ASSUME IInv, WriteView \/ SendViews PROVE IInv'
<1>1. /\ ReservationsHold' /\ (state' = state) /\ (lost' = lost) /\ (robbed' = robbed) /\ (shake' = shake)
      /\ (stuck' = stuck) /\ (timer' = timer) /\ (tasks' = tasks)
  BY DEF WriteView, SendViews, readerVars, sentVars, IInv, ReservationsHold
<1>2. CASE GoesOn
  <2>1. RingOK' /\ WriterOK' /\ ring'.committed <= ring.committed /\ (ring'.committed > 0 => writing' # Idle)
    BY <1>2, Releases
  <2>2. CASE writing' = Idle
    BY <1>1, <1>2, <2>1, <2>2, Wakens DEF GoesOn, IInv, RingOK, CommittedHasWriter, Busy
  <2>3. CASE writing' # Idle
    <3>1. UNCHANGED <<slot, task, drain>>
      BY <1>2, <2>3 DEF GoesOn
    <3>2. SlotOK' /\ InTurn'
      BY <1>1, <3>1 DEF IInv, SlotOK, InTurn
    <3>3. RoomIsKept'
      BY <1>1, <2>1, <3>1, SizeAssumption, BytesAssumption
      DEF IInv, RingOK, IsRing, RoomIsKept, Available, InTurn
    <3> QED
      BY <1>1, <2>1, <2>3, <3>2, <3>3 DEF IInv, CommittedHasWriter, Busy
  <2> QED
    BY <2>2, <2>3
<1>3. CASE ring' = ring /\ writing # Idle /\ Len(writing.views) > 1
           /\ writing' = [writing EXCEPT !.views = Tail(@)] /\ UNCHANGED <<slot, task, drain>>
  <2>1. writing' = [n |-> writing.n, views |-> Tail(writing.views)] /\ writing.n > 0
    BY <1>3 DEF IInv, WriterOK
  <2>2. writing.n \in 0 .. ring.committed /\ ring.committed \in 0 .. Size /\ writing'.n = writing.n
    BY <2>1 DEF IInv, WriterOK, RingOK, IsRing
  <2>3. RingOK' /\ writing' # Idle
    BY <1>3, <2>1, <2>2 DEF IInv, RingOK, IsRing, Idle
  <2>4. WriterOK'
    BY <1>3, <2>1, <2>2, SizeAssumption DEF WriterOK
  <2> QED
    BY <1>1, <1>3, <2>3, <2>4
    DEF IInv, SlotOK, InTurn, RoomIsKept, CommittedHasWriter, Busy, Available
<1>4. CASE (lost \/ drain = "done") /\ writing' = Idle /\ AfterWrite(ring) /\ ring' = ring
  <2>1. RingOK' /\ WriterOK'
    BY <1>4, SizeAssumption DEF IInv, RingOK, WriterOK, IsRing, Idle
  <2>2. SlotOK' /\ InTurn' /\ RoomIsKept'
    BY <1>1, <1>4, <2>1, Wakens DEF RingOK, IsRing
  <2> QED
    BY <1>1, <1>4, <2>1, <2>2 DEF IInv, InTurn, CommittedHasWriter
<1> QED
  BY <1>2, <1>3, <1>4 DEF WriteView, SendViews

(* A disconnect empties the slot, and ends who was in it. *)
LEMMA DisconnectKeeps ==
    ASSUME IInv, OnDisconnect, UNCHANGED <<writing, stuck>> \/ writing' = Idle
    PROVE IInv'
<1>1. ReservationsHold' /\ CommittedHasWriter'
  BY DEF OnDisconnect, readerVars, IInv, ReservationsHold, CommittedHasWriter
<1>2. RingOK' /\ WriterOK'
  BY SizeAssumption DEF OnDisconnect, IInv, RingOK, WriterOK, IsRing, Idle
<1>3. SlotOK' /\ InTurn' /\ RoomIsKept'
  <2> USE DEF IInv, SlotOK, InTurn, RoomIsKept, NoOne, Available
  <2>1. CASE slot.who = "task"
    BY <2>1 DEF OnDisconnect
  <2>2. CASE slot.who # "task"
    BY <2>2 DEF OnDisconnect
  <2> QED
    BY <2>1, <2>2
<1> QED
  BY <1>1, <1>2, <1>3 DEF IInv

(* The timer starts a writer, unless there is one or nothing to write. *)
LEMMA TimerKeeps == ASSUME IInv, TimerFires PROVE IInv'
<1>1. UNCHANGED <<state, ring, stuck, slot, robbed, shake, tasks, task, drain, fault, lost>>
  BY DEF TimerFires, queueVars, slotVars, stopVars
<1>2. WriterOK' /\ (state = "on" /\ ring.committed > 0 => writing' # Idle \/ stuck \/ timer')
  <2>1. CASE Busy \/ ring.committed = 0
    <3>1. writing' = writing
      BY <2>1, Zenon DEF TimerFires
    <3>2. ring.committed > 0 => Busy
      BY <2>1
    <3>3. WriterOK'
      BY <1>1, <3>1 DEF IInv, WriterOK
    <3> QED
      BY <3>1, <3>2, <3>3 DEF Busy
  <2>2. CASE ~(Busy \/ ring.committed = 0)
    <3>1. ScheduleWrite(TRUE, ring)
      BY <2>2, Zenon DEF TimerFires
    <3>2. IsRing(ring) /\ writing.n <= ring.committed
      BY SizeAssumption DEF IInv, RingOK, WriterOK, IsRing
    <3> QED
      <4>1. WriterOK' /\ (HasWriter /\ ring'.committed > 0 => writing' # Idle \/ stuck \/ timer')
        BY <1>1, <3>1, <3>2, Schedules DEF IInv
      <4>2. state = "on" => HasWriter
        BY DEF IInv, HasWriter, InTurn
      <4> QED
        BY <1>1, <4>1, <4>2
  <2> QED
    BY <2>1, <2>2
<1> QED
  BY <1>1, <1>2
  DEF IInv, RingOK, SlotOK, InTurn, RoomIsKept, ReservationsHold, CommittedHasWriter, Available, Busy

(* The line of the configuration is the first there is in the ring, ... *)
LEMMA HandshakeKeeps == ASSUME IInv, SendHandshake PROVE IInv'
<1>1. /\ shake = "no" /\ shake' = "greeted"
      /\ UNCHANGED <<state, stuck, slot, robbed, tasks, task, drain, fault, lost>>
  BY DEF SendHandshake, queueVars, slotVars, stopVars
<1>2. Line \in [header : Nat, data : Nat, char : Nat] /\ Length(Line) <= Available(ring)
  BY <1>1, SizeAssumption, BytesAssumption DEF Line, Length, IInv, RingOK, IsRing, RoomIsKept, Available
<1>3. RingOK' /\ WriterOK' /\ (HasWriter /\ ring'.committed > 0 => writing' # Idle \/ stuck \/ timer')
  BY <1>2, Commits DEF SendHandshake
<1>4. tasks = <<>> /\ task = "idle" /\ SlotOK'
  BY <1>1 DEF IInv, InTurn, SlotOK
<1> QED
  BY <1>1, <1>3, <1>4
  DEF IInv, InTurn, RoomIsKept, ReservationsHold, CommittedHasWriter, HasWriter, Busy

(* ... and the second finds the room it waited for. *)
LEMMA StartKeeps == ASSUME IInv, StartMessageMode PROVE IInv'
<1>1. /\ shake = "ready" /\ shake' = "done"
      /\ UNCHANGED <<state, stuck, slot, robbed, tasks, task, drain, fault, lost>>
  BY DEF StartMessageMode, queueVars, slotVars, stopVars
<1>2. Line \in [header : Nat, data : Nat, char : Nat] /\ Length(Line) = LineLength
  BY SizeAssumption, BytesAssumption DEF Line, Length
<1>3. Reservable(ring, LineLength)
  BY <1>1 DEF IInv, RoomIsKept, Reservable
<1>4. CommitMessage(Line, 0, TRUE)
  BY DEF StartMessageMode
<1>5. Length(Line) <= Available(ring)
  BY <1>2, <1>3, SizeAssumption, BytesAssumption DEF Reservable, Available, IInv, RingOK, IsRing
<1>6. RingOK' /\ WriterOK' /\ (HasWriter /\ ring'.committed > 0 => writing' # Idle \/ stuck \/ timer')
  BY <1>2, <1>4, <1>5, Commits
<1>7. tasks = <<>> /\ task = "idle" /\ SlotOK'
  BY <1>1 DEF IInv, InTurn, SlotOK
<1> QED
  BY <1>1, <1>4, <1>6, <1>7
  DEF IInv, InTurn, RoomIsKept, ReservationsHold, CommittedHasWriter, HasWriter, Busy

(* Waiting for room takes the slot, whoever is in it. *)
LEMMA ReserveKeeps == ASSUME IInv, ReserveStart \/ Reserve PROVE IInv'
<1>1. UNCHANGED <<state, ring, writing, stuck, timer, tasks, drain, fault, lost>>
  BY DEF ReserveStart, Reserve, ringVars, queueVars, stopVars
<1>2. RingOK' /\ WriterOK' /\ ReservationsHold' /\ CommittedHasWriter'
  BY <1>1 DEF IInv, RingOK, IsRing, WriterOK, ReservationsHold, CommittedHasWriter, Busy
<1>3. SlotOK' /\ InTurn' /\ RoomIsKept'
  <2> USE DEF IInv, SlotOK, InTurn, RoomIsKept, Available, Reservable, NoOne, TakesSlot, queueVars, slotVars
  <2>1. CASE ReserveStart
    BY <1>1, <2>1 DEF ReserveStart
  <2>2. CASE Reserve
    BY <1>1, <2>2 DEF Reserve
  <2> QED
    BY <2>1, <2>2
<1> QED
  BY <1>2, <1>3 DEF IInv

(* A task that is added goes behind the first. *)
LEMMA AddKeeps == ASSUME IInv, NEW size \in Reserves, Add(size) PROVE IInv'
<1>1. UNCHANGED <<state, ring, writing, stuck, timer, slot, robbed, shake, task, drain, fault, lost>>
  BY DEF Add, ringVars, slotVars, stopVars
<1>2. tasks' = Append(tasks, size) /\ shake = "done"
  BY DEF Add
<1>3. tasks' \in Seq(Reserves) /\ tasks' # <<>> /\ (tasks # <<>> => Head(tasks') = Head(tasks))
  BY <1>2 DEF IInv, InTurn
<1> QED
  BY <1>1, <1>2, <1>3
  DEF IInv, RingOK, IsRing, WriterOK, SlotOK, InTurn, RoomIsKept, Available,
      ReservationsHold, CommittedHasWriter, Busy

(* A task that goes on finds the room it was promised. *)
LEMMA TaskKeeps ==
    ASSUME IInv, (\E m \in Shapes : SendChunk(m)) \/ SendNoAck PROVE IInv'
<1>1. /\ task = "ready" /\ task' = "idle" /\ tasks' = Tail(tasks)
      /\ UNCHANGED <<state, stuck, slot, robbed, shake, drain, lost>>
  BY DEF SendChunk, SendNoAck, TaskEnds, ringVars, slotVars, stopVars
<1>2. Reservable(ring, Head(tasks)) /\ tasks # <<>> /\ tasks \in Seq(Reserves) /\ slot.who # "task" /\ shake = "done"
  BY <1>1 DEF IInv, RoomIsKept, InTurn, SlotOK, Reservable
<1>3. tasks' \in Seq(Reserves)
  BY <1>1, <1>2 DEF IInv, InTurn
<1>4. SlotOK' /\ InTurn'
  BY <1>1, <1>2, <1>3 DEF IInv, SlotOK, InTurn
<1>5. CASE SendNoAck
  <2>1. ~fault' /\ UNCHANGED <<ring, writing, timer>>
    BY <1>2, <1>5, Zenon DEF SendNoAck, ringVars, IInv, ReservationsHold
  <2> QED
    BY <1>1, <1>2, <1>3, <1>4, <2>1
    DEF IInv, RingOK, IsRing, WriterOK, RoomIsKept, ReservationsHold, CommittedHasWriter, Busy
<1>6. CASE \E m \in Shapes : SendChunk(m)
  <2>1. PICK m \in Shapes : SendChunk(m)
    BY <1>6
  <2>0. PICK gap \in Gaps(ring, m) : /\ Length(m) + gap <= Head(tasks)
                                     /\ CommitMessage(m, gap, FALSE) /\ fault' = fault
    BY <1>2, <2>1 DEF SendChunk
  <2>2. CommitMessage(m, gap, FALSE) /\ fault' = fault /\ Length(m) <= Head(tasks)
    <3>1. gap \in Nat
      BY DEF Gaps
    <3>2. Length(m) \in Nat
      BY BytesAssumption, MessageLength
    <3>3. Head(tasks) \in Reserves
      BY <1>2
    <3>4. Head(tasks) \in Nat
      <4>1. Reserves \subseteq 1 .. Size
        BY BytesAssumption, Zenon
      <4>2. \A size \in Reserves : size \in Nat
        BY <4>1, SizeAssumption
      <4> QED
        BY <3>3, <4>2, Zenon
    <3>5. \A l, g, h \in Nat : l + g <= h => l <= h
      OBVIOUS
    <3> QED
      BY <2>0, <3>1, <3>2, <3>4, <3>5, Zenon
  <2>3. m \in [header : Nat, data : Nat, char : Nat] /\ Length(m) <= Available(ring)
    <3>1. m \in [header : Nat, data : Nat, char : Nat]
      BY BytesAssumption
    <3>2. Length(m) \in Nat
      BY <3>1, MessageLength
    <3>3. Head(tasks) \in Nat /\ Available(ring) \in Int
      BY <1>2, SizeAssumption, BytesAssumption DEF Available, IInv, RingOK, IsRing
    <3> QED
      BY <1>2, <2>2, <3>1, <3>2, <3>3 DEF Reservable
  <2>4. RingOK' /\ WriterOK' /\ (HasWriter /\ ring'.committed > 0 => writing' # Idle \/ stuck \/ timer')
    BY <2>2, <2>3, Commits
  <2> QED
    BY <1>1, <1>2, <1>3, <1>4, <2>2, <2>4
    DEF IInv, InTurn, RoomIsKept, ReservationsHold, CommittedHasWriter, HasWriter, Busy
<1> QED
  BY <1>5, <1>6

(* stop() starts the writer, and takes the slot whoever is in it. *)
LEMMA StopKeeps == ASSUME IInv, Stop PROVE IInv'
<1>1. /\ state = "on" /\ state' = "stopped"
      /\ UNCHANGED <<ring, stuck, shake, tasks, task, fault, lost>>
  BY DEF Stop, queueVars
<1>2. ScheduleWrite(TRUE, ring)
  BY Zenon DEF Stop
<1>3. RingOK' /\ WriterOK'
  <2>1. IsRing(ring) /\ writing.n <= ring.committed
    BY SizeAssumption DEF IInv, RingOK, WriterOK, IsRing
  <2> QED
    BY <1>1, <1>2, <2>1, Schedules DEF IInv, RingOK, IsRing
<1>4. SlotOK' /\ RoomIsKept'
  <2>1. \/ drain' = "done" /\ slot' = slot /\ robbed' = robbed
        \/ drain' = "waiting" /\ slot' = [who |-> "stop", size |-> Size] /\ robbed' \in {robbed, slot.who}
    BY Zenon DEF Stop, TakesSlot, DrainSize, slotVars
  <2>2. slot.who # "stop"
    BY <1>1 DEF IInv, SlotOK, InTurn
  <2>3. SlotOK'
    BY <1>1, <2>1, <2>2 DEF IInv, SlotOK, NoOne
  <2>4. RoomIsKept'
    BY <1>1 DEF IInv, RoomIsKept, Available
  <2> QED
    BY <2>3, <2>4
<1>6. InTurn'
  BY <1>1 DEF Stop, IInv, InTurn
<1> QED
  BY <1>1, <1>3, <1>4, <1>6 DEF IInv, ReservationsHold, CommittedHasWriter

(* The connection and the other end leave the rest alone. *)
LEMMA ReaderKeeps ==
    ASSUME IInv,
           \/ Lose \/ (\E n \in 1 .. Len(wire) : ReceiveBytes(n))
           \/ ReadLine \/ ReadType \/ ReadHeader \/ ReadData
           \/ EndStops \/ WakesReader \/ LeavesLoop
           \/ UNCHANGED vars
    PROVE IInv'
<1>1. /\ UNCHANGED <<state, ring, writing, stuck, timer, slot, robbed, shake, tasks, task, drain, fault>>
      /\ lost' = lost \/ lost'
  BY DEF Lose, ReceiveBytes, ReadLine, ReadType, ReadHeader, ReadData, Reads,
         EndStops, WakesReader, LeavesLoop, vars, senderVars, ringVars, queueVars, slotVars, stopVars
<1> QED
  BY <1>1
  DEF IInv, RingOK, IsRing, WriterOK, SlotOK, InTurn, RoomIsKept, Available,
      ReservationsHold, CommittedHasWriter, Busy

(* Every step keeps the invariant. *)
LEMMA InvNext == IInv /\ [Next]_vars => IInv'
<1> SUFFICES ASSUME IInv, [Next]_vars PROVE IInv'
  OBVIOUS
<1>1. CASE TimerFires
  BY <1>1, TimerKeeps
<1>2. CASE WriteView \/ SendViews
  BY <1>2, WriteKeeps
<1>3. CASE WriteFails \/ ReadFails \/ SocketCloses
  BY <1>3, DisconnectKeeps DEF WriteFails, ReadFails, SocketCloses, Disconnected
<1>4. CASE SendHandshake \/ StartMessageMode
  BY <1>4, HandshakeKeeps, StartKeeps
<1>5. CASE ReserveStart \/ Reserve
  BY <1>5, ReserveKeeps
<1>6. CASE (\E m \in Shapes : SendChunk(m)) \/ SendNoAck
  BY <1>6, TaskKeeps
<1>7. CASE Stop
  BY <1>7, StopKeeps
<1>8. CASE \E size \in Reserves : Add(size)
  BY <1>8, AddKeeps
<1>9. CASE \/ Lose \/ (\E n \in 1 .. Len(wire) : ReceiveBytes(n))
           \/ ReadLine \/ ReadType \/ ReadHeader \/ ReadData
           \/ EndStops \/ WakesReader \/ LeavesLoop
           \/ UNCHANGED vars
  BY <1>9, ReaderKeeps
<1> QED
  BY <1>1, <1>2, <1>3, <1>4, <1>5, <1>6, <1>7, <1>8, <1>9 DEF Next, Works

----------------------------------------------------------------------------
(* 'Insufficient pre-reservation' is never thrown: between the waking of a *)
(* waiter (afterWrite) and its going on, nobody takes its room.            *)
THEOREM RoomIsThere == Spec => []ReservationsHold
<1>1. IInv => ReservationsHold
  BY DEF IInv
<1> QED
  BY <1>1, InvInit, InvNext, PTL DEF Spec

----------------------------------------------------------------------------

(* A set of numbers has a least one. *)
LEMMA LeastFacts ==
    ASSUME NEW S \in SUBSET Nat, S # {}
    PROVE  Min(S) \in S /\ \A y \in S : Min(S) <= y
<1> DEFINE Upto(x) == {y \in S : y <= x}
           U == {Upto(x) : x \in S}
<1>1. U \subseteq FiniteSubsetsOf(S) /\ U # {}
  <2>1. ASSUME NEW x \in S PROVE Upto(x) \subseteq S /\ IsFiniteSet(Upto(x))
    <3>1. Upto(x) \in SUBSET Nat /\ \A s \in Upto(x) : s <= x
      OBVIOUS
    <3> HIDE DEF Upto
    <3>2. IsFiniteSet(Upto(x))
      BY <3>1, FS_BoundedSetOfNaturals
    <3> QED
      BY <3>2 DEF Upto
  <2> QED
    BY <2>1 DEF FiniteSubsetsOf
<1>2. PICK u \in U : \A v \in U : ~(<<v, u>> \in StrictSubsetOrdering(S))
  <2> HIDE DEF U
  <2> QED
    BY <1>1, WFMin, FS_StrictSubsetOrderingWellFounded
<1>3. PICK x \in S : u = Upto(x)
  OBVIOUS
<1>4. ASSUME NEW y \in S PROVE x <= y
  <2>1. SUFFICES ASSUME y < x PROVE FALSE
    OBVIOUS
  <2>2. Upto(y) \subseteq Upto(x) /\ x \in Upto(x) /\ x \notin Upto(y) /\ Upto(y) \in U
    <3>1. \A z \in Nat : z <= y => z <= x
      BY <2>1
    <3>2. ~(x <= y) /\ x <= x
      BY <2>1
    <3>3. Upto(y) \in U
      OBVIOUS
    <3> QED
      BY <3>1, <3>2, <3>3, Zenon
  <2> QED
    BY <1>2, <1>3, <2>2 DEF StrictSubsetOrdering
<1> QED
  BY <1>4 DEF Min

(* What is sent at once is the bytes of all the views. *)
LEMMA FlattenOne == ASSUME NEW f, Len(f) = 1, DOMAIN f = 1 .. 1 PROVE FlattenSeq(f) = f[1]
<1> DEFINE Step(g) == [i \in 1 .. Len(f) |-> IF i = 1 THEN f[i] ELSE g[i - 1] \o f[i]]
           w == [i \in 1 .. 1 |-> f[1]]
<1>1. w = Step(w)
  OBVIOUS
<1>2. (CHOOSE g : g = Step(g)) = Step(CHOOSE g : g = Step(g))
  BY <1>1
<1> QED
  BY <1>2 DEF FlattenSeq

LEMMA FlattenTwo == ASSUME NEW f, Len(f) = 2, DOMAIN f = 1 .. 2 PROVE FlattenSeq(f) = f[1] \o f[2]
<1> DEFINE Step(g) == [i \in 1 .. Len(f) |-> IF i = 1 THEN f[i] ELSE g[i - 1] \o f[i]]
           w == [i \in 1 .. 2 |-> IF i = 1 THEN f[1] ELSE f[1] \o f[2]]
<1>1. w = Step(w)
  OBVIOUS
<1>2. (CHOOSE g : g = Step(g)) = Step(CHOOSE g : g = Step(g))
  BY <1>1
<1>3. FlattenSeq(f) = (CHOOSE g : g = Step(g))[2]
  BY DEF FlattenSeq
<1> DEFINE c == CHOOSE g : g = Step(g)
<1> HIDE DEF c
<1>4. c = Step(c)
  BY <1>2 DEF c
<1>5. c[1] = f[1] /\ c[2] = c[1] \o f[2]
  BY <1>4
<1> QED
  BY <1>3, <1>5 DEF c

LEMMA Concatenated ==
    ASSUME NEW T, NEW p \in Seq(T), NEW q \in Seq(T)
    PROVE  /\ p \o q \in Seq(T) /\ Len(p \o q) = Len(p) + Len(q) /\ Len(p) \in Nat /\ Len(q) \in Nat
           /\ DOMAIN p = 1 .. Len(p) /\ DOMAIN q = 1 .. Len(q) /\ DOMAIN (p \o q) = 1 .. Len(p) + Len(q)
           /\ \A i \in 1 .. Len(p) : (p \o q)[i] = p[i]
           /\ \A i \in 1 .. Len(q) : (p \o q)[Len(p) + i] = q[i]
OBVIOUS

(* A part of the stream of the messages s, which begins behind the first d *)
(* of them.                                                                *)
Bytes == Nat \X Nat
Streams(s, q, d) == q \in Seq(Bytes) /\ InStep(s, q, d)

IsSent(s) == s \in Seq([header : Nat, data : Nat, char : Nat]) /\ \A i \in DOMAIN s : Length(s[i]) \in Nat \ {0}

(* It begins with the bytes of message d + 1, as far as it goes. *)
LEMMA StreamHead ==
    ASSUME NEW s, NEW q, NEW d \in Nat, Streams(s, q, d), Length(s[d + 1]) \in Nat
    PROVE  \A j \in 1 .. Len(q) : j <= Length(s[d + 1]) => q[j] = <<d + 1, j>>
<1> DEFINE S == {j \in 1 .. Len(q) : j <= Length(s[d + 1]) /\ q[j] # <<d + 1, j>>}
<1> SUFFICES ASSUME S # {} PROVE FALSE
  OBVIOUS
<1>1. S \in SUBSET Nat
  OBVIOUS
<1>2. PICK m \in S : \A j \in S : m <= j
  <2> HIDE DEF S
  <2> QED
    BY <1>1, LeastFacts
<1>0. Len(q) \in Nat
  BY DEF Streams, InStep
<1>3. m \in 1 .. Len(q) /\ m <= Length(s[d + 1]) /\ q[m] # <<d + 1, m>> /\ m \in DOMAIN q
  BY DEF Streams, InStep
<1>4. m # 1
  BY <1>3 DEF Streams, InStep
<1>5. m - 1 \in 1 .. Len(q) /\ m - 1 <= Length(s[d + 1]) /\ m - 1 \notin S
  BY <1>0, <1>2, <1>3, <1>4
<1>6. q[m - 1] = <<d + 1, m - 1>>
  BY <1>5
<1>7. q[m] = Follows(s, q[m - 1])
  BY <1>3, <1>4 DEF Streams, InStep
<1> QED
  BY <1>3, <1>5, <1>6, <1>7 DEF Follows

(* A part of the stream that is cut is one. *)
LEMMA StreamCut ==
    ASSUME NEW s, NEW q, NEW d, NEW p, Streams(s, q \o p, d), q \in Seq(Bytes), p \in Seq(Bytes)
    PROVE  Streams(s, q, d)
<1>1. \A i \in DOMAIN q : i \in DOMAIN (q \o p) /\ (q \o p)[i] = q[i] /\ (i # 1 => i - 1 \in DOMAIN q /\ (q \o p)[i - 1] = q[i - 1])
  OBVIOUS
<1> QED
  BY <1>1 DEF Streams, InStep

(* More messages do not matter to it. *)
LEMMA StreamGrows ==
    ASSUME NEW s, IsSent(s), NEW q, NEW d, Streams(s, q, d), NEW m \in [header : Nat, data : Nat, char : Nat]
    PROVE  Streams(Append(s, m), q, d)
<1>1. \A i \in DOMAIN s : i \in DOMAIN Append(s, m) /\ Append(s, m)[i] = s[i]
  BY DEF IsSent
<1>2. \A b : IsByte(s, b) => IsByte(Append(s, m), b) /\ Follows(Append(s, m), b) = Follows(s, b)
  BY <1>1 DEF IsByte, Follows
<1>3. \A i \in DOMAIN q : i # 1 => i - 1 \in DOMAIN q
  BY DEF Streams, InStep
<1> QED
  BY <1>2, <1>3 DEF Streams, InStep

(* The bytes of the next message go behind it. *)
LEMMA StreamAppend ==
    ASSUME NEW s, IsSent(s), NEW q, NEW d \in Nat, Streams(s, q, d), Ends(s, q, d),
           NEW m \in [header : Nat, data : Nat, char : Nat], Length(m) \in Nat \ {0}
    PROVE  /\ Streams(Append(s, m), q \o Message(Len(s) + 1, m), d)
           /\ Ends(Append(s, m), q \o Message(Len(s) + 1, m), d)
           /\ Message(Len(s) + 1, m) \in Seq(Bytes) /\ Len(Message(Len(s) + 1, m)) = Length(m)
           /\ Message(Len(s) + 1, m)[1] = <<Len(s) + 1, 1>>
<1> DEFINE t == Append(s, m)
           b == Message(Len(s) + 1, m)
           n == Len(s) + 1
<1>1. s \in Seq([header : Nat, data : Nat, char : Nat]) /\ t \in Seq([header : Nat, data : Nat, char : Nat]) /\ Len(t) = n /\ t[n] = m /\ n \in Nat /\ n \in DOMAIN t
  BY DEF IsSent
<1>2. /\ b \in Seq(Bytes) /\ Len(b) = Length(m) /\ \A k \in 1 .. Length(m) : b[k] = <<n, k>>
  <2>1. n \in Nat
    BY <1>1
  <2>2. b = [k \in 1 .. Length(m) |-> <<n, k>>]
    BY DEF Message
  <2> HIDE DEF n, b
  <2> QED
    BY <2>1, <2>2 DEF Bytes
<1>3. Streams(t, q, d)
  BY StreamGrows
<1> HIDE DEF t, b, n
<1>4. q \in Seq(Bytes) /\ Len(q) \in Nat
  BY <1>3 DEF Streams, InStep
<1>5. /\ q \o b \in Seq(Bytes) /\ Len(q \o b) = Len(q) + Length(m)
      /\ \A i \in 1 .. Len(q) : (q \o b)[i] = q[i]
      /\ \A k \in 1 .. Length(m) : (q \o b)[Len(q) + k] = <<n, k>>
  <2>1. q \in Seq(Bytes) /\ b \in Seq(Bytes)
    BY <1>2, <1>4
  <2>2. /\ q \o b \in Seq(Bytes) /\ Len(q \o b) = Len(q) + Len(b)
        /\ \A i \in 1 .. Len(q) : (q \o b)[i] = q[i]
        /\ \A k \in 1 .. Len(b) : (q \o b)[Len(q) + k] = b[k]
    BY <2>1, Concatenated
  <2> HIDE DEF Bytes
  <2> QED
    BY <1>2, <2>2
<1>6. \A k \in 1 .. Length(m) : IsByte(t, <<n, k>>)
  BY <1>1 DEF IsByte
<1>7. \A k \in 1 .. Length(m) : k # 1 => k - 1 \in 1 .. Length(m) /\ <<n, k>> = Follows(t, <<n, k - 1>>)
  BY <1>1 DEF Follows
<1>8. <<n, 1>> = IF q = <<>> THEN <<d + 1, 1>> ELSE Follows(t, q[Len(q)])
  <2>1. CASE q = <<>>
    BY <2>1 DEF Ends, n
  <2>2. CASE q # <<>>
    <3>1. Len(q) \in DOMAIN q /\ IsByte(s, q[Len(q)]) /\ q[Len(q)] = <<Len(s), Length(s[Len(s)])>>
      BY <1>4, <2>2 DEF Ends, Streams, InStep
    <3>2. Len(s) \in DOMAIN s /\ Len(s) \in Nat /\ Length(s[Len(s)]) \in Nat
      BY <3>1, <1>1 DEF IsByte, IsSent
    <3>3. t[Len(s)] = s[Len(s)]
      BY <1>1, <3>2 DEF t
    <3> QED
      BY <2>2, <3>1, <3>2, <3>3 DEF Follows, n
  <2> QED
    BY <2>1, <2>2
<1>9. ASSUME NEW i \in 1 .. Len(q) + Length(m)
      PROVE  IsByte(t, (q \o b)[i]) /\ (q \o b)[i] = IF i = 1 THEN <<d + 1, 1>> ELSE Follows(t, (q \o b)[i - 1])
  <2>1. CASE i \in 1 .. Len(q)
    <3>1. i # 1 => i - 1 \in 1 .. Len(q)
      BY <1>4, <2>1
    <3>2. i \in DOMAIN q
      BY <1>4, <2>1
    <3>3. IsByte(t, q[i]) /\ q[i] = IF i = 1 THEN <<d + 1, 1>> ELSE Follows(t, q[i - 1])
      BY <1>3, <3>2 DEF Streams, InStep
    <3>4. (q \o b)[i] = q[i] /\ (i # 1 => (q \o b)[i - 1] = q[i - 1])
      BY <1>5, <2>1, <3>1
    <3> QED
      BY <3>3, <3>4
  <2>2. CASE i = Len(q) + 1
    <3>1. 1 \in 1 .. Length(m) /\ (q \o b)[i] = <<n, 1>>
      BY <1>5, <2>2
    <3>2. q = <<>> => i = 1
      BY <2>2
    <3>3. q # <<>> => Len(q) \in 1 .. Len(q) /\ i # 1 /\ i - 1 = Len(q)
      BY <1>4, <2>2
    <3> QED
      BY <1>5, <1>6, <1>8, <3>1, <3>2, <3>3
  <2>3. CASE i > Len(q) + 1
    <3>1. i - Len(q) \in 1 .. Length(m) /\ i - Len(q) # 1 /\ (i - Len(q)) - 1 \in 1 .. Length(m)
      BY <1>4, <2>3
    <3>2. (q \o b)[i] = <<n, i - Len(q)>> /\ (q \o b)[i - 1] = <<n, (i - Len(q)) - 1>>
      <4>1. Len(q) + (i - Len(q)) = i /\ Len(q) + ((i - Len(q)) - 1) = i - 1
        BY <1>4
      <4>2. \A k \in 1 .. Length(m) : (q \o b)[Len(q) + k] = <<n, k>>
        BY <1>5
      <4>3. /\ (q \o b)[Len(q) + (i - Len(q))] = <<n, i - Len(q)>>
            /\ (q \o b)[Len(q) + ((i - Len(q)) - 1)] = <<n, (i - Len(q)) - 1>>
        BY <3>1, <4>2, Zenon
      <4> QED
        BY <4>1, <4>3
    <3> QED
      BY <1>4, <1>6, <1>7, <2>3, <3>1, <3>2
  <2>4. i \in 1 .. Len(q) \/ i = Len(q) + 1 \/ i > Len(q) + 1
    BY <1>4
  <2> QED
    BY <2>1, <2>2, <2>3, <2>4, Zenon
<1>10. Streams(t, q \o b, d)
  <2>1. DOMAIN (q \o b) = 1 .. Len(q) + Length(m)
    BY <1>5
  <2> QED
    BY <1>5, <1>9, <2>1 DEF Streams, InStep
<1>11. Ends(t, q \o b, d)
  <2>1. Length(m) \in 1 .. Length(m) /\ q \o b # <<>>
    BY <1>4, <1>5
  <2> QED
    BY <1>1, <1>5, <2>1 DEF Ends
<1>12. 1 \in 1 .. Length(m)
  OBVIOUS
<1> QED
  BY <1>2, <1>10, <1>11, <1>12 DEF t, b, n

(* Without its first message it is one that begins behind it. *)
LEMMA StreamDrop ==
    ASSUME NEW s, IsSent(s), NEW q, NEW d \in Nat, Streams(s, q, d), d + 1 \in DOMAIN s, Length(s[d + 1]) <= Len(q),
           NEW p \in Seq(Bytes), NEW r \in Seq(Bytes), q = p \o r, Len(p) = Length(s[d + 1])
    PROVE  /\ p = Message(d + 1, s[d + 1])
           /\ Streams(s, r, d + 1)
           /\ Ends(s, q, d) => Ends(s, r, d + 1)
<1> DEFINE n == Length(s[d + 1])
<1>1. n \in Nat \ {0} /\ Len(r) \in Nat /\ Len(q) = n + Len(r)
  <2>1. n \in Nat \ {0}
    BY DEF IsSent
  <2>2. Len(r) \in Nat /\ Len(q) = Len(p) + Len(r)
    <3> HIDE DEF Bytes
    <3> QED
      BY Concatenated
  <2> QED
    BY <2>1, <2>2
<1> HIDE DEF n
<1>2. \A j \in 1 .. n : q[j] = <<d + 1, j>>
  <2>1. n <= Len(q) /\ Length(s[d + 1]) = n /\ n \in Nat /\ n <= n
    BY <1>1 DEF n
  <2> QED
    <3>1. \A j \in 1 .. Len(q) : j <= Length(s[d + 1]) => q[j] = <<d + 1, j>>
      <4>1. Length(s[d + 1]) \in Nat
        BY <2>1
      <4> QED
        BY <4>1, StreamHead
    <3>2. Len(q) \in Nat
      BY DEF Streams, InStep
    <3> QED
      BY <1>1, <2>1, <3>1, <3>2
<1>3. \A j \in 1 .. n : p[j] = q[j]
  BY <1>1 DEF n
<1>4. p = Message(d + 1, s[d + 1])
  <2>1. p = [k \in 1 .. n |-> p[k]]
    BY DEF n
  <2> QED
    BY <1>2, <1>3, <2>1 DEF Message, n
<1>5. \A i \in 1 .. Len(r) : r[i] = q[n + i] /\ n + i \in DOMAIN q /\ n + i # 1 /\ (n + i) - 1 = IF i = 1 THEN n ELSE n + (i - 1)
  <2>1. Len(p) = n /\ \A i \in 1 .. Len(r) : q[Len(p) + i] = r[i]
    BY Concatenated DEF n
  <2> QED
    BY <1>1, <2>1
<1>6. Follows(s, q[n]) = <<(d + 1) + 1, 1>>
  BY <1>1, <1>2 DEF Follows, n
<1>7. Streams(s, r, d + 1)
  <2>1. ASSUME NEW i \in 1 .. Len(r) PROVE IsByte(s, r[i]) /\ r[i] = IF i = 1 THEN <<(d + 1) + 1, 1>> ELSE Follows(s, r[i - 1])
    <3>0. n + i \in DOMAIN q /\ n + i # 1
      BY <1>5
    <3> DEFINE j == n + i
    <3> HIDE DEF j
    <3>a. IsByte(s, q[j]) /\ q[j] = Follows(s, q[j - 1])
      BY <3>0 DEF Streams, InStep, j
    <3>1. IsByte(s, q[n + i]) /\ q[n + i] = Follows(s, q[(n + i) - 1])
      BY <3>a DEF j
    <3>2. CASE i = 1
      BY <1>5, <1>6, <3>1, <3>2
    <3>3. CASE i # 1
      <4>1. i - 1 \in 1 .. Len(r) /\ r[i - 1] = q[n + (i - 1)]
        BY <1>1, <1>5, <3>3
      <4> QED
        BY <1>5, <3>1, <3>3, <4>1
    <3> QED
      BY <3>2, <3>3
  <2>2. r \in Seq(Bytes) /\ DOMAIN r = 1 .. Len(r)
    OBVIOUS
  <2> QED
    BY <2>1, <2>2 DEF Streams, InStep
<1>8. ASSUME Ends(s, q, d) PROVE Ends(s, r, d + 1)
  <2>0. q # <<>> /\ q[Len(q)] = <<Len(s), Length(s[Len(s)])>>
    BY <1>1, <1>8 DEF Ends
  <2>1. CASE r = <<>>
    <3>1. q[n] = <<d + 1, n>> /\ Len(q) = n
      BY <1>1, <1>2, <2>1
    <3> QED
      BY <2>0, <2>1, <3>1 DEF Ends
  <2>2. CASE r # <<>>
    <3>1. Len(r) \in 1 .. Len(r)
      BY <1>1, <2>2
    <3> QED
      BY <1>1, <1>5, <2>0, <2>2, <3>1 DEF Ends
  <2> QED
    BY <2>1, <2>2
<1> QED
  BY <1>4, <1>7, <1>8

(* Positions of the ring, from one before it to one behind it. *)
LEMMA WrapIs ==
    ASSUME NEW n \in Int
    PROVE  /\ n \in Positions => Wrap(n) = n
           /\ n - Size \in Positions => Wrap(n) = n - Size
           /\ n + Size \in Positions => Wrap(n) = n + Size
<1> USE SizeAssumption DEF Wrap, Positions
<1>1. n \in Positions => n % Size = n
  OBVIOUS
<1>2. ASSUME n - Size \in Positions PROVE n % Size = n - Size
  <2>1. PICK k \in Positions : k = n - Size
    BY <1>2
  <2>2. (k + Size) % Size = k
    OBVIOUS
  <2>3. n = k + Size
    BY <2>1
  <2> QED
    BY <2>1, <2>2, <2>3
<1>3. ASSUME n + Size \in Positions PROVE n % Size = n + Size
  <2>1. PICK k \in Positions : k = n + Size
    BY <1>3
  <2>2. (k - Size) % Size = k
    OBVIOUS
  <2>3. n = k - Size
    BY <2>1
  <2> QED
    BY <2>1, <2>2, <2>3
<1> QED
  BY <1>1, <1>2, <1>3

(* From one position to another, around the end. *)
LEMMA Distance ==
    ASSUME NEW h \in Positions, NEW c \in 0 .. Size, NEW j \in Positions
    PROVE  /\ Wrap(h + c) \in Positions /\ Wrap(h + j) \in Positions
           /\ Wrap(Wrap(h + j) - Wrap(h + c)) = IF j < c THEN (j - c) + Size ELSE j - c
<1>1. Wrap(h + c) = IF h + c < Size THEN h + c ELSE (h + c) - Size
  BY SizeAssumption, WrapIs DEF Positions
<1>2. Wrap(h + j) = IF h + j < Size THEN h + j ELSE (h + j) - Size
  BY SizeAssumption, WrapIs DEF Positions
<1> DEFINE n == Wrap(h + j) - Wrap(h + c)
<1>3. n \in Int /\ (n = j - c \/ n = (j - c) + Size \/ n = (j - c) - Size) /\ n > -Size /\ n < Size
  BY <1>1, <1>2, SizeAssumption DEF Positions
<1> HIDE DEF n
<1>4. Wrap(n) = IF n >= 0 THEN n ELSE n + Size
  BY <1>3, SizeAssumption, WrapIs DEF Positions
<1>5. Wrap(n) = IF j < c THEN (j - c) + Size ELSE j - c
  BY <1>3, <1>4, SizeAssumption DEF Positions
<1> QED
  BY <1>1, <1>2, <1>5, SizeAssumption DEF Positions, n

(* Every position is at some distance from another. *)
LEMMA Places ==
    ASSUME NEW h \in Positions, NEW i \in Positions
    PROVE  \E j \in Positions : i = Wrap(h + j)
<1>1. CASE i >= h
  <2>1. i - h \in Positions /\ h + (i - h) = i
    BY <1>1, SizeAssumption DEF Positions
  <2> QED
    BY <2>1, WrapIs DEF Positions
<1>2. CASE i < h
  <2>1. (i - h) + Size \in Positions /\ h + ((i - h) + Size) = i + Size /\ (i + Size) - Size = i /\ i + Size \in Int
    BY <1>2, SizeAssumption DEF Positions
  <2>2. Wrap(i + Size) = i
    BY <2>1, WrapIs
  <2> QED
    BY <2>1, <2>2
<1> QED
  BY <1>1, <1>2 DEF Positions

(* What the ring holds: between its heads bytes, from the read head on, *)
(* and elsewhere nothing.                                                  *)
Holds(r) ==
    /\ r.readHead \in Positions /\ r.committed \in 0 .. Size /\ r.writeHead = Wrap(r.readHead + r.committed)
    /\ r.cells \in [Positions -> Bytes \cup {Zero}]
    /\ \A j \in Positions : InRing(r, j) = Zero <=> j >= r.committed

(* What is in it behind the first g bytes. *)
LEMMA PendingBytes ==
    ASSUME NEW r, Holds(r), NEW g \in 0 .. r.committed
    PROVE  Pending(r, g) \in Seq(Bytes) /\ Len(Pending(r, g)) = r.committed - g
<1>1. r.committed \in 0 .. Size /\ r.committed - g \in Nat
  BY SizeAssumption DEF Holds
<1>2. ASSUME NEW j \in 1 .. r.committed - g PROVE InRing(r, g + (j - 1)) \in Bytes
  <2>1. g + (j - 1) \in Positions /\ ~(g + (j - 1) >= r.committed)
    BY <1>1, <1>2, SizeAssumption DEF Positions
  <2>2. InRing(r, g + (j - 1)) # Zero
    BY <2>1 DEF Holds
  <2>3. Wrap(r.readHead + (g + (j - 1))) \in Positions
    BY <1>1, <2>1, Distance DEF Holds
  <2> QED
    BY <2>2, <2>3 DEF Holds, InRing
<1> QED
  BY <1>1, <1>2 DEF Pending

(* commit() puts bytes behind those that are there. *)
LEMMA CommitHolds ==
    ASSUME NEW r, Holds(r), NEW b \in Seq(Bytes), Len(b) <= Available(r)
    PROVE  /\ Holds(Commit(r, b)) /\ Commit(r, b).readHead = r.readHead /\ Commit(r, b).committed = r.committed + Len(b)
           /\ \A g \in 0 .. r.committed : Pending(Commit(r, b), g) = Pending(r, g) \o b
<1> DEFINE t == Commit(r, b)
           c == r.committed
           h == r.readHead
<1>1. /\ h \in Positions /\ c \in 0 .. Size /\ c \in Nat /\ c <= Size /\ Len(b) \in Nat /\ Len(b) <= Size - c
      /\ r.writeHead = Wrap(h + c) /\ r.cells \in [Positions -> Bytes \cup {Zero}]
  BY SizeAssumption DEF Holds, Available
<1>2. t.readHead = h /\ t.committed = c + Len(b) /\ t.cells = Reserved(r, b) /\ t.writeHead = Wrap(Wrap(h + c) + Len(b))
  BY <1>1 DEF Commit
<1> HIDE DEF t, c, h
<1>3. ASSUME NEW j \in Positions
      PROVE  InRing(t, j) = IF c <= j /\ j < c + Len(b) THEN b[(j - c) + 1] ELSE InRing(r, j)
  <2> DEFINE i == Wrap(h + j)
             n == Wrap(i - Wrap(h + c))
  <2>1. i \in Positions /\ n = IF j < c THEN (j - c) + Size ELSE j - c
    BY <1>1, Distance
  <2>2. InRing(t, j) = IF n < Len(b) THEN b[n + 1] ELSE r.cells[i]
    BY <1>1, <1>2, <2>1 DEF InRing, Reserved
  <2>3. InRing(r, j) = r.cells[i]
    BY DEF InRing, h
  <2> HIDE DEF i, n
  <2>4. n < Len(b) <=> c <= j /\ j < c + Len(b)
    BY <1>1, <2>1, SizeAssumption DEF Positions
  <2>5. n < Len(b) => n = j - c
    BY <1>1, <2>1, <2>4, SizeAssumption DEF Positions
  <2> QED
    BY <2>2, <2>3, <2>4, <2>5
<1>4. Wrap(Wrap(h + c) + Len(b)) = Wrap(h + (c + Len(b)))
  <2>1. Wrap(h + c) = IF h + c < Size THEN h + c ELSE (h + c) - Size
    BY <1>1, SizeAssumption, WrapIs DEF Positions
  <2> DEFINE x == h + (c + Len(b))
             y == Wrap(h + c) + Len(b)
  <2>2. x \in Int /\ y \in Int /\ 0 <= y /\ y < Size + Size /\ 0 <= x /\ x < Size + Size /\ (y = x \/ (y = x - Size /\ y < Size))
    BY <1>1, <2>1, SizeAssumption DEF Positions
  <2> HIDE DEF x, y
  <2>3. Wrap(y) = Wrap(x)
    BY <2>2, SizeAssumption, WrapIs DEF Positions
  <2> QED
    BY <2>3 DEF x, y
<1>5. t.cells \in [Positions -> Bytes \cup {Zero}]
  <2>1. ASSUME NEW i \in Positions PROVE Reserved(r, b)[i] \in Bytes \cup {Zero}
    <3>1. Wrap(i - r.writeHead) \in Nat
      BY <1>1, SizeAssumption, Distance DEF Positions, Wrap
    <3> QED
      BY <1>1, <3>1 DEF Reserved
  <2> QED
    BY <1>2, <2>1 DEF Reserved
<1>6. ASSUME NEW j \in Positions PROVE InRing(t, j) = Zero <=> j >= t.committed
  <2>1. CASE c <= j /\ j < c + Len(b)
    <3>1. (j - c) + 1 \in 1 .. Len(b)
      BY <1>1, <2>1 DEF Positions
    <3>2. b[(j - c) + 1] \in Bytes
      BY <3>1
    <3> QED
      BY <1>1, <1>2, <1>3, <2>1, <3>2, BytesAssumption DEF Bytes, Positions
  <2>2. CASE ~(c <= j /\ j < c + Len(b))
    <3>1. InRing(t, j) = Zero <=> j >= c
      BY <1>3, <2>2 DEF Holds, c
    <3> QED
      BY <1>1, <1>2, <2>2, <3>1 DEF Positions
  <2> QED
    BY <2>1, <2>2
<1>7. Holds(t)
  <2>1. t.committed \in 0 .. Size
    BY <1>1, <1>2, SizeAssumption
  <2> QED
    BY <1>1, <1>2, <1>4, <1>5, <1>6, <2>1 DEF Holds
<1>8. ASSUME NEW g \in 0 .. c PROVE Pending(t, g) = Pending(r, g) \o b
  <2>1. Pending(r, g) \in Seq(Bytes) /\ Len(Pending(r, g)) = c - g /\ Pending(t, g) \in Seq(Bytes) /\ Len(Pending(t, g)) = (c + Len(b)) - g
    <3>1. g \in 0 .. t.committed
      BY <1>1, <1>2
    <3> QED
      BY <1>2, <1>7, <3>1, PendingBytes DEF c
  <2>2. /\ Pending(r, g) \o b \in Seq(Bytes) /\ Len(Pending(r, g) \o b) = (c - g) + Len(b)
        /\ \A i \in 1 .. c - g : (Pending(r, g) \o b)[i] = Pending(r, g)[i]
        /\ \A i \in 1 .. Len(b) : (Pending(r, g) \o b)[(c - g) + i] = b[i]
    <3> DEFINE p == Pending(r, g)
    <3>1. p \in Seq(Bytes) /\ b \in Seq(Bytes) /\ Len(p) = c - g
      BY <2>1
    <3> HIDE DEF p
    <3>2. p \o b \in Seq(Bytes) /\ Len(p \o b) = Len(p) + Len(b)
      BY <3>1, Concatenated
    <3>3. \A i \in 1 .. Len(p) : (p \o b)[i] = p[i]
      BY <3>1, Concatenated
    <3>4. \A i \in 1 .. Len(b) : (p \o b)[Len(p) + i] = b[i]
      BY <3>1, Concatenated
    <3> QED
      BY <3>1, <3>2, <3>3, <3>4 DEF p
  <2>3. ASSUME NEW i \in 1 .. (c - g) + Len(b) PROVE Pending(t, g)[i] = (Pending(r, g) \o b)[i]
    <3>1. g + (i - 1) \in Positions /\ Pending(t, g)[i] = InRing(t, g + (i - 1))
      BY <1>1, <1>2, SizeAssumption DEF Pending, Positions
    <3>2. CASE i \in 1 .. c - g
      <4>1. ~(c <= g + (i - 1)) /\ Pending(r, g)[i] = InRing(r, g + (i - 1))
        BY <1>1, <3>2 DEF Pending, c
      <4> QED
        BY <1>3, <2>2, <3>1, <3>2, <4>1
    <3>3. CASE i > c - g
      <4>1. i - (c - g) \in 1 .. Len(b) /\ (c - g) + (i - (c - g)) = i /\ c <= g + (i - 1) /\ g + (i - 1) < c + Len(b)
            /\ ((g + (i - 1)) - c) + 1 = i - (c - g)
        BY <1>1, <3>3
      <4>2. InRing(t, g + (i - 1)) = b[i - (c - g)]
        BY <1>3, <3>1, <4>1
      <4>3. (Pending(r, g) \o b)[i] = b[i - (c - g)]
        BY <2>2, <4>1
      <4> QED
        BY <3>1, <4>2, <4>3
    <3>4. i \in 1 .. c - g \/ i > c - g
      BY <1>1
    <3> QED
      BY <3>2, <3>3, <3>4
  <2>4. Len(Pending(t, g)) = Len(Pending(r, g) \o b) /\ Len(Pending(t, g)) = (c - g) + Len(b)
    BY <1>1, <2>1, <2>2
  <2> QED
    BY <2>1, <2>2, <2>3, <2>4
<1> QED
  BY <1>2, <1>7, <1>8 DEF t, c, h

(* release() takes away the first bytes. *)
LEMMA ReleaseHolds ==
    ASSUME NEW r, Holds(r), NEW n \in 0 .. r.committed
    PROVE  /\ Holds(Release(r, n)) /\ Release(r, n).committed = r.committed - n
           /\ Pending(Release(r, n), 0) = Pending(r, n)
<1> DEFINE t == Release(r, n)
           c == r.committed
           h == r.readHead
<1>1. /\ h \in Positions /\ c \in 0 .. Size /\ c \in Nat /\ c <= Size /\ n \in 0 .. c
      /\ r.writeHead = Wrap(h + c) /\ r.cells \in [Positions -> Bytes \cup {Zero}]
  BY SizeAssumption DEF Holds
<1>2. /\ t.readHead = Wrap(h + n) /\ t.committed = c - n /\ t.writeHead = Wrap(h + c)
      /\ t.cells = [i \in Positions |-> IF Wrap(i - h) < n THEN Zero ELSE r.cells[i]]
  BY <1>1 DEF Release
<1>a. \A i \in Positions : InRing(r, i) = Zero <=> i >= c
  BY DEF Holds, c
<1> HIDE DEF t, c, h
<1>3. ASSUME NEW x \in 0 .. Size PROVE Wrap(Wrap(h + n) + x) = Wrap(h + (n + x))
  <2>1. Wrap(h + n) = IF h + n < Size THEN h + n ELSE (h + n) - Size
    BY <1>1, SizeAssumption, WrapIs DEF Positions
  <2> DEFINE z == h + (n + x)
             y == Wrap(h + n) + x
  <2>2. /\ y \in Int /\ z \in Int /\ 0 <= y /\ y < Size + Size /\ 0 <= z
        /\ (y = z \/ y = z - Size)
    BY <1>1, <2>1, SizeAssumption DEF Positions
  <2> HIDE DEF z, y
  <2>3. CASE y = z
    BY <2>3 DEF y, z
  <2>4. CASE y = z - Size
    <3>1. Wrap(y) = y % Size /\ Wrap(z) = (y + Size) % Size
      BY <2>2, <2>4, SizeAssumption DEF Wrap
    <3>2. (y + Size) % Size = y % Size
      BY <2>2, SizeAssumption
    <3> QED
      BY <3>1, <3>2 DEF y, z
  <2> QED
    BY <2>2, <2>3, <2>4
<1>4. ASSUME NEW j \in Positions
      PROVE  InRing(t, j) = IF n + j < Size THEN InRing(r, n + j) ELSE Zero
  <2>1. InRing(t, j) = t.cells[Wrap(h + (n + j))]
    <3>1. j \in 0 .. Size
      BY SizeAssumption DEF Positions
    <3> QED
      BY <1>2, <1>3, <3>1 DEF InRing
  <2>0. Wrap(h + 0) = h
    BY <1>1, SizeAssumption, WrapIs DEF Positions
  <2>2. CASE n + j < Size
    <3>1. n + j \in Positions /\ 0 \in 0 .. Size /\ ~(n + j < 0) /\ (n + j) - 0 = n + j /\ ~(n + j < n)
      BY <1>1, <2>2, SizeAssumption DEF Positions
    <3>2. Wrap(h + (n + j)) \in Positions /\ Wrap(Wrap(h + (n + j)) - h) = n + j
      BY <1>1, <2>0, <3>1, Distance
    <3>3. t.cells[Wrap(h + (n + j))] = r.cells[Wrap(h + (n + j))]
      BY <1>2, <3>1, <3>2
    <3> QED
      BY <2>1, <2>2, <3>3 DEF InRing, h
  <2>3. CASE ~(n + j < Size)
    <3> DEFINE k == (n + j) - Size
    <3>1. k \in Positions /\ k < n /\ ~(k < 0) /\ k - 0 = k /\ n + j = k + Size /\ 0 \in 0 .. Size
      BY <1>1, <2>3, SizeAssumption DEF Positions
    <3> HIDE DEF k
    <3>2. Wrap(h + k) \in Positions /\ Wrap(Wrap(h + k) - h) = k
      BY <1>1, <2>0, <3>1, Distance
    <3>3. Wrap(h + (n + j)) = Wrap(h + k)
      <4>1. h + (n + j) = (h + k) + Size /\ h + k \in Int
        BY <1>1, <3>1, SizeAssumption DEF Positions
      <4> DEFINE w == h + k
      <4>2. w \in Int /\ 0 <= w /\ w < Size + Size
        BY <1>1, <3>1, SizeAssumption DEF Positions
      <4> HIDE DEF w
      <4>3. (w + Size) % Size = w % Size
        BY <4>2, SizeAssumption
      <4> QED
        BY <4>1, <4>3 DEF Wrap, w
    <3> QED
      BY <1>2, <2>1, <2>3, <3>1, <3>2, <3>3
  <2> QED
    BY <2>2, <2>3
<1>5. ASSUME NEW j \in Positions PROVE InRing(t, j) = Zero <=> j >= t.committed
  <2>1. CASE n + j < Size
    <3>1. n + j \in Positions /\ (n + j >= c <=> j >= c - n)
      BY <1>1, <2>1, SizeAssumption DEF Positions
    <3> QED
      BY <1>2, <1>4, <1>a, <2>1, <3>1
  <2>2. CASE ~(n + j < Size)
    <3>1. j >= c - n
      BY <1>1, <2>2, SizeAssumption DEF Positions
    <3> QED
      BY <1>2, <1>4, <2>2, <3>1
  <2> QED
    BY <2>1, <2>2
<1>6. t.readHead \in Positions
  BY <1>1, <1>2, SizeAssumption, WrapIs DEF Positions
<1>7. t.committed \in 0 .. Size /\ t.committed \in 0 .. Size /\ n + (c - n) = c
  BY <1>1, <1>2, SizeAssumption
<1>8. t.writeHead = Wrap(t.readHead + t.committed)
  BY <1>2, <1>3, <1>7
<1>9. t.cells \in [Positions -> Bytes \cup {Zero}]
  BY <1>1, <1>2
<1>10. Holds(t)
  BY <1>5, <1>6, <1>7, <1>8, <1>9 DEF Holds
<1>11. Pending(t, 0) = Pending(r, n)
  <2>1. c - n \in Nat /\ t.committed - 0 = c - n
    BY <1>1, <1>2
  <2>2. ASSUME NEW j \in 1 .. c - n PROVE InRing(t, 0 + (j - 1)) = InRing(r, n + (j - 1))
    <3>1. 0 + (j - 1) = j - 1 /\ j - 1 \in Positions /\ n + (j - 1) < Size
      BY <1>1, <2>1, SizeAssumption DEF Positions
    <3> QED
      BY <1>4, <3>1
  <2> QED
    BY <2>1, <2>2 DEF Pending, c
<1> QED
  BY <1>2, <1>10, <1>11 DEF t, c

LEMMA SameSequence ==
    ASSUME NEW T, NEW p \in Seq(T), NEW q \in Seq(T), Len(p) = Len(q), \A i \in 1 .. Len(p) : p[i] = q[i]
    PROVE  p = q
OBVIOUS

(* A view of a part that does not wrap around the end has its bytes. *)
LEMMA ViewBytes ==
    ASSUME NEW r, Holds(r), NEW g \in 0 .. r.committed, NEW n \in 0 .. r.committed - g, NEW at \in Positions,
           at = Wrap(r.readHead + g), at + n <= Size
    PROVE  LET b == BytesOf(r, [at |-> at, length |-> n])
           IN  /\ b \in Seq(Bytes) /\ b \o Pending(r, g + n) = Pending(r, g)
<1> DEFINE b == BytesOf(r, [at |-> at, length |-> n])
           c == r.committed
           h == r.readHead
<1>1. c \in Nat /\ c <= Size /\ g \in Nat /\ n \in Nat /\ g + n <= c /\ h \in Positions /\ g + n \in 0 .. c /\ g \in 0 .. c
  BY SizeAssumption DEF Holds
<1>2. Pending(r, g) \in Seq(Bytes) /\ Len(Pending(r, g)) = c - g /\ Pending(r, g + n) \in Seq(Bytes) /\ Len(Pending(r, g + n)) = c - (g + n)
  BY <1>1, PendingBytes
<1>3. /\ \A i \in 1 .. c - g : Pending(r, g)[i] = InRing(r, g + (i - 1))
      /\ \A i \in 1 .. c - (g + n) : Pending(r, g + n)[i] = InRing(r, (g + n) + (i - 1))
  BY <1>1 DEF Pending
<1>4. b = [i \in 1 .. n |-> r.cells[at + (i - 1)]]
  BY DEF BytesOf
<1>5. ASSUME NEW i \in 1 .. n PROVE r.cells[at + (i - 1)] = Pending(r, g)[i] /\ i \in 1 .. c - g
  <2>1. at + (i - 1) \in Positions /\ i \in 1 .. c - g
    BY <1>1, SizeAssumption DEF Positions
  <2>2. Wrap(h + (g + (i - 1))) = at + (i - 1)
    <3>1. at = IF h + g < Size THEN h + g ELSE (h + g) - Size
      BY <1>1, SizeAssumption, WrapIs DEF Positions
    <3> QED
      BY <1>1, <2>1, <3>1, SizeAssumption, WrapIs DEF Positions
  <2> QED
    BY <1>3, <2>1, <2>2 DEF InRing
<1> DEFINE p == Pending(r, g)
           q == Pending(r, g + n)
<1>6. p \in Seq(Bytes) /\ q \in Seq(Bytes) /\ Len(p) = c - g /\ Len(q) = c - (g + n)
  BY <1>2
<1>7. b \in Seq(Bytes) /\ Len(b) = n /\ \A i \in 1 .. n : b[i] = p[i]
  <2>1. \A i \in 1 .. n : b[i] = p[i] /\ i \in 1 .. Len(p)
    BY <1>1, <1>2, <1>4, <1>5
  <2>2. \A i \in 1 .. Len(p) : p[i] \in Bytes
    BY <1>6
  <2>3. \A i \in 1 .. n : r.cells[at + (i - 1)] \in Bytes
    BY <1>4, <2>1, <2>2
  <2>4. b \in [1 .. n -> Bytes]
    BY <1>4, <2>3
  <2> HIDE DEF b, p
  <2>5. b \in Seq(Bytes) /\ Len(b) = n
    BY <1>1, <2>4
  <2> QED
    BY <2>1, <2>5
<1>8. ASSUME NEW i \in 1 .. c - (g + n) PROVE q[i] = p[n + i]
  <2>1. n + i \in 1 .. c - g /\ (g + n) + (i - 1) = g + ((n + i) - 1)
    BY <1>1
  <2> QED
    BY <1>3, <2>1
<1> HIDE DEF b, p, q
<1>9. b \o q = p
  <2>1. /\ b \o q \in Seq(Bytes) /\ Len(b \o q) = Len(b) + Len(q)
        /\ \A i \in 1 .. Len(b) : (b \o q)[i] = b[i]
        /\ \A i \in 1 .. Len(q) : (b \o q)[Len(b) + i] = q[i]
    <3>1. b \in Seq(Bytes) /\ q \in Seq(Bytes)
      BY <1>6, <1>7
    <3> QED
      BY <3>1, Concatenated
  <2>2. Len(b \o q) = c - g /\ Len(p) = c - g
    BY <1>1, <1>6, <1>7, <2>1
  <2>3. ASSUME NEW i \in 1 .. c - g PROVE (b \o q)[i] = p[i]
    <3>1. CASE i \in 1 .. n
      BY <1>7, <2>1, <3>1
    <3>2. CASE i > n
      <4>1. i - n \in 1 .. c - (g + n) /\ n + (i - n) = i
        BY <1>1, <3>2
      <4>2. (b \o q)[n + (i - n)] = q[i - n]
        BY <1>6, <1>7, <2>1, <4>1
      <4> QED
        BY <1>8, <4>1, <4>2
    <3>3. i \in 1 .. n \/ i > n
      BY <1>1
    <3> QED
      BY <3>1, <3>2, <3>3
  <2>4. b \o q \in Seq(Bytes) /\ p \in Seq(Bytes)
    BY <1>6, <2>1
  <2> QED
    BY <2>2, <2>3, <2>4, SameSequence
<1> QED
  BY <1>7, <1>9 DEF b, p, q

(* The views of what is taken: of all of it, or of the part up to the end  *)
(* of the ring and the rest of it.                                         *)
ToEnd(r) == Size - r.readHead
LEMMA ViewsOf ==
    ASSUME NEW r, Holds(r), NEW n \in 1 .. r.committed
    PROVE  \/ /\ Len(Views(r, n)) = 1 /\ DOMAIN Views(r, n) = 1 .. 1
              /\ BytesOf(r, Views(r, n)[1]) \in Seq(Bytes)
              /\ BytesOf(r, Views(r, n)[1]) \o Pending(r, n) = Pending(r, 0)
           \/ /\ Len(Views(r, n)) = 2 /\ DOMAIN Views(r, n) = 1 .. 2 /\ ToEnd(r) \in 1 .. n
              /\ BytesOf(r, Views(r, n)[1]) \in Seq(Bytes) /\ BytesOf(r, Views(r, n)[2]) \in Seq(Bytes)
              /\ BytesOf(r, Views(r, n)[1]) \o Pending(r, ToEnd(r)) = Pending(r, 0)
              /\ BytesOf(r, Views(r, n)[2]) \o Pending(r, n) = Pending(r, ToEnd(r))
<1> DEFINE h == r.readHead
           e == ToEnd(r)
<1>1. /\ h \in Positions /\ r.committed \in 0 .. Size /\ r.committed \in Nat /\ n \in 1 .. r.committed /\ e \in 1 .. Size
      /\ e = Size - h /\ h \in Nat
  BY SizeAssumption DEF Holds, ToEnd, Positions
<1>2. Wrap(h + 0) = h
  BY <1>1, WrapIs DEF Positions
<1>3. CASE e >= n
  <2>1. Views(r, n) = <<[at |-> h, length |-> n]>>
    BY <1>3 DEF Views, ToEnd
  <2>2. n \in 0 .. r.committed - 0 /\ 0 \in 0 .. r.committed /\ h + n <= Size /\ 0 + n = n
    BY <1>1, <1>3, SizeAssumption
  <2>3. BytesOf(r, [at |-> h, length |-> n]) \in Seq(Bytes) /\ BytesOf(r, [at |-> h, length |-> n]) \o Pending(r, 0 + n) = Pending(r, 0)
    BY <1>1, <1>2, <2>2, ViewBytes
  <2> DEFINE v == [at |-> h, length |-> n]
  <2>4. BytesOf(r, v) \in Seq(Bytes) /\ BytesOf(r, v) \o Pending(r, n) = Pending(r, 0)
    BY <2>2, <2>3
  <2> HIDE DEF v
  <2>5. Views(r, n) = <<v>>
    BY <2>1 DEF v
  <2> QED
    BY <2>4, <2>5
<1>4. CASE ~(e >= n)
  <2>1. Views(r, n) = <<[at |-> h, length |-> e], [at |-> 0, length |-> n - e]>>
    BY <1>4 DEF Views, ToEnd
  <2>2. e \in 0 .. r.committed - 0 /\ e \in 0 .. r.committed /\ 0 \in 0 .. r.committed /\ h + e <= Size /\ 0 + e = e
    BY <1>1, <1>4, SizeAssumption
  <2>3. BytesOf(r, [at |-> h, length |-> e]) \in Seq(Bytes) /\ BytesOf(r, [at |-> h, length |-> e]) \o Pending(r, 0 + e) = Pending(r, 0)
    BY <1>1, <1>2, <2>2, ViewBytes
  <2>4. Wrap(h + e) = 0 /\ 0 \in Positions
    BY <1>1, SizeAssumption, WrapIs DEF Positions
  <2>5. n - e \in 0 .. r.committed - e /\ 0 + (n - e) <= Size /\ e + (n - e) = n
    BY <1>1, <1>4, SizeAssumption
  <2>6. BytesOf(r, [at |-> 0, length |-> n - e]) \in Seq(Bytes) /\ BytesOf(r, [at |-> 0, length |-> n - e]) \o Pending(r, e + (n - e)) = Pending(r, e)
    BY <2>2, <2>4, <2>5, ViewBytes
  <2>7. e \in 1 .. n
    BY <1>1, <1>4
  <2> DEFINE v == [at |-> h, length |-> e]
             w == [at |-> 0, length |-> n - e]
  <2>8. /\ BytesOf(r, v) \in Seq(Bytes) /\ BytesOf(r, w) \in Seq(Bytes)
        /\ BytesOf(r, v) \o Pending(r, ToEnd(r)) = Pending(r, 0) /\ BytesOf(r, w) \o Pending(r, n) = Pending(r, ToEnd(r))
    BY <2>2, <2>3, <2>5, <2>6
  <2> HIDE DEF v, w
  <2>9. Views(r, n) = <<v, w>>
    BY <2>1 DEF v, w
  <2> QED
    BY <2>7, <2>8, <2>9
<1> QED
  BY <1>3, <1>4

(* As many cells are zero as are available. *)
LEMMA ZeroCells ==
    ASSUME NEW r, Holds(r)
    PROVE  Cardinality({i \in Positions : r.cells[i] = Zero}) = Available(r)
<1> DEFINE c == r.committed
           h == r.readHead
           S == c .. Size - 1
           T == {i \in Positions : r.cells[i] = Zero}
           f == [j \in S |-> Wrap(h + j)]
<1>1. c \in 0 .. Size /\ h \in Positions /\ S \subseteq Positions
  BY SizeAssumption DEF Holds, Positions
<1>2. \A j \in Positions : Wrap(h + j) \in Positions
  BY <1>1, Distance
<1>3. f \in [S -> T]
  <2>1. ASSUME NEW j \in S PROVE Wrap(h + j) \in T
    <3>1. j \in Positions /\ j >= c
      BY <1>1, SizeAssumption
    <3>2. InRing(r, j) = Zero
      BY <3>1 DEF Holds
    <3> QED
      BY <1>2, <3>1, <3>2 DEF InRing
  <2> QED
    BY <2>1
<1>4. ASSUME NEW j \in S, NEW k \in S, f[j] = f[k] PROVE j = k
  <2>1. Wrap(h + j) = Wrap(h + k) /\ j \in Positions /\ k \in Positions
    BY <1>1, <1>4
  <2>2. /\ Wrap(h + j) = IF h + j < Size THEN h + j ELSE (h + j) - Size
        /\ Wrap(h + k) = IF h + k < Size THEN h + k ELSE (h + k) - Size
    BY <1>1, <2>1, SizeAssumption, WrapIs DEF Positions
  <2> QED
    BY <1>1, <2>1, <2>2, SizeAssumption DEF Positions
<1>5. ASSUME NEW i \in T PROVE \E j \in S : f[j] = i
  <2>1. PICK j \in Positions : i = Wrap(h + j)
    BY <1>1, Places
  <2>2. InRing(r, j) = Zero
    BY <2>1 DEF InRing
  <2>3. j >= c
    BY <2>2 DEF Holds
  <2>4. j \in S
    BY <1>1, <2>3, SizeAssumption DEF Positions
  <2> QED
    BY <2>1, <2>4
<1> HIDE DEF S, T, f
<1>6. ExistsBijection(S, T)
  <2>1. f \in Bijection(S, T)
    BY <1>3, <1>4, <1>5, Fun_IsBij
  <2> QED
    BY <2>1 DEF ExistsBijection
<1>7. IsFiniteSet(S) /\ Cardinality(S) = Size - c
  <2>1. c \in Int /\ Size - 1 \in Int
    BY <1>1, SizeAssumption
  <2>2. IsFiniteSet(S) /\ Cardinality(S) = IF c > Size - 1 THEN 0 ELSE ((Size - 1) - c) + 1
    BY <2>1, FS_Interval DEF S
  <2> QED
    BY <1>1, <2>2, SizeAssumption
<1>8. Cardinality(T) = Cardinality(S)
  BY <1>6, <1>7, FS_Bijection
<1> QED
  BY <1>7, <1>8 DEF T, Available

(* What is still to be written of what the writer took: all of it, or the  *)
(* second of two views, when it is a pipe's.                               *)
ViewsOK ==
    /\ stuck => writing = Idle
    /\ writing # Idle =>
        /\ writing.n \in 1 .. ring.committed
        /\ LET v == Views(ring, writing.n) IN
           writing.views = v \/ (kind = "pipe" /\ Len(v) = 2 /\ writing.views = <<v[2]>>)

(* The messages: two lines, and then what fits into the ring. *)
SentOK ==
    /\ IsSent(sent)
    /\ \A i \in DOMAIN sent : Length(sent[i]) <= Size /\ IF i <= 2 THEN sent[i] = Line ELSE sent[i] \in Shapes
    /\ shake = "no" => sent = <<>>
    /\ shake \in {"greeted", "ready"} => Len(sent) = 1
    /\ shake = "done" => Len(sent) >= 2

(* What the places of a message carry: the bytes of the message, but for a *)
(* gap in its text (see Torn).                                             *)
IsTear(m, at, gap) == at >= m.header /\ gap >= 1 /\ gap <= m.char - 1 /\ at + gap < Length(m)
Gapped(m, at, gap) ==
    [k \in 1 .. Length(m) |-> IF k <= at THEN k ELSE IF k <= at + gap THEN Nothing ELSE k - gap]
Carries(c, m) ==
    \/ c = [k \in 1 .. Length(m) |-> k]
    \/ \E at, gap \in Nat : IsTear(m, at, gap) /\ c = Gapped(m, at, gap)
CarriedIs(s, c) ==
    /\ c \in Seq(Seq(Nat)) /\ Len(c) = Len(s)
    /\ \A i \in DOMAIN s : Carries(c[i], s[i]) /\ Len(c[i]) = Length(s[i])
CarriedOK == CarriedIs(sent, carried)

(* The bytes that are to be delivered, wherever they are, are the stream   *)
(* of what has been sent and not been delivered, as long as it is read.    *)
StreamOK ==
    /\ header \in Seq(Bytes) /\ input \in Seq(Bytes) /\ wire \in Seq(Bytes)
    /\ delivered \in Seq(Seq(Bytes)) /\ Len(delivered) \in Nat
    /\ Reading => Streams(sent, All, Len(delivered))
    /\ Reading /\ ~Cut => Ends(sent, All, Len(delivered))

(* The reader has what it has read of message d + 1, and waits for what it *)
(* does not have.                                                          *)
Waits(n) == IF need = 0 THEN Len(input) >= n ELSE need = n /\ Len(input) < n
AtLine(d) == header = <<>> /\ d < 2 /\ (need # 0 => need = Len(input) + 1 /\ Len(input) < LineLength)
AtType(d) == header = <<>> /\ d >= 2 /\ (need # 0 => need = 2 /\ Len(input) < 2)
AtHeader(d) == header = <<>> /\ d >= 2 /\ d + 1 \in DOMAIN sent /\ Len(input) >= 2 /\ Waits(sent[d + 1].header)
AtData(d) == header # <<>> /\ d >= 2 /\ d + 1 \in DOMAIN sent /\ Len(header) = sent[d + 1].header /\ Waits(sent[d + 1].data)
ReaderOK ==
    /\ reader \in {"line", "type", "header", "data", "over", "failed", "astray"} /\ need \in Nat /\ ended \in BOOLEAN
    /\ reader = "line" => AtLine(Len(delivered))
    /\ reader = "type" => AtType(Len(delivered))
    /\ reader = "header" => AtHeader(Len(delivered))
    /\ reader = "data" => AtData(Len(delivered))
    /\ ~Reading => need = 0 /\ ended

Types ==
    /\ state \in {"on", "stopped", "disconnected"} /\ stuck \in BOOLEAN /\ timer \in BOOLEAN
    /\ shake \in {"no", "greeted", "ready", "done"}
    /\ task \in {"idle", "waiting", "ready"} /\ drain \in {"no", "waiting", "done", "failed"}
    /\ fault \in BOOLEAN /\ lost \in BOOLEAN /\ added \in 0 .. MaxTasks

SInv == Holds(ring) /\ ViewsOK /\ SentOK /\ CarriedOK /\ StreamOK /\ ReaderOK /\ Types

----------------------------------------------------------------------------
(* What has been written is part of what was taken. *)
LEMMA GoneFacts ==
    ASSUME Holds(ring), ViewsOK
    PROVE  /\ Gone \in 0 .. ring.committed /\ Gone \in Nat
           /\ writing # Idle => Gone <= writing.n
           /\ writing # Idle /\ Len(writing.views) > 1 =>
                 /\ Gone = 0 /\ DOMAIN writing.views = 1 .. 2 /\ Len(writing.views) = 2
                 /\ writing.views = Views(ring, writing.n) /\ writing.views # <<writing.views[2]>>
                 /\ ToEnd(ring) \in 1 .. writing.n
                 /\ BytesOf(ring, writing.views[1]) \in Seq(Bytes) /\ BytesOf(ring, writing.views[2]) \in Seq(Bytes)
                 /\ BytesOf(ring, writing.views[1]) \o Pending(ring, ToEnd(ring)) = Pending(ring, 0)
                 /\ BytesOf(ring, writing.views[2]) \o Pending(ring, writing.n) = Pending(ring, ToEnd(ring))
           /\ writing # Idle /\ ~(Len(writing.views) > 1) =>
                 /\ DOMAIN writing.views = 1 .. 1 /\ Len(writing.views) = 1 /\ Head(writing.views) = writing.views[1]
                 /\ BytesOf(ring, Head(writing.views)) \in Seq(Bytes)
                 /\ BytesOf(ring, Head(writing.views)) \o Pending(ring, writing.n) = Pending(ring, Gone)
<1>1. CASE writing = Idle
  BY <1>1, SizeAssumption DEF Gone, Holds
<1>2. CASE writing # Idle
  <2> DEFINE n == writing.n
             v == Views(ring, n)
  <2>1. n \in 1 .. ring.committed /\ ring.committed \in Nat /\ (writing.views = v \/ (Len(v) = 2 /\ writing.views = <<v[2]>>))
    BY <1>2, SizeAssumption DEF ViewsOK, Holds
  <2>2. \/ /\ Len(v) = 1 /\ DOMAIN v = 1 .. 1
           /\ BytesOf(ring, v[1]) \in Seq(Bytes)
           /\ BytesOf(ring, v[1]) \o Pending(ring, n) = Pending(ring, 0)
        \/ /\ Len(v) = 2 /\ DOMAIN v = 1 .. 2 /\ ToEnd(ring) \in 1 .. n
           /\ BytesOf(ring, v[1]) \in Seq(Bytes) /\ BytesOf(ring, v[2]) \in Seq(Bytes)
           /\ BytesOf(ring, v[1]) \o Pending(ring, ToEnd(ring)) = Pending(ring, 0)
           /\ BytesOf(ring, v[2]) \o Pending(ring, n) = Pending(ring, ToEnd(ring))
    BY <2>1, ViewsOf
  <2>3. Gone = IF writing.views = v THEN 0 ELSE ToEnd(ring)
    BY <1>2 DEF Gone, ToEnd
  <2> HIDE DEF v, n
  <2>4. CASE writing.views = v
    <3>1. Gone = 0
      BY <2>3, <2>4
    <3>2. Len(v) = 1 => Head(v) = v[1]
      BY <2>2
    <3>3. Len(v) = 2 => v # <<v[2]>>
      OBVIOUS
    <3>4. writing.views = Views(ring, writing.n)
      BY <2>4 DEF n, v
    <3>5. Gone \in 0 .. ring.committed /\ Gone \in Nat /\ Gone <= writing.n
      BY <2>1, <3>1 DEF n
    <3>6. CASE Len(v) = 1
      <4>1. BytesOf(ring, v[1]) \in Seq(Bytes) /\ BytesOf(ring, v[1]) \o Pending(ring, n) = Pending(ring, 0) /\ DOMAIN v = 1 .. 1
        BY <2>2, <3>6
      <4>2. ~(Len(writing.views) > 1) /\ Head(writing.views) = v[1] /\ writing.views = v /\ Len(v) = 1
        BY <2>4, <3>2, <3>6
      <4> QED
        BY <3>1, <3>5, <4>1, <4>2 DEF n
    <3>7. CASE Len(v) = 2
      <4>1. /\ DOMAIN v = 1 .. 2 /\ ToEnd(ring) \in 1 .. n
            /\ BytesOf(ring, v[1]) \in Seq(Bytes) /\ BytesOf(ring, v[2]) \in Seq(Bytes)
            /\ BytesOf(ring, v[1]) \o Pending(ring, ToEnd(ring)) = Pending(ring, 0)
            /\ BytesOf(ring, v[2]) \o Pending(ring, n) = Pending(ring, ToEnd(ring))
        BY <2>2, <3>7
      <4>2. Len(writing.views) > 1
        BY <2>4, <3>7
      <4> QED
        BY <2>4, <3>1, <3>3, <3>4, <3>5, <3>7, <4>1, <4>2 DEF n
    <3> QED
      BY <2>2, <3>6, <3>7
  <2>5. CASE writing.views # v
    <3>1. Gone = ToEnd(ring) /\ Len(v) = 2 /\ writing.views = <<v[2]>>
      BY <2>1, <2>3, <2>5
    <3>2. Len(writing.views) = 1 /\ DOMAIN writing.views = 1 .. 1 /\ Head(writing.views) = v[2] /\ writing.views[1] = v[2]
      BY <3>1
    <3> QED
      BY <1>2, <2>1, <2>2, <3>1, <3>2 DEF n
  <2> QED
    BY <2>4, <2>5
<1> QED
  BY <1>1, <1>2

(* What is taken from the front, and what is left of it. *)
LEMMA Splits ==
    ASSUME NEW T, NEW q \in Seq(T), NEW n \in 0 .. Len(q)
    PROVE  /\ SubSeq(q, 1, n) \in Seq(T) /\ SubSeq(q, n + 1, Len(q)) \in Seq(T)
           /\ Len(SubSeq(q, 1, n)) = n /\ Len(SubSeq(q, n + 1, Len(q))) = Len(q) - n
           /\ SubSeq(q, 1, n) \o SubSeq(q, n + 1, Len(q)) = q
           /\ \A i \in 1 .. n : SubSeq(q, 1, n)[i] = q[i]
<1> DEFINE a == SubSeq(q, 1, n)
           b == SubSeq(q, n + 1, Len(q))
<1>1. a \in Seq(T) /\ Len(a) = n /\ \A i \in 1 .. n : a[i] = q[i]
  OBVIOUS
<1>2. b \in Seq(T) /\ Len(b) = Len(q) - n /\ \A i \in 1 .. Len(q) - n : b[i] = q[n + i]
  OBVIOUS
<1> HIDE DEF a, b
<1>3. a \o b \in Seq(T) /\ Len(a \o b) = Len(q)
  <2>1. a \in Seq(T) /\ b \in Seq(T)
    BY <1>1, <1>2
  <2>2. a \o b \in Seq(T) /\ Len(a \o b) = Len(a) + Len(b)
    BY <2>1
  <2>3. Len(q) \in Nat
    OBVIOUS
  <2> QED
    BY <1>1, <1>2, <2>2, <2>3
<1>4. ASSUME NEW i \in 1 .. Len(q) PROVE (a \o b)[i] = q[i]
  <2>1. CASE i \in 1 .. n
    <3>1. a \in Seq(T) /\ b \in Seq(T) /\ i \in 1 .. Len(a)
      BY <1>1, <1>2, <2>1
    <3>2. (a \o b)[i] = a[i]
      BY <3>1, Concatenated
    <3> QED
      BY <1>1, <2>1, <3>2
  <2>2. CASE i > n
    <3>1. i - n \in 1 .. Len(q) - n /\ n + (i - n) = i
      BY <2>2
    <3>2. (a \o b)[i] = b[i - n]
      BY <1>1, <1>2, <2>2
    <3> QED
      BY <1>2, <3>1, <3>2
  <2>3. i \in 1 .. n \/ i > n
    OBVIOUS
  <2> QED
    BY <2>1, <2>2, <2>3
<1>5. a \o b = q
  BY <1>3, <1>4, SameSequence
<1> QED
  BY <1>1, <1>2, <1>5 DEF a, b

LEMMA EmptyFront == ASSUME NEW T, NEW q \in Seq(T) PROVE <<>> \o q = q /\ q \o <<>> = q
OBVIOUS

(* Everything is of its type. *)
LEMMA ScheduleTypes ==
    ASSUME Types, NEW immediate, NEW r, ScheduleWrite(immediate, r) PROVE timer' \in BOOLEAN
BY DEF ScheduleWrite, Types

LEMMA AfterWriteTypes ==
    ASSUME Types, NEW r, AfterWrite(r)
    PROVE  /\ task' \in {"idle", "waiting", "ready"} /\ drain' \in {"no", "waiting", "done", "failed"}
BY DEF AfterWrite, Types

LEMMA TypesNext == ASSUME Types, [Next]_vars PROVE Types'
<1>1. CASE TimerFires
  <2>1. timer' \in BOOLEAN /\ UNCHANGED <<state, stuck, shake, task, drain, fault, lost, added>>
    BY <1>1, ScheduleTypes DEF TimerFires, queueVars, stopVars
  <2> QED
    BY <2>1 DEF Types
<1>2. CASE WriteView \/ SendViews
  <2>1. UNCHANGED <<state, stuck, timer, shake, added, fault, lost>>
    BY <1>2 DEF WriteView, SendViews
  <2>2. UNCHANGED <<task, drain>> \/ AfterWrite(ring) \/ AfterWrite(Written)
    BY <1>2 DEF WriteView, SendViews, GoesOn
  <2>3. /\ task' \in {"idle", "waiting", "ready"} /\ drain' \in {"no", "waiting", "done", "failed"}
    BY <2>2, AfterWriteTypes DEF Types
  <2> QED
    BY <2>1, <2>3 DEF Types
<1>3. CASE WriteFails \/ ReadFails \/ SocketCloses
  BY <1>3 DEF WriteFails, ReadFails, SocketCloses, Disconnected, OnDisconnect, Types
<1>4. CASE SendHandshake
  <2>1. timer' \in BOOLEAN /\ shake' = "greeted" /\ UNCHANGED <<state, stuck, task, drain, fault, lost, added>>
    BY <1>4, ScheduleTypes DEF SendHandshake, CommitMessage, queueVars, stopVars
  <2> QED
    BY <2>1 DEF Types
<1>5. CASE ReserveStart \/ Reserve
  BY <1>5 DEF ReserveStart, Reserve, ringVars, queueVars, stopVars, Types
<1>6. CASE StartMessageMode
  <2>1. timer' \in BOOLEAN /\ fault' \in BOOLEAN /\ shake' = "done" /\ UNCHANGED <<state, stuck, task, drain, lost, added>>
    BY <1>6, ScheduleTypes DEF StartMessageMode, CommitMessage, queueVars, stopVars, Types
  <2> QED
    BY <2>1 DEF Types
<1>7. CASE (\E m \in Shapes : SendChunk(m)) \/ SendNoAck
  <2>1. timer' \in BOOLEAN /\ fault' \in BOOLEAN /\ task' = "idle" /\ UNCHANGED <<state, stuck, shake, drain, lost, added>>
    <3>1. CASE SendNoAck
      BY <3>1 DEF SendNoAck, TaskEnds, ringVars, stopVars, Types
    <3>2. CASE \E m \in Shapes : SendChunk(m)
      BY <3>2, ScheduleTypes DEF SendChunk, TaskEnds, CommitMessage, stopVars, Types
    <3> QED
      BY <1>7, <3>1, <3>2
  <2> QED
    BY <2>1 DEF Types
<1>8. CASE Stop
  <2>1. timer' \in BOOLEAN
    BY <1>8, ScheduleTypes DEF Stop
  <2>2. state' = "stopped" /\ drain' \in {"waiting", "done"} /\ UNCHANGED <<stuck, shake, task, fault, lost, added>>
    BY <1>8 DEF Stop, queueVars
  <2> QED
    BY <2>1, <2>2 DEF Types
<1>9. CASE \E size \in Reserves : Add(size)
  BY <1>9, BytesAssumption DEF Add, ringVars, stopVars, Types
<1>10. CASE Lose
  BY <1>10 DEF Lose, ringVars, queueVars, stopVars, Types
<1>11. CASE (\E n \in 1 .. Len(wire) : ReceiveBytes(n)) \/ ReadLine \/ ReadType \/ ReadHeader \/ ReadData
                \/ EndStops \/ WakesReader \/ LeavesLoop \/ UNCHANGED vars
  <2>1. UNCHANGED <<state, stuck, timer, shake, task, drain, fault, lost, added>>
    BY <1>11 DEF ReceiveBytes, ReadLine, ReadType, ReadHeader, ReadData, Reads, EndStops, WakesReader, LeavesLoop,
                 vars, senderVars, ringVars, queueVars, stopVars
  <2> QED
    BY <2>1 DEF Types
<1> QED
  BY <1>1, <1>2, <1>3, <1>4, <1>5, <1>6, <1>7, <1>8, <1>9, <1>10, <1>11 DEF Next, Works

----------------------------------------------------------------------------
(* scheduleWrite writes nothing yet. *)
LEMMA ScheduleViews ==
    ASSUME Holds(ring), ViewsOK, NEW immediate, NEW r, ring' = r, ScheduleWrite(immediate, r), Holds(r),
           r.readHead = ring.readHead, r.committed >= ring.committed, UNCHANGED <<kind, stuck>>
    PROVE  ViewsOK' /\ Gone' = Gone
<1>0. \A n : Views(ring', n) = Views(ring, n)
  BY DEF Views
<1>1. ring.committed \in Nat /\ ring'.committed \in Nat /\ ring' = r
  BY SizeAssumption DEF Holds
<1>2. CASE writing' = writing
  BY <1>0, <1>1, <1>2 DEF ViewsOK, Gone
<1>3. CASE writing' # writing
  <2>1. writing' = Taking(ring') /\ ~Busy /\ ring'.committed # 0
    BY <1>1, <1>3 DEF ScheduleWrite
  <2>2. writing = Idle /\ ~stuck'
    BY <2>1 DEF Busy
  <2>3. writing'.n = ring'.committed /\ writing'.views = Views(ring', writing'.n)
    BY <1>1, <2>1 DEF Taking
  <2>4. ViewsOK'
    BY <1>1, <2>1, <2>2, <2>3 DEF ViewsOK
  <2>5. Gone' = 0 /\ Gone = 0
    BY <2>2, <2>3 DEF Gone
  <2> QED
    BY <2>4, <2>5
<1> QED
  BY <1>2, <1>3

LEMMA SentStays ==
    ASSUME SInv, UNCHANGED sentVars, \/ shake' = shake
                                     \/ shake = "greeted" /\ shake' = "ready"
    PROVE  UNCHANGED <<sent, carried>> /\ SentOK' /\ CarriedOK'
BY DEF SInv, SentOK, CarriedOK, sentVars

(* What is on its way is the same when neither ring nor wire change. *)
LEMMA RestKeeps ==
    ASSUME SInv, UNCHANGED <<ring, wire, sentVars, lost, stuck, readerVars>>, ViewsOK', Gone' = Gone,
           SentOK', CarriedOK', Types'
    PROVE  SInv'
<1>0. UNCHANGED <<sent, carried>>
  BY DEF sentVars
<1>1. Left' = Left /\ Cut' = Cut
  BY DEF Left, Cut
<1>2. All' = All /\ UNCHANGED <<header, input, delivered, reader, need, ended>> /\ Reading' = Reading
  BY <1>1 DEF All, readerVars, Reading
<1>3. StreamOK'
  BY <1>0, <1>1, <1>2 DEF SInv, StreamOK
<1>4. ReaderOK'
  BY <1>0, <1>2 DEF SInv, ReaderOK, AtLine, AtType, AtHeader, AtData, Waits
<1>5. Holds(ring)'
  BY DEF SInv
<1> QED
  BY <1>3, <1>4, <1>5 DEF SInv

(* Waiting for room, waking, and going without. *)
LEMMA OthersStream ==
    ASSUME IInv, SInv, Types',
           ReserveStart \/ Reserve \/ SendNoAck \/ (\E size \in Reserves : Add(size)) \/ ReadFails \/ SocketCloses
    PROVE  SInv'
<1>1. UNCHANGED <<kind, ring, writing, stuck, wire, sentVars, lost, readerVars>>
  BY DEF ReserveStart, Reserve, SendNoAck, Add, ReadFails, SocketCloses, Disconnected, OnDisconnect, ringVars, readerVars
<1>2. ViewsOK' /\ Gone' = Gone
  BY <1>1 DEF SInv, ViewsOK, Gone
<1>3. SentOK' /\ CarriedOK'
  <2>1. \/ shake' = shake
        \/ shake = "greeted" /\ shake' = "ready"
    BY DEF ReserveStart, Reserve, SendNoAck, Add, ReadFails, SocketCloses, OnDisconnect
  <2> QED
    BY <1>1, <2>1, SentStays
<1> QED
  BY <1>1, <1>2, <1>3, RestKeeps

LEMMA TimerStream == ASSUME IInv, SInv, Types', TimerFires PROVE SInv'
<1>1. UNCHANGED <<kind, ring, stuck, wire, sentVars, lost, shake, readerVars>>
  BY DEF TimerFires
<1>2. ViewsOK' /\ Gone' = Gone
  <2>1. CASE UNCHANGED writing
    BY <1>1, <2>1 DEF SInv, ViewsOK, Gone
  <2>2. CASE ScheduleWrite(TRUE, ring)
    <3>1. ring.committed \in Nat /\ ring.committed >= ring.committed
      BY SizeAssumption DEF SInv, Holds
    <3>2. Holds(ring) /\ ViewsOK /\ ring' = ring
      BY <1>1 DEF SInv
    <3> QED
      BY <1>1, <2>2, <3>1, <3>2, ScheduleViews
  <2> QED
    BY <2>1, <2>2, Zenon DEF TimerFires
<1>3. SentOK' /\ CarriedOK'
  BY <1>1, SentStays
<1> QED
  BY <1>1, <1>2, <1>3, RestKeeps

LEMMA StopStream == ASSUME IInv, SInv, Types', Stop PROVE SInv'
<1>1. UNCHANGED <<kind, ring, stuck, wire, sentVars, lost, shake, readerVars>>
  BY DEF Stop
<1>2. ViewsOK' /\ Gone' = Gone
  <2>0. ring.committed \in Nat
    BY SizeAssumption DEF SInv, Holds
  <2>1. ScheduleWrite(TRUE, ring)
    BY Zenon DEF Stop
  <2>2. Holds(ring) /\ ViewsOK /\ ring' = ring /\ ring.committed >= ring.committed
    BY <1>1, <2>0 DEF SInv
  <2> QED
    BY <1>1, <2>1, <2>2, ScheduleViews
<1>3. SentOK' /\ CarriedOK'
  BY <1>1, SentStays
<1> QED
  BY <1>1, <1>2, <1>3, RestKeeps

(* Bytes that go from the ring to the wire are on their way as before. *)
LEMMA MovedKeeps ==
    ASSUME SInv, UNCHANGED <<sentVars, lost, stuck, readerVars, shake>>, All' = All, wire' \in Seq(Bytes), Holds(ring'),
           ViewsOK', Types'
    PROVE  SInv'
<1>0. UNCHANGED <<sent, carried>> /\ SentOK' /\ CarriedOK'
  BY SentStays
<1>1. UNCHANGED <<header, input, delivered, reader, need, ended>> /\ Cut' = Cut /\ Reading' = Reading
  BY DEF readerVars, Cut, Reading
<1>2. StreamOK'
  BY <1>0, <1>1 DEF SInv, StreamOK
<1>3. ReaderOK'
  BY <1>0, <1>1 DEF SInv, ReaderOK, AtLine, AtType, AtHeader, AtData, Waits
<1>4. Holds(ring)'
  OBVIOUS
<1> QED
  BY <1>0, <1>2, <1>3, <1>4 DEF SInv

LEMMA MovedIsAll ==
    ASSUME SInv, ~Cut, UNCHANGED <<lost, stuck, readerVars>>, NEW b \in Seq(Bytes), NEW g,
           Pending(ring, g) \in Seq(Bytes), b \o Pending(ring, g) = Pending(ring, Gone),
           wire' = wire \o b, Pending(ring', Gone') = Pending(ring, g)
    PROVE  All' = All /\ wire' \in Seq(Bytes)
<1>1. UNCHANGED <<header, input>> /\ wire \in Seq(Bytes)
  BY DEF readerVars, SInv, StreamOK
<1>2. Left = b \o Pending(ring, g) /\ Left' = Pending(ring, g)
  BY DEF Left, Cut
<1>3. wire \o (b \o Pending(ring, g)) = (wire \o b) \o Pending(ring, g)
  <2>1. wire \in Seq(Bytes) /\ b \in Seq(Bytes) /\ Pending(ring, g) \in Seq(Bytes)
    BY <1>1
  <2>2. \A x \in Seq(Bytes) : wire \o (b \o x) = (wire \o b) \o x
    BY <2>1
  <2> QED
    BY <2>1, <2>2
<1>4. All' = header \o (input \o ((wire \o b) \o Pending(ring, g)))
  BY <1>1, <1>2 DEF All
<1>5. All = header \o (input \o (wire \o (b \o Pending(ring, g))))
  BY <1>2 DEF All
<1>6. wire' \in Seq(Bytes)
  BY <1>1, Concatenated
<1> QED
  BY <1>3, <1>4, <1>5, <1>6

(* The last view is written: what was taken is released. *)
LEMMA GoesOnStream ==
    ASSUME IInv, SInv, Types', ~lost, writing # Idle, UNCHANGED <<kind, sentVars, lost, stuck, shake, readerVars>>, GoesOn,
           NEW b \in Seq(Bytes), b \o Pending(ring, writing.n) = Pending(ring, Gone), wire' = wire \o b
    PROVE  SInv'
<1>1. writing.n \in 1 .. ring.committed /\ writing.n \in 0 .. ring.committed /\ ring.committed \in Nat /\ Holds(ring)
  BY SizeAssumption DEF SInv, ViewsOK, Holds
<1>0. ~stuck /\ ~Cut
  BY DEF SInv, ViewsOK, Cut
<1>2. /\ Holds(Written) /\ Written.committed \in Nat
      /\ Pending(Written, 0) = Pending(ring, writing.n) /\ ring' = Written
  BY <1>1, ReleaseHolds DEF GoesOn, Written
<1>3. writing' = IF Written.committed > 0 THEN Taking(Written) ELSE Idle
  BY DEF GoesOn, TakesMore
<1>4. ViewsOK' /\ Gone' = 0
  <2>1. CASE Written.committed > 0
    <3>1. writing' = Taking(Written)
      BY <1>3, <2>1
    <3>2. writing'.n = ring'.committed /\ writing'.views = Views(ring', ring'.committed)
      BY <1>2, <3>1 DEF Taking
    <3>3. writing'.n \in 1 .. ring'.committed
      BY <1>2, <2>1, <3>2
    <3> QED
      BY <1>0, <3>2, <3>3 DEF ViewsOK, Gone
  <2>2. CASE ~(Written.committed > 0)
    BY <1>3, <2>2 DEF ViewsOK, Gone
  <2> QED
    BY <2>1, <2>2
<1>5. All' = All /\ wire' \in Seq(Bytes)
  <2>1. Pending(ring, writing.n) \in Seq(Bytes)
    BY <1>1, PendingBytes
  <2>2. Pending(ring', Gone') = Pending(ring, writing.n)
    BY <1>2, <1>4
  <2> QED
    BY <1>0, <2>1, <2>2, MovedIsAll
<1> QED
  BY <1>2, <1>4, <1>5, MovedKeeps

(* Two views are a pair. *)
LEMMA ViewsPair ==
    ASSUME NEW r, NEW n, Len(Views(r, n)) = 2
    PROVE  Head(Views(r, n)) = Views(r, n)[1] /\ Tail(Views(r, n)) = <<Views(r, n)[2]>>
BY DEF Views

LEMMA WriteViewStream == ASSUME IInv, SInv, Types', WriteView PROVE SInv'
<1>1. /\ kind = "pipe" /\ writing # Idle /\ ~lost /\ UNCHANGED <<kind, sentVars, lost, stuck, shake, readerVars>>
      /\ wire' = wire \o BytesOf(ring, Head(writing.views))
  BY DEF WriteView
<1>2. Holds(ring) /\ ViewsOK /\ ~stuck /\ ~Cut
  BY <1>1 DEF SInv, ViewsOK, Cut
<1>3. CASE ~(Len(writing.views) > 1)
  <2>1. /\ BytesOf(ring, Head(writing.views)) \in Seq(Bytes)
        /\ BytesOf(ring, Head(writing.views)) \o Pending(ring, writing.n) = Pending(ring, Gone)
    BY <1>1, <1>2, <1>3, GoneFacts
  <2>2. GoesOn
    BY <1>3, Zenon DEF WriteView
  <2> QED
    BY <1>1, <2>1, <2>2, GoesOnStream
<1>4. CASE Len(writing.views) > 1
  <2> DEFINE e == ToEnd(ring)
             v == writing.views
  <2>1. /\ Gone = 0 /\ Len(v) = 2 /\ v = Views(ring, writing.n) /\ v # <<v[2]>> /\ DOMAIN v = 1 .. 2
        /\ e \in 1 .. writing.n
        /\ BytesOf(ring, v[1]) \in Seq(Bytes) /\ BytesOf(ring, v[1]) \o Pending(ring, e) = Pending(ring, 0)
    BY <1>1, <1>2, <1>4, GoneFacts
  <2>2. writing' = [writing EXCEPT !.views = Tail(v)] /\ UNCHANGED ring
    BY <1>4 DEF WriteView
  <2>3. v[1] = Head(v) /\ Tail(v) = <<v[2]>>
    BY <2>1, ViewsPair
  <2>4. writing.n \in 1 .. ring.committed /\ ring.committed \in Nat
    BY <1>1, <1>2, SizeAssumption DEF ViewsOK, Holds
  <2>5. writing'.n = writing.n /\ writing'.views = <<v[2]>> /\ writing' # Idle
    BY <2>2, <2>3, <2>4 DEF Idle, IInv, WriterOK
  <2>6. ViewsOK' /\ Gone' = e
    BY <1>1, <1>2, <2>1, <2>2, <2>4, <2>5 DEF ViewsOK, Gone, ToEnd
  <2>7. All' = All /\ wire' \in Seq(Bytes)
    <3>1. Pending(ring, e) \in Seq(Bytes)
      BY <1>2, <2>1, <2>4, PendingBytes
    <3>2. wire' = wire \o BytesOf(ring, v[1]) /\ BytesOf(ring, v[1]) \o Pending(ring, e) = Pending(ring, Gone)
          /\ Pending(ring', Gone') = Pending(ring, e)
      BY <1>1, <2>1, <2>2, <2>3, <2>6
    <3> QED
      BY <1>1, <1>2, <2>1, <3>1, <3>2, MovedIsAll
  <2> QED
    BY <1>1, <1>2, <2>2, <2>6, <2>7, MovedKeeps
<1> QED
  BY <1>3, <1>4

LEMMA SendViewsStream == ASSUME IInv, SInv, Types', SendViews PROVE SInv'
<1>1. /\ writing # Idle /\ UNCHANGED <<kind, sentVars, lost, stuck, shake, readerVars>> /\ Holds(ring) /\ ViewsOK
      /\ kind = "socket"
  BY DEF SendViews, SInv
<1>2. CASE writing' = Idle /\ ring' = ring /\ wire' = wire
  <2>1. Gone = 0 /\ Gone' = 0
    BY <1>1, <1>2 DEF ViewsOK, Gone
  <2>2. ViewsOK'
    BY <1>2 DEF ViewsOK
  <2>3. SentOK' /\ CarriedOK'
    BY <1>1, SentStays
  <2> QED
    BY <1>1, <1>2, <2>1, <2>2, <2>3, RestKeeps
<1>3. CASE ~lost /\ GoesOn /\ wire' = wire \o BytesOfAll(writing.views)
  <2> DEFINE f == [i \in DOMAIN writing.views |-> BytesOf(ring, writing.views[i])]
  <2>1. GoesOn /\ wire' = wire \o FlattenSeq(f)
    BY <1>3, Zenon DEF BytesOfAll
  <2>2. CASE Len(writing.views) > 1
    <3> DEFINE b1 == BytesOf(ring, writing.views[1])
               b2 == BytesOf(ring, writing.views[2])
               e == ToEnd(ring)
    <3>1. /\ Gone = 0 /\ DOMAIN writing.views = 1 .. 2 /\ Len(writing.views) = 2 /\ e \in 1 .. writing.n
          /\ b1 \in Seq(Bytes) /\ b2 \in Seq(Bytes)
          /\ b1 \o Pending(ring, e) = Pending(ring, 0) /\ b2 \o Pending(ring, writing.n) = Pending(ring, e)
      BY <1>1, <2>2, GoneFacts
    <3>2. Len(f) = 2 /\ DOMAIN f = 1 .. 2 /\ f[1] = b1 /\ f[2] = b2
      BY <3>1
    <3>3. FlattenSeq(f) = b1 \o b2
      BY <3>2, FlattenTwo
    <3>4. Pending(ring, writing.n) \in Seq(Bytes)
      <4>1. writing.n \in 0 .. ring.committed
        BY <1>1, SizeAssumption DEF ViewsOK, Holds
      <4> QED
        BY <1>1, <4>1, PendingBytes
    <3>5. b1 \o b2 \in Seq(Bytes) /\ (b1 \o b2) \o Pending(ring, writing.n) = Pending(ring, Gone)
      <4>1. b1 \o (b2 \o Pending(ring, writing.n)) = (b1 \o b2) \o Pending(ring, writing.n)
        <5>1. b1 \in Seq(Bytes) /\ b2 \in Seq(Bytes) /\ Pending(ring, writing.n) \in Seq(Bytes)
          BY <3>1, <3>4
        <5> HIDE DEF b1, b2
        <5> QED
          BY <5>1
      <4>2. b1 \o b2 \in Seq(Bytes)
        BY <3>1, Concatenated
      <4> QED
        BY <3>1, <4>1, <4>2
    <3> HIDE DEF f, b1, b2
    <3>6. wire' = wire \o (b1 \o b2)
      BY <2>1, <3>3
    <3> QED
      BY <1>1, <1>3, <2>1, <3>5, <3>6, GoesOnStream
  <2>3. CASE ~(Len(writing.views) > 1)
    <3> DEFINE b1 == BytesOf(ring, Head(writing.views))
    <3>1. /\ DOMAIN writing.views = 1 .. 1 /\ Head(writing.views) = writing.views[1]
          /\ b1 \in Seq(Bytes) /\ b1 \o Pending(ring, writing.n) = Pending(ring, Gone)
      BY <1>1, <2>3, GoneFacts
    <3>2. Len(f) = 1 /\ DOMAIN f = 1 .. 1 /\ f[1] = b1
      BY <3>1
    <3>3. FlattenSeq(f) = b1
      BY <3>2, FlattenOne
    <3> HIDE DEF f, b1
    <3>4. wire' = wire \o b1
      BY <2>1, <3>3
    <3> QED
      BY <1>1, <1>3, <2>1, <3>1, <3>4, GoesOnStream
  <2> QED
    BY <2>2, <2>3
<1> QED
  BY <1>2, <1>3 DEF SendViews

(* The bytes of a message. *)
LEMMA MessageBytes ==
    ASSUME NEW s, IsSent(s), NEW m \in [header : Nat, data : Nat, char : Nat], Length(m) \in Nat \ {0}
    PROVE  /\ Len(s) \in Nat /\ Message(Len(s) + 1, m) \in Seq(Bytes) /\ Len(Message(Len(s) + 1, m)) = Length(m)
           /\ Message(Len(s) + 1, m)[1] = <<Len(s) + 1, 1>>
<1>1. Len(s) \in Nat
  BY DEF IsSent
<1> QED
  BY <1>1 DEF Message, Bytes

(* What is sent goes on with the next message. *)
LEMMA SentGoesOn ==
    ASSUME SentOK, NEW m \in [header : Nat, data : Nat, char : Nat], Length(m) \in Nat \ {0}, Length(m) <= Size,
           sent' = Append(sent, m), IF Len(sent) < 2 THEN m = Line ELSE m \in Shapes,
           \/ Len(sent) = 0 /\ shake' = "greeted"
           \/ Len(sent) >= 1 /\ shake' = "done"
    PROVE  /\ SentOK' /\ IsSent(sent')
           /\ \A i \in DOMAIN sent : i \in DOMAIN sent' /\ sent'[i] = sent[i]
<1>1. sent \in Seq([header : Nat, data : Nat, char : Nat]) /\ sent' \in Seq([header : Nat, data : Nat, char : Nat])
  BY DEF SentOK, IsSent
<1>2. /\ Len(sent) \in Nat /\ Len(sent') = Len(sent) + 1 /\ DOMAIN sent = 1 .. Len(sent) /\ DOMAIN sent' = 1 .. Len(sent) + 1
      /\ sent'[Len(sent) + 1] = m /\ \A i \in 1 .. Len(sent) : sent'[i] = sent[i]
  BY <1>1
<1>3. ASSUME NEW i \in DOMAIN sent'
      PROVE  Length(sent'[i]) \in Nat \ {0} /\ Length(sent'[i]) <= Size /\ IF i <= 2 THEN sent'[i] = Line ELSE sent'[i] \in Shapes
  <2>1. CASE i \in DOMAIN sent
    BY <1>2, <2>1 DEF SentOK, IsSent
  <2>2. CASE i = Len(sent) + 1
    <3>1. sent'[i] = m /\ (i <= 2 <=> Len(sent) < 2)
      BY <1>2, <2>2
    <3> QED
      BY <3>1
  <2> QED
    BY <1>2, <2>1, <2>2
<1>4. IsSent(sent')
  BY <1>1, <1>3 DEF IsSent
<1>5. SentOK'
  <2>1. \/ Len(sent') = 1 /\ shake' = "greeted"
        \/ Len(sent') >= 2 /\ shake' = "done"
    BY <1>2
  <2>2. IsSent(sent)'
    BY <1>4
  <2>3. \A i \in DOMAIN sent' : Length(sent'[i]) <= Size /\ IF i <= 2 THEN sent'[i] = Line ELSE sent'[i] \in Shapes
    BY <1>3
  <2>4. (Length(m))' = Length(m) /\ (\A i \in DOMAIN sent' : (Length(sent[i]))' = Length(sent'[i])) /\ Line' = Line
    BY DEF Length, Line
  <2> QED
    BY <2>1, <2>2, <2>3, <2>4 DEF SentOK
<1>6. \A i \in DOMAIN sent : i \in DOMAIN sent' /\ sent'[i] = sent[i]
  BY <1>2
<1> QED
  BY <1>4, <1>5, <1>6

(* encodeFrom fills the places of a message, or leaves a gap among them.   *)
LEMMA EncodedCarries ==
    ASSUME NEW m \in [header : Nat, data : Nat, char : Nat], NEW before, NEW gap,
           gap = 0 \/ (before \in 1 .. m.data - 1 /\ gap \in 0 .. m.char - 1 /\ gap <= before)
    PROVE  /\ Encoded(m, before, gap) \in Seq(Nat) /\ Len(Encoded(m, before, gap)) = Length(m)
           /\ Carries(Encoded(m, before, gap), m)
<1> DEFINE e == Encoded(m, before, gap)
           l == Length(m)
           h == m.header
<1>1. h \in Nat /\ m.data \in Nat /\ m.char \in Nat /\ l \in Nat /\ l = h + m.data
  BY DEF Length
<1>2. e = [k \in 1 .. l |-> IF gap = 0 \/ k <= h + before - gap THEN k
                            ELSE IF k <= h + before THEN Nothing ELSE k - gap]
  BY DEF Encoded, Length
<1> HIDE DEF e, l, h
<1>3. CASE gap = 0
  <2>1. e = [k \in 1 .. l |-> k]
    BY <1>2, <1>3
  <2>2. e \in Seq(Nat) /\ Len(e) = l
    BY <1>1, <2>1
  <2> QED
    BY <2>1, <2>2 DEF Carries, e, l
<1>4. CASE gap # 0
  <2> DEFINE at == h + before - gap
  <2>1. /\ before \in Nat /\ gap \in Nat /\ at \in Nat /\ at >= h /\ gap >= 1 /\ gap <= m.char - 1
        /\ at + gap = h + before /\ at + gap < l
    BY <1>1, <1>4
  <2>2. IsTear(m, at, gap)
    BY <2>1 DEF IsTear, l, h
  <2>3. e = [k \in 1 .. l |-> IF k <= at THEN k ELSE IF k <= at + gap THEN Nothing ELSE k - gap]
    BY <1>2, <1>4, <2>1
  <2>4. e \in Seq(Nat) /\ Len(e) = l
    <3>1. ASSUME NEW k \in 1 .. l
          PROVE  (IF k <= at THEN k ELSE IF k <= at + gap THEN Nothing ELSE k - gap) \in Nat
      BY <1>1, <2>1 DEF Nothing
    <3> QED
      BY <1>1, <2>3, <3>1
  <2> HIDE DEF at
  <2>5. e = Gapped(m, at, gap)
    BY <2>3, Zenon DEF Gapped, l
  <2>6. Carries(e, m)
    BY <2>1, <2>2, <2>5, Zenon DEF Carries
  <2> QED
    BY <2>4, <2>6 DEF e, l
<1> QED
  BY <1>3, <1>4

(* What the others carry stays. *)
LEMMA CarriesOn ==
    ASSUME NEW s, IsSent(s), NEW c, CarriedIs(s, c), NEW m \in [header : Nat, data : Nat, char : Nat],
           NEW e \in Seq(Nat), Len(e) = Length(m), Carries(e, m)
    PROVE  CarriedIs(Append(s, m), Append(c, e))
<1> DEFINE S == Seq(Nat)
           M == [header : Nat, data : Nat, char : Nat]
<1>1. s \in Seq(M) /\ c \in Seq(S) /\ e \in S /\ m \in M /\ Len(c) = Len(s)
  BY DEF IsSent, CarriedIs
<1> HIDE DEF S, M
<1>2. /\ Append(c, e) \in Seq(S) /\ Len(Append(c, e)) = Len(Append(s, m))
      /\ Len(s) \in Nat /\ DOMAIN Append(s, m) = 1 .. Len(s) + 1 /\ DOMAIN s = 1 .. Len(s)
      /\ Append(s, m)[Len(s) + 1] = m /\ Append(c, e)[Len(s) + 1] = e
      /\ \A i \in 1 .. Len(s) : Append(s, m)[i] = s[i] /\ Append(c, e)[i] = c[i]
  BY <1>1
<1>3. ASSUME NEW i \in DOMAIN Append(s, m)
      PROVE  Carries(Append(c, e)[i], Append(s, m)[i]) /\ Len(Append(c, e)[i]) = Length(Append(s, m)[i])
  <2>1. CASE i \in 1 .. Len(s)
    BY <1>2, <2>1 DEF CarriedIs
  <2>2. CASE i = Len(s) + 1
    BY <1>2, <2>2
  <2> QED
    BY <1>2, <2>1, <2>2
<1> QED
  BY <1>2, <1>3 DEF CarriedIs, S

(* Putting together, with its definition out of sight. *)
Cat(p, q) == p \o q

LEMMA CatFacts ==
    ASSUME NEW p \in Seq(Bytes), NEW q \in Seq(Bytes)
    PROVE  /\ Cat(p, q) \in Seq(Bytes)
           /\ \A r \in Seq(Bytes) : Cat(p, Cat(q, r)) = Cat(Cat(p, q), r)
BY DEF Cat

LEMMA AppendsBehind ==
    ASSUME NEW h \in Seq(Bytes), NEW n \in Seq(Bytes), NEW w \in Seq(Bytes), NEW p \in Seq(Bytes), NEW b \in Seq(Bytes)
    PROVE  Cat(h, Cat(n, Cat(w, Cat(p, b)))) = Cat(Cat(h, Cat(n, Cat(w, p))), b)
<1> DEFINE x == Cat(w, p)
           y == Cat(n, x)
<1>1. x \in Seq(Bytes) /\ Cat(w, Cat(p, b)) = Cat(x, b)
  BY CatFacts
<1> HIDE DEF x
<1>2. y \in Seq(Bytes) /\ Cat(n, Cat(x, b)) = Cat(y, b)
  <2>1. n \in Seq(Bytes) /\ x \in Seq(Bytes)
    BY <1>1
  <2>2. Cat(n, x) \in Seq(Bytes)
    BY <2>1, CatFacts
  <2>3. \A r \in Seq(Bytes) : Cat(n, Cat(x, r)) = Cat(Cat(n, x), r)
    BY <2>1, CatFacts
  <2> QED
    BY <2>2, <2>3
<1> HIDE DEF y
<1>3. Cat(h, Cat(y, b)) = Cat(Cat(h, y), b)
  BY <1>2, CatFacts
<1> QED
  BY <1>1, <1>2, <1>3, Zenon DEF x, y

(* A message that is committed goes behind those that are on their way. *)
LEMMA CommitStream ==
    ASSUME IInv, SInv, Types', NEW m \in [header : Nat, data : Nat, char : Nat], Length(m) \in Nat \ {0}, Length(m) <= Available(ring),
           NEW gap, gap = 0 \/ gap \in Gaps(ring, m),
           NEW immediate, CommitMessage(m, gap, immediate), UNCHANGED <<kind, stuck, wire, lost, readerVars>>, SentOK',
           \A i \in DOMAIN sent : i \in DOMAIN sent' /\ sent'[i] = sent[i]
    PROVE  SInv'
<1> DEFINE b == Message(Len(sent) + 1, m)
           r == Commit(ring, b)
<1>1. IsSent(sent) /\ Holds(ring) /\ ViewsOK /\ sent' = Append(sent, m) /\ ring' = r /\ ScheduleWrite(immediate, r)
  BY DEF SInv, SentOK, CommitMessage
<1>2. Len(sent) \in Nat /\ b \in Seq(Bytes) /\ Len(b) = Length(m) /\ b[1] = <<Len(sent) + 1, 1>>
  BY <1>1, MessageBytes
<1> HIDE DEF b
<1>3. /\ Holds(r) /\ r.readHead = ring.readHead /\ r.committed = ring.committed + Length(m)
      /\ \A g \in 0 .. ring.committed : Pending(r, g) = Pending(ring, g) \o b
  BY <1>1, <1>2, CommitHolds
<1>4. ring.committed \in Nat /\ 0 \in 0 .. ring.committed /\ r.committed >= ring.committed
  BY <1>1, <1>3, SizeAssumption DEF Holds
<1> HIDE DEF r
<1>5. ViewsOK' /\ Gone' = Gone
  BY <1>1, <1>3, <1>4, ScheduleViews
<1>6. UNCHANGED <<header, input, wire, lost, stuck, delivered, reader, need, ended>> /\ Cut' = Cut /\ Reading' = Reading
  BY DEF readerVars, Cut, Reading
<1>7. /\ header \in Seq(Bytes) /\ input \in Seq(Bytes) /\ wire \in Seq(Bytes)
      /\ Len(delivered) \in Nat /\ delivered \in Seq(Seq(Bytes))
  BY DEF SInv, StreamOK
<1>10. CarriedOK'
  <2> DEFINE e == Encoded(m, Before(ring, m), gap)
  <2>1. e \in Seq(Nat) /\ Len(e) = Length(m) /\ Carries(e, m)
    BY EncodedCarries DEF Gaps
  <2>2. carried' = Append(carried, e)
    BY DEF CommitMessage
  <2> HIDE DEF e
  <2>3. CarriedIs(sent', carried')
    BY <1>1, <2>1, <2>2, CarriesOn DEF SInv, CarriedOK
  <2> QED
    BY <2>3 DEF CarriedOK, CarriedIs, Carries, IsTear, Gapped, Length
<1>8. StreamOK'
  <2>0. CASE ~Reading
    BY <1>6, <1>7, <2>0 DEF StreamOK
  <2>1. CASE Reading /\ Cut
    <3>1. All' = All
      BY <1>6, <2>1 DEF All, Left
    <3>2. Streams(sent, All, Len(delivered))
      BY <2>1 DEF SInv, StreamOK
    <3>3. Streams(sent', All, Len(delivered))
      BY <1>1, <3>2, StreamGrows
    <3> QED
      BY <1>6, <1>7, <2>1, <3>1, <3>3 DEF StreamOK, Streams, InStep, IsByte, Follows, Length
  <2>2. CASE Reading /\ ~Cut
    <3>1. Gone \in 0 .. ring.committed
      BY <1>1, GoneFacts
    <3>2. Left \in Seq(Bytes) /\ Left' = Left \o b
      <4>1. Pending(ring, Gone) \in Seq(Bytes)
        BY <1>1, <3>1, PendingBytes
      <4>2. Pending(r, Gone) = Pending(ring, Gone) \o b
        BY <1>3, <3>1
      <4>3. Left = Pending(ring, Gone)
        BY <2>2 DEF Left
      <4>4. Left' = Pending(r, Gone)
        BY <1>1, <1>5, <1>6, <2>2 DEF Left
      <4> QED
        BY <4>1, <4>2, <4>3, <4>4
    <3>3. All' = All \o b
      <4>1. header \in Seq(Bytes) /\ input \in Seq(Bytes) /\ wire \in Seq(Bytes) /\ Left \in Seq(Bytes) /\ b \in Seq(Bytes)
        BY <1>2, <1>7, <3>2
      <4>2. Cat(header, Cat(input, Cat(wire, Cat(Left, b)))) = Cat(Cat(header, Cat(input, Cat(wire, Left))), b)
        BY <4>1, AppendsBehind
      <4>3. All' = Cat(header, Cat(input, Cat(wire, Cat(Left, b))))
        BY <1>6, <3>2, Zenon DEF All, Cat
      <4>4. All \o b = Cat(Cat(header, Cat(input, Cat(wire, Left))), b)
        BY Zenon DEF All, Cat
      <4> QED
        BY <4>2, <4>3, <4>4
    <3>4. Streams(sent, All, Len(delivered)) /\ Ends(sent, All, Len(delivered))
      BY <2>2 DEF SInv, StreamOK
    <3>5. Streams(Append(sent, m), All \o b, Len(delivered)) /\ Ends(Append(sent, m), All \o b, Len(delivered))
      BY <1>1, <1>7, <3>4, StreamAppend DEF b
    <3>6. Streams(sent', All', Len(delivered')) /\ Ends(sent', All', Len(delivered'))
      BY <1>1, <1>6, <3>3, <3>5
    <3> QED
      BY <1>6, <1>7, <3>6 DEF StreamOK, Streams, InStep, IsByte, Follows, Length, Ends
  <2> QED
    BY <2>0, <2>1, <2>2
<1>9. ReaderOK'
  BY <1>6 DEF SInv, ReaderOK, AtLine, AtType, AtHeader, AtData, Waits
<1>11. Holds(ring)'
  BY <1>1, <1>3
<1> QED
  BY <1>5, <1>8, <1>9, <1>10, <1>11 DEF SInv

(* The lines of the handshake, ... *)
LEMMA LineFits ==
    /\ Line \in [header : Nat, data : Nat, char : Nat] /\ Length(Line) = LineLength /\ Length(Line) \in Nat \ {0} /\ Length(Line) <= Size
BY SizeAssumption, BytesAssumption DEF Line, Length

LEMMA LinesStream == ASSUME IInv, SInv, Types', SendHandshake \/ StartMessageMode PROVE SInv'
<1>0. SentOK /\ Len(sent) \in Nat
  BY DEF SInv, SentOK, IsSent
<1>1. CASE SendHandshake
  <2>1. /\ CommitMessage(Line, 0, TRUE) /\ shake = "no" /\ shake' = "greeted"
        /\ UNCHANGED <<kind, stuck, wire, lost, readerVars>>
    BY <1>1 DEF SendHandshake
  <2>2. Len(sent) = 0 /\ Length(Line) <= Available(ring)
    BY <2>1, LineFits, SizeAssumption DEF SInv, SentOK, IInv, RoomIsKept, Available
  <2>3. sent' = Append(sent, Line)
    BY <2>1 DEF CommitMessage
  <2>4. SentOK' /\ \A i \in DOMAIN sent : i \in DOMAIN sent' /\ sent'[i] = sent[i]
    BY <1>0, <2>1, <2>2, <2>3, LineFits, SentGoesOn
  <2> QED
    BY <2>1, <2>2, <2>4, LineFits, CommitStream
<1>2. CASE StartMessageMode
  <2>1. shake = "ready" /\ shake' = "done" /\ CommitMessage(Line, 0, TRUE) /\ UNCHANGED <<kind, stuck, wire, lost, readerVars>>
    BY <1>2 DEF StartMessageMode
  <2>2. Len(sent) = 1 /\ Length(Line) <= Available(ring)
    BY <2>1, LineFits DEF SInv, SentOK, IInv, RoomIsKept
  <2>4. sent' = Append(sent, Line)
    BY <2>1 DEF CommitMessage
  <2>5. SentOK' /\ \A i \in DOMAIN sent : i \in DOMAIN sent' /\ sent'[i] = sent[i]
    BY <1>0, <2>1, <2>2, <2>4, LineFits, SentGoesOn
  <2> QED
    BY <2>1, <2>2, <2>5, LineFits, CommitStream
<1> QED
  BY <1>1, <1>2

(* ... and what a task has reserved room for. *)
LEMMA ChunkStream == ASSUME IInv, SInv, Types', NEW m \in Shapes, SendChunk(m) PROVE SInv'
<1>1. task = "ready" /\ UNCHANGED <<kind, stuck, wire, lost, readerVars, shake>>
  BY DEF SendChunk, TaskEnds
<1>2. Reservable(ring, Head(tasks)) /\ tasks # <<>> /\ tasks \in Seq(Reserves) /\ shake = "done"
  BY <1>1 DEF IInv, RoomIsKept, InTurn, Reservable
<1>5. PICK gap \in Gaps(ring, m) : CommitMessage(m, gap, FALSE) /\ Length(m) + gap <= Head(tasks)
  BY <1>2 DEF SendChunk
<1>3. m \in [header : Nat, data : Nat, char : Nat] /\ Length(m) \in Nat \ {0}
  <2>1. m \in [header : Nat \ {0, 1}, data : Nat, char : Nat \ {0}]
    BY BytesAssumption
  <2>2. m.header \in Nat \ {0, 1} /\ m.data \in Nat
    BY <2>1
  <2>3. Length(m) \in Nat \ {0}
    BY <2>2 DEF Length
  <2>4. m \in [header : Nat, data : Nat, char : Nat]
    BY <2>1
  <2> QED
    BY <2>3, <2>4
<1>4. Length(m) <= Size /\ Length(m) <= Available(ring)
  <2>1. Head(tasks) \in 1 .. Size
    <3>1. Head(tasks) \in Reserves
      BY <1>2
    <3> QED
      BY <3>1, BytesAssumption
  <2>2. ring.committed \in Nat
    BY SizeAssumption DEF SInv, Holds
  <2>3. gap \in Nat
    BY DEF Gaps
  <2>4. Length(m) <= Head(tasks)
    BY <1>3, <1>5, <2>1, <2>3
  <2> QED
    BY <1>2, <1>3, <2>1, <2>2, <2>4, SizeAssumption DEF Reservable, Available
<1>6. sent' = Append(sent, m)
  BY <1>5 DEF CommitMessage
<1>7. SentOK /\ Len(sent) \in Nat /\ Len(sent) >= 2
  BY <1>2 DEF SInv, SentOK, IsSent
<1>8. SentOK' /\ \A i \in DOMAIN sent : i \in DOMAIN sent' /\ sent'[i] = sent[i]
  <2>1. ~(Len(sent) < 2) /\ Len(sent) >= 1 /\ shake' = "done"
    BY <1>1, <1>2, <1>7
  <2> QED
    BY <1>3, <1>4, <1>6, <1>7, <2>1, SentGoesOn
<1> QED
  BY <1>1, <1>3, <1>4, <1>5, <1>8, CommitStream

(* When nothing is written any more, what the wire has is still delivered. *)
LEMMA CutStream ==
    ASSUME SInv, Types', UNCHANGED <<ring, wire, sentVars, shake, readerVars>>, Cut', ViewsOK'
    PROVE  SInv'
<1>1. UNCHANGED <<sent, carried>> /\ SentOK' /\ CarriedOK'
  BY SentStays
<1>2. UNCHANGED <<header, input, delivered, reader, need, ended>> /\ Reading' = Reading
  BY DEF readerVars, Reading
<1>3. ReaderOK'
  BY <1>1, <1>2 DEF SInv, ReaderOK, AtLine, AtType, AtHeader, AtData, Waits
<1>4. header \in Seq(Bytes) /\ input \in Seq(Bytes) /\ wire \in Seq(Bytes) /\ Left \in Seq(Bytes) /\ <<>> \in Seq(Bytes)
  <2>1. Holds(ring) /\ Gone \in 0 .. ring.committed
    BY GoneFacts DEF SInv
  <2> QED
    BY <2>1, PendingBytes DEF SInv, StreamOK, Left
<1>5. All = All' \o Left
  <2> DEFINE none == <<>>
  <2>0. none \in Seq(Bytes)
    BY <1>4
  <2>2. Cat(none, Left) = Left
    BY <1>4, EmptyFront DEF Cat
  <2>3. Left' = none
    BY DEF Left
  <2> HIDE DEF none
  <2>1. Cat(header, Cat(input, Cat(wire, Cat(none, Left)))) = Cat(Cat(header, Cat(input, Cat(wire, none))), Left)
    BY <1>4, <2>0, AppendsBehind
  <2>4. All' = Cat(header, Cat(input, Cat(wire, none))) /\ All = Cat(header, Cat(input, Cat(wire, Left)))
    BY <1>1, <1>2, <2>3, Zenon DEF All, Cat
  <2>5. Cat(All', Left) = All' \o Left
    BY DEF Cat
  <2> QED
    BY <2>1, <2>2, <2>4, <2>5
<1>6. All' \in Seq(Bytes)
  <2>1. Left' = <<>>
    BY DEF Left
  <2>2. wire \o <<>> = wire
    BY <1>4, EmptyFront
  <2>3. input \o wire \in Seq(Bytes)
    BY <1>4
  <2>4. header \o (input \o wire) \in Seq(Bytes)
    BY <1>4, <2>3
  <2> QED
    BY <1>2, <2>1, <2>2, <2>4 DEF All
<1>7. Reading => Streams(sent, All', Len(delivered))
  <2>1. Reading => Streams(sent, All' \o Left, Len(delivered))
    BY <1>5 DEF SInv, StreamOK
  <2> QED
    BY <1>4, <1>6, <2>1, StreamCut
<1>8. StreamOK'
  BY <1>1, <1>2, <1>7 DEF SInv, StreamOK, Streams, InStep, IsByte, Follows, Length
<1>9. Holds(ring)'
  BY DEF SInv
<1> QED
  BY <1>1, <1>3, <1>8, <1>9 DEF SInv

LEMMA LoseStream == ASSUME IInv, SInv, Types', Lose PROVE SInv'
<1>1. Cut' /\ UNCHANGED <<kind, ring, writing, stuck, wire, sentVars, shake, readerVars>>
  BY DEF Lose, ringVars, Cut
<1>2. ViewsOK'
  BY <1>1 DEF SInv, ViewsOK
<1> QED
  BY <1>1, <1>2, CutStream

(* A writer that fails leaves what it took in the ring for good. *)
LEMMA WriteFailsStream == ASSUME IInv, SInv, Types', WriteFails PROVE SInv'
<1>1. Cut' /\ writing' = Idle /\ UNCHANGED <<ring, wire, sentVars, shake, readerVars>>
  BY DEF WriteFails, OnDisconnect, Cut
<1>2. ViewsOK'
  BY <1>1 DEF ViewsOK
<1> QED
  BY <1>1, <1>2, CutStream

----------------------------------------------------------------------------
(* What the reader has read and not delivered, and what is still to come. *)
Read == header \o input
Coming == wire \o Left

LEMMA ReadFacts ==
    ASSUME SInv
    PROVE  /\ Read \in Seq(Bytes) /\ Coming \in Seq(Bytes) /\ wire \in Seq(Bytes) /\ Left \in Seq(Bytes)
           /\ header \in Seq(Bytes) /\ input \in Seq(Bytes)
           /\ Len(Read) \in Nat /\ Len(header) \in Nat /\ Len(input) \in Nat /\ Len(Read) = Len(header) + Len(input)
           /\ All = Read \o Coming /\ All = header \o (input \o Coming)
           /\ header = <<>> => Read = input /\ Len(header) = 0
           /\ header # <<>> => Read[1] = header[1] /\ Len(header) >= 1
<1>1. header \in Seq(Bytes) /\ input \in Seq(Bytes) /\ wire \in Seq(Bytes) /\ Holds(ring) /\ Gone \in 0 .. ring.committed
  BY GoneFacts DEF SInv, StreamOK
<1>2. Left \in Seq(Bytes)
  BY <1>1, PendingBytes DEF Left
<1>3. Coming \in Seq(Bytes)
  BY <1>1, <1>2 DEF Coming
<1>4. Read \in Seq(Bytes) /\ Len(Read) = Len(header) + Len(input) /\ \A j \in 1 .. Len(header) : Read[j] = header[j]
  BY <1>1, Concatenated DEF Read
<1>5. All = header \o (input \o Coming)
  BY DEF All, Coming
<1>6. All = Read \o Coming
  <2>1. Cat(header, Cat(input, Coming)) = Cat(Cat(header, input), Coming)
    BY <1>1, <1>3, CatFacts
  <2>2. All = Cat(header, Cat(input, Coming)) /\ Read \o Coming = Cat(Cat(header, input), Coming)
    BY <1>5, Zenon DEF Cat, Read
  <2> QED
    BY <2>1, <2>2
<1>7. header = <<>> => Read = input
  BY <1>1, EmptyFront DEF Read
<1>8. header # <<>> => Len(header) >= 1
  BY <1>1
<1> QED
  BY <1>1, <1>2, <1>3, <1>4, <1>5, <1>6, <1>7, <1>8

(* What it has read is the beginning of a message. *)
LEMMA FrontFacts ==
    ASSUME SInv, Reading, Read # <<>>
    PROVE  /\ Len(delivered) + 1 \in DOMAIN sent /\ Read[1] = <<Len(delivered) + 1, 1>> /\ Len(delivered) + 1 \in Nat
           /\ Length(sent[Len(delivered) + 1]) \in Nat \ {0}
           /\ \A j \in 1 .. Len(Read) : j <= Length(sent[Len(delivered) + 1]) => Read[j] = <<Len(delivered) + 1, j>>
<1> DEFINE d == Len(delivered)
<1>1. d \in Nat /\ Streams(sent, All, d) /\ IsSent(sent)
  BY DEF SInv, StreamOK, SentOK
<1> HIDE DEF d
<1>2. /\ Read \in Seq(Bytes) /\ Coming \in Seq(Bytes) /\ All = Read \o Coming /\ Len(Read) \in Nat
  BY ReadFacts
<1>3. Len(Read) >= 1
  BY <1>2
<1>4. /\ Len(All) = Len(Read) + Len(Coming) /\ Len(Coming) \in Nat /\ DOMAIN All = 1 .. Len(All)
      /\ \A j \in 1 .. Len(Read) : All[j] = Read[j]
  BY <1>2, Concatenated
<1>5. 1 \in DOMAIN All
  BY <1>2, <1>3, <1>4
<1>6. IsByte(sent, All[1]) /\ All[1] = <<d + 1, 1>>
  BY <1>1, <1>5 DEF Streams, InStep
<1>7. d + 1 \in DOMAIN sent
  BY <1>6 DEF IsByte
<1>8. Length(sent[d + 1]) \in Nat \ {0}
  BY <1>1, <1>7 DEF IsSent
<1>9. Length(sent[d + 1]) \in Nat
  BY <1>8
<1>10. \A j \in 1 .. Len(All) : j <= Length(sent[d + 1]) => All[j] = <<d + 1, j>>
  BY <1>1, <1>9, StreamHead
<1>11. \A j \in 1 .. Len(Read) : j \in 1 .. Len(All)
  BY <1>2, <1>4
<1> QED
  BY <1>1, <1>2, <1>3, <1>4, <1>6, <1>7, <1>8, <1>10, <1>11 DEF d

(* What the reader does leaves the sender alone. *)
LEMMA ReadKeeps ==
    ASSUME SInv, UNCHANGED <<kind, ring, writing, sentVars, lost, stuck, shake>>, Types', StreamOK', ReaderOK'
    PROVE  SInv'
<1>1. ViewsOK'
  BY DEF SInv, ViewsOK
<1>2. Holds(ring)' /\ SentOK' /\ CarriedOK'
  BY SentStays DEF SInv
<1> QED
  BY <1>1, <1>2 DEF SInv

LEMMA ReadsLeaves ==
    ASSUME UNCHANGED senderVars
    PROVE  /\ UNCHANGED <<kind, ring, writing, sentVars, sent, carried, lost, stuck, shake, wire>>
           /\ Left' = Left /\ Coming' = Coming /\ Cut' = Cut
<1>1. UNCHANGED <<kind, ring, writing, sentVars, sent, carried, lost, stuck, shake, wire>>
  BY DEF senderVars, ringVars, sentVars
<1>2. Left' = Left /\ Cut' = Cut
  BY <1>1 DEF Left, Gone, Cut
<1> QED
  BY <1>1, <1>2 DEF Coming

(* What the reader puts elsewhere is still there. *)
LEMMA SameStream ==
    ASSUME SInv, UNCHANGED <<sent, delivered>>, Reading, Cut' = Cut, All' = All,
           header' \in Seq(Bytes), input' \in Seq(Bytes), wire' \in Seq(Bytes)
    PROVE  StreamOK'
BY DEF SInv, StreamOK

(* What is delivered is the next message, as its places carry it. *)
Delivery ==
    LET i == Len(delivered) + 1 IN
    /\ i \in DOMAIN sent
    /\ delivered' = Append(delivered, [k \in 1 .. Length(sent[i]) |-> <<i, carried[i][k]>>])

LEMMA CarriedBytes ==
    ASSUME SInv, NEW i \in DOMAIN sent, NEW p, p = Message(i, sent[i])
    PROVE  LET b == [k \in DOMAIN p |-> Carried(p[k])]
           IN  b = [k \in 1 .. Length(sent[i]) |-> <<i, carried[i][k]>>] /\ b \in Seq(Bytes)
<1> DEFINE l == Length(sent[i])
           c == carried[i]
           b == [k \in DOMAIN p |-> Carried(p[k])]
<1>1. l \in Nat /\ i \in Nat
  BY DEF SInv, SentOK, IsSent
<1>2. c \in Seq(Nat) /\ Len(c) = l
  <2> DEFINE S == Seq(Nat)
  <2>1. carried \in Seq(S) /\ Len(carried) = Len(sent) /\ sent \in Seq([header : Nat, data : Nat, char : Nat]) /\ Len(c) = l
    BY DEF SInv, SentOK, IsSent, CarriedOK, CarriedIs
  <2> HIDE DEF S
  <2>2. c \in S
    BY <2>1
  <2> QED
    BY <2>1, <2>2 DEF S
<1>3. p = [k \in 1 .. l |-> <<i, k>>]
  BY DEF Message
<1> HIDE DEF l, c
<1>4. b = [k \in 1 .. l |-> <<i, c[k]>>]
  BY <1>3 DEF Carried, c
<1>5. \A k \in 1 .. l : <<i, c[k]>> \in Bytes
  BY <1>1, <1>2 DEF Bytes
<1> HIDE DEF Bytes, b
<1>6. b \in Seq(Bytes)
  BY <1>1, <1>4, <1>5
<1> QED
  BY <1>4, <1>6 DEF l, c, b

LEMMA DeliversNext ==
    ASSUME SInv, Reading, UNCHANGED sent, Cut' = Cut, Coming' = Coming, wire' = wire, Read # <<>>,
           delivered \in Seq(Seq(Bytes)),
           NEW p \in Seq(Bytes), NEW q \in Seq(Bytes), Read = p \o q, Len(p) = Length(sent[Len(delivered) + 1]),
           header' = <<>>, input' = q, Delivers(p)
    PROVE  StreamOK' /\ Delivery /\ Len(delivered') = Len(delivered) + 1
<1> DEFINE d == Len(delivered)
           s == q \o Coming
<1>1. /\ d + 1 \in DOMAIN sent /\ Length(sent[d + 1]) \in Nat \ {0} /\ d \in Nat
      /\ Streams(sent, All, d) /\ (~Cut => Ends(sent, All, d)) /\ IsSent(sent)
  BY FrontFacts DEF SInv, StreamOK, SentOK
<1>2. Coming \in Seq(Bytes) /\ All = Read \o Coming /\ Len(Read) \in Nat /\ wire \in Seq(Bytes)
  BY ReadFacts
<1>3. s \in Seq(Bytes) /\ All = p \o s
  <2>1. Cat(p, Cat(q, Coming)) = Cat(Cat(p, q), Coming)
    BY <1>2, CatFacts
  <2>2. p \o s = Cat(p, Cat(q, Coming)) /\ Read \o Coming = Cat(Cat(p, q), Coming)
    BY Zenon DEF Cat
  <2>3. s \in Seq(Bytes)
    BY <1>2, Concatenated
  <2> QED
    BY <1>2, <2>1, <2>2, <2>3
<1> HIDE DEF s, d
<1>4. Len(All) = Len(p) + Len(s) /\ Len(p) \in Nat /\ Len(s) \in Nat
  BY <1>3, Concatenated
<1>5. Length(sent[d + 1]) <= Len(All) /\ Len(p) = Length(sent[d + 1])
  BY <1>1, <1>4 DEF d
<1>6. /\ p = Message(d + 1, sent[d + 1]) /\ Streams(sent, s, d + 1)
      /\ Ends(sent, All, d) => Ends(sent, s, d + 1)
  BY <1>1, <1>3, <1>5, StreamDrop
<1>7. All' = s
  <2>1. All' = header' \o (input' \o Coming')
    BY DEF All, Coming
  <2>2. header' \o (input' \o Coming') = <<>> \o s
    BY DEF s
  <2> QED
    BY <1>3, <2>1, <2>2, EmptyFront
<1> DEFINE b == [k \in DOMAIN p |-> Carried(p[k])]
<1>12. /\ b = [k \in 1 .. Length(sent[d + 1]) |-> <<d + 1, carried[d + 1][k]>>] /\ b \in Seq(Bytes)
       /\ delivered' = Append(delivered, b)
  BY <1>1, <1>6, CarriedBytes DEF Delivers
<1> HIDE DEF b
<1>8. Len(delivered') = d + 1 /\ delivered' \in Seq(Seq(Bytes))
  BY <1>1, <1>12 DEF d
<1>9. <<>> \in Seq(Bytes)
  OBVIOUS
<1>10. /\ Streams(sent', All', Len(delivered')) /\ (~Cut' => Ends(sent', All', Len(delivered')))
       /\ header' \in Seq(Bytes) /\ input' \in Seq(Bytes) /\ wire' \in Seq(Bytes)
       /\ Len(delivered') \in Nat /\ delivered' \in Seq(Seq(Bytes))
  BY <1>1, <1>2, <1>6, <1>7, <1>8, <1>9
<1>11. StreamOK'
  BY <1>10 DEF StreamOK, Streams, InStep, Ends, IsByte, Follows, Length
<1> QED
  BY <1>1, <1>8, <1>11, <1>12 DEF Delivery, d

LEMMA DeliveredIs == ASSUME SInv PROVE delivered \in Seq(Seq(Bytes)) /\ Len(delivered) \in Nat /\ IsSent(sent) /\ SentOK
BY DEF SInv, StreamOK, SentOK

LEMMA SentShape ==
    ASSUME NEW s, IsSent(s), NEW j \in DOMAIN s
    PROVE  s[j].header \in Nat /\ s[j].data \in Nat /\ Length(s[j]) = s[j].header + s[j].data
<1> DEFINE M == [header : Nat, data : Nat, char : Nat]
<1>1. s \in Seq(M)
  BY DEF IsSent
<1> HIDE DEF M
<1>2. s[j] \in M
  BY <1>1
<1> QED
  BY <1>2 DEF Length, M

(* A piece of input. *)
LEMMA ReceiveStream == ASSUME SInv, Types', NEW n \in 1 .. Len(wire), ReceiveBytes(n) PROVE SInv'
<1> DEFINE a == SubSeq(wire, 1, n)
           c == SubSeq(wire, n + 1, Len(wire))
<1>1. /\ UNCHANGED <<kind, ring, writing, sentVars, sent, lost, stuck, shake, header, delivered, reader, ended>>
      /\ input' = input \o a /\ wire' = c /\ Reading
      /\ need' = IF Satisfies(Len(input')) THEN 0 ELSE need
  BY DEF ReceiveBytes, sentVars
<1>2. /\ header \in Seq(Bytes) /\ input \in Seq(Bytes) /\ wire \in Seq(Bytes) /\ Left \in Seq(Bytes) /\ Len(input) \in Nat
  BY ReadFacts
<1>3. Len(wire) \in Nat /\ n \in 0 .. Len(wire)
  BY <1>2
<1>4. a \in Seq(Bytes) /\ c \in Seq(Bytes) /\ Len(a) = n /\ a \o c = wire
  BY <1>2, <1>3, Splits
<1> HIDE DEF a, c
<1>5. input' \in Seq(Bytes) /\ Len(input') = Len(input) + n
  BY <1>1, <1>2, <1>4, Concatenated
<1>6. All' = All
  <2>1. Cat(input, Cat(a, Cat(c, Left))) = Cat(Cat(input, a), Cat(c, Left))
    <3>1. Cat(c, Left) \in Seq(Bytes)
      BY <1>2, <1>4, CatFacts
    <3> QED
      BY <1>2, <1>4, <3>1, CatFacts
  <2>2. Cat(a, Cat(c, Left)) = Cat(Cat(a, c), Left)
    BY <1>2, <1>4, CatFacts
  <2>3. Left' = Left
    BY <1>1 DEF Left, Gone, Cut
  <2>4. Cat(a, c) = wire /\ Cat(input, a) = input'
    BY <1>1, <1>4 DEF Cat
  <2>5. All = Cat(header, Cat(input, Cat(wire, Left)))
    BY Zenon DEF All, Cat
  <2>6. All' = Cat(header, Cat(input', Cat(c, Left)))
    BY <1>1, <2>3, Zenon DEF All, Cat
  <2> QED
    BY <2>1, <2>2, <2>4, <2>5, <2>6
<1>7. StreamOK'
  <2>1. Cut' = Cut
    BY <1>1 DEF Cut
  <2> QED
    BY <1>1, <1>2, <1>4, <1>5, <1>6, <2>1, SameStream
<1>8. ReaderOK'
  <2> DEFINE d == Len(delivered)
  <2>1. /\ need \in Nat /\ need' \in Nat /\ n \in Nat \ {0} /\ ended' \in BOOLEAN
        /\ reader \in {"line", "type", "header", "data"} /\ Reading'
    BY <1>1, <1>3 DEF SInv, ReaderOK, Reading
  <2>2. need' # 0 => need' = need /\ need # 0 /\ ~(Len(input) + n >= need)
    BY <1>1, <1>5, <2>1 DEF Satisfies
  <2>3. need' = 0 => need = 0 \/ Len(input) + n >= need
    BY <1>1, <1>5, <2>1 DEF Satisfies
  <2>4. reader = "line" => AtLine(d)'
    BY <1>1, <1>2, <2>1, <2>2 DEF SInv, ReaderOK, AtLine
  <2>5. reader = "type" => AtType(d)'
    BY <1>1, <1>2, <1>5, <2>1, <2>2 DEF SInv, ReaderOK, AtType
  <2>6. ASSUME NEW k \in Nat, Waits(k) PROVE IF need' = 0 THEN Len(input') >= k ELSE need' = k /\ Len(input') < k
    BY <1>2, <1>5, <2>1, <2>2, <2>3, <2>6 DEF Waits
  <2>7. d + 1 \in DOMAIN sent => sent[d + 1].header \in Nat /\ sent[d + 1].data \in Nat
    BY DeliveredIs, SentShape
  <2>8. reader = "header" => AtHeader(d)'
    <3> SUFFICES ASSUME reader = "header" PROVE AtHeader(d)'
      OBVIOUS
    <3>1. AtHeader(d) /\ Waits(sent[d + 1].header) /\ sent[d + 1].header \in Nat
      BY <2>7 DEF SInv, ReaderOK, AtHeader
    <3>2. IF need' = 0 THEN Len(input') >= sent[d + 1].header ELSE need' = sent[d + 1].header /\ Len(input') < sent[d + 1].header
      BY <2>6, <3>1
    <3> QED
      BY <1>1, <1>2, <1>5, <2>1, <3>1, <3>2 DEF AtHeader, Waits
  <2>9. reader = "data" => AtData(d)'
    <3> SUFFICES ASSUME reader = "data" PROVE AtData(d)'
      OBVIOUS
    <3>1. AtData(d) /\ Waits(sent[d + 1].data) /\ sent[d + 1].data \in Nat
      BY <2>7 DEF SInv, ReaderOK, AtData
    <3>2. IF need' = 0 THEN Len(input') >= sent[d + 1].data ELSE need' = sent[d + 1].data /\ Len(input') < sent[d + 1].data
      BY <2>6, <3>1
    <3> QED
      BY <1>1, <3>1, <3>2 DEF AtData, Waits
  <2> QED
    BY <1>1, <2>1, <2>4, <2>5, <2>8, <2>9 DEF ReaderOK
<1> QED
  BY <1>1, <1>7, <1>8, ReadKeeps

(* Taking n bytes of the input. *)
LEMMA TakesInput ==
    ASSUME SInv, NEW n \in 0 .. Len(input)
    PROVE  /\ SubSeq(input, 1, n) \in Seq(Bytes) /\ Rest(n) \in Seq(Bytes)
           /\ Len(SubSeq(input, 1, n)) = n /\ Len(Rest(n)) = Len(input) - n
           /\ SubSeq(input, 1, n) \o Rest(n) = input
           /\ \A j \in 1 .. n : SubSeq(input, 1, n)[j] = input[j]
BY ReadFacts, Splits DEF Rest

(* Waiting for more keeps what there is. *)
LEMMA WaitsStream ==
    ASSUME SInv, UNCHANGED <<sent, wire, header, input, delivered>>, Left' = Left, Cut' = Cut, Reading' => Reading
    PROVE  StreamOK'
<1>1. All' = All
  BY DEF All
<1> QED
  BY <1>1 DEF SInv, StreamOK

(* A line ends with the only newline of the handshake's bytes. *)
LEMMA LineStream == ASSUME SInv, Types', ReadLine PROVE SInv' /\ (delivered' = delivered \/ Delivery)
<1> DEFINE d == Len(delivered)
<1>1. /\ need = 0 /\ reader = "line" /\ Reading /\ UNCHANGED <<kind, ring, writing, sentVars, sent, lost, stuck, shake, wire, ended>>
      /\ Left' = Left /\ Coming' = Coming /\ Cut' = Cut /\ ended \in BOOLEAN
  BY ReadsLeaves DEF ReadLine, Reads, SInv, ReaderOK
<1>2. header = <<>> /\ d < 2 /\ d \in Nat /\ Read = input
  BY <1>1, DeliveredIs, ReadFacts DEF SInv, ReaderOK, AtLine
<1>3. input \in Seq(Bytes) /\ Len(input) \in Nat /\ DOMAIN input = 1 .. Len(input) /\ LineLength \in Nat \ {0}
  BY ReadFacts, BytesAssumption, SizeAssumption
<1>4. ASSUME input # <<>>
      PROVE  /\ d + 1 \in DOMAIN sent /\ Length(sent[d + 1]) = LineLength /\ input[1] = <<d + 1, 1>>
             /\ \A j \in 1 .. Len(input) : j <= LineLength => input[j] = <<d + 1, j>>
  <2>1. /\ d + 1 \in DOMAIN sent /\ input[1] = <<d + 1, 1>>
        /\ \A j \in 1 .. Len(input) : j <= Length(sent[d + 1]) => input[j] = <<d + 1, j>>
    BY <1>1, <1>2, <1>4, FrontFacts
  <2>2. sent[d + 1] = Line
    <3>1. d + 1 <= 2
      BY <1>2
    <3> QED
      BY <2>1, <3>1, DeliveredIs DEF SentOK
  <2> QED
    BY <2>1, <2>2, LineFits
<1>5. CASE Newlines = {}
  <2>1. need' = Len(input) + 1 /\ UNCHANGED <<input, header, delivered, reader>>
    BY <1>5 DEF ReadLine, WaitsFor
  <2>2. Len(input) < LineLength
    <3> SUFFICES ASSUME Len(input) >= LineLength PROVE FALSE
      BY <1>3
    <3>1. input # <<>> /\ LineLength \in 1 .. Len(input) /\ LineLength <= LineLength
      BY <1>3
    <3>2. input[LineLength] = <<d + 1, LineLength>>
      BY <1>4, <3>1
    <3>3. LineLength \in Newlines
      BY <1>3, <3>1, <3>2 DEF Newlines
    <3> QED
      BY <1>5, <3>3
  <2>3. ReaderOK'
    BY <1>1, <1>2, <1>3, <2>1, <2>2 DEF ReaderOK, AtLine, Reading
  <2>4. StreamOK'
    BY <1>1, <2>1, WaitsStream
  <2> QED
    BY <1>1, <2>1, <2>3, <2>4, ReadKeeps
<1>6. CASE Newlines # {}
  <2> DEFINE n == Min(Newlines)
             p == SubSeq(input, 1, n)
             q == Rest(n)
  <2>1. /\ Delivers(p) /\ input' = q /\ UNCHANGED <<need, header>>
        /\ reader' = IF input[1][1] = 2 THEN "type" ELSE "line"
    BY <1>6, Zenon DEF ReadLine
  <2>2. n \in Newlines /\ \A k \in Newlines : n <= k
    <3>1. Newlines \in SUBSET Nat
      BY <1>3 DEF Newlines
    <3> QED
      BY <1>6, <3>1, LeastFacts
  <2> HIDE DEF n, p, q
  <2>3. n \in 1 .. Len(input) /\ input # <<>> /\ input[n][2] = LineLength
    BY <1>3, <2>2 DEF Newlines
  <2>4. n = LineLength
    <3>1. CASE n <= LineLength
      <4>1. input[n] = <<d + 1, n>>
        BY <1>4, <2>3, <3>1
      <4> QED
        BY <2>3, <4>1
    <3>2. CASE n > LineLength
      <4>1. LineLength \in 1 .. Len(input) /\ LineLength <= LineLength
        BY <1>3, <2>3, <3>2
      <4>2. input[LineLength] = <<d + 1, LineLength>>
        BY <1>4, <2>3, <4>1
      <4>3. LineLength \in Newlines
        BY <1>3, <4>1, <4>2 DEF Newlines
      <4>4. n <= LineLength
        BY <2>2, <4>3
      <4> QED
        BY <1>3, <2>3, <3>2, <4>4
    <3> QED
      BY <1>3, <2>3, <3>1, <3>2
  <2>5. p \in Seq(Bytes) /\ q \in Seq(Bytes) /\ Len(p) = n /\ p \o q = input
    <3>1. n \in 0 .. Len(input)
      BY <1>3, <2>3
    <3> QED
      BY <3>1, TakesInput DEF p, q
  <2>6. Len(p) = Length(sent[d + 1]) /\ Read = p \o q /\ Read # <<>> /\ header' = <<>>
    BY <1>2, <1>4, <2>1, <2>3, <2>4, <2>5
  <2>7. StreamOK' /\ Delivery /\ Len(delivered') = d + 1
    BY <1>1, <2>1, <2>5, <2>6, DeliveredIs, DeliversNext
  <2>8. reader' = IF d + 1 = 2 THEN "type" ELSE "line"
    BY <1>4, <2>1, <2>3
  <2>9. ReaderOK'
    BY <1>1, <1>2, <2>1, <2>6, <2>7, <2>8 DEF ReaderOK, AtLine, AtType, Reading
  <2> QED
    BY <1>1, <2>7, <2>9, ReadKeeps
<1> QED
  BY <1>5, <1>6

(* The first bytes of a message are there. *)
LEMMA TypeStream == ASSUME SInv, Types', ReadType PROVE SInv' /\ delivered' = delivered
<1> DEFINE d == Len(delivered)
<1>1. /\ need = 0 /\ reader = "type" /\ Reading /\ UNCHANGED <<kind, ring, writing, sentVars, sent, lost, stuck, shake, wire, ended>>
      /\ Left' = Left /\ Cut' = Cut /\ ended \in BOOLEAN
  BY ReadsLeaves DEF ReadType, Reads, SInv, ReaderOK
<1>2. header = <<>> /\ d >= 2 /\ d \in Nat /\ Read = input /\ Len(input) \in Nat /\ input \in Seq(Bytes)
  BY <1>1, DeliveredIs, ReadFacts DEF SInv, ReaderOK, AtType
<1>3. UNCHANGED <<input, header, delivered>>
  BY DEF ReadType, WaitsFor
<1>4. StreamOK'
  BY <1>1, <1>3, WaitsStream
<1>5. ReaderOK'
  <2>1. CASE Len(input) < 2
    <3>1. need' = 2 /\ reader' = "type"
      BY <1>1, <2>1 DEF ReadType, WaitsFor
    <3> QED
      BY <1>1, <1>2, <1>3, <2>1, <3>1 DEF ReaderOK, AtType, Reading
  <2>2. CASE Len(input) >= 2
    <3>1. input # <<>> /\ ~(Len(input) < 2)
      BY <1>2, <2>2
    <3>2. d + 1 \in DOMAIN sent /\ input[1] = <<d + 1, 1>>
      BY <1>1, <1>2, <3>1, FrontFacts
    <3>3. TotalHeaderSize = sent[d + 1].header /\ sent[d + 1].header \in Nat
      BY <3>2, DeliveredIs, SentShape DEF TotalHeaderSize
    <3>4. reader' = "header" /\ need' = IF Len(input) < TotalHeaderSize THEN TotalHeaderSize ELSE 0
      BY <1>1, <3>1 DEF ReadType, WaitsFor
    <3>5. Waits(sent[d + 1].header)' /\ need' \in Nat
      BY <1>1, <1>2, <1>3, <3>3, <3>4 DEF Waits
    <3>6. AtHeader(d)'
      BY <1>1, <1>2, <1>3, <2>2, <3>2, <3>5 DEF AtHeader
    <3> QED
      BY <1>1, <1>3, <3>4, <3>5, <3>6 DEF ReaderOK, Reading
  <2> QED
    BY <1>2, <2>1, <2>2
<1> QED
  BY <1>1, <1>3, <1>4, <1>5, ReadKeeps

(* A header has at least two bytes. *)
LEMMA HeaderOfShape ==
    ASSUME SInv, NEW j \in DOMAIN sent, j > 2 PROVE sent[j].header \in Nat \ {0, 1}
<1>1. sent[j] \in Shapes
  BY DeliveredIs DEF SentOK, IsSent
<1> QED
  BY <1>1, BytesAssumption

(* The header is taken from the input, ... *)
LEMMA HeaderStream == ASSUME SInv, Types', ReadHeader PROVE SInv' /\ delivered' = delivered
<1> DEFINE d == Len(delivered)
           n == TotalHeaderSize
           h == SubSeq(input, 1, n)
<1>1. /\ need = 0 /\ reader = "header" /\ Reading /\ UNCHANGED <<kind, ring, writing, sentVars, sent, lost, stuck, shake, wire, ended>>
      /\ Left' = Left /\ Coming' = Coming /\ Cut' = Cut /\ ended \in BOOLEAN
  BY ReadsLeaves DEF ReadHeader, Reads, SInv, ReaderOK
<1>2. /\ header = <<>> /\ d >= 2 /\ d \in Nat /\ Read = input /\ Len(input) \in Nat /\ input \in Seq(Bytes) /\ Len(input) >= 2
      /\ d + 1 \in DOMAIN sent /\ Len(input) >= sent[d + 1].header
  BY <1>1, DeliveredIs, ReadFacts DEF SInv, ReaderOK, AtHeader, Waits
<1>3. input[1] = <<d + 1, 1>>
  <2>1. Read # <<>>
    BY <1>2
  <2> QED
    BY <1>1, <1>2, <2>1, FrontFacts
<1>4. n = sent[d + 1].header /\ n \in Nat \ {0, 1} /\ sent[d + 1].data \in Nat
  <2>1. sent[d + 1].header \in Nat \ {0, 1}
    BY <1>2, HeaderOfShape
  <2>2. sent[d + 1].data \in Nat
    BY <1>2, DeliveredIs, SentShape
  <2> QED
    BY <1>3, <2>1, <2>2 DEF TotalHeaderSize
<1>5. /\ input' = Rest(n) /\ header' = h /\ reader' = "data" /\ delivered' = delivered
      /\ need' = IF DataSize(h) > Len(input') THEN DataSize(h) ELSE 0
  BY <1>1 DEF ReadHeader
<1> HIDE DEF h, n
<1>6. /\ h \in Seq(Bytes) /\ Rest(n) \in Seq(Bytes) /\ Len(h) = n /\ h \o Rest(n) = input /\ h[1] = input[1]
      /\ Len(Rest(n)) = Len(input) - n
  <2>1. n \in 0 .. Len(input) /\ 1 \in 1 .. n
    BY <1>2, <1>4
  <2> QED
    BY <2>1, TakesInput DEF h
<1>7. DataSize(h) = sent[d + 1].data
  BY <1>3, <1>6 DEF DataSize
<1>8. StreamOK'
  <2>1. Coming \in Seq(Bytes) /\ wire \in Seq(Bytes) /\ All = header \o (input \o Coming)
    BY ReadFacts
  <2>2. All = input \o Coming
    <3>1. input \o Coming \in Seq(Bytes)
      BY <1>2, <2>1
    <3> QED
      BY <1>2, <2>1, <3>1, EmptyFront
  <2>3. All' = header' \o (input' \o Coming')
    BY DEF All, Coming
  <2>4. Cat(h, Cat(Rest(n), Coming)) = Cat(Cat(h, Rest(n)), Coming)
    BY <1>6, <2>1, CatFacts
  <2>5. All' = Cat(h, Cat(Rest(n), Coming))
    BY <1>1, <1>5, <2>3, Zenon DEF Cat
  <2>6. All = Cat(Cat(h, Rest(n)), Coming)
    BY <1>6, <2>2, Zenon DEF Cat
  <2>7. All' = All
    BY <2>4, <2>5, <2>6
  <2> QED
    BY <1>1, <1>5, <1>6, <2>1, <2>7, SameStream
<1>9. ReaderOK'
  <2>1. need' \in Nat /\ Waits(sent[d + 1].data)'
    BY <1>1, <1>2, <1>4, <1>5, <1>6, <1>7 DEF Waits
  <2>2. header' # <<>> /\ Len(header') = sent[d + 1].header
    BY <1>4, <1>5, <1>6
  <2>3. AtData(d)'
    BY <1>1, <1>2, <1>5, <2>1, <2>2 DEF AtData
  <2> QED
    BY <1>1, <1>5, <2>1, <2>3 DEF ReaderOK, Reading
<1> QED
  BY <1>1, <1>5, <1>8, <1>9, ReadKeeps

(* ... and the data behind it, which are delivered unless it has stopped. *)
LEMMA DataStream == ASSUME SInv, Types', ReadData, ~ended PROVE SInv' /\ Delivery
<1> DEFINE d == Len(delivered)
           n == DataSize(header)
           a == SubSeq(input, 1, n)
<1>1. /\ need = 0 /\ reader = "data" /\ Reading /\ UNCHANGED <<kind, ring, writing, sentVars, sent, lost, stuck, shake, wire, ended>>
      /\ Left' = Left /\ Coming' = Coming /\ Cut' = Cut /\ ended \in BOOLEAN
  BY ReadsLeaves DEF ReadData, Reads, SInv, ReaderOK
<1>2. /\ header # <<>> /\ d >= 2 /\ d \in Nat /\ Len(input) \in Nat /\ input \in Seq(Bytes)
      /\ d + 1 \in DOMAIN sent /\ Len(header) = sent[d + 1].header /\ Len(input) >= sent[d + 1].data
      /\ header \in Seq(Bytes) /\ Read[1] = header[1] /\ Len(header) >= 1 /\ Len(Read) = Len(header) + Len(input)
  BY <1>1, DeliveredIs, ReadFacts DEF SInv, ReaderOK, AtData, Waits
<1>3. Read # <<>>
  BY <1>2, ReadFacts
<1>4. header[1] = <<d + 1, 1>>
  BY <1>1, <1>2, <1>3, FrontFacts
<1>5. n = sent[d + 1].data /\ n \in Nat /\ Length(sent[d + 1]) = Len(header) + n
  <2>1. sent[d + 1].data \in Nat /\ Length(sent[d + 1]) = sent[d + 1].header + sent[d + 1].data
    BY <1>2, DeliveredIs, SentShape
  <2> QED
    BY <1>2, <1>4, <2>1 DEF DataSize
<1>6. /\ Delivers(header \o a) /\ input' = Rest(n) /\ header' = <<>> /\ reader' = "type" /\ need' = need
  BY Zenon DEF ReadData
<1> HIDE DEF n, a
<1>7. a \in Seq(Bytes) /\ Rest(n) \in Seq(Bytes) /\ Len(a) = n /\ a \o Rest(n) = input
  <2>1. n \in 0 .. Len(input)
    BY <1>2, <1>5
  <2> QED
    BY <2>1, TakesInput DEF a
<1>8. header \o a \in Seq(Bytes) /\ Len(header \o a) = Length(sent[d + 1])
  <2>1. header \in Seq(Bytes) /\ a \in Seq(Bytes)
    BY <1>2, <1>7
  <2>2. header \o a \in Seq(Bytes) /\ Len(header \o a) = Len(header) + Len(a)
    BY <2>1, Concatenated
  <2> QED
    BY <1>5, <1>7, <2>2
<1>9. Read = (header \o a) \o Rest(n)
  <2>1. Cat(header, Cat(a, Rest(n))) = Cat(Cat(header, a), Rest(n))
    BY <1>2, <1>7, CatFacts
  <2>2. Read = Cat(header, Cat(a, Rest(n)))
    BY <1>7, Zenon DEF Read, Cat
  <2>3. (header \o a) \o Rest(n) = Cat(Cat(header, a), Rest(n))
    BY Zenon DEF Cat
  <2> QED
    BY <2>1, <2>2, <2>3
<1>10. StreamOK' /\ Delivery /\ Len(delivered') = d + 1
  BY <1>1, <1>3, <1>6, <1>7, <1>8, <1>9, DeliveredIs, DeliversNext
<1>11. ReaderOK'
  BY <1>1, <1>2, <1>6, <1>10 DEF ReaderOK, AtType, Reading
<1> QED
  BY <1>1, <1>10, <1>11, ReadKeeps

(* A reader whose end has stopped reads no more, ... *)
LEMMA OverStream ==
    ASSUME SInv, Types', WakesReader \/ LeavesLoop \/ (ReadData /\ ended) PROVE SInv' /\ delivered' = delivered
<1>1. /\ UNCHANGED <<senderVars, ended, delivered>> /\ ~Reading' /\ need' = 0 /\ ended = TRUE
      /\ reader' \in {"over", "failed", "astray"}
  <2>1. CASE WakesReader
    BY <2>1 DEF WakesReader, Woken, Reading, SInv, ReaderOK
  <2>2. CASE LeavesLoop
    BY <2>2 DEF LeavesLoop, Reads, Reading, SInv, ReaderOK
  <2>3. CASE ReadData /\ ended
    BY <2>3 DEF ReadData, Reads, Reading, SInv, ReaderOK
  <2> QED
    BY <2>1, <2>2, <2>3
<1>2. /\ UNCHANGED <<kind, ring, writing, sentVars, sent, lost, stuck, shake, wire>>
  BY <1>1, ReadsLeaves
<1>3. header' \in Seq(Bytes) /\ input' \in Seq(Bytes)
  <2>1. CASE UNCHANGED <<header, input>>
    BY <2>1 DEF SInv, StreamOK
  <2>2. CASE ReadData
    <3>1. AtData(Len(delivered)) /\ need = 0 /\ Reading
      BY <2>2 DEF ReadData, Reads, SInv, ReaderOK
    <3>2. Read # <<>> /\ Read[1] = header[1]
      BY <3>1, ReadFacts DEF AtData
    <3>3. header[1] = <<Len(delivered) + 1, 1>> /\ Len(delivered) + 1 \in DOMAIN sent
      BY <3>1, <3>2, FrontFacts
    <3>4. DataSize(header) \in 0 .. Len(input)
      <4>1. DataSize(header) = sent[Len(delivered) + 1].data
        BY <3>3, DeliveredIs DEF DataSize
      <4>2. sent[Len(delivered) + 1].data \in Nat
        BY <3>3, DeliveredIs, SentShape
      <4>3. Len(input) \in Nat
        BY ReadFacts
      <4>4. Len(input) >= sent[Len(delivered) + 1].data
        BY <3>1 DEF AtData, Waits
      <4> QED
        BY <4>1, <4>2, <4>3, <4>4
    <3>5. header' = <<>> /\ input' = Rest(DataSize(header))
      BY <2>2 DEF ReadData
    <3>6. <<>> \in Seq(Bytes)
      OBVIOUS
    <3> QED
      BY <3>4, <3>5, <3>6, TakesInput
  <2> QED
    BY <2>1, <2>2 DEF WakesReader, LeavesLoop
<1>4. StreamOK'
  BY <1>1, <1>2, <1>3 DEF SInv, StreamOK
<1>5. ReaderOK'
  BY <1>1 DEF ReaderOK
<1> QED
  BY <1>1, <1>2, <1>4, <1>5, ReadKeeps

(* ... and until it notices, the stop changes nothing. *)
LEMMA EndStopsStream == ASSUME SInv, Types', EndStops PROVE SInv'
<1>1. UNCHANGED <<senderVars, input, reader, need, header, delivered>> /\ ended' = TRUE /\ Reading' = Reading
  BY DEF EndStops, Reading
<1>2. UNCHANGED <<kind, ring, writing, sentVars, sent, lost, stuck, shake, wire>> /\ Left' = Left /\ Cut' = Cut
  BY <1>1, ReadsLeaves
<1>3. StreamOK'
  BY <1>1, <1>2, WaitsStream
<1>4. ReaderOK'
  BY <1>1, <1>2 DEF SInv, ReaderOK, AtLine, AtType, AtHeader, AtData, Waits
<1> QED
  BY <1>2, <1>3, <1>4, ReadKeeps

LEMMA StreamInit == Init => SInv
<1> SUFFICES ASSUME Init PROVE SInv
  OBVIOUS
<1>1. Holds(ring)
  <2>1. /\ ring.readHead = 0 /\ ring.writeHead = 0 /\ ring.committed = 0 /\ ring.cells = [i \in Positions |-> Zero]
    BY DEF Init, EmptyRing
  <2>2. 0 \in Positions /\ Wrap(0 + 0) = 0
    BY SizeAssumption, WrapIs DEF Positions
  <2>3. \A j \in Positions : Wrap(0 + j) \in Positions /\ j >= 0
    BY <2>2, SizeAssumption, WrapIs DEF Positions
  <2>4. \A j \in Positions : InRing(ring, j) = Zero
    BY <2>1, <2>3 DEF InRing
  <2> QED
    BY <2>1, <2>2, <2>3, <2>4, SizeAssumption DEF Holds
<1>2. ViewsOK /\ SentOK /\ CarriedOK
  BY DEF Init, ViewsOK, SentOK, IsSent, CarriedOK, CarriedIs
<1>3. StreamOK
  <2>1. Left = <<>>
    BY DEF Init, EmptyRing, Left, Gone, Pending
  <2>2. All = <<>>
    BY <2>1 DEF Init, All
  <2>3. Streams(sent, All, Len(delivered)) /\ Ends(sent, All, Len(delivered))
    BY <2>2 DEF Init, Streams, InStep, Ends
  <2> QED
    BY <2>3 DEF Init, StreamOK
<1>4. ReaderOK
  <2>1. reader = "line" /\ need = 0 /\ header = <<>> /\ delivered = <<>> /\ ended = FALSE /\ Reading
    BY DEF Init, Reading
  <2>2. Len(delivered) < 2
    BY <2>1
  <2>3. AtLine(Len(delivered))
    BY <2>1, <2>2 DEF AtLine
  <2> QED
    BY <2>1, <2>3 DEF ReaderOK
<1>5. Types
  <2>1. 0 \in 0 .. MaxTasks
    BY BytesAssumption
  <2> QED
    BY <2>1 DEF Init, Types
<1> QED
  BY <1>1, <1>2, <1>3, <1>4, <1>5 DEF SInv

LEMMA StillStream == ASSUME SInv, Types', UNCHANGED vars PROVE SInv'
<1>1. UNCHANGED <<senderVars, header, input, delivered, reader, need, ended>> /\ Reading' = Reading
  BY DEF vars, readerVars, Reading
<1>2. UNCHANGED <<kind, ring, writing, sentVars, sent, lost, stuck, shake, wire>> /\ Left' = Left /\ Cut' = Cut
  BY <1>1, ReadsLeaves
<1>3. StreamOK'
  BY <1>1, <1>2, WaitsStream
<1>4. ReaderOK'
  BY <1>1, <1>2 DEF SInv, ReaderOK, AtLine, AtType, AtHeader, AtData, Waits
<1> QED
  BY <1>2, <1>3, <1>4, ReadKeeps

(* Every step keeps the stream, and only a delivery changes what is        *)
(* delivered.                                                              *)
LEMMA StreamNext == IInv /\ SInv /\ [Next]_vars => SInv' /\ (delivered' = delivered \/ Delivery)
<1> SUFFICES ASSUME IInv, SInv, [Next]_vars PROVE SInv' /\ (delivered' = delivered \/ Delivery)
  OBVIOUS
<1>0. Types'
  BY TypesNext DEF SInv
<1>1. CASE TimerFires
  BY <1>0, <1>1, TimerStream DEF TimerFires, readerVars
<1>2. CASE WriteView
  BY <1>0, <1>2, WriteViewStream DEF WriteView, readerVars
<1>3. CASE SendViews
  BY <1>0, <1>3, SendViewsStream DEF SendViews, readerVars
<1>4. CASE WriteFails
  BY <1>0, <1>4, WriteFailsStream DEF WriteFails, OnDisconnect, readerVars
<1>5. CASE ReserveStart \/ Reserve \/ SendNoAck \/ (\E size \in Reserves : Add(size)) \/ ReadFails \/ SocketCloses
  <2>1. SInv'
    BY <1>0, <1>5, OthersStream
  <2>2. UNCHANGED delivered
    BY <1>5 DEF ReserveStart, Reserve, SendNoAck, Add, ReadFails, SocketCloses, OnDisconnect, readerVars
  <2> QED
    BY <2>1, <2>2
<1>6. CASE SendHandshake \/ StartMessageMode
  BY <1>0, <1>6, LinesStream DEF SendHandshake, StartMessageMode, readerVars
<1>7. CASE \E m \in Shapes : SendChunk(m)
  BY <1>0, <1>7, ChunkStream DEF SendChunk, readerVars
<1>8. CASE Stop
  BY <1>0, <1>8, StopStream DEF Stop, readerVars
<1>9. CASE Lose
  BY <1>0, <1>9, LoseStream DEF Lose, readerVars
<1>10. CASE \E n \in 1 .. Len(wire) : ReceiveBytes(n)
  BY <1>0, <1>10, ReceiveStream DEF ReceiveBytes
<1>11. CASE ReadLine \/ ReadType \/ ReadHeader \/ (ReadData /\ ~ended)
  BY <1>0, <1>11, LineStream, TypeStream, HeaderStream, DataStream
<1>14. CASE WakesReader \/ LeavesLoop \/ (ReadData /\ ended)
  BY <1>0, <1>14, OverStream
<1>12. CASE EndStops
  BY <1>0, <1>12, EndStopsStream DEF EndStops
<1>13. CASE UNCHANGED vars
  BY <1>0, <1>13, StillStream DEF vars, readerVars
<1> QED
  BY <1>1, <1>2, <1>3, <1>4, <1>5, <1>6, <1>7, <1>8, <1>9, <1>10, <1>11, <1>12, <1>13, <1>14 DEF Next, Works

----------------------------------------------------------------------------
(* What is in the ring when stop() has waited for an empty one has been    *)
(* committed since it was called.                                          *)
DInv == stopAt \in 0 .. Len(sent) /\ DrainedMeansSent

(* A ring with room for all is empty. *)
LEMMA EmptyIsZero ==
    ASSUME NEW r, Holds(r), Available(r) >= Size PROVE \A i \in Positions : r.cells[i] = Zero
<1>1. r.readHead \in Positions /\ r.committed = 0
  BY SizeAssumption DEF Holds, Available
<1>2. ASSUME NEW i \in Positions PROVE r.cells[i] = Zero
  <2>1. PICK j \in Positions : i = Wrap(r.readHead + j)
    BY <1>1, Places
  <2>2. j >= r.committed
    BY <1>1 DEF Positions
  <2>3. InRing(r, j) = Zero
    BY <2>2 DEF Holds
  <2> QED
    BY <2>1, <2>3 DEF InRing
<1> QED
  BY <1>2

(* What is released is zeroed, and else nothing is written ... *)
LEMMA DrainKeeps ==
    ASSUME SInv, DInv, UNCHANGED <<stopAt, sent>>,
           \A i \in Positions : ring'.cells[i] = Zero \/ ring'.cells[i] = ring.cells[i],
           drain' = "done" => drain = "done" \/ \A i \in Positions : ring'.cells[i] = Zero
    PROVE  DInv'
BY DEF DInv, DrainedMeansSent

(* ... but what is committed, after all that was sent before. *)
LEMMA CommitDrains ==
    ASSUME SInv, DInv, NEW m \in [header : Nat, data : Nat, char : Nat], Length(m) \in Nat,
           NEW gap, NEW immediate, CommitMessage(m, gap, immediate), UNCHANGED <<stopAt, drain>>
    PROVE  DInv'
<1> DEFINE n == Len(sent) + 1
           b == Message(n, m)
<1>1. /\ sent' = Append(sent, m) /\ sent \in Seq([header : Nat, data : Nat, char : Nat])
      /\ ring'.cells = Reserved(ring, b) /\ stopAt \in 0 .. Len(sent)
  BY DEF CommitMessage, Commit, SInv, SentOK, IsSent, DInv
<1>2. Len(sent) \in Nat /\ Len(sent') = n /\ stopAt' \in 0 .. Len(sent')
  BY <1>1
<1>3. b = [k \in 1 .. Length(m) |-> <<n, k>>] /\ Len(b) = Length(m)
  BY DEF Message
<1>4. ring.writeHead \in Positions
  <2>1. Holds(ring) /\ 0 \in Positions
    BY SizeAssumption DEF SInv, Positions
  <2> QED
    BY <2>1, Distance DEF Holds
<1> HIDE DEF n, b
<1>5. ASSUME NEW i \in Positions PROVE ring'.cells[i] = ring.cells[i] \/ ring'.cells[i][1] = n
  <2> DEFINE w == Wrap(i - ring.writeHead)
  <2>1. w \in Nat
    BY <1>4, SizeAssumption DEF Wrap, Positions
  <2>2. ring'.cells[i] = IF w < Len(b) THEN b[w + 1] ELSE ring.cells[i]
    BY <1>1 DEF Reserved
  <2> HIDE DEF w
  <2>3. w < Len(b) => b[w + 1] = <<n, w + 1>>
    BY <1>3, <2>1
  <2> QED
    BY <2>2, <2>3
<1>6. DrainedMeansSent'
  <2> SUFFICES ASSUME drain' = "done", NEW i \in Positions, ring'.cells[i] # Zero PROVE ring'.cells[i][1] > stopAt'
    BY DEF DrainedMeansSent
  <2>1. CASE ring'.cells[i] = ring.cells[i]
    BY <2>1 DEF DInv, DrainedMeansSent
  <2>2. CASE ring'.cells[i][1] = n
    BY <1>1, <1>2, <2>2 DEF n
  <2> QED
    BY <1>5, <2>1, <2>2
<1> QED
  BY <1>2, <1>6 DEF DInv

(* stop() is woken when there is room for all. *)
LEMMA WokenDrain ==
    ASSUME IInv, NEW r, Holds(r), AfterWrite(r)
    PROVE  drain' = "done" => drain = "done" \/ \A i \in Positions : r.cells[i] = Zero
<1>1. ASSUME drain' = "done", drain # "done" PROVE Available(r) >= Size
  BY <1>1 DEF AfterWrite, Wakes, IInv, SlotOK
<1> QED
  BY <1>1, EmptyIsZero

LEMMA WriteDrains == ASSUME IInv, SInv, DInv, WriteView \/ SendViews PROVE DInv'
<1>1. UNCHANGED <<stopAt, sent>> /\ writing # Idle /\ Holds(ring)
  BY DEF WriteView, SendViews, sentVars, SInv
<1>2. CASE GoesOn
  <2>1. writing.n \in 0 .. ring.committed
    BY <1>1, SizeAssumption DEF SInv, ViewsOK, Holds
  <2>2. Holds(Written) /\ ring' = Written
    BY <1>1, <1>2, <2>1, ReleaseHolds DEF GoesOn, Written
  <2>3. \A i \in Positions : ring'.cells[i] = Zero \/ ring'.cells[i] = ring.cells[i]
    BY <2>2 DEF Written, Release
  <2>4. AfterWrite(Written) \/ drain' = drain
    BY <1>2 DEF GoesOn
  <2>5. drain' = "done" => drain = "done" \/ \A i \in Positions : ring'.cells[i] = Zero
    BY <2>2, <2>4, WokenDrain
  <2> QED
    BY <1>1, <2>3, <2>5, DrainKeeps
<1>3. CASE ring' = ring /\ (drain' = drain \/ AfterWrite(ring))
  BY <1>1, <1>3, WokenDrain, DrainKeeps
<1> QED
  BY <1>2, <1>3 DEF WriteView, SendViews

LEMMA StopDrains == ASSUME IInv, SInv, DInv, Stop PROVE DInv'
<1>1. stopAt' = Len(sent) /\ UNCHANGED <<sent, ring>> /\ Len(sent) \in Nat
  BY DEF Stop, sentVars, SInv, SentOK, IsSent
<1>2. drain' = "done" => Available(ring) >= Size
  BY DEF Stop, Reservable, DrainSize
<1>3. drain' = "done" => \A i \in Positions : ring.cells[i] = Zero
  BY <1>2, EmptyIsZero DEF SInv
<1> QED
  BY <1>1, <1>3 DEF DInv, DrainedMeansSent

LEMMA DrainNext == IInv /\ SInv /\ DInv /\ [Next]_vars => DInv'
<1> SUFFICES ASSUME IInv, SInv, DInv, [Next]_vars PROVE DInv'
  OBVIOUS
<1>1. CASE WriteView \/ SendViews
  BY <1>1, WriteDrains
<1>2. CASE WriteFails \/ ReadFails \/ SocketCloses
  <2>1. UNCHANGED <<ring, stopAt, sent>> /\ (drain' = "done" => drain = "done")
    BY <1>2 DEF WriteFails, ReadFails, SocketCloses, OnDisconnect, sentVars
  <2> QED
    BY <2>1, DrainKeeps
<1>3. CASE SendHandshake \/ StartMessageMode
  <2>1. CommitMessage(Line, 0, TRUE) /\ UNCHANGED <<stopAt, drain>>
    BY <1>3 DEF SendHandshake, StartMessageMode, stopVars
  <2> QED
    BY <2>1, LineFits, CommitDrains
<1>4. CASE \E m \in Shapes : SendChunk(m)
  <2>1. PICK m \in Shapes : SendChunk(m)
    BY <1>4
  <2>2. UNCHANGED <<stopAt, drain>>
    BY <2>1 DEF SendChunk, stopVars
  <2>3. CASE \E gap \in Gaps(ring, m) : CommitMessage(m, gap, FALSE)
    <3>1. m \in [header : Nat, data : Nat, char : Nat]
      BY BytesAssumption
    <3>2. Length(m) \in Nat
      BY <3>1, MessageLength
    <3> QED
      BY <2>2, <2>3, <3>1, <3>2, CommitDrains
  <2>4. CASE UNCHANGED <<ring, sentVars>>
    BY <2>2, <2>4, DrainKeeps DEF sentVars
  <2> QED
    BY <2>1, <2>3, <2>4 DEF SendChunk
<1>5. CASE Stop
  BY <1>5, StopDrains
<1>6. CASE \/ TimerFires \/ ReserveStart \/ Reserve \/ SendNoAck \/ (\E size \in Reserves : Add(size)) \/ Lose
           \/ \E n \in 1 .. Len(wire) : ReceiveBytes(n)
  <2>1. UNCHANGED <<ring, stopAt, sent, drain>>
    BY <1>6 DEF TimerFires, ReserveStart, Reserve, SendNoAck, Add, Lose, ReceiveBytes, ringVars, stopVars, sentVars
  <2> QED
    BY <2>1, DrainKeeps
<1>7. CASE \/ ReadLine \/ ReadType \/ ReadHeader \/ ReadData \/ EndStops \/ WakesReader \/ LeavesLoop
           \/ UNCHANGED vars
  <2>1. UNCHANGED senderVars
    BY <1>7 DEF ReadLine, ReadType, ReadHeader, ReadData, Reads, EndStops, WakesReader, LeavesLoop, vars
  <2>2. UNCHANGED <<ring, stopAt, sent, drain>>
    BY <2>1 DEF senderVars, ringVars, stopVars, sentVars
  <2> QED
    BY <2>2, DrainKeeps
<1> QED
  BY <1>1, <1>2, <1>3, <1>4, <1>5, <1>6, <1>7 DEF Next, Works

LEMMA DrainInit == Init => DInv
BY DEF Init, DInv, DrainedMeansSent

(* No byte that is committed is left behind without a writer or a timer,   *)
(* and what was committed before stop() has been written when its wait for *)
(* an empty ring is over (scheduleWrite, writeBytes, afterWrite and stop), *)
(* whoever took the slot from whom and whatever was committed meanwhile.   *)
THEOREM NothingLeftBehind == Spec => []NothingStranded
<1>1. IInv /\ DInv => NothingStranded
  BY DEF IInv, DInv, NothingStranded
<1>2. IInv /\ SInv /\ DInv /\ [Next]_vars => IInv' /\ SInv' /\ DInv'
  BY InvNext, StreamNext, DrainNext
<1>3. Init => IInv /\ SInv /\ DInv
  BY InvInit, StreamInit, DrainInit
<1> QED
  BY <1>1, <1>2, <1>3, PTL DEF Spec

----------------------------------------------------------------------------
(* The invariant says that both buffers are whole. *)
LEMMA WholeBuffers == ASSUME IInv, SInv, DInv PROVE BuffersAreWhole
<1> DEFINE d == Len(delivered)
<1>1. /\ ring.readHead \in Positions /\ ring.committed \in 0 .. Size
      /\ ring.writeHead = Wrap(ring.readHead + ring.committed) /\ ring.writeHead \in Positions
  <2>1. Holds(ring) /\ 0 \in Positions
    BY SizeAssumption DEF SInv, Positions
  <2> QED
    BY <2>1, Distance DEF Holds
<1>2. Cardinality({i \in Positions : ring.cells[i] = Zero}) = Available(ring)
  BY ZeroCells DEF SInv
<1>3. /\ writing.n \in 0 .. ring.committed /\ slot.who \in {"none", "task", "stop"} /\ robbed \in {"none", "task", "stop"}
      /\ (task # "idle" => tasks # <<>>)
  BY DEF IInv, WriterOK, SlotOK, InTurn
<1>4. need \in 0 .. Size + LineLength
  <2>1. need \in Nat /\ Len(input) \in Nat /\ Size \in Nat /\ Size >= 1 /\ LineLength \in Nat /\ LineLength >= 1
    BY ReadFacts, SizeAssumption, BytesAssumption DEF SInv, ReaderOK
  <2>2. ASSUME d + 1 \in DOMAIN sent
        PROVE  sent[d + 1].header \in Nat /\ sent[d + 1].data \in Nat /\ sent[d + 1].header + sent[d + 1].data <= Size
    BY <2>2, DeliveredIs, SentShape DEF SentOK
  <2>3. CASE reader = "line"
    BY <2>1, <2>3 DEF SInv, ReaderOK, AtLine
  <2>4. CASE reader = "type"
    BY <2>1, <2>4 DEF SInv, ReaderOK, AtType
  <2>5. CASE reader = "header"
    <3>1. d + 1 \in DOMAIN sent /\ (need = 0 \/ need = sent[d + 1].header)
      BY <2>5 DEF SInv, ReaderOK, AtHeader, Waits
    <3> QED
      BY <2>1, <2>2, <3>1
  <2>6. CASE reader = "data"
    <3>1. d + 1 \in DOMAIN sent /\ (need = 0 \/ need = sent[d + 1].data)
      BY <2>6 DEF SInv, ReaderOK, AtData, Waits
    <3> QED
      BY <2>1, <2>2, <3>1
  <2>7. CASE ~Reading
    BY <2>1, <2>7 DEF SInv, ReaderOK
  <2> QED
    BY <2>3, <2>4, <2>5, <2>6, <2>7 DEF SInv, ReaderOK, Reading
<1>5. TypeOK
  BY <1>1, <1>2, <1>3, <1>4 DEF SInv, DInv, IInv, ReservationsHold, ReaderOK, Types, TypeOK
<1> QED
  BY <1>5 DEF SInv, StreamOK, Streams, ReaderOK, BuffersAreWhole

(* The heads of the ring enclose exactly what is committed and not         *)
(* released, around the end of the buffer, and the rest of it is zeroed    *)
(* (reserve, commit, getBuffers, release); and the bytes between a writer  *)
(* and a reader that has not stopped are those of the messages, none       *)
(* missing, twice there or out of order (writeBytes, receiveBytes and      *)
(* #byteReader).                                                           *)
THEOREM BothBuffersWhole == Spec => []BuffersAreWhole
<1>1. IInv /\ SInv /\ DInv => BuffersAreWhole
  BY WholeBuffers
<1>2. IInv /\ SInv /\ DInv /\ [Next]_vars => IInv' /\ SInv' /\ DInv'
  BY InvNext, StreamNext, DrainNext
<1>3. Init => IInv /\ SInv /\ DInv
  BY InvInit, StreamInit, DrainInit
<1> QED
  BY <1>1, <1>2, <1>3, PTL DEF Spec

(* The next message is delivered whole, or torn. *)
LEMMA DeliverStep == ASSUME SInv, Delivery, sent' = sent PROVE Stream!Deliver
<1> DEFINE i == Len(delivered) + 1
           m == sent[i]
           c == carried[i]
           l == Length(m)
<1>1. /\ i \in DOMAIN sent /\ i \in Nat /\ i <= Len(sent) /\ DOMAIN sent = 1 .. Len(sent) /\ l = m.header + m.data
      /\ m.header \in Nat /\ m.data \in Nat /\ l \in Nat
  <2>1. i \in DOMAIN sent /\ IsSent(sent)
    BY DeliveredIs, Zenon DEF Delivery
  <2>2. m.header \in Nat /\ m.data \in Nat /\ l = m.header + m.data
    BY <2>1, SentShape
  <2>3. DOMAIN sent = 1 .. Len(sent) /\ Len(sent) \in Nat
    BY <2>1 DEF IsSent
  <2> HIDE DEF m, l
  <2> QED
    BY <2>1, <2>2, <2>3
<1>2. Carries(c, m)
  BY <1>1 DEF SInv, CarriedOK, CarriedIs
<1>3. delivered' = Append(delivered, [k \in 1 .. l |-> <<i, c[k]>>])
  BY DEF Delivery
<1>6. m.char \in Nat
  <2> DEFINE M == [header : Nat, data : Nat, char : Nat]
  <2>1. sent \in Seq(M)
    BY DeliveredIs DEF IsSent
  <2> HIDE DEF M
  <2>2. m \in M
    BY <1>1, <2>1
  <2> QED
    BY <2>2 DEF M
<1>7. \A k \in 1 .. l : k \in 1 .. Length(m)
  OBVIOUS
<1> HIDE DEF c, l, m
<1>4. CASE c = [k \in 1 .. Length(m) |-> k]
  <2>1. [k \in 1 .. l |-> <<i, c[k]>>] = Stream!Whole(i, m)
    BY <1>1, <1>4 DEF Stream!Whole, l
  <2> QED
    BY <1>1, <1>3, <2>1 DEF Stream!Deliver, m
<1>5. CASE \E at, gap \in Nat : IsTear(m, at, gap) /\ c = Gapped(m, at, gap)
  <2>1. PICK at \in Nat, gap \in Nat : IsTear(m, at, gap) /\ c = Gapped(m, at, gap)
    BY <1>5
  <2>2. <<at, gap>> \in Stream!Tears(m)
    <3>1. /\ at >= m.header /\ gap >= 1 /\ gap <= m.char - 1 /\ at + gap < m.header + m.data
      BY <1>1, <2>1 DEF IsTear, l
    <3>2. at \in m.header .. m.header + m.data /\ gap \in 1 .. m.char - 1
      BY <1>1, <1>6, <3>1
    <3>3. <<at, gap>>[1] = at /\ <<at, gap>>[2] = gap
      OBVIOUS
    <3> QED
      BY <3>1, <3>2, <3>3 DEF Stream!Tears
  <2>3. [k \in 1 .. l |-> <<i, c[k]>>] = Stream!Torn(i, m, at, gap)
    <3>1. ASSUME NEW k \in 1 .. l
          PROVE  <<i, c[k]>> = IF k <= at THEN <<i, k>> ELSE IF k <= at + gap THEN <<i, 0>> ELSE <<i, k - gap>>
      BY <2>1, <3>1 DEF Gapped, Nothing, l
    <3> QED
      BY <1>1, <3>1 DEF Stream!Torn
  <2>4. <<at, gap>>[1] = at /\ <<at, gap>>[2] = gap
    OBVIOUS
  <2>5. \E g \in Stream!Tears(m) : delivered' = Append(delivered, Stream!Torn(i, m, g[1], g[2]))
    BY <1>3, <2>2, <2>3, <2>4
  <2> QED
    BY <1>1, <2>5 DEF Stream!Deliver, m
<1> QED
  BY <1>2, <1>4, <1>5 DEF Carries

(* A step commits a message, delivers the next one, or does neither. *)
LEMMA StreamStep == ASSUME IInv, SInv, [Next]_vars PROVE [Stream!Next]_<<sent, delivered>>
<1>1. CASE Delivery /\ sent' = sent
  BY <1>1, DeliverStep DEF Stream!Next
<1>2. ASSUME NEW m \in Shapes \cup {Line}, NEW gap, NEW immediate, CommitMessage(m, gap, immediate), delivered' = delivered
      PROVE  Stream!Next
  BY <1>2 DEF CommitMessage, Stream!Next, Stream!Commit
<1>3. CASE SendHandshake \/ StartMessageMode
  BY <1>2, <1>3 DEF SendHandshake, StartMessageMode, readerVars
<1>5. CASE \E m \in Shapes : SendChunk(m)
  <2>1. PICK m \in Shapes : SendChunk(m)
    BY <1>5
  <2>2. (\E gap \in Gaps(ring, m) : CommitMessage(m, gap, FALSE)) \/ sent' = sent
    BY <2>1 DEF SendChunk, sentVars
  <2>3. delivered' = delivered
    BY <2>1 DEF SendChunk, readerVars
  <2> QED
    BY <1>2, <2>2, <2>3
<1>6. CASE ~(SendHandshake \/ StartMessageMode \/ \E m \in Shapes : SendChunk(m))
  <2>1. sent' = sent
    BY <1>6 DEF Next, Works, TimerFires, WriteView, SendViews, WriteFails, ReadFails, SocketCloses, OnDisconnect,
                ReserveStart, Reserve, SendNoAck, Stop, Lose, Add, ReceiveBytes, ReadLine, ReadType, ReadHeader, ReadData,
                Reads, EndStops, WakesReader, LeavesLoop, senderVars, sentVars, vars
  <2>2. delivered' = delivered \/ Delivery
    BY StreamNext
  <2> QED
    BY <1>1, <2>1, <2>2
<1> QED
  BY <1>3, <1>5, <1>6

(* Messages come out once and in order, whatever pieces the connection     *)
(* cuts them into, up to where it is lost or the other end stops: whole,   *)
(* but for a gap in the text of one that wrapped around the end of the     *)
(* ring (encodeFrom).  The transport implements the stream of messages     *)
(* (writeBytes, receiveBytes and #byteReader).                             *)
THEOREM DeliversInOrder == Spec => DeliversStream
<1>1. Init => Stream!Init
  BY DEF Init, Stream!Init
<1>2. IInv /\ SInv /\ [Next]_vars => [Stream!Next]_(Stream!vars)
  BY StreamStep DEF Stream!vars
<1>3. IInv /\ SInv /\ [Next]_vars => IInv' /\ SInv'
  BY InvNext, StreamNext
<1>4. Init => IInv /\ SInv
  BY InvInit, StreamInit
<1> QED
  BY <1>1, <1>2, <1>3, <1>4, PTL DEF Spec, DeliversStream, Stream!Spec
=============================================================================
