# PolyTransport: specifications, model checking and proofs

PolyTransport multiplexes named, bidirectional channels with credit-based flow
control over pipes, sockets, WebSockets, worker ports and other channels.
This directory holds TLA+ modules of the parts of it whose correctness depends
on the order of events, TLC configurations that check them on small instances,
and TLAPS proofs of the theorems that hold for every size. Paths such as
`channel.esm.js:181` are relative to the implementation, `src/`.

1. [The system](#1-the-system)
2. [The modules and how they correspond to the code](#2-the-modules)
3. [What TLC checks](#3-what-tlc-checks)
4. [What is proved](#4-what-is-proved)
5. [Where the code and its documents disagree](#5-where-the-code-and-its-documents-disagree)
6. [What is not modelled](#6-what-is-not-modelled)
7. [Plan](#7-plan)

To check a module: `tlc -config FlowControl.cfg MCFlowControl` (the
configurations are named in section 3), `tlapm FlowControlProofs.tla`.

## 1. The system

### Components

| Component (source) | State it keeps | Operations | What makes it correct |
|---|---|---|---|
| Channel flow control (`channel-flow-control.esm.js`) | per direction: next sequence, sequences and bytes outstanding (writer), sequences and bytes unprocessed / processed / not ACKed (reader), batch timer, the one waiting writer, the drain promise | `writable`, `sent`, `inFlight`, `clearWriteAckInfo`, `allWritesAcked`; `received`, `markProcessed`, `getAckInfo`, `clearReadAckInfo`; `stop` | the two ends' counts never drift; the limit holds; no ACK, wakeup or drain is forgotten |
| ACK encoding (`getAckInfo`, `#clearAckInfo`, `protocol.esm.js`) | - | processed sequences to base and ranges, and back | exact for every pattern of gaps and at every count limit; earliest first |
| Channel write queue and ACK sender (`channel.esm.js` `#write`, `#sendAckMessage`) | a FIFO of asynchronous tasks, `#readyToAck` | write tasks, ACK tasks, ACKs piggy-backed on writes | an ACK that is due is sent; a blocked write is unblocked |
| Channel reading (`channel.esm.js` `read`, `#readSync`, `#receiveDataMessage`) | data chunks, end-of-message marks, chains per type, waiting readers | `read`, `readSync`, filters, dechunking, timeouts | every message is delivered once, whole and in order |
| Channel control messages (`#receiveControlMessage`) | `#controlChunks` | assembly; registration requests and responses; signals | each message handled once, as sent, before it is ACKed |
| Message type registration (`addMessageTypes`, `#onMesgTypeReg*`, `#settleMessageType`) | names and up to two ids per type, pending promises | request, response, simultaneous requests | both ends agree on a set of ids per name |
| Channel closing (`close`, `#discardExistingInput`, `onRemoteChanClosed`, `#finalizeClosure`, `#onDisconnect`; `base.esm.js` `#onChannelClose(d)`, `nullChannel`) | channel state, discard mode, closing promise | handshake over the transport control channel, switch to discard | nothing written is lost, both ends close, nothing arrives too late |
| Channel requests (`base.esm.js` `requestChannel`, `#onChannelRequest`, `#onChannelResponse`) | records by id and name, tokens, pending requests | request, accept, reject, simultaneous requests, reopening | one channel per name with at most two ids, and limits each end believes of the other |
| Transport life cycle (`base.esm.js`, control and console channels) | transport state, timers, stop promises | `start`, handshake, negotiated `stop` with timeout, disconnect, the TCC reader | both ends stop, promises settle |
| Byte transports (`transport/byte.esm.js`, `output-ring-buffer.esm.js`) | ring buffer, one reservation waiter, scheduled write | `reservable`, `scheduleWrite`, `afterWrite`, the parser | bytes come out as they were committed, once and in order; a promised reservation holds; stop() leaves nothing behind that was committed before it |
| Buffers (`buffer-pool.esm.js`, `virtual-buffer.esm.js`) | clean and dirty pools per size class, a management timer | acquire, release, water marks; ropes of segments | no user sees another's data; one management at a time; levels come back |
| Header encoding (`protocol.esm.js`) | - | fixed binary layouts | round trip |
| Concrete transports (`transport/*.esm.js`) | a handle of the I/O object | thin adapters | - |
| Promise tracer (`promise-tracer.esm.js`) | weak references | diagnostics | - |
| Archived sources (`archive/src/`) | - | an earlier version of the library, imported by nothing | - |

### How they interact

* Everything is one JavaScript event loop per end. Steps interleave only at an
  `await`, a task of the channel's write queue (`@task-queue`: FIFO, one task at a
  time), a microtask, a timer, or the arrival of a message. The two ends run
  concurrently; between them is a reliable FIFO in each direction, which may be cut.
* A channel end hands chunks and ACKs to its transport (`sendChunk`,
  `sendAckMessage`), both from its one write queue. The transport hands what arrives
  to `Channel.receiveMessage`, which never waits for what it starts.
* Control of transport and channels (requests, closing, stopping) travels in
  messages of channel 0, the transport control channel (TCC). These are read one by
  one by `#tccReader`, so they are handled later than data and ACKs that came after
  them, and a handler that waits holds up all that follow.

### What is hard

* *Lost wakeups and forgotten ACKs.* A writer waits for budget, budget comes from
  ACKs, ACKs from timers, microtasks and tasks that a single function with three
  early returns starts.
* *Waiting on each other.* ACKs share the write queue with writes that wait for ACKs;
  chunks of an incomplete message hold back the ACKs its missing chunks need.
* *State read before an await and used after it*: closing, stopping, the end of a
  signal's handling.
* *Crossing messages*: both ends close, switch to discard mode, register a type or
  request a channel at once.
* *Messages to something that has gone*: a message to a closed channel stops the
  whole transport.
* *Partial failure*: a disconnect finds tasks between any two steps.

`PROJECT.json` lists each hazard at its line, with the properties that cover it.

## 2. The modules

### FlowControl

One direction of a channel: `ChannelFlowControl`'s outbound half at the writer, its
inbound half at the reader, the FIFO of chunks between them and the FIFO of ACKs back.
Around the halves is the code that drives them, since that is where the order of events
comes from: the write task of `#write` (`Writable`, `SendChunk`, `WriteReturns`; a
`finally` runs in a later step than the last chunk) and the ACK sender (`AckCallback` is
the microtask of `#scheduleAcks`, `SendAckNow` the queued task, `TransportSendsAck` the
transport once it has room). Variables bear the fields' names; `unprocessedSeqs` and
`processedSeqs` are the two kinds of entries of the `#readAckInfo` map, and `task`,
`returning`, `ackSend` are the positions of asynchronous code between its awaits.

Chunks have sizes, writers reserve at least the size (`Reserve`; the code asks for room
before it knows how many bytes the text encoder fills) and byte counts are sums
over the chunks, written as cardinalities of sets of byte positions so that they can be
reasoned about without recursion. The content of an ACK message is a set of sequences; which
set, when not everything fits, is the constant `AckSet`, of which the module assumes
only what AckRanges is checked for. `ackBatchTimer = "dead"` is a handle `stop()`
cleared and did not reset.

### AckRanges, AckExchange

AckRanges is the pure algorithm: `addCount` with its 0-continuations, the loop of
`getAckInfo`, the coverage that `#clearAckInfo` computes, and the header's range count,
which is transmitted as a number of includes. The limits of 255 per count and 501
counts are constants, so that small windows reach every boundary. It uses folds and no
recursive operator. AckExchange applies it at two ends to *every* window: each subset
of sequences processed, unprocessed and ACKed is an initial state.

### Duplex

Both directions of one channel together, for what one direction cannot show: at each
end data and ACKs share the serialised write queue. `StartTask` is the queue; the steps
of a running task follow `sendAChunk` line by line (`AckFirst`: look at `#readyToAck`;
`Writable`: wait; `SendChunk`), with a message's chunks in one task or requeued chunk
by chunk (`Together`, from write()'s options). Timers and microtasks collapse into
`ackDue`, which FlowControl's AckIsComing justifies.

### ControlMessages

The remote's headers (type and EOM flag) are chosen initially. `#receiveControlMessage`: chunks gather in `#controlChunks`; a complete message is
handled; signals are events whose handlers may run for long while more chunks arrive.
`oneAtATime` is chosen initially and separates the behaviours in which handlers are done before
the next control chunk is received from those in which they may overlap.

### DechunkedRead

Reading whole messages while flow control counts their chunks: the stages a chunk
passes (sent, received, read, processed, ACKed, ACK received) are counters, since all are in
order. It asks one question: does every message get read, whatever lengths are mixed,
with this limit and this low-water mark?

### Closure, ChannelClose

Closure is what closing promises, in three variables: an end finishes when it is
closing and all it wrote is processed, and an end is closed only when both have
finished. ChannelClose is how: `close()` cut at its awaits (`closing` holds the step),
the switch to discard mode, the `chanClose`/`chanClosed` handshake, the TCC with its
queue and its reader, the nulling of the record, disconnects, and as much of writing
and reading as the drain depends on. TCC messages share the wire with data and ACKs but
wait at the other end for `#tccReader`, so a message can be overtaken by later data.
`Promise` in ChannelClose is the refinement mapping: states to the four of Closure, an
end's pending chunks counted wherever they are (to be sent, on the wire, buffered,
held by the application), finished once chanClosed has been sent.
`faults` records messages that found the channel gone, each of which
makes the code stop the transport; what the stop does then is not followed.

### ChannelRequest

Both transports' records of one name: requests and their promises (`pending`,
`unsettled`), the newChannel event, whose handlers take their time (`handling`) while
`#tccReader` waits for them, responses, the second id, and closing as far as the record goes:
a nulled record keeps the name and its first id for the next time. `Accept` and `Reject`
are how `#onChannelRequest` goes on after that await; what it looks up again there is
read in them.

`careful` is chosen initially. In behaviours with it, applications request a channel only
when they have none or it is fully closed, give `accept()` the limit that they requested themselves,
do not refuse to reopen a channel, and have no closed handler that waits. All other
behaviours are in the module too; the properties say which of them need care.

### RoleIds, MessageTypes

RoleIds is `addRoleId`, with which a message type or a channel takes the id each end gave it: at most
two, of different parity, of which the smaller is the active one.

MessageTypes is `addMessageTypes` at both ends and what it does to messages on their way.
A request is the set of names an end does not know yet (their order is the application's, so any is possible);
the other end's `#onMesgTypeRegRequest` awaits the newMessageType handlers (`handlers`), name by name, takes its
next id (even or odd) for each type that has none, and answers; `OnResponse` takes the ids, forgets what was rejected, and
where a type has two ids by then, `SettleMessageTypes` notes the larger as remapped to the smaller.
Meanwhile one end writes by name (`Write` takes whichever id is active there), the other
reads with or without a filter. The reading side has the fields of the channel:
`chunks` in order of arrival (the chains are sets of indices into it), `chained` the keys of `#typeChain`, `remapping`, and of
every read call whether it waits, under which ids, and what it was given
(`FindReader` decides whom a message wakes, `Continue` is the rest of `read()` in a later microtask). The
data messages have one chunk; DechunkedRead has the chunks. `faults` records the
exceptions and the unknown ids that the code would run into.

`careful` is chosen initially here too: an application then registers one type per request,
uses a type by its name only after its own registration has settled, does not read with a filter
while an unfiltered read waits, and does not read from a closed channel. Everything
else is in the module; the property that needs care says so in its formula.

### TransportLifecycle

Both ends of a byte-stream transport from `start()` to the end, with one channel that is open, being requested or
being closed when a stop or a loss comes. Each `stop()` is a process of its own,
cut at its awaits: the stopping event, the closing of the channels, the sending of
`tranStopped`, `#finalizeStop` with its drain. `#tccReader` handles the messages of the
remote one by one and waits for the handlers it runs. Messages that have arrived (`inbox`) are
apart from those on the wire, because `#tccReader` goes on with the former after a disconnect.

What may go wrong besides interleaving is the constant set `Troubles`; a
behaviour has at most one kind of it (`trouble`), chosen initially. In this way the
one run covers ordinary behaviours in full, every kind of trouble, and properties that name exactly the kinds they do
not survive. Those exceptions are listed in section 5.

### OutputRing, ByteTransport, MessageStream

OutputRing is the ring buffer as an algorithm over cells: reserving, committing around the end,
the two views to be written, releasing with zeroing. It has `encodeFrom` too, because the two segments of a
reservation around the ring's end show in it: a character of several bytes that straddles the end is put behind it, the places
before stay zero, they are not counted as written, and `shrink` cuts as many bytes off the text's end. `Gaps` are the gaps a message
may get where it is put, `Encoded` is what its places then carry.

ByteTransport is the transport around it:
tasks of the write queue, the two lines of the handshake and `stop()` wait for room in the
one `reserveWaiter` (`slot`). Tasks are added and `stop()` is called at any time, and who comes to the slot takes it, whoever
was in it (`robbed`). `ScheduleWrite` batches or starts `writeBytes`, which takes
what is committed, writes its views, calls `afterWrite` and goes on until the ring is empty;
the connection may be lost at any step. A socket writes synchronously; the model lets other steps come before
that, as they do with a pipe.

At the other end bytes come in pieces of any size to
`#byteReader`, which waits for a line, a type, the rest of a header, and the data. That end's own transport may stop or be disconnected at any
step, whatever is still to come (`EndStops`): then a reader that waits is woken with false, and returns, or throws if
it was in the middle of a header (`WakesReader`); one that does not wait leaves its loop (`LeavesLoop`), and from the loop for lines it goes
astray into `onRemoteReady`, of which TransportLifecycle has the consequences; and a message that was read nevertheless is dropped.

A place is `<<i, k>>`, the k-th of the i-th message, so a mixture of two messages
shows; `carried` says which byte of the message is there, 0 for the zeroes of a gap. MessageStream is what the transport promises: a sequence
of messages, of which a prefix has been delivered, each whole or torn by one gap. `DeliversStream` is the refinement.

### BufferPool

Per size, clean buffers and dirty ones that users gave back. `Acquire` and `Release` only
mark the size; `#manageLevels` runs by a timer, and awaits between one size and the
next (`managing`), when users and `stop()` come in. `written` are pooled buffers with a user's data in
them: the property is that no user is handed one.

## 3. What TLC checks

| Run (configuration) | States | Properties |
|---|---|---|
| `flow_control` (FlowControl.cfg) | 157 000 | IInv, NoViolation, AckIsComing, DrainedMeansEmpty, WaiterIsNeeded, AckedStaysAcked, EverythingSettles |
| `ack_exchange` (AckExchange.cfg) | 39 000 | EncodingExact, EarliestFirst |
| `duplex` (Duplex.cfg) | 151 000 | EveryChunkAccounted, WaitsForWaiterOnly |
| `control_messages` (ControlMessages.cfg) | 121 000 | HandledInTurn, EveryChunkProcessed |
| `dechunked_read` (DechunkedRead.cfg) | 11 000 | EveryMessageRead |
| `channel_close` (ChannelClose.cfg) | 125 000 | OnlyEchoIsLate, ImplementsClosure, CloseCompletes |
| `channel_close_echo` (ChannelCloseEcho.cfg) | violation | EchoIsHarmless |
| `channel_request` (ChannelRequest.cfg) | 84 000 | NothingUnexpected, OpenTogether, RequestsSettle |
| `message_types` (MessageTypes.cfg) | 477 000 | NoFaults, IdsAgree, NoReadWaitsInVain, ReadsInOrder, NullMeansClosedIfCareful, EverythingSettles |
| `transport_lifecycle` (TransportLifecycle.cfg) | 447 000 | NoChannelOutlives, StoppedTogether, TerminalStays, RequestsSettle, StopSettles |
| `byte_transport` (ByteTransport.cfg) | 214 000 | NothingStranded, ReservationsHold, BuffersAreWhole, DeliversStream, AllSettles |
| `buffer_pool` (BufferPool.cfg) | 26 000 | NoLeftovers, OneManager, LevelsRestored |

A module's type invariant (`TypeOK`) is a conjunct of one of its named invariants:
of IInv in FlowControl, of the first invariant of the run elsewhere (BuffersAreWhole in
ByteTransport; the counters of DechunkedRead have none). Where a theorem needs it, it is proved by itself.

What the runs show, and why their bounds are enough:

* **flow_control**: five chunks in three messages, of sizes 1 and 2, against a limit of
  4 bytes, one chunk reserved larger than sent. So writers wait, a wakeup may be for a
  chunk that still does not fit, several ACKs are on the wire at once, ACK messages
  are truncated (the encoding is cut to counts of 1 and 3 counts a message), the
  low-water mark holds ACKs back, and the overrides of batching by bytes and by chunk
  count fire. Either end may disconnect at any step; EverythingSettles (every
  `#write` returns, every chunk is ACKed, a drain ends) then asks no more of it. All chunk-level state is bounded by the
  limit, so more chunks repeat the same situations with larger numbers; the proofs of section
  4 remove the bound for the safety properties.
* **ack_exchange**: counts of at most 2 and messages of at most 5 counts over every
  window of 9 sequences: runs and gaps of up to 7 need up to three continuations, and
  the list runs full within a run, within a gap and between them. A message of 255/501
  meets the same branches, only further away.
* **duplex**: a limit of 3 chunks, one end writing 3 chunks in one task, the other 2 and
  1 chunk by chunk. With a waiter at both ends possible, the property that survives is
  that a write blocked for good faces another blocked write.
* **control_messages**: all control messages of the 3 types that have up to 6 chunks together. Two
  overlapping signals suffice for sharing; a third of two chunks shows that the list recovers.
* **dechunked_read**: every sequence of up to 3 messages of 1 to 3 chunks that each fit
  the limit of 4, with the low-water mark at 2, the least that works for this limit and length
  (the mark is compared with chunks of an incomplete message, so it must allow all but
  one of the longest).
* **channel_close**: each end's application may call `close()` once, with or without
  discard, on top of the calls that arriving chanClose messages make; one end writes a
  message of two chunks with room for one on the wire, so that closing finds it half sent; that end may
  notice a disconnect at any time. Every order of the two handshakes, the discard
  switches and their echoes is covered. (The instance in which both ends write such a message, of
  900 000 states, holds too, and takes a few minutes.)
* **channel_request**: up to three requests of one name, divided in any way between the
  ends, and one close, with two values for the limits. So both ends request at once and
  accept, or one of them, or neither; a channel is closed while a response is on its
  way; and it is opened again by one or by both, with the ids it had. (Four requests, 332 000
  states, hold too.)
* **message_types**: two names, alone or both in one registration, two requests, divided in any
  way between the ends, two writes and two reads, and a loss at any time. So both ends register one
  name at once, a response crosses a request, a message written under the id that loses is on its
  way, arrived or waited for when the ids settle, and a read waits before its type has both ids.
  Each of these is about two parties and one name; the second name is there to be mixed up with the first.
  The names of a request are handled in every order. The theorems of section 4 have no such bounds.
* **transport_lifecycle**: two applications that may call `stop()`, twice in all, besides those
  with which an end follows the other, and up to two requests where there is no trouble (one
  with it, and none where the trouble is about the handshake or the last bytes; the bounds
  `WithoutChannel`, `WithOneStop` and `InHandshake` of the module say which). So both
  stop at once; a stop meets a request being handled, an open channel, a closing one; and each of
  eleven kinds of trouble meets each step of this. `outOfBandData` comes once.
* **byte_transport**: a ring of 5 bytes, lines of 2, messages of 3 and 4 bytes for which 3 or 5 are
  reserved, two tasks. The two lines leave the write head one place before the ring's end. So the
  first message wraps within its header, and behind one of three bytes the second wraps within its text, with or without a gap. Room
  for 3 is there behind an unwritten line but not behind a message, and room for 5 only in an empty ring, so that tasks wait behind the
  handshake and behind each other, and with `stop()`, which takes the slot from a task or loses it to one. Two tasks are enough for the
  second to be queued behind the one that waits. Pipe and socket, batching by time and by bytes, loss, `stop()` and the end of the
  other transport at every step. The theorems of section 4 have no such bounds; AllSettles is left to this instance.
* **buffer_pool**: two sizes, marks 1 and 2, requests of one to three buffers' worth, two buffers
  of a size in users' hands. Every size is below, between and above the marks, with users and `stop()`
  coming between the two sizes of a management run.

**Deadlock** is not checked in any run, because the systems do stop: the numbers of writes,
messages, requests and calls are bounded, and a channel, transport or pool that is closed or idle does nothing. What
must not stop is stated as liveness instead.

**Fairness.** All fairness is weak fairness of steps the event loop or the transport
takes on its own: a runnable task or microtask runs, a timer fires, a message in a live
connection arrives. Of the application the liveness runs assume that it is done with
chunks it was given (and in DechunkedRead that it goes on reading), because nothing can be
ACKed otherwise. It is never assumed to write, to close or (in ChannelClose) to read.
What safety needs has no fairness: the theorems are about `Spec` of FlowControl, the run
about its `FairSpec`. After a disconnect its liveness properties ask nothing, since a
disconnect legitimately ends the flow. In ChannelClose one weak fairness condition over all the
progress steps is enough, as every behaviour is finite and disabled steps stay reachable only through
other progress steps; ChannelRequest has one such condition for each end (its handlers return, its
messages arrive, its closing channel drains). MessageTypes, TransportLifecycle and ByteTransport
have one condition over the steps the program takes on its own, for the reason given for ChannelClose: no
such step is undone, and each uses up something the bounds limit. It includes that event handlers return
(the code awaits them without limit) but not that anybody calls `stop()`, registers, reads or writes,
nor that a connection is lost. BufferPool has fairness for its timer and for
the continuation of a management run; users may keep their buffers.

**Mutants.** Every property has a mutant in its module, a plausible mistake in the
operation it depends on (a stale budget in the wakeup, a timer that does not recheck,
a drain that ignores writes in limbo, the state assigned without looking at what came
during the await), under which the run fails. They are the definitions named `Mut...`.

## 4. What is proved

### Flow control

FlowControlProofs proves, for every number and size of chunks, every division into
messages, every limit (0 = unlimited included), every batching parameter, and every
ACK encoding that acknowledges some of what is ackable and nothing else:

| Theorem | Says |
|---|---|
| `Invariant` | the inductive invariant (IInv), which the run checks too |
| `TypeCorrect` | no counter goes negative (TypeOK) |
| `HonestEndsNeverAccused` | two honest ends never report an out-of-order or over-budget chunk, a duplicate or premature ACK (NoViolation); a report would close the channel |
| `LimitRespected` | never more outstanding than granted (WithinWriteLimit) |
| `DrainIsComplete` | after `allWritesAcked()` resolves nothing is outstanding or in limbo (DrainedMeansEmpty) |
| `NoAckForgotten` | an ackable chunk has a timer, microtask, task or send under way (AckIsComing) |
| `AcksAreFinal` | an ACKed chunk never comes back (AckedStaysAcked) |
| `NoLostWakeup` | a waiting writer lacks budget and ACKs are to come, if chunks are smaller than the limit (WaiterIsNeeded) |

*The argument.* None of the properties is inductive. That the reader accepts a chunk depends on
its bytes being counted by the writer too, hence on *where* every chunk is. `IInv`
says so: the wire holds exactly the chunks between the two ends' next sequences, in
order (WireInOrder); every outstanding chunk is in exactly one place, the wire,
unprocessed, processed, or one ACK on its way (EachChunkInOnePlace); each byte counter
is the sum over its place (CountersMatch); and a write task past `writable()` fits
(WriteTaskOK). The reader's count is then at most the writer's, which `writable()` keeps
within the writer's limit, which is at most the reader's. There is a lemma for each
action; `Unmoved` collects the case of the many actions that move no chunk. The byte
sums rest on lemmas about `Bytes` (disjoint union, difference), from the library's
facts about cardinalities. NoAckForgotten, DrainIsComplete, AcksAreFinal and NoLostWakeup each add a
small invariant of their own on top.

*Assumptions.* The ASSUMEs of FlowControl: sizes are positive and at most the reservation,
sequence numbers of a message are consecutive, the writer's limit is at most the reader's
(the channel setup exchanges limits), and `AckSet` as above. TLC evaluates them in every run.

### Both directions of a channel

ChannelProofs proves `AccountsBalance` (EveryChunkAccounted), for every limit and all lists of writes: between
two ends that both write, and whose ACKs share the write queue with their data, every chunk outstanding is on
the wire, at the other end or in an ACK under way, and a promised ACK has a task that sends it. What has
to be added for it to be inductive is only that a write task which is not done has a chunk left (TaskHasChunk).

### Control messages

ChannelProofs, which has ControlMessages as an instance of its own (`Control`), also proves `HandledAsTheyCome`
(HandledInTurn), for control messages of all types and any numbers of chunks: those whose chunks arrive one at a time are handled once,
in order and as they were sent, none is taken for incomplete, and none is marked processed while its handlers run. The invariant says what
`#controlChunks` holds: without a handler under way the chunks that have arrived from the end of
the last message handled, none of them a last chunk and all of one type (`Gathering`); with one, the
message of the event, and nothing of the next has arrived (`Dispatching`). Types hold without that care.

### Channel requests

ChannelRequestProofs is about both transports' records of a name, for any number of requests and closes and any limits.

| Theorem | Says |
|---|---|
| `NeverUnexpected` | no message of careful applications names a channel that its receiver does not know, and no response is unexpected; all states are type correct (NothingUnexpected) |
| `OpensTogether` | when nothing is on its way, handled or pending, both ends have the channel open or neither, under the same ids and with the limits that each believes of the other (OpenTogether) |

*The argument.* An end that gets a message knows what it is about because of what the sender could have sent,
hence because of what *both* channels were and all that is on its way between them. `IInv` has types first (`TInv`), which need
no care. With careful applications it adds, for both ends, a `View` in three layers, each stated of the two channels,
queues and records as parameters, so that the steps of either end use the same lemmas from both sides.
`Pair` is about the kinds of messages: what those of an end say of its channel and of the other's
(`Tells`), that what has been sent is on its way until received (`Delivers`), and that one request of
an end is under way at a time, is answered once, and comes to an end that has no channel or will have none when it has
received what comes before (`Asks`). `Named` is about ids: both ends have the same of a name, those of
acceptances on their way counted, except that an end whose record is nulled may be ahead of the other, which then has
its chanClosed to come. `Granted` is about limits: what was asked for is what the pending request says, what was
granted is what the acceptor has, and what each believes is what the other has. With nothing on its way, the second and third
layers are OpenTogether. The formulas of IInv held in TLC on 2.3 million states, with four
requests and two closes, before they were proved.

*Assumptions.* LimitsAssumption and BoundsAssumption: limits are natural numbers (0, no limit, included), and so are the bounds.

### Closing

ChannelCloseProofs is about the handshake, for any number of writes, any length of messages, any
limit, any number of calls of `close()` with or without discard, and a loss at either end:

| Theorem | Says |
|---|---|
| `NothingElseIsLate` | whatever finds its channel gone is the echo of a switch to discard mode (OnlyEchoIsLate) |
| `Implements` | every behaviour of the handshake is one of Closure under the mapping `Promise` (ImplementsClosure) |
| `ClosingLosesNothing` | Closure itself keeps what its name says: no step it allows lets a closed end have lost anything |
| `NothingLost` | hence: when an end is closed, nobody can write any more, and all that was written has been processed (or thrown away by a remote in discard mode) |

*The argument.* Each of three parts of `IInv` needs the others. Accounts: what an end has outstanding is on its
way, at the other end or in an ACK, and an end past its drain has nothing and sends nothing. Handshake:
chanClosed is once in an end's queue, on the wire or with the reader; it comes from an end that
has finished; the state says which of the two have been. OnlyEchoIsLate follows from these, as a data
message or an ACK on the wire is outstanding at an end that thus has not finished. Chunks on a wire are counted by a
function on the queue's positions, with lemmas for appending, taking the head and discarding (CatFacts, HeadCounts).
In the step simulation, an action is a stutter of Closure unless it writes, lowers the count of what is pending, changes the
status of an end, or sends chanClosed. ClosingLosesNothing uses nothing but Closure's actions: an end that has finished
has left "open" with nothing pending, and can neither write nor reopen.

### Byte transport

ByteTransportProofs proves, for every size of ring, every set of reservations and
message shapes, every batching parameter, every number of tasks, either kind of
connection, a loss, a `stop()` and an end of the other transport at any step:

| Theorem | Says |
|---|---|
| `RoomIsThere` | who waited for room, or found it at once, has it when it commits: 'Insufficient pre-reservation' is never thrown (ReservationsHold) |
| `NothingLeftBehind` | until the connection is lost, committed bytes of a transport that is on have a running writer or a timer; and when `stop()` has waited for an empty ring, all that was committed when it was called has been written (NothingStranded) |
| `BothBuffersWhole` | the ring holds what is committed between its heads and zeroes elsewhere; and as long as the reader's end has not stopped, what lies between writer and reader is the messages sent and not delivered, with no byte missing, twice there or out of order (BuffersAreWhole) |
| `DeliversInOrder` | what the other end makes of the bytes is always a prefix of what was sent, message by message, each whole or torn by one gap where it wrapped: the transport implements MessageStream (DeliversStream) |

*The argument for room.* `afterWrite` wakes a waiter, which commits in a later step, so the room has to be still there
then. The invariant `IInv` says why: the ring counts what it holds (RingOK) and the writer works on
some of it (WriterOK); who is in the slot really waits, and for what it needs (SlotOK); the
handshake is over before tasks run, and tasks run one at a time (InTurn); so nobody commits between a waking and what was
promised (RoomIsKept), and releasing only adds room. Whether `stop()` is in the slot, or took it, does not matter here: it
commits nothing, and who was robbed is not woken. The parts of actions that several share (`ScheduleWrite`,
`CommitMessage`, `AfterWrite`) have lemmas of their own.

*The argument for bytes.* `SInv` follows the bytes. The cells between the heads hold bytes and the others are zero (Holds).
What the writer still has to write is all or the second part of what lies there around the ring's end (ViewsOK). Take
the header that was read, the input buffer, the wire, and what is in the ring and not
written, one behind the other (`All`): each of these bytes is followed by the next byte of the
same message, or by the first of the next one; the first of them begins the first message not delivered, and unless
the connection was lost or the writer failed the last of them ends the last message sent (StreamOK). The reader waits for exactly what
is missing of the message it is at (ReaderOK). So committing extends this stream, writing and arriving move bytes
within it, a loss cuts off its end, and delivering takes the next message from its head. All this is claimed of a reader whose end has not stopped; afterwards it delivers nothing any more.
What a place carries is told by `Encoded`: each message that was committed is whole or torn once (CarriedOK), and a delivered message is the image
of its places. That a stream in which each byte
is followed by the next *begins* with a whole message is an induction over positions; where the provers cannot use
the induction theorem, the lemma StreamHead takes the least position that fails instead (LeastFacts, from the library's
theorem that the order of the naturals is well-founded). TLC checks the bytes as well.

*The argument for the drain.* `DInv` says that when `stop()` has seen an empty ring, what is in it was committed after
`stop()` was called, so it belongs to a message behind `stopAt`. An empty ring is all zeroes (by Holds); what comes later has a number above `stopAt`; and releasing
only zeroes. No assumption about who shares the slot is needed.

*Assumptions.* The ring has a size, lines and reservations are positive, reservations fit in it, and so do both lines of the handshake
together, a header has at least the two bytes from which the reader learns its kind and length, characters have at least one byte, and the zero of a cleared cell is not one of the bytes, which
are numbered by message and position (SizeAssumption, BytesAssumption). That a message is no longer than what was
reserved for it is a guard of the action (the code computes the reservation from the longest encoding), and so is that the gap has room in it.

### Buffer pool

BufferPoolProofs proves two theorems, for any size classes, marks, requests and users. `NeverTwice`: `#manageLevels` never
runs twice at once and has no timer pending after `stop()` (OneManager); its invariant adds that a
run which awaits its turn still has the fired timer in `#timer`, which is what keeps `#schedule` from starting another.
`NeverLeftovers`: nobody is handed a buffer with another's data in it, and no buffer is in two places (NoLeftovers). Its
invariant `PInv` says of each size that clean, dirty and lent buffers are apart and only the last two may be written to.
Which sizes a request is served from is a choice of the smallest that will do; MinFacts shows that there is one.

### Transport life cycle

TransportLifecycleProofs is about both ends and everything that may go wrong, for any number of calls of `stop()` and any number of
requests for the channel; the properties name the kinds of trouble they do not survive.

| Theorem | Says |
|---|---|
| `Typed` | type correctness, and that `#tccReader` never meets a part of the handshake, and a `stop()` that waits has a promise to wait for (TypeOK) |
| `OverForGood` | stopped and disconnected are for good (TerminalStays) |
| `NoneOutlives` | an end that is stopped or disconnected has no channel that is open or closing (NoChannelOutlives) |
| `StopTogether` | an end is stopped only when the other has sent tranStopped and all there was to write on its channel (StoppedTogether) |

*The argument.* The invariant has layers, each inductive given those before it. Handshake: before an end reads messages it has
none, and what comes to it is the configuration, the mark and then messages. Quiet: the kinds of trouble that are about the
handshake or the last bytes have no channel. Lives: at each end at most one `stop()` is under way, in a state that goes with
where it is; here TerminalStays and the disconnected half of NoChannelOutlives come from. ChannelInv: what
the channels of both ends and the messages on their way say of each other, above all that what
has been sent is on its way until it is received, and that one request is under way at a time; it is stated of the two channels, queues
and states as parameters (`Pair`), so that the steps of either end use the same lemmas from both sides. Parts: an end that has been told
tranStopped has a peer that is on its way out. EndInv: of two ends that leave, one has no channel;
an end that leaves and is told has nothing left to write and will find chanClosed before tranStopped.
The last two are why the end that stops second has no short cut.

*Assumptions.* Only that the kinds of trouble are the named ones and the bounds are natural numbers
(TroublesAssumption, BoundsAssumption).

### Message types

MessageTypesProofs is about both ends and everything MessageTypes has in it, for any names, any arguments of `addMessageTypes`,
any number of requests, messages and reads, and losses at any time.

| Theorem | Says |
|---|---|
| `IdsUnambiguous` | a request is in one place and awaited while it is anywhere; an id stands for one name, at the ends and in responses on their way; a name has at most one id of each end (Places, Ids) |
| `EndsAgree` | the same, and when the messages are through careful ends have the same ids of a type in the same order (IdsAgree) |
| `IsFaultless` | type correctness; `addRoleId` never throws; and for careful applications `#readSync` finds the chain of every chunk (NoFaults) |
| `ReadsAreServed` | for careful applications no read keeps waiting for a message that has arrived (NoReadWaitsInVain) |
| `TypesInOrder` | they read the messages of a type in the order written, under the name written (ReadsInOrder) |
| `NullMeansClosed` | and `read()` returns null to them only when the channel was closed (NullMeansClosedIfCareful) |

*The argument.* `Inv` has six layers, each shown to be kept by every action given those before it. Shapes: types. Places:
of an end that is asked for a name, the request is on the wire, in one handler, or answered on the way back, in one of these and once;
while it is, the other end awaits it. Ids: that an id stands for a name is a `Fact` as long as an end or an acceptance on its way says so;
two names never share an id, an end assigns a name at most one, below its next id, and it has none for what it is still asked
for or has refused, which is why the id a response brings is the first of its end and can be added. These three hold for all applications.
For careful ones, Agree: what an end assigned has reached the other or is on its way. It is less
obvious than it sounds: an end whose registration is rejected forgets the id it had assigned when the other asked. The invariant says
(`LostIsPending`, `Reminds`) that while it has not got it back it awaits another response, which will tell it, since the
acceptance that carries the id is ahead of every request that could ask for it. Stored: every message that is on its way or has arrived is under
the smallest id of its type, no other id of that type can come up any more, the reader is told of the id before the message comes,
and all are in the order written. So a response never relabels a chunk that has arrived, and what `#settleMessageType` remaps
is not in use: the relabelling is there for careless writers. Reading: a reader waits under every id of its type, only on an open channel and while nothing
for it has arrived, and one that was woken has its message still there. TLC held the formulas of `Inv` true on the
instance of the run and on one with a single name and four requests, before they were proved.

*Assumptions.* NamesAssumption, RegistrationsAssumption and BoundsAssumption: the mark for an unfiltered read is not a name, the arguments
of `addMessageTypes` are sets of names, and the bounds are natural numbers.

### What is only model-checked

* *Liveness* (EverythingSettles, EveryChunkProcessed, EveryMessageRead, CloseCompletes, RequestsSettle, StopSettles,
  AllSettles, LevelsRestored): fairness and ENABLED are out of the prover's reach.
* *AckExchange's* EncodingExact and EarliestFirst: they are facts about folds over sequences, for which one needs induction over
  data. FlowControl's theorems hold for every encoding with what EncodingExact says of it.
* *WaitsForWaiterOnly* of Duplex says where a write may be blocked for good, which is a liveness property.

## 5. Where the code and its documents disagree

**The echo of a switch to discard mode can stop the transport** (run
`channel_close_echo`). The comment in `close()` says the echo has no further effect; when the
record is nulled before it comes, `#onChannelClose` takes it for a protocol violation.

The following were met while modelling. They are in the models (the properties are stated
for the other behaviours, and say so); they have no run of their own. The first four
contradict what a document says.

* *Writes may hang after a disconnect.* `ChannelFlowControl.stop()` rejects the one writer waiting at
  that moment. A write task between two chunks, or queued behind it, calls `writable()`
  afterwards and is never settled; disconnected-transport.md says that all pending
  writes reject. EverythingSettles of FlowControl is stated for connections that last.
* *ACKs can be starved by data writes.* If both ends wait in `writable()`, the ACK task of each
  is queued behind its waiting write; requirements-v2.md says the piggy-backing "ensures ACKs
  are not starved". WaitsForWaiterOnly says that this is the only way.
* *A signal can be given another signal's text.* The chunks are cleared only when the handlers are done; a
  signal that arrives before is appended. HandledInTurn is stated for control messages one at a time.
* *The ends can believe different limits.* When both request a channel at once, an end that accepts takes the local
  limit from `accept()` or the transport's default; its remote takes it from that end's own
  request. A remote may then send more than the end allows, and have the channel closed for it.
  FlowControl's assumption about the limits holds for careful applications only (OpenTogether).

Of channels:

* `writable()` waits when the bytes fit exactly (`>` at channel-flow-control.esm.js:516),
  and a chunk as large as the limit waits for ever; WaiterIsNeeded is stated accordingly.
* When signals overlap, chunks of one are marked processed while its handlers still run
  (README.md of the project, "awaited before the message is marked as processed");
  HandledInTurn is stated for the behaviours without overlap.
* `close({discard: true})` in LOCAL_CLOSING does not tell the remote: a remote whose
  application does not read stays open. CloseCompletes allows for unread input at an
  end that is not itself in discard mode.
* A `close()` past its `beforeClosing` event at a disconnect calls `allWritesAcked()`
  after `stop()`, and its own promise (not the shared one) may never settle.
* A low-water mark below what an incomplete message may occupy can stop dechunked reads: its
  chunks hold back the ACKs of those read before, which the writer needs to complete it. The assumption
  about the mark in section 3 is there for that.
* `requestChannel()` while the name is closing sends a request, although
  channel-close-architecture.md says it throws StateError; the channel may then be open at one end only.
* A rejected reopening never settles: a response that finds a record, be it a nulled
  one, leaves the promise alone (base.esm.js:652-657).
* A closed handler that waits lets `nullChannel` overwrite a channel that was opened again meanwhile.

Of message types and reading (MessageTypes):

* `#readSync` compares `candidate.sequence` (channel.esm.js:757), which the descriptors do not have: a read with
  a filter of several types takes the first type of the filter, not the oldest message.
* A read can end with null on a channel that is not closed: the chunk is stored under the
  active id, the reader woken with the id that came in (channel.esm.js:976; the project's
  README.md:509 says null means closed). NullMeansClosedIfCareful is about careful applications.
* A filtered read that began before its type had settled is registered under its own id only, and misses
  messages under the other; one that begins while an unfiltered read waits loses its message to it, and
  a filtered read of a type nobody has registered is registered nowhere. None of these ends before the channel does.
* When a request names several types and a handler is slow, data written after the response may overtake it.
* If several names are requested again after a rejection, the ends' sets of ids may differ.
* `read()` of a closed channel without data never ends.

Of the life of a transport (TransportLifecycle), by the kinds of trouble:

* *accept*: a newChannel handler that accepts after `stop()` closed all channels leaves an open channel in a stopped
  transport (the project's README.md:395 says all channels are closed first).
* *handler*: a handler that awaits `stop()` holds up `#tccReader`, which `stop()` needs (base.esm.js:522).
* *timeout*: `stop()` with a timeout leaves STOPPING and no promise; the next `stop()` returns undefined
  at once (base.esm.js:985, requirements-v2.md:882).
* *early*: ACTIVE overwrites the STOPPING of a `stop()` called before the handshake is over.
* *text*: when a handler of outOfBandData takes its time, `onRemoteReady` makes a transport ACTIVE that has ended meanwhile.
* *sending*: `stop()` writes REMOTE_STOPPING over DISCONNECTED when the connection is lost while it sends `tranStopped` (base.esm.js:1009).
* *draining*: a disconnect while `#finalizeStop` drains returns before `stopped` resolves (base.esm.js:321).
* *starting*: a disconnect before the handshake is over leaves `start()` pending.
* A remote that gives up while this end is in REMOTE_STOPPING is not noticed: the end of input is ignored there
  (pipe.esm.js:144, websocket.esm.js:130), and `stop()` waits for a `tranStopped` that does not come (WaitsInVain).

Of byte transports and the pool:

* *Text is torn where the ring wraps.* A character of several bytes that does not fit before the ring's end is encoded behind it
  (virtual-buffer.esm.js:413-441); the 1 to 3 bytes in between stay zero and are not counted in `written`, so
  that `shrink(written)` (channel.esm.js:1168) cuts the text's last bytes off. The tests use ASCII, where this does not happen.
  MessageStream allows for such a gap, and for nothing else.
* *The slot has one place.* `stop()` drains the ring through the slot for reservations, outside the write queue
  (byte.esm.js:230): a task that comes takes the slot from it, or loses it to it, and who
  lost it waits for ever. AllSettles allows for it, of the one that was robbed and the tasks behind it.
* What tasks commit after `stop()` has seen an empty ring is left in it when the writer closes. NothingStranded and AllSettles promise
  only what was committed before `stop()`.
* *The reader's own `stop()`.* It wakes `#byteReader` with false whatever the other end still sends
  (byte.esm.js:236). The reader does not look at what `#readable(totalHeaderSize)` returned (byte.esm.js:350): in the middle of a header it goes on, the
  decoder finds the buffer too small and throws (protocol.esm.js:264, 304), and the promise of `#byteReader`, which nobody awaits, rejects. In the
  loop for lines, with input that needs no waiting, it leaves the loop and calls `onRemoteReady()` (byte.esm.js:337), as in *text* above.
* After a write error `#writing` stays true (pipe.esm.js:90): a later task that finds the ring full waits for ever.
* A size of the pool may be managed once more after `stop()`, if the run was awaiting its turn; this does no harm.

## 6. What is not modelled

* **VirtualBuffer, header layouts, promise tracer**: data structures and diagnostics
  without interleaving; unit tests reach them.
* **Archived sources** (`archive/src/`, over a quarter of the JavaScript lines): an earlier version that
  nothing imports and that does not run with the present one.
* **Concrete transports**: pipe and WebSocket are in ByteTransport (writing, loss) and TransportLifecycle (ends of input), the
  sending side of worker ports in Duplex. The handshake of worker ports and NestedTransport (a transport over
  a channel) are not modelled: the latter would compose TransportLifecycle with itself, beyond TLC's reach at two ends each.
  The I/O objects are outside the repository; the models assume a reliable FIFO that may be cut.
* **Reading**: read timeouts, chunk-wise reading, `readSync` called by the application.
* **Logging channels** (the console-content channel): requests like any other channel's, without state of their own.
* **Dishonest remotes**: the checks of `received()` and `clearWriteAckInfo()` are
  modelled, to show that honest ends never trip them. What an
  end does with a remote that breaks the protocol is not.
* **Contents**: text encoding, message text and headers, except where a property is about them (the gap in a text, which is in OutputRing).
* **BufferPool's users**: a buffer released twice, one of another pool or of a size that is no class, and `clear()`; users of the model give back what they
  were lent, once.
* Timer durations: a timer fires at any time after it is set.
* In ChannelClose: the budget and write queue of the TCC itself, ACKs blocked behind writes
  (Duplex), and the reopening of a nulled channel (ChannelRequest).
* In ChannelRequest: the stop of the transport that a violation starts, chunk limits,
  other names (they share only the counter of ids), and the drain (ChannelClose).
* In MessageTypes: the drain and the handshake of closing; flow control of the messages.
* In TransportLifecycle: the bytes (ByteTransport), the data of the channel, and the closing handshake's discard mode (ChannelClose).
* In ByteTransport: the contents of a header other than its length; counters that wrap at 2^32; lines that are neither the configuration nor
  the start of messages (TransportLifecycle has one); the reading end's own output. When its `stop()` has drained that is not known here, so it wakes the reader at
  any time after it stopped.

## 7. Plan

Done, in this order: FlowControl with its proofs; AckRanges and AckExchange; Duplex;
ControlMessages; DechunkedRead; Closure and ChannelClose; ChannelRequest;
MessageTypes; TransportLifecycle; ByteTransport with its proofs; BufferPool with its proofs; then the proofs of
Duplex, ControlMessages, ChannelClose, TransportLifecycle and ChannelRequest, of the bytes of ByteTransport and the buffers of BufferPool, and of MessageTypes.

| Next module | Composes / abstracts | Questions | Theorems worth proving |
|---|---|---|---|
| ChannelRead | filtered readers, timeouts, chunk-wise reading; would extend DechunkedRead | each chunk is delivered once, in order of arrival within a filter, with a timeout racing its wakeup | - |
