# libcurvecpr-asio in TLA+

TLA+ models of libcurvecpr-asio, the Boost.Asio binding of libcurvecpr: the
CurveCP session with its buffers, timers and life cycle, the client's connect,
the server's accept, the I/O operations on their strands, one direction of a
connection between two sessions, and the two example programs on a connection.
TLC checks the models on small instances, and TLAPS proves theorems about all
of them for every instance.

Paths are relative to `src/libcurvecpr-asio/include/curvecp/detail/`;
`session.ipp`, `client_stream.ipp` and `acceptor.ipp` are in its `impl/`.  `examples/` is
`src/libcurvecpr-asio/examples/`.

## The system

| Part | State | Operations | Talks to |
|---|---|---|---|
| Session, sending half (`session.ipp`) | the ring `pending_` with `pending_used_`, `pending_current_`, `pending_next_`; `pending_eof_`; `sendq_head_`; `sendmarkq_` | `write()`, `handle_sendq_*`, `handle_sendmarkq_*` | called by the application's write operations and by libcurvecpr's messager; wakes writers through `pending_ready_write_` |
| Session, receiving half | `recvmarkq_` with the status of each block, `recvmarkq_distributed_`, `recvmarkq_read_offset_` | `read()`, `handle_recvmarkq_*` | as above; wakes readers through `pending_ready_read_`; writes the messager's `their_contiguous_sent_bytes` |
| Session, life cycle | `running_`, `pending_close_`, the send queue timer, the close timer, three `pending_ready_*` timers | `start()`, `handle_process_send_queue()`, `close()`, `do_close()`, `lower_receive()` | the strand, the messager's final flags, the close handler of the layer below |
| Client stream (`client_stream.ipp`, `connect_op.hpp`) | `hello_retries_`, `hello_timed_out_`, the socket and its receive chain | `connect()`, `handle_hello_timeout()`, `handle_lower_read()` | starts the session, wakes the connect operation |
| Acceptor (`acceptor.ipp`, `accept_op.hpp`) | `sessions_`, `pending_sessions_`, the mutex, `lower_recv_endpoint_`, the endpoint of each session | `accept()`, `handle_put_session()`, `handle_get_session()`, `handle_lower_read()`, `handle_send()`, `handle_session_close()` | creates and starts sessions, is called by their close handlers |
| I/O operations (`io.hpp`, `read_op.hpp`, `write_op.hpp`, `close_op.hpp`) | an operation and whether it is finished | call, suspend, retry, call the handler | the session, in its strand |
| Examples (`examples/simple_example.cpp`, `examples/simple_server.cpp`) | the client's limit and `received_data_`; the server's buffer | connect, read and write loops, close; accept, echo, close at the end | the streams |
| Wrappers (`stream.hpp`, `acceptor.hpp`, `server_stream.*`) | none | forward | the parts above |
| libcurvecpr | messager, packet processors, congestion control, cryptography | | external |

All session code runs in the session strand, so one call of it is one atomic
step.  What makes the code hard is what happens between the steps:

- An operation that cannot complete waits on a timer that never expires;
  whoever changes the state cancels the timer to have it retried.  A wake-up may
  come too early, and a retried operation may find a third state.
- Cancelling a timer does nothing to a handler that is ready already.
- The first call of `connect()` and of `accept()` runs outside the strand.
- A block is cut, stamped with its offset, sent, sent again, and forgotten on an
  acknowledgment at five different times; a received block is stored, read in
  parts, acknowledged and deleted in several orders.
- Packets are lost, repeated and reordered.
- `close()`, the peer's EOF and the close timer race each other.
- A packet that was handed to the strand is processed later, also after the
  session finished.
- An operation is moved between the initiating function, the strand, its timer
  and `post()`, and the application's handler starts the next one.

What makes each part correct:

- *Sending half*: the ring never loses, repeats or displaces a byte; a block
  carries the stream's bytes at its offset; the EOF mark is on the last block
  only; writers are woken.
- *Receiving half*: an acknowledged byte is kept until it is read; the count of
  contiguous bytes is true; EOF is read after the last byte; readers are woken.
- *Life cycle*: a running session keeps its send queue timer; one that finishes
  in order throws nothing away; `close()` completes.
- *Connection*: the two halves are a stream of bytes over a bad network, and
  every byte arrives.
- *Client*: a connect is refused only after all hello packets, and completes;
  receives go on; an established connection keeps its socket.
- *Acceptor*: each session is accepted once and in order, is found under its key
  until it finishes, its packets go where the client is, and waiting acceptors
  are notified.
- *Operations*: no wake-up comes between an operation's look at the session and
  its suspension, each result goes to one handler, handlers do not nest ever
  deeper, and every operation completes.
- *Examples*: the server reads the client's whole stream before the client
  finishes in order, and both ends finish.

`PROJECT.json` lists the hazards of the code at their lines, with the properties
that are about them.

## The modules

| Module | Models |
|---|---|
| `SessionSend` | the sending half |
| `SessionSendProofs` | its inductive invariant and theorems |
| `SessionReceive` | the receiving half, a `read()` being one step |
| `ReadLoop`, `MCReadLoop` | the same with the loop of `read()` step by step, which refines `SessionReceive`; and its instance for TLC |
| `SessionReceiveProofs` | the inductive invariants of both, their theorems, and the refinement |
| `ByteStream` | the abstract stream of bytes |
| `Transfer` | `SessionSend` and `SessionReceive` with a network between them; refines `ByteStream` |
| `TransferProofs` | its inductive invariant, made of both halves', and the refinement |
| `SessionLife` | the life cycle of a session with its timers and operations |
| `SessionLifeProofs` | its inductive invariant and theorems |
| `Example` | the two example programs, each on an instance of `SessionLife` |
| `ExampleProofs` | its inductive invariant and theorems, from those of `SessionLife` |
| `ClientConnect` | a client stream that connects |
| `ClientConnectProofs` | its inductive invariant and theorems |
| `Acceptor` | the acceptor and accept operations |
| `AcceptorProofs` | its inductive invariant and theorems |
| `IoOp` | the operations of a stream on strands and threads |
| `IoOpProofs` | its inductive invariant and theorems |

Definitions keep the names of the code where they stand for one thing of it:
`pending_used` is `pending_used_`, `SendqHead` is `handle_sendq_head()`.
`PROJECT.json` maps each definition to its lines.  Definitions marked `Mutant`
are wrong on purpose: a property is worth having when replacing a definition by
its mutant violates it.

### SessionSend

A byte is its position in the application's stream, so the ring and the blocks
show a byte that is lost, repeated or in the wrong place.  `Write` is one call
of `write()`, `RetryWrite` the retry of a suspended one; `SendqHead` cuts a
block; `SendHead` is the messager sending it for the first time, and `Resend`
again; `RemoveRanges` is an acknowledgment.

`sendmarkq_` is a multiset ordered by the time of last transmission.  A
retransmitted block already has its new clock when
`handle_sendq_move_to_sendmarkq()` looks it up by clock, so the lookup goes to
the right at every node of the tree and meets the block, which is the first
node, only when that is the root.  `by_node` is the order of the nodes,
`by_clock` what it would be if it were sorted; `first_is_root` is chosen freely
where it depends on how the tree is balanced.

Assumed of the messager: it asks `handle_sendq_is_empty()` before
`handle_sendq_head()`, so that no block is cut from an empty queue, or after the
EOF was sent; it stamps the offset and a clock that is later than
all others on a block before the callback, sends the head of the queue again,
and sets `my_eof` when it has sent a block with the EOF mark.

### SessionReceive and ReadLoop

`recvmarkq` is a set of entries; equal entries are told apart by a number.
`TryRead` says what one call of `read()` does in terms of bytes and sets: how
far the stored bytes reach, which entries are passed, which are deleted.
`ReadLoop` runs the loop of the code (`session.ipp:212-264`) instead: `StartRead`
sets `loop`, each `Visit` is one iteration, at a node that none comes before in
the order of the multiset, and `FinishRead` is what the caller sees.  Its
`ReadIsAtomic` says that it implements `SessionReceive`: an iteration is a
stutter, `FinishRead` is `Read`.  Other handlers wait meanwhile, since `read()` is
one call in the strand.  `SendAck` is the messager building a
packet: the first range reaches from the start of the stream over what is known
to be contiguous, further ranges are those of single blocks.

### Transfer

`S == INSTANCE SessionSend` and `R == INSTANCE SessionReceive` share the length
of the stream.  A packet that is sent is in `net` (or `acks`) as long as it may
still arrive, once or more; one that is lost never gets there.  `StreamSpec`
is `ByteStream!Spec` under the mapping `ended <- pending_eof` of the writer,
`eof <- eof_delivered`, with `written` and `delivered` mapped to themselves.

### SessionLife

The session is a record, and each member function an operator from records to
records, since they call each other; one with several outcomes is a set.  The
buffers are numbers here.  A timer waits, or its handler is ready, and may be
both, as the send queue timer can be armed while a handler of it is ready.

`packets` are those handed to the strand and not yet processed, or ready at the
client's socket: data, the peer's EOF, an acknowledgment of ours, and the
cookie, which starts a session of type `"client"`.  They are processed at any
later time.  A client's datagram with a block that has no room may be refused by
libcurvecpr, and then starts nothing.  The history variable `late` says that some were left when the
session finished; that is what `FinishedStaysFinished` excepts.

### Example

`C == INSTANCE SessionLife` and `S == INSTANCE SessionLife` are the sessions of
the client and of the server; the programs call their operators, and the
network moves blocks, EOFs and acknowledgments between them.  The client writes
and reads in two loops and closes when it has read enough; the server accepts,
then reads and writes back in turns, and closes when an operation reports the
end.  `undelivered` counts what the client's session took and the server's
application has not read.  A behaviour ends when the client's close timer
expires, as its session no longer takes part then.

### ClientConnect

The application's `connect()` runs outside the strand, next to the handlers of
the timer and of the socket.  `HelloLimit` is the number of hello packets, 5 in
the code.  Three history variables name the holes of the code that the
properties except: `missed` is the wake-up that comes between `connect()` and
the suspension of the operation; `closed` says that the application called
`close()`, which while connecting wakes nobody, and afterwards may start a
second receive chain or stop the first; `raced` says that the hello timer's
handler was ready when the cookie came, or a datagram's when the last timeout
closed the socket.

### Acceptor

`SingleThread` says whether the application and the handlers share one thread;
if not, a handler may run between `accept()` and the suspension of the accept
operation.  An Initiate packet may arrive late, after its session was closed,
as a repeated packet may.  A session that finishes calls its close handler
once, or twice when a close operation waited for that: it is retried, finds the
session not running, and calls the handler again.

A client may send from any of the `Endpoints`.  `lower_recv` is the datagram in
the socket's buffer with `lower_recv_endpoint_`, `handling` the one that
`handle_lower_read()` is at; `SetEndpoint` is the end of the
handler: after the packet was handled, and before the next receive is started,
it sets the endpoint of the datagram's session (`acceptor.ipp:107-120`), all
under `mutex_`.  `SendsTo` is where `handle_send()`
sends.

### IoOp

A thread has a stack of calls, each of which is one `io_op` at the begin of its
call operator, before `async_pending_wait()`, or in the application's handler;
`strand` says that the call holds the strand, `start` that the initiating
function made it.  What an operation wants is a unit that `Put` provides.
`dispatch()` runs the operation in the same thread when the strand is free and
the thread is one of the `io_service`, and queues it otherwise.

## The runs

Runs that pass:

| Run | Shows | Bounds |
|---|---|---|
| `SessionSend.cfg` | types, `RingInOrder`, `BlocksInOrder`, `EofIsLast`, `NoLostWriterWakeup`; with fairness `WritesComplete`, `EofIsSent` | ring of 3, blocks of 2, 7 bytes: the ring wraps around twice, its size is not a multiple of a block's, and a write of 3 waits for two blocks; a write of 4 is larger than the ring and waits for ever, which `WritesComplete` excepts |
| `ReadLoop.cfg` | types, `AckedIsKept`, `ContiguousIsReceived`, `EofAfterData`, `NoLostReaderWakeup`, and `ReadIsAtomic`, that `ReadLoop` implements `SessionReceive` | 3 bytes cut in two ways so that blocks overlap, EOF with and without bytes, 3 entries, buffers of 1, 2 and 3: smaller and larger than a block, so that a read ends inside one, at its end, and over several |
| `Transfer.cfg` | `NoByteLost`, `StreamSpec` | 2 bytes, then an EOF block, which may come alone; queues of 2: packets pass each other |
| `TransferLive.cfg` | `BytesArrive` | 2 bytes; three blocks in flight, the EOF's without bytes among them, so that `sendmarkq_` gets out of order; room for one at the receiver, which forces refusals, retransmissions and a jam |
| `SessionLife.cfg` | types, `SendQueueAlive`, `ReadBeforeFinished`, `FinishedStaysFinished`, and `GracefulLosesNothing`: a session that finishes in order has an empty ring and, unless `close()` was called, nothing unread; with fairness `CloseCompletes` | both types of session, 2 writes, 2 blocks, 2 ready handlers, packets of every kind |
| `Example.cfg` | `GracefulMeansDelivered`, `ClientEndsFirst`; with fairness `ServerFinishes` | 2 writes in a ring, the other bounds 1: the client writes without end, so that its ring fills, blocks wait for room at the server, and reads and writes of both sides suspend themselves |
| `ClientConnect.cfg` | `ReceiveChainAlive`, `RunningKeepsSocket`, `RefusedAfterAllHellos`; with fairness `ConnectCompletes` | the code's 5 hello packets |
| `Acceptor.cfg` | types, `AcceptedInOrder`, `StoredUntilFinished`, `PacketsFollowClient`, `WaitingAcceptorsNotified`; with fairness `SessionsTaken` | 2 accept operations, 3 keys, 2 endpoints, 3 sessions, a queue of 2, which overflows; a key is used by two sessions one after the other |
| `IoOp.cfg` | types, `NoLostWakeup`, `TakenOnce`, `HandlersNest`; with fairness `OperationsComplete` | 3 operations on 3 threads, 4 starts and 4 units: one operation is started again from a handler inside another |

Runs that find a disagreement between the code and what it says of itself; the
quoted lines are in `PROJECT.json` under `findings`:

| Run | Violated | What happens |
|---|---|---|
| `SessionSendOrder.cfg` | `SortedByClock` | with three blocks in flight a retransmitted block is not found and keeps its place, so the same block is sent again next time |
| `TransferEof.cfg` | `EofIsKept` | an EOF block without bytes is removed by the acknowledgment of the bytes before it; when it was lost, the peer never learns of the EOF |
| `AcceptorThreads.cfg` | `WaitingAcceptorsNotified` | on several threads an acceptor may wait while a session is pending |

Two more disagreements are in the models and have no run of their own:

- `session.hpp:126` and `:278` call `recvmarkq_maximum_` the maximum number of
  *unacknowledged* received blocks.  The code refuses a block when `recvmarkq_`
  has that many nodes, those included that are acknowledged and not yet read
  (`session.ipp:470`), so a slow reader makes it refuse blocks although none is
  unacknowledged.  `RecvmarkqIsFull` is the code's condition, and `TypeOK` of
  `SessionReceive` bounds all nodes; it does not say that a block is refused
  only at the documented limit.
- `io.hpp:62-63` says that an operation called directly has "to defer the
  invocation of the handler".  One that is started outside of the strand and
  dispatched at once is run as a copy with `start = false` (`io.hpp:54`,
  `DispatchNow`), so its handler runs inside the initiating function.
  `HandlersNest` bounds how often that happens at a time.

The models also have behaviours that no document or comment of the code
contradicts, so that no run states them; the exceptions in the properties are
there for them:

- A ready handler of the send queue timer arms the timer of a session again
  after `do_close()`.
- A read that `do_close()` woke finds `pending_eof_` reset and suspends itself
  again, for ever.
- After `do_close()` a write stores bytes that nobody sends, until the ring is
  full, and then waits for ever; so does a write larger than `pending_maximum_`
  at any time (`session.ipp:283`).
- A read that is suspended when `close()` is called is not woken by the blocks
  that come afterwards (`session.ipp:485`), until the session ends.
- A datagram that is ready when a client's session finishes starts it again,
  and a packet waiting for the strand is stored in a session that finished.
- A hello timeout that is ready when the cookie arrives goes on: it sends hello
  packets on an established connection, and at last closes its socket.
- A datagram with the cookie that is ready when the last timeout closes the
  socket connects a session without a socket.
- A connect operation misses the wake-up that comes before it waits, and one
  whose stream is closed while it connects is not woken at all.
- The second call of a close handler erases a newer session that has the same
  key (`acceptor.ipp:133`).
- What a session sends while a datagram from a new address is being handled
  goes to the address before.
- The examples' read handlers leave the bytes of a read that reports the end
  aside (`examples/simple_example.cpp`, `examples/simple_server.cpp`).
- An accepted session is never freed, as its send handler owns it
  (`acceptor.ipp:150`); no model has memory.

`CHECK_DEADLOCK FALSE` is in every configuration because the systems really
stop: the stream has been transferred, the session is closed, the operation is
complete.

`BytesArrive` excepts one state, `Jammed`: `recvmarkq_` is full of blocks behind
a gap, so the block that fills the gap is refused however often it is sent.  It
is a real limit of the code (`session.ipp:470`), not of the model.

## Fairness

- `SessionSend`, `Transfer`: while the session runs, its send queue timer is
  armed (`SessionLife`'s `SendQueueAlive`), so the messager gets its turns: it
  cuts, sends and retransmits blocks (`WF` of the first two; `SF` of a
  retransmission that is not lost, since a network that loses every copy
  delivers nothing).  The receiver stores a block that keeps arriving (`SF`),
  acknowledges what it has, and its application reads.  No packet arrives for
  ever (`WF` of `Forget`).
- `SessionLife`: timers expire and ready handlers run, as threads run the
  `io_service`.  Nothing is assumed of the application or the peer, so
  `CloseCompletes` relies on the close timer.
- `Example`: the same of both sessions, and the server's application closes
  when it has to.  Nothing is assumed of the network.
- `ClientConnect`: the application's call runs to its end, the timer expires,
  ready handlers run.  Nothing is assumed of the network.
- `Acceptor`: the application's call and `handle_lower_read()` run to their ends
  (`WF`).  `SF` of an accept operation's retry, because
  the strand runs its handlers in the order they came in, so no other operation
  overtakes it for ever.
- `IoOp`: a thread goes on with what it runs, the application's handlers return,
  and the threads of the `io_service` take what is ready.

## The proofs

There is a module of theorems for each component.  The argument is the same
everywhere: the run's invariants follow from an inductive one, which has a
lemma for every action, or for every member function where these call each
other.

### The sending half

`SessionSendProofs` proves the five invariants of `SessionSend.cfg` for all
values of the constants that satisfy `SendAssumption`: positive capacities of
ring, block and `sendmarkq_`, any stream length, any positive write sizes.

None of them is inductive alone.  `SendInv` adds:

- `Conservation`: what was written is what was sent, plus the head block, plus
  the ring.  It ties the history `written` to the code's counters, and gives
  the offset that a block cut now will be stamped with later.
- `RingShape`: `pending_next` is `pending_current` advanced by `pending_used`,
  in the code's arithmetic, where a position may equal the capacity.
- `HeadInOrder`: the head block holds the bytes after those sent, although its
  offset is set later, and its EOF mark means an empty ring.
- `EofSentWithBlock` and `WriterInStream`, which link the messager's flag to the
  blocks, and a suspended write to the bytes left to write.

The step that matters is `StoreSendInv`: a write that fits changes only slots
that no byte of the ring is in.  It rests on three lemmas about `Advance` and
`SlotAfter` (advancing twice is advancing once; the slots of different bytes
are different).  The theorems `TypeCorrect`, `RingSafe`, `SentInOrder`,
`EofSafe` and `WriterWoken` follow from `SendInvariant`.

### The receiving half

`SessionReceiveProofs` proves the five invariants and the refinement of
`ReadLoop.cfg` for
all values of the constants that satisfy `ReceiveAssumption`: any set of blocks
that lie in the stream, cut in any way and overlapping as they like, as long as
an EOF mark is on a block that ends where the stream ends; any positive maximum
of `recvmarkq_` and sizes of buffers.

`RecvInv` adds three facts:

- `DistributedIsRead`: a node marked distributed ends within the bytes that the
  application has.  An acknowledgment deletes such nodes only, so it deletes no
  byte that is still to be read.
- `EofIsRead`: `pending_eof_` stands for the end of the stream unless `close()`
  set it.  Blocks that arrive afterwards count as distributed at once, which is
  right because of this.
- `recvmarkq` is finite, which its bound on `Cardinality` needs.

`TryReadRecvInv` is the step that matters: the nodes a read passes end within
what it distributes, so deleting them loses nothing, and a read that is not
done stops at a byte that is not stored.  An EOF mark at that place would have
been passed: otherwise a node before it would hold the byte.  `ReplacingFits`
and `FreeCopyIsFree` give the bound on `recvmarkq`, by surjections between
finite sets.  Both deleting steps keep the bytes of the nodes they do not
delete (`BytesKept`).

The theorems `ReceiveTypeCorrect`, `AckedSafe`, `ContiguousSafe`,
`EofOnlyAtEnd` and `ReaderWoken` follow from `ReceiveInvariant`.

`LoopImplementsRead` proves `LoopSpec => ReadIsAtomic`.  The invariant of the
loop, `LoopOk`, says after any number of iterations:

- `Distributes`: the buffer has taken the stored bytes from where the loop
  began, without a gap, and no more than it has room for;
- `Passes`: the nodes that were passed end within these bytes, no node ahead
  begins before one of them, and the EOF flag and the messager's count are what
  the passed nodes say;
- `Continued`, while the loop goes on: it is where it began, or at the end of a
  node that was passed;
- `Over`, once the loop is done: the buffer is full, or the next byte is not
  stored, and the nodes not passed are those that `SessionReceive` does not pass.

`Over` needs the order of the multiset: a node behind a gap ends the loop, so
all nodes ahead of it have to lie behind the gap as well (`GapAhead`).  The
loop visits equal nodes in any order.  `RoomLeft` is about the state between two
calls: a suspended read has filled less than its buffer.  `LoopKeepsPromises` carries the five
invariants over to `ReadLoop`.

`SessionReceive` states how far a read gets by conditions on the result;
`OneOutcome` proves that at most one number satisfies them, so that the
refinement leaves the loop no freedom that the code does not have.
`TransferProofs` is about connections in which a read is one step, so it takes
`SessionReceiveProofs` with no loop under way.

### The connection

`TransferProofs` needs the two halves' invariants of the state, not only their
theorems, since a step of the connection is a step of a half only in what it
does to that half.  `TransferInv` is both, with what links them: a block that
is sent, on its way or stored was cut from the stream, and ends it if it has an
EOF mark (`Travels`); the reader has nothing that was not sent (`ReadWasSent`);
and an acknowledgment on its way names bytes the receiver acknowledged
(`AcksAreTrue`).  `NothingLost` follows for all values that satisfy
`TransferAssumption`, however the network loses, repeats and reorders.

`Refinement` proves `Spec => StreamSpec`: the initial states are mapped to
initial ones; a write, an EOF and a read are steps of `ByteStream`, and every
other action leaves its variables alone.  The read is the step that uses the
invariants: it delivers the bytes after those delivered before, and the EOF
after the last.

### The life of a session

`LifeInv` is `Sound`, which also holds in the middle of a member function, with
`Alive` and `Quiet`, which hold between handlers.  The parts are:

- `Alive`, the send queue timer or a ready handler of it: each function that
  cancels the timer ends in one that arms it;
- `EofOrder`: our EOF follows `close()` or the EOF that was read, and its
  acknowledgment follows it; so a session that finishes in order without
  `close()` has read the EOF (`ReadFirst`);
- `TimerIsForClose`: only `close()` arms the close timer;
- `Quiet`: nothing moves in a finished session that had no packets left.

`Drained` is a second invariant on top of `LifeInv`: an EOF comes last.  When ours
has been sent the ring is empty, and stays so because `write()` stores nothing
once `pending_eof_` is set; when the peer's has been read, so has all that came
before it.  `NothingDiscarded` follows, since a session finishes in order only
with both of them settled.

There is a lemma for every member function, as the actions share them.  The
limits of the buffers are any positive numbers.

`EventsHaveCauses` is about steps: no step undoes what has happened (`Forward`),
and none does anything without its cause (`Caused`): an EOF is read only after
one was stored and everything before it was read, one is stored only if it came
in a packet, our own is sent only after `close()` or the peer's was read, and the
socket is closed only by the end of the session or by `close()` of a session
that does not run.  A composition of sessions gets from these facts what it
needs to know of a step, without the definitions of the member functions.

### The examples

`ExampleProofs` takes the two sessions from `SessionLifeProofs`, once with
`session <- client` and once with `session <- server`: a step of the programs is a
step of one session, so it keeps that session's invariant and obeys `Forward`,
`Caused` and three facts about what a session sends and stores (`Sends`,
`Stores`, `Internal`).  `ExampleInv` is what the ends say of each other:

- `EofsAreTrue`: an EOF that arrived was sent, the client's with all its bytes
  before it, and `EofIsLast`: nothing arrives at the server after it;
- `ClientBegins` and `ServerAnswers`: the client's EOF follows its `close()`, and
  the server closes, or ends, only when it has read that EOF;
- `NoChunkLost`: what the server has not read is in the client's ring, on the
  way, in the server's strand or in its `recvmarkq_`, counted once;
- `ReadToTheEnd` and `EndsAfterServer`: so nothing is left when the server has
  read the EOF, and the client's session does not end before that unless its
  close timer expires, where the behaviours of `Example` end.

`Delivered`, `ClientCloses` and `ChunksAccounted` follow for all sizes of rings
and queues, bounds on the network and limits of the client that satisfy
`ExampleAssumption`.

### The client

`ConnectInv` says nothing but types of a closed session.  Until then: an
operation that is ready to be retried was woken by its result
(`WokenByResult`), so that no retry sends a hello packet or starts a second
receive; the timer is not armed next to a ready handler of it, and not at all
after the refusal, or after the cookie unless `raced` (`OneTimeout`); and the
count in `hello_retries_` is at most the hello packets sent (`Counted`).

### The acceptor

`AcceptorInv` holds for any set of keys, endpoints and accept operations:

- `LiveIsStored` and `LiveWithNewer`: a session that has not finished is stored,
  and no newer one has its key, unless an earlier one with that key has closed;
- `Numbered`: `accepted` followed by `pending_sessions` are the numbers of the
  sessions in order;
- `EndpointsHeard`: a session's endpoint is the one it was last heard from;
- `NobodyMisses`, on a single thread: while a session is pending, no operation
  waits, or has called `accept()` and is about to wait.

`AcceptorsNotified` assumes `SingleThread`; `AcceptorThreads.cfg` shows that it
has to.

### The operations

`IoInv` holds for any threads and any finite set of operations:

- `StackOk`: a thread has at most three calls on its stack, only the innermost
  of which is not a handler, and a handler inside another holds the strand.
  `HandlersBounded` follows;
- `Performed` and `Queued`: an operation is in one place;
- `WaitInStrand`: an operation that is about to suspend itself holds the strand
  and has found nothing.  `Put` is a handler of the strand, too, so
  `NoLostWakeup` is kept by both.

`OperationsExistOnce` proves `TypeOK`, which counts for each operation the calls
that perform it and its places in the queue.  `IoInv` says that there is at most
one; `Placed`, a second invariant on top of it, that there is one: an operation
that runs is on top of some thread's stack, and one that is queued is in the
queue, whichever call, retry or handler moved it there.

### What is only checked

TLC alone checks the liveness properties, `WritesComplete`, `EofIsSent`,
`BytesArrive`, `CloseCompletes`, `ServerFinishes`, `ConnectCompletes`,
`SessionsTaken` and `OperationsComplete`: they rest on fairness, and so on
`ENABLED`, of which TLAPS proves nothing here.  The three runs that expect a
violation are counterexamples and have nothing to prove.  Every other property
of a run is stated by a theorem.

## Not modelled

- libcurvecpr: cryptography, the handshake's packets, congestion control, the
  contents of packets.  What is assumed of it is marked external in the map.
- Configuration (keys, extensions, nonce generators, `bind()`), which nothing
  changes once a stream is open, the rest of the wrappers, which forward calls
  and keep no state, and the build.
- Operations on no bytes, and two reads or two writes of a stream at a time:
  the two reads share `recvmarkq_read_offset_` and mix their bytes.
- Memory: who owns a session.
- The server's further connections in `Example`, which run the same code.

## Plan

The modules were written in the order of what the library promises most: the
two halves of a session, a connection of them, the life cycle, connect and
accept, the operations, and an application on top.  What is left:

1. Both directions of a connection at the level of `Transfer`, with the bytes of
   both; `Example` has them as counts.
2. Abstract specifications that the acceptor and the operations implement, as
   `ByteStream` is for a connection: a queue of sessions, each taken once, and a
   set of operations, each of which completes once with a unit that was there.
3. Liveness stays with TLC, as do recursive definitions: both are out of
   TLAPS' reach.
