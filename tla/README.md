# Verification of net-model-bench

TLA+ models of the concurrent parts of net-model-bench, the TLC instances that
check them and TLAPS proofs about them. The repository compares network models
for block transfer; its own core is `pkg/iorpc`, a multiplexing RPC library
derived from gorpc, and `pkg/net/jnet`, a batching transport. `PROJECT.json`
maps every definition to the lines it models and lists runs, mutants, findings,
hazards and theorems.

## Inventory

| Component | State | Operations | What is hard | Correct when |
|---|---|---|---|---|
| iorpc client (`pkg/iorpc/client.go`) | `requestsChan`; per connection a pending map, msgID, flush timer; `pendingRequestsCount` | Start, Stop, Call, CallAsync, Send, Cancel; goroutines clientHandler, clientWriter, clientReader | four kinds of goroutines complete AsyncResults; eviction in three selects; IDs wrap; connections die | each AsyncResult is completed once, with the right outcome; Stop returns; buffered requests are sent |
| Batch and `asyncResultPool` (same file) | ops of a batch, pooled AsyncResults | Add, AddSkipResponse, CallTimeout | recycled objects, timeout against late responses, failure in mid-batch | no object is recycled in use; results are settled once; CallTimeout returns |
| iorpc server (`pkg/iorpc/server.go`) | listener, `workersCh`, `serverMessagePool`, `responsesChan` per connection | Start, Stop; goroutines serverHandler, serverHandleConnection, serverReader, serveRequest, serverWriter | handlers end out of order and outlive connections and Stop; early release of messages | responses match requests; tokens match handlers; Stop returns |
| ring buffer (`pkg/iorpc/buffer.go`) | start, size, buf | Read, TrySlice, Write, Reset | wrap-around and growth | it is a queue of bytes |
| wire codec (`pkg/iorpc/encoding.go`) | the encoder's header buffer, the decoder's ring buffer | EncodeRequest/Response, Flush, DecodeRequest/Response | partial reads, bodies that bypass the buffer, bodies without reader, growth of the buffer | decode inverts encode; the decoder ends with the connection |
| body (`pkg/iorpc/body*.go`) | pipe pairs | spliceTo, PipeConn, PipeFile | end of stream, offsets | the bytes of the body, all of them |
| dispatcher, transport, statistics (`pkg/iorpc`) | a table, counters | dispatch, dial/listen | - | - |
| jnet (`pkg/net/jnet`) | `reqCH`, `inflightBatches`, `respCH`, worker pool, object pools | Get; submitWorker and recvWorker on both sides; WorkerPool.Submit/WorkFunc | batches cut anew by both sides, answers out of order, recycled responses, counted body buffers | every Get gets its own response, once |
| tcppool, tcpsendfile, gonet, quic (`pkg/net`) | a channel of idle connections; gonet: a pool of slices | Get, Close; a serve loop per connection | connections after an error, batches, announced lengths, a server that dies | a pooled connection owes nothing; a Get returns its own block; every Get returns |
| perf (`pkg/net`) | a connection | an endless stream | - | - |
| iorpc, gorpc, grpc services (`pkg/net`) | none | Get | calls into libraries | - |
| rdma (`lib`) | queue pairs, completion queue | socket handshake, post, poll | two-sided handshake | both sides reach ready |
| rpcbench, fuseexpr, datagen, utils, common | flags, test data, reference counts | - | `BodyBuffer`'s count | - |

Interactions: `pkg/net/iorpc` calls an iorpc client, whose requests reach an
iorpc server over one `net.Conn` per client handler. Callers and connections
meet only in `requestsChan`; writer, reader and handler of a connection share
its pending map and end each other through `stopChan`, `writerDone` and
`readerDone`. On the server the reader starts a goroutine per request under a
token of `workersCh`, and the goroutine passes its `serverMessage` on to the
writer through `responsesChan`. jnet shares one worker pool and one tick channel
among all connections of a process. tcppool, tcpsendfile, gonet and quic are
variations of one design: rpcbench's threads take a connection from a channel or
dial one, write a request, read the response and put the connection back.

## Modules

| Module | Models |
|---|---|
| `IORPCClient` | the client: callers, writer, reader and handler per connection, Start and Stop |
| `RpcCall` | what the client promises to a caller; `IORPCClient` implements it |
| `IORPCClientProofs`, `IORPCClientSafetyProofs` | theorems about `IORPCClient`; the second extends the first |
| `Batch` | Batch.CallTimeout and the life of pooled AsyncResults |
| `IORPCServer` | the server |
| `RingBuffer`, `ByteQueue` | ringBuffer, and the queue it implements |
| `WireCodec` | messageEncoder, messageDecoder and the stream between them; uses `RingBuffer` |
| `JNet` | both sides of jnet and the worker pool |
| `ConnPool` | clients and servers of tcppool, tcpsendfile, gonet and quic under rpcbench's threads |
| `BatchProofs`, `IORPCServerProofs`, `RingBufferProofs`, `WireCodecProofs`, `JNetProofs`, `ConnPoolProofs` | theorems about those modules; `WireCodecProofs` takes what it needs to know of the ring from `RingBufferProofs` |
| `MC...` | values and symmetry for TLC |

Conventions. One action is one step of one goroutine between two points where
another can interfere: a channel operation, a section under a lock, an atomic
add. A `select` with a default is one action per case. Variables keep the
source's names; `...pc`, `w`, `r`, `h`, `s`, `rd`, `wr`, `b` say where a
goroutine is. Definitions that begin with a comment "Mutant" are deliberately
wrong variants that no specification uses; each shows that some property can
fail. Bounds are constants named `Max...`.

**IORPCClient.** An AsyncResult is the call it was made for. `hand` is the local
variable `m` (or `mm`) of each goroutine. `callAsync` is `Submit`, `Evict`,
`DropEvicted`, `Retry`. The writer is `WriterTake`/`WriterPoll`/`WriterStops`/
`WriterFlush` (its selects) and `WriterCanceled`, `WriterNoResponse`,
`WriterRegister`, `WriterCount`, `WriterEncode`; registering and counting are
separate because the counter is changed outside the lock. The reader is
`ReaderLookup` and `ReaderComplete`. `pending` is a function on the IDs, and IDs
wrap at `IDSpace`. `link` is the connection: after it broke, written bytes
may vanish unnoticed and responses already on the way can still be read. The
server answers requests on the wire in any order; `Rogue` IDs are answers nobody
asked for. When the peer ends the connection within a body, the reader may stay in
PipeConn's loop (body.go:98) instead of failing: `ReaderSpins`. The handler then
waits for `readerDone`, and Stop for the handler, forever. `stranded` is what `Start` leaves behind in the old `requestsChan`.

**Batch.** AsyncResult objects have an identity, so that a recycled one can be
seen through an old reference. Connections shrink to one writer and a set
`pending` completed in any order; the details of that part are `IORPCClient`'s.
A new object may be any one nobody refers to, since a `sync.Pool` may forget
what it holds.

**IORPCServer.** Requests carry a connection and an ID (0: no response). Every
`Start` has a `workersCh` of its own. `ReaderSpins` is the reader of a request
whose body is cut off by the end of the connection, as in the client. A serverMessage dropped for the garbage
collector joins the pool, because the pool makes new ones on demand.

**RingBuffer.** Byte values are kept, `io` records what went in or came out. A
Go slice expression out of range is the state `panicked`.

**JNet.** Batches travel as sequences; `stale` counts pooled responses that still
have an error code. A batch ends at a tick, or when full, or when its payload is
large; the last two of the server are part of `FlushResponses`, which may happen
at any time. I/O errors panic in the code, so connections do not fail here.

**WireCodec.** One direction of a connection. The stream is a sequence of cells:
a start line is one, each byte of a header, error or body is one. Both variants
of encoder and decoder are one definition, since a request is a response without
an error. `EncodedHeaders` is what the encoder leaves in its buffer, with zeros
for a start line that went to the array the buffer had before it grew
(`LosesLine`); `lost` remembers those. `Encode(m, n)` writes a message of whose
body n bytes are sent. The decoder is `ReadLine`, `ReadError`, `CopyHeader` (a
`Write` of the ring buffer for each piece), `SliceHeader` (its `TrySlice`) and
`ReadBody`; it is in state "garbage" once it takes other bytes for a start line.
`PipeConnSpins` is the loop that PipeConn never leaves at the end of the stream.

**ConnPool.** `mode` selects the transport, once per behaviour. What the clients
share is stated once: `TakePooled`, `PoolEmpty`, `Lock`, `Dial` are getConn,
`Put` is the end of withConn, `WriteRequest` to `ResponseRead` the function it
calls; `Get` says how a transport's version differs. The map names one of the
copies of such code, where possible a different one for each definition. A
connection has two bounded buffers. The servers' loops differ in how they
answer: `TcppoolHandle`, `QuicHandle`, `React`, `SendfileHandle`; the last is the
server in its default mode. A thread that has stopped keeps its connection, as
the code does. `Hangs` names the two situations in which a Get never returns.

## Runs

| Run | Instance | Shows |
|---|---|---|
| `client_core` | a Call, a CallAsync and a Send; one connection, queue of 1, two IDs, two Starts, one break | ownership, no lost call, counter, IDs, flush timer, final results, refinement of RpcCall |
| `client_liveness` | a Call and a CallAsync, one break, a rogue ID | Stop returns and pending calls end unless a reader spins, requests are flushed, canceled ones are not sent |
| `server` | one connection, three requests (one without response), two handlers, `responsesChan` of 1, two Starts, one failure | message ownership, matching responses, tokens across restarts, Stop returns unless a reader spins, workers leave |
| `ring_buffer` | capacity 3 growing to 5, chunks of up to 2 bytes of two values | refinement of ByteQueue |
| `batch` | two ops (one skips the response) and a Call, queue of 1, four objects | pool safety, final results, CallTimeout returns |
| `codec` | four messages of five kinds (headers; headers, body and offset; error; error and headers; body announced and not sent), buffers of 5 cells | the decoder returns what was encoded, drains its buffer and ends with the connection |
| `connpool` | four transports, two threads, pool of 1, batches of 2, a valid and an invalid command, three connections, one failure, socket buffers of 1 | pooled connections are clean, Gets return their blocks, connections are bounded, Gets return |
| `jnet` | three Gets on two connections, channels of 1, batches of 2, one invalid command | right response, batch entries, worker pool, error codes, every Get returns |

Bounds. The queue of one makes every third call meet a full queue, so that
eviction, its races and overflow all happen. `LeakFactor = 0` and two IDs bring
the leak limit and the wrap-around within reach of two pending requests. One
break and two Starts are the shortest histories with a reconnect and a restart;
calls outnumber queue places and IDs. A responsesChan of one with two handlers
makes workers wait. Several connections of one client are not instantiated:
`SingleOwner`, the property they would endanger, is proved for any number. In the
ring buffer three bytes are the least for which
contents can start in the middle, wrap and leave room. In jnet two Gets of one
connection make one full batch or two, and the third competes for the workers.
For the codec a buffer of five cells is filled by two messages, so that flushes,
growth, wrap-around of the decoder's buffer and its panic are all reached; four
messages allow two after any such event. In the pool one place for two threads
makes connections be closed as well as reused, and three connections let a new
one be dialed while an old one is still being left by the server. Blocks of
different lengths are needed for gonet's recycled slices.

Runs switch the deadlock check off where the system really stops: `ring_buffer`
after a panic, `codec` when the connection has ended, `connpool` when the client
has closed, `jnet` where only the environment could go on (a client without
further Gets).

Fairness. Weak fairness of each goroutine: the Go scheduler is fair to runnable
goroutines, an armed timer fires, a Dial and a handler return. Clients, servers
at the other end, networks and applications get none: no response, Cancel, call
or Stop has to happen. A server's Write into an open connection need not return,
since a client may stop reading. `HandlerStops` has a fairness of its own because
a dialing handler could otherwise dial and fail forever next to a closed
`clientStopChan`: select chooses among ready cases at random. jnet's ticks go on
forever, and goroutines waiting for one are served in the order in which they
came. In `ConnPool` getConn's lock is strongly fair: a `sync.Mutex` hands itself
to a goroutine that has waited long enough. In `WireCodec` only the decoder is
fair; nothing has to be sent.

### Runs that show a disagreement

| Run | Comment or test | Code |
|---|---|---|
| `client_stop` | Call "Returns non-nil error if the response cannot be obtained" (client.go:189) | calls pending at Stop return nil and an empty response (client.go:746) |
| `server_flush` | "The maximum delay between response flushes to clients." (server.go:69) | responses without body are never flushed by themselves (server.go:462) |
| `batch_canceled` | "ErrCanceled may be returned from rpc call if AsyncResult.Cancel has been called." (client.go:634) | a Call nobody canceled returns it: `canceled` survives recycling (client.go:252, 575) |
| `ring_buffer_wrap` | TestWriteInCapacity (buffer_test.go:36) | a write that fits panics if the contents wrap (buffer.go:164) |

One more is not a run of its own: CallTimeout also guarantees "that all
<-BatchResult.Done channels are unblocked" (client.go:540), but returns without
touching them when the queue refuses an op (client.go:553). `BatchDoneUnblocked`
checks the guarantee for every other way to return. Three further ones are stated
as exceptions of a property that otherwise holds. A start line can be lost
(encoding.go:132), an error and headers of one response are cut at the wrong place
(encoding.go:200 and 335), and a body without Reader is announced (encoding.go:147):
`DecodedAsEncoded` covers what precedes the first and the last and compares the
bytes of the second as a whole. PipeConn spins at the end of a stream (body.go:98)
and gonet announces an error message it does not send (gonet/server.go:211):
`DecoderEnds` and `GetTerminates` allow these two. The first is also the one
exception of `StopTerminates` (client and server) and `PendingCompleted`: while a
reader spins, Stop may never return (client.go:735, server.go:314) and the
connection's pending calls end by their timeouts only. Finally a server that is
stopped and started again accepts on the listener that Stop closed (server.go:170),
although it "can be started again" (server.go:185); the model of `Start` shows it,
and no property is stated about it.

## Proofs

Every theorem holds for all sets of calls, connections, requests, Gets, messages
and workers and for all sizes that satisfy the named assumptions of the module it
is about; TLC evaluates the assumptions in every run. They say that constants
have their types and that markers such as nil are no ordinary value (for the
codec: `NoMessage` is no message). Five say
more. `ConnsAssumption`: the client's connections are finitely many, needed to
count map entries. `RingAssumption`: the initial capacity is at most the bound of
growth. `NilAssumption` of `JNet`: nil is no response. `JNetAssumption`: there
are at least as many worker entries as Gets (the pool starts a goroutine when none
is ready, and the model's `Entries` must not run out of them), and a batch may have
two requests. `BatchFits` of `ConnPool`: the requests of a batch that the server has
not taken fit into the socket's buffer, since otherwise client and server may both
wait to write.

**IORPCClientProofs**

- `Types`: `Spec => []TypeOK`. TypeOK alone is not inductive: a writer in state
  "have" must hold a call, not nil, for its next step to be typed. `TypeInv` adds
  `Phases`, which says for every program counter what the goroutine's hand holds.
- `OneOwner`: `Spec => []SingleOwner`, the absence of double closes. `SingleOwner`
  counts owners in a set built from four kinds of places; `Exclusive` says the
  same place by place: a call in the queue is in no hand, map or second position
  and not closed (`QueueAlone`), likewise for a goroutine that owns it
  (`HandAlone`) and for a map entry (`PendingAlone`), Done was closed at most once
  (`ClosedOnce`), and a call that has not been pushed yet is nowhere
  (`FreshNowhere`). The last one is needed for the induction: only because of it
  is a push of a caller's own call a first push. Each action moves at most one
  call from one place to another, so the proof has a lemma per kind of move
  (`Stay`, `Enqueue`, `Take`, `CloseHeld`, `Register`, `Lookup`, `CloseEntry`) and
  one step per action that cites the lemma it is an instance of.

**IORPCClientSafetyProofs**

- `FlushIsArmed` (`FlushArmed`): by `FlushInv`, which covers every state of the
  writer, not only those in which it waits.
- `NothingLost` (`NoLostCall`): every step is shown to be a `PlaceStep` of every
  call: a call that leaves one place arrives at another, is completed, or is
  left behind by Start.
- `DoneStaysFinal` (`DoneIsFinal`): a step that completes a call needs an owner
  of it, which by `Exclusive` a completed one does not have.
- `Refinement` (`ImplementsRpcCall`): each step is shown to be a step of `RpcCall`
  or none that a caller sees. The invariant `SafetyInv` adds to the ones above
  `RespondInv` (only requests with a Done channel wait for a response) and
  `CallInv` (a call that is in any place was accepted, and outcome and Done go
  together).
- `ResponsesMatch` (`ResponseMatchesRequest`) and `CountIsRight` (`CountMatches`)
  assume `Rogue = {}`: the server answers only requests it received. With a
  rogue ID both are false, since clientReader frees the entry of a request that
  is still being written. `WireInv` says that IDs in use on the wire are pending
  for the call they were given to; `CountInv` that the counter is off the number
  of entries by the goroutines between map and counter.
- `CanceledStaysHome` (`CanceledInQueueNotSent`, an action property): the writer
  looks at `canceled` once, after it took a call (client.go:791), so a call
  canceled in the queue could only be sent if it came back to the queue after that
  check. `PastInv` says that a call behind the check (in the writer's hand, in its
  buffer or on the wire) is neither in requestsChan nor about to be pushed.

**IORPCServerProofs**

- `ServerTypes` (`TypeOK`) and `TokensOfWorkers` (`TokensMatchWorkers`) in one
  induction, `ServerInv`: that a count of tokens stays a natural number needs the
  goroutine that gives one back to be among those counted.
- `MessagesHeldOnce` (`MessageHeldOnce`): `HeldInv` takes the one holder apart
  into pool, readers, workers and queues, each of which excludes the others.
- `ResponsesAnswer` (`ResponseAnswersRequest`): `RouteInv` follows a request from
  the connection through the serverMessage to the response and keeps connection
  and ID together; it rests on `HeldInv`, since a message with two holders could
  change under a worker. `OnceInv` says that a request is at one stage at a time,
  which makes responses distinct.

**RingBufferProofs**

- `RingTypes` (`TypeOK`) and `RingIsQueue` (`ImplementsByteQueue`): the contents
  are `Ring(b, s, n)`, n cells of b from position s on. Positions stay below twice
  the capacity, so each modulo is a subtraction at most once (`ModSmall`,
  `ModOnce`); lemmas state what taking from the front (`RingDrop`, `TakeIsFront`),
  appending (`CopyAppends`) and moving to a larger array (`PiecesAreContents`) do
  to the contents, one step lemma per operation applies them. `TrySliceTakes` and
  `WriteStep` say the same of single calls, for the decoder that makes them.

**WireCodecProofs**

- `CodecTypes` (`CodecTypeOK`) and `HeadersAreDrained` (`HeaderBufferDrained`) come
  from `CodecInv`: the contents of the decoder's ring are the part of the header
  that `got` has, while headers are copied, and nothing at any other time. What a
  write and a read do to the contents are the lemmas of `RingBufferProofs`; that
  the ring inside the codec satisfies their assumptions is `RingFits`.
- `MessagesAreDecoded` (`DecodedAsEncoded`): `DecodeInv` says that there is a
  function `cut` from messages to positions of the unread stream (wire, then the
  encoder's buffer) such that message i lies between cut[i - 1] and cut[i], its
  cells numbered in order (`LaidInv`); that the decoder has begun no more messages
  than were sent (`Counted`); and that, while it is in step, it stands at the start
  of a message or inside the next one and has read exactly the bytes before that
  position (`Aligned`). `Counted` holds out of step too, since only a start line's
  cell is taken for a start line. Encode appends a message to the layout
  (`LaidExtend`), a read shifts it (`LaidShift`), and there is one lemma per action
  that applies them. No induction over the stream is needed: the layout is a
  hypothesis about every message at once.

**JNetProofs**

- `JNetTypes` (`TypeOK`) with `Books` (what inflightBatches may hold) and `Phases`
  (no empty batch is flushed, and who waits at `ent.ch <- req` has a request).
- `WorkersFree` (`ReadyMeansFree`) is inductive with the types.
- `ResponsesToRequesters` (`ResponseToRequester`) and `InflightIsExact`
  (`InflightExact`): `RouteInv` says that there is a function from Gets to stages
  (reqCH, requests, c2s, ..., got) that agrees with all queues at once, so that
  a request is in one place only; that batch ID and index of every request and
  response lead to its own Get (`InBook`); that no Get is in two batches
  (`BookIn`); and that `left` counts the requests without an answer (`LeftIn`).
  Each action moves the requests of one connection from one stage to the next;
  a lemma per action names the new function. The last answer of a batch is the
  delicate step: `CountDownIn` shows that the entry recvWorker deletes is needed
  by nobody, for all other requests of the batch have their answers.
- `ErrorsHaveCause` (`ErrorsNeedInvalid`): while no invalid command was submitted
  no response anywhere and no object in respPool has an error (`CleanInv`); that
  a worker's request is not an invalid one follows from `RouteInv`.

**BatchProofs**

- `BatchTypes` (`TypeOK`), `PoolIsUnused` (`PooledUnused`), `DoneIsUnblocked`
  (`BatchDoneUnblocked`) and `ResultsFinal` (`BatchResultFinal`, an action
  property) come from one inductive invariant, `BatchInv`. `PoolInv`, about the
  objects: each is in the channel once, with the writer or in one map
  (`PlacesApart`); what the client holds is neither recycled nor completed
  (`HeldLive`); what a caller waits for carries its request (`WaiterOwns`); between
  the two selects of callAsync the caller alone has the object (`CallerOwns`), so
  that giving up there may release it. `OpsInv`, about the batch: an op is added
  once and CallTimeout takes the ops in order (`AddedOnce`, `InOrder`), and exactly
  the Done channels of those before the current one are closed (`ClosedBefore`).
  The last one makes the result final: whoever settles a result is at an op whose
  channel is still open. `PooledUnused` says that nothing refers to a recycled
  object but `results` of a running CallTimeout, for ops that skip the response:
  nobody waits for those, the client recycles them as soon as they are sent, and the
  timer of the batch still cancels them (the run `batch_canceled`). That these
  references end with CallTimeout and are found nowhere else is a second invariant,
  `RefInv`, by induction relative to `BatchInv`.

**ConnPoolProofs**

- `PoolTypesHold` (`TypeOK`): the types need to know what a thread has in each
  state (`Phase`), that a handler writes exactly while it has something to write
  and that a socket without connection has no handler (`Unborn`).
- `ConnsAreBounded` (`ConnsBounded`): `BoundInv` counts the threads that hold a
  connection or are on the way to dialing one, and says that together with the
  pooled connections they are at most as many as there are threads. Passing the
  empty pool is the step that needs the count of threads and not of connections;
  dialing keeps the sum.
- `PooledAreClean` (`PooledClean`) and `GetsReturnTheirBlocks`
  (`GetReturnsItsBlock`): `Apart` and `Dialed` say that a connection has one
  place, conns or one thread, and that a new one is none of those. `FlowInv` says
  what is under way on it: for a Get of k that still expects m responses and has
  read `off` pieces of the first, the pieces that come back, those in the handler's
  hand and the responses to the requests not taken yet are together the rest of m
  responses to k (`Flow`), each piece at its place (`Fits`, by quotient and
  remainder of its number in the stream), as long as the connection is up; on one
  that ended, what has arrived is a part of it. On a pooled connection nothing is
  under way (`Idle`), which is `Flow` for no response: so a returned connection is
  idle because its Get expects nothing more, and an idle one serves any command.
  There is one lemma about `Flow` per kind of step (`FlowRequest`, `FlowReply`,
  `FlowWrite`, `FlowRead`, `FlowNext`, `FlowLost`...) and one per action that
  applies it. For tcpsendfile, requests without a file stay unanswered and may
  stand before the one that counts (`Requests`, `Asked`).

Only model-checked. All invariants, action properties and refinements that
passing runs check are theorems. Liveness under fairness has none, since the
prover has no rule for it: `StopTerminates` of client and server,
`PendingCompleted`, `BufferedRequestsFlushed`, `WorkersLeaveClosedConn`,
`DecoderEnds`, `BatchTerminates`, `EveryGetReturns` and `GetTerminates`. The
properties of the runs that expect a violation are false, so there is nothing to
prove; `ResponsesMatch` and `CountIsRight` are theorems under `Rogue = {}` only.

## Not modelled

Statistics, logging, the dispatcher's table, flags and output of the command-line
programs, the generated gRPC code, the services that only pass calls on, and the
contents of requests and responses beyond what tells them apart. LZ4 and CRC
change neither who sends what nor where a response ends. Timers are
nondeterministic: `acquireTimer`'s pool is left out. Pipe pairs and pooled payload
buffers have no identity, so their leaks and double releases are not shown;
`BodyBuffer` is left out with them. `perf` has no protocol: its server writes an
endless stream and its client counts bytes. `lib/rdma*` is the sequential
example of the libibverbs tutorial, used by no other package, and its state
belongs to the device; `fuseexpr` hands its operations to the kernel. A
composition of client and server over one connection is left out: what would
interact, IDs and the stream, is covered by `ResponseMatchesRequest`,
`ResponseAnswersRequest` and `DecodedAsEncoded`, each against an environment that
may do more than the other side does. `PROJECT.json` notes the reason for each
component and for the hazards without a property.

## Plan

1. done: `IORPCClient`, `RpcCall`, `Batch`, `IORPCServer`, `RingBuffer`, `JNet`,
   `ConnPool`, `WireCodec`.
2. done: all invariants and action properties that passing runs check and both
   refinements, as theorems.
3. Worth adding, as a property first: a client's request is on the wire at most
   once, which `WireInv` should give.
