------------------------------ MODULE ConnPool ------------------------------
(***************************************************************************)
(* The transports of pkg/net that answer one request after the other on a  *)
(* connection: tcppool, gonet, quic and tcpsendfile.  Their clients keep   *)
(* idle connections in a channel.  What the transports do differently has  *)
(* a definition of its own; what they share is stated once.  The callers   *)
(* are threads in a loop of Gets that ends with the first error.           *)
(*                                                                         *)
(* A connection is a bounded sequence of requests in one direction and of  *)
(* pieces of responses in the other.  LZ4 and CRC change neither who sends *)
(* what nor where a response ends, and are left out.                       *)
(***************************************************************************)
EXTENDS Integers, Sequences, FiniteSets, Functions

CONSTANTS
  Transports,   \* the packages to consider; rpcbench offers all but gonet
  NumThreads,   \* threads of the benchmark
  Cons,         \* capacity of conns
  BatchSize,    \* Request.Batch
  Commands,     \* the values of Request.CMD; four bits of it are sent
  Pieces,       \* Pieces[k]: how many pieces the block of command k has
  Sockets,      \* the connections
  NoConn,       \* the nil connection
  SockReqs, SockPieces,  \* what the socket buffers hold in either direction
  MaxFaults     \* bound: failures of Dial, of OpenStream and of connections

Threads == 1 .. NumThreads
Known   == 0 .. 4     \* the commands of the handlers' switch

ASSUME PoolAssumption ==
  /\ Transports \subseteq {"tcppool", "gonet", "quic", "tcpsendfile"}
  /\ NumThreads \in Nat \ {0} /\ Cons \in Nat \ {0} /\ MaxFaults \in Nat
  /\ Commands \subseteq 0 .. 15 /\ Commands # {} /\ Pieces \in [Known -> Nat \ {0}]
  /\ NoConn \notin Sockets /\ SockPieces \in Nat \ {0}

(* The client writes all requests of a batch before it reads a response:   *)
(* those that the server has not taken yet must fit into the buffer.       *)
ASSUME BatchFits == BatchSize \in Nat \ {0} /\ SockReqs \in Nat /\ BatchSize <= SockReqs + 1

VARIABLES
  mode,       \* the transport in use, -mode of rpcbench
  tpc,        \* where a thread is
  cmd,        \* req_.CMD
  tconn,      \* conn
  left,       \* requests of the batch to write, or responses to read
  need, body, \* how many pieces the response has; those that were read
  conns,      \* the channel of idle connections
  open,       \* FALSE after Close
  link,       \* "none", "up", "reset", "eof" (ended by the server) or "closed"
  toServer, toClient,
  faults,
  server,     \* "up" or "crashed"
  hpc, hout,  \* handle: where it is, what it has yet to write
  hbuf, bufs  \* gonet: the length of a response's buffer; those put back

threadVars  == <<tpc, cmd, tconn, left, need, body>>
wireVars    == <<link, toServer, toClient>>
handlerVars == <<server, hpc, hout, hbuf, bufs>>
vars == <<mode, threadVars, conns, open, wireVars, faults, handlerVars>>

(* Pieces on the wire: the header of a response or of an error with the    *)
(* length it announces, a piece of a block, a piece of an error message,   *)
(* what a recycled buffer held before.                                     *)
Cells == {"header", "error", "data", "message", "stale"} \X Nat

AnyCommand == CHOOSE k \in Commands : TRUE

MaxPieces == CHOOSE n \in Range(Pieces) : \A m \in Range(Pieces) : m <= n

TypeOK ==
  /\ mode \in Transports
  /\ tpc \in [Threads -> {"idle", "lock", "dial", "write", "header", "body",
                          "put", "stopped"}]
  /\ cmd \in [Threads -> Commands] /\ tconn \in [Threads -> Sockets \cup {NoConn}]
  /\ left \in [Threads -> 0 .. BatchSize] /\ need \in [Threads -> Nat]
  /\ \A t \in Threads : body[t] \in Seq(Cells) /\ Len(body[t]) <= need[t]
  /\ conns \in Seq(Sockets) /\ Len(conns) <= Cons /\ open \in BOOLEAN
  /\ link \in [Sockets -> {"none", "up", "reset", "eof", "closed"}]
  /\ \A c \in Sockets : /\ toServer[c] \in Seq(0 .. 15) /\ Len(toServer[c]) <= SockReqs + 1
                        /\ toClient[c] \in Seq(Cells) /\ Len(toClient[c]) <= SockPieces
  /\ faults \in 0 .. MaxFaults /\ server \in {"up", "crashed"}
  /\ hpc \in [Sockets -> {"off", "stream", "read", "write"}]
  /\ hout \in [Sockets -> Seq(Cells)] /\ hbuf \in [Sockets -> 0 .. MaxPieces]
  /\ bufs \subseteq 0 .. MaxPieces

Init ==
  /\ mode \in Transports /\ tpc = [t \in Threads |-> "idle"]
  /\ cmd = [t \in Threads |-> AnyCommand]
  /\ tconn = [t \in Threads |-> NoConn] /\ left = [t \in Threads |-> 0]
  /\ need = [t \in Threads |-> 0] /\ body = [t \in Threads |-> <<>>]
  /\ conns = <<>> /\ open = TRUE
  /\ link = [c \in Sockets |-> "none"]
  /\ toServer = [c \in Sockets |-> <<>>] /\ toClient = [c \in Sockets |-> <<>>]
  /\ faults = 0 /\ server = "up"
  /\ hpc = [c \in Sockets |-> "off"] /\ hout = [c \in Sockets |-> <<>>]
  /\ hbuf = [c \in Sockets |-> 0] /\ bufs = {}

-----------------------------------------------------------------------------
(* What is written, and what a Get expects. *)

Block(k) == [i \in 1 .. Pieces[k] |-> <<"data", k>>]

(* Mutant: an error is announced and its message left out. *)
TcppoolResponseBare(k) ==
  IF k \in Known THEN <<<<"header", Pieces[k]>>>> \o Block(k) ELSE <<<<"error", 1>>>>

(* response.Write: a header with the length, then the block; for an error  *)
(* the header is followed by the message.                                  *)
TcppoolResponse(k) ==
  IF k \in Known THEN <<<<"header", Pieces[k]>>>> \o Block(k)
                 ELSE <<<<"error", 1>>, <<"message", k>>>>

QuicResponse(k) ==
  IF k \in Known THEN <<<<"header", Pieces[k]>>>> \o Block(k)
                 ELSE <<<<"error", 1>>, <<"message", k>>>>

(* React cuts the buffer behind the block, and an error has none: its      *)
(* message stays behind.  encode copies no more than the length of the     *)
(* slice from the pool, and what lies behind that stays as it was.         *)
GonetResponse(k, room) ==
  IF k \in Known THEN <<<<"header", Pieces[k]>>>> \o
                      [i \in 1 .. Pieces[k] |-> IF i <= room THEN <<"data", k>> ELSE <<"stale", i>>]
                 ELSE <<<<"error", 1>>>>

(* datagen: 0 for a key it does not know. *)
GetSize(k) == IF k \in Known THEN Pieces[k] ELSE 0

(* What the function passed to withConn does: how many requests it writes, *)
(* and whether the length of a response is read or known beforehand.       *)
(* tcpsendfile reads with PipeConn and, when that fails, once more with    *)
(* io.ReadFull.  A reset connection fails both.  Without a pipe ReadFull   *)
(* takes the same pieces, but fails at the end of the stream, where        *)
(* PipeConn does not: running out of pipes is left out.                    *)
TcppoolGet  == [requests |-> BatchSize, framed |-> TRUE]
GonetGet    == [requests |-> 1, framed |-> TRUE]
QuicGet     == [requests |-> 1, framed |-> TRUE]
SendfileGet == [requests |-> 1, framed |-> FALSE]

Get == CASE mode = "tcppool" -> TcppoolGet
         [] mode = "gonet"   -> GonetGet
         [] mode = "quic"    -> QuicGet
         [] OTHER            -> SendfileGet

-----------------------------------------------------------------------------
(* The client: getConn, withConn and Get. *)

Goto(t, p) == tpc' = [tpc EXCEPT ![t] = p]

(* A Get returns; its local variables end with it. *)
Leave(t, p) ==
  /\ Goto(t, p) /\ cmd' = [cmd EXCEPT ![t] = AnyCommand] /\ left' = [left EXCEPT ![t] = 0]
  /\ need' = [need EXCEPT ![t] = 0] /\ body' = [body EXCEPT ![t] = <<>>]

(* A thread has its connection and goes on to write its requests.  The     *)
(* command matters from here on.                                           *)
Begin(t, c) ==
  /\ \E k \in Commands : cmd' = [cmd EXCEPT ![t] = k]
  /\ tconn' = [tconn EXCEPT ![t] = c] /\ left' = [left EXCEPT ![t] = Get.requests]
  /\ Goto(t, "write")

TakePooled(t) ==
  /\ open /\ tpc[t] = "idle" /\ conns # <<>> /\ Begin(t, Head(conns)) /\ conns' = Tail(conns)
  /\ UNCHANGED <<mode, need, body, open, wireVars, faults, handlerVars>>

(* Mutant: getConn dials without a look at the pool. *)
PoolEmptyUnchecked(t) ==
  /\ open /\ tpc[t] = "idle" /\ Goto(t, "lock")
  /\ UNCHANGED <<mode, cmd, tconn, left, need, body, conns, open, wireVars, faults, handlerVars>>

(* The default of getConn's select. *)
PoolEmpty(t) ==
  /\ open /\ tpc[t] = "idle" /\ conns = <<>> /\ Goto(t, "lock")
  /\ UNCHANGED <<mode, cmd, tconn, left, need, body, conns, open, wireVars, faults, handlerVars>>

(* One connect at a time. *)
Lock(t) ==
  /\ tpc[t] = "lock" /\ \A u \in Threads : tpc[u] # "dial" /\ Goto(t, "dial")
  /\ UNCHANGED <<mode, cmd, tconn, left, need, body, conns, open, wireVars, faults, handlerVars>>

(* A connection that both sides have left has the place of a new one; it   *)
(* does not matter which.                                                  *)
Free == {c \in Sockets : link[c] = "none" \/ (link[c] = "closed" /\ hpc[c] = "off")}
NewConn == CHOOSE c \in Free : TRUE

(* The server accepts and starts handle, which in quic first has to accept *)
(* the stream.                                                             *)
Accept(c, how) ==
  /\ link' = [link EXCEPT ![c] = how]
  /\ hpc' = [hpc EXCEPT ![c] = IF mode = "quic" THEN "stream" ELSE "read"]

Dial(t) ==
  /\ tpc[t] = "dial" /\ server = "up"
  /\ Free # {} /\ Accept(NewConn, "up") /\ Begin(t, NewConn)
  /\ toServer' = [toServer EXCEPT ![NewConn] = <<>>]
  /\ toClient' = [toClient EXCEPT ![NewConn] = <<>>]
  /\ UNCHANGED <<mode, need, body, conns, open, faults, server, hout, hbuf, bufs>>

DialFails(t) ==
  /\ tpc[t] = "dial" /\ Leave(t, "stopped")
  /\ \/ server = "crashed" /\ UNCHANGED faults
     \/ faults < MaxFaults /\ faults' = faults + 1
  /\ UNCHANGED <<mode, tconn, conns, open, wireVars, handlerVars>>

(* quic: the connection is lost between Dial and OpenStream. *)
OpenStreamFails(t) ==
  /\ mode = "quic" /\ tpc[t] = "dial" /\ server = "up" /\ faults < MaxFaults
  /\ Free # {} /\ Accept(NewConn, "reset")
  /\ Leave(t, "stopped") /\ faults' = faults + 1
  /\ UNCHANGED <<mode, tconn, conns, open, toServer, toClient,
                 server, hout, hbuf, bufs>>

(* All requests are written before a response is read.  What is written to *)
(* a connection that the server has ended makes its host reset it.         *)
WriteRequest(t) ==
  LET c == tconn[t]
      done == left[t] = 1
  IN  /\ tpc[t] = "write" /\ link[c] \in {"up", "eof"}
      /\ \/ /\ link[c] = "up" /\ Len(toServer[c]) < SockReqs /\ UNCHANGED link
            /\ toServer' = [toServer EXCEPT ![c] = Append(@, cmd[t])]
         \/ link[c] = "eof" /\ link' = [link EXCEPT ![c] = "reset"] /\ UNCHANGED toServer
      /\ left' = [left EXCEPT ![t] = IF done THEN Get.requests ELSE @ - 1]
      /\ Goto(t, IF ~done THEN "write" ELSE IF Get.framed THEN "header" ELSE "body")
      /\ need' = [need EXCEPT ![t] = IF Get.framed THEN 0 ELSE GetSize(cmd[t])]
      /\ body' = [body EXCEPT ![t] = <<>>]
      /\ UNCHANGED <<mode, cmd, tconn, conns, open, toClient, faults, handlerVars>>

Consume(c) == toClient[c] # <<>> /\ toClient' = [toClient EXCEPT ![c] = Tail(@)]

ReadHeader(t) ==
  /\ tpc[t] = "header" /\ Consume(tconn[t]) /\ Goto(t, "body")
  /\ need' = [need EXCEPT ![t] = Head(toClient[tconn[t]])[2]] /\ body' = [body EXCEPT ![t] = <<>>]
  /\ UNCHANGED <<mode, cmd, tconn, left, conns, open, link, toServer, faults, handlerVars>>

ReadPiece(t) ==
  /\ tpc[t] = "body" /\ Len(body[t]) < need[t] /\ Consume(tconn[t])
  /\ body' = [body EXCEPT ![t] = Append(@, Head(toClient[tconn[t]]))]
  /\ UNCHANGED <<mode, tpc, cmd, tconn, left, need, conns, open, link, toServer, faults, handlerVars>>

IsError(t) == Get.framed /\ \E i \in DOMAIN body[t] : body[t][i][1] = "message"

(* Mutant: the last response of a batch is not read. *)
ResponseReadShort(t) ==
  /\ tpc[t] = "body" /\ Len(body[t]) = need[t]
  /\ \/ IsError(t) /\ Leave(t, "stopped")
     \/ /\ ~IsError(t) /\ Goto(t, IF left[t] > 2 THEN "header" ELSE "put")
        /\ left' = [left EXCEPT ![t] = @ - 1] /\ UNCHANGED <<cmd, need, body>>
  /\ UNCHANGED <<mode, tconn, conns, open, wireVars, faults, handlerVars>>

(* Mutant: res.Err is not looked at. *)
ResponseReadUnchecked(t) ==
  /\ tpc[t] = "body" /\ Len(body[t]) = need[t]
  /\ Goto(t, IF left[t] > 1 THEN "header" ELSE "put") /\ left' = [left EXCEPT ![t] = @ - 1]
  /\ UNCHANGED <<cmd, need, body, mode, tconn, conns, open, wireVars, faults, handlerVars>>

(* A response is complete.  An error ends the Get and the thread: withConn *)
(* neither returns the connection nor closes it.                           *)
ResponseRead(t) ==
  /\ tpc[t] = "body" /\ Len(body[t]) = need[t]
  /\ \/ IsError(t) /\ Leave(t, "stopped")
     \/ /\ ~IsError(t) /\ Goto(t, IF left[t] > 1 THEN "header" ELSE "put")
        /\ left' = [left EXCEPT ![t] = @ - 1] /\ UNCHANGED <<cmd, need, body>>
  /\ UNCHANGED <<mode, tconn, conns, open, wireVars, faults, handlerVars>>

(* A read or write fails.  At the end of the stream tcpsendfile's splice   *)
(* reads 0 bytes, which PipeConn takes for progress: it never fails there. *)
IOFails(t) ==
  LET c == tconn[t] IN
  /\ tpc[t] \in {"write", "header"} \/ (tpc[t] = "body" /\ Len(body[t]) < need[t])
  /\ \/ link[c] = "reset"
     \/ link[c] = "eof" /\ tpc[t] # "write" /\ toClient[c] = <<>> /\ Get.framed
  /\ Leave(t, "stopped")
  /\ UNCHANGED <<mode, tconn, conns, open, wireVars, faults, handlerVars>>

(* Mutant: a connection is returned without asking whether there is room. *)
PutAlways(t) ==
  /\ tpc[t] = "put" /\ Leave(t, "idle") /\ tconn' = [tconn EXCEPT ![t] = NoConn]
  /\ conns' = Append(conns, tconn[t])
  /\ UNCHANGED <<mode, open, wireVars, faults, handlerVars>>

Put(t) ==
  LET c == tconn[t] IN
  /\ tpc[t] = "put" /\ Leave(t, "idle") /\ tconn' = [tconn EXCEPT ![t] = NoConn]
  /\ \/ Len(conns) < Cons /\ conns' = Append(conns, c) /\ UNCHANGED link
     \/ Len(conns) = Cons /\ link' = [link EXCEPT ![c] = "closed"] /\ UNCHANGED conns
  /\ UNCHANGED <<mode, open, toServer, toClient, faults, handlerVars>>

(* Close, and the end of the process. *)
Close ==
  /\ open /\ \A t \in Threads : tpc[t] = "stopped"
  /\ open' = FALSE /\ link' = [c \in Sockets |-> IF link[c] = "none" THEN "none" ELSE "closed"]
  /\ toClient' = [c \in Sockets |-> <<>>]
  /\ UNCHANGED <<mode, threadVars, conns, toServer, faults, handlerVars>>

-----------------------------------------------------------------------------
(* The servers: handle, one per connection. *)

(* The handler of c panics, which ends the process; its host ends the      *)
(* connections, and resets those with requests that nobody has read.       *)
Crash(c) ==
  /\ server' = "crashed" /\ hpc' = [d \in Sockets |-> "off"]
  /\ link' = [d \in Sockets |-> IF link[d] # "up" THEN link[d]
                                ELSE IF toServer[d] = <<>> \/ d = c THEN "eof" ELSE "reset"]
  /\ toServer' = [d \in Sockets |-> <<>>] /\ hout' = [d \in Sockets |-> <<>>]

(* quic: a stream exists for the server when its first data arrives; when  *)
(* the connection ends before that, handle panics.                         *)
AcceptStream(c) ==
  /\ hpc[c] = "stream"
  /\ \/ /\ toServer[c] # <<>> /\ hpc' = [hpc EXCEPT ![c] = "read"]
        /\ UNCHANGED <<link, server, toServer, hout>>
     \/ toServer[c] = <<>> /\ link[c] \in {"reset", "closed"} /\ Crash(c)
  /\ UNCHANGED <<mode, threadVars, conns, open, toClient, faults, hbuf, bufs>>

Arrived(c) == hpc[c] = "read" /\ toServer[c] # <<>>

Reply(c, pieces) ==
  /\ toServer' = [toServer EXCEPT ![c] = Tail(@)]
  /\ hout' = [hout EXCEPT ![c] = pieces] /\ hpc' = [hpc EXCEPT ![c] = "write"]
  /\ UNCHANGED <<mode, threadVars, conns, open, link, toClient, faults, server, bufs>>

TcppoolHandle(c) ==
  /\ mode = "tcppool" /\ Arrived(c)
  /\ Reply(c, TcppoolResponse(Head(toServer[c]))) /\ UNCHANGED hbuf

QuicHandle(c) ==
  /\ mode = "quic" /\ Arrived(c)
  /\ Reply(c, QuicResponse(Head(toServer[c]))) /\ UNCHANGED hbuf

(* pool.Get returns a slice that was put back, or makes one of full length. *)
React(c) ==
  LET k == Head(toServer[c]) IN
  /\ mode = "gonet" /\ Arrived(c)
  /\ \E room \in bufs \cup {MaxPieces} : Reply(c, GonetResponse(k, room))
  /\ hbuf' = [hbuf EXCEPT ![c] = GetSize(k)]

(* tcpsendfile: the block and nothing else; GetReadCloser panics when there *)
(* is no file for the command.                                             *)
SendfileHandle(c) ==
  LET k == Head(toServer[c]) IN
  /\ mode = "tcpsendfile" /\ Arrived(c)
  /\ \/ k \in Known /\ Reply(c, Block(k)) /\ UNCHANGED hbuf
     \/ /\ k \notin Known /\ Crash(c)
        /\ UNCHANGED <<mode, threadVars, conns, open, toClient, faults, hbuf, bufs>>

(* AfterWrite puts the slice back at the length it was cut to. *)
AfterWrite(c) ==
  /\ bufs' = IF mode = "gonet" THEN bufs \cup {hbuf[c]} ELSE bufs
  /\ hbuf' = [hbuf EXCEPT ![c] = 0]

HandlerWrite(c) ==
  LET last == Len(hout[c]) = 1 IN
  /\ hpc[c] = "write" /\ link[c] = "up" /\ Len(toClient[c]) < SockPieces
  /\ toClient' = [toClient EXCEPT ![c] = Append(@, Head(hout[c]))]
  /\ hout' = [hout EXCEPT ![c] = Tail(@)]
  /\ hpc' = [hpc EXCEPT ![c] = IF last THEN "read" ELSE @]
  /\ IF last THEN AfterWrite(c) ELSE UNCHANGED <<bufs, hbuf>>
  /\ UNCHANGED <<mode, threadVars, conns, open, link, toServer, faults, server>>

(* A read or write of handle fails; it returns and closes the connection. *)
HandlerEnds(c) ==
  /\ hpc[c] \in {"read", "write"} /\ link[c] \in {"reset", "closed"}
  /\ hpc' = [hpc EXCEPT ![c] = "off"] /\ hout' = [hout EXCEPT ![c] = <<>>]
  /\ UNCHANGED <<mode, threadVars, conns, open, wireVars, faults, server, hbuf, bufs>>

(* A connection breaks, and what was on it is lost: what either side can   *)
(* still read was read before.                                             *)
NetBreaks(c) ==
  /\ link[c] = "up" /\ faults < MaxFaults /\ faults' = faults + 1
  /\ link' = [link EXCEPT ![c] = "reset"]
  /\ toServer' = [toServer EXCEPT ![c] = <<>>] /\ toClient' = [toClient EXCEPT ![c] = <<>>]
  /\ UNCHANGED <<mode, threadVars, conns, open, handlerVars>>

-----------------------------------------------------------------------------
ThreadNext(t) ==
  \/ Dial(t) \/ DialFails(t) \/ OpenStreamFails(t)
  \/ WriteRequest(t) \/ ReadHeader(t) \/ ReadPiece(t) \/ ResponseRead(t) \/ IOFails(t) \/ Put(t)

HandlerNext(c) ==
  \/ AcceptStream(c) \/ TcppoolHandle(c) \/ QuicHandle(c) \/ React(c) \/ SendfileHandle(c)
  \/ HandlerWrite(c) \/ HandlerEnds(c)

Next ==
  \/ \E t \in Threads : TakePooled(t) \/ PoolEmpty(t) \/ Lock(t) \/ ThreadNext(t)
  \/ \E c \in Sockets : HandlerNext(c) \/ NetBreaks(c)
  \/ Close

Spec == Init /\ [][Next]_vars

(* Threads and handlers run; sync.Mutex lets nobody starve. *)
FairSpec ==
  /\ Spec
  /\ \A t \in Threads : WF_vars(ThreadNext(t)) /\ SF_vars(Lock(t))
  /\ \A c \in Sockets : WF_vars(HandlerNext(c))

-----------------------------------------------------------------------------
InGet(t) == tpc[t] \notin {"idle", "stopped"}

(* A connection in conns belongs to nobody else and owes nothing: no       *)
(* request is unanswered and no byte of an earlier response is unread, so  *)
(* that withConn may hand it to any Get.  A request that has no answer is  *)
(* the exception: tcpsendfile's, for a key without a file.                 *)
PooledClean ==
  /\ IsInjective(conns)
  /\ \A c \in Range(conns) :
       /\ \A t \in Threads : tconn[t] # c
       /\ link[c] = "up" =>
            /\ toClient[c] = <<>> /\ hout[c] = <<>>
            /\ \A i \in DOMAIN toServer[c] : ~Get.framed /\ toServer[c][i] \notin Known

(* A Get that succeeds has read the block of its command, whole and in     *)
(* order, whatever the connection served before.  Only gonet's may hold    *)
(* what was there before: behind the length of a buffer put back earlier.  *)
GetReturnsItsBlock ==
  \A t \in Threads : tpc[t] = "put" =>
    /\ Len(body[t]) = GetSize(cmd[t]) /\ (Get.framed => cmd[t] \in Known)
    /\ \A i \in DOMAIN body[t] :
         \/ body[t][i] = <<"data", cmd[t]>>
         \/ mode = "gonet" /\ body[t][i] = <<"stale", i>> /\ \E n \in bufs : n < i

(* The client never has more connections than threads, whoever takes,      *)
(* returns or dials one meanwhile: a thread dials only after it found the  *)
(* pool empty, and then the others hold at most one each.                  *)
ConnsBounded ==
  Cardinality((Range(conns) \cup {tconn[t] : t \in Threads}) \ {NoConn}) <= NumThreads

(* What makes a Get wait forever: gonet announces an error message that it *)
(* does not send; PipeConn spins at the end of the stream.                 *)
Hangs(t) ==
  \/ mode = "gonet" /\ tpc[t] = "body" /\ cmd[t] \notin Known
  \/ mode = "tcpsendfile" /\ tpc[t] = "body" /\ link[tconn[t]] = "eof"

(* Every Get returns, with a block or an error: whatever the other threads *)
(* do, when connections break and when the server dies; batches do not     *)
(* block client and server on each other.                                  *)
GetTerminates == \A t \in Threads : InGet(t) ~> (~InGet(t) \/ Hangs(t))
=============================================================================
