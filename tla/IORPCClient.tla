---------------------------- MODULE IORPCClient ----------------------------
(***************************************************************************)
(* The RPC client of pkg/iorpc/client.go: callers put AsyncResults into a  *)
(* bounded queue; on every connection a writer goroutine moves them into   *)
(* the connection's pending map and onto the wire, a reader goroutine      *)
(* moves them out again when their response arrives, and the connection    *)
(* handler dials, closes and fails what is left.  An AsyncResult is        *)
(* identified with the call it was made for.  The server is the            *)
(* environment: it answers the requests on the wire in any order.          *)
(***************************************************************************)
EXTENDS Integers, Sequences, FiniteSets, Functions

CONSTANTS
  Calls,            \* the invocations of Call, CallAsync and Send
  NoCall,           \* the nil *AsyncResult
  Kind,             \* Kind[k] \in {"call", "async", "send"}
  Conns,            \* the clientHandler goroutines (Client.Conns of them)
  PendingRequests,  \* capacity of requestsChan
  LeakFactor,       \* the writer gives up beyond LeakFactor * PendingRequests (10 in the code)
  IDSpace,          \* number of values of a msgID (2^64 in the code)
  Rogue,            \* IDs a misbehaving server sends although nobody waits for them
  MaxStarts,        \* bound: how often the application calls Start
  MaxBreaks         \* bound: how many connections the network breaks

ASSUME CallsAssumption == NoCall \notin Calls /\ Kind \in [Calls -> {"call", "async", "send"}]
ASSUME SizesAssumption == /\ PendingRequests \in Nat \ {0}
                          /\ LeakFactor \in Nat
                          /\ IDSpace \in Nat \ {0, 1}
                          /\ Rogue \subseteq 0 .. IDSpace - 1
                          /\ MaxStarts \in Nat /\ MaxBreaks \in Nat
ASSUME ConnsAssumption == IsFiniteSet(Conns)

IDs == 0 .. IDSpace - 1

(* m.done is nil exactly for the requests that skip the response. *)
HasDone(k) == Kind[k] # "send"

(* What an AsyncResult may hold when its Done channel is closed ("empty":  *)
(* nil Error and no response), and what a call may return beside that.     *)
Outcomes == {"ok", "server", "connection", "overflow", "canceled", "empty"}
Returns  == Outcomes \cup {"timeout", "sent"}

(* The goroutines that can have an AsyncResult in a local variable. *)
Caller(k) == <<"caller", k>>
Writer(c) == <<"writer", c>>
Reader(c) == <<"reader", c>>
Goroutines == ({"caller"} \X Calls) \cup ({"writer", "reader"} \X Conns)

VARIABLES
  \* Client
  stopChan,   \* clientStopChan: "nil", "open" or "closed"
  starts,     \* how often Start has been called
  queue,      \* requestsChan
  stranded,   \* what was left in a requestsChan that Start replaced
  count,      \* pendingRequestsCount; a negative value is a wrapped uint32
  \* AsyncResult
  canceled,   \* m.canceled
  closes,     \* how often m.done was closed (Go panics at the second time)
  outcome,    \* m.Error and m.Response
  \* callers
  cpc,        \* where the caller is in callAsync and CallTimeout
  ret,        \* what the call returned
  hand,       \* the AsyncResult a goroutine has in a local variable
  \* per connection
  h, herr,    \* clientHandler: where it is, the error it fails calls with
  w, wid,     \* clientWriter: where it is, wr.ID
  msgID, pending, flush, \* msgID, pendingRequests, flushChan # nil
  buf, sent,  \* encoded but unflushed requests; requests on the wire
  r,          \* clientReader: where it is
  link,       \* the net.Conn
  breaks      \* how many connections have been broken

client == <<stopChan, starts, stranded>>
result == <<canceled, closes, outcome>>
conn   == <<h, herr, w, wid, msgID, pending, flush, buf, sent, r, link, breaks>>
vars   == <<client, queue, count, result, cpc, ret, hand, conn>>

Requests == IDs \X Calls

ClientType ==
  /\ stopChan \in {"nil", "open", "closed"} /\ starts \in 0 .. MaxStarts
  /\ queue \in Seq(Calls) /\ Len(queue) <= PendingRequests
  /\ stranded \subseteq Calls /\ count \in Int

ResultType ==
  /\ canceled \in [Calls -> BOOLEAN] /\ closes \in [Calls -> Nat]
  /\ outcome \in [Calls -> Outcomes \cup {"none"}]

CallerType ==
  /\ cpc \in [Calls -> {"idle", "evict", "drop", "retry", "wait", "returned"}]
  /\ ret \in [Calls -> Returns \cup {"none"}]
  /\ hand \in [Goroutines -> Calls \cup {NoCall}]

ConnType ==
  /\ h \in [Conns -> {"off", "dial", "backoff", "connected", "run", "closing", "ended"}]
  /\ herr \in [Conns -> {"connection", "empty"}]
  /\ w \in [Conns -> {"off", "loop", "select", "have", "count", "leak", "encode", "done"}]
  /\ wid \in [Conns -> IDs] /\ msgID \in [Conns -> IDs]
  /\ pending \in [Conns -> [IDs -> Calls \cup {NoCall}]]
  /\ flush \in [Conns -> BOOLEAN]
  /\ r \in [Conns -> {"off", "read", "have", "spin", "done"}]
  /\ link \in [Conns -> {"none", "up", "broken", "closed"}]
  /\ breaks \in 0 .. MaxBreaks

WireType == buf \in [Conns -> SUBSET Requests] /\ sent \in [Conns -> SUBSET Requests]

TypeOK == ClientType /\ ResultType /\ CallerType /\ ConnType /\ WireType

Init ==
  /\ stopChan = "nil" /\ starts = 0 /\ queue = <<>> /\ stranded = {} /\ count = 0
  /\ canceled = [k \in Calls |-> FALSE]
  /\ closes = [k \in Calls |-> 0]
  /\ outcome = [k \in Calls |-> "none"]
  /\ cpc = [k \in Calls |-> "idle"] /\ ret = [k \in Calls |-> "none"]
  /\ hand = [g \in Goroutines |-> NoCall]
  /\ h = [c \in Conns |-> "off"] /\ herr = [c \in Conns |-> "empty"]
  /\ w = [c \in Conns |-> "off"] /\ wid = [c \in Conns |-> 0]
  /\ msgID = [c \in Conns |-> 0]
  /\ pending = [c \in Conns |-> [i \in IDs |-> NoCall]]
  /\ flush = [c \in Conns |-> FALSE]
  /\ buf = [c \in Conns |-> {}] /\ sent = [c \in Conns |-> {}]
  /\ r = [c \in Conns |-> "off"] /\ link = [c \in Conns |-> "none"] /\ breaks = 0

-----------------------------------------------------------------------------
(* Start and Stop.  Start makes a new requestsChan, whatever the old one   *)
(* still held; Stop closes clientStopChan and waits for every handler.     *)

Start ==
  /\ stopChan = "nil" /\ starts < MaxStarts
  /\ stopChan' = "open" /\ starts' = starts + 1
  /\ stranded' = stranded \cup Range(queue) /\ queue' = <<>>
  /\ h' = [c \in Conns |-> "dial"]
  /\ UNCHANGED <<count, result, cpc, ret, hand, herr, w, wid, msgID, pending,
                 flush, buf, sent, r, link, breaks>>

Stop ==
  /\ stopChan = "open" /\ stopChan' = "closed"
  /\ UNCHANGED <<starts, stranded, queue, count, result, cpc, ret, hand, conn>>

StopReturns ==
  /\ stopChan = "closed" /\ \A c \in Conns : h[c] = "off"
  /\ stopChan' = "nil"
  /\ UNCHANGED <<starts, stranded, queue, count, result, cpc, ret, hand, conn>>

-----------------------------------------------------------------------------
(* Callers.  callAsync is three separate selects on requestsChan: push;    *)
(* else pop the oldest; else push again.                                   *)

(* Mutant: one request more than the channel holds. *)
HasRoomOffByOne == Len(queue) <= PendingRequests

HasRoom == Len(queue) < PendingRequests

Push(k) ==
  /\ queue' = Append(queue, k)
  /\ IF HasDone(k)
       THEN cpc' = [cpc EXCEPT ![k] = "wait"] /\ UNCHANGED ret
       ELSE cpc' = [cpc EXCEPT ![k] = "returned"] /\ ret' = [ret EXCEPT ![k] = "sent"]

Overflow(k) ==
  /\ cpc' = [cpc EXCEPT ![k] = "returned"] /\ ret' = [ret EXCEPT ![k] = "overflow"]
  /\ UNCHANGED queue

(* The first select; the API demands that Start has been called. *)
Submit(k) ==
  /\ cpc[k] = "idle" /\ starts > 0
  /\ \/ HasRoom /\ Push(k)
     \/ ~HasRoom /\ ~HasDone(k) /\ Overflow(k)
     \/ ~HasRoom /\ HasDone(k) /\ cpc' = [cpc EXCEPT ![k] = "evict"] /\ UNCHANGED <<queue, ret>>
  /\ UNCHANGED <<client, count, result, hand, conn>>

(* The second select takes the oldest request, if one is left. *)
Evict(k) ==
  /\ cpc[k] = "evict"
  /\ \/ /\ queue # <<>>
        /\ hand' = [hand EXCEPT ![Caller(k)] = Head(queue)] /\ queue' = Tail(queue)
        /\ cpc' = [cpc EXCEPT ![k] = "drop"]
     \/ queue = <<>> /\ cpc' = [cpc EXCEPT ![k] = "retry"] /\ UNCHANGED <<hand, queue>>
  /\ UNCHANGED <<client, count, result, ret, conn>>

(* m.Error = e and close(m.done). *)
CloseDone(k, e) ==
  /\ outcome' = [outcome EXCEPT ![k] = e]
  /\ closes' = [closes EXCEPT ![k] = @ + 1]

(* Mutants: done is not closed; the error is the wrong one. *)
DiscardSilently(k, e) == UNCHANGED <<outcome, closes>>
DiscardCanceled(k, e) ==
  \/ HasDone(k) /\ CloseDone(k, "canceled")
  \/ ~HasDone(k) /\ UNCHANGED <<outcome, closes>>

(* Complete a request that will never be sent: the ones without a done     *)
(* channel just go back to the pool.                                       *)
Discard(k, e) ==
  \/ HasDone(k) /\ CloseDone(k, e)
  \/ ~HasDone(k) /\ UNCHANGED <<outcome, closes>>

DropEvicted(k) ==
  /\ cpc[k] = "drop"
  /\ Discard(hand[Caller(k)], "overflow")
  /\ hand' = [hand EXCEPT ![Caller(k)] = NoCall]
  /\ cpc' = [cpc EXCEPT ![k] = "retry"]
  /\ UNCHANGED <<client, queue, count, canceled, ret, conn>>

(* The third select. *)
Retry(k) ==
  /\ cpc[k] = "retry"
  /\ \/ HasRoom /\ Push(k)
     \/ ~HasRoom /\ Overflow(k)
  /\ UNCHANGED <<client, count, result, hand, conn>>

(* CallTimeout's select, or an application reading from AsyncResult.Done. *)
ReceiveDone(k) ==
  /\ cpc[k] = "wait" /\ closes[k] > 0
  /\ cpc' = [cpc EXCEPT ![k] = "returned"] /\ ret' = [ret EXCEPT ![k] = outcome[k]]
  /\ UNCHANGED <<client, queue, count, result, hand, conn>>

Timeout(k) ==
  /\ cpc[k] = "wait" /\ Kind[k] = "call"
  /\ canceled' = [canceled EXCEPT ![k] = TRUE]
  /\ cpc' = [cpc EXCEPT ![k] = "returned"] /\ ret' = [ret EXCEPT ![k] = "timeout"]
  /\ UNCHANGED <<client, queue, count, closes, outcome, hand, conn>>

(* The application cancels an AsyncResult it got from CallAsync. *)
Cancel(k) ==
  /\ cpc[k] = "wait" /\ Kind[k] = "async" /\ ~canceled[k]
  /\ canceled' = [canceled EXCEPT ![k] = TRUE]
  /\ UNCHANGED <<client, queue, count, closes, outcome, cpc, ret, hand, conn>>

-----------------------------------------------------------------------------
(* clientWriter.  stopChan of the connection is closed together with the   *)
(* net.Conn, when link becomes "closed".                                   *)

(* Mutant: a request taken while flushChan is nil does not arm it. *)
WriterTakeUnarmed(c) ==
  /\ w[c] \in {"loop", "select"} /\ queue # <<>>
  /\ hand' = [hand EXCEPT ![Writer(c)] = Head(queue)] /\ queue' = Tail(queue)
  /\ w' = [w EXCEPT ![c] = "have"]
  /\ UNCHANGED <<client, count, result, cpc, ret, h, herr, wid, msgID, pending,
                 flush, buf, sent, r, link, breaks>>

(* Both selects of the loop can receive a request; flushChan is armed if   *)
(* it was not.                                                             *)
WriterTake(c) ==
  /\ w[c] \in {"loop", "select"} /\ queue # <<>>
  /\ hand' = [hand EXCEPT ![Writer(c)] = Head(queue)] /\ queue' = Tail(queue)
  /\ flush' = [flush EXCEPT ![c] = TRUE]
  /\ w' = [w EXCEPT ![c] = "have"]
  /\ UNCHANGED <<client, count, result, cpc, ret, h, herr, wid, msgID, pending,
                 buf, sent, r, link, breaks>>

(* default: of the first select. *)
WriterPoll(c) ==
  /\ w[c] = "loop" /\ queue = <<>>
  /\ w' = [w EXCEPT ![c] = "select"]
  /\ UNCHANGED <<client, queue, count, result, cpc, ret, hand, h, herr, wid, msgID,
                 pending, flush, buf, sent, r, link, breaks>>

WriterStops(c) ==
  /\ w[c] = "select" /\ link[c] = "closed"
  /\ w' = [w EXCEPT ![c] = "done"]
  /\ UNCHANGED <<client, queue, count, result, cpc, ret, hand, h, herr, wid, msgID,
                 pending, flush, buf, sent, r, link, breaks>>

(* Bytes handed to the connection: they reach the server if the link is    *)
(* up, an error ends the writer if it is closed, and after the link broke  *)
(* either the error shows or the bytes are lost unnoticed.                 *)
WriteOut(c, reqs, next) ==
  \/ link[c] = "up" /\ sent' = [sent EXCEPT ![c] = @ \cup reqs] /\ w' = [w EXCEPT ![c] = next]
  \/ link[c] = "broken" /\ UNCHANGED sent /\ w' = [w EXCEPT ![c] = next]
  \/ link[c] # "up" /\ UNCHANGED sent /\ w' = [w EXCEPT ![c] = "done"]

WriterFlush(c) ==
  /\ w[c] = "select" /\ flush[c]
  /\ WriteOut(c, buf[c], "loop")
  /\ buf' = [buf EXCEPT ![c] = {}] /\ flush' = [flush EXCEPT ![c] = FALSE]
  /\ UNCHANGED <<client, queue, count, result, cpc, ret, hand, h, herr, wid, msgID,
                 pending, r, link, breaks>>

WriterCanceled(c) ==
  LET m == hand[Writer(c)] IN
  /\ w[c] = "have" /\ canceled[m]
  /\ Discard(m, "canceled")
  /\ hand' = [hand EXCEPT ![Writer(c)] = NoCall] /\ w' = [w EXCEPT ![c] = "loop"]
  /\ UNCHANGED <<client, queue, count, canceled, cpc, ret, h, herr, wid, msgID, pending,
                 flush, buf, sent, r, link, breaks>>

(* A request without a done channel gets ID 0. *)
WriterNoResponse(c) ==
  LET m == hand[Writer(c)] IN
  /\ w[c] = "have" /\ ~canceled[m] /\ ~HasDone(m)
  /\ wid' = [wid EXCEPT ![c] = 0] /\ w' = [w EXCEPT ![c] = "encode"]
  /\ UNCHANGED <<client, queue, count, result, cpc, ret, hand, h, herr, msgID, pending,
                 flush, buf, sent, r, link, breaks>>

Taken(c) == {i \in IDs : pending[c][i] # NoCall}

(* Mutant: an ID that is still pending is used again. *)
NextMsgIDUnchecked(c, i) == i = IF msgID[c] + 1 = IDSpace THEN 1 ELSE msgID[c] + 1

(* msgID++, skipping 0, and then on until an ID that is not pending: no    *)
(* free ID lies between the one after msgID and i.                         *)
NextMsgID(c, i) ==
  LET first == IF msgID[c] + 1 = IDSpace THEN 1 ELSE msgID[c] + 1
      steps(j) == (j + IDSpace - first) % IDSpace
  IN  i \notin Taken(c) /\ \A j \in IDs \ Taken(c) : steps(i) <= steps(j)

(* Mutant: m.canceled is not looked at. *)
WriterRegisterCanceled(c) ==
  LET m == hand[Writer(c)] IN
  /\ w[c] = "have" /\ HasDone(m)
  /\ \E i \in IDs : /\ NextMsgID(c, i) /\ pending' = [pending EXCEPT ![c][i] = m]
                    /\ msgID' = [msgID EXCEPT ![c] = i] /\ wid' = [wid EXCEPT ![c] = i]
  /\ w' = [w EXCEPT ![c] = "count"]
  /\ UNCHANGED <<client, queue, count, result, cpc, ret, hand, h, herr, flush,
                 buf, sent, r, link, breaks>>

WriterRegister(c) ==
  LET m == hand[Writer(c)] IN
  /\ w[c] = "have" /\ ~canceled[m] /\ HasDone(m)
  /\ \E i \in IDs :
       /\ NextMsgID(c, i)
       /\ msgID' = [msgID EXCEPT ![c] = i] /\ wid' = [wid EXCEPT ![c] = i]
       /\ pending' = [pending EXCEPT ![c][i] = m]
  /\ w' = [w EXCEPT ![c] = IF Cardinality(Taken(c)) > LeakFactor * PendingRequests
                             THEN "leak" ELSE "count"]
  /\ UNCHANGED <<client, queue, count, result, cpc, ret, hand, h, herr, flush,
                 buf, sent, r, link, breaks>>

(* Mutant: the request that exceeds the limit is failed on the spot, but   *)
(* stays in the map.                                                       *)
WriterCountFails(c) ==
  /\ w[c] \in {"count", "leak"}
  /\ count' = count + 1
  /\ \/ /\ w[c] = "count" /\ w' = [w EXCEPT ![c] = "encode"]
        /\ UNCHANGED <<hand, outcome, closes>>
     \/ /\ w[c] = "leak" /\ w' = [w EXCEPT ![c] = "done"]
        /\ CloseDone(hand[Writer(c)], "overflow")
        /\ hand' = [hand EXCEPT ![Writer(c)] = NoCall]
  /\ UNCHANGED <<client, queue, canceled, cpc, ret, h, herr, wid, msgID, pending, flush,
                 buf, sent, r, link, breaks>>

(* The counter is incremented after the map's lock is released; a server   *)
(* that leaves too much unanswered costs the connection.                   *)
WriterCount(c) ==
  /\ w[c] \in {"count", "leak"}
  /\ count' = count + 1
  /\ w' = [w EXCEPT ![c] = IF w[c] = "count" THEN "encode" ELSE "done"]
  /\ hand' = IF w[c] = "count" THEN hand ELSE [hand EXCEPT ![Writer(c)] = NoCall]
  /\ UNCHANGED <<client, queue, result, cpc, ret, h, herr, wid, msgID, pending, flush,
                 buf, sent, r, link, breaks>>

(* EncodeRequest: a request without body stays in the encoder's buffer     *)
(* unless the buffer is full; a request with one is written at once, with  *)
(* everything buffered before it.                                          *)
WriterEncode(c) ==
  LET req == {<<wid[c], hand[Writer(c)]>>} IN
  /\ w[c] = "encode"
  /\ \/ buf' = [buf EXCEPT ![c] = @ \cup req] /\ w' = [w EXCEPT ![c] = "loop"] /\ UNCHANGED sent
     \/ buf' = [buf EXCEPT ![c] = {}] /\ WriteOut(c, buf[c] \cup req, "loop")
  /\ hand' = [hand EXCEPT ![Writer(c)] = NoCall]
  /\ UNCHANGED <<client, queue, count, result, cpc, ret, h, herr, wid, msgID, pending,
                 flush, r, link, breaks>>

-----------------------------------------------------------------------------
(* clientReader. *)

(* Mutant: the entry stays in the map. *)
ReaderLookupKeeps(c, q) ==
  LET m == pending[c][q[1]] IN
  /\ r[c] = "read" /\ link[c] # "closed" /\ m # NoCall
  /\ r' = [r EXCEPT ![c] = "have"] /\ hand' = [hand EXCEPT ![Reader(c)] = m]
  /\ sent' = [sent EXCEPT ![c] = @ \ {q}]
  /\ UNCHANGED <<client, queue, count, result, cpc, ret, h, herr, w, wid, msgID, pending,
                 flush, buf, link, breaks>>

(* DecodeResponse returns a response to request q of this connection, and  *)
(* the entry of its ID is looked up and deleted under the lock.  Responses *)
(* sent before the link broke can still be read, until the client closes.  *)
ReaderLookup(c, q) ==
  LET m == pending[c][q[1]] IN
  /\ r[c] = "read" /\ link[c] # "closed"
  /\ \/ m # NoCall /\ r' = [r EXCEPT ![c] = "have"]
     \/ m = NoCall /\ r' = [r EXCEPT ![c] = "done"]
  /\ hand' = [hand EXCEPT ![Reader(c)] = m]
  /\ pending' = [pending EXCEPT ![c][q[1]] = NoCall]
  /\ sent' = [sent EXCEPT ![c] = @ \ {q}]
  /\ UNCHANGED <<client, queue, count, result, cpc, ret, h, herr, w, wid, msgID,
                 flush, buf, link, breaks>>

ReaderReceives(c) ==
  \/ \E q \in sent[c] : q[1] # 0 /\ ReaderLookup(c, q)
  \/ \E i \in Rogue : ReaderLookup(c, <<i, NoCall>>)

ReaderComplete(c) ==
  /\ r[c] = "have"
  /\ count' = count - 1
  /\ \E e \in {"ok", "server"} : CloseDone(hand[Reader(c)], e)
  /\ hand' = [hand EXCEPT ![Reader(c)] = NoCall] /\ r' = [r EXCEPT ![c] = "read"]
  /\ UNCHANGED <<client, queue, canceled, cpc, ret, h, herr, w, wid, msgID, pending,
                 flush, buf, sent, link, breaks>>

ReaderFails(c) ==
  /\ r[c] = "read" /\ link[c] \in {"broken", "closed"}
  /\ r' = [r EXCEPT ![c] = "done"]
  /\ UNCHANGED <<client, queue, count, result, cpc, ret, hand, h, herr, w, wid, msgID,
                 pending, flush, buf, sent, link, breaks>>

(* PipeConn in DecodeResponse: when the server has ended the connection in *)
(* the middle of a response's body, every splice reads 0 bytes and the     *)
(* loop goes on, even after conn.Close, which waits for it.                *)
ReaderSpins(c) ==
  /\ \/ r[c] = "read" /\ link[c] = "broken" /\ (Rogue # {} \/ \E q \in sent[c] : q[1] # 0)
     \/ r[c] = "spin"
  /\ r' = [r EXCEPT ![c] = "spin"]
  /\ UNCHANGED <<client, queue, count, result, cpc, ret, hand, h, herr, w, wid, msgID,
                 pending, flush, buf, sent, link, breaks>>

-----------------------------------------------------------------------------
(* clientHandler and clientHandleConnection. *)

(* Dial returns a connection or an error; an error costs a one-second      *)
(* pause before the next Dial.                                             *)
HandlerDials(c) ==
  /\ \/ h[c] = "dial" /\ h' = [h EXCEPT ![c] = "connected"]
     \/ h[c] = "dial" /\ h' = [h EXCEPT ![c] = "backoff"]
     \/ h[c] = "backoff" /\ h' = [h EXCEPT ![c] = "dial"]
  /\ UNCHANGED <<client, queue, count, result, cpc, ret, hand, herr, w, wid, msgID,
                 pending, flush, buf, sent, r, link, breaks>>

(* Both of those selects also wait for clientStopChan.  A Dial under way   *)
(* is waited for, its connection is dropped.                               *)
HandlerStops(c) ==
  /\ h[c] \in {"dial", "backoff"} /\ stopChan = "closed"
  /\ h' = [h EXCEPT ![c] = "off"]
  /\ UNCHANGED <<client, queue, count, result, cpc, ret, hand, herr, w, wid, msgID,
                 pending, flush, buf, sent, r, link, breaks>>

(* OnConnect and the handshake byte succeed, then the goroutines start. *)
HandlerConnects(c) ==
  /\ h[c] = "connected" /\ h' = [h EXCEPT ![c] = "run"]
  /\ link' = [link EXCEPT ![c] = "up"]
  /\ w' = [w EXCEPT ![c] = "loop"] /\ r' = [r EXCEPT ![c] = "read"]
  /\ msgID' = [msgID EXCEPT ![c] = 0] /\ wid' = [wid EXCEPT ![c] = 0]
  /\ flush' = [flush EXCEPT ![c] = FALSE]
  /\ UNCHANGED <<client, queue, count, result, cpc, ret, hand, herr, pending, buf, sent, breaks>>

(* They fail, and the connection is closed. *)
HandlerRejected(c) ==
  /\ h[c] = "connected" /\ h' = [h EXCEPT ![c] = "ended"]
  /\ UNCHANGED <<client, queue, count, result, cpc, ret, hand, herr, w, wid, msgID,
                 pending, flush, buf, sent, r, link, breaks>>

(* Mutant: clientStopChan is missing from the select. *)
HandlerClosesOnError(c) ==
  /\ h[c] = "run" /\ h' = [h EXCEPT ![c] = "closing"]
  /\ link' = [link EXCEPT ![c] = "closed"]
  /\ (w[c] = "done" \/ r[c] = "done") /\ herr' = [herr EXCEPT ![c] = "connection"]
  /\ UNCHANGED <<client, queue, count, result, cpc, ret, hand, w, wid, msgID, pending,
                 flush, buf, sent, r, breaks>>

(* The select on writerDone, readerDone and clientStopChan; err stays nil  *)
(* in the last case.                                                       *)
HandlerCloses(c) ==
  /\ h[c] = "run" /\ h' = [h EXCEPT ![c] = "closing"]
  /\ link' = [link EXCEPT ![c] = "closed"]
  /\ \/ (w[c] = "done" \/ r[c] = "done") /\ herr' = [herr EXCEPT ![c] = "connection"]
     \/ stopChan = "closed" /\ herr' = [herr EXCEPT ![c] = "empty"]
  /\ UNCHANGED <<client, queue, count, result, cpc, ret, hand, w, wid, msgID, pending,
                 flush, buf, sent, r, breaks>>

BothDone(c) == h[c] = "closing" /\ w[c] = "done" /\ r[c] = "done"

(* Mutant: pendingRequestsCount is not decremented. *)
HandlerFailsUncounted(c, i) ==
  /\ BothDone(c) /\ pending[c][i] # NoCall
  /\ CloseDone(pending[c][i], herr[c])
  /\ pending' = [pending EXCEPT ![c][i] = NoCall]
  /\ UNCHANGED <<client, queue, count, canceled, cpc, ret, hand, h, herr, w, wid, msgID,
                 flush, buf, sent, r, link, breaks>>

(* One iteration of the loop over pendingRequests. *)
HandlerFailsPending(c, i) ==
  /\ BothDone(c) /\ pending[c][i] # NoCall
  /\ count' = count - 1
  /\ CloseDone(pending[c][i], herr[c])
  /\ pending' = [pending EXCEPT ![c][i] = NoCall]
  /\ UNCHANGED <<client, queue, canceled, cpc, ret, hand, h, herr, w, wid, msgID,
                 flush, buf, sent, r, link, breaks>>

(* Mutant: the map is dropped with what it still holds. *)
HandlerEndsEarly(c) ==
  /\ BothDone(c) /\ h' = [h EXCEPT ![c] = "ended"]
  /\ w' = [w EXCEPT ![c] = "off"] /\ r' = [r EXCEPT ![c] = "off"]
  /\ link' = [link EXCEPT ![c] = "none"]
  /\ pending' = [pending EXCEPT ![c] = [i \in IDs |-> NoCall]]
  /\ buf' = [buf EXCEPT ![c] = {}] /\ sent' = [sent EXCEPT ![c] = {}]
  /\ UNCHANGED <<client, queue, count, result, cpc, ret, hand, herr, wid, msgID,
                 flush, breaks>>

HandlerEnds(c) ==
  /\ BothDone(c) /\ Taken(c) = {} /\ h' = [h EXCEPT ![c] = "ended"]
  /\ w' = [w EXCEPT ![c] = "off"] /\ r' = [r EXCEPT ![c] = "off"]
  /\ link' = [link EXCEPT ![c] = "none"]
  /\ buf' = [buf EXCEPT ![c] = {}] /\ sent' = [sent EXCEPT ![c] = {}]
  /\ UNCHANGED <<client, queue, count, result, cpc, ret, hand, herr, wid, msgID,
                 pending, flush, breaks>>

(* Back to Dial unless the client is being stopped. *)
HandlerLoops(c) ==
  /\ h[c] = "ended"
  /\ h' = [h EXCEPT ![c] = IF stopChan = "closed" THEN "off" ELSE "dial"]
  /\ UNCHANGED <<client, queue, count, result, cpc, ret, hand, herr, w, wid, msgID,
                 pending, flush, buf, sent, r, link, breaks>>

(* The network or the server breaks the connection. *)
LinkBreaks(c) ==
  /\ link[c] = "up" /\ breaks < MaxBreaks
  /\ link' = [link EXCEPT ![c] = "broken"] /\ breaks' = breaks + 1
  /\ UNCHANGED <<client, queue, count, result, cpc, ret, hand, h, herr, w, wid, msgID,
                 pending, flush, buf, sent, r>>

-----------------------------------------------------------------------------
CallerNext(k) == \/ Submit(k) \/ Evict(k) \/ DropEvicted(k) \/ Retry(k)
                 \/ ReceiveDone(k) \/ Timeout(k) \/ Cancel(k)

WriterNext(c) == \/ WriterTake(c) \/ WriterPoll(c) \/ WriterStops(c) \/ WriterFlush(c)
                 \/ WriterCanceled(c) \/ WriterNoResponse(c) \/ WriterRegister(c)
                 \/ WriterCount(c) \/ WriterEncode(c)

ReaderNext(c) == ReaderReceives(c) \/ ReaderComplete(c) \/ ReaderFails(c) \/ ReaderSpins(c)

HandlerNext(c) == \/ HandlerDials(c) \/ HandlerStops(c) \/ HandlerConnects(c) \/ HandlerRejected(c)
                  \/ HandlerCloses(c) \/ (\E i \in IDs : HandlerFailsPending(c, i))
                  \/ HandlerEnds(c) \/ HandlerLoops(c)

(* The application has stopped the client for good. *)
Finished == stopChan = "nil" /\ starts = MaxStarts /\ UNCHANGED vars

Next ==
  \/ Start \/ Stop \/ StopReturns \/ Finished
  \/ \E k \in Calls : CallerNext(k)
  \/ \E c \in Conns : WriterNext(c) \/ ReaderNext(c) \/ HandlerNext(c) \/ LinkBreaks(c)

Spec == Init /\ [][Next]_vars

(* Goroutines that can run do run, a Dial returns, an expired timer fires. *)
(* Nothing is assumed of the application, the network or the server.       *)
Fairness ==
  /\ WF_vars(StopReturns)
  /\ \A k \in Calls : WF_vars(Evict(k) \/ DropEvicted(k) \/ Retry(k) \/ ReceiveDone(k))
  /\ \A c \in Conns : /\ WF_vars(WriterNext(c))
                      /\ WF_vars(ReaderComplete(c) \/ ReaderFails(c))
                      /\ WF_vars(HandlerNext(c)) /\ WF_vars(HandlerStops(c))

FairSpec == Spec /\ Fairness

-----------------------------------------------------------------------------
(* Who is responsible for an AsyncResult: a position of requestsChan, a    *)
(* goroutine that took it out, an entry of a pending map; one more for     *)
(* every time its done channel was closed.  The writer is responsible only *)
(* until it has entered the request into the map.                          *)

Owns(g, k) == hand[g] = k /\ (g[1] = "writer" => w[g[2]] = "have")

Owners(k) ==
  {<<"queue", i>> : i \in {j \in DOMAIN queue : queue[j] = k}}
    \cup {g \in Goroutines : Owns(g, k)}
    \cup {<<"pending", p>> : p \in {q \in Conns \X IDs : pending[q[1]][q[2]] = k}}
    \cup {<<"closed", n>> : n \in 1 .. closes[k]}

(* No two goroutines are ever responsible for the same AsyncResult, and    *)
(* none is once its done channel is closed: no double close in callAsync,  *)
(* clientWriter, clientReader and clientHandleConnection, and no use of an *)
(* AsyncResult that CallTimeout has put back into the pool.                *)
SingleOwner == \A k \in Calls : \A p, q \in Owners(k) : p = q

(* A caller that waits for Done waits for somebody: its AsyncResult is     *)
(* completed, or some goroutine, queue or map still has it.  The only ones *)
(* that fall through are those in a requestsChan that Start replaced.      *)
NoLostCall ==
  \A k \in Calls : HasDone(k) /\ cpc[k] = "wait" /\ k \notin stranded => Owners(k) # {}

(* pendingRequestsCount follows the pending maps, but for the windows      *)
(* between a map access and the atomic add, and it never wraps below zero. *)
CountMatches ==
  /\ count >= 0
  /\ count = Cardinality({p \in Conns \X IDs : pending[p[1]][p[2]] # NoCall})
               - Cardinality({c \in Conns : w[c] \in {"count", "leak"}})
               + Cardinality({c \in Conns : r[c] = "have"})

(* An ID that has been encoded still belongs to the request it was encoded *)
(* for, so clientReader hands every response to the call it answers; and   *)
(* the AsyncResult whose fields the writer copies is still pending.        *)
ResponseMatchesRequest ==
  \A c \in Conns : ~BothDone(c) =>
    /\ \A q \in buf[c] \cup sent[c] : q[1] # 0 => pending[c][q[1]] = q[2]
    /\ w[c] \in {"count", "leak", "encode"} /\ wid[c] # 0 =>
         pending[c][wid[c]] = hand[Writer(c)]

(* Whenever the writer is about to wait with requests in the encoder's     *)
(* buffer, flushChan will wake it up to flush them.                        *)
FlushArmed ==
  \A c \in Conns : w[c] \in {"loop", "select"} /\ buf[c] # {} => flush[c]

(* Response and Error do not change once Done is closed, and a completed   *)
(* or registered request never goes back into the queue: the client sends  *)
(* no request twice.                                                       *)
DoneIsFinal ==
  [][\A k \in Calls :
       /\ closes[k] > 0 => closes'[k] = closes[k] /\ outcome'[k] = outcome[k]
       /\ closes[k] > 0 \/ (\E c \in Conns, i \in IDs : pending[c][i] = k)
            => k \notin Range(queue')]_vars

(* A call is accepted when callAsync returns no error for it. *)
Accepted == {k \in Calls : \/ cpc[k] = "wait"
                           \/ cpc[k] = "returned" /\ (ret[k] = "overflow" => closes[k] > 0)}

Abstract == INSTANCE RpcCall WITH accepted <- Accepted,
                                  canceled <- {k \in Calls : canceled[k]}

(* The goroutines, queue and maps of the client implement RpcCall: every   *)
(* step of one is a step of one call there or changes nothing it can see.  *)
ImplementsRpcCall == Abstract!Spec

OnWire(k) == \E c \in Conns : \E q \in buf[c] \cup sent[c] : q[2] = k

(* "Canceled call isn't sent to the server unless it is already sent       *)
(* there": one canceled while it is in the queue never reaches an encoder. *)
CanceledInQueueNotSent ==
  \A k \in Calls : [](canceled[k] /\ k \in Range(queue) => [](~OnWire(k)))

(* Stop returns, however the handlers are dialing, pausing, writing or     *)
(* reading when clientStopChan is closed; unless a reader spins in         *)
(* PipeConn, for which the handler and with it Stop wait forever.          *)
StopTerminates == stopChan = "closed" ~> stopChan = "nil" \/ \E c \in Conns : r[c] = "spin"

(* Once a connection is being closed every request pending on it is        *)
(* completed, whoever closed it and however far writer and reader were;    *)
(* unless its reader spins: calls without a timeout then never return.     *)
PendingCompleted ==
  \A c \in Conns, k \in Calls :
    h[c] = "closing" /\ (\E i \in IDs : pending[c][i] = k) ~> closes[k] > 0 \/ r[c] = "spin"

(* A request in the encoder's buffer is flushed or its connection's writer *)
(* ends, even if nobody ever calls again.                                  *)
BufferedRequestsFlushed ==
  \A c \in Conns : buf[c] # {} ~> buf[c] = {} \/ w[c] = "done"

(* Call "Returns non-nil error if the response cannot be obtained": no     *)
(* call may return a nil error without a response.                         *)
NoResponseMeansError == \A k \in Calls : ret[k] # "empty"
=============================================================================
