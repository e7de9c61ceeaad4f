---------------------- MODULE IORPCClientSafetyProofs ----------------------
(***************************************************************************)
(* More about the client of pkg/iorpc/client.go, from the invariants of    *)
(* IORPCClientProofs.                                                      *)
(***************************************************************************)
EXTENDS IORPCClientProofs, FiniteSetTheorems

(* The goroutines of a connection share no variable with those of another, *)
(* but for requestsChan and the counter: a step of the client either       *)
(* leaves every connection as it is, or is one of the writer, reader or    *)
(* handler of one connection and leaves the others as they are.            *)

SameConn(d) ==
  /\ w'[d] = w[d] /\ wid'[d] = wid[d] /\ flush'[d] = flush[d] /\ r'[d] = r[d]
  /\ buf'[d] = buf[d] /\ sent'[d] = sent[d] /\ pending'[d] = pending[d]
  /\ hand'[Writer(d)] = hand[Writer(d)] /\ hand'[Reader(d)] = hand[Reader(d)]
  /\ BothDone(d)' <=> BothDone(d)

ConnStep(c) ==
  \/ WriterNext(c) \/ ReaderNext(c) \/ HandlerConnects(c) \/ HandlerCloses(c)
  \/ (\E i \in IDs : HandlerFailsPending(c, i)) \/ HandlerEnds(c)

(* Start, Stop, the callers, Dial and the network leave every connection   *)
(* as it is.                                                               *)
LEMMA QuietStep ==
  ASSUME TypeInv, [Next]_vars, ~\E c \in Conns : ConnStep(c)
  PROVE  count' = count /\ \A d \in Conns : SameConn(d)
<1> USE HandFacts DEF client, result, conn, SameConn, BothDone, TypeInv, TypeOK, CallerType, ConnType
<1>1. CASE Start
  BY <1>1 DEF Start, Phases
<1>2. CASE Stop \/ StopReturns \/ UNCHANGED vars
  BY <1>2 DEF Stop, StopReturns, vars
<1>3. ASSUME NEW k \in Calls, CallerNext(k) PROVE count' = count /\ \A d \in Conns : SameConn(d)
  <2>1. CASE Submit(k) \/ Retry(k)
    BY <2>1 DEF Submit, Retry
  <2>2. CASE Evict(k)
    BY <2>2 DEF Evict
  <2>3. CASE DropEvicted(k)
    BY <2>3 DEF DropEvicted
  <2>4. CASE ReceiveDone(k) \/ Timeout(k) \/ Cancel(k)
    BY <2>4 DEF ReceiveDone, Timeout, Cancel
  <2>5. QED
    BY <1>3, <2>1, <2>2, <2>3, <2>4 DEF CallerNext
<1>4. ASSUME NEW c \in Conns, HandlerDials(c) \/ HandlerStops(c) \/ HandlerRejected(c) \/ HandlerLoops(c)
      PROVE  count' = count /\ \A d \in Conns : SameConn(d)
  <2>1. h[c] # "closing" /\ h'[c] # "closing" /\ \A d \in Conns \ {c} : h'[d] = h[d]
    BY <1>4 DEF HandlerDials, HandlerStops, HandlerRejected, HandlerLoops
  <2>2. UNCHANGED <<count, w, wid, flush, r, buf, sent, pending, hand>>
    BY <1>4 DEF HandlerDials, HandlerStops, HandlerRejected, HandlerLoops
  <2>3. QED
    BY <2>1, <2>2
<1>5. ASSUME NEW c \in Conns, LinkBreaks(c) PROVE count' = count /\ \A d \in Conns : SameConn(d)
  BY <1>5 DEF LinkBreaks
<1>6. QED
  BY <1>1, <1>2, <1>3, <1>4, <1>5 DEF Next, Finished, HandlerNext, ConnStep

(* What a writer, a reader or a handler does to its own connection it does *)
(* to no other.                                                            *)
LEMMA OtherConns ==
  ASSUME TypeInv, NEW c \in Conns, ConnStep(c), NEW d \in Conns, d # c
  PROVE  SameConn(d)
<1> USE HandFacts DEF client, result, conn, SameConn, BothDone, TypeInv, TypeOK, CallerType, ConnType, WireType
<1>1. CASE WriterTake(c) \/ WriterPoll(c) \/ WriterStops(c)
  BY <1>1 DEF WriterTake, WriterPoll, WriterStops
<1>2. CASE WriterFlush(c)
  BY <1>2 DEF WriterFlush, WriteOut
<1>3. CASE WriterCanceled(c) \/ WriterNoResponse(c) \/ WriterCount(c)
  BY <1>3 DEF WriterCanceled, WriterNoResponse, WriterCount
<1>4. CASE WriterRegister(c)
  BY <1>4 DEF WriterRegister
<1>5. CASE WriterEncode(c)
  BY <1>5 DEF WriterEncode, WriteOut
<1>6. CASE ReaderReceives(c)
  <2> SUFFICES ASSUME NEW q \in IDs \X (Calls \cup {NoCall}), ReaderLookup(c, q) PROVE SameConn(d)
    BY <1>6, LookupFacts
  <2>1. QED
    BY DEF ReaderLookup
<1>7. CASE ReaderComplete(c) \/ ReaderFails(c) \/ ReaderSpins(c)
  BY <1>7 DEF ReaderComplete, ReaderFails, ReaderSpins
<1>8. CASE HandlerConnects(c) \/ HandlerCloses(c) \/ HandlerEnds(c)
  BY <1>8 DEF HandlerConnects, HandlerCloses, HandlerEnds
<1>9. ASSUME NEW i \in IDs, HandlerFailsPending(c, i) PROVE SameConn(d)
  BY <1>9 DEF HandlerFailsPending
<1>10. QED
  BY <1>1, <1>2, <1>3, <1>4, <1>5, <1>6, <1>7, <1>8, <1>9 DEF ConnStep, WriterNext, ReaderNext

-----------------------------------------------------------------------------
(* FlushArmed, made inductive: flushChan is armed from the moment the      *)
(* writer takes a request, and a connection that has no writer has nothing *)
(* in its buffer or on the wire.                                           *)
FlushOK(c) ==
  /\ w[c] \in {"loop", "select"} /\ buf[c] # {} => flush[c]
  /\ w[c] \in {"have", "count", "leak", "encode"} => flush[c]
  /\ w[c] = "off" => buf[c] = {} /\ sent[c] = {}

FlushInv == \A c \in Conns : FlushOK(c)

(* No step of clientWriter or clientHandleConnection disarms flushChan     *)
(* with requests in the buffer.                                            *)
LEMMA FlushConn ==
  ASSUME TypeInv, FlushInv, NEW c \in Conns, ConnStep(c)
  PROVE  FlushOK(c)'
<1> USE DEF client, result, conn, FlushInv, FlushOK, TypeInv, TypeOK, ConnType, WireType
<1>1. CASE WriterTake(c) \/ WriterPoll(c) \/ WriterStops(c)
  BY <1>1 DEF WriterTake, WriterPoll, WriterStops
<1>2. CASE WriterFlush(c)
  <2>1. w'[c] \in {"loop", "done"} /\ buf'[c] = {}
    BY <1>2 DEF WriterFlush, WriteOut
  <2>2. QED
    BY <2>1
<1>3. CASE WriterCanceled(c) \/ WriterNoResponse(c) \/ WriterCount(c)
  BY <1>3 DEF WriterCanceled, WriterNoResponse, WriterCount
<1>4. CASE WriterRegister(c)
  <2>1. w[c] = "have" /\ w'[c] \in {"leak", "count"} /\ flush' = flush
    BY <1>4 DEF WriterRegister
  <2>2. QED
    BY <2>1
<1>5. CASE WriterEncode(c)
  <2>1. w[c] = "encode" /\ w'[c] \in {"loop", "done"} /\ flush' = flush
    BY <1>5 DEF WriterEncode, WriteOut
  <2>2. QED
    BY <2>1
<1>6. CASE ReaderReceives(c)
  <2> SUFFICES ASSUME NEW q \in IDs \X (Calls \cup {NoCall}), ReaderLookup(c, q) PROVE FlushOK(c)'
    BY <1>6, LookupFacts
  <2>1. QED
    BY DEF ReaderLookup
<1>7. CASE ReaderComplete(c) \/ ReaderFails(c) \/ ReaderSpins(c)
  BY <1>7 DEF ReaderComplete, ReaderFails, ReaderSpins
<1>8. CASE HandlerConnects(c)
  BY <1>8, ZenonT(40) DEF HandlerConnects, Phases
<1>9. CASE HandlerCloses(c) \/ HandlerEnds(c)
  BY <1>9 DEF HandlerCloses, HandlerEnds
<1>10. ASSUME NEW i \in IDs, HandlerFailsPending(c, i) PROVE FlushOK(c)'
  BY <1>10 DEF HandlerFailsPending
<1>11. QED
  BY <1>1, <1>2, <1>3, <1>4, <1>5, <1>6, <1>7, <1>8, <1>9, <1>10 DEF ConnStep, WriterNext, ReaderNext

(* FlushInv is inductive. *)
LEMMA FlushNext == TypeInv /\ FlushInv /\ [Next]_vars => FlushInv'
<1> SUFFICES ASSUME TypeInv, FlushInv, [Next]_vars, NEW d \in Conns PROVE FlushOK(d)'
  BY DEF FlushInv
<1>1. CASE SameConn(d)
  BY <1>1 DEF FlushInv, FlushOK, SameConn
<1>2. CASE ~SameConn(d)
  BY <1>2, QuietStep, OtherConns, FlushConn
<1>3. QED
  BY <1>1, <1>2

(* The writer never goes to wait with requests in the encoder's buffer and *)
(* flushChan nil, whatever the number of connections and calls: nothing    *)
(* that clientWriter has encoded waits for the next call to be sent.       *)
THEOREM FlushIsArmed == Spec => []FlushArmed
<1>1. Init => TypeInv /\ FlushInv
  BY TypeInit DEF Init, FlushInv, FlushOK
<1>2. TypeInv /\ FlushInv /\ [Next]_vars => (TypeInv /\ FlushInv)'
  BY TypeNext, FlushNext
<1>3. FlushInv => FlushArmed
  BY DEF FlushInv, FlushOK, FlushArmed
<1>4. QED
  BY <1>1, <1>2, <1>3, PTL DEF Spec

-----------------------------------------------------------------------------
(* ResponseMatchesRequest, made inductive: until writer and reader of a    *)
(* connection have ended, every ID that was encoded is still entered for   *)
(* the request it was encoded for; it is in the buffer or on the wire, not *)
(* in both; and the ID that the writer has just entered is in neither.     *)

Encoded(c) == buf[c] \cup sent[c]

WireMatched(c)   == \A q \in Encoded(c) : q[1] # 0 => pending[c][q[1]] = q[2]
WireOnce(c)      == \A q \in buf[c] \cap sent[c] : q[1] = 0
WriterEntered(c) == w[c] \in {"count", "leak"} \/ (w[c] = "encode" /\ wid[c] # 0)
                      => pending[c][wid[c]] = hand[Writer(c)]
WriterUnsent(c)  == w[c] \in {"count", "leak", "encode"} /\ wid[c] # 0
                      => \A q \in Encoded(c) : q[1] # wid[c]

WireOK(c) == ~BothDone(c) =>
  WireMatched(c) /\ WireOnce(c) /\ WriterEntered(c) /\ WriterUnsent(c)

WireInv == \A c \in Conns : WireOK(c)

(* A request on the wire is its ID and its call. *)
LEMMA PairFacts ==
  ASSUME NEW p \in IDs \X Calls, NEW q \in IDs \X Calls, p[1] = q[1], p[2] = q[2]
  PROVE  p = q
OBVIOUS

(* A server that sends only responses to requests it got: the reader looks *)
(* up an ID that is on the wire.                                           *)
LEMMA HonestLookup ==
  ASSUME TypeInv, Rogue = {}, NEW c \in Conns, ReaderReceives(c)
  PROVE  \E q \in sent[c] : q \in Requests /\ q[1] \in IDs \ {0} /\ ReaderLookup(c, q)
BY DEF ReaderReceives, TypeInv, TypeOK, WireType, Requests

(* The steps of one connection keep its IDs and requests together.         *)
LEMMA WireConn ==
  ASSUME TypeInv, FlushInv, WireInv, Rogue = {}, NEW c \in Conns, ConnStep(c)
  PROVE  WireOK(c)'
<1> USE HandFacts DEF client, result, conn, WireInv, WireOK, WireMatched, WireOnce, WriterEntered, WriterUnsent, Encoded, BothDone, TypeInv, TypeOK, CallerType, ConnType, WireType
<1>1. CASE WriterTake(c) \/ WriterPoll(c) \/ WriterStops(c)
  BY <1>1 DEF WriterTake, WriterPoll, WriterStops
<1>2. CASE WriterFlush(c)
  <2>1. /\ w[c] = "select" /\ w'[c] \in {"loop", "done"} /\ buf'[c] = {} /\ UNCHANGED pending
        /\ sent'[c] \in {sent[c], sent[c] \cup buf[c]}
    BY <1>2 DEF WriterFlush, WriteOut
  <2>2. QED
    BY <2>1, SMTT(30)
<1>3. CASE WriterCanceled(c) \/ WriterNoResponse(c)
  BY <1>3 DEF WriterCanceled, WriterNoResponse
<1>4. CASE WriterCount(c)
  <2>1. w'[c] \in {"encode", "done"} /\ (w'[c] = "encode" => w[c] = "count" /\ hand' = hand)
    BY <1>4 DEF WriterCount
  <2>2. UNCHANGED <<pending, buf, sent, wid>> /\ w[c] \in {"count", "leak"}
    BY <1>4 DEF WriterCount
  <2>3. QED
    BY <2>1, <2>2, ZenonT(40)
<1>5. CASE WriterRegister(c)
  <2>1. PICK i \in IDs : /\ NextMsgID(c, i) /\ wid' = [wid EXCEPT ![c] = i]
                         /\ pending' = [pending EXCEPT ![c][i] = hand[Writer(c)]]
    BY <1>5 DEF WriterRegister
  <2>2. pending[c][i] = NoCall
    BY <2>1 DEF NextMsgID, Taken
  <2>3. w[c] = "have" /\ w'[c] \in {"leak", "count"} /\ UNCHANGED <<buf, sent, hand>>
    BY <1>5 DEF WriterRegister
  <2>4. \A q \in Encoded(c) : q[1] # 0 => q[1] # i
    BY <2>2, <2>3, CallsAssumption, SMTT(30) DEF Requests
  <2>5. \A j \in IDs : pending'[c][j] = IF j = i THEN hand[Writer(c)] ELSE pending[c][j]
    BY <2>1
  <2>6. \A q \in Encoded(c) : q[1] \in IDs
    BY DEF Requests
  <2>7. WireMatched(c)' /\ WireOnce(c)'
    BY <2>3, <2>4, <2>5, <2>6
  <2>8. WriterEntered(c)' /\ WriterUnsent(c)'
    BY <2>1, <2>3, <2>4, <2>5
  <2>9. QED
    BY <2>7, <2>8
<1>6. CASE WriterEncode(c)
  <2> DEFINE req == <<wid[c], hand[Writer(c)]>>
  <2>1. w[c] = "encode" /\ w'[c] \in {"loop", "done"} /\ UNCHANGED pending
    BY <1>6 DEF WriterEncode, WriteOut
  <2>2. \/ buf'[c] = buf[c] \cup {req} /\ sent'[c] = sent[c]
        \/ buf'[c] = {} /\ sent'[c] \in {sent[c], sent[c] \cup (buf[c] \cup {req})}
    BY <1>6 DEF WriterEncode, WriteOut
  <2>3. (wid[c] # 0 => pending[c][wid[c]] = hand[Writer(c)] /\ \A q \in Encoded(c) : q[1] # wid[c])
    BY <2>1
  <2>4. QED
    BY <2>1, <2>2, <2>3
<1>7. CASE ReaderReceives(c)
  <2>1. PICK q \in sent[c] : q \in Requests /\ q[1] \in IDs \ {0} /\ ReaderLookup(c, q)
    BY <1>7, HonestLookup
  <2>2. r[c] = "read" /\ sent'[c] = sent[c] \ {q} /\ UNCHANGED <<w, wid, buf>> /\ hand'[Writer(c)] = hand[Writer(c)]
    BY <2>1 DEF ReaderLookup
  <2>3. \A j \in IDs : j # q[1] => pending'[c][j] = pending[c][j]
    BY <2>1 DEF ReaderLookup
  <2>4. WireMatched(c) /\ WireOnce(c) /\ WriterEntered(c) /\ WriterUnsent(c)
    BY <2>2
  <2>5. q \notin buf[c] /\ pending[c][q[1]] = q[2]
    BY <2>1, <2>4
  <2>6. \A p \in buf'[c] \cup sent'[c] : p \in Encoded(c) /\ p # q
    BY <2>2, <2>5
  <2>7. \A p \in Encoded(c) : p \in IDs \X Calls
    BY DEF Requests
  <2>8. \A p \in buf'[c] \cup sent'[c] : p[1] # q[1]
    <3> SUFFICES ASSUME NEW p \in buf'[c] \cup sent'[c], p[1] = q[1] PROVE FALSE
      OBVIOUS
    <3>1. p \in Encoded(c) /\ q \in Encoded(c) /\ p # q
      BY <2>1, <2>6
    <3>2. p[2] = q[2]
      BY <2>1, <2>4, <3>1
    <3>3. QED
      BY <2>1, <2>7, <3>1, <3>2, PairFacts
  <2>9. WireMatched(c)' /\ WireOnce(c)'
    BY <2>2, <2>3, <2>4, <2>6, <2>7, <2>8
  <2>10. WriterEntered(c)' /\ WriterUnsent(c)'
    BY <2>1, <2>2, <2>3, <2>4, <2>6
  <2>11. QED
    BY <2>9, <2>10
<1>8. CASE ReaderComplete(c) \/ ReaderFails(c) \/ ReaderSpins(c)
  <2>1. CASE ReaderComplete(c)
    <3>1. hand'[Writer(c)] = hand[Writer(c)] /\ UNCHANGED <<w, wid, buf, sent, pending>>
      BY <2>1 DEF ReaderComplete
    <3>2. r[c] \in {"have", "read", "spin"}
      BY <2>1 DEF ReaderComplete
    <3>3. QED
      BY <3>1, <3>2
  <2>2. CASE ReaderFails(c) \/ ReaderSpins(c)
    <3>1. hand'[Writer(c)] = hand[Writer(c)] /\ UNCHANGED <<w, wid, buf, sent, pending>>
      BY <2>2 DEF ReaderFails, ReaderSpins
    <3>2. r[c] \in {"have", "read", "spin"}
      BY <2>2 DEF ReaderFails, ReaderSpins
    <3>3. QED
      BY <3>1, <3>2
  <2>3. QED
    BY <1>8, <2>1, <2>2
<1>9. CASE HandlerConnects(c)
  <2>1. w[c] = "off" /\ buf[c] = {} /\ sent[c] = {}
    BY <1>9 DEF HandlerConnects, Phases, FlushInv, FlushOK
  <2>2. w'[c] = "loop" /\ UNCHANGED <<buf, sent, pending>>
    BY <1>9 DEF HandlerConnects
  <2>3. QED
    BY <2>1, <2>2
<1>10. CASE HandlerCloses(c) \/ HandlerEnds(c)
  BY <1>10 DEF HandlerCloses, HandlerEnds
<1>11. ASSUME NEW i \in IDs, HandlerFailsPending(c, i) PROVE WireOK(c)'
  BY <1>11 DEF HandlerFailsPending
<1>12. QED
  BY <1>1, <1>2, <1>3, <1>4, <1>5, <1>6, <1>7, <1>8, <1>9, <1>10, <1>11 DEF ConnStep, WriterNext, ReaderNext

(* WireInv is inductive under a server that answers only what it was asked. *)
LEMMA WireNext == Rogue = {} /\ TypeInv /\ FlushInv /\ WireInv /\ [Next]_vars => WireInv'
<1> SUFFICES ASSUME Rogue = {}, TypeInv, FlushInv, WireInv, [Next]_vars, NEW d \in Conns PROVE WireOK(d)'
  BY DEF WireInv
<1>1. CASE SameConn(d)
  BY <1>1 DEF WireInv, WireOK, WireMatched, WireOnce, WriterEntered, WriterUnsent, Encoded, SameConn
<1>2. CASE ~SameConn(d)
  BY <1>2, QuietStep, OtherConns, WireConn
<1>3. QED
  BY <1>1, <1>2

(* What the theorems about matching responses and the counter start from.  *)
LEMMA WireHolds ==
  ASSUME Rogue = {} PROVE Spec => [](TypeInv /\ FlushInv /\ WireInv)
<1>1. Init => TypeInv /\ FlushInv /\ WireInv
  BY TypeInit DEF Init, FlushInv, FlushOK, WireInv, WireOK, WireMatched, WireOnce, WriterEntered, WriterUnsent, Encoded
<1>2. TypeInv /\ FlushInv /\ WireInv /\ [Next]_vars => (TypeInv /\ FlushInv /\ WireInv)'
  BY TypeNext, FlushNext, WireNext
<1>3. QED
  BY <1>1, <1>2, PTL DEF Spec

(* However msgID wraps around and whichever IDs are still pending: as long *)
(* as the server answers only requests that it received, clientReader      *)
(* finds under the ID of a response the very request that was sent with    *)
(* it, and clientWriter copies fields of an AsyncResult nobody has freed.  *)
THEOREM ResponsesMatch == ASSUME Rogue = {} PROVE Spec => []ResponseMatchesRequest
<1>1. WireInv => ResponseMatchesRequest
  BY DEF WireInv, WireOK, WireMatched, WriterEntered, Encoded, ResponseMatchesRequest
<1>2. QED
  BY <1>1, WireHolds, PTL

-----------------------------------------------------------------------------
(* The way of a call through the client.  It is placed while requestsChan, *)
(* a goroutine or a pending map has it.                                    *)

InQueue(k) == \E i \in 1 .. Len(queue) : queue[i] = k
InHand(k)  == \E g \in Goroutines : Owns(g, k)
InMap(k)   == \E c \in Conns, n \in IDs : pending[c][n] = k
Placed(k)  == InQueue(k) \/ InHand(k) \/ InMap(k)

(* callAsync accepts k in this step. *)
Accepts(k) == /\ cpc[k] \in Fresh /\ cpc[k] # "drop"
              /\ cpc'[k] = "wait" \/ (cpc'[k] = "returned" /\ ret'[k] = "sent")

(* A call gets a place only by being accepted, and gives it up only to be  *)
(* completed or stranded, unless it has no done channel.                   *)
PlaceStep(k) ==
  /\ Placed(k)' => Placed(k) \/ Accepts(k)
  /\ Placed(k) /\ HasDone(k) => Placed(k)' \/ closes'[k] > 0 \/ k \in stranded'
  /\ cpc'[k] = "wait" => cpc[k] = "wait" \/ Placed(k)'

(* Steps that move no AsyncResult. *)
LEMMA NothingMoves ==
  ASSUME NEW k \in Calls, UNCHANGED <<queue, hand, pending>>,
         \A d \in Conns : w'[d] = "have" <=> w[d] = "have"
  PROVE  Placed(k)' <=> Placed(k)
BY DEF Placed, InQueue, InHand, InMap, Owns, Goroutines

(* Steps that change what one goroutine owns. *)
LEMMA OneMoves ==
  ASSUME NEW k \in Calls, UNCHANGED <<queue, pending>>, NEW g \in Goroutines, Keeps(g)
  PROVE  /\ Placed(k) /\ (Owns(g, k) => Owns(g, k)') => Placed(k)'
         /\ Placed(k)' /\ (Owns(g, k)' => Owns(g, k)) => Placed(k)
BY DEF Placed, InQueue, InHand, InMap, Keeps

(* What the head of requestsChan leaves, the taker gets. *)
LEMMA TakePlaces ==
  ASSUME TypeInv, NEW g \in Goroutines, Keeps(g), NEW k \in Calls, hand[g] = NoCall,
         queue # <<>>, queue' = Tail(queue), UNCHANGED pending,
         \A j \in Calls : Owns(g, j)' <=> j = Head(queue)
  PROVE  Placed(k)' <=> Placed(k)
<1>1. /\ Len(queue) \in Nat \ {0} /\ Len(queue') = Len(queue) - 1
      /\ \A i \in 1 .. Len(queue') : queue'[i] = queue[i + 1]
      /\ Head(queue) = queue[1] /\ Head(queue) \in Calls
  BY QueueFacts DEF TypeInv, TypeOK
<1>2. InQueue(k) <=> InQueue(k)' \/ k = Head(queue)
  <2>1. ASSUME NEW i \in 1 .. Len(queue), queue[i] = k PROVE InQueue(k)' \/ k = Head(queue)
    <3>1. CASE i = 1
      BY <1>1, <2>1, <3>1
    <3>2. CASE i # 1
      <4>1. i - 1 \in 1 .. Len(queue') /\ queue'[i - 1] = queue[i]
        BY <1>1, <3>2
      <4>2. QED
        BY <2>1, <4>1 DEF InQueue
    <3>3. QED
      BY <3>1, <3>2
  <2>2. ASSUME NEW i \in 1 .. Len(queue'), queue'[i] = k PROVE InQueue(k)
    <3>1. i + 1 \in 1 .. Len(queue) /\ queue[i + 1] = k
      BY <1>1, <2>2
    <3>2. QED
      BY <3>1 DEF InQueue
  <2>3. k = Head(queue) => InQueue(k)
    BY <1>1 DEF InQueue
  <2>4. QED
    BY <2>1, <2>2, <2>3 DEF InQueue
<1>3. ~Owns(g, k)
  BY CallsAssumption DEF Owns
<1>4. InHand(k)' <=> InHand(k) \/ k = Head(queue)
  BY <1>3 DEF InHand, Keeps
<1>5. QED
  BY <1>2, <1>4 DEF Placed, InMap

(* What callAsync sends into requestsChan is in it. *)
LEMMA PushPlaces ==
  ASSUME TypeInv, NEW m \in Calls, NEW k \in Calls, queue' = Append(queue, m),
         UNCHANGED <<pending, hand, w>>
  PROVE  Placed(k)' <=> Placed(k) \/ k = m
<1>1. /\ \A i \in 1 .. Len(queue) : queue'[i] = queue[i]
      /\ queue'[Len(queue) + 1] = m /\ Len(queue') = Len(queue) + 1 /\ Len(queue) \in Nat
  BY PushFacts DEF TypeInv, TypeOK
<1>2. InQueue(k)' <=> InQueue(k) \/ k = m
  BY <1>1 DEF InQueue
<1>3. QED
  BY <1>2 DEF Placed, InHand, InMap, Owns

(* Steps of callAsync and CallTimeout. *)
LEMMA CallerPlaces ==
  ASSUME TypeInv, NEW m \in Calls, CallerNext(m), NEW k \in Calls
  PROVE  PlaceStep(k)
<1> USE DEF client, result, conn
<1> DEFINE SameCall == cpc'[k] = "wait" => cpc[k] = "wait"
<1>1. CASE Submit(m) \/ Retry(m)
  <2>1. /\ UNCHANGED <<pending, hand, w, stranded, closes>> /\ cpc[m] \in {"idle", "retry"}
        /\ Push(m) \/ (queue' = queue /\ cpc'[m] \in {"evict", "returned"} /\ \A j \in Calls \ {m} : cpc'[j] = cpc[j])
    BY <1>1 DEF Submit, Retry, Overflow, TypeInv, TypeOK, CallerType
  <2>2. CASE Push(m)
    <3>1. Placed(k)' <=> Placed(k) \/ k = m
      BY <2>1, <2>2, PushPlaces DEF Push
    <3>2. Accepts(m) /\ (k # m => cpc'[k] = cpc[k])
      BY <2>1, <2>2 DEF Push, Accepts, Fresh, TypeInv, TypeOK, CallerType
    <3>3. QED
      BY <3>1, <3>2 DEF PlaceStep
  <2>3. CASE ~Push(m)
    <3>1. Placed(k)' <=> Placed(k)
      BY <2>1, <2>3, NothingMoves
    <3>2. SameCall
      BY <2>1, <2>3
    <3>3. QED
      BY <3>1, <3>2 DEF PlaceStep
  <2>4. QED
    BY <2>2, <2>3
<1>2. CASE Evict(m)
  <2>1. SameCall
    BY <1>2 DEF Evict, TypeInv, TypeOK, CallerType
  <2>2. CASE queue = <<>>
    <3>1. UNCHANGED <<queue, hand, pending, w>>
      BY <1>2, <2>2 DEF Evict
    <3>2. QED
      BY <2>1, <3>1, NothingMoves DEF PlaceStep
  <2>3. CASE queue # <<>>
    <3>1. /\ hand[Caller(m)] = NoCall /\ hand'[Caller(m)] = Head(queue)
          /\ \A f \in Goroutines \ {Caller(m)} : hand'[f] = hand[f]
          /\ w' = w /\ queue' = Tail(queue) /\ UNCHANGED pending
      BY <1>2, <2>3, HandFacts DEF Evict, TypeInv, TypeOK, CallerType, Phases
    <3>2. Keeps(Caller(m)) /\ \A j \in Calls : Owns(Caller(m), j)' <=> j = Head(queue)
      BY <3>1, OneHand, HandFacts DEF Owns, Caller
    <3>3. Placed(k)' <=> Placed(k)
      BY <2>3, <3>1, <3>2, HandFacts, TakePlaces
    <3>4. QED
      BY <2>1, <3>3 DEF PlaceStep
  <2>4. QED
    BY <2>2, <2>3
<1>3. CASE DropEvicted(m)
  <2>1. /\ hand[Caller(m)] \in Calls /\ hand'[Caller(m)] = NoCall
        /\ \A f \in Goroutines \ {Caller(m)} : hand'[f] = hand[f]
        /\ w' = w /\ UNCHANGED <<queue, pending>> /\ SameCall
    BY <1>3, HandFacts DEF DropEvicted, TypeInv, TypeOK, CallerType, Phases
  <2>2. Keeps(Caller(m)) /\ ~Owns(Caller(m), k)' /\ (Owns(Caller(m), k) => k = hand[Caller(m)])
    BY <2>1, OneHand, HandFacts, CallsAssumption DEF Owns
  <2>3. k = hand[Caller(m)] /\ HasDone(k) => closes'[k] > 0
    BY <1>3, <2>1 DEF DropEvicted, Discard, CloseDone, TypeInv, TypeOK, ResultType
  <2>4. QED
    BY <2>1, <2>2, <2>3, HandFacts, OneMoves DEF PlaceStep
<1>4. CASE ReceiveDone(m) \/ Timeout(m) \/ Cancel(m)
  <2>1. UNCHANGED <<queue, hand, pending, w>> /\ SameCall
    BY <1>4 DEF ReceiveDone, Timeout, Cancel, TypeInv, TypeOK, CallerType
  <2>2. QED
    BY <2>1, NothingMoves DEF PlaceStep
<1>5. QED
  BY <1>1, <1>2, <1>3, <1>4 DEF CallerNext

(* The goroutines of a connection leave the callers where they are. *)
LEMMA CallersKept ==
  ASSUME NEW c \in Conns, ConnStep(c)
  PROVE  UNCHANGED <<cpc, ret, canceled, stopChan, starts, stranded>>
BY DEF client, result, conn, ConnStep, WriterNext, ReaderNext, WriterTake, WriterPoll, WriterStops, WriterFlush, WriterCanceled, WriterNoResponse, WriterRegister, WriterCount, WriterEncode, ReaderReceives, ReaderLookup, ReaderComplete, ReaderFails, ReaderSpins, HandlerConnects, HandlerCloses, HandlerFailsPending, HandlerEnds

(* Steps of clientWriter, clientReader and clientHandleConnection. *)
LEMMA ConnPlaces ==
  ASSUME TypeInv, NEW c \in Conns, ConnStep(c), NEW k \in Calls
  PROVE  PlaceStep(k)
<1> USE DEF client, result, conn
<1>0. cpc' = cpc
  BY CallersKept
<1>1. CASE WriterTake(c)
  <2>0. hand[Writer(c)] = NoCall
    BY <1>1 DEF WriterTake, TypeInv, Phases
  <2>1. /\ hand'[Writer(c)] = Head(queue) /\ w'[c] = "have"
        /\ \A f \in Goroutines \ {Writer(c)} : hand'[f] = hand[f]
        /\ \A d \in Conns \ {c} : w'[d] = w[d]
        /\ queue # <<>> /\ queue' = Tail(queue) /\ UNCHANGED pending
    BY <1>1, HandFacts DEF WriterTake, TypeInv, TypeOK, CallerType, ConnType
  <2>2. Keeps(Writer(c)) /\ \A j \in Calls : Owns(Writer(c), j)' <=> j = Head(queue)
    BY <2>1, OneHand, HandFacts DEF Owns, Writer
  <2>3. QED
    BY <1>0, <2>0, <2>1, <2>2, HandFacts, TakePlaces DEF PlaceStep
<1>2. CASE WriterPoll(c) \/ WriterStops(c) \/ WriterFlush(c)
  <2>1. UNCHANGED <<queue, hand, pending>> /\ \A d \in Conns : w'[d] = "have" <=> w[d] = "have"
    BY <1>2 DEF WriterPoll, WriterStops, WriterFlush, WriteOut, TypeInv, TypeOK, ConnType
  <2>2. QED
    BY <1>0, <2>1, NothingMoves DEF PlaceStep
<1>3. CASE WriterCanceled(c)
  <2>1. /\ hand[Writer(c)] \in Calls /\ hand'[Writer(c)] = NoCall
        /\ \A f \in Goroutines \ {Writer(c)} : hand'[f] = hand[f]
        /\ \A d \in Conns : Writer(d) # Writer(c) => (w'[d] = "have" <=> w[d] = "have")
        /\ UNCHANGED <<queue, pending>>
    BY <1>3, HandFacts DEF WriterCanceled, TypeInv, TypeOK, CallerType, ConnType, Phases
  <2>2. Keeps(Writer(c)) /\ ~Owns(Writer(c), k)' /\ (Owns(Writer(c), k) => k = hand[Writer(c)])
    BY <2>1, OneHand, HandFacts, CallsAssumption DEF Owns
  <2>3. k = hand[Writer(c)] /\ HasDone(k) => closes'[k] > 0
    BY <1>3, <2>1 DEF WriterCanceled, Discard, CloseDone, TypeInv, TypeOK, ResultType
  <2>4. QED
    BY <1>0, <2>1, <2>2, <2>3, HandFacts, OneMoves DEF PlaceStep
<1>4. CASE WriterNoResponse(c)
  <2>1. /\ hand' = hand /\ w'[c] # "have" /\ \A d \in Conns \ {c} : w'[d] = w[d]
        /\ UNCHANGED <<queue, pending>> /\ ~HasDone(hand[Writer(c)])
    BY <1>4 DEF WriterNoResponse, TypeInv, TypeOK, ConnType
  <2>2. Keeps(Writer(c)) /\ ~Owns(Writer(c), k)' /\ (Owns(Writer(c), k) => ~HasDone(k))
    BY <2>1 DEF Keeps, Owns, Writer, Goroutines
  <2>3. QED
    BY <1>0, <2>1, <2>2, HandFacts, OneMoves DEF PlaceStep
<1>5. CASE WriterRegister(c)
  <2> DEFINE m == hand[Writer(c)]
  <2>1. PICK i \in IDs : NextMsgID(c, i) /\ pending' = [pending EXCEPT ![c][i] = m]
    BY <1>5 DEF WriterRegister
  <2>2. pending[c][i] = NoCall
    BY <2>1 DEF NextMsgID, Taken
  <2>3. /\ m \in Calls /\ w[c] = "have" /\ w'[c] # "have" /\ hand' = hand /\ queue' = queue
        /\ \A d \in Conns \ {c} : w'[d] = w[d]
    BY <1>5, HandFacts DEF WriterRegister, TypeInv, TypeOK, CallerType, ConnType, Phases
  <2>4. Owns(Writer(c), m) /\ Keeps(Writer(c)) /\ \A j \in Calls : ~Owns(Writer(c), j)' /\ (Owns(Writer(c), j) => j = m)
    BY <2>3 DEF Owns, Keeps, Writer, Goroutines
  <2>5. InMap(k)' <=> InMap(k) \/ k = m
    BY <2>1, <2>2, CallsAssumption DEF InMap, TypeInv, TypeOK, ConnType
  <2>6. InHand(k) <=> InHand(k)' \/ k = m
    BY <2>3, <2>4, HandFacts DEF InHand, Keeps
  <2>7. QED
    BY <1>0, <2>3, <2>5, <2>6 DEF PlaceStep, Placed, InQueue
<1>6. CASE WriterCount(c) \/ WriterEncode(c)
  <2>1. /\ \A f \in Goroutines \ {Writer(c)} : hand'[f] = hand[f]
        /\ w[c] # "have" /\ w'[c] # "have" /\ UNCHANGED <<queue, pending>>
        /\ \A d \in Conns \ {c} : w'[d] = w[d]
    BY <1>6, HandFacts DEF WriterCount, WriterEncode, WriteOut, TypeInv, TypeOK, CallerType, ConnType, Phases
  <2>2. Keeps(Writer(c)) /\ ~Owns(Writer(c), k)' /\ ~Owns(Writer(c), k)
    BY <2>1 DEF Keeps, Owns, Writer, Goroutines
  <2>3. QED
    BY <1>0, <2>1, <2>2, HandFacts, OneMoves DEF PlaceStep
<1>7. CASE ReaderReceives(c)
  <2>1. PICK q \in IDs \X (Calls \cup {NoCall}) : ReaderLookup(c, q)
    BY <1>7, LookupFacts
  <2> DEFINE m == pending[c][q[1]]
  <2>2. /\ hand'[Reader(c)] = m /\ (\A f \in Goroutines \ {Reader(c)} : hand'[f] = hand[f]) /\ w' = w
        /\ hand[Reader(c)] = NoCall /\ queue' = queue
    BY <2>1, HandFacts DEF ReaderLookup, TypeInv, TypeOK, CallerType, Phases
  <2>3. Keeps(Reader(c)) /\ \A j \in Calls : (Owns(Reader(c), j)' <=> j = m) /\ ~Owns(Reader(c), j)
    BY <2>2, OneHand, HandFacts, CallsAssumption DEF Owns, Reader
  <2>4. InHand(k)' <=> InHand(k) \/ k = m
    BY <2>3, HandFacts DEF InHand, Keeps
  <2>5. InMap(k) <=> InMap(k)' \/ k = m
    <3>1. /\ q[1] \in IDs /\ pending'[c][q[1]] = NoCall
          /\ \A d \in Conns, o \in IDs : ~(d = c /\ o = q[1]) => pending'[d][o] = pending[d][o]
      BY <2>1 DEF ReaderLookup, TypeInv, TypeOK, ConnType
    <3>2. QED
      BY <3>1, CallsAssumption DEF InMap
  <2>6. QED
    BY <1>0, <2>2, <2>4, <2>5 DEF PlaceStep, Placed, InQueue
<1>8. CASE ReaderComplete(c)
  <2>1. /\ hand[Reader(c)] \in Calls /\ hand'[Reader(c)] = NoCall
        /\ \A f \in Goroutines \ {Reader(c)} : hand'[f] = hand[f]
        /\ w' = w /\ UNCHANGED <<queue, pending>>
    BY <1>8, HandFacts DEF ReaderComplete, TypeInv, TypeOK, CallerType, ConnType, Phases
  <2>2. Keeps(Reader(c)) /\ ~Owns(Reader(c), k)' /\ (Owns(Reader(c), k) => k = hand[Reader(c)])
    BY <2>1, OneHand, HandFacts, CallsAssumption DEF Owns
  <2>3. k = hand[Reader(c)] => closes'[k] > 0
    BY <1>8, <2>1 DEF ReaderComplete, CloseDone, TypeInv, TypeOK, ResultType
  <2>4. QED
    BY <1>0, <2>1, <2>2, <2>3, HandFacts, OneMoves DEF PlaceStep
<1>9. CASE ReaderFails(c) \/ ReaderSpins(c) \/ HandlerConnects(c) \/ HandlerCloses(c) \/ HandlerEnds(c)
  <2>1. UNCHANGED <<queue, hand, pending>> /\ \A d \in Conns : w'[d] = "have" <=> w[d] = "have"
    BY <1>9 DEF ReaderFails, ReaderSpins, HandlerConnects, HandlerCloses, HandlerEnds, BothDone, TypeInv, TypeOK, ConnType, Phases
  <2>2. QED
    BY <1>0, <2>1, NothingMoves DEF PlaceStep
<1>10. ASSUME NEW i \in IDs, HandlerFailsPending(c, i) PROVE PlaceStep(k)
  <2>1. UNCHANGED <<queue, hand, w>> /\ pending[c][i] \in Calls
    BY <1>10 DEF HandlerFailsPending, TypeInv, TypeOK, ConnType
  <2>2. (InMap(k)' => InMap(k)) /\ (InMap(k) => InMap(k)' \/ k = pending[c][i])
    BY <1>10, CallsAssumption DEF HandlerFailsPending, InMap, TypeInv, TypeOK, ConnType
  <2>3. k = pending[c][i] => closes'[k] > 0
    BY <1>10, <2>1 DEF HandlerFailsPending, CloseDone, TypeInv, TypeOK, ResultType
  <2>4. QED
    BY <1>0, <2>1, <2>2, <2>3 DEF PlaceStep, Placed, InQueue, InHand, Owns
<1>11. QED
  BY <1>1, <1>2, <1>3, <1>4, <1>5, <1>6, <1>7, <1>8, <1>9, <1>10 DEF ConnStep, WriterNext, ReaderNext

(* Every step: a call changes its place only as PlaceStep allows. *)
LEMMA Places ==
  ASSUME TypeInv, [Next]_vars, NEW k \in Calls
  PROVE  PlaceStep(k)
<1> USE DEF client, result, conn
<1>1. CASE Start
  <2>1. UNCHANGED <<hand, pending, w, cpc>> /\ stranded' = stranded \cup Range(queue) /\ Len(queue') = 0
    BY <1>1 DEF Start
  <2>2. InQueue(k) => k \in stranded'
    BY <2>1 DEF InQueue, Range, TypeInv, TypeOK, ClientType
  <2>3. ~InQueue(k)'
    BY <2>1 DEF InQueue
  <2>4. QED
    BY <2>1, <2>2, <2>3 DEF PlaceStep, Placed, InHand, InMap, Owns
<1>2. CASE Stop \/ StopReturns \/ UNCHANGED vars
  <2>1. UNCHANGED <<queue, hand, pending, w, cpc>>
    BY <1>2 DEF Stop, StopReturns, vars
  <2>2. QED
    BY <2>1, NothingMoves DEF PlaceStep
<1>3. ASSUME NEW c \in Conns, HandlerDials(c) \/ HandlerStops(c) \/ HandlerRejected(c) \/ HandlerLoops(c) \/ LinkBreaks(c)
      PROVE  PlaceStep(k)
  <2>1. UNCHANGED <<queue, hand, pending, w, cpc>>
    BY <1>3 DEF HandlerDials, HandlerStops, HandlerRejected, HandlerLoops, LinkBreaks
  <2>2. QED
    BY <2>1, NothingMoves DEF PlaceStep
<1>4. QED
  BY <1>1, <1>2, <1>3, CallerPlaces, ConnPlaces DEF Next, Finished, HandlerNext, ConnStep

-----------------------------------------------------------------------------
(* Only requests with a done channel wait for a response. *)

RespondOK(c) ==
  /\ \A i \in IDs : pending[c][i] \in Calls => HasDone(pending[c][i])
  /\ hand[Reader(c)] \in Calls => HasDone(hand[Reader(c)])

RespondInv == \A c \in Conns : RespondOK(c)

(* clientWriter registers no request that skips its response. *)
LEMMA RespondConn ==
  ASSUME TypeInv, RespondInv, NEW c \in Conns, ConnStep(c)
  PROVE  RespondOK(c)'
<1> USE HandFacts, CallsAssumption DEF client, result, conn, RespondInv, RespondOK, TypeInv, TypeOK, CallerType, ConnType
<1>1. CASE WriterRegister(c)
  <2>1. PICK i \in IDs : pending' = [pending EXCEPT ![c][i] = hand[Writer(c)]]
    BY <1>1 DEF WriterRegister
  <2>2. HasDone(hand[Writer(c)]) /\ hand' = hand
    BY <1>1 DEF WriterRegister
  <2>3. QED
    BY <2>1, <2>2 DEF HasDone
<1>2. CASE ReaderReceives(c)
  <2>1. PICK q \in IDs \X (Calls \cup {NoCall}) : ReaderLookup(c, q)
    BY <1>2, LookupFacts
  <2>2. q[1] \in IDs /\ hand'[Reader(c)] = pending[c][q[1]]
    BY <2>1 DEF ReaderLookup
  <2>3. \A i \in IDs : pending'[c][i] \in {pending[c][i], NoCall}
    BY <2>1 DEF ReaderLookup
  <2>4. \A i \in IDs : pending'[c][i] \in Calls => HasDone(pending'[c][i])
    BY <2>3, ZenonT(40)
  <2>5. hand'[Reader(c)] \in Calls => HasDone(hand'[Reader(c)])
    BY <2>2
  <2>6. QED
    BY <2>4, <2>5 DEF HasDone
<1>3. ASSUME NEW i \in IDs, HandlerFailsPending(c, i) PROVE RespondOK(c)'
  <2>1. \A j \in IDs : pending'[c][j] \in {pending[c][j], NoCall}
    BY <1>3 DEF HandlerFailsPending
  <2>2. hand' = hand
    BY <1>3 DEF HandlerFailsPending
  <2>3. QED
    BY <2>1, <2>2, ZenonT(40) DEF HasDone
<1>4. CASE \/ WriterTake(c) \/ WriterPoll(c) \/ WriterStops(c) \/ WriterFlush(c) \/ WriterCanceled(c)
           \/ WriterNoResponse(c) \/ WriterCount(c) \/ WriterEncode(c) \/ ReaderComplete(c)
           \/ ReaderFails(c) \/ ReaderSpins(c) \/ HandlerConnects(c) \/ HandlerCloses(c) \/ HandlerEnds(c)
  <2>1. pending' = pending
    BY <1>4 DEF WriterTake, WriterPoll, WriterStops, WriterFlush, WriterCanceled, WriterNoResponse, WriterCount, WriterEncode, ReaderComplete, ReaderFails, ReaderSpins, HandlerConnects, HandlerCloses, HandlerEnds
  <2>2. CASE WriterTake(c) \/ WriterCanceled(c) \/ WriterCount(c) \/ WriterEncode(c) \/ ReaderComplete(c)
    <3>1. hand'[Reader(c)] \in {hand[Reader(c)], NoCall}
      BY <2>2 DEF WriterTake, WriterCanceled, WriterCount, WriterEncode, ReaderComplete
    <3>2. QED
      BY <2>1, <3>1 DEF HasDone
  <2>3. CASE UNCHANGED hand
    BY <2>1, <2>3 DEF HasDone
  <2>4. QED
    BY <1>4, <2>2, <2>3 DEF WriterPoll, WriterStops, WriterFlush, WriterNoResponse, ReaderFails, ReaderSpins, HandlerConnects, HandlerCloses, HandlerEnds
<1>5. QED
  BY <1>1, <1>2, <1>3, <1>4 DEF ConnStep, WriterNext, ReaderNext

(* RespondInv is inductive. *)
LEMMA RespondNext == TypeInv /\ RespondInv /\ [Next]_vars => RespondInv'
<1> SUFFICES ASSUME TypeInv, RespondInv, [Next]_vars, NEW d \in Conns PROVE RespondOK(d)'
  BY DEF RespondInv
<1>1. CASE SameConn(d)
  BY <1>1 DEF RespondInv, RespondOK, SameConn, HasDone
<1>2. CASE ~SameConn(d)
  BY <1>2, QuietStep, OtherConns, RespondConn
<1>3. QED
  BY <1>1, <1>2

(* A placed call has not been completed. *)
LEMMA PlacedOpen ==
  ASSUME TypeInv, Exclusive, NEW k \in Calls, Placed(k)
  PROVE  closes[k] = 0
BY DEF Placed, InQueue, InHand, InMap, Exclusive, QueueAlone, HandAlone, PendingAlone

(* Done is closed at most once, by whoever the call is placed with, and    *)
(* with ErrCanceled only if it was canceled.                               *)
Completes(m, e) ==
  /\ CloseDone(m, e) /\ HasDone(m) /\ Placed(m)
  /\ e = "canceled" => canceled[m]

LEMMA CompletionStep ==
  ASSUME TypeInv, Exclusive, RespondInv, [Next]_vars
  PROVE  UNCHANGED <<outcome, closes>> \/ \E m \in Calls, e \in Outcomes : Completes(m, e)
<1> USE DEF client, result, conn
<1>1. ASSUME NEW k \in Calls, DropEvicted(k)
      PROVE  UNCHANGED <<outcome, closes>> \/ \E m \in Calls, e \in Outcomes : Completes(m, e)
  <2> DEFINE m == hand[Caller(k)]
  <2>1. m \in Calls /\ Owns(Caller(k), m)
    BY <1>1, HandFacts DEF DropEvicted, Owns, Caller, TypeInv, TypeOK, CallerType, Phases
  <2>2. Placed(m)
    BY <2>1, HandFacts DEF Placed, InHand
  <2>3. QED
    BY <1>1, <2>1, <2>2 DEF DropEvicted, Discard, Completes, Outcomes
<1>2. ASSUME NEW c \in Conns, WriterCanceled(c)
      PROVE  UNCHANGED <<outcome, closes>> \/ \E m \in Calls, e \in Outcomes : Completes(m, e)
  <2> DEFINE m == hand[Writer(c)]
  <2>1. m \in Calls /\ Owns(Writer(c), m)
    BY <1>2, HandFacts DEF WriterCanceled, Owns, Writer, TypeInv, TypeOK, CallerType, Phases
  <2>2. Placed(m)
    BY <2>1, HandFacts DEF Placed, InHand
  <2>3. QED
    BY <1>2, <2>1, <2>2 DEF WriterCanceled, Discard, Completes, Outcomes
<1>3. ASSUME NEW c \in Conns, ReaderComplete(c)
      PROVE  \E m \in Calls, e \in Outcomes : Completes(m, e)
  <2> DEFINE m == hand[Reader(c)]
  <2>1. m \in Calls /\ Owns(Reader(c), m)
    BY <1>3, HandFacts DEF ReaderComplete, Owns, Reader, TypeInv, TypeOK, CallerType, Phases
  <2>2. Placed(m) /\ HasDone(m)
    BY <2>1, HandFacts DEF Placed, InHand, RespondInv, RespondOK
  <2>3. PICK e \in {"ok", "server"} : CloseDone(m, e)
    BY <1>3 DEF ReaderComplete
  <2>4. Completes(m, e) /\ e \in Outcomes
    BY <2>2, <2>3 DEF Completes, Outcomes
  <2>5. QED
    BY <2>1, <2>4
<1>4. ASSUME NEW c \in Conns, NEW i \in IDs, HandlerFailsPending(c, i)
      PROVE  \E m \in Calls, e \in Outcomes : Completes(m, e)
  <2> DEFINE m == pending[c][i]
  <2>1. m \in Calls /\ herr[c] \in Outcomes \ {"canceled"}
    BY <1>4 DEF HandlerFailsPending, TypeInv, TypeOK, ConnType, Outcomes
  <2>2. Placed(m) /\ HasDone(m)
    BY <2>1 DEF Placed, InMap, RespondInv, RespondOK
  <2>3. QED
    BY <1>4, <2>1, <2>2 DEF HandlerFailsPending, Completes
<1>5. ASSUME NEW k \in Calls, CallerNext(k), ~DropEvicted(k) PROVE UNCHANGED <<outcome, closes>>
  BY <1>5 DEF CallerNext, Submit, Evict, Retry, ReceiveDone, Timeout, Cancel
<1>6. ASSUME NEW c \in Conns, WriterNext(c), ~WriterCanceled(c) PROVE UNCHANGED <<outcome, closes>>
  BY <1>6 DEF WriterNext, WriterTake, WriterPoll, WriterStops, WriterFlush, WriterNoResponse, WriterRegister, WriterCount, WriterEncode
<1>7. ASSUME NEW c \in Conns, ReaderNext(c), ~ReaderComplete(c) PROVE UNCHANGED <<outcome, closes>>
  BY <1>7 DEF ReaderNext, ReaderReceives, ReaderLookup, ReaderFails, ReaderSpins
<1>8. ASSUME NEW c \in Conns, HandlerNext(c) \/ LinkBreaks(c), ~\E i \in IDs : HandlerFailsPending(c, i) PROVE UNCHANGED <<outcome, closes>>
  BY <1>8 DEF HandlerNext, HandlerDials, HandlerStops, HandlerConnects, HandlerRejected, HandlerCloses, HandlerEnds, HandlerLoops, LinkBreaks
<1>9. CASE Start \/ Stop \/ StopReturns \/ UNCHANGED vars
  BY <1>9 DEF Start, Stop, StopReturns, vars
<1>10. QED
  BY <1>1, <1>2, <1>3, <1>4, <1>5, <1>6, <1>7, <1>8, <1>9 DEF Next, Finished

(* What a step does to the callers: nothing another goroutine can see, or  *)
(* one of them accepts, is refused, returns, times out or cancels.         *)

CallerIdle ==
  /\ UNCHANGED <<ret, canceled>>
  /\ \A k \in Calls : cpc'[k] = cpc[k] \/ (cpc[k] \in Fresh /\ cpc'[k] \in Fresh)

CallerAccepts(k) ==
  /\ cpc[k] \in Fresh /\ canceled' = canceled
  /\ \/ HasDone(k) /\ cpc'[k] = "wait" /\ ret' = ret
     \/ ~HasDone(k) /\ cpc'[k] = "returned" /\ ret' = [ret EXCEPT ![k] = "sent"]

CallerRefused(k) ==
  /\ cpc[k] \in Fresh /\ cpc'[k] = "returned" /\ ret' = [ret EXCEPT ![k] = "overflow"]
  /\ canceled' = canceled

CallerReturns(k) ==
  /\ cpc[k] = "wait" /\ closes[k] > 0
  /\ cpc'[k] = "returned" /\ ret' = [ret EXCEPT ![k] = outcome[k]] /\ canceled' = canceled

CallerTimesOut(k) ==
  /\ cpc[k] = "wait" /\ Kind[k] = "call"
  /\ cpc'[k] = "returned" /\ ret' = [ret EXCEPT ![k] = "timeout"]
  /\ canceled' = [canceled EXCEPT ![k] = TRUE]

CallerCancels(k) ==
  /\ cpc[k] = "wait" /\ Kind[k] = "async"
  /\ cpc'[k] = "wait" /\ ret' = ret /\ canceled' = [canceled EXCEPT ![k] = TRUE]

CallerMoves(k) ==
  /\ UNCHANGED <<outcome, closes>> /\ \A j \in Calls \ {k} : cpc'[j] = cpc[j]
  /\ \/ CallerAccepts(k) \/ CallerRefused(k) \/ CallerReturns(k)
     \/ CallerTimesOut(k) \/ CallerCancels(k)

(* The steps of callAsync, CallTimeout and Cancel are among those. *)
LEMMA CallerStep ==
  ASSUME TypeInv, [Next]_vars
  PROVE  CallerIdle \/ \E k \in Calls : CallerMoves(k)
<1> USE DEF client, result, conn, TypeInv, TypeOK, CallerType
<1>1. ASSUME NEW k \in Calls, Submit(k) PROVE CallerIdle \/ CallerMoves(k)
  <2>1. CASE Push(k)
    BY <1>1, <2>1 DEF Submit, Push, CallerMoves, CallerAccepts, Fresh
  <2>2. CASE Overflow(k)
    BY <1>1, <2>2 DEF Submit, Overflow, CallerMoves, CallerRefused, Fresh
  <2>3. CASE cpc' = [cpc EXCEPT ![k] = "evict"] /\ UNCHANGED <<queue, ret>>
    BY <1>1, <2>3 DEF Submit, CallerIdle, Fresh
  <2>4. QED
    BY <1>1, <2>1, <2>2, <2>3 DEF Submit
<1>2. ASSUME NEW k \in Calls, Retry(k) PROVE CallerMoves(k)
  <2>1. CASE Push(k)
    BY <1>2, <2>1 DEF Retry, Push, CallerMoves, CallerAccepts, Fresh
  <2>2. CASE Overflow(k)
    BY <1>2, <2>2 DEF Retry, Overflow, CallerMoves, CallerRefused, Fresh
  <2>3. QED
    BY <1>2, <2>1, <2>2 DEF Retry
<1>3. ASSUME NEW k \in Calls, Evict(k) \/ DropEvicted(k) PROVE CallerIdle
  BY <1>3 DEF Evict, DropEvicted, CallerIdle, Fresh
<1>4. ASSUME NEW k \in Calls, ReceiveDone(k) PROVE CallerMoves(k)
  BY <1>4 DEF ReceiveDone, CallerMoves, CallerReturns
<1>5. ASSUME NEW k \in Calls, Timeout(k) PROVE CallerMoves(k)
  BY <1>5 DEF Timeout, CallerMoves, CallerTimesOut
<1>6. ASSUME NEW k \in Calls, Cancel(k) PROVE CallerMoves(k)
  BY <1>6 DEF Cancel, CallerMoves, CallerCancels
<1>7. ASSUME NEW c \in Conns, ConnStep(c) PROVE CallerIdle
  BY <1>7, CallersKept DEF CallerIdle
<1>8. ASSUME NEW c \in Conns, HandlerDials(c) \/ HandlerStops(c) \/ HandlerRejected(c) \/ HandlerLoops(c) \/ LinkBreaks(c)
      PROVE  CallerIdle
  BY <1>8 DEF HandlerDials, HandlerStops, HandlerRejected, HandlerLoops, LinkBreaks, CallerIdle
<1>9. CASE Start \/ Stop \/ StopReturns \/ UNCHANGED vars
  BY <1>9 DEF Start, Stop, StopReturns, vars, CallerIdle
<1>10. QED
  BY <1>1, <1>2, <1>3, <1>4, <1>5, <1>6, <1>7, <1>8, <1>9 DEF Next, Finished, CallerNext, HandlerNext, ConnStep

(* The inductive invariant behind the refinement: a call that has not      *)
(* returned was told nothing, Error and Response are set exactly when Done *)
(* is closed, and whatever is placed has been accepted.                    *)

Untold(k)  == cpc[k] # "returned" => ret[k] = "none"
Settled(k) == closes[k] = 0 <=> outcome[k] = "none"
Admitted(k)  == cpc[k] = "wait" \/ (cpc[k] = "returned" /\ ret[k] \in {"sent", "timeout"})

CallInv == \A k \in Calls : Untold(k) /\ Settled(k) /\ (Placed(k) => Admitted(k))

SafetyInv == TypeInv /\ Exclusive /\ RespondInv /\ CallInv

(* CallInv is inductive. *)
LEMMA CallNext == SafetyInv /\ [Next]_vars => CallInv'
<1> SUFFICES ASSUME SafetyInv, [Next]_vars, NEW k \in Calls
             PROVE  (Untold(k) /\ Settled(k) /\ (Placed(k) => Admitted(k)))'
  BY DEF CallInv
<1> USE DEF SafetyInv
<1>1. Untold(k) /\ Settled(k) /\ (Placed(k) => Admitted(k)) /\ cpc[k] \in Fresh \cup {"wait", "returned"}
  BY DEF CallInv, TypeInv, TypeOK, CallerType, Fresh
<1>2. Settled(k)'
  <2>1. CASE UNCHANGED <<outcome, closes>>
    BY <1>1, <2>1 DEF Settled
  <2>2. ASSUME NEW m \in Calls, NEW e \in Outcomes, Completes(m, e) PROVE Settled(k)'
    <3>1. e # "none" /\ closes[m] \in Nat
      BY DEF Outcomes, TypeInv, TypeOK, ResultType
    <3>2. QED
      BY <1>1, <2>2, <3>1 DEF Completes, CloseDone, Settled, TypeInv, TypeOK, ResultType
  <2>3. QED
    BY <2>1, <2>2, CompletionStep
<1>3. PlaceStep(k)
  BY Places
<1>4. CASE CallerIdle
  <2>1. cpc'[k] = cpc[k] \/ (cpc[k] \in Fresh /\ cpc'[k] \in Fresh)
    BY <1>4 DEF CallerIdle
  <2>2. ret'[k] = ret[k]
    BY <1>4 DEF CallerIdle
  <2>3. ~Accepts(k)
    BY <2>1 DEF Accepts, Fresh
  <2>4. Untold(k)' /\ (Placed(k) => Admitted(k)')
    BY <1>1, <2>1, <2>2 DEF Untold, Admitted, Fresh
  <2>5. QED
    BY <1>2, <1>3, <2>3, <2>4 DEF PlaceStep
<1>5. ASSUME NEW j \in Calls, CallerMoves(j)
      PROVE  (Untold(k) /\ Settled(k) /\ (Placed(k) => Admitted(k)))'
  <2> USE DEF TypeInv, TypeOK, CallerType
  <2>1. CASE j # k
    <3>1. cpc'[k] = cpc[k] /\ ret'[k] = ret[k]
      BY <1>5, <2>1 DEF CallerMoves, CallerAccepts, CallerRefused, CallerReturns, CallerTimesOut, CallerCancels
    <3>2. ~Accepts(k)
      BY <3>1 DEF Accepts, Fresh
    <3>3. QED
      BY <1>1, <1>2, <1>3, <3>1, <3>2 DEF PlaceStep, Untold, Admitted
  <2>2. CASE j = k
    <3>1. CASE CallerAccepts(k)
      BY <1>1, <1>2, <3>1 DEF CallerAccepts, Untold, Admitted, Fresh
    <3>2. CASE CallerRefused(k)
      <4>1. ~Placed(k) /\ cpc'[k] = "returned" /\ ret'[k] = "overflow"
        BY <1>1, <3>2 DEF CallerRefused, Admitted, Fresh
      <4>2. ~Accepts(k)
        BY <4>1 DEF Accepts
      <4>3. QED
        BY <1>2, <1>3, <4>1, <4>2 DEF PlaceStep, Untold
    <3>3. CASE CallerReturns(k)
      <4>1. ~Placed(k)
        BY <3>3, PlacedOpen DEF CallerReturns
      <4>2. ~Accepts(k) /\ cpc'[k] = "returned"
        BY <3>3 DEF CallerReturns, Accepts, Fresh
      <4>3. QED
        BY <1>2, <1>3, <4>1, <4>2 DEF PlaceStep, Untold
    <3>4. CASE CallerTimesOut(k)
      BY <1>2, <3>4 DEF CallerTimesOut, Untold, Admitted
    <3>5. CASE CallerCancels(k)
      BY <1>1, <1>2, <3>5 DEF CallerCancels, Untold, Admitted
    <3>6. QED
      BY <1>5, <2>2, <3>1, <3>2, <3>3, <3>4, <3>5 DEF CallerMoves
  <2>3. QED
    BY <2>1, <2>2
<1>6. QED
  BY <1>4, <1>5, CallerStep

(* All parts together are inductive. *)
LEMMA SafetyInit == Init => SafetyInv
<1> SUFFICES ASSUME Init PROVE RespondInv /\ CallInv
  BY TypeInit, ExclusiveInit DEF SafetyInv
<1>1. TypeInv /\ Exclusive
  BY TypeInit, ExclusiveInit
<1>2. RespondInv
  BY CallsAssumption, HandFacts DEF Init, RespondInv, RespondOK
<1>3. ASSUME NEW k \in Calls PROVE ~Placed(k)
  BY <1>1 DEF Init, Exclusive, FreshNowhere, Fresh, NotPending, Placed, InQueue, InHand, InMap
<1>4. QED
  BY <1>2, <1>3 DEF Init, CallInv, Untold, Settled

(* SafetyInv is inductive. *)
LEMMA SafetyNext == SafetyInv /\ [Next]_vars => SafetyInv'
BY TypeNext, ExclusiveNext, RespondNext, CallNext DEF SafetyInv

(* SafetyInv holds in every state of the client. *)
LEMMA Safety == Spec => []SafetyInv
BY SafetyInit, SafetyNext, PTL DEF Spec

-----------------------------------------------------------------------------
(* NoLostCall in terms of places. *)
NoLost == \A k \in Calls :
  HasDone(k) /\ cpc[k] = "wait" /\ k \notin stranded => Placed(k) \/ closes[k] > 0

(* A completed call stays completed, and what was stranded stays stranded. *)
LEMMA OnceClosed ==
  ASSUME SafetyInv, [Next]_vars, NEW k \in Calls, closes[k] > 0
  PROVE  closes'[k] = closes[k] /\ outcome'[k] = outcome[k]
<1>1. CASE UNCHANGED <<outcome, closes>>
  BY <1>1
<1>2. ASSUME NEW m \in Calls, NEW e \in Outcomes, Completes(m, e)
      PROVE  closes'[k] = closes[k] /\ outcome'[k] = outcome[k]
  <2>1. m # k
    BY <1>2, PlacedOpen DEF Completes, SafetyInv
  <2>2. QED
    BY <1>2, <2>1 DEF Completes, CloseDone, SafetyInv, TypeInv, TypeOK, ResultType
<1>3. QED
  BY <1>1, <1>2, CompletionStep DEF SafetyInv

(* Start adds to what is stranded; nothing is taken out of a requestsChan  *)
(* that was replaced.                                                      *)
LEMMA StrandedGrows ==
  ASSUME [Next]_vars PROVE stranded \subseteq stranded'
<1> USE DEF client, result, conn
<1>1. ASSUME NEW k \in Calls, CallerNext(k) PROVE stranded' = stranded
  BY <1>1 DEF CallerNext, Submit, Evict, DropEvicted, Retry, ReceiveDone, Timeout, Cancel
<1>2. ASSUME NEW c \in Conns, HandlerDials(c) \/ HandlerStops(c) \/ HandlerRejected(c) \/ HandlerLoops(c) \/ LinkBreaks(c)
      PROVE  stranded' = stranded
  BY <1>2 DEF HandlerDials, HandlerStops, HandlerRejected, HandlerLoops, LinkBreaks
<1>3. CASE Start
  BY <1>3 DEF Start
<1>4. CASE Stop \/ StopReturns \/ UNCHANGED vars
  BY <1>4 DEF Stop, StopReturns, vars
<1>5. QED
  BY <1>1, <1>2, <1>3, <1>4, CallersKept DEF Next, Finished, HandlerNext, ConnStep

(* NoLost is inductive. *)
LEMMA NoLostNext == SafetyInv /\ NoLost /\ [Next]_vars => NoLost'
<1> SUFFICES ASSUME SafetyInv, NoLost, [Next]_vars, NEW k \in Calls,
                    HasDone(k), cpc'[k] = "wait", k \notin stranded'
             PROVE  Placed(k)' \/ closes'[k] > 0
  BY DEF NoLost, HasDone
<1>1. PlaceStep(k)
  BY Places DEF SafetyInv
<1>2. CASE cpc[k] = "wait"
  <2>1. Placed(k) \/ closes[k] > 0
    BY <1>2, StrandedGrows DEF NoLost
  <2>2. QED
    BY <1>1, <2>1, OnceClosed DEF PlaceStep
<1>3. CASE cpc[k] # "wait"
  BY <1>1, <1>3 DEF PlaceStep
<1>4. QED
  BY <1>2, <1>3

(* NoLost says what NoLostCall says. *)
LEMMA NoLostImplies == TypeInv /\ NoLost => NoLostCall
<1> SUFFICES ASSUME TypeInv, NoLost, NEW k \in Calls, HasDone(k), cpc[k] = "wait", k \notin stranded
             PROVE  Owners(k) # {}
  BY DEF NoLostCall
<1>1. DOMAIN queue = 1 .. Len(queue) /\ closes[k] \in Nat
  BY DEF TypeInv, TypeOK, ClientType, ResultType
<1>2. CASE InQueue(k)
  <2>1. PICK i \in 1 .. Len(queue) : queue[i] = k
    BY <1>2 DEF InQueue
  <2>2. <<"queue", i>> \in Owners(k)
    BY <1>1, <2>1 DEF Owners
  <2>3. QED
    BY <2>2
<1>3. CASE InHand(k)
  BY <1>3 DEF InHand, Owners
<1>4. CASE InMap(k)
  <2>1. PICK c \in Conns, n \in IDs : pending[c][n] = k
    BY <1>4 DEF InMap
  <2>2. <<c, n>> \in {q \in Conns \X IDs : pending[q[1]][q[2]] = k}
    BY <2>1
  <2>3. <<"pending", <<c, n>>>> \in Owners(k)
    BY <2>2 DEF Owners
  <2>4. QED
    BY <2>3
<1>5. CASE closes[k] > 0
  <2>1. 1 \in 1 .. closes[k]
    BY <1>1, <1>5
  <2>2. <<"closed", 1>> \in Owners(k)
    BY <2>1 DEF Owners
  <2>3. QED
    BY <2>2
<1>6. QED
  BY <1>2, <1>3, <1>4, <1>5 DEF NoLost, Placed

(* No call is forgotten, for any number of callers, connections and        *)
(* restarts and whatever the network and the server do: one that waits for *)
(* Done is completed, or requestsChan, a goroutine or a pending map has    *)
(* it, unless Start has replaced the requestsChan it was in.               *)
THEOREM NothingLost == Spec => []NoLostCall
<1>1. Init => NoLost
  BY DEF Init, NoLost
<1>2. SafetyInv /\ NoLost /\ [Next]_vars => NoLost'
  BY NoLostNext
<1>3. SafetyInv /\ NoLost => NoLostCall
  BY NoLostImplies DEF SafetyInv
<1>4. QED
  BY <1>1, <1>2, <1>3, Safety, PTL DEF Spec

(* requestsChan grows only by a call that callAsync has not sent before. *)
LEMMA QueueStep ==
  ASSUME TypeInv, [Next]_vars, NEW k \in Calls, InQueue(k)'
  PROVE  InQueue(k) \/ cpc[k] \in Fresh
<1> USE DEF client, result, conn
<1>1. CASE \E m \in Calls : cpc[m] \in Fresh /\ queue' = Append(queue, m)
  <2>1. PICK m \in Calls : cpc[m] \in Fresh /\ queue' = Append(queue, m)
    BY <1>1
  <2>2. QED
    BY <2>1, PushFacts DEF InQueue, TypeInv, TypeOK
<1>2. CASE queue # <<>> /\ queue' = Tail(queue)
  <2>1. /\ Len(queue) \in Nat \ {0} /\ Len(queue') = Len(queue) - 1
        /\ \A i \in 1 .. Len(queue') : queue'[i] = queue[i + 1]
    BY <1>2, QueueFacts DEF TypeInv, TypeOK
  <2>2. PICK i \in 1 .. Len(queue') : queue'[i] = k
    BY DEF InQueue
  <2>3. i + 1 \in 1 .. Len(queue) /\ queue[i + 1] = k
    BY <2>1, <2>2
  <2>4. QED
    BY <2>3 DEF InQueue
<1>3. CASE queue' = queue
  BY <1>3 DEF InQueue
<1>4. CASE queue' = <<>>
  BY <1>4 DEF InQueue
<1>5. ASSUME NEW m \in Calls, CallerNext(m)
      PROVE  \/ cpc[m] \in Fresh /\ queue' = Append(queue, m)
             \/ queue # <<>> /\ queue' = Tail(queue)
             \/ queue' = queue
  BY <1>5 DEF CallerNext, Submit, Evict, DropEvicted, Retry, ReceiveDone, Timeout, Cancel, Push, Overflow, Fresh
<1>6. ASSUME NEW c \in Conns, ConnStep(c)
      PROVE  queue' = queue \/ (queue # <<>> /\ queue' = Tail(queue))
  BY <1>6 DEF ConnStep, WriterNext, ReaderNext, WriterTake, WriterPoll, WriterStops, WriterFlush, WriterCanceled, WriterNoResponse, WriterRegister, WriterCount, WriterEncode, ReaderReceives, ReaderLookup, ReaderComplete, ReaderFails, ReaderSpins, HandlerConnects, HandlerCloses, HandlerFailsPending, HandlerEnds
<1>7. ASSUME NEW c \in Conns, HandlerDials(c) \/ HandlerStops(c) \/ HandlerRejected(c) \/ HandlerLoops(c) \/ LinkBreaks(c)
      PROVE  queue' = queue
  BY <1>7 DEF HandlerDials, HandlerStops, HandlerRejected, HandlerLoops, LinkBreaks
<1>8. CASE Start \/ Stop \/ StopReturns \/ UNCHANGED vars
  BY <1>3, <1>4, <1>8 DEF Start, Stop, StopReturns, vars
<1>9. QED
  BY <1>1, <1>2, <1>3, <1>5, <1>6, <1>7, <1>8 DEF Next, Finished, HandlerNext, ConnStep

(* Error and Response are final once Done is closed, and a request that    *)
(* has been registered or completed never enters requestsChan again: the   *)
(* client sends no request twice, for every choice of the constants.       *)
THEOREM DoneStaysFinal == Spec => DoneIsFinal
<1>1. ASSUME SafetyInv, SafetyInv', [Next]_vars, NEW k \in Calls
      PROVE  /\ closes[k] > 0 => closes'[k] = closes[k] /\ outcome'[k] = outcome[k]
             /\ closes[k] > 0 \/ (\E c \in Conns, i \in IDs : pending[c][i] = k)
                  => k \notin Range(queue')
  <2>1. closes[k] > 0 => closes'[k] = closes[k] /\ outcome'[k] = outcome[k]
    BY <1>1, OnceClosed
  <2>2. closes[k] > 0 \/ InMap(k) => ~InQueue(k) /\ cpc[k] \notin Fresh
    BY <1>1 DEF SafetyInv, Exclusive, QueueAlone, FreshNowhere, NotPending, InQueue, InMap
  <2>3. DOMAIN queue' = 1 .. Len(queue')
    BY <1>1 DEF SafetyInv, TypeInv, TypeOK, ClientType
  <2>4. k \in Range(queue') => InQueue(k)'
    BY <2>3 DEF Range, InQueue
  <2>5. QED
    BY <1>1, <2>1, <2>2, <2>4, QueueStep DEF SafetyInv, InMap
<1>2. SafetyInv /\ SafetyInv' /\ [Next]_vars =>
        [\A k \in Calls :
           /\ closes[k] > 0 => closes'[k] = closes[k] /\ outcome'[k] = outcome[k]
           /\ closes[k] > 0 \/ (\E c \in Conns, i \in IDs : pending[c][i] = k)
                => k \notin Range(queue')]_vars
  BY <1>1
<1>3. QED
  BY <1>2, Safety, PTL DEF Spec, DoneIsFinal

-----------------------------------------------------------------------------
(* The refinement: one step of the client is at most one step of RpcCall. *)

(* Completing a call does not change which ones were accepted. *)
LEMMA AcceptedKept ==
  ASSUME SafetyInv, [Next]_vars, CallerIdle
  PROVE  Accepted' = Accepted
<1> SUFFICES ASSUME NEW k \in Calls
             PROVE  \/ cpc'[k] = "wait"
                    \/ cpc'[k] = "returned" /\ (ret'[k] = "overflow" => closes'[k] > 0)
                    <=> \/ cpc[k] = "wait"
                        \/ cpc[k] = "returned" /\ (ret[k] = "overflow" => closes[k] > 0)
  BY DEF Accepted
<1>1. ret' = ret /\ (cpc'[k] = cpc[k] \/ (cpc[k] \in Fresh /\ cpc'[k] \in Fresh))
  BY DEF CallerIdle
<1>2. CASE closes'[k] = closes[k]
  BY <1>1, <1>2 DEF Fresh
<1>3. CASE closes'[k] # closes[k]
  <2>1. Placed(k)
    BY <1>3, CompletionStep DEF SafetyInv, Completes, CloseDone, TypeInv, TypeOK, ResultType
  <2>2. Admitted(k)
    BY <2>1 DEF SafetyInv, CallInv
  <2>3. QED
    BY <1>1, <2>2 DEF Admitted, Fresh
<1>4. QED
  BY <1>2, <1>3

(* Every step of the client is a step of RpcCall or stutters there. *)
LEMMA AbstractStep ==
  ASSUME SafetyInv, [Next]_vars
  PROVE  [Abstract!Next]_(Abstract!vars)
<1> DEFINE C == {k \in Calls : canceled[k]}
<1>0. /\ cpc \in [Calls -> Fresh \cup {"wait", "returned"}] /\ ret \in [Calls -> Returns \cup {"none"}]
      /\ canceled \in [Calls -> BOOLEAN] /\ closes \in [Calls -> Nat]
      /\ \A k \in Calls : Untold(k) /\ Settled(k) /\ (Placed(k) => Admitted(k))
  BY DEF SafetyInv, CallInv, TypeInv, TypeOK, CallerType, ResultType, Fresh
<1>1. CASE CallerIdle
  <2>1. Accepted' = Accepted /\ C' = C /\ ret' = ret
    BY <1>1, AcceptedKept DEF CallerIdle
  <2>2. CASE UNCHANGED <<outcome, closes>>
    BY <2>1, <2>2 DEF Abstract!vars
  <2>3. ASSUME NEW m \in Calls, NEW e \in Outcomes, Completes(m, e) PROVE Abstract!Next
    <3>1. Admitted(m) /\ closes[m] = 0 /\ outcome[m] = "none"
      BY <1>0, <2>3, PlacedOpen DEF Completes, SafetyInv, Settled
    <3>2. m \in Accepted
      BY <3>1 DEF Admitted, Accepted
    <3>3. e = "canceled" => m \in C
      BY <2>3 DEF Completes
    <3>4. Abstract!Complete(m, e)
      BY <2>1, <2>3, <3>1, <3>2, <3>3 DEF Abstract!Complete, Completes, CloseDone, HasDone
    <3>5. e \in Abstract!Completions
      BY DEF Outcomes, Abstract!Completions
    <3>6. QED
      BY <3>4, <3>5 DEF Abstract!Next
  <2>4. QED
    BY <2>2, <2>3, CompletionStep DEF SafetyInv
<1>2. ASSUME NEW k \in Calls, CallerMoves(k) PROVE Abstract!Next
  <2>0. UNCHANGED <<outcome, closes>> /\ \A j \in Calls \ {k} : cpc'[j] = cpc[j]
    BY <1>2 DEF CallerMoves
  <2>1. \A j \in Calls \ {k} : ret'[j] = ret[j]
    BY <1>0, <1>2 DEF CallerMoves, CallerAccepts, CallerRefused, CallerReturns, CallerTimesOut, CallerCancels
  <2>2. \A j \in Calls \ {k} : j \in Accepted' <=> j \in Accepted
    BY <2>0, <2>1 DEF Accepted
  <2>3. CASE CallerAccepts(k)
    <3>1. k \notin Accepted /\ ret[k] = "none" /\ canceled' = canceled
      BY <1>0, <2>3 DEF CallerAccepts, Accepted, Untold, Fresh
    <3>2. k \in Accepted' /\ ret' = IF Kind[k] = "send" THEN [ret EXCEPT ![k] = "sent"] ELSE ret
      BY <1>0, <2>3 DEF CallerAccepts, Accepted, HasDone
    <3>3. Accepted' = Accepted \cup {k}
      BY <2>2, <3>2 DEF Accepted
    <3>4. Abstract!Accept(k)
      BY <2>0, <3>1, <3>2, <3>3 DEF Abstract!Accept, Abstract!Fresh
    <3>5. QED
      BY <3>4 DEF Abstract!Next
  <2>4. CASE CallerRefused(k)
    <3>1. k \notin Accepted /\ ret[k] = "none" /\ closes[k] = 0 /\ canceled' = canceled
      BY <1>0, <2>4 DEF CallerRefused, Accepted, Untold, Fresh, SafetyInv, Exclusive, FreshNowhere
    <3>2. k \notin Accepted' /\ ret' = [ret EXCEPT ![k] = "overflow"]
      BY <1>0, <2>0, <2>4, <3>1 DEF CallerRefused, Accepted
    <3>3. Accepted' = Accepted
      BY <2>2, <3>1, <3>2 DEF Accepted
    <3>4. Abstract!Refuse(k)
      BY <2>0, <3>1, <3>2, <3>3 DEF Abstract!Refuse, Abstract!Fresh
    <3>5. QED
      BY <3>4 DEF Abstract!Next
  <2>5. CASE CallerReturns(k) \/ CallerTimesOut(k) \/ CallerCancels(k)
    <3>1. cpc[k] = "wait" /\ k \in Accepted /\ ret[k] = "none"
      BY <1>0, <2>5 DEF CallerReturns, CallerTimesOut, CallerCancels, Accepted, Untold
    <3>2. k \in Accepted'
      BY <1>0, <2>0, <2>5 DEF CallerReturns, CallerTimesOut, CallerCancels, Accepted
    <3>3. Accepted' = Accepted
      BY <2>2, <3>1, <3>2 DEF Accepted
    <3>4. CASE CallerReturns(k)
      <4>1. outcome[k] # "none"
        BY <1>0, <3>4 DEF CallerReturns, Settled
      <4>2. Abstract!Return(k)
        BY <2>0, <3>1, <3>3, <3>4, <4>1 DEF CallerReturns, Abstract!Return, Abstract!Waiting
      <4>3. QED
        BY <4>2 DEF Abstract!Next
    <3>5. CASE CallerTimesOut(k)
      <4>1. C' = C \cup {k}
        BY <1>0, <3>5 DEF CallerTimesOut
      <4>2. Abstract!Timeout(k)
        BY <2>0, <3>1, <3>3, <3>5, <4>1 DEF CallerTimesOut, Abstract!Timeout, Abstract!Waiting
      <4>3. QED
        BY <4>2 DEF Abstract!Next
    <3>6. CASE CallerCancels(k)
      <4>1. C' = C \cup {k}
        BY <1>0, <3>6 DEF CallerCancels
      <4>2. Abstract!Cancel(k)
        BY <2>0, <3>1, <3>3, <3>6, <4>1 DEF CallerCancels, Abstract!Cancel, Abstract!Waiting
      <4>3. QED
        BY <4>2 DEF Abstract!Next
    <3>7. QED
      BY <2>5, <3>4, <3>5, <3>6
  <2>6. QED
    BY <1>2, <2>3, <2>4, <2>5 DEF CallerMoves
<1>3. QED
  BY <1>1, <1>2, CallerStep DEF SafetyInv

(* The client implements RpcCall for every choice of the constants: through *)
(* its queue, goroutines and maps a call is accepted or refused, completes  *)
(* at most once, as canceled only if it was canceled, and its caller is     *)
(* told what it completed with.                                             *)
THEOREM Refinement == Spec => ImplementsRpcCall
<1>1. Init => Abstract!Init
  BY DEF Init, Abstract!Init, Accepted
<1>2. SafetyInv /\ [Next]_vars => [Abstract!Next]_(Abstract!vars)
  BY AbstractStep
<1>3. QED
  BY <1>1, <1>2, Safety, PTL DEF Spec, ImplementsRpcCall, Abstract!Spec

-----------------------------------------------------------------------------
(* pendingRequestsCount: the entries of the maps, less those not counted   *)
(* yet, plus those taken out and not yet uncounted.                        *)

Entries   == {p \in Conns \X IDs : pending[p[1]][p[2]] # NoCall}
Uncounted == {c \in Conns : w[c] \in {"count", "leak"}}
Answering == {c \in Conns : r[c] = "have"}

CountInv == count = Cardinality(Entries) - Cardinality(Uncounted) + Cardinality(Answering)

(* There are finitely many of each. *)
LEMMA CountFinite ==
  /\ IsFiniteSet(Entries) /\ IsFiniteSet(Uncounted) /\ IsFiniteSet(Answering)
  /\ Cardinality(Entries) \in Nat /\ Cardinality(Uncounted) \in Nat /\ Cardinality(Answering) \in Nat
<1>1. IsFiniteSet(IDs)
  BY SizesAssumption, FS_Interval DEF IDs
<1>2. IsFiniteSet(Conns \X IDs)
  BY <1>1, ConnsAssumption, FS_Product
<1>3. Entries \in SUBSET (Conns \X IDs) /\ Uncounted \in SUBSET Conns /\ Answering \in SUBSET Conns
  BY DEF Entries, Uncounted, Answering
<1>4. IsFiniteSet(Entries) /\ IsFiniteSet(Uncounted) /\ IsFiniteSet(Answering)
  BY <1>2, <1>3, ConnsAssumption, FS_Subset
<1>5. QED
  BY <1>4, FS_CardinalityType

(* An entry more or less in the map of one connection. *)
LEMMA EntryFacts ==
  ASSUME TypeInv, NEW c \in Conns, NEW i \in IDs,
         \A d \in Conns, o \in IDs : ~(d = c /\ o = i) => pending'[d][o] = pending[d][o]
  PROVE  /\ pending[c][i] = NoCall /\ pending'[c][i] # NoCall
              => Cardinality(Entries') = Cardinality(Entries) + 1
         /\ pending[c][i] # NoCall /\ pending'[c][i] = NoCall
              => Cardinality(Entries') = Cardinality(Entries) - 1
         /\ pending[c][i] = pending'[c][i] => Entries' = Entries
<1>1. ASSUME pending[c][i] = NoCall, pending'[c][i] # NoCall
      PROVE  Cardinality(Entries') = Cardinality(Entries) + 1
  <2>1. Entries' = Entries \cup {<<c, i>>} /\ <<c, i>> \notin Entries
    BY <1>1 DEF Entries
  <2>2. QED
    BY <2>1, CountFinite, FS_AddElement
<1>2. ASSUME pending[c][i] # NoCall, pending'[c][i] = NoCall
      PROVE  Cardinality(Entries') = Cardinality(Entries) - 1
  <2>1. Entries' = Entries \ {<<c, i>>} /\ <<c, i>> \in Entries
    BY <1>2 DEF Entries
  <2>2. QED
    BY <2>1, CountFinite, FS_RemoveElement
<1>3. ASSUME pending[c][i] = pending'[c][i] PROVE Entries' = Entries
  BY <1>3 DEF Entries
<1>4. QED
  BY <1>1, <1>2, <1>3

(* A writer more or less on its way from the map to the counter. *)
LEMMA UncountedFacts ==
  ASSUME NEW c \in Conns, \A d \in Conns \ {c} : w'[d] = w[d]
  PROVE  /\ w[c] \notin {"count", "leak"} /\ w'[c] \in {"count", "leak"}
              => Cardinality(Uncounted') = Cardinality(Uncounted) + 1
         /\ w[c] \in {"count", "leak"} /\ w'[c] \notin {"count", "leak"}
              => Cardinality(Uncounted') = Cardinality(Uncounted) - 1
         /\ (w[c] \in {"count", "leak"} <=> w'[c] \in {"count", "leak"}) => Uncounted' = Uncounted
<1>1. ASSUME w[c] \notin {"count", "leak"}, w'[c] \in {"count", "leak"}
      PROVE  Cardinality(Uncounted') = Cardinality(Uncounted) + 1
  <2>1. Uncounted' = Uncounted \cup {c} /\ c \notin Uncounted
    BY <1>1 DEF Uncounted
  <2>2. QED
    BY <2>1, CountFinite, FS_AddElement
<1>2. ASSUME w[c] \in {"count", "leak"}, w'[c] \notin {"count", "leak"}
      PROVE  Cardinality(Uncounted') = Cardinality(Uncounted) - 1
  <2>1. Uncounted' = Uncounted \ {c} /\ c \in Uncounted
    BY <1>2 DEF Uncounted
  <2>2. QED
    BY <2>1, CountFinite, FS_RemoveElement
<1>3. ASSUME w[c] \in {"count", "leak"} <=> w'[c] \in {"count", "leak"} PROVE Uncounted' = Uncounted
  BY <1>3 DEF Uncounted
<1>4. QED
  BY <1>1, <1>2, <1>3

(* A reader more or less with a response in its hand. *)
LEMMA AnsweringFacts ==
  ASSUME NEW c \in Conns, \A d \in Conns \ {c} : r'[d] = r[d]
  PROVE  /\ r[c] # "have" /\ r'[c] = "have" => Cardinality(Answering') = Cardinality(Answering) + 1
         /\ r[c] = "have" /\ r'[c] # "have" => Cardinality(Answering') = Cardinality(Answering) - 1
         /\ (r[c] = "have" <=> r'[c] = "have") => Answering' = Answering
<1>1. ASSUME r[c] # "have", r'[c] = "have" PROVE Cardinality(Answering') = Cardinality(Answering) + 1
  <2>1. Answering' = Answering \cup {c} /\ c \notin Answering
    BY <1>1 DEF Answering
  <2>2. QED
    BY <2>1, CountFinite, FS_AddElement
<1>2. ASSUME r[c] = "have", r'[c] # "have" PROVE Cardinality(Answering') = Cardinality(Answering) - 1
  <2>1. Answering' = Answering \ {c} /\ c \in Answering
    BY <1>2 DEF Answering
  <2>2. QED
    BY <2>1, CountFinite, FS_RemoveElement
<1>3. ASSUME r[c] = "have" <=> r'[c] = "have" PROVE Answering' = Answering
  BY <1>3 DEF Answering
<1>4. QED
  BY <1>1, <1>2, <1>3

(* The atomic adds of clientWriter, clientReader and                       *)
(* clientHandleConnection keep the counter in step with the maps.          *)
LEMMA CountConn ==
  ASSUME TypeInv, CountInv, NEW c \in Conns, ConnStep(c)
  PROVE  CountInv'
<1> USE DEF client, result, conn, TypeInv, TypeOK, ClientType, ConnType
<1> HIDE DEF TypeInv
<1>0. \A d \in Conns \ {c} : w'[d] = w[d] /\ r'[d] = r[d] /\ pending'[d] = pending[d]
  BY OtherConns DEF SameConn
<1>1. CASE WriterRegister(c)
  <2>1. PICK i \in IDs : NextMsgID(c, i) /\ pending' = [pending EXCEPT ![c][i] = hand[Writer(c)]]
    BY <1>1 DEF WriterRegister
  <2>2. pending[c][i] = NoCall /\ hand[Writer(c)] # NoCall
    BY <1>1, <2>1 DEF NextMsgID, Taken, WriterRegister, TypeInv, Phases
  <2>3. w[c] = "have" /\ w'[c] \in {"leak", "count"} /\ count' = count /\ r' = r
    BY <1>1 DEF WriterRegister, TypeInv
  <2>4. /\ pending'[c][i] # NoCall
        /\ \A d \in Conns, o \in IDs : ~(d = c /\ o = i) => pending'[d][o] = pending[d][o]
    BY <2>1, <2>2 DEF TypeInv
  <2>5. Cardinality(Entries') = Cardinality(Entries) + 1
    BY <2>2, <2>4, EntryFacts
  <2>6. Cardinality(Uncounted') = Cardinality(Uncounted) + 1
    BY <1>0, <2>3, UncountedFacts
  <2>7. Answering' = Answering
    BY <2>3 DEF Answering
  <2>8. QED
    BY <2>3, <2>5, <2>6, <2>7, CountFinite DEF CountInv
<1>2. CASE WriterCount(c)
  <2>1. /\ w[c] \in {"count", "leak"} /\ w'[c] \notin {"count", "leak"} /\ count' = count + 1
        /\ UNCHANGED <<pending, r>> /\ count \in Int
    BY <1>2 DEF WriterCount, TypeInv
  <2>2. Cardinality(Uncounted') = Cardinality(Uncounted) - 1
    BY <1>0, <2>1, UncountedFacts
  <2>3. Entries' = Entries /\ Answering' = Answering
    BY <2>1 DEF Entries, Answering
  <2>4. QED
    BY <2>1, <2>2, <2>3, CountFinite DEF CountInv
<1>3. CASE ReaderReceives(c)
  <2>1. PICK q \in IDs \X (Calls \cup {NoCall}) : ReaderLookup(c, q)
    BY <1>3, LookupFacts
  <2>2. /\ q[1] \in IDs /\ pending'[c][q[1]] = NoCall /\ w' = w /\ count' = count
        /\ \A d \in Conns, o \in IDs : ~(d = c /\ o = q[1]) => pending'[d][o] = pending[d][o]
    BY <2>1 DEF ReaderLookup, TypeInv
  <2>3. Uncounted' = Uncounted
    BY <2>2 DEF Uncounted
  <2>4. CASE pending[c][q[1]] = NoCall
    <3>1. r[c] # "have" /\ r'[c] # "have"
      BY <2>1, <2>4 DEF ReaderLookup, TypeInv
    <3>2. Answering' = Answering /\ Entries' = Entries
      BY <1>0, <2>2, <2>4, <3>1, AnsweringFacts, EntryFacts
    <3>3. QED
      BY <2>2, <2>3, <3>2 DEF CountInv
  <2>5. CASE pending[c][q[1]] # NoCall
    <3>1. r[c] # "have" /\ r'[c] = "have"
      BY <2>1, <2>5 DEF ReaderLookup, TypeInv
    <3>2. Cardinality(Answering') = Cardinality(Answering) + 1
      BY <1>0, <3>1, AnsweringFacts
    <3>3. Cardinality(Entries') = Cardinality(Entries) - 1
      BY <2>2, <2>5, EntryFacts
    <3>4. QED
      BY <2>2, <2>3, <3>2, <3>3, CountFinite DEF CountInv
  <2>6. QED
    BY <2>4, <2>5
<1>4. CASE ReaderComplete(c)
  <2>1. r[c] = "have" /\ r'[c] # "have" /\ count' = count - 1 /\ UNCHANGED <<pending, w>> /\ count \in Int
    BY <1>4 DEF ReaderComplete, TypeInv
  <2>2. Cardinality(Answering') = Cardinality(Answering) - 1
    BY <1>0, <2>1, AnsweringFacts
  <2>3. Entries' = Entries /\ Uncounted' = Uncounted
    BY <2>1 DEF Entries, Uncounted
  <2>4. QED
    BY <2>1, <2>2, <2>3, CountFinite DEF CountInv
<1>5. ASSUME NEW i \in IDs, HandlerFailsPending(c, i) PROVE CountInv'
  <2>1. /\ pending[c][i] # NoCall /\ pending'[c][i] = NoCall /\ count' = count - 1
        /\ UNCHANGED <<w, r>> /\ count \in Int
        /\ \A d \in Conns, o \in IDs : ~(d = c /\ o = i) => pending'[d][o] = pending[d][o]
    BY <1>5 DEF HandlerFailsPending, TypeInv
  <2>2. Cardinality(Entries') = Cardinality(Entries) - 1
    BY <2>1, EntryFacts
  <2>3. Uncounted' = Uncounted /\ Answering' = Answering
    BY <2>1 DEF Uncounted, Answering
  <2>4. QED
    BY <2>1, <2>2, <2>3, CountFinite DEF CountInv
<1>6. CASE \/ WriterTake(c) \/ WriterPoll(c) \/ WriterStops(c) \/ WriterFlush(c) \/ WriterCanceled(c)
           \/ WriterNoResponse(c) \/ WriterEncode(c) \/ ReaderFails(c) \/ ReaderSpins(c)
           \/ HandlerConnects(c) \/ HandlerCloses(c) \/ HandlerEnds(c)
  <2>1. UNCHANGED <<pending, count>>
    BY <1>6 DEF WriterTake, WriterPoll, WriterStops, WriterFlush, WriterCanceled, WriterNoResponse, WriterEncode, ReaderFails, ReaderSpins, HandlerConnects, HandlerCloses, HandlerEnds
  <2>2. w' = w \/ (w[c] \notin {"count", "leak"} /\ w'[c] \notin {"count", "leak"})
    BY <1>6 DEF WriterTake, WriterPoll, WriterStops, WriterFlush, WriteOut, WriterCanceled, WriterNoResponse, WriterEncode, ReaderFails, ReaderSpins, HandlerConnects, HandlerCloses, HandlerEnds, BothDone, TypeInv, Phases
  <2>3. r' = r \/ (r[c] # "have" /\ r'[c] # "have")
    BY <1>6 DEF WriterTake, WriterPoll, WriterStops, WriterFlush, WriterCanceled, WriterNoResponse, WriterEncode, ReaderFails, ReaderSpins, HandlerConnects, HandlerCloses, HandlerEnds, BothDone, TypeInv, Phases
  <2>4. Entries' = Entries /\ Uncounted' = Uncounted /\ Answering' = Answering
    BY <1>0, <2>1, <2>2, <2>3 DEF Entries, Uncounted, Answering
  <2>5. QED
    BY <2>1, <2>4 DEF CountInv
<1>7. QED
  BY <1>1, <1>2, <1>3, <1>4, <1>5, <1>6 DEF ConnStep, WriterNext, ReaderNext

(* CountInv is inductive. *)
LEMMA CountNext == TypeInv /\ CountInv /\ [Next]_vars => CountInv'
<1> SUFFICES ASSUME TypeInv, CountInv, [Next]_vars PROVE CountInv'
  OBVIOUS
<1>1. CASE \E c \in Conns : ConnStep(c)
  BY <1>1, CountConn
<1>2. CASE ~\E c \in Conns : ConnStep(c)
  <2>1. count' = count /\ \A d \in Conns : SameConn(d)
    BY <1>2, QuietStep
  <2>2. Entries' = Entries /\ Uncounted' = Uncounted /\ Answering' = Answering
    BY <2>1 DEF SameConn, Entries, Uncounted, Answering
  <2>3. QED
    BY <2>1, <2>2 DEF CountInv
<1>3. QED
  BY <1>1, <1>2

(* Every writer on its way to the counter has an entry of its own in the   *)
(* maps, so the counter does not fall below zero.                          *)
LEMMA UncountedEntered ==
  ASSUME TypeInv, WireInv
  PROVE  Cardinality(Uncounted) <= Cardinality(Entries)
<1> DEFINE f == [c \in Uncounted |-> <<c, wid[c]>>]
<1>1. ASSUME NEW c \in Uncounted PROVE <<c, wid[c]>> \in Entries
  <2>1. c \in Conns /\ w[c] \in {"count", "leak"} /\ wid[c] \in IDs
    BY DEF Uncounted, TypeInv, TypeOK, ConnType
  <2>2. pending[c][wid[c]] = hand[Writer(c)]
    BY <2>1 DEF WireInv, WireOK, WriterEntered, BothDone
  <2>3. hand[Writer(c)] # NoCall
    BY <2>1 DEF TypeInv, Phases
  <2>4. QED
    BY <2>1, <2>2, <2>3 DEF Entries
<1>2. f \in [Uncounted -> Entries]
  BY <1>1
<1>3. \A c, d \in Uncounted : f[c] = f[d] => c = d
  OBVIOUS
<1>4. f \in Injection(Uncounted, Entries)
  BY <1>2, <1>3 DEF Injection, IsInjective
<1>5. QED
  BY <1>4, CountFinite, FS_Injection

(* pendingRequestsCount equals the number of pending requests up to the    *)
(* requests that are between a map and the atomic add, and never wraps     *)
(* below zero, for any number of connections; the server answers only      *)
(* requests that it received.                                              *)
THEOREM CountIsRight == ASSUME Rogue = {} PROVE Spec => []CountMatches
<1>1. Init => CountInv
  <2> SUFFICES ASSUME Init PROVE CountInv
    OBVIOUS
  <2>1. Entries = {} /\ Uncounted = {} /\ Answering = {}
    BY DEF Init, Entries, Uncounted, Answering
  <2>2. QED
    BY <2>1, FS_EmptySet DEF Init, CountInv
<1>2. TypeInv /\ CountInv /\ [Next]_vars => CountInv'
  BY CountNext
<1>3. TypeInv /\ WireInv /\ CountInv => CountMatches
  <2> SUFFICES ASSUME TypeInv, WireInv, CountInv PROVE CountMatches
    OBVIOUS
  <2>1. count >= 0
    BY UncountedEntered, CountFinite DEF CountInv
  <2>2. QED
    BY <2>1 DEF CountInv, CountMatches, Entries, Uncounted, Answering
<1>4. QED
  BY <1>1, <1>2, <1>3, WireHolds, PTL DEF Spec

-----------------------------------------------------------------------------
(* A canceled request.  It is past the check of m.canceled while the       *)
(* writer of a connection has it behind that check, and as long as it is   *)
(* encoded there.                                                          *)

PastCheck(c, k) ==
  \/ hand[Writer(c)] = k /\ w[c] \in {"count", "leak", "encode"}
  \/ \E q \in buf[c] \cup sent[c] : q[2] = k

Past(k) == \E c \in Conns : PastCheck(c, k)

(* A request that is past the check never enters requestsChan again. *)
PastInv == \A k \in Calls : Past(k) => ~InQueue(k) /\ cpc[k] \notin Fresh

(* Only a writer that has k and sees that it is not canceled takes it past *)
(* the check.                                                              *)
LEMMA PastConn ==
  ASSUME TypeInv, NEW c \in Conns, ConnStep(c), NEW k \in Calls, PastCheck(c, k)'
  PROVE  PastCheck(c, k) \/ (Owns(Writer(c), k) /\ ~canceled[k])
<1> USE HandFacts, CallsAssumption DEF client, result, conn, PastCheck, TypeInv, TypeOK, CallerType, ConnType, WireType
<1>1. CASE WriterTake(c) \/ WriterPoll(c) \/ WriterStops(c) \/ WriterCanceled(c)
  BY <1>1 DEF WriterTake, WriterPoll, WriterStops, WriterCanceled
<1>2. CASE WriterFlush(c)
  <2>1. buf'[c] \cup sent'[c] \subseteq buf[c] \cup sent[c] /\ w'[c] \in {"loop", "done"}
    BY <1>2 DEF WriterFlush, WriteOut
  <2>2. QED
    BY <2>1
<1>3. CASE WriterNoResponse(c) \/ WriterRegister(c)
  <2>1. UNCHANGED <<hand, buf, sent>> /\ w[c] = "have" /\ ~canceled[hand[Writer(c)]]
    BY <1>3 DEF WriterNoResponse, WriterRegister
  <2>2. CASE hand[Writer(c)] = k
    <3>1. Owns(Writer(c), k)
      BY <2>1, <2>2 DEF Owns, Writer
    <3>2. QED
      BY <2>1, <2>2, <3>1
  <2>3. CASE hand[Writer(c)] # k
    BY <2>1, <2>3
  <2>4. QED
    BY <2>2, <2>3
<1>4. CASE WriterCount(c)
  <2>1. w[c] \in {"count", "leak"} /\ hand'[Writer(c)] \in {hand[Writer(c)], NoCall} /\ UNCHANGED <<buf, sent>>
    BY <1>4 DEF WriterCount
  <2>2. QED
    BY <2>1
<1>5. CASE WriterEncode(c)
  <2>1. /\ buf'[c] \cup sent'[c] \subseteq (buf[c] \cup sent[c]) \cup {<<wid[c], hand[Writer(c)]>>}
        /\ w[c] = "encode" /\ w'[c] \in {"loop", "done"}
    BY <1>5 DEF WriterEncode, WriteOut
  <2>2. PICK q \in buf'[c] \cup sent'[c] : q[2] = k
    BY <2>1
  <2>3. CASE q \in buf[c] \cup sent[c]
    BY <2>2, <2>3
  <2>4. CASE q = <<wid[c], hand[Writer(c)]>>
    BY <2>1, <2>2, <2>4
  <2>5. QED
    BY <2>1, <2>2, <2>3, <2>4
<1>6. CASE ReaderReceives(c)
  <2>1. PICK q \in IDs \X (Calls \cup {NoCall}) : ReaderLookup(c, q)
    BY <1>6, LookupFacts
  <2>2. /\ UNCHANGED <<w, buf>> /\ sent'[c] \subseteq sent[c] /\ hand'[Writer(c)] = hand[Writer(c)]
    BY <2>1 DEF ReaderLookup
  <2>3. QED
    BY <2>2
<1>7. CASE ReaderComplete(c) \/ ReaderFails(c) \/ ReaderSpins(c)
  BY <1>7 DEF ReaderComplete, ReaderFails, ReaderSpins
<1>8. CASE HandlerConnects(c) \/ HandlerCloses(c) \/ (\E i \in IDs : HandlerFailsPending(c, i))
  BY <1>8 DEF HandlerConnects, HandlerCloses, HandlerFailsPending
<1>9. CASE HandlerEnds(c)
  BY <1>9 DEF HandlerEnds
<1>10. QED
  BY <1>1, <1>2, <1>3, <1>4, <1>5, <1>6, <1>7, <1>8, <1>9 DEF ConnStep, WriterNext, ReaderNext

(* The same for every step of the client. *)
LEMMA PastStep ==
  ASSUME TypeInv, [Next]_vars, NEW k \in Calls, Past(k)'
  PROVE  Past(k) \/ \E c \in Conns : Owns(Writer(c), k) /\ ~canceled[k]
<1>1. PICK d \in Conns : PastCheck(d, k)'
  BY DEF Past
<1>2. CASE SameConn(d)
  <2>1. PastCheck(d, k)
    BY <1>1, <1>2 DEF PastCheck, SameConn
  <2>2. QED
    BY <2>1 DEF Past
<1>3. CASE ~SameConn(d)
  <2>1. PICK c \in Conns : ConnStep(c)
    BY <1>3, QuietStep
  <2>2. c = d
    BY <1>3, <2>1, OtherConns
  <2>3. QED
    BY <1>1, <2>1, <2>2, PastConn DEF Past
<1>4. QED
  BY <1>2, <1>3

(* Cancel is for ever, and callAsync sends a request once. *)
LEMMA CancelStays ==
  ASSUME TypeInv, [Next]_vars, NEW k \in Calls
  PROVE  /\ canceled[k] => canceled'[k]
         /\ cpc'[k] \in Fresh => cpc[k] \in Fresh
<1> USE DEF TypeInv, TypeOK, CallerType, ResultType
<1>1. CASE CallerIdle
  BY <1>1 DEF CallerIdle
<1>2. ASSUME NEW m \in Calls, CallerMoves(m)
      PROVE  /\ canceled[k] => canceled'[k]
             /\ cpc'[k] \in Fresh => cpc[k] \in Fresh
  BY <1>2 DEF CallerMoves, CallerAccepts, CallerRefused, CallerReturns, CallerTimesOut, CallerCancels, Fresh
<1>3. QED
  BY <1>1, <1>2, CallerStep

(* PastInv is inductive: what a writer has is neither queued nor fresh. *)
LEMMA PastNext == SafetyInv /\ PastInv /\ [Next]_vars => PastInv'
<1> SUFFICES ASSUME SafetyInv, PastInv, [Next]_vars, NEW k \in Calls, Past(k)'
             PROVE  ~InQueue(k)' /\ cpc'[k] \notin Fresh
  BY DEF PastInv
<1>1. TypeInv /\ Exclusive
  BY DEF SafetyInv
<1>2. ~InQueue(k) /\ cpc[k] \notin Fresh
  <2>1. CASE Past(k)
    BY <2>1 DEF PastInv
  <2>2. CASE ~Past(k)
    <3>1. PICK c \in Conns : Owns(Writer(c), k)
      BY <1>1, <2>2, PastStep
    <3>2. Writer(c) \in Goroutines
      BY HandFacts
    <3>3. QED
      BY <1>1, <3>1, <3>2 DEF Exclusive, QueueAlone, FreshNowhere, InQueue
  <2>3. QED
    BY <2>1, <2>2
<1>3. QED
  BY <1>1, <1>2, CancelStays, QueueStep

(* A canceled request that is not past the check stays before it. *)
LEMMA CanceledStays ==
  ASSUME TypeInv, [Next]_vars, NEW k \in Calls, canceled[k], ~Past(k)
  PROVE  canceled'[k] /\ ~Past(k)'
BY CancelStays, PastStep

(* "Canceled call isn't sent to the server unless it is already sent       *)
(* there": a request that is canceled while it is in requestsChan is never *)
(* encoded, for every number of callers, connections and IDs, whichever    *)
(* goroutine takes it out and whenever.                                    *)
THEOREM CanceledStaysHome == Spec => CanceledInQueueNotSent
<1>1. Init => PastInv
  BY DEF Init, PastInv, Past, PastCheck
<1>2. Spec => []PastInv
  BY <1>1, PastNext, Safety, PTL DEF Spec
<1>3. ASSUME NEW k \in Calls
      PROVE  Spec => [](canceled[k] /\ k \in Range(queue) => [](~OnWire(k)))
  <2>1. SafetyInv /\ PastInv /\ canceled[k] /\ k \in Range(queue) => canceled[k] /\ ~Past(k)
    BY DEF SafetyInv, TypeInv, TypeOK, ClientType, PastInv, InQueue, Range
  <2>2. SafetyInv /\ (canceled[k] /\ ~Past(k)) /\ [Next]_vars => (canceled[k] /\ ~Past(k))'
    BY CanceledStays DEF SafetyInv
  <2>3. canceled[k] /\ ~Past(k) => ~OnWire(k)
    BY DEF OnWire, Past, PastCheck
  <2>4. QED
    BY <1>2, <2>1, <2>2, <2>3, Safety, PTL DEF Spec
<1>4. QED
  BY <1>3 DEF CanceledInQueueNotSent
=============================================================================
