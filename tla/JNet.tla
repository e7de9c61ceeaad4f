-------------------------------- MODULE JNet --------------------------------
(***************************************************************************)
(* The batching transport of pkg/net/jnet.  On the client every IOQueue    *)
(* has a submitWorker that collects requests into a batch and a recvWorker *)
(* that hands the responses out; on the server every connection has an     *)
(* IOQueueBackend with the same two goroutines, and one WorkerPool serves  *)
(* all of them.  Both sides end a batch at the tick of a timer or when it  *)
(* is full.  An I/O error panics and ends the process: connections do not  *)
(* fail here.                                                              *)
(***************************************************************************)
EXTENDS Integers, Sequences, FiniteSets, Functions

CONSTANTS
  Gets,             \* the invocations of Client.Get
  Queues,           \* the connections: an IOQueue and its IOQueueBackend each
  QueueOf,          \* the IOQueue a Get uses
  Invalid,          \* the Gets whose command the server does not know
  Entries,          \* the workerEntry objects, one per goroutine of the pool
  Nil,
  ChanSize,         \* capacity of reqCH and respCH (2048 in the code)
  MaxBatchCount     \* 64 in the code

ASSUME JNetAssumption ==
  /\ QueueOf \in [Gets -> Queues] /\ Invalid \subseteq Gets
  /\ Nil \notin Gets \cup Entries /\ Cardinality(Entries) >= Cardinality(Gets)
  /\ ChanSize \in Nat \ {0} /\ MaxBatchCount \in Nat \ {0, 1}

VARIABLES
  \* IOQueue
  pc, got,          \* where a Get is; req.resp
  closed,           \* how often req.wait was closed
  reqCH,
  requests, sw,     \* submitWorker: its batch, where it is
  nextCookie,
  inflight,         \* inflightBatches: cookie -> [reqs, left]
  rresps,           \* recvWorker: the responses it has yet to hand out
  c2s, s2c,         \* the batches on the connections
  \* IOQueueBackend
  reqs,             \* recvWorker: the requests it has yet to submit
  respCH,
  resps,            \* submitWorker: its batch
  stale,            \* objects in respPool that have ErrorCode # 0
  \* WorkerPool
  ready,
  handoff,          \* Submit, waiting at ent.ch <- req, for every backend
  epc, ereq         \* WorkFunc: where it is, its req

clientVars == <<pc, got, closed, reqCH, requests, sw, nextCookie, inflight, rresps>>
serverVars == <<reqs, respCH, resps, stale, ready, handoff, epc, ereq>>
vars == <<clientVars, c2s, s2c, serverVars>>

Request  == [get : Gets, queue : Queues, batchId : Nat, idx : Nat]
Response == [get : Gets, batchId : Nat, idx : Nat, err : BOOLEAN]
Batch    == [cookie : Nat, gets : Seq(Gets)]

ASSUME NilAssumption == Nil \notin Response

TypeOK ==
  /\ pc \in [Gets -> {"idle", "wait", "returned"}]
  /\ got \in [Gets -> Response \cup {Nil}] /\ closed \in [Gets -> Nat]
  /\ reqCH \in [Queues -> Seq(Gets)] /\ requests \in [Queues -> Seq(Gets)]
  /\ sw \in [Queues -> {"collect", "register", "write"}] /\ nextCookie \in [Queues -> Nat]
  /\ \A q \in Queues : /\ Len(reqCH[q]) <= ChanSize /\ Len(respCH[q]) <= ChanSize
                       /\ Len(requests[q]) <= MaxBatchCount
                       /\ Len(resps[q]) <= MaxBatchCount + 1
                       /\ \A n \in DOMAIN inflight[q] : inflight[q][n].left \in 1 .. MaxBatchCount
  /\ rresps \in [Queues -> Seq(Response)] /\ s2c \in [Queues -> Seq(Seq(Response))]
  /\ c2s \in [Queues -> Seq(Batch)] /\ reqs \in [Queues -> Seq(Request)]
  /\ respCH \in [Queues -> Seq(Response)] /\ resps \in [Queues -> Seq(Response)]
  /\ stale \in Nat /\ ready \in Seq(Entries)
  /\ handoff \in [Queues -> Entries \cup {Nil}]
  /\ epc \in [Entries -> {"off", "recv", "process", "done"}]
  /\ ereq \in [Entries -> Request \cup {Nil}]

Init ==
  /\ pc = [g \in Gets |-> "idle"] /\ got = [g \in Gets |-> Nil]
  /\ closed = [g \in Gets |-> 0]
  /\ reqCH = [q \in Queues |-> <<>>] /\ requests = [q \in Queues |-> <<>>]
  /\ sw = [q \in Queues |-> "collect"] /\ nextCookie = [q \in Queues |-> 0]
  /\ inflight = [q \in Queues |-> <<>>] /\ rresps = [q \in Queues |-> <<>>]
  /\ c2s = [q \in Queues |-> <<>>] /\ s2c = [q \in Queues |-> <<>>]
  /\ reqs = [q \in Queues |-> <<>>] /\ respCH = [q \in Queues |-> <<>>]
  /\ resps = [q \in Queues |-> <<>>] /\ stale = 0
  /\ ready = <<>> /\ handoff = [q \in Queues |-> Nil]
  /\ epc = [e \in Entries |-> "off"] /\ ereq = [e \in Entries |-> Nil]

-----------------------------------------------------------------------------
(* The client: Get, submit, and the two workers of an IOQueue. *)

(* submit spins until reqCH takes the request. *)
Submit(g) ==
  LET q == QueueOf[g] IN
  /\ pc[g] = "idle" /\ Len(reqCH[q]) < ChanSize
  /\ reqCH' = [reqCH EXCEPT ![q] = Append(@, g)] /\ pc' = [pc EXCEPT ![g] = "wait"]
  /\ UNCHANGED <<got, closed, requests, sw, nextCookie, inflight, rresps, c2s, s2c, serverVars>>

GetReturns(g) ==
  /\ pc[g] = "wait" /\ closed[g] > 0 /\ pc' = [pc EXCEPT ![g] = "returned"]
  /\ UNCHANGED <<got, closed, reqCH, requests, sw, nextCookie, inflight, rresps, c2s, s2c, serverVars>>

Enough(n) == n >= MaxBatchCount

(* submitWorker takes requests until the batch is full; the first is taken *)
(* alone, so that a tick never ends an empty batch.                        *)
Collect(q) ==
  /\ sw[q] = "collect" /\ reqCH[q] # <<>>
  /\ reqCH' = [reqCH EXCEPT ![q] = Tail(@)]
  /\ requests' = [requests EXCEPT ![q] = Append(@, Head(reqCH[q]))]
  /\ sw' = [sw EXCEPT ![q] = IF Enough(Len(requests'[q])) THEN "register" ELSE @]
  /\ UNCHANGED <<pc, got, closed, nextCookie, inflight, rresps, c2s, s2c, serverVars>>

(* A tick of shouldSubmit. *)
Tick(q) ==
  /\ sw[q] = "collect" /\ requests[q] # <<>> /\ sw' = [sw EXCEPT ![q] = "register"]
  /\ UNCHANGED <<pc, got, closed, reqCH, requests, nextCookie, inflight, rresps, c2s, s2c, serverVars>>

(* flush: the batch is entered into inflightBatches before it is written. *)
FlushRegisters(q) ==
  /\ sw[q] = "register" /\ sw' = [sw EXCEPT ![q] = "write"]
  /\ inflight' = [inflight EXCEPT ![q] =
       [n \in DOMAIN @ \cup {nextCookie[q]} |->
          IF n = nextCookie[q] THEN [reqs |-> requests[q], left |-> Len(requests[q])] ELSE @[n]]]
  /\ nextCookie' = [nextCookie EXCEPT ![q] = @ + 1]
  /\ UNCHANGED <<pc, got, closed, reqCH, requests, rresps, c2s, s2c, serverVars>>

FlushWrites(q) ==
  /\ sw[q] = "write" /\ sw' = [sw EXCEPT ![q] = "collect"]
  /\ c2s' = [c2s EXCEPT ![q] =
       Append(@, [cookie |-> nextCookie[q] - 1, gets |-> requests[q]])]
  /\ requests' = [requests EXCEPT ![q] = <<>>]
  /\ UNCHANGED <<pc, got, closed, reqCH, nextCookie, inflight, rresps, s2c, serverVars>>

RecvResponses(q) ==
  /\ rresps[q] = <<>> /\ s2c[q] # <<>>
  /\ rresps' = [rresps EXCEPT ![q] = Head(s2c[q])] /\ s2c' = [s2c EXCEPT ![q] = Tail(@)]
  /\ UNCHANGED <<pc, got, closed, reqCH, requests, sw, nextCookie, inflight, c2s, serverVars>>

Without(f, n) == Restrict(f, DOMAIN f \ {n})

(* Mutant: the entry is deleted one response too early. *)
CountDownEarly(f, n) ==
  IF f[n].left <= 2 THEN Without(f, n) ELSE [f EXCEPT ![n].left = @ - 1]

(* Mutant: the entry is never deleted. *)
CountDownKeeps(f, n) == [f EXCEPT ![n].left = @ - 1]

(* The entry of a batch goes when all of it is answered. *)
CountDown(f, n) ==
  IF f[n].left = 1 THEN Without(f, n) ELSE [f EXCEPT ![n].left = @ - 1]

(* One iteration of the loop over resps: a response to an unknown batch is *)
(* dropped, any other wakes up the Get at its index.                       *)
Deliver(q) ==
  LET resp == Head(rresps[q])
      g    == inflight[q][resp.batchId].reqs[resp.idx]
  IN  /\ rresps[q] # <<>> /\ rresps' = [rresps EXCEPT ![q] = Tail(@)]
      /\ \/ /\ resp.batchId \in DOMAIN inflight[q]
            /\ inflight' = [inflight EXCEPT ![q] = CountDown(@, resp.batchId)]
            /\ got' = [got EXCEPT ![g] = resp] /\ closed' = [closed EXCEPT ![g] = @ + 1]
         \/ resp.batchId \notin DOMAIN inflight[q] /\ UNCHANGED <<inflight, got, closed>>
      /\ UNCHANGED <<pc, reqCH, requests, sw, nextCookie, c2s, s2c, serverVars>>

-----------------------------------------------------------------------------
(* The server: IOQueueBackend and WorkerPool. *)

RecvRequests(q) ==
  LET bt == Head(c2s[q]) IN
  /\ reqs[q] = <<>> /\ handoff[q] = Nil /\ c2s[q] # <<>> /\ c2s' = [c2s EXCEPT ![q] = Tail(@)]
  /\ reqs' = [reqs EXCEPT ![q] = [n \in 1 .. Len(bt.gets) |->
       [get |-> bt.gets[n], queue |-> q, batchId |-> bt.cookie, idx |-> n]]]
  /\ UNCHANGED <<clientVars, s2c, respCH, resps, stale, ready, handoff, epc, ereq>>

(* WorkerPool.Submit: to the worker that became ready last, else to a new  *)
(* goroutine.                                                              *)
SubmitReady(q) ==
  /\ reqs[q] # <<>> /\ handoff[q] = Nil /\ ready # <<>>
  /\ handoff' = [handoff EXCEPT ![q] = ready[Len(ready)]]
  /\ ready' = SubSeq(ready, 1, Len(ready) - 1)
  /\ UNCHANGED <<clientVars, c2s, s2c, reqs, respCH, resps, stale, epc, ereq>>

Run(e, q) ==
  /\ epc' = [epc EXCEPT ![e] = "process"] /\ ereq' = [ereq EXCEPT ![e] = Head(reqs[q])]
  /\ reqs' = [reqs EXCEPT ![q] = Tail(@)]

SubmitNew(q) ==
  /\ reqs[q] # <<>> /\ handoff[q] = Nil /\ ready = <<>>
  /\ \E e \in Entries : epc[e] = "off" /\ Run(e, q)
  /\ UNCHANGED <<clientVars, c2s, s2c, respCH, resps, stale, ready, handoff>>

(* ent.ch <- req meets range ch. *)
HandOver(q) ==
  /\ handoff[q] # Nil /\ epc[handoff[q]] = "recv" /\ Run(handoff[q], q)
  /\ handoff' = [handoff EXCEPT ![q] = Nil]
  /\ UNCHANGED <<clientVars, c2s, s2c, respCH, resps, stale, ready>>

(* Mutant: the response carries the position in the pool's order of work.  *)
AnswerUnordered(req, err) ==
  [get |-> req.get, batchId |-> req.batchId, idx |-> 1, err |-> err]

(* Idx and BatchId are copied from the request. *)
Answer(req, err) ==
  [get |-> req.get, batchId |-> req.batchId, idx |-> req.idx, err |-> err]

(* processRequest takes an object from respPool, which keeps the ErrorCode *)
(* it had; submit waits for room in respCH.                                *)
ProcessRequest(e) ==
  LET req == ereq[e] IN
  /\ epc[e] = "process" /\ Len(respCH[req.queue]) < ChanSize
  /\ \E dirty \in BOOLEAN :
       /\ dirty => stale > 0
       /\ stale' = IF dirty THEN stale - 1 ELSE stale
       /\ respCH' = [respCH EXCEPT ![req.queue] =
            Append(@, Answer(req, dirty \/ req.get \in Invalid))]
  /\ epc' = [epc EXCEPT ![e] = "done"] /\ ereq' = [ereq EXCEPT ![e] = Nil]
  /\ UNCHANGED <<clientVars, c2s, s2c, reqs, resps, ready, handoff>>

(* Mutant: the entry is listed while its worker still has to respond. *)
BecomeReadyEarly(e) ==
  /\ epc[e] \in {"process", "done"} /\ e \notin Range(ready) /\ ready' = Append(ready, e)
  /\ UNCHANGED <<clientVars, c2s, s2c, reqs, respCH, resps, stale, handoff, epc, ereq>>

BecomeReady(e) ==
  /\ epc[e] = "done" /\ epc' = [epc EXCEPT ![e] = "recv"] /\ ready' = Append(ready, e)
  /\ UNCHANGED <<clientVars, c2s, s2c, reqs, respCH, resps, stale, handoff, ereq>>

BatchFull(q) == Len(resps[q]) > MaxBatchCount

CollectResponse(q) ==
  /\ respCH[q] # <<>> /\ ~BatchFull(q)
  /\ resps' = [resps EXCEPT ![q] = Append(@, Head(respCH[q]))]
  /\ respCH' = [respCH EXCEPT ![q] = Tail(@)]
  /\ UNCHANGED <<clientVars, c2s, s2c, reqs, stale, ready, handoff, epc, ereq>>

(* Mutant: a batch is written only when it is full. *)
FlushResponsesFull(q) ==
  /\ BatchFull(q)
  /\ s2c' = [s2c EXCEPT ![q] = Append(@, resps[q])] /\ resps' = [resps EXCEPT ![q] = <<>>]
  /\ UNCHANGED <<clientVars, c2s, reqs, respCH, stale, ready, handoff, epc, ereq>>

(* Mutant: every object comes back with its ErrorCode set. *)
FlushResponsesDirty(q) ==
  /\ resps[q] # <<>>
  /\ s2c' = [s2c EXCEPT ![q] = Append(@, resps[q])] /\ resps' = [resps EXCEPT ![q] = <<>>]
  /\ stale' = stale + Len(resps[q])
  /\ UNCHANGED <<clientVars, c2s, reqs, respCH, ready, handoff, epc, ereq>>

(* flush, at a tick or because the batch has enough responses or enough    *)
(* payload; the response objects go back to respPool as they are.          *)
FlushResponses(q) ==
  /\ resps[q] # <<>>
  /\ s2c' = [s2c EXCEPT ![q] = Append(@, resps[q])]
  /\ resps' = [resps EXCEPT ![q] = <<>>]
  /\ stale' = stale + Cardinality({n \in DOMAIN resps[q] : resps[q][n].err})
  /\ UNCHANGED <<clientVars, c2s, reqs, respCH, ready, handoff, epc, ereq>>

-----------------------------------------------------------------------------
ClientNext(q) == \/ Collect(q) \/ Tick(q) \/ FlushRegisters(q) \/ FlushWrites(q)
                 \/ RecvResponses(q) \/ Deliver(q)

BackendNext(q) == \/ RecvRequests(q) \/ SubmitReady(q) \/ SubmitNew(q) \/ HandOver(q)
                  \/ CollectResponse(q) \/ FlushResponses(q)

WorkerNext(e) == ProcessRequest(e) \/ BecomeReady(e)

Finished == (\A g \in Gets : pc[g] = "returned") /\ UNCHANGED vars

Next ==
  \/ \E g \in Gets : Submit(g) \/ GetReturns(g)
  \/ \E q \in Queues : ClientNext(q) \/ BackendNext(q)
  \/ \E e \in Entries : WorkerNext(e)
  \/ Finished

Spec == Init /\ [][Next]_vars

(* Every goroutine runs, submit's spinning ends when there is room, and    *)
(* ticks go on: the goroutines waiting for shouldSubmit are served in the  *)
(* order in which they came.                                               *)
FairSpec ==
  /\ Spec
  /\ \A g \in Gets : WF_vars(GetReturns(g)) /\ WF_vars(Submit(g))
  /\ \A q \in Queues :
       /\ WF_vars(Collect(q) \/ Tick(q) \/ FlushRegisters(q) \/ FlushWrites(q))
       /\ WF_vars(RecvResponses(q) \/ Deliver(q))
       /\ WF_vars(RecvRequests(q) \/ SubmitReady(q) \/ SubmitNew(q) \/ HandOver(q))
       /\ WF_vars(CollectResponse(q) \/ FlushResponses(q))
  /\ \A e \in Entries : WF_vars(WorkerNext(e))

-----------------------------------------------------------------------------
(* req.resp is the answer to req and req.wait is closed once, although the *)
(* pool's workers answer in any order, batches of responses are cut anew,  *)
(* and cookies are the same on every connection.                           *)
ResponseToRequester ==
  \A g \in Gets : /\ closed[g] = IF got[g] = Nil THEN 0 ELSE 1
                  /\ got[g] # Nil => got[g].get = g

(* "batch %d is not found" is never printed: the entry of a batch is there *)
(* before its first response and until its last, and not longer.           *)
InflightExact ==
  \A q \in Queues :
    /\ \A n \in DOMAIN rresps[q] : rresps[q][n].batchId \in DOMAIN inflight[q]
    /\ \A c \in DOMAIN inflight[q] :
         inflight[q][c].left =
           Cardinality({n \in DOMAIN inflight[q][c].reqs : got[inflight[q][c].reqs[n]] = Nil})

(* A worker in WorkerPool.ready, and the one a Submit has picked, waits    *)
(* for a request: Submit never waits for a handler, and no two connections *)
(* pick the same worker.                                                   *)
ReadyMeansFree ==
  /\ \A e \in Range(ready) : epc[e] = "recv"
  /\ IsInjective(ready)
  /\ \A q \in Queues : handoff[q] # Nil =>
       /\ epc[handoff[q]] = "recv" /\ handoff[q] \notin Range(ready)
       /\ \A p \in Queues : handoff[p] = handoff[q] => p = q

(* An error for a valid command needs an invalid one before it: ErrorCode  *)
(* outlives a response only in objects that carried such an error.         *)
ErrorsNeedInvalid ==
  (\E g \in Gets : got[g] # Nil /\ got[g].err) =>
    \E g \in Invalid : pc[g] # "idle"

(* Every Get returns, however its request and its response are batched. *)
EveryGetReturns == \A g \in Gets : pc[g] = "wait" ~> pc[g] = "returned"
=============================================================================
