------------------------------- MODULE Batch -------------------------------
(***************************************************************************)
(* Batch.CallTimeout of pkg/iorpc/client.go and the life of the            *)
(* AsyncResults behind it and behind Call: asyncResultPool recycles them,  *)
(* so one object serves many requests.  IORPCClient identifies a call with *)
(* its AsyncResult; here the objects have an identity of their own, while  *)
(* connections are reduced to one writer and a set of pending requests     *)
(* that are completed in any order.  Send uses the pool as an op that      *)
(* skips the response does.                                                *)
(***************************************************************************)
EXTENDS Integers, Sequences, FiniteSets, Functions

CONSTANTS
  Ops,              \* the requests added to the batch
  Calls,            \* the requests of concurrent Call invocations
  Skip,             \* the ops that skip the response: AddSkipResponse
  Objects,          \* the AsyncResult objects
  Nil,              \* a nil pointer
  PendingRequests,  \* capacity of requestsChan
  Retries           \* retriesCount of callAsyncRetry (5 in the code)

Tasks == Ops \cup Calls

ASSUME BatchAssumption ==
  /\ Ops \cap Calls = {} /\ Skip \subseteq Ops
  /\ Nil \notin Tasks \cup Objects
  /\ PendingRequests \in Nat \ {0} /\ Retries \in Nat

VARIABLES
  \* asyncResultPool and the AsyncResults
  pool,             \* objects in asyncResultPool
  request, done, error, canceled,
  \* Client
  queue,            \* requestsChan
  wm,               \* the m of clientWriter
  pending,          \* the pending maps
  \* callAsync, for every request
  pc, obj, ret,     \* where it is, its m, what it returned
  \* Batch
  ops, closed,      \* b.ops; how often op.done was closed
  opError,          \* op.Error and op.Response
  b, cur, i, tries  \* CallTimeout: where it is, its locals

async  == <<pool, request, done, error, canceled>>
client == <<queue, wm, pending>>
batch  == <<ops, closed, opError, b, cur, i, tries>>
vars   == <<async, client, pc, obj, ret, batch>>

Outcomes == {"none", "ok", "server", "connection", "empty", "overflow", "canceled"}

TypeOK ==
  /\ pool \subseteq Objects
  /\ request \in [Objects -> Tasks \cup {Nil}]
  /\ done \in [Objects -> {"nil", "open", "closed"}]
  /\ error \in [Objects -> Outcomes] /\ canceled \in [Objects -> BOOLEAN]
  /\ queue \in Seq(Objects) /\ Len(queue) <= PendingRequests
  /\ wm \in Objects \cup {Nil} /\ pending \subseteq Objects
  /\ pc \in [Tasks -> {"idle", "push", "evict", "retry", "accepted", "refused", "returned"}]
  /\ obj \in [Tasks -> Objects \cup {Nil}]
  /\ ret \in [Tasks -> Outcomes \cup {"timeout"}]
  /\ ops \in Seq(Ops) /\ cur \in Seq(Ops) /\ closed \in [Ops -> Nat]
  /\ opError \in [Ops -> Outcomes \cup {"timeout"}]
  /\ b \in {"idle", "submit", "wait"} /\ i \in Nat /\ tries \in 0 .. Retries

Init ==
  /\ pool = {}
  /\ request = [o \in Objects |-> Nil] /\ done = [o \in Objects |-> "nil"]
  /\ error = [o \in Objects |-> "none"] /\ canceled = [o \in Objects |-> FALSE]
  /\ queue = <<>> /\ wm = Nil /\ pending = {}
  /\ pc = [t \in Tasks |-> "idle"] /\ obj = [t \in Tasks |-> Nil]
  /\ ret = [t \in Tasks |-> "none"]
  /\ ops = <<>> /\ cur = <<>> /\ closed = [t \in Ops |-> 0]
  /\ opError = [t \in Ops |-> "none"]
  /\ b = "idle" /\ i = 1 /\ tries = 0

-----------------------------------------------------------------------------
(* The pool. *)

InUse == Range(queue) \cup pending \cup {wm} \cup Range(obj)

(* A new object, with zero values in its fields: one that nobody refers    *)
(* to.  The garbage collector empties a sync.Pool now and then, and Get    *)
(* may always answer nil.                                                  *)
New(o) == o \notin InUse /\ canceled' = [canceled EXCEPT ![o] = FALSE]

(* Ops that want a response never take an object from the pool. *)
Acquire(t, o) ==
  \/ New(o)
  \/ o \in pool /\ t \in Skip \cup Calls /\ UNCHANGED canceled

(* The fields releaseAsyncResult resets; canceled is not among them. *)
Reset(o) ==
  /\ request' = [request EXCEPT ![o] = Nil]
  /\ done' = [done EXCEPT ![o] = "nil"]
  /\ error' = [error EXCEPT ![o] = "none"]

Release(o) == Reset(o) /\ pool' = pool \cup {o}

Close(o, e) ==
  /\ error' = [error EXCEPT ![o] = e]
  /\ done' = [done EXCEPT ![o] = "closed"]
  /\ UNCHANGED <<request, pool>>

(* Completion of a request that is not sent. *)
Discard(o, e) == \/ done[o] # "nil" /\ Close(o, e)
                 \/ done[o] = "nil" /\ Release(o)

-----------------------------------------------------------------------------
(* callAsync. *)

(* Mutant: one request more than the channel holds. *)
HasRoomOffByOne == Len(queue) <= PendingRequests

HasRoom == Len(queue) < PendingRequests
Goto(t, p) == pc' = [pc EXCEPT ![t] = p]

(* Acquire an object and fill it in, then the first select. *)
CallAsync(t) ==
  /\ pc[t] = "push"
  /\ \E o \in Objects :
       /\ Acquire(t, o)
       /\ \/ /\ ~HasRoom /\ t \in Skip /\ Goto(t, "refused")
             /\ Release(o) /\ UNCHANGED <<obj, queue>>
          \/ /\ pool' = pool \ {o} /\ error' = [error EXCEPT ![o] = "none"]
             /\ obj' = [obj EXCEPT ![t] = o]
             /\ request' = [request EXCEPT ![o] = t]
             /\ done' = [done EXCEPT ![o] = IF t \in Skip THEN "nil" ELSE "open"]
             /\ \/ HasRoom /\ queue' = Append(queue, o) /\ Goto(t, "accepted")
                \/ ~HasRoom /\ t \notin Skip /\ Goto(t, "evict") /\ UNCHANGED queue
  /\ UNCHANGED <<wm, pending, ret, batch>>

(* The second select, and what becomes of the request it finds. *)
Evict(t) ==
  /\ pc[t] = "evict" /\ Goto(t, "retry")
  /\ \/ queue # <<>> /\ queue' = Tail(queue) /\ Discard(Head(queue), "overflow")
     \/ queue = <<>> /\ UNCHANGED <<queue, pool, request, done, error>>
  /\ UNCHANGED <<canceled, wm, pending, obj, ret, batch>>

(* The third select. *)
Retry(t) ==
  /\ pc[t] = "retry"
  /\ \/ /\ HasRoom /\ queue' = Append(queue, obj[t]) /\ Goto(t, "accepted")
        /\ UNCHANGED <<pool, request, done, error, obj>>
     \/ /\ ~HasRoom /\ Release(obj[t]) /\ Goto(t, "refused")
        /\ obj' = [obj EXCEPT ![t] = Nil] /\ UNCHANGED queue
  /\ UNCHANGED <<canceled, wm, pending, ret, batch>>

-----------------------------------------------------------------------------
(* Call. *)

Return(k, e) == Goto(k, "returned") /\ ret' = [ret EXCEPT ![k] = e]

Call(k) ==
  /\ pc[k] = "idle" /\ Goto(k, "push")
  /\ UNCHANGED <<async, client, obj, ret, batch>>

CallRefused(k) ==
  /\ pc[k] = "refused" /\ Return(k, "overflow")
  /\ UNCHANGED <<async, client, obj, batch>>

CallReceives(k) ==
  /\ pc[k] = "accepted" /\ done[obj[k]] = "closed"
  /\ Return(k, error[obj[k]]) /\ Release(obj[k])
  /\ obj' = [obj EXCEPT ![k] = Nil]
  /\ UNCHANGED <<canceled, client, batch>>

(* Mutant: the AsyncResult of a call that timed out goes back to the pool. *)
CallTimesOutReleases(k) ==
  /\ pc[k] = "accepted"
  /\ Return(k, "timeout") /\ canceled' = [canceled EXCEPT ![obj[k]] = TRUE]
  /\ Release(obj[k]) /\ obj' = [obj EXCEPT ![k] = Nil]
  /\ UNCHANGED <<client, batch>>

(* The AsyncResult is left to whoever has it. *)
CallTimesOut(k) ==
  /\ pc[k] = "accepted"
  /\ Return(k, "timeout") /\ canceled' = [canceled EXCEPT ![obj[k]] = TRUE]
  /\ obj' = [obj EXCEPT ![k] = Nil]
  /\ UNCHANGED <<pool, request, done, error, client, batch>>

-----------------------------------------------------------------------------
(* clientWriter, clientReader and clientHandleConnection. *)

WriterTake ==
  /\ wm = Nil /\ queue # <<>>
  /\ wm' = Head(queue) /\ queue' = Tail(queue)
  /\ UNCHANGED <<async, pending, pc, obj, ret, batch>>

WriterCanceled ==
  /\ wm # Nil /\ canceled[wm] /\ Discard(wm, "canceled") /\ wm' = Nil
  /\ UNCHANGED <<canceled, queue, pending, pc, obj, ret, batch>>

(* A request that skips the response is released before it is encoded from *)
(* the copy in wr.                                                         *)
WriterNoResponse ==
  /\ wm # Nil /\ ~canceled[wm] /\ done[wm] = "nil" /\ Release(wm) /\ wm' = Nil
  /\ UNCHANGED <<canceled, queue, pending, pc, obj, ret, batch>>

WriterRegister ==
  /\ wm # Nil /\ ~canceled[wm] /\ done[wm] # "nil"
  /\ pending' = pending \cup {wm} /\ wm' = Nil
  /\ UNCHANGED <<async, queue, pc, obj, ret, batch>>

(* A response arrives, the connection breaks, or the client is stopped. *)
Complete(o) ==
  /\ o \in pending /\ pending' = pending \ {o}
  /\ \E e \in {"ok", "server", "connection", "empty"} : Close(o, e)
  /\ UNCHANGED <<canceled, queue, wm, pc, obj, ret, batch>>

-----------------------------------------------------------------------------
(* Batch.  The application adds ops and calls CallTimeout in any order; an *)
(* op added while CallTimeout runs is left for the next.                   *)

Add(t) ==
  /\ t \notin Range(ops) \cup Range(cur) /\ pc[t] = "idle"
  /\ ops' = Append(ops, t)
  /\ UNCHANGED <<async, client, pc, obj, ret, closed, opError, b, cur, i, tries>>

(* Start op n of the local ops, or go on to wait. *)
Submit(o, n) ==
  \/ /\ n <= Len(o) /\ Goto(o[n], "push") /\ b' = "submit" /\ i' = n
  \/ /\ n > Len(o) /\ UNCHANGED pc /\ b' = "wait" /\ i' = 1

(* Mutant: b.ops is not cleared. *)
BatchCallKeeps ==
  /\ b = "idle" /\ ops # <<>>
  /\ cur' = ops /\ tries' = Retries
  /\ Submit(ops, 1)
  /\ UNCHANGED <<async, client, obj, ret, ops, closed, opError>>

BatchCall ==
  /\ b = "idle" /\ ops # <<>>
  /\ cur' = ops /\ ops' = <<>> /\ tries' = Retries
  /\ Submit(ops, 1)
  /\ UNCHANGED <<async, client, obj, ret, closed, opError>>

BatchAccepted ==
  /\ b = "submit" /\ pc[cur[i]] = "accepted"
  /\ Submit(cur, i + 1) /\ tries' = Retries
  /\ UNCHANGED <<async, client, obj, ret, ops, closed, opError, cur>>

(* Mutant: callAsyncRetry never gives up. *)
BatchRetriesForever ==
  /\ b = "submit" /\ pc[cur[i]] = "refused"
  /\ Goto(cur[i], "push")
  /\ UNCHANGED <<async, client, obj, ret, batch>>

(* callAsyncRetry: sleep for 10 ms and try again. *)
BatchRetries ==
  /\ b = "submit" /\ pc[cur[i]] = "refused" /\ tries > 0
  /\ tries' = tries - 1 /\ Goto(cur[i], "push")
  /\ UNCHANGED <<async, client, obj, ret, ops, closed, opError, b, cur, i>>

BatchReturns ==
  /\ b' = "idle" /\ i' = 1 /\ tries' = 0
  /\ obj' = [t \in Tasks |-> IF t \in Range(cur) THEN Nil ELSE obj[t]]

(* CallTimeout returns the error and leaves every op as it is. *)
BatchRefused ==
  /\ b = "submit" /\ pc[cur[i]] = "refused" /\ tries = 0
  /\ BatchReturns
  /\ UNCHANGED <<async, client, pc, ret, ops, closed, opError, cur>>

(* One iteration of the loop over results. *)
BatchReceives ==
  /\ b = "wait" /\ i <= Len(cur)
  /\ \/ cur[i] \in Skip /\ UNCHANGED <<closed, opError>>
     \/ /\ cur[i] \notin Skip /\ done[obj[cur[i]]] = "closed"
        /\ closed' = [closed EXCEPT ![cur[i]] = @ + 1]
        /\ opError' = [opError EXCEPT ![cur[i]] = error[obj[cur[i]]]]
  /\ i' = i + 1
  /\ UNCHANGED <<async, client, pc, obj, ret, ops, b, cur, tries>>

(* Mutant: the op that was waited for is passed over. *)
FailLateAfter ==
  LET late == {cur[j] : j \in i + 1 .. Len(cur)} IN
  /\ canceled' = [o \in Objects |-> canceled[o] \/ \E t \in late : obj[t] = o]
  /\ opError' = [t \in Ops |-> IF t \in late THEN "timeout" ELSE opError[t]]
  /\ closed' = [t \in Ops |-> IF t \in late \ Skip THEN closed[t] + 1 ELSE closed[t]]

(* The timer fires: cancel and fail op i and all that follow. *)
FailLate ==
  LET late == {cur[j] : j \in i .. Len(cur)} IN
  /\ canceled' = [o \in Objects |-> canceled[o] \/ \E t \in late : obj[t] = o]
  /\ opError' = [t \in Ops |-> IF t \in late THEN "timeout" ELSE opError[t]]
  /\ closed' = [t \in Ops |-> IF t \in late \ Skip THEN closed[t] + 1 ELSE closed[t]]

BatchTimesOut ==
  /\ b = "wait" /\ i <= Len(cur) /\ cur[i] \notin Skip
  /\ FailLate /\ BatchReturns
  /\ UNCHANGED <<pool, request, done, error, client, pc, ret, ops, cur>>

BatchDone ==
  /\ b = "wait" /\ i > Len(cur) /\ BatchReturns
  /\ UNCHANGED <<async, client, pc, ret, ops, closed, opError, cur>>

-----------------------------------------------------------------------------
TaskNext(t) == CallAsync(t) \/ Evict(t) \/ Retry(t)

CallNext(k) == CallRefused(k) \/ CallReceives(k) \/ CallTimesOut(k)

WriterNext == WriterTake \/ WriterCanceled \/ WriterNoResponse \/ WriterRegister

BatchNext == \/ BatchAccepted \/ BatchRetries \/ BatchRefused \/ BatchReceives
             \/ BatchTimesOut \/ BatchDone

(* Every request has been made; an op left in a batch may never be called. *)
Finished == b = "idle" /\ (\A k \in Calls : pc[k] = "returned") /\ UNCHANGED vars

Next ==
  \/ \E t \in Tasks : TaskNext(t)
  \/ \E k \in Calls : Call(k) \/ CallNext(k)
  \/ \E t \in Ops : Add(t)
  \/ \E o \in Objects : Complete(o)
  \/ WriterNext \/ BatchCall \/ BatchNext \/ Finished

Spec == Init /\ [][Next]_vars

(* The goroutines run and CallTimeout's timer fires.  No connection has to *)
(* be there: nothing is assumed of the writer, the reader or the server.   *)
FairSpec ==
  /\ Spec
  /\ \A t \in Tasks : WF_vars(TaskNext(t))
  /\ WF_vars(BatchNext)

-----------------------------------------------------------------------------
Waiting(t) == t \notin Skip /\ obj[t] # Nil

(* results[i] of an op that skips the response, while CallTimeout runs.    *)
InResults(t) == t \in Skip \cap Range(cur) /\ pc[t] = "accepted" /\ b # "idle"

(* An object in asyncResultPool is in no queue or map, clientWriter does   *)
(* not have it, and no caller refers to it but one: CallTimeout keeps the  *)
(* objects of ops that skip the response in results until it returns, long *)
(* after the writer recycled them.  It never waits for those, but cancels  *)
(* them when its timer fires (see CallNotCanceled).  And the object that a *)
(* caller waits for carries that caller's request, whatever it carried     *)
(* before.                                                                 *)
PooledUnused ==
  /\ pool \cap (Range(queue) \cup pending \cup {wm}) = {}
  /\ \A t \in Tasks : /\ obj[t] \in pool => InResults(t)
                      /\ Waiting(t) => request[obj[t]] = t

(* Response and Error of a BatchResult are settled once: a late response,  *)
(* the timeout and a second CallTimeout never close op.done again or       *)
(* change what a reader of Done may have seen.                             *)
BatchResultFinal ==
  [][\A t \in Ops : closed[t] > 0 => closed'[t] = closed[t] /\ opError'[t] = opError[t]]_vars

(* CallTimeout returns, even if no request is ever taken from the queue    *)
(* or answered.                                                            *)
BatchTerminates == b # "idle" ~> b = "idle"

(* "It is guaranteed that all <-BatchResult.Done channels are unblocked    *)
(* after the CallTimeout returns": so it is on a timeout and when all have *)
(* answered.  It is not when callAsyncRetry gave up on an op: then         *)
(* CallTimeout returns at once and leaves every channel of the batch open. *)
BatchDoneUnblocked ==
  b = "idle" /\ (\A t \in Range(cur) : pc[t] # "refused") =>
    \A t \in Range(cur) \ Skip : closed[t] > 0

(* "ErrCanceled may be returned from rpc call if AsyncResult.Cancel has    *)
(* been called": Call never cancels a call that it waits for, so it does   *)
(* not return ErrCanceled.                                                 *)
CallNotCanceled == \A k \in Calls : ret[k] # "canceled"
=============================================================================
