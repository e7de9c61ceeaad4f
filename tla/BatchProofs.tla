---------------------------- MODULE BatchProofs ----------------------------
(***************************************************************************)
(* Proofs about Batch: its types, that asyncResultPool holds no object     *)
(* that anyone still uses, that CallTimeout unblocks Done and that a       *)
(* BatchResult is settled once.                                            *)
(***************************************************************************)
EXTENDS Batch, TLAPS

-----------------------------------------------------------------------------
(* The inductive invariant. *)

Busy == {"push", "evict", "retry"}

(* Who else than its caller may reach object o: the channel, the writer or *)
(* a pending map.                                                          *)
Held(o) == (\E n \in 1 .. Len(queue) : queue[n] = o) \/ o \in pending \/ o = wm

(* An object is in the channel once, or with the writer, or in one map. *)
PlacesApart ==
  /\ \A m, n \in 1 .. Len(queue) : queue[m] = queue[n] => m = n
  /\ \A n \in 1 .. Len(queue) : queue[n] \notin pending /\ queue[n] # wm
  /\ wm \notin pending

(* What the client holds is neither recycled nor completed. *)
HeldLive == \A o \in Objects : Held(o) => o \notin pool /\ done[o] # "closed"

(* What a caller waits for is its own and has a channel to wait on. *)
WaiterOwns ==
  \A t \in Tasks : Waiting(t) =>
    obj[t] \notin pool /\ request[obj[t]] = t /\ done[obj[t]] # "nil"

(* Between the selects of callAsync nobody else has the object. *)
Owns(t) ==
  /\ t \notin Skip /\ obj[t] \in Objects
  /\ ~Held(obj[t]) /\ done[obj[t]] = "open"

CallerOwns == \A t \in Tasks : pc[t] \in {"evict", "retry"} => Owns(t)

(* A Call has its object as long as it waits. *)
CallHas == \A k \in Calls : pc[k] = "accepted" => obj[k] \in Objects

PoolInv == PlacesApart /\ HeldLive /\ WaiterOwns /\ CallerOwns /\ CallHas

(* An op is added once, and not again once a CallTimeout took it. *)
AddedOnce ==
  /\ \A m, n \in 1 .. Len(ops) : ops[m] = ops[n] => m = n
  /\ \A m, n \in 1 .. Len(cur) : cur[m] = cur[n] => m = n
  /\ \A m \in 1 .. Len(ops) : pc[ops[m]] = "idle" /\ \A n \in 1 .. Len(cur) : ops[m] # cur[n]

(* CallTimeout starts its ops one after the other. *)
InOrder ==
  /\ \A t \in Ops : pc[t] \in Busy => b = "submit" /\ cur[i] = t
  /\ b = "submit" =>
       /\ i \in 1 .. Len(cur)
       /\ \A n \in 1 .. Len(cur) :
            /\ n < i => pc[cur[n]] = "accepted"
            /\ n = i => pc[cur[n]] \in Busy \cup {"accepted", "refused"}
            /\ n > i => pc[cur[n]] = "idle"
  /\ b = "wait" => i \in 1 .. Len(cur) + 1 /\ \A n \in 1 .. Len(cur) : pc[cur[n]] = "accepted"
  /\ b # "idle" => \A n \in 1 .. Len(cur) : pc[cur[n]] = "accepted" => obj[cur[n]] \in Objects

(* The Done channels of the ops before i are closed and no others. *)
ClosedBefore ==
  /\ \A t \in Ops : pc[t] = "idle" => closed[t] = 0
  /\ b = "submit" => \A n \in 1 .. Len(cur) : closed[cur[n]] = 0
  /\ b = "wait" => \A n \in 1 .. Len(cur) :
                     /\ n < i /\ cur[n] \notin Skip => closed[cur[n]] > 0
                     /\ n >= i => closed[cur[n]] = 0
  /\ b = "idle" => \/ \E n \in 1 .. Len(cur) : pc[cur[n]] = "refused"
                   \/ \A n \in 1 .. Len(cur) : cur[n] \notin Skip => closed[cur[n]] > 0

OpsInv == AddedOnce /\ InOrder /\ ClosedBefore

BatchInv == TypeOK /\ PoolInv /\ OpsInv

-----------------------------------------------------------------------------
(* The channel. *)

(* Taking from the front of a nonempty channel. *)
LEMMA TailFacts ==
  ASSUME NEW S, NEW q \in Seq(S), q # <<>>
  PROVE  /\ Head(q) \in S /\ Head(q) = q[1] /\ Tail(q) \in Seq(S)
         /\ Len(q) \in Nat \ {0} /\ Len(Tail(q)) = Len(q) - 1
         /\ \A n \in 1 .. Len(q) - 1 : Tail(q)[n] = q[n + 1]
  OBVIOUS

(* Adding at the end of a channel. *)
LEMMA AppendFacts ==
  ASSUME NEW S, NEW q \in Seq(S), NEW x \in S
  PROVE  /\ Append(q, x) \in Seq(S) /\ Len(Append(q, x)) = Len(q) + 1 /\ Len(q) \in Nat
         /\ Append(q, x)[Len(q) + 1] = x
         /\ \A n \in 1 .. Len(q) : Append(q, x)[n] = q[n]
  OBVIOUS

(* The elements of a sequence are those of its set of values. *)
LEMMA RangeFacts ==
  ASSUME NEW S, NEW q \in Seq(S)
  PROVE  \A x : x \in Range(q) <=> \E n \in 1 .. Len(q) : q[n] = x
  BY DEF Range

(* getAsyncResult returns an object nobody else refers to, new or pooled. *)
LEMMA AcquireFacts ==
  ASSUME BatchInv, NEW t \in Tasks, NEW o \in Objects, Acquire(t, o)
  PROVE  /\ ~Held(o) /\ \A u \in Tasks : Waiting(u) => obj[u] # o
         /\ canceled' \in [Objects -> BOOLEAN]
<1>1. queue \in Seq(Objects) /\ canceled \in [Objects -> BOOLEAN] /\ obj \in [Tasks -> Objects \cup {Nil}]
  BY DEF BatchInv, TypeOK
<1>2. CASE New(o)
  <2>1. ~Held(o)
    BY <1>1, <1>2, RangeFacts DEF New, InUse, Held
  <2>2. \A u \in Tasks : obj[u] # o
    BY <1>1, <1>2 DEF New, InUse, Range
  <2>3. QED
    BY <1>1, <1>2, <2>1, <2>2 DEF New
<1>3. CASE o \in pool /\ UNCHANGED canceled
  BY <1>1, <1>3 DEF BatchInv, PoolInv, HeldLive, WaiterOwns
<1>4. QED
  BY <1>2, <1>3 DEF Acquire

-----------------------------------------------------------------------------
(* The two ways through the first select of callAsync. *)

(* The queue is full and nobody waits: the object goes to the pool. *)
Refuses(t, o) ==
  /\ ~HasRoom /\ t \in Skip /\ Goto(t, "refused")
  /\ Release(o) /\ UNCHANGED <<obj, queue>>

(* The object is filled in; it is pushed, or one in the queue makes room. *)
FillsIn(t, o) ==
  /\ pool' = pool \ {o} /\ error' = [error EXCEPT ![o] = "none"]
  /\ obj' = [obj EXCEPT ![t] = o]
  /\ request' = [request EXCEPT ![o] = t]
  /\ done' = [done EXCEPT ![o] = IF t \in Skip THEN "nil" ELSE "open"]
  /\ \/ HasRoom /\ queue' = Append(queue, o) /\ Goto(t, "accepted")
     \/ ~HasRoom /\ t \notin Skip /\ Goto(t, "evict") /\ UNCHANGED queue

(* callAsync takes one of them. *)
LEMMA CallAsyncCases ==
  ASSUME NEW t \in Tasks, CallAsync(t)
  PROVE  /\ pc[t] = "push" /\ UNCHANGED <<wm, pending, ret, batch>>
         /\ \E o \in Objects : Acquire(t, o) /\ (Refuses(t, o) \/ FillsIn(t, o))
  BY Zenon DEF CallAsync, Refuses, FillsIn

-----------------------------------------------------------------------------
(* Types. *)

(* Discard and Release keep the fields of AsyncResults typed. *)
LEMMA DiscardTypes ==
  ASSUME TypeOK, NEW o \in Objects, NEW e \in Outcomes, Discard(o, e)
  PROVE  /\ pool' \subseteq Objects /\ request' \in [Objects -> Tasks \cup {Nil}]
         /\ done' \in [Objects -> {"nil", "open", "closed"}] /\ error' \in [Objects -> Outcomes]
  BY ZenonT(40) DEF TypeOK, Discard, Close, Release, Reset, Outcomes

(* The same for an object that is released. *)
LEMMA ReleaseTypes ==
  ASSUME TypeOK, NEW o \in Objects, Release(o)
  PROVE  /\ pool' \subseteq Objects /\ request' \in [Objects -> Tasks \cup {Nil}]
         /\ done' \in [Objects -> {"nil", "open", "closed"}] /\ error' \in [Objects -> Outcomes]
  BY DEF TypeOK, Release, Reset, Outcomes

(* Starting an op or going on to wait. *)
LEMMA SubmitTypes ==
  ASSUME TypeOK, NEW o \in Seq(Ops), NEW n \in Nat \ {0}, Submit(o, n)
  PROVE  /\ pc' \in [Tasks -> {"idle", "push", "evict", "retry", "accepted", "refused", "returned"}]
         /\ b' \in {"idle", "submit", "wait"} /\ i' \in Nat
<1>1. pc \in [Tasks -> {"idle", "push", "evict", "retry", "accepted", "refused", "returned"}]
  BY DEF TypeOK
<1>2. CASE n <= Len(o) /\ Goto(o[n], "push") /\ b' = "submit" /\ i' = n
  BY <1>1, <1>2 DEF Goto
<1>3. CASE n > Len(o) /\ UNCHANGED pc /\ b' = "wait" /\ i' = 1
  BY <1>1, <1>3
<1>4. QED
  BY <1>2, <1>3 DEF Submit

(* CallTimeout returns. *)
LEMMA ReturnTypes ==
  ASSUME TypeOK, BatchReturns
  PROVE  /\ obj' \in [Tasks -> Objects \cup {Nil}]
         /\ b' \in {"idle", "submit", "wait"} /\ i' \in Nat /\ tries' \in 0 .. Retries
  BY BatchAssumption DEF TypeOK, BatchReturns

(* Every step keeps the types. *)
LEMMA NextTypes == BatchInv /\ [Next]_vars => TypeOK'
<1> SUFFICES ASSUME BatchInv, [Next]_vars PROVE TypeOK'
  OBVIOUS
<1> USE BatchAssumption DEF async, client, batch
<1>0. TypeOK
  BY DEF BatchInv
<1>1. ASSUME NEW t \in Tasks, CallAsync(t) PROVE TypeOK'
  <2> PICK o \in Objects : Acquire(t, o) /\ (Refuses(t, o) \/ FillsIn(t, o))
    BY <1>1, CallAsyncCases
  <2>1. canceled' \in [Objects -> BOOLEAN]
    BY AcquireFacts
  <2>2. CASE Refuses(t, o)
    BY <1>0, <1>1, <2>1, <2>2, ReleaseTypes, CallAsyncCases DEF Refuses, TypeOK, Goto
  <2>3. CASE FillsIn(t, o)
    <3>1. /\ pool' \subseteq Objects /\ request' \in [Objects -> Tasks \cup {Nil}]
          /\ done' \in [Objects -> {"nil", "open", "closed"}] /\ error' \in [Objects -> Outcomes]
          /\ obj' \in [Tasks -> Objects \cup {Nil}]
      BY <1>0, <2>3 DEF FillsIn, TypeOK, Outcomes
    <3>2. queue' \in Seq(Objects) /\ Len(queue') <= PendingRequests
      <4>1. queue \in Seq(Objects) /\ Len(queue) <= PendingRequests
        BY <1>0 DEF TypeOK
      <4>2. Append(queue, o) \in Seq(Objects) /\ Len(Append(queue, o)) = Len(queue) + 1 /\ Len(queue) \in Nat
        BY <4>1, AppendFacts
      <4>3. QED
        BY <2>3, <4>1, <4>2 DEF FillsIn, HasRoom
    <3>3. pc' \in [Tasks -> {"idle", "push", "evict", "retry", "accepted", "refused", "returned"}]
      BY <1>0, <2>3 DEF FillsIn, TypeOK, Goto
    <3>4. QED
      BY <1>0, <1>1, <2>1, <3>1, <3>2, <3>3, CallAsyncCases DEF TypeOK
  <2>4. QED
    BY <2>2, <2>3
<1>2. ASSUME NEW t \in Tasks, Evict(t) PROVE TypeOK'
  <2>1. CASE queue # <<>> /\ queue' = Tail(queue) /\ Discard(Head(queue), "overflow")
    <3>1. Head(queue) \in Objects /\ queue' \in Seq(Objects) /\ Len(queue') <= PendingRequests
      BY <1>0, <2>1, TailFacts DEF TypeOK
    <3>2. /\ pool' \subseteq Objects /\ request' \in [Objects -> Tasks \cup {Nil}]
          /\ done' \in [Objects -> {"nil", "open", "closed"}] /\ error' \in [Objects -> Outcomes]
      BY <1>0, <2>1, <3>1, DiscardTypes DEF Outcomes
    <3>3. QED
      BY <1>0, <1>2, <3>1, <3>2 DEF Evict, Goto, TypeOK
  <2>2. CASE queue = <<>> /\ UNCHANGED <<queue, pool, request, done, error>>
    BY <1>0, <1>2, <2>2 DEF Evict, Goto, TypeOK
  <2>3. QED
    BY <1>2, <2>1, <2>2 DEF Evict
<1>3. ASSUME NEW t \in Tasks, Retry(t) PROVE TypeOK'
  <2>1. obj[t] \in Objects
    BY <1>3 DEF Retry, BatchInv, PoolInv, CallerOwns, Owns
  <2>2. CASE HasRoom /\ queue' = Append(queue, obj[t]) /\ Goto(t, "accepted") /\ UNCHANGED <<pool, request, done, error, obj>>
    <3>1. queue' \in Seq(Objects) /\ Len(queue') <= PendingRequests
      BY <1>0, <2>1, <2>2, AppendFacts DEF TypeOK, HasRoom
    <3>2. QED
      BY <1>0, <1>3, <2>2, <3>1 DEF Retry, Goto, TypeOK
  <2>3. CASE ~HasRoom /\ Release(obj[t]) /\ Goto(t, "refused") /\ obj' = [obj EXCEPT ![t] = Nil] /\ UNCHANGED queue
    BY <1>0, <1>3, <2>1, <2>3, ReleaseTypes DEF Retry, Goto, TypeOK
  <2>4. QED
    BY <1>3, <2>2, <2>3 DEF Retry
<1>4. ASSUME NEW k \in Calls, Call(k) PROVE TypeOK'
  BY <1>0, <1>4 DEF Call, Goto, TypeOK
<1>5. ASSUME NEW k \in Calls, CallRefused(k) PROVE TypeOK'
  BY <1>0, <1>5 DEF CallRefused, Return, Goto, TypeOK, Outcomes
<1>6. ASSUME NEW k \in Calls, CallReceives(k) PROVE TypeOK'
  <2>1. obj[k] \in Objects /\ k \in Tasks
    BY <1>6 DEF CallReceives, BatchInv, PoolInv, CallHas, Tasks
  <2>2. /\ pool' \subseteq Objects /\ request' \in [Objects -> Tasks \cup {Nil}]
        /\ done' \in [Objects -> {"nil", "open", "closed"}] /\ error' \in [Objects -> Outcomes]
    BY <1>0, <1>6, <2>1, ReleaseTypes DEF CallReceives
  <2>3. QED
    BY <1>0, <1>6, <2>1, <2>2 DEF CallReceives, Return, Goto, TypeOK
<1>7. ASSUME NEW k \in Calls, CallTimesOut(k) PROVE TypeOK'
  BY <1>0, <1>7 DEF CallTimesOut, Return, Goto, TypeOK, Tasks
<1>8. CASE WriterTake
  <2>1. wm' \in Objects /\ queue' \in Seq(Objects) /\ Len(queue') <= PendingRequests
    BY <1>0, <1>8, TailFacts DEF WriterTake, TypeOK
  <2>2. QED
    BY <1>0, <1>8, <2>1 DEF WriterTake, TypeOK
<1>9. CASE WriterCanceled
  <2>1. wm \in Objects
    BY <1>0, <1>9 DEF WriterCanceled, TypeOK
  <2>2. QED
    BY <1>0, <1>9, <2>1, DiscardTypes DEF WriterCanceled, TypeOK, Outcomes
<1>10. CASE WriterNoResponse
  <2>1. wm \in Objects
    BY <1>0, <1>10 DEF WriterNoResponse, TypeOK
  <2>2. QED
    BY <1>0, <1>10, <2>1, ReleaseTypes DEF WriterNoResponse, TypeOK
<1>11. CASE WriterRegister
  BY <1>0, <1>11 DEF WriterRegister, TypeOK
<1>12. ASSUME NEW o \in Objects, Complete(o) PROVE TypeOK'
  BY <1>0, <1>12 DEF Complete, Close, TypeOK, Outcomes
<1>13. ASSUME NEW t \in Ops, Add(t) PROVE TypeOK'
  <2>1. ops' \in Seq(Ops)
    BY <1>0, <1>13, AppendFacts DEF Add, TypeOK
  <2>2. QED
    BY <1>0, <1>13, <2>1 DEF Add, TypeOK
<1>14. CASE BatchCall
  <2>1. /\ pc' \in [Tasks -> {"idle", "push", "evict", "retry", "accepted", "refused", "returned"}]
        /\ b' \in {"idle", "submit", "wait"} /\ i' \in Nat
    BY <1>0, <1>14, SubmitTypes DEF BatchCall, TypeOK
  <2>2. QED
    BY <1>0, <1>14, <2>1 DEF BatchCall, TypeOK
<1>15. CASE BatchAccepted
  <2>1. /\ pc' \in [Tasks -> {"idle", "push", "evict", "retry", "accepted", "refused", "returned"}]
        /\ b' \in {"idle", "submit", "wait"} /\ i' \in Nat
    <3>1. PICK n : n = i + 1
      OBVIOUS
    <3>2. n \in Nat \ {0} /\ cur \in Seq(Ops)
      BY <1>0, <3>1 DEF TypeOK
    <3>3. QED
      BY <1>0, <1>15, <3>1, <3>2, SubmitTypes DEF BatchAccepted
  <2>2. QED
    BY <1>0, <1>15, <2>1 DEF BatchAccepted, TypeOK
<1>16. CASE BatchRetries
  <2>1. tries' \in 0 .. Retries
    BY <1>0, <1>16 DEF BatchRetries, TypeOK
  <2>2. pc' \in [Tasks -> {"idle", "push", "evict", "retry", "accepted", "refused", "returned"}]
    BY <1>0, <1>16 DEF BatchRetries, Goto, TypeOK
  <2>3. QED
    BY <1>0, <1>16, <2>1, <2>2 DEF BatchRetries, TypeOK
<1>17. CASE BatchRefused
  BY <1>0, <1>17, ReturnTypes DEF BatchRefused, TypeOK
<1>18. CASE BatchReceives
  <2>1. cur[i] \in Ops
    BY <1>0, <1>18 DEF BatchReceives, TypeOK, BatchInv, OpsInv, InOrder
  <2>2. obj[cur[i]] \in Objects
    BY <1>0, <1>18 DEF BatchReceives, TypeOK, BatchInv, OpsInv, InOrder
  <2>3. closed' \in [Ops -> Nat] /\ opError' \in [Ops -> Outcomes \cup {"timeout"}]
    <3>1. closed \in [Ops -> Nat] /\ opError \in [Ops -> Outcomes \cup {"timeout"}] /\ error[obj[cur[i]]] \in Outcomes
      BY <1>0, <2>2 DEF TypeOK
    <3>2. QED
      BY <1>18, <2>1, <3>1 DEF BatchReceives
  <2>4. QED
    BY <1>0, <1>18, <2>3 DEF BatchReceives, TypeOK
<1>19. CASE BatchTimesOut
  <2>1. canceled' \in [Objects -> BOOLEAN]
    BY <1>19 DEF BatchTimesOut, FailLate
  <2>2. closed' \in [Ops -> Nat] /\ opError' \in [Ops -> Outcomes \cup {"timeout"}]
    BY <1>0, <1>19 DEF BatchTimesOut, FailLate, TypeOK
  <2>3. QED
    BY <1>0, <1>19, <2>1, <2>2, ReturnTypes DEF BatchTimesOut, TypeOK
<1>20. CASE BatchDone
  BY <1>0, <1>20, ReturnTypes DEF BatchDone, TypeOK
<1>21. CASE UNCHANGED vars
  BY <1>0, <1>21 DEF vars, TypeOK
<1>22. QED
  BY <1>1, <1>2, <1>3, <1>4, <1>5, <1>6, <1>7, <1>8, <1>9, <1>10, <1>11, <1>12, <1>13, <1>14, <1>15, <1>16, <1>17, <1>18, <1>19, <1>20, <1>21 DEF Next, TaskNext, CallNext, WriterNext, BatchNext, Finished

-----------------------------------------------------------------------------
(* The pool. *)

(* What the types say, piece by piece. *)
LEMMA Typed ==
  ASSUME BatchInv
  PROVE  /\ queue \in Seq(Objects) /\ Len(queue) \in Nat
         /\ \A n \in 1 .. Len(queue) : queue[n] \in Objects
         /\ pool \subseteq Objects /\ pending \subseteq Objects /\ wm \in Objects \cup {Nil}
         /\ request \in [Objects -> Tasks \cup {Nil}]
         /\ done \in [Objects -> {"nil", "open", "closed"}]
         /\ obj \in [Tasks -> Objects \cup {Nil}]
         /\ pc \in [Tasks -> {"idle", "push", "evict", "retry", "accepted", "refused", "returned"}]
         /\ Nil \notin Objects /\ Calls \subseteq Tasks /\ Ops \subseteq Tasks /\ Ops \cap Calls = {}
  BY BatchAssumption DEF BatchInv, TypeOK, Tasks

(* The objects of two waiting callers differ. *)
LEMMA WaitersDiffer ==
  ASSUME BatchInv, NEW t \in Tasks, NEW u \in Tasks, t # u, Waiting(t), Waiting(u)
  PROVE  obj[t] # obj[u]
  BY DEF BatchInv, PoolInv, WaiterOwns

(* A caller between its selects waits. *)
LEMMA CallerWaits ==
  ASSUME BatchInv, NEW t \in Tasks, pc[t] \in {"evict", "retry"}
  PROVE  Waiting(t)
  BY Typed DEF BatchInv, PoolInv, CallerOwns, Owns, Waiting

(* The client gives up an object that it holds: done is closed, or the     *)
(* object is recycled because nobody waits for it.                         *)
LEMMA GiveUp ==
  ASSUME BatchInv, NEW o \in Objects, NEW e, Held(o), Discard(o, e) \/ Close(o, e),
         PlacesApart', \A x \in Objects : Held(x)' => Held(x) /\ x # o,
         UNCHANGED obj,
         \A t \in Tasks : pc'[t] = pc[t] \/ (pc[t] = "evict" /\ pc'[t] = "retry")
  PROVE  PoolInv'
<1>1. \/ Close(o, e)
      \/ done[o] = "nil" /\ Release(o)
  BY DEF Discard
<1>2. /\ \A x \in Objects \ {o} : done'[x] = done[x] /\ request'[x] = request[x] /\ (x \in pool' <=> x \in pool)
      /\ pool' \subseteq pool \cup {o}
  BY <1>1, Typed DEF Close, Release, Reset
<1>3. HeldLive'
  BY <1>2 DEF BatchInv, PoolInv, HeldLive
<1>4. WaiterOwns'
  <2> SUFFICES ASSUME NEW t \in Tasks, Waiting(t)' PROVE obj'[t] \notin pool' /\ request'[obj'[t]] = t /\ done'[obj'[t]] # "nil"
    BY DEF WaiterOwns
  <2>1. Waiting(t) /\ obj'[t] = obj[t] /\ obj[t] \in Objects
    BY Typed DEF Waiting
  <2>2. obj[t] \notin pool /\ request[obj[t]] = t /\ done[obj[t]] # "nil"
    BY <2>1 DEF BatchInv, PoolInv, WaiterOwns
  <2>3. CASE obj[t] # o
    BY <1>2, <2>1, <2>2, <2>3
  <2>4. CASE obj[t] = o
    <3>1. Close(o, e)
      BY <1>1, <2>2, <2>4
    <3>2. done'[o] = "closed" /\ UNCHANGED <<request, pool>>
      BY <3>1, Typed DEF Close
    <3>3. QED
      BY <2>1, <2>2, <2>4, <3>2
  <2>5. QED
    BY <2>3, <2>4
<1>5. CallerOwns'
  <2> SUFFICES ASSUME NEW t \in Tasks, pc'[t] \in {"evict", "retry"}
               PROVE  Owns(t)'
    BY DEF CallerOwns
  <2>1. t \notin Skip /\ obj[t] \in Objects /\ ~Held(obj[t]) /\ done[obj[t]] = "open"
    BY DEF BatchInv, PoolInv, CallerOwns, Owns
  <2>2. obj[t] # o
    BY <2>1
  <2>3. PICK x : x = obj[t]
    OBVIOUS
  <2>4. obj'[t] = x /\ ~Held(x)' /\ done'[x] = "open"
    BY <1>2, <2>1, <2>2, <2>3
  <2>5. QED
    BY <2>1, <2>3, <2>4 DEF Owns, Held
<1>6. CallHas'
  BY Typed DEF BatchInv, PoolInv, CallHas
<1>7. QED
  BY <1>3, <1>4, <1>5, <1>6 DEF PoolInv

(* A caller gives its object back, which nobody else has. *)
LEMMA GiveBack ==
  ASSUME BatchInv, NEW t \in Tasks, t \notin Skip, obj[t] \in Objects, ~Held(obj[t]),
         Release(obj[t]), obj' = [obj EXCEPT ![t] = Nil], UNCHANGED <<queue, wm, pending>>,
         NEW p \in {"refused", "returned"}, pc' = [pc EXCEPT ![t] = p]
  PROVE  PoolInv'
<1>1. PICK o : o = obj[t]
  OBVIOUS
<1>2. o \in Objects /\ ~Held(o) /\ Waiting(t)
  BY <1>1, Typed DEF Waiting
<1>3. /\ \A x \in Objects \ {o} : done'[x] = done[x] /\ request'[x] = request[x]
      /\ pool' = pool \cup {o}
  BY <1>1, <1>2, Typed DEF Release, Reset
<1>4. \A u \in Tasks \ {t} : obj'[u] = obj[u] /\ pc'[u] = pc[u]
  BY Typed
<1>5. obj'[t] = Nil /\ pc'[t] = p
  BY Typed
<1>6. \A x : Held(x)' <=> Held(x)
  BY DEF Held
<1>7. PlacesApart' /\ HeldLive'
  BY <1>2, <1>3, <1>6 DEF BatchInv, PoolInv, PlacesApart, HeldLive
<1>8. WaiterOwns'
  <2> SUFFICES ASSUME NEW u \in Tasks, Waiting(u)' PROVE obj'[u] \notin pool' /\ request'[obj'[u]] = u /\ done'[obj'[u]] # "nil"
    BY DEF WaiterOwns
  <2>1. u # t /\ Waiting(u)
    BY <1>4, <1>5 DEF Waiting
  <2>2. obj[u] # o /\ obj[u] \in Objects
    BY <1>1, <1>2, <2>1, WaitersDiffer, Typed DEF Waiting
  <2>3. obj[u] \notin pool /\ request[obj[u]] = u /\ done[obj[u]] # "nil"
    BY <2>1 DEF BatchInv, PoolInv, WaiterOwns
  <2>4. QED
    BY <1>3, <1>4, <2>1, <2>2, <2>3
<1>9. CallerOwns'
  <2> SUFFICES ASSUME NEW u \in Tasks, pc'[u] \in {"evict", "retry"}
               PROVE  Owns(u)'
    BY DEF CallerOwns
  <2>1. u # t /\ pc[u] \in {"evict", "retry"}
    BY <1>4, <1>5
  <2>2. u \notin Skip /\ obj[u] \in Objects /\ ~Held(obj[u]) /\ done[obj[u]] = "open"
    BY <2>1 DEF BatchInv, PoolInv, CallerOwns, Owns
  <2>3. obj[u] # o
    BY <1>1, <1>2, <2>1, WaitersDiffer, CallerWaits
  <2>4. PICK x : x = obj[u]
    OBVIOUS
  <2>5. obj'[u] = x /\ ~Held(x)' /\ done'[x] = "open"
    BY <1>3, <1>4, <1>6, <2>1, <2>2, <2>3, <2>4
  <2>6. QED
    BY <2>2, <2>4, <2>5 DEF Owns, Held
<1>10. CallHas'
  BY <1>4, <1>5, Typed DEF BatchInv, PoolInv, CallHas
<1>11. QED
  BY <1>7, <1>8, <1>9, <1>10 DEF PoolInv

(* An object moves between channel, writer and map. *)
LEMMA MoveHeld ==
  ASSUME BatchInv, PlacesApart', \A x \in Objects : Held(x)' => Held(x),
         UNCHANGED <<pool, request, done, obj, pc>>
  PROVE  PoolInv'
<1>1. HeldLive'
  BY DEF BatchInv, PoolInv, HeldLive
<1>2. WaiterOwns' /\ CallHas'
  BY DEF BatchInv, PoolInv, WaiterOwns, CallHas, Waiting
<1>3. CallerOwns'
  <2> SUFFICES ASSUME NEW t \in Tasks, pc'[t] \in {"evict", "retry"} PROVE Owns(t)'
    BY DEF CallerOwns
  <2>1. PICK x : x = obj[t]
    OBVIOUS
  <2>2. t \notin Skip /\ x \in Objects /\ ~Held(x) /\ done[x] = "open"
    BY <2>1 DEF BatchInv, PoolInv, CallerOwns, Owns
  <2>3. ~Held(x)'
    BY <2>2
  <2>4. QED
    BY <2>1, <2>2, <2>3 DEF Owns, Held
<1>4. QED
  BY <1>1, <1>2, <1>3 DEF PoolInv

(* No object changes, and callers only let go of theirs. *)
LEMMA LetGo ==
  ASSUME BatchInv, UNCHANGED <<pool, request, done, queue, wm, pending>>,
         \A t \in Tasks : obj'[t] = obj[t] \/ obj'[t] = Nil,
         \A t \in Tasks : pc'[t] \in {"evict", "retry"} => pc'[t] = pc[t] /\ obj'[t] = obj[t],
         \A k \in Calls : pc'[k] = "accepted" => pc[k] = pc'[k] /\ obj'[k] = obj[k]
  PROVE  PoolInv'
<1>1. \A x : Held(x)' <=> Held(x)
  BY DEF Held
<1>2. PlacesApart' /\ HeldLive'
  BY <1>1 DEF BatchInv, PoolInv, PlacesApart, HeldLive
<1>3. WaiterOwns' /\ CallHas'
  BY DEF BatchInv, PoolInv, WaiterOwns, CallHas, Waiting
<1>4. CallerOwns'
  <2> SUFFICES ASSUME NEW t \in Tasks, pc'[t] \in {"evict", "retry"} PROVE Owns(t)'
    BY DEF CallerOwns
  <2>1. Owns(t) /\ obj'[t] = obj[t]
    BY DEF BatchInv, PoolInv, CallerOwns
  <2>2. QED
    BY <2>1 DEF Owns, Held
<1>5. QED
  BY <1>2, <1>3, <1>4 DEF PoolInv

(* An object nobody holds enters the channel. *)
LEMMA EnterQueue ==
  ASSUME BatchInv, NEW o \in Objects, ~Held(o), queue' = Append(queue, o), UNCHANGED <<wm, pending>>
  PROVE  PlacesApart' /\ \A x : Held(x)' <=> Held(x) \/ x = o
<1>1. PICK l : l = Len(queue)
  OBVIOUS
<1>2. /\ l \in Nat /\ Len(queue') = l + 1 /\ queue'[l + 1] = o
      /\ \A n \in 1 .. l : queue'[n] = queue[n]
  BY <1>1, Typed, AppendFacts
<1>3. \A n \in 1 .. l + 1 : n \in 1 .. l \/ n = l + 1
  BY <1>2
<1>4. \A x : Held(x)' <=> Held(x) \/ x = o
  <2> SUFFICES ASSUME NEW x PROVE (\E n \in 1 .. l + 1 : queue'[n] = x) <=> (\E n \in 1 .. l : queue[n] = x) \/ x = o
    BY <1>1, <1>2 DEF Held
  <2>1. ASSUME NEW n \in 1 .. l + 1, queue'[n] = x PROVE (\E m \in 1 .. l : queue[m] = x) \/ x = o
    BY <1>2, <1>3, <2>1
  <2>2. ASSUME NEW n \in 1 .. l, queue[n] = x PROVE \E m \in 1 .. l + 1 : queue'[m] = x
    BY <1>2, <2>2
  <2>3. ASSUME x = o PROVE \E m \in 1 .. l + 1 : queue'[m] = x
    BY <1>2, <2>3
  <2>4. QED
    BY <2>1, <2>2, <2>3
<1>5. \A n \in 1 .. l : queue[n] # o
  BY <1>1 DEF Held
<1>6. o \notin pending /\ o # wm
  BY DEF Held
<1>7. PlacesApart
  BY DEF BatchInv, PoolInv
<1>8. ASSUME NEW m \in 1 .. l + 1, NEW n \in 1 .. l + 1, queue'[m] = queue'[n] PROVE m = n
  BY <1>1, <1>2, <1>3, <1>5, <1>7, <1>8 DEF PlacesApart
<1>9. ASSUME NEW n \in 1 .. l + 1 PROVE queue'[n] \notin pending /\ queue'[n] # wm
  BY <1>1, <1>2, <1>3, <1>6, <1>7, <1>9 DEF PlacesApart
<1>10. PlacesApart'
  BY <1>2, <1>7, <1>8, <1>9 DEF PlacesApart
<1>11. QED
  BY <1>4, <1>10

(* The front of the channel leaves it. *)
LEMMA LeaveQueue ==
  ASSUME BatchInv, queue # <<>>, queue' = Tail(queue), UNCHANGED pending
  PROVE  /\ Head(queue) \in Objects /\ Held(Head(queue))
         /\ Head(queue) \notin pending /\ Head(queue) # wm
         /\ \A m, n \in 1 .. Len(queue') : queue'[m] = queue'[n] => m = n
         /\ \A n \in 1 .. Len(queue') : /\ queue'[n] \notin pending /\ queue'[n] # wm
                                        /\ queue'[n] # Head(queue)
                                        /\ Held(queue'[n])
<1>1. PICK l : l = Len(queue)
  OBVIOUS
<1>2. /\ l \in Nat \ {0} /\ Len(queue') = l - 1 /\ Head(queue) = queue[1] /\ Head(queue) \in Objects
      /\ \A n \in 1 .. l - 1 : queue'[n] = queue[n + 1]
  BY <1>1, Typed, TailFacts
<1>3. /\ \A m, n \in 1 .. l : queue[m] = queue[n] => m = n
      /\ \A n \in 1 .. l : queue[n] \notin pending /\ queue[n] # wm
  BY <1>1 DEF BatchInv, PoolInv, PlacesApart
<1>4. 1 \in 1 .. l /\ \A n \in 1 .. l - 1 : n + 1 \in 1 .. l /\ n + 1 # 1
  BY <1>2
<1>5. \A n \in 1 .. l : Held(queue[n])
  BY <1>1 DEF Held
<1>6. ASSUME NEW m \in 1 .. l - 1, NEW n \in 1 .. l - 1, queue'[m] = queue'[n] PROVE m = n
  <2>1. m + 1 = n + 1
    BY <1>2, <1>3, <1>4, <1>6
  <2>2. QED
    BY <1>2, <2>1
<1>7. ASSUME NEW n \in 1 .. l - 1
      PROVE  queue'[n] \notin pending /\ queue'[n] # wm /\ queue'[n] # Head(queue) /\ Held(queue'[n])
  <2>1. queue'[n] = queue[n + 1] /\ n + 1 \in 1 .. l /\ n + 1 # 1
    BY <1>2, <1>4
  <2>2. QED
    BY <1>2, <1>3, <1>4, <1>5, <2>1
<1>8. QED
  BY <1>2, <1>3, <1>4, <1>5, <1>6, <1>7

(* A caller pushes the object that it has filled in. *)
LEMMA PushPool ==
  ASSUME BatchInv, NEW t \in Tasks, Retry(t), queue' = Append(queue, obj[t]), Goto(t, "accepted"),
         UNCHANGED <<pool, request, done, obj>>
  PROVE  PoolInv'
<1>1. PICK o : o = obj[t]
  OBVIOUS
<1>2. pc[t] = "retry" /\ UNCHANGED <<wm, pending>>
  BY DEF Retry
<1>3. o \in Objects /\ ~Held(o) /\ done[o] = "open" /\ t \notin Skip /\ Waiting(t)
  BY <1>1, <1>2, Typed DEF BatchInv, PoolInv, CallerOwns, Owns, Waiting
<1>4. PlacesApart' /\ \A x : Held(x)' <=> Held(x) \/ x = o
  BY <1>1, <1>2, <1>3, EnterQueue
<1>5. o \notin pool
  BY <1>1, <1>3 DEF BatchInv, PoolInv, WaiterOwns
<1>6. HeldLive'
  BY <1>3, <1>4, <1>5 DEF BatchInv, PoolInv, HeldLive
<1>7. WaiterOwns'
  BY DEF BatchInv, PoolInv, WaiterOwns, Waiting
<1>8. pc'[t] = "accepted" /\ \A u \in Tasks \ {t} : pc'[u] = pc[u]
  BY Typed DEF Goto
<1>9. CallerOwns'
  <2> SUFFICES ASSUME NEW u \in Tasks, pc'[u] \in {"evict", "retry"} PROVE Owns(u)'
    BY DEF CallerOwns
  <2>1. u # t /\ pc[u] \in {"evict", "retry"}
    BY <1>8
  <2>2. PICK x : x = obj[u]
    OBVIOUS
  <2>3. u \notin Skip /\ x \in Objects /\ ~Held(x) /\ done[x] = "open"
    BY <2>1, <2>2 DEF BatchInv, PoolInv, CallerOwns, Owns
  <2>4. x # o
    BY <1>1, <1>3, <2>1, <2>2, WaitersDiffer, CallerWaits
  <2>5. ~Held(x)'
    BY <1>4, <2>3, <2>4
  <2>6. QED
    BY <2>2, <2>3, <2>5 DEF Owns, Held
<1>10. CallHas'
  BY <1>1, <1>3, <1>8, Typed DEF BatchInv, PoolInv, CallHas
<1>11. QED
  BY <1>4, <1>6, <1>7, <1>9, <1>10 DEF PoolInv

(* callAsync refuses an op that skips the response. *)
LEMMA RefusesPool ==
  ASSUME BatchInv, NEW t \in Tasks, NEW o \in Objects, Acquire(t, o), Refuses(t, o),
         UNCHANGED <<wm, pending>>
  PROVE  PoolInv'
<1>1. ~Held(o) /\ \A u \in Tasks : Waiting(u) => obj[u] # o
  BY AcquireFacts
<1>2. /\ \A x \in Objects \ {o} : done'[x] = done[x] /\ request'[x] = request[x]
      /\ pool' = pool \cup {o} /\ UNCHANGED <<obj, queue>>
  BY Typed DEF Refuses, Release, Reset
<1>3. pc'[t] = "refused" /\ \A u \in Tasks \ {t} : pc'[u] = pc[u]
  BY Typed DEF Refuses, Goto
<1>4. \A x : Held(x)' <=> Held(x)
  BY <1>2 DEF Held
<1>5. PlacesApart' /\ HeldLive'
  BY <1>1, <1>2, <1>4 DEF BatchInv, PoolInv, PlacesApart, HeldLive
<1>6. WaiterOwns'
  <2> SUFFICES ASSUME NEW u \in Tasks, Waiting(u)' PROVE obj'[u] \notin pool' /\ request'[obj'[u]] = u /\ done'[obj'[u]] # "nil"
    BY DEF WaiterOwns
  <2>1. Waiting(u) /\ obj'[u] = obj[u] /\ obj[u] \in Objects \ {o}
    BY <1>1, <1>2, Typed DEF Waiting
  <2>2. obj[u] \notin pool /\ request[obj[u]] = u /\ done[obj[u]] # "nil"
    BY <2>1 DEF BatchInv, PoolInv, WaiterOwns
  <2>3. QED
    BY <1>2, <2>1, <2>2
<1>7. CallerOwns'
  <2> SUFFICES ASSUME NEW u \in Tasks, pc'[u] \in {"evict", "retry"} PROVE Owns(u)'
    BY DEF CallerOwns
  <2>1. pc[u] \in {"evict", "retry"}
    BY <1>3
  <2>2. PICK x : x = obj[u]
    OBVIOUS
  <2>3. u \notin Skip /\ x \in Objects /\ ~Held(x) /\ done[x] = "open"
    BY <2>1, <2>2 DEF BatchInv, PoolInv, CallerOwns, Owns
  <2>4. x # o
    BY <1>1, <2>1, <2>2, CallerWaits
  <2>5. ~Held(x)' /\ done'[x] = "open"
    BY <1>2, <1>4, <2>3, <2>4
  <2>6. QED
    BY <1>2, <2>2, <2>3, <2>5 DEF Owns, Held
<1>8. CallHas'
  BY <1>2, <1>3, Typed DEF BatchInv, PoolInv, CallHas
<1>9. QED
  BY <1>5, <1>6, <1>7, <1>8 DEF PoolInv

(* callAsync fills in the object it got and pushes it or makes room. *)
LEMMA FillsInPool ==
  ASSUME BatchInv, NEW t \in Tasks, NEW o \in Objects, Acquire(t, o), FillsIn(t, o),
         UNCHANGED <<wm, pending>>
  PROVE  PoolInv'
<1>1. ~Held(o) /\ \A u \in Tasks : Waiting(u) => obj[u] # o
  BY AcquireFacts
<1>2. /\ \A x \in Objects \ {o} : done'[x] = done[x] /\ request'[x] = request[x]
      /\ pool' = pool \ {o} /\ request'[o] = t /\ done'[o] = IF t \in Skip THEN "nil" ELSE "open"
  BY Typed DEF FillsIn
<1>3. obj'[t] = o /\ \A u \in Tasks \ {t} : obj'[u] = obj[u]
  BY Typed DEF FillsIn
<1>4. /\ pc'[t] \in {"accepted", "evict"} /\ \A u \in Tasks \ {t} : pc'[u] = pc[u]
      /\ pc'[t] = "evict" => t \notin Skip /\ UNCHANGED queue
  BY Typed DEF FillsIn, Goto
<1>5. /\ PlacesApart' /\ \A x \in Objects : Held(x)' => Held(x) \/ x = o
      /\ pc'[t] = "evict" => ~Held(o)'
  <2>1. CASE UNCHANGED queue
    <3>1. \A x : Held(x)' <=> Held(x)
      BY <2>1 DEF Held
    <3>2. PlacesApart'
      BY <2>1 DEF BatchInv, PoolInv, PlacesApart
    <3>3. QED
      BY <1>1, <3>1, <3>2
  <2>2. CASE queue' = Append(queue, o) /\ Goto(t, "accepted")
    <3>1. PlacesApart' /\ \A x : Held(x)' <=> Held(x) \/ x = o
      BY <1>1, <2>2, EnterQueue
    <3>2. pc'[t] = "accepted"
      BY <2>2, Typed DEF Goto
    <3>3. QED
      BY <3>1, <3>2
  <2>3. QED
    BY <2>1, <2>2 DEF FillsIn
<1>6. HeldLive'
  <2> SUFFICES ASSUME NEW x \in Objects, Held(x)' PROVE x \notin pool' /\ done'[x] # "closed"
    BY DEF HeldLive
  <2>1. CASE x = o
    BY <1>2, <2>1
  <2>2. CASE x # o
    <3>1. Held(x)
      BY <1>5, <2>2
    <3>2. QED
      BY <1>2, <2>2, <3>1 DEF BatchInv, PoolInv, HeldLive
  <2>3. QED
    BY <2>1, <2>2
<1>7. WaiterOwns'
  <2> SUFFICES ASSUME NEW u \in Tasks, Waiting(u)' PROVE obj'[u] \notin pool' /\ request'[obj'[u]] = u /\ done'[obj'[u]] # "nil"
    BY DEF WaiterOwns
  <2>1. CASE u = t
    BY <1>2, <1>3, <2>1 DEF Waiting
  <2>2. CASE u # t
    <3>1. Waiting(u) /\ obj'[u] = obj[u] /\ obj[u] \in Objects \ {o}
      BY <1>1, <1>3, <2>2, Typed DEF Waiting
    <3>2. obj[u] \notin pool /\ request[obj[u]] = u /\ done[obj[u]] # "nil"
      BY <3>1 DEF BatchInv, PoolInv, WaiterOwns
    <3>3. QED
      BY <1>2, <3>1, <3>2
  <2>3. QED
    BY <2>1, <2>2
<1>8. CallerOwns'
  <2> SUFFICES ASSUME NEW u \in Tasks, pc'[u] \in {"evict", "retry"} PROVE Owns(u)'
    BY DEF CallerOwns
  <2>1. CASE u = t
    <3>1. t \notin Skip /\ ~Held(o)' /\ obj'[t] = o /\ done'[o] = "open"
      BY <1>2, <1>3, <1>4, <1>5, <2>1
    <3>2. QED
      BY <2>1, <3>1 DEF Owns, Held
  <2>2. CASE u # t
    <3>1. pc[u] \in {"evict", "retry"} /\ obj'[u] = obj[u]
      BY <1>3, <1>4, <2>2
    <3>2. PICK x : x = obj[u]
      OBVIOUS
    <3>3. u \notin Skip /\ x \in Objects /\ ~Held(x) /\ done[x] = "open"
      BY <3>1, <3>2 DEF BatchInv, PoolInv, CallerOwns, Owns
    <3>4. x # o
      BY <1>1, <3>1, <3>2, CallerWaits
    <3>5. ~Held(x)' /\ done'[x] = "open"
      BY <1>2, <1>5, <3>3, <3>4
    <3>6. QED
      BY <3>1, <3>2, <3>3, <3>5 DEF Owns, Held
  <2>3. QED
    BY <2>1, <2>2
<1>9. CallHas'
  BY <1>3, <1>4, Typed DEF BatchInv, PoolInv, CallHas
<1>10. QED
  BY <1>5, <1>6, <1>7, <1>8, <1>9 DEF PoolInv

(* CallTimeout lets go of the objects of its ops. *)
LEMMA ReturnsLetGo ==
  ASSUME BatchInv, BatchReturns, UNCHANGED <<pool, request, done, queue, wm, pending, pc>>,
         \A t \in Ops : pc[t] \notin {"evict", "retry"}
  PROVE  PoolInv'
<1>1. cur \in Seq(Ops)
  BY DEF BatchInv, TypeOK
<1>2. Range(cur) \subseteq Ops
  BY <1>1 DEF Range
<1>3. \A t \in Tasks : obj'[t] = obj[t] \/ (obj'[t] = Nil /\ t \in Ops)
  BY <1>2 DEF BatchReturns
<1>4. \A t \in Tasks : pc'[t] \in {"evict", "retry"} => pc'[t] = pc[t] /\ obj'[t] = obj[t]
  BY <1>3
<1>5. \A k \in Calls : pc'[k] = "accepted" => pc[k] = pc'[k] /\ obj'[k] = obj[k]
  BY <1>3, Typed
<1>6. QED
  BY <1>3, <1>4, <1>5, LetGo

(* Starting an op of a batch leaves all objects as they are. *)
LEMMA SubmitPool ==
  ASSUME BatchInv, NEW o \in Seq(Ops), NEW n \in Nat \ {0}, Submit(o, n),
         UNCHANGED <<pool, request, done, queue, wm, pending, obj>>
  PROVE  PoolInv'
<1>1. \A t \in Tasks : pc'[t] = pc[t] \/ (t \in Ops /\ pc'[t] = "push")
  <2>1. CASE n <= Len(o) /\ Goto(o[n], "push")
    <3>1. o[n] \in Ops
      BY <2>1
    <3>2. QED
      BY <2>1, <3>1, Typed DEF Goto
  <2>2. CASE UNCHANGED pc
    BY <2>2
  <2>3. QED
    BY <2>1, <2>2 DEF Submit
<1>2. QED
  BY <1>1, LetGo, Typed

(* Every step keeps pool, channel and callers apart. *)
LEMMA NextPool == BatchInv /\ [Next]_vars => PoolInv'
<1> SUFFICES ASSUME BatchInv, [Next]_vars PROVE PoolInv'
  OBVIOUS
<1> USE DEF async, client, batch
<1>0. PoolInv
  BY DEF BatchInv
<1>1. ASSUME NEW t \in Tasks, CallAsync(t) PROVE PoolInv'
  <2>1. PICK o \in Objects : Acquire(t, o) /\ (Refuses(t, o) \/ FillsIn(t, o))
    BY <1>1, CallAsyncCases
  <2>2. UNCHANGED <<wm, pending>>
    BY <1>1, CallAsyncCases
  <2>3. QED
    BY <2>1, <2>2, RefusesPool, FillsInPool
<1>2. ASSUME NEW t \in Tasks, Evict(t) PROVE PoolInv'
  <2>1. \A u \in Tasks : pc'[u] = pc[u] \/ (pc[u] = "evict" /\ pc'[u] = "retry")
    BY <1>2, Typed DEF Evict, Goto
  <2>2. CASE queue # <<>> /\ queue' = Tail(queue) /\ Discard(Head(queue), "overflow")
    <3>1. PICK o : o = Head(queue)
      OBVIOUS
    <3>2. UNCHANGED <<wm, pending, obj>>
      BY <1>2 DEF Evict
    <3>3. /\ o \in Objects /\ Held(o) /\ o \notin pending /\ o # wm
          /\ \A m, n \in 1 .. Len(queue') : queue'[m] = queue'[n] => m = n
          /\ \A n \in 1 .. Len(queue') : /\ queue'[n] \notin pending /\ queue'[n] # wm
                                         /\ queue'[n] # o /\ Held(queue'[n])
      BY <2>2, <3>1, <3>2, LeaveQueue
    <3>4. PlacesApart'
      BY <1>0, <3>2, <3>3 DEF PoolInv, PlacesApart
    <3>5. \A x \in Objects : Held(x)' => Held(x) /\ x # o
      <4> SUFFICES ASSUME NEW x \in Objects, Held(x)' PROVE Held(x) /\ x # o
        OBVIOUS
      <4>1. CASE \E n \in 1 .. Len(queue') : queue'[n] = x
        BY <3>3, <4>1
      <4>2. CASE x \in pending \/ x = wm
        BY <3>3, <4>2 DEF Held
      <4>3. QED
        BY <3>2, <4>1, <4>2 DEF Held
    <3>6. QED
      BY <2>1, <2>2, <3>1, <3>2, <3>3, <3>4, <3>5, GiveUp
  <2>3. CASE queue = <<>> /\ UNCHANGED <<queue, pool, request, done, error>>
    <3>1. UNCHANGED <<pool, request, done, queue, wm, pending, obj>>
      BY <1>2, <2>3 DEF Evict
    <3>2. WaiterOwns' /\ HeldLive' /\ PlacesApart'
      BY <1>0, <3>1 DEF PoolInv, WaiterOwns, HeldLive, PlacesApart, Held, Waiting
    <3>3. CallerOwns'
      BY <1>0, <2>1, <3>1 DEF PoolInv, CallerOwns, Owns, Held
    <3>4. CallHas'
      BY <1>0, <2>1, <3>1, Typed DEF PoolInv, CallHas
    <3>5. QED
      BY <3>2, <3>3, <3>4 DEF PoolInv
  <2>4. QED
    BY <1>2, <2>2, <2>3 DEF Evict
<1>3. ASSUME NEW t \in Tasks, Retry(t) PROVE PoolInv'
  <2>1. CASE HasRoom /\ queue' = Append(queue, obj[t]) /\ Goto(t, "accepted") /\ UNCHANGED <<pool, request, done, error, obj>>
    BY <1>3, <2>1, PushPool
  <2>2. CASE ~HasRoom /\ Release(obj[t]) /\ Goto(t, "refused") /\ obj' = [obj EXCEPT ![t] = Nil] /\ UNCHANGED queue
    <3>1. t \notin Skip /\ obj[t] \in Objects /\ ~Held(obj[t])
      BY <1>0, <1>3 DEF Retry, PoolInv, CallerOwns, Owns
    <3>2. UNCHANGED <<queue, wm, pending>> /\ pc' = [pc EXCEPT ![t] = "refused"]
      BY <1>3, <2>2 DEF Retry, Goto
    <3>3. QED
      BY <2>2, <3>1, <3>2, GiveBack
  <2>3. QED
    BY <1>3, <2>1, <2>2 DEF Retry
<1>4. ASSUME NEW k \in Calls, Call(k) PROVE PoolInv'
  <2>1. UNCHANGED <<pool, request, done, queue, wm, pending, obj>>
    BY <1>4 DEF Call
  <2>2. \A t \in Tasks : pc'[t] = pc[t] \/ pc'[t] = "push"
    BY <1>4, Typed DEF Call, Goto
  <2>3. QED
    BY <2>1, <2>2, LetGo, Typed
<1>5. ASSUME NEW k \in Calls, CallRefused(k) PROVE PoolInv'
  <2>1. UNCHANGED <<pool, request, done, queue, wm, pending, obj>>
    BY <1>5 DEF CallRefused
  <2>2. \A t \in Tasks : pc'[t] = pc[t] \/ pc'[t] = "returned"
    BY <1>5, Typed DEF CallRefused, Return, Goto
  <2>3. QED
    BY <2>1, <2>2, LetGo, Typed
<1>6. ASSUME NEW k \in Calls, CallReceives(k) PROVE PoolInv'
  <2>1. obj[k] \in Objects /\ k \in Tasks /\ k \notin Skip
    BY <1>0, <1>6, BatchAssumption DEF CallReceives, PoolInv, CallHas, Tasks
  <2>2. ~Held(obj[k])
    BY <1>0, <1>6, <2>1 DEF CallReceives, PoolInv, HeldLive
  <2>3. UNCHANGED <<queue, wm, pending>> /\ pc' = [pc EXCEPT ![k] = "returned"]
    BY <1>6 DEF CallReceives, Return, Goto
  <2>4. QED
    BY <1>6, <2>1, <2>2, <2>3, GiveBack DEF CallReceives
<1>7. ASSUME NEW k \in Calls, CallTimesOut(k) PROVE PoolInv'
  <2>1. UNCHANGED <<pool, request, done, queue, wm, pending>>
    BY <1>7 DEF CallTimesOut
  <2>2. pc'[k] = "returned" /\ \A t \in Tasks \ {k} : pc'[t] = pc[t]
    BY <1>7, Typed DEF CallTimesOut, Return, Goto
  <2>3. obj'[k] = Nil /\ \A t \in Tasks \ {k} : obj'[t] = obj[t]
    BY <1>7, Typed DEF CallTimesOut
  <2>4. QED
    BY <2>1, <2>2, <2>3, LetGo, Typed
<1>8. CASE WriterTake
  <2>1. PICK o : o = Head(queue)
    OBVIOUS
  <2>2. /\ wm = Nil /\ wm' = o /\ queue # <<>> /\ queue' = Tail(queue)
        /\ UNCHANGED <<pending, pool, request, done, obj, pc>>
    BY <1>8, <2>1 DEF WriterTake
  <2>3. /\ o \in Objects /\ Held(o) /\ o \notin pending
        /\ \A m, n \in 1 .. Len(queue') : queue'[m] = queue'[n] => m = n
        /\ \A n \in 1 .. Len(queue') : /\ queue'[n] \notin pending
                                       /\ queue'[n] # o /\ Held(queue'[n])
    BY <2>1, <2>2, LeaveQueue
  <2>4. PlacesApart'
    BY <2>2, <2>3 DEF PlacesApart
  <2>5. \A x \in Objects : Held(x)' => Held(x)
    <3> SUFFICES ASSUME NEW x \in Objects, Held(x)' PROVE Held(x)
      OBVIOUS
    <3>1. CASE \E n \in 1 .. Len(queue') : queue'[n] = x
      BY <2>3, <3>1
    <3>2. CASE x \in pending
      BY <3>2 DEF Held
    <3>3. CASE x = wm'
      BY <2>2, <2>3, <3>3
    <3>4. QED
      BY <2>2, <3>1, <3>2, <3>3 DEF Held
  <2>6. QED
    BY <2>2, <2>4, <2>5, MoveHeld
<1>9. CASE WriterCanceled \/ WriterNoResponse
  <2>1. PICK o : o = wm
    OBVIOUS
  <2>2. /\ o \in Objects /\ Held(o) /\ Discard(o, "canceled") /\ wm' = Nil
        /\ UNCHANGED <<queue, pending, pc, obj>>
    BY <1>9, <2>1, Typed DEF WriterCanceled, WriterNoResponse, Held, Discard
  <2>3. PlacesApart'
    BY <1>0, <2>2, Typed DEF PoolInv, PlacesApart
  <2>4. \A x \in Objects : Held(x)' => Held(x) /\ x # o
    BY <1>0, <2>1, <2>2, Typed DEF PoolInv, PlacesApart, Held
  <2>5. QED
    BY <2>2, <2>3, <2>4, GiveUp
<1>10. CASE WriterRegister
  <2>1. /\ wm # Nil /\ wm' = Nil /\ pending' = pending \cup {wm}
        /\ UNCHANGED <<queue, pool, request, done, obj, pc>>
    BY <1>10 DEF WriterRegister
  <2>2. PlacesApart'
    BY <1>0, <2>1, Typed DEF PoolInv, PlacesApart
  <2>3. \A x \in Objects : Held(x)' => Held(x)
    BY <2>1, Typed DEF Held
  <2>4. QED
    BY <2>1, <2>2, <2>3, MoveHeld
<1>12. ASSUME NEW o \in Objects, Complete(o) PROVE PoolInv'
  <2>1. PICK e : Close(o, e)
    BY <1>12 DEF Complete
  <2>2. o \in pending /\ pending' = pending \ {o} /\ UNCHANGED <<queue, wm, pc, obj>>
    BY <1>12 DEF Complete
  <2>3. Held(o)
    BY <2>2 DEF Held
  <2>4. PlacesApart'
    BY <1>0, <2>2, Typed DEF PoolInv, PlacesApart
  <2>5. \A x \in Objects : Held(x)' => Held(x) /\ x # o
    BY <1>0, <2>2, Typed DEF PoolInv, PlacesApart, Held
  <2>6. QED
    BY <2>1, <2>2, <2>3, <2>4, <2>5, GiveUp
<1>13. ASSUME NEW t \in Ops, Add(t) PROVE PoolInv'
  <2>1. UNCHANGED <<pool, request, done, queue, wm, pending, obj, pc>>
    BY <1>13 DEF Add
  <2>2. QED
    BY <2>1, LetGo
<1>14. CASE BatchCall
  <2>1. ops \in Seq(Ops) /\ 1 \in Nat \ {0}
    BY DEF BatchInv, TypeOK
  <2>2. QED
    BY <1>14, <2>1, SubmitPool DEF BatchCall
<1>15. CASE BatchAccepted
  <2>1. PICK n : n = i + 1
    OBVIOUS
  <2>2. cur \in Seq(Ops) /\ n \in Nat \ {0}
    BY <2>1 DEF BatchInv, TypeOK
  <2>3. QED
    BY <1>15, <2>1, <2>2, SubmitPool DEF BatchAccepted
<1>16. CASE BatchRetries
  <2>1. UNCHANGED <<pool, request, done, queue, wm, pending, obj>>
    BY <1>16 DEF BatchRetries
  <2>2. \A t \in Tasks : pc'[t] = pc[t] \/ pc'[t] = "push"
    BY <1>16, Typed DEF BatchRetries, Goto
  <2>3. QED
    BY <2>1, <2>2, LetGo, Typed
<1>17. CASE BatchRefused
  <2>1. \A t \in Ops : pc[t] \notin {"evict", "retry"}
    BY <1>17 DEF BatchRefused, BatchInv, OpsInv, InOrder, Busy
  <2>2. QED
    BY <1>17, <2>1, ReturnsLetGo DEF BatchRefused
<1>18. CASE BatchReceives
  <2>1. UNCHANGED <<pool, request, done, queue, wm, pending, obj, pc>>
    BY <1>18 DEF BatchReceives
  <2>2. QED
    BY <2>1, LetGo
<1>19. CASE BatchTimesOut \/ BatchDone
  <2>1. \A t \in Ops : pc[t] \notin {"evict", "retry"}
    BY <1>19 DEF BatchTimesOut, BatchDone, BatchInv, OpsInv, InOrder, Busy
  <2>2. QED
    BY <1>19, <2>1, ReturnsLetGo DEF BatchTimesOut, BatchDone
<1>20. CASE UNCHANGED vars
  <2>1. UNCHANGED <<pool, request, done, queue, wm, pending, obj, pc>>
    BY <1>20 DEF vars
  <2>2. QED
    BY <2>1, LetGo
<1>21. QED
  BY <1>1, <1>2, <1>3, <1>4, <1>5, <1>6, <1>7, <1>8, <1>9, <1>10, <1>12, <1>13, <1>14, <1>15, <1>16, <1>17, <1>18, <1>19, <1>20 DEF Next, TaskNext, CallNext, WriterNext, BatchNext, Finished

-----------------------------------------------------------------------------
(* The ops of a batch. *)

(* What the types say of Batch's variables, piece by piece. *)
LEMMA OpsTyped ==
  ASSUME BatchInv
  PROVE  /\ ops \in Seq(Ops) /\ Len(ops) \in Nat /\ \A n \in 1 .. Len(ops) : ops[n] \in Ops
         /\ cur \in Seq(Ops) /\ Len(cur) \in Nat /\ \A n \in 1 .. Len(cur) : cur[n] \in Ops
         /\ closed \in [Ops -> Nat] /\ i \in Nat /\ b \in {"idle", "submit", "wait"}
         /\ \A t \in Ops : t \in Tasks /\ t \notin Calls
  BY BatchAssumption DEF BatchInv, TypeOK, Tasks

(* callAsync goes on for one op or Call. *)
LEMMA TaskStep ==
  ASSUME BatchInv, NEW t \in Tasks, NEW p, pc' = [pc EXCEPT ![t] = p],
         UNCHANGED <<ops, closed, b, cur, i>>,
         t \in Ops => pc[t] \in Busy /\ p \in {"evict", "retry", "accepted", "refused"},
         t \in Ops /\ p = "accepted" => obj'[t] \in Objects,
         \A u \in Tasks \ {t} : obj'[u] = obj[u]
  PROVE  OpsInv'
<1>1. pc'[t] = p /\ \A u \in Tasks \ {t} : pc'[u] = pc[u]
  BY Typed
<1>2. AddedOnce /\ InOrder /\ ClosedBefore
  BY DEF BatchInv, OpsInv
<1>3. \A u \in Ops : pc[u] = "idle" => pc'[u] = "idle"
  BY <1>1, OpsTyped DEF Busy
<1>4. \A u \in Ops : pc'[u] = "idle" => pc[u] = "idle"
  BY <1>1, OpsTyped DEF Busy
<1>5. AddedOnce'
  BY <1>2, <1>3, OpsTyped DEF AddedOnce
<1>6. \A u \in Ops : pc'[u] \in Busy => pc[u] \in Busy
  BY <1>1, OpsTyped
<1>7. b = "submit" => \A n \in 1 .. Len(cur) : n # i => cur[n] # t
  <2> SUFFICES ASSUME b = "submit", NEW n \in 1 .. Len(cur), n # i, cur[n] = t PROVE FALSE
    OBVIOUS
  <2>1. t \in Ops /\ (n < i \/ n > i)
    BY OpsTyped
  <2>2. pc[t] \in {"accepted", "idle"}
    BY <1>2, <2>1 DEF InOrder
  <2>3. QED
    BY <2>1, <2>2 DEF Busy
<1>8. b = "wait" => \A n \in 1 .. Len(cur) : cur[n] # t
  BY <1>2, OpsTyped DEF InOrder, Busy
<1>9. b = "idle" => t \notin Ops
  BY <1>2 DEF InOrder
<1>10. InOrder'
  <2>1. b = "submit" =>
          \A n \in 1 .. Len(cur) :
            /\ n < i => pc'[cur[n]] = "accepted"
            /\ n = i => pc'[cur[n]] \in Busy \cup {"accepted", "refused"}
            /\ n > i => pc'[cur[n]] = "idle"
    <3> SUFFICES ASSUME b = "submit", NEW n \in 1 .. Len(cur)
                 PROVE  /\ n < i => pc'[cur[n]] = "accepted"
                        /\ n = i => pc'[cur[n]] \in Busy \cup {"accepted", "refused"}
                        /\ n > i => pc'[cur[n]] = "idle"
      OBVIOUS
    <3>1. cur[n] \in Ops /\ cur[n] \in Tasks /\ n \in Int /\ i \in Int
      BY OpsTyped
    <3>2. CASE n # i
      BY <1>1, <1>2, <1>7, <3>1, <3>2 DEF InOrder
    <3>3. CASE n = i
      BY <1>1, <1>2, <3>1, <3>3 DEF InOrder, Busy
    <3>4. QED
      BY <3>2, <3>3
  <2>2. b = "wait" => \A n \in 1 .. Len(cur) : pc'[cur[n]] = "accepted"
    BY <1>1, <1>2, <1>8, OpsTyped DEF InOrder
  <2>3. b # "idle" => \A n \in 1 .. Len(cur) : pc'[cur[n]] = "accepted" => obj'[cur[n]] \in Objects
    BY <1>1, <1>2, OpsTyped DEF InOrder
  <2>4. QED
    BY <1>2, <1>6, <2>1, <2>2, <2>3 DEF InOrder
<1>11. ClosedBefore'
  <2>1. b = "idle" => \A n \in 1 .. Len(cur) : pc'[cur[n]] = pc[cur[n]]
    BY <1>1, <1>9, OpsTyped
  <2>2. QED
    BY <1>2, <1>4, <2>1 DEF ClosedBefore
<1>12. QED
  BY <1>5, <1>10, <1>11 DEF OpsInv

(* A step that none of the ops sees. *)
LEMMA OpsUnseen ==
  ASSUME BatchInv, UNCHANGED <<pc, obj, ops, closed, b, cur, i>>
  PROVE  OpsInv'
  BY DEF BatchInv, OpsInv, AddedOnce, InOrder, ClosedBefore

(* CallTimeout returns after its last op or because it gave one up. *)
LEMMA ReturnsOps ==
  ASSUME BatchInv, BatchReturns, UNCHANGED <<pc, ops, cur>>,
         \A t \in Ops : pc[t] \notin Busy,
         \A t \in Ops : pc[t] = "idle" => closed'[t] = closed[t],
         \/ \E n \in 1 .. Len(cur) : pc[cur[n]] = "refused"
         \/ \A n \in 1 .. Len(cur) : cur[n] \notin Skip => closed'[cur[n]] > 0
  PROVE  OpsInv'
<1>1. b' = "idle"
  BY DEF BatchReturns
<1>2. AddedOnce'
  BY DEF BatchInv, OpsInv, AddedOnce
<1>3. InOrder'
  BY <1>1 DEF InOrder
<1>4. ClosedBefore'
  BY <1>1 DEF BatchInv, OpsInv, ClosedBefore
<1>5. QED
  BY <1>2, <1>3, <1>4 DEF OpsInv

(* Every step keeps the books of CallTimeout. *)
LEMMA NextOps == BatchInv /\ [Next]_vars => OpsInv'
<1> SUFFICES ASSUME BatchInv, [Next]_vars PROVE OpsInv'
  OBVIOUS
<1> USE DEF async, client, batch
<1>0. AddedOnce /\ InOrder /\ ClosedBefore
  BY DEF BatchInv, OpsInv
<1>1. ASSUME NEW t \in Tasks, CallAsync(t) PROVE OpsInv'
  <2>1. PICK o \in Objects : Refuses(t, o) \/ FillsIn(t, o)
    BY <1>1, CallAsyncCases
  <2>2. pc[t] \in Busy /\ UNCHANGED <<ops, closed, b, cur, i>>
    BY <1>1, CallAsyncCases DEF Busy
  <2>3. CASE Refuses(t, o)
    <3>1. pc' = [pc EXCEPT ![t] = "refused"] /\ UNCHANGED obj
      BY <2>3 DEF Refuses, Goto
    <3>2. QED
      BY <2>2, <3>1, TaskStep
  <2>4. CASE FillsIn(t, o)
    <3>1. PICK p \in {"accepted", "evict"} : pc' = [pc EXCEPT ![t] = p]
      BY <2>4 DEF FillsIn, Goto
    <3>2. obj'[t] = o /\ \A u \in Tasks \ {t} : obj'[u] = obj[u]
      BY <2>4, Typed DEF FillsIn
    <3>3. QED
      BY <2>2, <3>1, <3>2, TaskStep
  <2>5. QED
    BY <2>1, <2>3, <2>4
<1>2. ASSUME NEW t \in Tasks, Evict(t) PROVE OpsInv'
  <2>1. pc[t] \in Busy /\ pc' = [pc EXCEPT ![t] = "retry"] /\ UNCHANGED <<obj, ops, closed, b, cur, i>>
    BY <1>2 DEF Evict, Goto, Busy
  <2>2. QED
    BY <2>1, TaskStep
<1>3. ASSUME NEW t \in Tasks, Retry(t) PROVE OpsInv'
  <2>1. pc[t] \in Busy /\ UNCHANGED <<ops, closed, b, cur, i>>
    BY <1>3 DEF Retry, Busy
  <2>2. CASE pc' = [pc EXCEPT ![t] = "accepted"] /\ UNCHANGED obj
    <3>1. obj[t] \in Objects
      BY <1>3 DEF Retry, BatchInv, PoolInv, CallerOwns, Owns
    <3>2. QED
      BY <2>1, <2>2, <3>1, TaskStep
  <2>3. CASE pc' = [pc EXCEPT ![t] = "refused"] /\ obj' = [obj EXCEPT ![t] = Nil]
    <3>1. \A u \in Tasks \ {t} : obj'[u] = obj[u]
      BY <2>3, Typed
    <3>2. QED
      BY <2>1, <2>3, <3>1, TaskStep
  <2>4. QED
    BY <1>3, <2>2, <2>3 DEF Retry, Goto
<1>4. ASSUME NEW k \in Calls, Call(k) \/ CallNext(k) PROVE OpsInv'
  <2>1. k \in Tasks /\ k \notin Ops
    BY Typed, OpsTyped
  <2>2. UNCHANGED <<ops, closed, b, cur, i>>
    BY <1>4 DEF Call, CallNext, CallRefused, CallReceives, CallTimesOut
  <2>3. \A u \in Tasks \ {k} : obj'[u] = obj[u]
    BY <1>4, Typed DEF Call, CallNext, CallRefused, CallReceives, CallTimesOut
  <2>4. PICK p : pc' = [pc EXCEPT ![k] = p]
    BY <1>4 DEF Call, CallNext, CallRefused, CallReceives, CallTimesOut, Return, Goto
  <2>5. QED
    BY <2>1, <2>2, <2>3, <2>4, TaskStep
<1>5. CASE WriterNext
  <2>1. UNCHANGED <<pc, obj, ops, closed, b, cur, i>>
    BY <1>5 DEF WriterNext, WriterTake, WriterCanceled, WriterNoResponse, WriterRegister
  <2>2. QED
    BY <2>1, OpsUnseen
<1>6. ASSUME NEW o \in Objects, Complete(o) PROVE OpsInv'
  <2>1. UNCHANGED <<pc, obj, ops, closed, b, cur, i>>
    BY <1>6 DEF Complete
  <2>2. QED
    BY <2>1, OpsUnseen
<1>7. ASSUME NEW t \in Ops, Add(t) PROVE OpsInv'
  <2>1. pc[t] = "idle" /\ ops' = Append(ops, t) /\ UNCHANGED <<pc, obj, closed, b, cur, i>>
    BY <1>7 DEF Add
  <2>2. /\ \A n \in 1 .. Len(ops) : ops[n] # t
        /\ \A n \in 1 .. Len(cur) : cur[n] # t
    BY <1>7, RangeFacts, OpsTyped DEF Add
  <2>3. PICK l : l = Len(ops)
    OBVIOUS
  <2>4. /\ l \in Nat /\ Len(ops') = l + 1 /\ ops'[l + 1] = t
        /\ \A n \in 1 .. l : ops'[n] = ops[n]
    BY <2>1, <2>3, AppendFacts, OpsTyped
  <2>5. \A n \in 1 .. l + 1 : n \in 1 .. l \/ n = l + 1
    BY <2>4
  <2>6. AddedOnce'
    <3>1. ASSUME NEW m \in 1 .. l + 1, NEW n \in 1 .. l + 1, ops'[m] = ops'[n] PROVE m = n
      BY <1>0, <2>2, <2>3, <2>4, <2>5, <3>1 DEF AddedOnce
    <3>2. ASSUME NEW m \in 1 .. l + 1
          PROVE  pc[ops'[m]] = "idle" /\ \A n \in 1 .. Len(cur) : ops'[m] # cur[n]
      BY <1>0, <2>1, <2>2, <2>3, <2>4, <2>5 DEF AddedOnce
    <3>3. QED
      BY <1>0, <2>1, <2>4, <3>1, <3>2 DEF AddedOnce
  <2>7. InOrder' /\ ClosedBefore'
    BY <1>0, <2>1 DEF InOrder, ClosedBefore
  <2>8. QED
    BY <2>6, <2>7 DEF OpsInv
<1>8. CASE BatchCall
  <2>1. /\ b = "idle" /\ cur' = ops /\ ops' = <<>> /\ UNCHANGED <<obj, closed>>
        /\ 1 \in 1 .. Len(ops)
    BY <1>8, OpsTyped DEF BatchCall
  <2>2. b' = "submit" /\ i' = 1 /\ pc' = [pc EXCEPT ![ops[1]] = "push"]
    BY <1>8, <2>1, OpsTyped DEF BatchCall, Submit, Goto
  <2>3. ops[1] \in Ops /\ pc'[ops[1]] = "push" /\ \A u \in Tasks \ {ops[1]} : pc'[u] = pc[u]
    BY <2>1, <2>2, Typed, OpsTyped
  <2>4. AddedOnce'
    BY <1>0, <2>1 DEF AddedOnce
  <2>5. \A n \in 1 .. Len(ops) : n > 1 => pc'[ops[n]] = "idle"
    BY <1>0, <2>1, <2>3, OpsTyped DEF AddedOnce
  <2>6. \A t \in Ops : pc'[t] \in Busy => t = ops[1]
    BY <1>0, <2>1, <2>3, OpsTyped DEF InOrder
  <2>7. InOrder'
    <3>1. \A n \in 1 .. Len(ops) : ~(n < 1) /\ (n = 1 => pc'[ops[n]] = "push") /\ n \in Int
      BY <2>3, OpsTyped
    <3>2. QED
      BY <2>1, <2>2, <2>5, <2>6, <3>1 DEF InOrder, Busy
  <2>8. ClosedBefore'
    <3>1. \A n \in 1 .. Len(ops) : closed[ops[n]] = 0
      BY <1>0, OpsTyped DEF AddedOnce, ClosedBefore
    <3>2. \A t \in Ops : pc'[t] = "idle" => pc[t] = "idle"
      BY <2>3, OpsTyped
    <3>3. QED
      BY <1>0, <2>1, <2>2, <3>1, <3>2 DEF ClosedBefore
  <2>9. QED
    BY <2>4, <2>7, <2>8 DEF OpsInv
<1>9. CASE BatchAccepted
  <2>1. /\ b = "submit" /\ pc[cur[i]] = "accepted" /\ Submit(cur, i + 1)
        /\ UNCHANGED <<obj, ops, closed, cur>> /\ i \in 1 .. Len(cur) /\ cur[i] \in Ops
    BY <1>0, <1>9, OpsTyped DEF BatchAccepted, InOrder
  <2>2. \A t \in Ops : pc[t] \notin Busy
    BY <1>0, <2>1 DEF InOrder, Busy
  <2>3. CASE i + 1 <= Len(cur) /\ Goto(cur[i + 1], "push") /\ b' = "submit" /\ i' = i + 1
    <3>1. PICK j : j = i + 1
      OBVIOUS
    <3>2. j \in 1 .. Len(cur) /\ i' = j /\ b' = "submit" /\ cur[j] \in Ops
      BY <2>1, <2>3, <3>1, OpsTyped
    <3>3. pc'[cur[j]] = "push" /\ \A u \in Tasks \ {cur[j]} : pc'[u] = pc[u]
      BY <2>3, <3>1, <3>2, Typed, OpsTyped DEF Goto
    <3>4. pc[cur[j]] = "idle"
      BY <1>0, <2>1, <3>1, <3>2, OpsTyped DEF InOrder
    <3>5. \A n \in 1 .. Len(cur) : n # j => cur[n] # cur[j] /\ pc'[cur[n]] = pc[cur[n]]
      BY <1>0, <3>2, <3>3, OpsTyped DEF AddedOnce
    <3>6. AddedOnce'
      BY <1>0, <2>1, <3>2, <3>3, OpsTyped, ZenonT(40) DEF AddedOnce
    <3>7. ASSUME NEW n \in 1 .. Len(cur)
          PROVE  /\ n < j => pc'[cur[n]] = "accepted"
                 /\ n = j => pc'[cur[n]] = "push"
                 /\ n > j => pc'[cur[n]] = "idle"
      <4>1. n < j => n < i \/ n = i
        BY <3>1, OpsTyped
      <4>2. n > j => n > i
        BY <3>1, OpsTyped
      <4>3. n < j => n # j
        BY <3>2
      <4>4. n > j => n # j
        BY <3>2
      <4>5. QED
        BY <1>0, <2>1, <3>3, <3>5, <4>1, <4>2, <4>3, <4>4 DEF InOrder
    <3>8. \A t \in Ops : pc'[t] \in Busy => t = cur[j]
      BY <2>2, <3>3, OpsTyped
    <3>9. \A n \in 1 .. Len(cur) : pc'[cur[n]] = "accepted" => obj'[cur[n]] \in Objects
      BY <1>0, <2>1, <3>3, <3>5 DEF InOrder
    <3>10. InOrder'
      BY <2>1, <3>2, <3>7, <3>8, <3>9 DEF InOrder, Busy
    <3>11. ClosedBefore'
      <4>1. \A t \in Ops : pc'[t] = "idle" => pc[t] = "idle"
        BY <3>3, OpsTyped
      <4>2. QED
        BY <1>0, <2>1, <3>2, <4>1 DEF ClosedBefore
    <3>12. QED
      BY <3>6, <3>10, <3>11 DEF OpsInv
  <2>4. CASE i + 1 > Len(cur) /\ UNCHANGED pc /\ b' = "wait" /\ i' = 1
    <3>1. i = Len(cur) /\ i' \in 1 .. Len(cur) + 1
      BY <2>1, <2>4, OpsTyped
    <3>2. \A n \in 1 .. Len(cur) : pc[cur[n]] = "accepted"
      BY <1>0, <2>1, <3>1, OpsTyped DEF InOrder
    <3>3. AddedOnce'
      BY <1>0, <2>1, <2>4 DEF AddedOnce
    <3>4. InOrder'
      BY <1>0, <2>1, <2>2, <2>4, <3>1, <3>2 DEF InOrder
    <3>5. ClosedBefore'
      <4>1. \A n \in 1 .. Len(cur) : ~(n < 1)
        BY OpsTyped
      <4>2. QED
        BY <1>0, <2>1, <2>4, <4>1 DEF ClosedBefore
    <3>6. QED
      BY <3>3, <3>4, <3>5 DEF OpsInv
  <2>5. QED
    BY <2>1, <2>3, <2>4 DEF Submit
<1>10. CASE BatchRetries
  <2>1. PICK t : t = cur[i]
    OBVIOUS
  <2>2. /\ b = "submit" /\ pc[t] = "refused" /\ pc' = [pc EXCEPT ![t] = "push"]
        /\ UNCHANGED <<obj, ops, closed, b, cur, i>> /\ i \in 1 .. Len(cur) /\ t \in Ops
    BY <1>0, <1>10, <2>1, OpsTyped DEF BatchRetries, InOrder, Goto
  <2>3. pc'[t] = "push" /\ \A u \in Tasks \ {t} : pc'[u] = pc[u]
    BY <2>2, Typed, OpsTyped
  <2>4. \A n \in 1 .. Len(cur) : n # i => cur[n] # t /\ pc'[cur[n]] = pc[cur[n]]
    BY <1>0, <2>1, <2>2, <2>3, OpsTyped DEF AddedOnce
  <2>5. AddedOnce'
    BY <1>0, <2>2, <2>3, OpsTyped DEF AddedOnce
  <2>6. ASSUME NEW n \in 1 .. Len(cur)
        PROVE  /\ n < i => pc'[cur[n]] = "accepted"
               /\ n = i => pc'[cur[n]] = "push"
               /\ n > i => pc'[cur[n]] = "idle"
    <3>1. (n < i => n # i) /\ (n > i => n # i)
      BY <2>2
    <3>2. QED
      BY <1>0, <2>1, <2>2, <2>3, <2>4, <3>1 DEF InOrder
  <2>7. \A n \in 1 .. Len(cur) : pc'[cur[n]] = "accepted" => obj'[cur[n]] \in Objects
    BY <1>0, <2>1, <2>2, <2>3, <2>4 DEF InOrder
  <2>8. \A u \in Ops : pc'[u] \in Busy => u = t
    BY <1>0, <2>1, <2>3, OpsTyped DEF InOrder
  <2>9. InOrder'
    BY <2>1, <2>2, <2>6, <2>7, <2>8 DEF InOrder, Busy
  <2>10. ClosedBefore'
    <3>1. \A u \in Ops : pc'[u] = "idle" => pc[u] = "idle"
      BY <2>3, OpsTyped
    <3>2. QED
      BY <1>0, <2>2, <3>1 DEF ClosedBefore
  <2>11. QED
    BY <2>5, <2>9, <2>10 DEF OpsInv
<1>11. CASE BatchRefused
  <2>1. \A t \in Ops : pc[t] \notin Busy
    BY <1>0, <1>11 DEF BatchRefused, InOrder, Busy
  <2>2. \E n \in 1 .. Len(cur) : pc[cur[n]] = "refused"
    BY <1>0, <1>11 DEF BatchRefused, InOrder
  <2>3. BatchReturns /\ UNCHANGED <<pc, ops, cur, closed>>
    BY <1>11 DEF BatchRefused
  <2>4. QED
    BY <2>1, <2>2, <2>3, ReturnsOps
<1>12. CASE BatchReceives
  <2>1. /\ b = "wait" /\ i \in 1 .. Len(cur) /\ i' = i + 1 /\ cur[i] \in Ops
        /\ UNCHANGED <<pc, obj, ops, b, cur>>
    BY <1>0, <1>12, OpsTyped DEF BatchReceives, InOrder
  <2>2. \/ cur[i] \in Skip /\ UNCHANGED closed
        \/ cur[i] \notin Skip /\ closed' = [closed EXCEPT ![cur[i]] = @ + 1]
    BY <1>12 DEF BatchReceives
  <2>3. /\ cur[i] \notin Skip => closed'[cur[i]] > 0
        /\ \A t \in Ops : t # cur[i] => closed'[t] = closed[t]
    BY <2>1, <2>2, OpsTyped
  <2>4. \A n \in 1 .. Len(cur) : n # i => cur[n] # cur[i] /\ closed'[cur[n]] = closed[cur[n]]
    BY <1>0, <2>1, <2>3, OpsTyped DEF AddedOnce
  <2>5. AddedOnce'
    BY <1>0, <2>1 DEF AddedOnce
  <2>6. InOrder'
    <3>1. i' \in 1 .. Len(cur) + 1
      BY <2>1, OpsTyped
    <3>2. QED
      BY <1>0, <2>1, <3>1 DEF InOrder, Busy
  <2>7. ASSUME NEW n \in 1 .. Len(cur)
        PROVE  /\ n < i' /\ cur[n] \notin Skip => closed'[cur[n]] > 0
               /\ n >= i' => closed'[cur[n]] = 0
    <3>1. n < i' => n < i \/ n = i
      BY <2>1
    <3>2. n >= i' => n >= i /\ n # i
      BY <2>1
    <3>3. n < i => n # i
      BY <2>1
    <3>4. QED
      BY <1>0, <2>1, <2>3, <2>4, <3>1, <3>2, <3>3 DEF ClosedBefore
  <2>8. \A t \in Ops : pc[t] = "idle" => t # cur[i]
    BY <1>0, <2>1 DEF InOrder
  <2>9. ClosedBefore'
    BY <1>0, <2>1, <2>3, <2>7, <2>8 DEF ClosedBefore
  <2>10. QED
    BY <2>5, <2>6, <2>9 DEF OpsInv
<1>13. CASE BatchTimesOut
  <2>1. /\ b = "wait" /\ i \in 1 .. Len(cur) /\ BatchReturns
        /\ UNCHANGED <<pc, ops, cur>>
    BY <1>0, <1>13, OpsTyped DEF BatchTimesOut, InOrder
  <2>2. PICK late : late = {cur[j] : j \in i .. Len(cur)}
    OBVIOUS
  <2>3. closed' = [t \in Ops |-> IF t \in late \ Skip THEN closed[t] + 1 ELSE closed[t]]
    BY <1>13, <2>2 DEF BatchTimesOut, FailLate
  <2>4. \A t \in Ops : pc[t] \notin Busy
    BY <1>0, <2>1 DEF InOrder
  <2>5. \A t \in late : \E n \in 1 .. Len(cur) : cur[n] = t
    BY <2>1, <2>2
  <2>6. \A t \in Ops : pc[t] = "idle" => closed'[t] = closed[t]
    BY <1>0, <2>1, <2>3, <2>5 DEF InOrder
  <2>7. ASSUME NEW n \in 1 .. Len(cur), cur[n] \notin Skip PROVE closed'[cur[n]] > 0
    <3>1. cur[n] \in Ops /\ closed[cur[n]] \in Nat
      BY OpsTyped
    <3>2. CASE n < i
      BY <1>0, <2>1, <2>3, <2>7, <3>1, <3>2 DEF ClosedBefore
    <3>3. CASE n >= i
      <4>1. cur[n] \in late
        BY <2>1, <2>2, <3>3
      <4>2. QED
        BY <2>3, <2>7, <3>1, <4>1
    <3>4. QED
      BY <2>1, <3>2, <3>3
  <2>8. QED
    BY <2>1, <2>4, <2>6, <2>7, ReturnsOps
<1>14. CASE BatchDone
  <2>1. /\ b = "wait" /\ BatchReturns /\ UNCHANGED <<pc, ops, cur, closed>>
        /\ \A n \in 1 .. Len(cur) : n < i
    BY <1>14, OpsTyped DEF BatchDone
  <2>2. \A t \in Ops : pc[t] \notin Busy
    BY <1>0, <2>1 DEF InOrder
  <2>3. \A n \in 1 .. Len(cur) : cur[n] \notin Skip => closed'[cur[n]] > 0
    BY <1>0, <2>1 DEF ClosedBefore
  <2>4. QED
    BY <2>1, <2>2, <2>3, ReturnsOps
<1>15. CASE UNCHANGED vars
  <2>1. UNCHANGED <<pc, obj, ops, closed, b, cur, i>>
    BY <1>15 DEF vars
  <2>2. QED
    BY <2>1, OpsUnseen
<1>16. QED
  BY <1>1, <1>2, <1>3, <1>4, <1>5, <1>6, <1>7, <1>8, <1>9, <1>10, <1>11, <1>12, <1>13, <1>14, <1>15 DEF Next, TaskNext, BatchNext, Finished

-----------------------------------------------------------------------------
(* The theorems. *)

(* The state before the first call satisfies the invariant. *)
LEMMA InitInv == Init => BatchInv
<1> SUFFICES ASSUME Init PROVE BatchInv
  OBVIOUS
<1>1. queue = <<>> /\ ops = <<>> /\ cur = <<>> /\ Len(<<>>) = 0 /\ \A n \in 1 .. Len(<<>>) : FALSE
  BY DEF Init
<1>2. TypeOK
  BY BatchAssumption DEF Init, TypeOK, Outcomes
<1>3. PlacesApart /\ HeldLive
  BY <1>1 DEF Init, PlacesApart, HeldLive, Held
<1>4. WaiterOwns /\ CallerOwns /\ CallHas
  BY DEF Init, WaiterOwns, CallerOwns, CallHas, Waiting, Tasks
<1>5. AddedOnce /\ InOrder /\ ClosedBefore
  BY <1>1 DEF Init, AddedOnce, InOrder, ClosedBefore, Busy, Tasks
<1>6. QED
  BY <1>2, <1>3, <1>4, <1>5 DEF BatchInv, PoolInv, OpsInv

(* The invariant holds in every behaviour. *)
LEMMA InvHolds == Spec => []BatchInv
<1>1. BatchInv /\ [Next]_vars => BatchInv'
  BY NextTypes, NextPool, NextOps DEF BatchInv
<1>2. QED
  BY InitInv, <1>1, PTL DEF Spec

(* Only results of a running CallTimeout refers to the object of an op     *)
(* that skips the response.                                                *)
RefInv == \A t \in Skip : obj[t] # Nil => InResults(t)

(* What RefInv looks at, in steps that change none of it for such ops.     *)
LEMMA RefUnseen ==
  ASSUME BatchInv, RefInv, UNCHANGED <<cur, b>>,
         \A t \in Skip : pc'[t] = pc[t] /\ obj'[t] = obj[t]
  PROVE  RefInv'
  BY DEF RefInv, InResults

(* CallTimeout returns, and results with it. *)
LEMMA ReturnsRefs ==
  ASSUME BatchInv, RefInv, BatchReturns
  PROVE  RefInv'
<1>1. Skip \subseteq Tasks
  BY BatchAssumption DEF Tasks
<1>2. ASSUME NEW t \in Skip PROVE obj'[t] = Nil
  <2>1. obj'[t] = IF t \in Range(cur) THEN Nil ELSE obj[t]
    BY <1>1 DEF BatchReturns
  <2>2. t \notin Range(cur) => obj[t] = Nil
    BY DEF RefInv, InResults
  <2>3. QED
    BY <2>1, <2>2
<1>3. QED
  BY <1>2 DEF RefInv

(* CallTimeout starts an op that was not started before, which has no      *)
(* object yet, or goes on to wait.                                         *)
LEMMA StartsRefs ==
  ASSUME BatchInv, RefInv, UNCHANGED <<cur, obj>>, b' # "idle",
         NEW u, pc[u] # "accepted", \A t \in Skip \ {u} : pc'[t] = pc[t]
  PROVE  RefInv'
<1> SUFFICES ASSUME NEW t \in Skip, obj[t] # Nil PROVE InResults(t)'
  BY DEF RefInv
<1>1. InResults(t)
  BY DEF RefInv
<1>2. t # u
  BY <1>1 DEF InResults
<1>3. QED
  BY <1>1, <1>2 DEF InResults

(* No step gives an op that skips the response an object elsewhere. *)
LEMMA NextRefs == BatchInv /\ RefInv /\ [Next]_vars => RefInv'
<1> SUFFICES ASSUME BatchInv, RefInv, [Next]_vars PROVE RefInv'
  OBVIOUS
<1> USE DEF async, client, batch
<1>1. /\ Skip \subseteq Tasks /\ Skip \subseteq Ops /\ \A k \in Calls : k \notin Skip
      /\ obj \in [Tasks -> Objects \cup {Nil}] /\ cur \in Seq(Ops)
      /\ pc \in [Tasks -> {"idle", "push", "evict", "retry", "accepted", "refused", "returned"}]
  BY BatchAssumption, Typed DEF Tasks, BatchInv, TypeOK
<1>2. ASSUME NEW u \in Tasks, CallAsync(u) PROVE RefInv'
  <2>1. pc[u] = "push" /\ UNCHANGED <<cur, b>>
    BY <1>2, CallAsyncCases
  <2>2. PICK o \in Objects : Refuses(u, o) \/ FillsIn(u, o)
    BY <1>2, CallAsyncCases
  <2>3. CASE Refuses(u, o)
    <3>1. UNCHANGED obj /\ \A t \in Skip \ {u} : pc'[t] = pc[t]
      BY <1>1, <2>3 DEF Refuses, Goto
    <3>2. u \in Ops
      BY <1>1, <2>3 DEF Refuses
    <3>3. b' # "idle"
      BY <2>1, <3>2 DEF BatchInv, OpsInv, InOrder, Busy
    <3>4. QED
      BY <2>1, <3>1, <3>3, StartsRefs
  <2>4. CASE FillsIn(u, o)
    <3>1. \A t \in Skip \ {u} : pc'[t] = pc[t] /\ obj'[t] = obj[t]
      BY <1>1, <2>4 DEF FillsIn, Goto
    <3>2. CASE u \notin Skip
      BY <2>1, <3>1, <3>2, RefUnseen
    <3>3. CASE u \in Skip
      <4>1. b = "submit" /\ i \in 1 .. Len(cur) /\ cur[i] = u
        BY <1>1, <2>1, <3>3 DEF BatchInv, OpsInv, InOrder, Busy
      <4>2. u \in Range(cur)
        BY <1>1, <4>1, RangeFacts
      <4>3. pc'[u] = "accepted"
        BY <1>1, <2>4, <3>3 DEF FillsIn, Goto
      <4>4. InResults(u)'
        BY <2>1, <3>3, <4>1, <4>2, <4>3 DEF InResults
      <4>5. \A t \in Skip \ {u} : InResults(t) => InResults(t)'
        BY <2>1, <3>1 DEF InResults
      <4>6. QED
        BY <3>1, <4>4, <4>5 DEF RefInv
    <3>4. QED
      BY <3>2, <3>3
  <2>5. QED
    BY <2>2, <2>3, <2>4
<1>3. ASSUME NEW u \in Tasks, Evict(u) \/ Retry(u) PROVE RefInv'
  <2>1. u \notin Skip
    BY <1>3 DEF Evict, Retry, BatchInv, PoolInv, CallerOwns, Owns
  <2>2. UNCHANGED <<cur, b>> /\ \A t \in Tasks \ {u} : pc'[t] = pc[t] /\ obj'[t] = obj[t]
    BY <1>1, <1>3 DEF Evict, Retry, Goto
  <2>3. QED
    BY <1>1, <2>1, <2>2, RefUnseen
<1>4. ASSUME NEW k \in Calls, Call(k) \/ CallNext(k) PROVE RefInv'
  <2>1. UNCHANGED <<cur, b>> /\ \A t \in Tasks \ {k} : pc'[t] = pc[t] /\ obj'[t] = obj[t]
    BY <1>1, <1>4 DEF Call, CallNext, CallRefused, CallReceives, CallTimesOut, Return, Goto
  <2>2. QED
    BY <1>1, <2>1, RefUnseen
<1>5. ASSUME UNCHANGED <<pc, obj, cur, b>> PROVE RefInv'
  BY <1>5, RefUnseen
<1>6. CASE WriterNext
  BY <1>5, <1>6 DEF WriterNext, WriterTake, WriterCanceled, WriterNoResponse, WriterRegister
<1>7. ASSUME NEW o \in Objects, Complete(o) PROVE RefInv'
  BY <1>5, <1>7 DEF Complete
<1>8. ASSUME NEW t \in Ops, Add(t) PROVE RefInv'
  BY <1>5, <1>8 DEF Add
<1>9. CASE BatchCall
  <2>1. UNCHANGED obj /\ \A t \in Skip : obj[t] = Nil
    BY <1>9 DEF BatchCall, RefInv, InResults
  <2>2. QED
    BY <2>1 DEF RefInv
<1>10. CASE BatchAccepted
  <2>1. UNCHANGED <<cur, obj>> /\ b = "submit" /\ Submit(cur, i + 1)
    BY <1>10 DEF BatchAccepted
  <2>2. CASE i + 1 <= Len(cur) /\ Goto(cur[i + 1], "push") /\ b' = "submit"
    <3>1. PICK n : n = i + 1
      OBVIOUS
    <3>2. n \in 1 .. Len(cur) /\ n > i
      BY <1>1, <2>1, <2>2, <3>1 DEF BatchInv, OpsInv, InOrder
    <3>3. pc[cur[n]] = "idle"
      BY <2>1, <3>2 DEF BatchInv, OpsInv, InOrder
    <3>4. \A t \in Skip \ {cur[n]} : pc'[t] = pc[t]
      BY <1>1, <2>2, <3>1 DEF Goto
    <3>5. QED
      BY <2>1, <2>2, <3>3, <3>4, StartsRefs
  <2>3. CASE UNCHANGED pc /\ b' = "wait"
    BY <2>1, <2>3 DEF RefInv, InResults
  <2>4. QED
    BY <2>1, <2>2, <2>3 DEF Submit
<1>11. CASE BatchRetries
  <2>1. UNCHANGED <<cur, obj, b>> /\ b = "submit" /\ pc[cur[i]] = "refused"
    BY <1>11 DEF BatchRetries
  <2>2. \A t \in Skip \ {cur[i]} : pc'[t] = pc[t]
    BY <1>1, <1>11 DEF BatchRetries, Goto
  <2>3. QED
    BY <2>1, <2>2, StartsRefs
<1>12. CASE BatchReceives
  BY <1>5, <1>12 DEF BatchReceives
<1>13. CASE BatchRefused \/ BatchTimesOut \/ BatchDone
  BY <1>13, ReturnsRefs DEF BatchRefused, BatchTimesOut, BatchDone
<1>14. CASE UNCHANGED vars
  BY <1>5, <1>14 DEF vars
<1>15. QED
  BY <1>2, <1>3, <1>4, <1>6, <1>7, <1>8, <1>9, <1>10, <1>11, <1>12, <1>13, <1>14 DEF Next, TaskNext, BatchNext, Finished

(* RefInv holds in every behaviour. *)
LEMMA RefHolds == Spec => []RefInv
<1>1. Init => RefInv
  BY BatchAssumption DEF Init, RefInv, Tasks
<1>2. QED
  BY InvHolds, NextRefs, <1>1, PTL DEF Spec

(* The AsyncResults, the client and Batch.CallTimeout keep their types. *)
THEOREM BatchTypes == Spec => []TypeOK
<1>1. BatchInv => TypeOK
  BY DEF BatchInv
<1>2. QED
  BY InvHolds, <1>1, PTL

(* releaseAsyncResult recycles no object that the client still holds or a  *)
(* caller refers to, but for the objects of ops that skip the response,    *)
(* which stay in the results of a running CallTimeout; and a recycled      *)
(* object carries its new caller's request: for any number of ops and      *)
(* Calls and any queue length.                                             *)
THEOREM PoolIsUnused == Spec => []PooledUnused
<1>1. BatchInv /\ RefInv => PooledUnused
  <2> SUFFICES ASSUME BatchInv, RefInv PROVE PooledUnused
    OBVIOUS
  <2>1. \A o \in Objects : o \in Range(queue) \cup pending \cup {wm} => Held(o)
    BY Typed, RangeFacts DEF Held
  <2>2. pool \cap (Range(queue) \cup pending \cup {wm}) = {}
    BY <2>1, Typed DEF BatchInv, PoolInv, HeldLive
  <2>3. ASSUME NEW t \in Tasks, obj[t] \in pool PROVE InResults(t)
    <3>1. obj[t] # Nil
      BY <2>3, Typed
    <3>2. t \in Skip
      BY <2>3, <3>1 DEF BatchInv, PoolInv, WaiterOwns, Waiting
    <3>3. QED
      BY <3>1, <3>2 DEF RefInv
  <2>4. QED
    BY <2>2, <2>3 DEF PooledUnused, BatchInv, PoolInv, WaiterOwns
<1>2. QED
  BY InvHolds, RefHolds, <1>1, PTL

(* Whenever CallTimeout has returned and no op of its batch was refused,   *)
(* all Done channels of the batch are closed.                              *)
THEOREM DoneIsUnblocked == Spec => []BatchDoneUnblocked
<1>1. BatchInv => BatchDoneUnblocked
  <2> SUFFICES ASSUME BatchInv, b = "idle", \A t \in Range(cur) : pc[t] # "refused",
                      NEW t \in Range(cur) \ Skip
               PROVE  closed[t] > 0
    BY DEF BatchDoneUnblocked
  <2>1. \A x : x \in Range(cur) <=> \E n \in 1 .. Len(cur) : cur[n] = x
    BY OpsTyped, RangeFacts
  <2>2. ~ \E n \in 1 .. Len(cur) : pc[cur[n]] = "refused"
    BY <2>1
  <2>3. QED
    BY <2>1, <2>2 DEF BatchInv, OpsInv, ClosedBefore
<1>2. QED
  BY InvHolds, <1>1, PTL

(* The step that settles a BatchResult settles it for good: neither a late *)
(* response nor the timeout nor another CallTimeout touches it again.      *)
THEOREM ResultsFinal == Spec => BatchResultFinal
<1>1. BatchInv /\ [Next]_vars =>
        [\A t \in Ops : closed[t] > 0 => closed'[t] = closed[t] /\ opError'[t] = opError[t]]_vars
  <2> SUFFICES ASSUME BatchInv, Next, NEW t \in Ops, closed[t] > 0
               PROVE  closed'[t] = closed[t] /\ opError'[t] = opError[t]
    OBVIOUS
  <2> USE DEF async, client, batch
  <2>1. CASE UNCHANGED <<closed, opError>>
    BY <2>1
  <2>2. CASE BatchReceives
    <3>1. b = "wait" /\ i \in 1 .. Len(cur) /\ cur[i] \in Ops
      BY <2>2, OpsTyped DEF BatchReceives, BatchInv, OpsInv, InOrder
    <3>2. closed[cur[i]] = 0
      BY <3>1 DEF BatchInv, OpsInv, ClosedBefore
    <3>3. t # cur[i] /\ closed \in [Ops -> Nat] /\ opError \in [Ops -> Outcomes \cup {"timeout"}]
      BY <3>2 DEF BatchInv, TypeOK
    <3>4. QED
      BY <2>2, <3>1, <3>3 DEF BatchReceives
  <2>3. CASE BatchTimesOut
    <3>1. PICK late : late = {cur[j] : j \in i .. Len(cur)}
      OBVIOUS
    <3>2. /\ closed' = [u \in Ops |-> IF u \in late \ Skip THEN closed[u] + 1 ELSE closed[u]]
          /\ opError' = [u \in Ops |-> IF u \in late THEN "timeout" ELSE opError[u]]
      BY <2>3, <3>1 DEF BatchTimesOut, FailLate
    <3>3. b = "wait" /\ i \in 1 .. Len(cur)
      BY <2>3, OpsTyped DEF BatchTimesOut, BatchInv, OpsInv, InOrder
    <3>4. \A j \in i .. Len(cur) : j \in 1 .. Len(cur) /\ j >= i
      BY <3>3
    <3>5. \A u \in late : closed[u] = 0
      BY <3>1, <3>3, <3>4 DEF BatchInv, OpsInv, ClosedBefore
    <3>6. QED
      BY <3>2, <3>5
  <2>4. QED
    BY <2>1, <2>2, <2>3 DEF Next, TaskNext, CallNext, WriterNext, BatchNext, Finished, vars, CallAsync, Evict, Retry, Call, CallRefused, CallReceives, CallTimesOut, Complete, Add, WriterTake, WriterCanceled, WriterNoResponse, WriterRegister, BatchCall, BatchAccepted, BatchRetries, BatchRefused, BatchDone
<1>2. QED
  BY InvHolds, <1>1, PTL DEF Spec, BatchResultFinal
=============================================================================
