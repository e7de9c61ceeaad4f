------------------------- MODULE IORPCClientProofs -------------------------
(***************************************************************************)
(* Proofs about the client, for any number of calls, connections, queue    *)
(* places, message IDs and restarts: it is well-typed (Types), and no      *)
(* AsyncResult ever has two owners or one after it was completed           *)
(* (OneOwner).                                                             *)
(***************************************************************************)
EXTENDS IORPCClient, TLAPS

(* How the program counters go together: a goroutine has an AsyncResult in *)
(* its hand exactly between taking it and passing it on, writer and reader *)
(* run only under a handler that waits for them, and no handler runs in a  *)
(* client that is not started.                                             *)
Phases ==
  /\ \A k \in Calls : hand[Caller(k)] # NoCall <=> cpc[k] = "drop"
  /\ \A c \in Conns : hand[Writer(c)] # NoCall <=> w[c] \in {"have", "count", "leak", "encode"}
  /\ \A c \in Conns : hand[Reader(c)] # NoCall <=> r[c] = "have"
  /\ \A c \in Conns : h[c] \notin {"run", "closing"} => w[c] = "off" /\ r[c] = "off"
  /\ stopChan = "nil" => \A c \in Conns : h[c] = "off"

TypeInv == TypeOK /\ Phases

(* What taking the head of requestsChan returns and leaves. *)
LEMMA QueueFacts ==
  ASSUME ClientType, queue # <<>>
  PROVE  /\ Head(queue) \in Calls /\ Tail(queue) \in Seq(Calls)
         /\ Head(queue) = queue[1] /\ Len(queue) \in Nat \ {0}
         /\ Len(Tail(queue)) = Len(queue) - 1
         /\ \A i \in 1 .. Len(queue) - 1 : Tail(queue)[i] = queue[i + 1]
BY DEF ClientType

(* What requestsChan holds after a send. *)
LEMMA PushFacts ==
  ASSUME ClientType, NEW k \in Calls
  PROVE  /\ Append(queue, k) \in Seq(Calls) /\ Len(Append(queue, k)) = Len(queue) + 1
         /\ \A i \in 1 .. Len(queue) : Append(queue, k)[i] = queue[i]
         /\ Append(queue, k)[Len(queue) + 1] = k
         /\ Len(queue) \in Nat
BY DEF ClientType

(* The goroutines that hold AsyncResults are pairwise different. *)
LEMMA HandFacts ==
  /\ \A k \in Calls : Caller(k) \in Goroutines
  /\ \A c \in Conns : Writer(c) \in Goroutines /\ Reader(c) \in Goroutines
  /\ \A k \in Calls, c \in Conns : Caller(k) # Writer(c) /\ Caller(k) # Reader(c)
  /\ \A c, d \in Conns : Writer(c) # Reader(d)
  /\ \A c, d \in Conns : c # d => Writer(c) # Writer(d) /\ Reader(c) # Reader(d)
  /\ \A k, l \in Calls : k # l => Caller(k) # Caller(l)
BY DEF Caller, Writer, Reader, Goroutines

(* ID 0 exists, and message IDs are integers. *)
LEMMA IDFacts == 0 \in IDs /\ IDs \subseteq Int
BY SizesAssumption DEF IDs

(* Whatever clientReader decodes, from this server or a rogue one, is      *)
(* looked up under a valid message ID.                                     *)
LEMMA LookupFacts ==
  ASSUME TypeInv, NEW c \in Conns, ReaderReceives(c)
  PROVE  \E q \in IDs \X (Calls \cup {NoCall}) : ReaderLookup(c, q)
<1>1. CASE \E q \in sent[c] : q[1] # 0 /\ ReaderLookup(c, q)
  <2>1. sent[c] \subseteq Requests
    BY DEF TypeInv, TypeOK, WireType
  <2>2. QED
    BY <1>1, <2>1 DEF Requests
<1>2. CASE \E i \in Rogue : ReaderLookup(c, <<i, NoCall>>)
  BY <1>2, SizesAssumption DEF IDs
<1>3. QED
  BY <1>1, <1>2 DEF ReaderReceives

(* Closing done keeps m.Error and the count of closes well-typed. *)
LEMMA CloseFacts ==
  ASSUME ResultType, NEW k \in Calls, NEW e \in Outcomes, CloseDone(k, e)
  PROVE  outcome' \in [Calls -> Outcomes \cup {"none"}] /\ closes' \in [Calls -> Nat]
BY DEF ResultType, CloseDone

(* The client is well-typed before Start. *)
LEMMA TypeInit == Init => TypeInv
BY CallsAssumption, SizesAssumption, HandFacts, IDFacts DEF Init, TypeOK, ClientType, ResultType, CallerType, ConnType, WireType, TypeInv, Phases, Requests

(* No step overfills requestsChan or leaves the states of clientStopChan. *)
LEMMA NextClientType == TypeInv /\ [Next]_vars => ClientType'
<1> SUFFICES ASSUME TypeInv, [Next]_vars PROVE ClientType'
  OBVIOUS
<1> USE CallsAssumption, SizesAssumption DEF client, result, conn, TypeInv, TypeOK, ClientType
<1>1. CASE Start
  BY <1>1 DEF Start, Range
<1>2. CASE Stop
  BY <1>2 DEF Stop
<1>3. CASE StopReturns
  BY <1>3 DEF StopReturns
<1>4. ASSUME NEW k \in Calls, Submit(k) PROVE ClientType'
  <2>1. (HasRoom /\ queue' = Append(queue, k)) \/ queue' = queue
    BY <1>4 DEF Submit, Push, Overflow
  <2>2. QED
    BY <1>4, <2>1, PushFacts DEF Submit, HasRoom
<1>5. ASSUME NEW k \in Calls, Evict(k) PROVE ClientType'
  <2>1. (queue # <<>> /\ queue' = Tail(queue)) \/ queue' = queue
    BY <1>5 DEF Evict
  <2>2. QED
    BY <1>5, <2>1, QueueFacts, SMTT(30) DEF Evict
<1>6. ASSUME NEW k \in Calls, DropEvicted(k) PROVE ClientType'
  BY <1>6 DEF DropEvicted, Discard, CloseDone
<1>7. ASSUME NEW k \in Calls, Retry(k) PROVE ClientType'
  <2>1. (HasRoom /\ queue' = Append(queue, k)) \/ queue' = queue
    BY <1>7 DEF Retry, Push, Overflow
  <2>2. QED
    BY <1>7, <2>1, PushFacts DEF Retry, HasRoom
<1>8. ASSUME NEW k \in Calls, ReceiveDone(k) PROVE ClientType'
  BY <1>8 DEF ReceiveDone
<1>9. ASSUME NEW k \in Calls, Timeout(k) PROVE ClientType'
  BY <1>9 DEF Timeout
<1>10. ASSUME NEW k \in Calls, Cancel(k) PROVE ClientType'
  BY <1>10 DEF Cancel
<1>11. ASSUME NEW c \in Conns, WriterTake(c) PROVE ClientType'
  BY <1>11, QueueFacts DEF WriterTake
<1>12. ASSUME NEW c \in Conns, WriterPoll(c) PROVE ClientType'
  BY <1>12 DEF WriterPoll
<1>13. ASSUME NEW c \in Conns, WriterStops(c) PROVE ClientType'
  BY <1>13 DEF WriterStops
<1>14. ASSUME NEW c \in Conns, WriterFlush(c) PROVE ClientType'
  BY <1>14 DEF WriterFlush, WriteOut
<1>15. ASSUME NEW c \in Conns, WriterCanceled(c) PROVE ClientType'
  BY <1>15 DEF WriterCanceled, Discard, CloseDone
<1>16. ASSUME NEW c \in Conns, WriterNoResponse(c) PROVE ClientType'
  BY <1>16 DEF WriterNoResponse
<1>17. ASSUME NEW c \in Conns, WriterRegister(c) PROVE ClientType'
  BY <1>17 DEF WriterRegister
<1>18. ASSUME NEW c \in Conns, WriterCount(c) PROVE ClientType'
  BY <1>18 DEF WriterCount
<1>19. ASSUME NEW c \in Conns, WriterEncode(c) PROVE ClientType'
  BY <1>19 DEF WriterEncode, WriteOut, Requests
<1>20. ASSUME NEW c \in Conns, ReaderReceives(c) PROVE ClientType'
  BY <1>20 DEF ReaderReceives, ReaderLookup
<1>21. ASSUME NEW c \in Conns, ReaderComplete(c) PROVE ClientType'
  BY <1>21 DEF ReaderComplete, CloseDone
<1>22. ASSUME NEW c \in Conns, ReaderFails(c) \/ ReaderSpins(c) PROVE ClientType'
  BY <1>22 DEF ReaderFails, ReaderSpins
<1>23. ASSUME NEW c \in Conns, HandlerDials(c) PROVE ClientType'
  BY <1>23 DEF HandlerDials
<1>24. ASSUME NEW c \in Conns, HandlerStops(c) PROVE ClientType'
  BY <1>24 DEF HandlerStops
<1>25. ASSUME NEW c \in Conns, HandlerConnects(c) PROVE ClientType'
  BY <1>25 DEF HandlerConnects
<1>26. ASSUME NEW c \in Conns, HandlerRejected(c) PROVE ClientType'
  BY <1>26 DEF HandlerRejected
<1>27. ASSUME NEW c \in Conns, HandlerCloses(c) PROVE ClientType'
  BY <1>27 DEF HandlerCloses
<1>28. ASSUME NEW c \in Conns, NEW i \in IDs, HandlerFailsPending(c, i) PROVE ClientType'
  BY <1>28 DEF HandlerFailsPending, CloseDone, BothDone
<1>29. ASSUME NEW c \in Conns, HandlerEnds(c) PROVE ClientType'
  BY <1>29 DEF HandlerEnds, BothDone
<1>30. ASSUME NEW c \in Conns, HandlerLoops(c) PROVE ClientType'
  BY <1>30 DEF HandlerLoops
<1>31. ASSUME NEW c \in Conns, LinkBreaks(c) PROVE ClientType'
  BY <1>31 DEF LinkBreaks
<1>32. CASE UNCHANGED vars
  BY <1>32 DEF vars
<1>33. QED
  BY <1>1, <1>2, <1>3, <1>4, <1>5, <1>6, <1>7, <1>8, <1>9, <1>10, <1>11, <1>12, <1>13, <1>14, <1>15, <1>16, <1>17, <1>18, <1>19, <1>20, <1>21, <1>22, <1>23, <1>24, <1>25, <1>26, <1>27, <1>28, <1>29, <1>30, <1>31, <1>32 DEF Next, Finished, CallerNext, WriterNext, ReaderNext, HandlerNext

(* Every AsyncResult is completed with one of the errors the code has. *)
LEMMA NextResultType == TypeInv /\ [Next]_vars => ResultType'
<1> SUFFICES ASSUME TypeInv, [Next]_vars PROVE ResultType'
  OBVIOUS
<1> USE HandFacts, CallsAssumption, SizesAssumption DEF client, result, conn, TypeInv, TypeOK, ResultType, Outcomes, CallerType
<1>1. CASE Start
  BY <1>1 DEF Start, Range
<1>2. CASE Stop
  BY <1>2 DEF Stop
<1>3. CASE StopReturns
  BY <1>3 DEF StopReturns
<1>4. ASSUME NEW k \in Calls, Submit(k) PROVE ResultType'
  BY <1>4 DEF Submit, Push, Overflow, HasRoom
<1>5. ASSUME NEW k \in Calls, Evict(k) PROVE ResultType'
  BY <1>5 DEF Evict
<1>6. ASSUME NEW k \in Calls, DropEvicted(k) PROVE ResultType'
  <2>1. CASE CloseDone(hand[Caller(k)], "overflow")
    BY <1>6, <2>1, CloseFacts DEF DropEvicted, Phases
  <2>2. CASE UNCHANGED <<outcome, closes>>
    BY <1>6, <2>2 DEF DropEvicted
  <2>3. QED
    BY <1>6, <2>1, <2>2 DEF DropEvicted, Discard
<1>7. ASSUME NEW k \in Calls, Retry(k) PROVE ResultType'
  BY <1>7 DEF Retry, Push, Overflow, HasRoom
<1>8. ASSUME NEW k \in Calls, ReceiveDone(k) PROVE ResultType'
  BY <1>8 DEF ReceiveDone
<1>9. ASSUME NEW k \in Calls, Timeout(k) PROVE ResultType'
  BY <1>9 DEF Timeout
<1>10. ASSUME NEW k \in Calls, Cancel(k) PROVE ResultType'
  BY <1>10 DEF Cancel
<1>11. ASSUME NEW c \in Conns, WriterTake(c) PROVE ResultType'
  BY <1>11 DEF WriterTake
<1>12. ASSUME NEW c \in Conns, WriterPoll(c) PROVE ResultType'
  BY <1>12 DEF WriterPoll
<1>13. ASSUME NEW c \in Conns, WriterStops(c) PROVE ResultType'
  BY <1>13 DEF WriterStops
<1>14. ASSUME NEW c \in Conns, WriterFlush(c) PROVE ResultType'
  BY <1>14 DEF WriterFlush, WriteOut
<1>15. ASSUME NEW c \in Conns, WriterCanceled(c) PROVE ResultType'
  <2>1. CASE CloseDone(hand[Writer(c)], "canceled")
    BY <1>15, <2>1, CloseFacts DEF WriterCanceled, Phases
  <2>2. CASE UNCHANGED <<outcome, closes>>
    BY <1>15, <2>2 DEF WriterCanceled
  <2>3. QED
    BY <1>15, <2>1, <2>2 DEF WriterCanceled, Discard
<1>16. ASSUME NEW c \in Conns, WriterNoResponse(c) PROVE ResultType'
  BY <1>16 DEF WriterNoResponse
<1>17. ASSUME NEW c \in Conns, WriterRegister(c) PROVE ResultType'
  BY <1>17 DEF WriterRegister
<1>18. ASSUME NEW c \in Conns, WriterCount(c) PROVE ResultType'
  BY <1>18 DEF WriterCount
<1>19. ASSUME NEW c \in Conns, WriterEncode(c) PROVE ResultType'
  BY <1>19 DEF WriterEncode, WriteOut, Requests
<1>20. ASSUME NEW c \in Conns, ReaderReceives(c) PROVE ResultType'
  BY <1>20 DEF ReaderReceives, ReaderLookup
<1>21. ASSUME NEW c \in Conns, ReaderComplete(c) PROVE ResultType'
  BY <1>21, CloseFacts DEF ReaderComplete, Phases
<1>22. ASSUME NEW c \in Conns, ReaderFails(c) \/ ReaderSpins(c) PROVE ResultType'
  BY <1>22 DEF ReaderFails, ReaderSpins
<1>23. ASSUME NEW c \in Conns, HandlerDials(c) PROVE ResultType'
  BY <1>23 DEF HandlerDials
<1>24. ASSUME NEW c \in Conns, HandlerStops(c) PROVE ResultType'
  BY <1>24 DEF HandlerStops
<1>25. ASSUME NEW c \in Conns, HandlerConnects(c) PROVE ResultType'
  BY <1>25 DEF HandlerConnects
<1>26. ASSUME NEW c \in Conns, HandlerRejected(c) PROVE ResultType'
  BY <1>26 DEF HandlerRejected
<1>27. ASSUME NEW c \in Conns, HandlerCloses(c) PROVE ResultType'
  BY <1>27 DEF HandlerCloses
<1>28. ASSUME NEW c \in Conns, NEW i \in IDs, HandlerFailsPending(c, i) PROVE ResultType'
  <2>1. pending[c][i] \in Calls /\ herr[c] \in Outcomes
    BY <1>28 DEF HandlerFailsPending, ConnType
  <2>2. QED
    BY <1>28, <2>1, CloseFacts DEF HandlerFailsPending
<1>29. ASSUME NEW c \in Conns, HandlerEnds(c) PROVE ResultType'
  BY <1>29 DEF HandlerEnds, BothDone
<1>30. ASSUME NEW c \in Conns, HandlerLoops(c) PROVE ResultType'
  BY <1>30 DEF HandlerLoops
<1>31. ASSUME NEW c \in Conns, LinkBreaks(c) PROVE ResultType'
  BY <1>31 DEF LinkBreaks
<1>32. CASE UNCHANGED vars
  BY <1>32 DEF vars
<1>33. QED
  BY <1>1, <1>2, <1>3, <1>4, <1>5, <1>6, <1>7, <1>8, <1>9, <1>10, <1>11, <1>12, <1>13, <1>14, <1>15, <1>16, <1>17, <1>18, <1>19, <1>20, <1>21, <1>22, <1>23, <1>24, <1>25, <1>26, <1>27, <1>28, <1>29, <1>30, <1>31, <1>32 DEF Next, Finished, CallerNext, WriterNext, ReaderNext, HandlerNext

(* Callers stay in callAsync or CallTimeout, hands hold calls or nothing. *)
LEMMA NextCallerType == TypeInv /\ [Next]_vars => CallerType'
<1> SUFFICES ASSUME TypeInv, [Next]_vars PROVE CallerType'
  OBVIOUS
<1> USE HandFacts, CallsAssumption, SizesAssumption DEF client, result, conn, TypeInv, TypeOK, CallerType, ResultType, Outcomes, Returns
<1>1. CASE Start
  BY <1>1 DEF Start, Range
<1>2. CASE Stop
  BY <1>2 DEF Stop
<1>3. CASE StopReturns
  BY <1>3 DEF StopReturns
<1>4. ASSUME NEW k \in Calls, Submit(k) PROVE CallerType'
  <2>1. CASE Push(k)
    BY <1>4, <2>1 DEF Submit, Push
  <2>2. CASE Overflow(k)
    BY <1>4, <2>2 DEF Submit, Overflow
  <2>3. CASE cpc' = [cpc EXCEPT ![k] = "evict"] /\ UNCHANGED <<queue, ret>>
    BY <1>4, <2>3 DEF Submit
  <2>4. QED
    BY <1>4, <2>1, <2>2, <2>3 DEF Submit
<1>5. ASSUME NEW k \in Calls, Evict(k) PROVE CallerType'
  <2>1. CASE queue # <<>>
    <3>1. PICK q : q = Head(queue)
      OBVIOUS
    <3>2. q \in Calls
      BY <2>1, <3>1, QueueFacts
    <3>3. hand' = [hand EXCEPT ![Caller(k)] = q] /\ cpc' = [cpc EXCEPT ![k] = "drop"] /\ UNCHANGED <<ret, canceled>>
      BY <1>5, <2>1, <3>1 DEF Evict
    <3>4. QED
      BY <3>2, <3>3
  <2>2. CASE queue = <<>>
    BY <1>5, <2>2 DEF Evict
  <2>3. QED
    BY <2>1, <2>2
<1>6. ASSUME NEW k \in Calls, DropEvicted(k) PROVE CallerType'
  BY <1>6 DEF DropEvicted, Discard, CloseDone
<1>7. ASSUME NEW k \in Calls, Retry(k) PROVE CallerType'
  <2>1. CASE Push(k)
    BY <1>7, <2>1 DEF Retry, Push
  <2>2. CASE Overflow(k)
    BY <1>7, <2>2 DEF Retry, Overflow
  <2>3. QED
    BY <1>7, <2>1, <2>2 DEF Retry
<1>8. ASSUME NEW k \in Calls, ReceiveDone(k) PROVE CallerType'
  BY <1>8 DEF ReceiveDone
<1>9. ASSUME NEW k \in Calls, Timeout(k) PROVE CallerType'
  BY <1>9 DEF Timeout
<1>10. ASSUME NEW k \in Calls, Cancel(k) PROVE CallerType'
  BY <1>10 DEF Cancel
<1>11. ASSUME NEW c \in Conns, WriterTake(c) PROVE CallerType'
  BY <1>11, HandFacts, QueueFacts DEF WriterTake
<1>12. ASSUME NEW c \in Conns, WriterPoll(c) PROVE CallerType'
  BY <1>12 DEF WriterPoll
<1>13. ASSUME NEW c \in Conns, WriterStops(c) PROVE CallerType'
  BY <1>13 DEF WriterStops
<1>14. ASSUME NEW c \in Conns, WriterFlush(c) PROVE CallerType'
  BY <1>14 DEF WriterFlush, WriteOut
<1>15. ASSUME NEW c \in Conns, WriterCanceled(c) PROVE CallerType'
  BY <1>15 DEF WriterCanceled, Discard, CloseDone
<1>16. ASSUME NEW c \in Conns, WriterNoResponse(c) PROVE CallerType'
  BY <1>16 DEF WriterNoResponse
<1>17. ASSUME NEW c \in Conns, WriterRegister(c) PROVE CallerType'
  BY <1>17 DEF WriterRegister
<1>18. ASSUME NEW c \in Conns, WriterCount(c) PROVE CallerType'
  BY <1>18 DEF WriterCount
<1>19. ASSUME NEW c \in Conns, WriterEncode(c) PROVE CallerType'
  BY <1>19 DEF WriterEncode, WriteOut, Requests
<1>20. ASSUME NEW c \in Conns, ReaderReceives(c) PROVE CallerType'
  <2> SUFFICES ASSUME NEW q \in IDs \X (Calls \cup {NoCall}), ReaderLookup(c, q) PROVE CallerType'
    BY <1>20, LookupFacts
  <2>1. pending[c][q[1]] \in Calls \cup {NoCall}
    BY DEF ConnType
  <2>2. QED
    BY <2>1, HandFacts DEF ReaderLookup
<1>21. ASSUME NEW c \in Conns, ReaderComplete(c) PROVE CallerType'
  BY <1>21 DEF ReaderComplete, CloseDone
<1>22. ASSUME NEW c \in Conns, ReaderFails(c) \/ ReaderSpins(c) PROVE CallerType'
  BY <1>22 DEF ReaderFails, ReaderSpins
<1>23. ASSUME NEW c \in Conns, HandlerDials(c) PROVE CallerType'
  BY <1>23 DEF HandlerDials
<1>24. ASSUME NEW c \in Conns, HandlerStops(c) PROVE CallerType'
  BY <1>24 DEF HandlerStops
<1>25. ASSUME NEW c \in Conns, HandlerConnects(c) PROVE CallerType'
  BY <1>25 DEF HandlerConnects
<1>26. ASSUME NEW c \in Conns, HandlerRejected(c) PROVE CallerType'
  BY <1>26 DEF HandlerRejected
<1>27. ASSUME NEW c \in Conns, HandlerCloses(c) PROVE CallerType'
  BY <1>27 DEF HandlerCloses
<1>28. ASSUME NEW c \in Conns, NEW i \in IDs, HandlerFailsPending(c, i) PROVE CallerType'
  BY <1>28 DEF HandlerFailsPending, CloseDone, BothDone
<1>29. ASSUME NEW c \in Conns, HandlerEnds(c) PROVE CallerType'
  BY <1>29 DEF HandlerEnds, BothDone
<1>30. ASSUME NEW c \in Conns, HandlerLoops(c) PROVE CallerType'
  BY <1>30 DEF HandlerLoops
<1>31. ASSUME NEW c \in Conns, LinkBreaks(c) PROVE CallerType'
  BY <1>31 DEF LinkBreaks
<1>32. CASE UNCHANGED vars
  BY <1>32 DEF vars
<1>33. QED
  BY <1>1, <1>2, <1>3, <1>4, <1>5, <1>6, <1>7, <1>8, <1>9, <1>10, <1>11, <1>12, <1>13, <1>14, <1>15, <1>16, <1>17, <1>18, <1>19, <1>20, <1>21, <1>22, <1>23, <1>24, <1>25, <1>26, <1>27, <1>28, <1>29, <1>30, <1>31, <1>32 DEF Next, Finished, CallerNext, WriterNext, ReaderNext, HandlerNext

(* Handler, writer and reader stay in their loops, pending maps hold calls *)
(* under message IDs.                                                      *)
LEMMA NextConnType == TypeInv /\ [Next]_vars => ConnType'
<1> SUFFICES ASSUME TypeInv, [Next]_vars PROVE ConnType'
  OBVIOUS
<1> USE HandFacts, IDFacts, CallsAssumption, SizesAssumption DEF client, result, conn, TypeInv, TypeOK, ConnType, CallerType
<1>1. CASE Start
  BY <1>1 DEF Start, Range
<1>2. CASE Stop
  BY <1>2 DEF Stop
<1>3. CASE StopReturns
  BY <1>3 DEF StopReturns
<1>4. ASSUME NEW k \in Calls, Submit(k) PROVE ConnType'
  BY <1>4 DEF Submit, Push, Overflow, HasRoom
<1>5. ASSUME NEW k \in Calls, Evict(k) PROVE ConnType'
  BY <1>5 DEF Evict
<1>6. ASSUME NEW k \in Calls, DropEvicted(k) PROVE ConnType'
  BY <1>6 DEF DropEvicted, Discard, CloseDone
<1>7. ASSUME NEW k \in Calls, Retry(k) PROVE ConnType'
  BY <1>7 DEF Retry, Push, Overflow, HasRoom
<1>8. ASSUME NEW k \in Calls, ReceiveDone(k) PROVE ConnType'
  BY <1>8 DEF ReceiveDone
<1>9. ASSUME NEW k \in Calls, Timeout(k) PROVE ConnType'
  BY <1>9 DEF Timeout
<1>10. ASSUME NEW k \in Calls, Cancel(k) PROVE ConnType'
  BY <1>10 DEF Cancel
<1>11. ASSUME NEW c \in Conns, WriterTake(c) PROVE ConnType'
  BY <1>11 DEF WriterTake
<1>12. ASSUME NEW c \in Conns, WriterPoll(c) PROVE ConnType'
  BY <1>12 DEF WriterPoll
<1>13. ASSUME NEW c \in Conns, WriterStops(c) PROVE ConnType'
  BY <1>13 DEF WriterStops
<1>14. ASSUME NEW c \in Conns, WriterFlush(c) PROVE ConnType'
  <2>1. PICK x \in {"loop", "done"} : w' = [w EXCEPT ![c] = x]
    BY <1>14 DEF WriterFlush, WriteOut
  <2>2. QED
    BY <1>14, <2>1 DEF WriterFlush
<1>15. ASSUME NEW c \in Conns, WriterCanceled(c) PROVE ConnType'
  BY <1>15 DEF WriterCanceled, Discard, CloseDone
<1>16. ASSUME NEW c \in Conns, WriterNoResponse(c) PROVE ConnType'
  BY <1>16 DEF WriterNoResponse
<1>17. ASSUME NEW c \in Conns, WriterRegister(c) PROVE ConnType'
  BY <1>17 DEF WriterRegister
<1>18. ASSUME NEW c \in Conns, WriterCount(c) PROVE ConnType'
  BY <1>18 DEF WriterCount
<1>19. ASSUME NEW c \in Conns, WriterEncode(c) PROVE ConnType'
  <2>1. PICK x \in {"loop", "done"} : w' = [w EXCEPT ![c] = x]
    BY <1>19 DEF WriterEncode, WriteOut
  <2>2. QED
    BY <1>19, <2>1 DEF WriterEncode
<1>20. ASSUME NEW c \in Conns, ReaderReceives(c) PROVE ConnType'
  <2> SUFFICES ASSUME NEW q \in IDs \X (Calls \cup {NoCall}), ReaderLookup(c, q) PROVE ConnType'
    BY <1>20, LookupFacts
  <2>1. PICK x \in {"have", "done"} : r' = [r EXCEPT ![c] = x]
    BY DEF ReaderLookup
  <2>2. pending' \in [Conns -> [IDs -> Calls \cup {NoCall}]]
    BY DEF ReaderLookup
  <2>3. QED
    BY <2>1, <2>2 DEF ReaderLookup
<1>21. ASSUME NEW c \in Conns, ReaderComplete(c) PROVE ConnType'
  BY <1>21 DEF ReaderComplete, CloseDone
<1>22. ASSUME NEW c \in Conns, ReaderFails(c) \/ ReaderSpins(c) PROVE ConnType'
  <2>1. PICK x \in {"done", "spin"} : r' = [r EXCEPT ![c] = x]
    BY <1>22 DEF ReaderFails, ReaderSpins
  <2>2. r' \in [Conns -> {"off", "read", "have", "spin", "done"}]
    BY <2>1
  <2>3. UNCHANGED <<h, herr, w, wid, msgID, pending, flush, link, breaks>>
    BY <1>22 DEF ReaderFails, ReaderSpins
  <2>4. QED
    BY <2>2, <2>3
<1>23. ASSUME NEW c \in Conns, HandlerDials(c) PROVE ConnType'
  <2>1. PICK x \in {"connected", "backoff", "dial"} : h' = [h EXCEPT ![c] = x]
    BY <1>23 DEF HandlerDials
  <2>2. QED
    BY <1>23, <2>1 DEF HandlerDials
<1>24. ASSUME NEW c \in Conns, HandlerStops(c) PROVE ConnType'
  BY <1>24 DEF HandlerStops
<1>25. ASSUME NEW c \in Conns, HandlerConnects(c) PROVE ConnType'
  BY <1>25 DEF HandlerConnects
<1>26. ASSUME NEW c \in Conns, HandlerRejected(c) PROVE ConnType'
  BY <1>26 DEF HandlerRejected
<1>27. ASSUME NEW c \in Conns, HandlerCloses(c) PROVE ConnType'
  <2>1. herr' \in [Conns -> {"connection", "empty"}]
    <3>1. PICK e \in {"connection", "empty"} : herr' = [herr EXCEPT ![c] = e]
      BY <1>27 DEF HandlerCloses
    <3>2. QED
      BY <3>1
  <2>2. QED
    BY <1>27, <2>1 DEF HandlerCloses
<1>28. ASSUME NEW c \in Conns, NEW i \in IDs, HandlerFailsPending(c, i) PROVE ConnType'
  BY <1>28 DEF HandlerFailsPending, CloseDone, BothDone
<1>29. ASSUME NEW c \in Conns, HandlerEnds(c) PROVE ConnType'
  BY <1>29 DEF HandlerEnds, BothDone
<1>30. ASSUME NEW c \in Conns, HandlerLoops(c) PROVE ConnType'
  BY <1>30 DEF HandlerLoops
<1>31. ASSUME NEW c \in Conns, LinkBreaks(c) PROVE ConnType'
  BY <1>31 DEF LinkBreaks
<1>32. CASE UNCHANGED vars
  BY <1>32 DEF vars
<1>33. QED
  BY <1>1, <1>2, <1>3, <1>4, <1>5, <1>6, <1>7, <1>8, <1>9, <1>10, <1>11, <1>12, <1>13, <1>14, <1>15, <1>16, <1>17, <1>18, <1>19, <1>20, <1>21, <1>22, <1>23, <1>24, <1>25, <1>26, <1>27, <1>28, <1>29, <1>30, <1>31, <1>32 DEF Next, Finished, CallerNext, WriterNext, ReaderNext, HandlerNext

(* The encoder's buffer and the wire hold requests under message IDs. *)
LEMMA NextWireType == TypeInv /\ [Next]_vars => WireType'
<1> SUFFICES ASSUME TypeInv, [Next]_vars PROVE WireType'
  OBVIOUS
<1> USE CallsAssumption, SizesAssumption DEF client, result, conn, TypeInv, TypeOK, WireType
<1>1. CASE Start
  BY <1>1 DEF Start, Range
<1>2. CASE Stop
  BY <1>2 DEF Stop
<1>3. CASE StopReturns
  BY <1>3 DEF StopReturns
<1>4. ASSUME NEW k \in Calls, Submit(k) PROVE WireType'
  BY <1>4 DEF Submit, Push, Overflow, HasRoom
<1>5. ASSUME NEW k \in Calls, Evict(k) PROVE WireType'
  BY <1>5 DEF Evict
<1>6. ASSUME NEW k \in Calls, DropEvicted(k) PROVE WireType'
  BY <1>6 DEF DropEvicted, Discard, CloseDone
<1>7. ASSUME NEW k \in Calls, Retry(k) PROVE WireType'
  BY <1>7 DEF Retry, Push, Overflow, HasRoom
<1>8. ASSUME NEW k \in Calls, ReceiveDone(k) PROVE WireType'
  BY <1>8 DEF ReceiveDone
<1>9. ASSUME NEW k \in Calls, Timeout(k) PROVE WireType'
  BY <1>9 DEF Timeout
<1>10. ASSUME NEW k \in Calls, Cancel(k) PROVE WireType'
  BY <1>10 DEF Cancel
<1>11. ASSUME NEW c \in Conns, WriterTake(c) PROVE WireType'
  BY <1>11 DEF WriterTake
<1>12. ASSUME NEW c \in Conns, WriterPoll(c) PROVE WireType'
  BY <1>12 DEF WriterPoll
<1>13. ASSUME NEW c \in Conns, WriterStops(c) PROVE WireType'
  BY <1>13 DEF WriterStops
<1>14. ASSUME NEW c \in Conns, WriterFlush(c) PROVE WireType'
  <2>1. sent' \in [Conns -> SUBSET Requests]
    BY <1>14 DEF WriterFlush, WriteOut
  <2>2. QED
    BY <1>14, <2>1 DEF WriterFlush
<1>15. ASSUME NEW c \in Conns, WriterCanceled(c) PROVE WireType'
  BY <1>15 DEF WriterCanceled, Discard, CloseDone
<1>16. ASSUME NEW c \in Conns, WriterNoResponse(c) PROVE WireType'
  BY <1>16 DEF WriterNoResponse
<1>17. ASSUME NEW c \in Conns, WriterRegister(c) PROVE WireType'
  BY <1>17 DEF WriterRegister
<1>18. ASSUME NEW c \in Conns, WriterCount(c) PROVE WireType'
  BY <1>18 DEF WriterCount
<1>19. ASSUME NEW c \in Conns, WriterEncode(c) PROVE WireType'
  <2>1. <<wid[c], hand[Writer(c)]>> \in Requests
    BY <1>19, HandFacts DEF WriterEncode, Requests, Phases, ConnType, CallerType
  <2>2. sent' \in [Conns -> SUBSET Requests]
    BY <1>19, <2>1 DEF WriterEncode, WriteOut
  <2>3. buf' \in [Conns -> SUBSET Requests]
    BY <1>19, <2>1 DEF WriterEncode
  <2>4. QED
    BY <2>2, <2>3
<1>20. ASSUME NEW c \in Conns, ReaderReceives(c) PROVE WireType'
  <2> SUFFICES ASSUME NEW q, ReaderLookup(c, q) PROVE WireType'
    BY <1>20 DEF ReaderReceives
  <2>1. QED
    BY DEF ReaderLookup
<1>21. ASSUME NEW c \in Conns, ReaderComplete(c) PROVE WireType'
  BY <1>21 DEF ReaderComplete, CloseDone
<1>22. ASSUME NEW c \in Conns, ReaderFails(c) \/ ReaderSpins(c) PROVE WireType'
  BY <1>22 DEF ReaderFails, ReaderSpins
<1>23. ASSUME NEW c \in Conns, HandlerDials(c) PROVE WireType'
  BY <1>23 DEF HandlerDials
<1>24. ASSUME NEW c \in Conns, HandlerStops(c) PROVE WireType'
  BY <1>24 DEF HandlerStops
<1>25. ASSUME NEW c \in Conns, HandlerConnects(c) PROVE WireType'
  BY <1>25 DEF HandlerConnects
<1>26. ASSUME NEW c \in Conns, HandlerRejected(c) PROVE WireType'
  BY <1>26 DEF HandlerRejected
<1>27. ASSUME NEW c \in Conns, HandlerCloses(c) PROVE WireType'
  BY <1>27 DEF HandlerCloses
<1>28. ASSUME NEW c \in Conns, NEW i \in IDs, HandlerFailsPending(c, i) PROVE WireType'
  BY <1>28 DEF HandlerFailsPending, CloseDone, BothDone
<1>29. ASSUME NEW c \in Conns, HandlerEnds(c) PROVE WireType'
  BY <1>29 DEF HandlerEnds, BothDone
<1>30. ASSUME NEW c \in Conns, HandlerLoops(c) PROVE WireType'
  BY <1>30 DEF HandlerLoops
<1>31. ASSUME NEW c \in Conns, LinkBreaks(c) PROVE WireType'
  BY <1>31 DEF LinkBreaks
<1>32. CASE UNCHANGED vars
  BY <1>32 DEF vars
<1>33. QED
  BY <1>1, <1>2, <1>3, <1>4, <1>5, <1>6, <1>7, <1>8, <1>9, <1>10, <1>11, <1>12, <1>13, <1>14, <1>15, <1>16, <1>17, <1>18, <1>19, <1>20, <1>21, <1>22, <1>23, <1>24, <1>25, <1>26, <1>27, <1>28, <1>29, <1>30, <1>31, <1>32 DEF Next, Finished, CallerNext, WriterNext, ReaderNext, HandlerNext

(* No step separates a program counter from what its goroutine holds. *)
LEMMA NextPhases == TypeInv /\ [Next]_vars => Phases'
<1> SUFFICES ASSUME TypeInv, [Next]_vars PROVE Phases'
  OBVIOUS
<1> USE HandFacts, CallsAssumption, SizesAssumption DEF client, result, conn, TypeInv, TypeOK, Phases, CallerType, ConnType
<1>1. CASE Start
  BY <1>1 DEF Start, Range
<1>2. CASE Stop
  BY <1>2 DEF Stop
<1>3. CASE StopReturns
  BY <1>3 DEF StopReturns
<1>4. ASSUME NEW k \in Calls, Submit(k) PROVE Phases'
  BY <1>4 DEF Submit, Push, Overflow, HasRoom
<1>5. ASSUME NEW k \in Calls, Evict(k) PROVE Phases'
  <2>1. CASE queue # <<>>
    BY <1>5, <2>1, QueueFacts DEF Evict
  <2>2. CASE queue = <<>>
    BY <1>5, <2>2 DEF Evict
  <2>3. QED
    BY <2>1, <2>2
<1>6. ASSUME NEW k \in Calls, DropEvicted(k) PROVE Phases'
  BY <1>6 DEF DropEvicted, Discard, CloseDone
<1>7. ASSUME NEW k \in Calls, Retry(k) PROVE Phases'
  BY <1>7 DEF Retry, Push, Overflow, HasRoom
<1>8. ASSUME NEW k \in Calls, ReceiveDone(k) PROVE Phases'
  BY <1>8 DEF ReceiveDone
<1>9. ASSUME NEW k \in Calls, Timeout(k) PROVE Phases'
  BY <1>9 DEF Timeout
<1>10. ASSUME NEW k \in Calls, Cancel(k) PROVE Phases'
  BY <1>10 DEF Cancel
<1>11. ASSUME NEW c \in Conns, WriterTake(c) PROVE Phases'
  BY <1>11, QueueFacts DEF WriterTake
<1>12. ASSUME NEW c \in Conns, WriterPoll(c) PROVE Phases'
  BY <1>12 DEF WriterPoll
<1>13. ASSUME NEW c \in Conns, WriterStops(c) PROVE Phases'
  BY <1>13 DEF WriterStops
<1>14. ASSUME NEW c \in Conns, WriterFlush(c) PROVE Phases'
  <2>1. w'[c] \in {"loop", "done"} /\ \A d \in Conns \ {c} : w'[d] = w[d]
    BY <1>14 DEF WriterFlush, WriteOut
  <2>2. w[c] = "select" /\ UNCHANGED <<cpc, r, h, stopChan, hand>>
    BY <1>14 DEF WriterFlush
  <2>3. QED
    BY <2>1, <2>2, ZenonT(40)
<1>15. ASSUME NEW c \in Conns, WriterCanceled(c) PROVE Phases'
  BY <1>15 DEF WriterCanceled, Discard, CloseDone
<1>16. ASSUME NEW c \in Conns, WriterNoResponse(c) PROVE Phases'
  BY <1>16 DEF WriterNoResponse
<1>17. ASSUME NEW c \in Conns, WriterRegister(c) PROVE Phases'
  BY <1>17 DEF WriterRegister
<1>18. ASSUME NEW c \in Conns, WriterCount(c) PROVE Phases'
  BY <1>18 DEF WriterCount
<1>19. ASSUME NEW c \in Conns, WriterEncode(c) PROVE Phases'
  <2>1. w'[c] \in {"loop", "done"} /\ \A d \in Conns \ {c} : w'[d] = w[d]
    BY <1>19 DEF WriterEncode, WriteOut
  <2>2. /\ w[c] = "encode" /\ hand' = [hand EXCEPT ![Writer(c)] = NoCall]
       /\ UNCHANGED <<cpc, r, h, stopChan>>
    BY <1>19 DEF WriterEncode
  <2>3. QED
    BY <2>1, <2>2, SMTT(30)
<1>20. ASSUME NEW c \in Conns, ReaderReceives(c) PROVE Phases'
  <2> SUFFICES ASSUME NEW q \in IDs \X (Calls \cup {NoCall}), ReaderLookup(c, q) PROVE Phases'
    BY <1>20, LookupFacts
  <2>1. CASE pending[c][q[1]] = NoCall
    BY <2>1 DEF ReaderLookup
  <2>2. CASE pending[c][q[1]] # NoCall
    BY <2>2 DEF ReaderLookup
  <2>3. QED
    BY <2>1, <2>2
<1>21. ASSUME NEW c \in Conns, ReaderComplete(c) PROVE Phases'
  BY <1>21 DEF ReaderComplete, CloseDone
<1>22. ASSUME NEW c \in Conns, ReaderFails(c) \/ ReaderSpins(c) PROVE Phases'
  BY <1>22 DEF ReaderFails, ReaderSpins
<1>23. ASSUME NEW c \in Conns, HandlerDials(c) PROVE Phases'
  <2>1. h'[c] \notin {"run", "closing"} /\ h[c] \notin {"off", "run", "closing"} /\ \A d \in Conns \ {c} : h'[d] = h[d]
    BY <1>23 DEF HandlerDials
  <2>2. QED
    BY <1>23, <2>1 DEF HandlerDials
<1>24. ASSUME NEW c \in Conns, HandlerStops(c) PROVE Phases'
  BY <1>24 DEF HandlerStops
<1>25. ASSUME NEW c \in Conns, HandlerConnects(c) PROVE Phases'
  <2>1. UNCHANGED <<cpc, hand, stopChan>>
    BY <1>25 DEF HandlerConnects
  <2>2. /\ h[c] = "connected" /\ h'[c] = "run" /\ w'[c] = "loop" /\ r'[c] = "read"
       /\ \A d \in Conns \ {c} : h'[d] = h[d] /\ w'[d] = w[d] /\ r'[d] = r[d]
    BY <1>25 DEF HandlerConnects
  <2>3. w[c] = "off" /\ r[c] = "off" /\ stopChan # "nil"
    BY <2>2
  <2>4. \A k \in Calls : hand'[Caller(k)] # NoCall <=> cpc'[k] = "drop"
    BY <2>1
  <2>5. \A d \in Conns : hand'[Writer(d)] # NoCall <=> w'[d] \in {"have", "count", "leak", "encode"}
    <3> SUFFICES ASSUME NEW d \in Conns
                 PROVE  hand'[Writer(d)] # NoCall <=> w'[d] \in {"have", "count", "leak", "encode"}
      OBVIOUS
    <3>1. hand'[Writer(d)] # NoCall <=> w[d] \in {"have", "count", "leak", "encode"}
      BY <2>1
    <3>2. CASE d = c
      BY <2>2, <2>3, <3>1, <3>2
    <3>3. CASE d # c
      BY <2>2, <3>1, <3>3
    <3>4. QED
      BY <3>2, <3>3
  <2>6. \A d \in Conns : hand'[Reader(d)] # NoCall <=> r'[d] = "have"
    BY <2>1, <2>2, <2>3
  <2>7. \A d \in Conns : h'[d] \notin {"run", "closing"} => w'[d] = "off" /\ r'[d] = "off"
    BY <2>1, <2>2
  <2>8. QED
    BY <2>1, <2>3, <2>4, <2>5, <2>6, <2>7
<1>26. ASSUME NEW c \in Conns, HandlerRejected(c) PROVE Phases'
  BY <1>26 DEF HandlerRejected
<1>27. ASSUME NEW c \in Conns, HandlerCloses(c) PROVE Phases'
  BY <1>27 DEF HandlerCloses
<1>28. ASSUME NEW c \in Conns, NEW i \in IDs, HandlerFailsPending(c, i) PROVE Phases'
  BY <1>28 DEF HandlerFailsPending, CloseDone, BothDone
<1>29. ASSUME NEW c \in Conns, HandlerEnds(c) PROVE Phases'
  BY <1>29 DEF HandlerEnds, BothDone
<1>30. ASSUME NEW c \in Conns, HandlerLoops(c) PROVE Phases'
  BY <1>30 DEF HandlerLoops
<1>31. ASSUME NEW c \in Conns, LinkBreaks(c) PROVE Phases'
  BY <1>31 DEF LinkBreaks
<1>32. CASE UNCHANGED vars
  BY <1>32 DEF vars
<1>33. QED
  BY <1>1, <1>2, <1>3, <1>4, <1>5, <1>6, <1>7, <1>8, <1>9, <1>10, <1>11, <1>12, <1>13, <1>14, <1>15, <1>16, <1>17, <1>18, <1>19, <1>20, <1>21, <1>22, <1>23, <1>24, <1>25, <1>26, <1>27, <1>28, <1>29, <1>30, <1>31, <1>32 DEF Next, Finished, CallerNext, WriterNext, ReaderNext, HandlerNext

(* TypeInv is inductive. *)
LEMMA TypeNext == TypeInv /\ [Next]_vars => TypeInv'
BY NextClientType, NextResultType, NextCallerType, NextConnType, NextWireType, NextPhases DEF TypeInv, TypeOK

(* Every variable of the client keeps its type, for every choice of the    *)
(* constants: requestsChan never exceeds PendingRequests, every message ID *)
(* is one of IDSpace, every request on the wire belongs to a call.         *)
THEOREM Types == Spec => []TypeOK
<1>1. Init => TypeInv
  BY TypeInit
<1>2. TypeInv /\ [Next]_vars => TypeInv'
  BY TypeNext
<1>3. QED
  BY <1>1, <1>2, PTL DEF Spec, TypeInv

-----------------------------------------------------------------------------
(* The inductive form of SingleOwner: one conjunct for each kind of place  *)
(* an AsyncResult can be in, saying that it is nowhere else; a call whose  *)
(* callAsync has not pushed it yet is in none of them.                     *)

Fresh == {"idle", "evict", "drop", "retry"}

NotPending(k) == \A c \in Conns, n \in IDs : pending[c][n] # k

QueueAlone ==
  \A i \in 1 .. Len(queue) :
    /\ \A j \in 1 .. Len(queue) : queue[i] = queue[j] => i = j
    /\ \A g \in Goroutines : ~Owns(g, queue[i])
    /\ NotPending(queue[i]) /\ closes[queue[i]] = 0

HandAlone ==
  \A g \in Goroutines, k \in Calls : Owns(g, k) =>
    /\ \A f \in Goroutines : Owns(f, k) => f = g
    /\ NotPending(k) /\ closes[k] = 0

PendingAlone ==
  \A c \in Conns, n \in IDs : pending[c][n] \in Calls =>
    /\ \A d \in Conns, o \in IDs : pending[d][o] = pending[c][n] => d = c /\ o = n
    /\ closes[pending[c][n]] = 0

ClosedOnce == \A k \in Calls : closes[k] <= 1

FreshNowhere ==
  \A k \in Calls : cpc[k] \in Fresh =>
    /\ \A i \in 1 .. Len(queue) : queue[i] # k
    /\ \A g \in Goroutines : ~Owns(g, k)
    /\ NotPending(k) /\ closes[k] = 0

Exclusive == QueueAlone /\ HandAlone /\ PendingAlone /\ ClosedOnce /\ FreshNowhere

(* Exclusive says what SingleOwner says. *)
LEMMA ExclusiveImplies ==
  ASSUME TypeOK, Exclusive PROVE SingleOwner
<1> SUFFICES ASSUME NEW k \in Calls, NEW p \in Owners(k), NEW q \in Owners(k) PROVE p = q
  BY DEF SingleOwner
<1> DEFINE Q == {<<"queue", i>> : i \in {j \in DOMAIN queue : queue[j] = k}}
           G == {g \in Goroutines : Owns(g, k)}
           P == {<<"pending", x>> : x \in {y \in Conns \X IDs : pending[y[1]][y[2]] = k}}
           C == {<<"closed", n>> : n \in 1 .. closes[k]}
<1>1. p \in Q \cup G \cup P \cup C /\ q \in Q \cup G \cup P \cup C
  BY DEF Owners
<1>2. DOMAIN queue = 1 .. Len(queue) /\ closes[k] \in Nat
  BY DEF TypeOK, ClientType, ResultType
<1>3. Q # {} => G = {} /\ P = {} /\ C = {} /\ \A x, y \in Q : x = y
  BY <1>2 DEF Exclusive, QueueAlone, NotPending
<1>4. G # {} => P = {} /\ C = {} /\ \A x, y \in G : x = y
  BY <1>2 DEF Exclusive, HandAlone, NotPending
<1>5. P # {} => C = {} /\ \A x, y \in P : x = y
  BY <1>2 DEF Exclusive, PendingAlone
<1>6. \A x, y \in C : x = y
  BY <1>2 DEF Exclusive, ClosedOnce
<1>7. QED
  BY <1>1, <1>3, <1>4, <1>5, <1>6

(* What the steps do to the places, one lemma for each kind of move. *)

Keeps(g) == \A f \in Goroutines \ {g}, k \in Calls : Owns(f, k)' <=> Owns(f, k)
OneEntry(c, i) == \A d \in Conns, o \in IDs : pending'[d][o] # pending[d][o] => d = c /\ o = i
NoNewFresh == \A k \in Calls : cpc'[k] \in Fresh => cpc[k] \in Fresh

(* Nothing moves. *)
LEMMA Stay ==
  ASSUME TypeInv, Exclusive, NoNewFresh, UNCHANGED <<queue, pending, closes>>,
         \A f \in Goroutines, k \in Calls : Owns(f, k)' => Owns(f, k)
  PROVE  Exclusive'
BY DEF Exclusive, QueueAlone, HandAlone, PendingAlone, ClosedOnce, FreshNowhere, NotPending, NoNewFresh, TypeInv, TypeOK, ClientType

(* A fresh call enters the queue. *)
LEMMA Enqueue ==
  ASSUME TypeInv, TypeInv', Exclusive, NEW k \in Calls, cpc[k] \in Fresh, cpc'[k] \notin Fresh, NoNewFresh,
         queue' = Append(queue, k), UNCHANGED <<pending, closes>>,
         \A f \in Goroutines, j \in Calls : Owns(f, j)' => Owns(f, j)
  PROVE  Exclusive'
<1>1. /\ \A i \in 1 .. Len(queue) : queue'[i] = queue[i] /\ queue[i] # k
      /\ queue'[Len(queue) + 1] = k /\ Len(queue') = Len(queue) + 1 /\ Len(queue) \in Nat
  BY PushFacts DEF Exclusive, FreshNowhere, TypeInv, TypeOK
<1>2. QueueAlone'
  BY <1>1, SMTT(30) DEF Exclusive, QueueAlone, FreshNowhere, NotPending, TypeInv, TypeOK, ClientType
<1>3. HandAlone' /\ PendingAlone' /\ ClosedOnce'
  BY DEF Exclusive, HandAlone, PendingAlone, ClosedOnce, NotPending
<1>4. FreshNowhere'
  BY <1>1 DEF Exclusive, FreshNowhere, NotPending, NoNewFresh
<1>5. QED
  BY <1>2, <1>3, <1>4 DEF Exclusive

(* A goroutine takes the head of the queue. *)
LEMMA Take ==
  ASSUME TypeInv, TypeInv', Exclusive, NoNewFresh, NEW g \in Goroutines, Keeps(g),
         \A k \in Calls : Owns(g, k)' => k = Head(queue),
         queue # <<>>, queue' = Tail(queue), UNCHANGED <<pending, closes>>
  PROVE  Exclusive'
<1>1. /\ Len(queue') = Len(queue) - 1 /\ Len(queue) \in Nat \ {0}
      /\ \A i \in 1 .. Len(queue') : queue'[i] = queue[i + 1]
      /\ Head(queue) = queue[1] /\ Head(queue) \in Calls
      /\ \A i \in 1 .. Len(queue) : queue[i] \in Calls
  BY QueueFacts DEF TypeInv, TypeOK, ClientType
<1>2. \A i \in 1 .. Len(queue') : queue'[i] # Head(queue) /\ i + 1 \in 1 .. Len(queue)
  BY <1>1 DEF Exclusive, QueueAlone
<1>3. QueueAlone'
  BY <1>1, <1>2 DEF Exclusive, QueueAlone, NotPending, Keeps
<1>4. HandAlone'
  BY <1>1 DEF Exclusive, QueueAlone, HandAlone, NotPending, Keeps
<1>5. PendingAlone' /\ ClosedOnce'
  BY DEF Exclusive, PendingAlone, ClosedOnce
<1>6. FreshNowhere'
  BY <1>1, <1>2 DEF Exclusive, FreshNowhere, NotPending, NoNewFresh, Keeps
<1>7. QED
  BY <1>3, <1>4, <1>5, <1>6 DEF Exclusive

(* A goroutine closes the done channel of what it holds. *)
LEMMA CloseHeld ==
  ASSUME TypeInv, Exclusive, NoNewFresh, NEW g \in Goroutines, Keeps(g),
         NEW m \in Calls, Owns(g, m), \A k \in Calls : ~Owns(g, k)',
         closes' = [closes EXCEPT ![m] = @ + 1], UNCHANGED <<queue, pending>>
  PROVE  Exclusive'
<1>1. closes[m] = 0 /\ closes'[m] = 1 /\ \A k \in Calls \ {m} : closes'[k] = closes[k]
  BY DEF Exclusive, HandAlone, TypeInv, TypeOK, ResultType
<1>2. /\ \A i \in 1 .. Len(queue) : queue[i] # m /\ queue[i] \in Calls
      /\ NotPending(m) /\ \A f \in Goroutines : ~Owns(f, m)'
      /\ cpc[m] \notin Fresh
  BY DEF Exclusive, QueueAlone, HandAlone, FreshNowhere, Keeps, TypeInv, TypeOK, ClientType
<1>3. QueueAlone'
  BY <1>1, <1>2 DEF Exclusive, QueueAlone, NotPending, Keeps
<1>4. HandAlone'
  BY <1>1, <1>2 DEF Exclusive, HandAlone, NotPending, Keeps
<1>5. PendingAlone' /\ ClosedOnce'
  BY <1>1, <1>2 DEF Exclusive, PendingAlone, ClosedOnce, NotPending
<1>6. FreshNowhere'
  BY <1>1, <1>2 DEF Exclusive, FreshNowhere, NotPending, NoNewFresh, Keeps
<1>7. QED
  BY <1>3, <1>4, <1>5, <1>6 DEF Exclusive

(* The writer enters what it holds into a free slot of a pending map. *)
LEMMA Register ==
  ASSUME TypeInv, Exclusive, NoNewFresh, NEW g \in Goroutines, Keeps(g),
         NEW m \in Calls, Owns(g, m), \A k \in Calls : ~Owns(g, k)',
         NEW c \in Conns, NEW i \in IDs, pending[c][i] = NoCall, pending'[c][i] = m, OneEntry(c, i),
         UNCHANGED <<queue, closes>>
  PROVE  Exclusive'
<1>1. /\ pending'[c][i] = m
      /\ \A d \in Conns, o \in IDs : pending'[d][o] # pending[d][o] => d = c /\ o = i
  BY DEF OneEntry
<1>2. /\ \A j \in 1 .. Len(queue) : queue[j] # m /\ queue[j] \in Calls
      /\ NotPending(m) /\ \A f \in Goroutines : ~Owns(f, m)'
      /\ cpc[m] \notin Fresh /\ closes[m] = 0
  BY DEF Exclusive, QueueAlone, HandAlone, FreshNowhere, Keeps, TypeInv, TypeOK, ClientType
<1>3. QueueAlone'
  BY <1>1, <1>2 DEF Exclusive, QueueAlone, NotPending, Keeps
<1>4. HandAlone'
  BY <1>1, <1>2 DEF Exclusive, HandAlone, NotPending, Keeps
<1>5. PendingAlone' /\ ClosedOnce'
  BY <1>1, <1>2 DEF Exclusive, PendingAlone, ClosedOnce, NotPending
<1>6. FreshNowhere'
  BY <1>1, <1>2 DEF Exclusive, FreshNowhere, NotPending, NoNewFresh, Keeps
<1>7. QED
  BY <1>3, <1>4, <1>5, <1>6 DEF Exclusive

(* The reader takes an entry out of a pending map. *)
LEMMA Lookup ==
  ASSUME TypeInv, Exclusive, NoNewFresh, NEW g \in Goroutines, Keeps(g),
         NEW c \in Conns, NEW i \in IDs,
         \A k \in Calls : Owns(g, k)' => k = pending[c][i],
         pending'[c][i] = NoCall, OneEntry(c, i), UNCHANGED <<queue, closes>>
  PROVE  Exclusive'
<1>1. /\ pending'[c][i] = NoCall
      /\ \A d \in Conns, o \in IDs : pending'[d][o] # pending[d][o] => d = c /\ o = i
      /\ \A j \in 1 .. Len(queue) : queue[j] \in Calls
  BY DEF TypeInv, TypeOK, ClientType, OneEntry
<1>2. \A k \in Calls : pending[c][i] = k =>
        /\ \A d \in Conns, o \in IDs : pending'[d][o] # k
        /\ closes[k] = 0 /\ cpc[k] \notin Fresh
        /\ \A f \in Goroutines : ~Owns(f, k)
        /\ \A j \in 1 .. Len(queue) : queue[j] # k
  BY <1>1, CallsAssumption DEF Exclusive, QueueAlone, HandAlone, PendingAlone, FreshNowhere, NotPending
<1>3. QueueAlone'
  BY <1>1, <1>2, CallsAssumption DEF Exclusive, QueueAlone, NotPending, Keeps
<1>4. HandAlone'
  BY <1>1, <1>2, CallsAssumption DEF Exclusive, HandAlone, NotPending, Keeps
<1>5. PendingAlone' /\ ClosedOnce'
  BY <1>1, CallsAssumption DEF Exclusive, PendingAlone, ClosedOnce
<1>6. FreshNowhere'
  BY <1>1, <1>2, CallsAssumption DEF Exclusive, FreshNowhere, NotPending, NoNewFresh, Keeps
<1>7. QED
  BY <1>3, <1>4, <1>5, <1>6 DEF Exclusive

(* The handler closes the done channel of a pending entry. *)
LEMMA CloseEntry ==
  ASSUME TypeInv, Exclusive, NoNewFresh, NEW c \in Conns, NEW i \in IDs, NEW m \in Calls,
         pending[c][i] = m, pending' = [pending EXCEPT ![c][i] = NoCall],
         closes' = [closes EXCEPT ![m] = @ + 1], UNCHANGED queue,
         \A f \in Goroutines, k \in Calls : Owns(f, k)' => Owns(f, k)
  PROVE  Exclusive'
<1>1. /\ \A d \in Conns, o \in IDs : pending'[d][o] # pending[d][o] => d = c /\ o = i
      /\ pending'[c][i] = NoCall
      /\ \A j \in 1 .. Len(queue) : queue[j] \in Calls
  BY DEF TypeInv, TypeOK, ConnType, ClientType
<1>2. closes[m] = 0 /\ closes'[m] = 1 /\ \A k \in Calls \ {m} : closes'[k] = closes[k]
  BY DEF Exclusive, PendingAlone, TypeInv, TypeOK, ResultType
<1>3. /\ \A d \in Conns, o \in IDs : pending'[d][o] # m
      /\ cpc[m] \notin Fresh /\ \A f \in Goroutines : ~Owns(f, m)
      /\ \A j \in 1 .. Len(queue) : queue[j] # m
  BY <1>1, CallsAssumption DEF Exclusive, QueueAlone, HandAlone, PendingAlone, FreshNowhere, NotPending
<1>4. QueueAlone'
  BY <1>1, <1>2, <1>3, CallsAssumption DEF Exclusive, QueueAlone, NotPending
<1>5. HandAlone'
  BY <1>1, <1>2, <1>3, CallsAssumption DEF Exclusive, HandAlone, NotPending
<1>6. PendingAlone' /\ ClosedOnce'
  BY <1>1, <1>2, <1>3, CallsAssumption DEF Exclusive, PendingAlone, ClosedOnce
<1>7. FreshNowhere'
  BY <1>1, <1>2, <1>3, CallsAssumption DEF Exclusive, FreshNowhere, NotPending, NoNewFresh
<1>8. QED
  BY <1>4, <1>5, <1>6, <1>7 DEF Exclusive

(* Who owns what after a step: with the same hands nobody gains anything   *)
(* unless a writer gets back to "have"; else only one goroutine's hand     *)
(* changes.                                                                *)
LEMMA SameHands ==
  ASSUME hand' = hand, \A c \in Conns : w'[c] = "have" => w[c] = "have"
  PROVE  \A f \in Goroutines, k \in Calls : Owns(f, k)' => Owns(f, k)
BY DEF Owns, Goroutines

(* If the step changes one goroutine's hand, the others still own what     *)
(* they owned.                                                             *)
LEMMA OneHand ==
  ASSUME NEW g \in Goroutines, \A f \in Goroutines \ {g} : hand'[f] = hand[f],
         \A c \in Conns : Writer(c) # g => (w'[c] = "have" <=> w[c] = "have")
  PROVE  Keeps(g) /\ (\A k \in Calls : Owns(g, k)' => k = hand'[g])
BY DEF Keeps, Owns, Goroutines, Writer

(* A goroutine that lets go of its AsyncResult owns nothing. *)
LEMMA EmptyHand ==
  ASSUME NEW g \in Goroutines, \A f \in Goroutines \ {g} : hand'[f] = hand[f], hand'[g] = NoCall,
         \A c \in Conns : Writer(c) # g => (w'[c] = "have" <=> w[c] = "have")
  PROVE  \A f \in Goroutines, k \in Calls : Owns(f, k)' => Owns(f, k)
BY CallsAssumption DEF Owns, Goroutines, Writer

(* Before Start nobody owns anything. *)
LEMMA ExclusiveInit == Init => Exclusive
BY CallsAssumption DEF Init, Exclusive, QueueAlone, HandAlone, PendingAlone, ClosedOnce,
   FreshNowhere, NotPending, Owns

(* Exclusive is inductive relative to TypeInv: every step of callAsync,    *)
(* the writer, the reader and the handler is one of the moves above, or    *)
(* moves nothing.                                                          *)
LEMMA ExclusiveNext == TypeInv /\ TypeInv' /\ Exclusive /\ [Next]_vars => Exclusive'
<1> SUFFICES ASSUME TypeInv, TypeInv', Exclusive, [Next]_vars PROVE Exclusive'
  OBVIOUS
<1> USE DEF client, result, conn
<1>1. CASE Start
  <2>1. hand' = hand /\ \A d \in Conns : w'[d] = "have" => w[d] = "have"
    BY <1>1 DEF Start, TypeInv, TypeOK, CallerType, ConnType, Phases
  <2>2. Len(queue') = 0 /\ UNCHANGED <<pending, closes, cpc>>
    BY <1>1 DEF Start, TypeInv, TypeOK, CallerType, ConnType, Phases
  <2>3. QED
    BY <2>1, <2>2, SameHands DEF Exclusive, QueueAlone, HandAlone, PendingAlone, ClosedOnce, FreshNowhere, NotPending
<1>2. CASE Stop
  <2>1. hand' = hand /\ \A d \in Conns : w'[d] = "have" => w[d] = "have"
    BY <1>2 DEF Stop, TypeInv, TypeOK, CallerType, ConnType, Phases
  <2>2. UNCHANGED <<queue, pending, closes>> /\ NoNewFresh
    BY <1>2 DEF Stop, NoNewFresh, Fresh, TypeInv, TypeOK, CallerType, ConnType, Phases
  <2>3. QED
    BY <2>1, <2>2, SameHands, Stay
<1>3. CASE StopReturns
  <2>1. hand' = hand /\ \A d \in Conns : w'[d] = "have" => w[d] = "have"
    BY <1>3 DEF StopReturns, TypeInv, TypeOK, CallerType, ConnType, Phases
  <2>2. UNCHANGED <<queue, pending, closes>> /\ NoNewFresh
    BY <1>3 DEF StopReturns, NoNewFresh, Fresh, TypeInv, TypeOK, CallerType, ConnType, Phases
  <2>3. QED
    BY <2>1, <2>2, SameHands, Stay
<1>4. ASSUME NEW k \in Calls, Submit(k) PROVE Exclusive'
  <2>1. hand' = hand /\ UNCHANGED <<pending, closes>> /\ \A d \in Conns : w'[d] = "have" => w[d] = "have"
    BY <1>4 DEF Submit, TypeInv, TypeOK, CallerType, ConnType, Phases
  <2>2. CASE Push(k)
    <3>1. cpc[k] \in Fresh /\ cpc'[k] \notin Fresh /\ NoNewFresh
      BY <1>4, <2>2 DEF Submit, Push, NoNewFresh, Fresh, TypeInv, TypeOK, CallerType, ConnType, Phases
    <3>2. QED
      BY <2>1, <2>2, <3>1, SameHands, Enqueue DEF Push
  <2>3. CASE Overflow(k)
    BY <1>4, <2>1, <2>3, SameHands, Stay DEF Submit, Overflow, NoNewFresh, Fresh, TypeInv, TypeOK, CallerType, ConnType, Phases
  <2>4. CASE cpc' = [cpc EXCEPT ![k] = "evict"] /\ UNCHANGED <<queue, ret>>
    BY <1>4, <2>1, <2>4, SameHands, Stay DEF Submit, NoNewFresh, Fresh, TypeInv, TypeOK, CallerType, ConnType, Phases
  <2>5. QED
    BY <1>4, <2>2, <2>3, <2>4 DEF Submit, TypeInv, TypeOK, CallerType, ConnType, Phases
<1>5. ASSUME NEW k \in Calls, Evict(k) PROVE Exclusive'
  <2>1. CASE queue = <<>>
    BY <1>5, <2>1, SameHands, Stay DEF Evict, NoNewFresh, Fresh, TypeInv, TypeOK, CallerType, ConnType, Phases
  <2>2. CASE queue # <<>>
    <3>1. hand'[Caller(k)] = Head(queue) /\ (\A f \in Goroutines \ {Caller(k)} : hand'[f] = hand[f]) /\ w' = w
      BY <1>5, <2>2 DEF Evict, TypeInv, TypeOK, CallerType, ConnType, Phases
    <3>2. Keeps(Caller(k)) /\ \A j \in Calls : Owns(Caller(k), j)' => j = Head(queue)
      BY <3>1, OneHand, HandFacts
    <3>3. queue' = Tail(queue) /\ UNCHANGED <<pending, closes>> /\ NoNewFresh
      BY <1>5, <2>2 DEF Evict, NoNewFresh, Fresh, TypeInv, TypeOK, CallerType, ConnType, Phases
    <3>4. QED
      BY <2>2, <3>2, <3>3, HandFacts, Take
  <2>3. QED
    BY <2>1, <2>2
<1>6. ASSUME NEW k \in Calls, DropEvicted(k) PROVE Exclusive'
  <2>1. hand'[Caller(k)] = NoCall /\ (\A f \in Goroutines \ {Caller(k)} : hand'[f] = hand[f]) /\ \A d \in Conns : Writer(d) # Caller(k) => (w'[d] = "have" <=> w[d] = "have")
    BY <1>6 DEF DropEvicted, TypeInv, TypeOK, CallerType, ConnType, Phases
  <2>2. Keeps(Caller(k)) /\ \A j \in Calls : ~Owns(Caller(k), j)'
    BY <2>1, OneHand, HandFacts, CallsAssumption
  <2>3. hand[Caller(k)] \in Calls /\ Owns(Caller(k), hand[Caller(k)])
    BY <1>6, HandFacts DEF DropEvicted, Owns, Caller, Writer, Reader, TypeInv, TypeOK, CallerType, ConnType, Phases
  <2>4. UNCHANGED <<queue, pending>> /\ NoNewFresh
    BY <1>6 DEF DropEvicted, NoNewFresh, Fresh, TypeInv, TypeOK, CallerType, ConnType, Phases
  <2>5. CASE CloseDone(hand[Caller(k)], "overflow")
    BY <2>2, <2>3, <2>4, <2>5, HandFacts, CloseHeld DEF CloseDone
  <2>6. CASE UNCHANGED <<outcome, closes>>
    <3>1. \A f \in Goroutines, j \in Calls : Owns(f, j)' => Owns(f, j)
      BY <2>1, HandFacts, EmptyHand
    <3>2. QED
      BY <2>4, <2>6, <3>1, Stay
  <2>7. QED
    BY <1>6, <2>5, <2>6 DEF DropEvicted, Discard, TypeInv, TypeOK, CallerType, ConnType, Phases
<1>7. ASSUME NEW k \in Calls, Retry(k) PROVE Exclusive'
  <2>1. hand' = hand /\ UNCHANGED <<pending, closes>> /\ \A d \in Conns : w'[d] = "have" => w[d] = "have"
    BY <1>7 DEF Retry, TypeInv, TypeOK, CallerType, ConnType, Phases
  <2>2. CASE Push(k)
    <3>1. cpc[k] \in Fresh /\ cpc'[k] \notin Fresh /\ NoNewFresh
      BY <1>7, <2>2 DEF Retry, Push, NoNewFresh, Fresh, TypeInv, TypeOK, CallerType, ConnType, Phases
    <3>2. QED
      BY <2>1, <2>2, <3>1, SameHands, Enqueue DEF Push
  <2>3. CASE Overflow(k)
    BY <1>7, <2>1, <2>3, SameHands, Stay DEF Retry, Overflow, NoNewFresh, Fresh, TypeInv, TypeOK, CallerType, ConnType, Phases
  <2>4. QED
    BY <1>7, <2>2, <2>3 DEF Retry, TypeInv, TypeOK, CallerType, ConnType, Phases
<1>8. ASSUME NEW k \in Calls, ReceiveDone(k) PROVE Exclusive'
  <2>1. hand' = hand /\ \A d \in Conns : w'[d] = "have" => w[d] = "have"
    BY <1>8 DEF ReceiveDone, TypeInv, TypeOK, CallerType, ConnType, Phases
  <2>2. UNCHANGED <<queue, pending, closes>> /\ NoNewFresh
    BY <1>8 DEF ReceiveDone, NoNewFresh, Fresh, TypeInv, TypeOK, CallerType, ConnType, Phases
  <2>3. QED
    BY <2>1, <2>2, SameHands, Stay
<1>9. ASSUME NEW k \in Calls, Timeout(k) PROVE Exclusive'
  <2>1. hand' = hand /\ \A d \in Conns : w'[d] = "have" => w[d] = "have"
    BY <1>9 DEF Timeout, TypeInv, TypeOK, CallerType, ConnType, Phases
  <2>2. UNCHANGED <<queue, pending, closes>> /\ NoNewFresh
    BY <1>9 DEF Timeout, NoNewFresh, Fresh, TypeInv, TypeOK, CallerType, ConnType, Phases
  <2>3. QED
    BY <2>1, <2>2, SameHands, Stay
<1>10. ASSUME NEW k \in Calls, Cancel(k) PROVE Exclusive'
  <2>1. hand' = hand /\ \A d \in Conns : w'[d] = "have" => w[d] = "have"
    BY <1>10 DEF Cancel, TypeInv, TypeOK, CallerType, ConnType, Phases
  <2>2. UNCHANGED <<queue, pending, closes>> /\ NoNewFresh
    BY <1>10 DEF Cancel, NoNewFresh, Fresh, TypeInv, TypeOK, CallerType, ConnType, Phases
  <2>3. QED
    BY <2>1, <2>2, SameHands, Stay
<1>11. ASSUME NEW c \in Conns, WriterTake(c) PROVE Exclusive'
  <2>1. hand'[Writer(c)] = Head(queue) /\ (\A f \in Goroutines \ {Writer(c)} : hand'[f] = hand[f]) /\ w' = [w EXCEPT ![c] = "have"]
    BY <1>11 DEF WriterTake, TypeInv, TypeOK, CallerType, ConnType, Phases
  <2>2. Keeps(Writer(c)) /\ \A j \in Calls : Owns(Writer(c), j)' => j = Head(queue)
    BY <2>1, OneHand, HandFacts
  <2>3. queue # <<>> /\ queue' = Tail(queue) /\ UNCHANGED <<pending, closes>> /\ NoNewFresh
    BY <1>11 DEF WriterTake, NoNewFresh, TypeInv, TypeOK, CallerType, ConnType, Phases
  <2>4. QED
    BY <2>2, <2>3, HandFacts, Take
<1>12. ASSUME NEW c \in Conns, WriterPoll(c) PROVE Exclusive'
  <2>1. hand' = hand /\ \A d \in Conns : w'[d] = "have" => w[d] = "have"
    BY <1>12 DEF WriterPoll, TypeInv, TypeOK, CallerType, ConnType, Phases
  <2>2. UNCHANGED <<queue, pending, closes>> /\ NoNewFresh
    BY <1>12 DEF WriterPoll, NoNewFresh, Fresh, TypeInv, TypeOK, CallerType, ConnType, Phases
  <2>3. QED
    BY <2>1, <2>2, SameHands, Stay
<1>13. ASSUME NEW c \in Conns, WriterStops(c) PROVE Exclusive'
  <2>1. hand' = hand /\ \A d \in Conns : w'[d] = "have" => w[d] = "have"
    BY <1>13 DEF WriterStops, TypeInv, TypeOK, CallerType, ConnType, Phases
  <2>2. UNCHANGED <<queue, pending, closes>> /\ NoNewFresh
    BY <1>13 DEF WriterStops, NoNewFresh, Fresh, TypeInv, TypeOK, CallerType, ConnType, Phases
  <2>3. QED
    BY <2>1, <2>2, SameHands, Stay
<1>14. ASSUME NEW c \in Conns, WriterFlush(c) PROVE Exclusive'
  <2>1. hand' = hand /\ \A d \in Conns : w'[d] = "have" => w[d] = "have"
    BY <1>14 DEF WriterFlush, WriteOut, TypeInv, TypeOK, CallerType, ConnType, Phases
  <2>2. UNCHANGED <<queue, pending, closes>> /\ NoNewFresh
    BY <1>14 DEF WriterFlush, WriteOut, NoNewFresh, Fresh, TypeInv, TypeOK, CallerType, ConnType, Phases
  <2>3. QED
    BY <2>1, <2>2, SameHands, Stay
<1>15. ASSUME NEW c \in Conns, WriterCanceled(c) PROVE Exclusive'
  <2>1. hand'[Writer(c)] = NoCall /\ (\A f \in Goroutines \ {Writer(c)} : hand'[f] = hand[f]) /\ \A d \in Conns : Writer(d) # Writer(c) => (w'[d] = "have" <=> w[d] = "have")
    BY <1>15 DEF WriterCanceled, TypeInv, TypeOK, CallerType, ConnType, Phases
  <2>2. Keeps(Writer(c)) /\ \A j \in Calls : ~Owns(Writer(c), j)'
    BY <2>1, OneHand, HandFacts, CallsAssumption
  <2>3. hand[Writer(c)] \in Calls /\ Owns(Writer(c), hand[Writer(c)])
    BY <1>15, HandFacts DEF WriterCanceled, Owns, Caller, Writer, Reader, TypeInv, TypeOK, CallerType, ConnType, Phases
  <2>4. UNCHANGED <<queue, pending>> /\ NoNewFresh
    BY <1>15 DEF WriterCanceled, NoNewFresh, Fresh, TypeInv, TypeOK, CallerType, ConnType, Phases
  <2>5. CASE CloseDone(hand[Writer(c)], "canceled")
    BY <2>2, <2>3, <2>4, <2>5, HandFacts, CloseHeld DEF CloseDone
  <2>6. CASE UNCHANGED <<outcome, closes>>
    <3>1. \A f \in Goroutines, j \in Calls : Owns(f, j)' => Owns(f, j)
      BY <2>1, HandFacts, EmptyHand
    <3>2. QED
      BY <2>4, <2>6, <3>1, Stay
  <2>7. QED
    BY <1>15, <2>5, <2>6 DEF WriterCanceled, Discard, TypeInv, TypeOK, CallerType, ConnType, Phases
<1>16. ASSUME NEW c \in Conns, WriterNoResponse(c) PROVE Exclusive'
  <2>1. hand' = hand /\ \A d \in Conns : w'[d] = "have" => w[d] = "have"
    BY <1>16 DEF WriterNoResponse, TypeInv, TypeOK, CallerType, ConnType, Phases
  <2>2. UNCHANGED <<queue, pending, closes>> /\ NoNewFresh
    BY <1>16 DEF WriterNoResponse, NoNewFresh, Fresh, TypeInv, TypeOK, CallerType, ConnType, Phases
  <2>3. QED
    BY <2>1, <2>2, SameHands, Stay
<1>17. ASSUME NEW c \in Conns, WriterRegister(c) PROVE Exclusive'
  <2> DEFINE m == hand[Writer(c)]
  <2>1. PICK i \in IDs : NextMsgID(c, i) /\ pending' = [pending EXCEPT ![c][i] = m]
    BY <1>17 DEF WriterRegister, TypeInv, TypeOK, CallerType, ConnType, Phases
  <2>2. pending[c][i] = NoCall
    BY <2>1 DEF NextMsgID, Taken
  <2>3. m \in Calls /\ w[c] = "have" /\ w'[c] # "have" /\ hand' = hand /\ \A d \in Conns \ {c} : w'[d] = w[d]
    BY <1>17, HandFacts DEF WriterRegister, TypeInv, TypeOK, CallerType, ConnType, Phases
  <2>4. Owns(Writer(c), m) /\ Keeps(Writer(c)) /\ \A j \in Calls : ~Owns(Writer(c), j)'
    BY <2>3 DEF Owns, Keeps, Writer, Goroutines
  <2>5. UNCHANGED <<queue, closes>> /\ NoNewFresh
    BY <1>17 DEF WriterRegister, NoNewFresh, TypeInv, TypeOK, CallerType, ConnType, Phases
  <2>6. pending'[c][i] = m /\ OneEntry(c, i)
    BY <2>1 DEF OneEntry, TypeInv, TypeOK, ConnType
  <2>7. QED
    BY <2>2, <2>3, <2>4, <2>5, <2>6, HandFacts, Register
<1>18. ASSUME NEW c \in Conns, WriterCount(c) PROVE Exclusive'
  <2>1. CASE w[c] = "count"
    BY <1>18, <2>1, SameHands, Stay DEF WriterCount, NoNewFresh, TypeInv, TypeOK, CallerType, ConnType, Phases
  <2>2. CASE w[c] = "leak"
    <3>1. hand'[Writer(c)] = NoCall /\ (\A f \in Goroutines \ {Writer(c)} : hand'[f] = hand[f]) /\ w' = [w EXCEPT ![c] = "done"]
      BY <1>18, <2>2 DEF WriterCount, TypeInv, TypeOK, CallerType, ConnType, Phases
    <3>2. Keeps(Writer(c)) /\ \A j \in Calls : ~Owns(Writer(c), j)'
      BY <3>1, OneHand, HandFacts, CallsAssumption
    <3>3. UNCHANGED <<queue, pending, closes>> /\ NoNewFresh
      BY <1>18 DEF WriterCount, NoNewFresh, TypeInv, TypeOK, CallerType, ConnType, Phases
    <3>4. \A f \in Goroutines, j \in Calls : Owns(f, j)' => Owns(f, j)
      BY <3>1, HandFacts, EmptyHand
    <3>5. QED
      BY <3>3, <3>4, Stay
  <2>3. QED
    BY <1>18, <2>1, <2>2 DEF WriterCount, TypeInv, TypeOK, CallerType, ConnType, Phases
<1>19. ASSUME NEW c \in Conns, WriterEncode(c) PROVE Exclusive'
  <2>1. hand'[Writer(c)] = NoCall /\ (\A f \in Goroutines \ {Writer(c)} : hand'[f] = hand[f]) /\ \A d \in Conns : Writer(d) # Writer(c) => (w'[d] = "have" <=> w[d] = "have")
    BY <1>19 DEF WriterEncode, WriteOut, TypeInv, TypeOK, CallerType, ConnType, Phases
  <2>2. Keeps(Writer(c)) /\ \A j \in Calls : ~Owns(Writer(c), j)'
    BY <2>1, OneHand, HandFacts, CallsAssumption
  <2>3. UNCHANGED <<queue, pending, closes>> /\ NoNewFresh
    BY <1>19 DEF WriterEncode, NoNewFresh, TypeInv, TypeOK, CallerType, ConnType, Phases
  <2>4. \A f \in Goroutines, j \in Calls : Owns(f, j)' => Owns(f, j)
    BY <2>1, HandFacts, EmptyHand
  <2>5. QED
    BY <2>3, <2>4, Stay
<1>20. ASSUME NEW c \in Conns, ReaderReceives(c) PROVE Exclusive'
  <2>1. PICK q \in IDs \X (Calls \cup {NoCall}) : ReaderLookup(c, q)
    BY <1>20, LookupFacts
  <2>2. hand'[Reader(c)] = pending[c][q[1]] /\ (\A f \in Goroutines \ {Reader(c)} : hand'[f] = hand[f]) /\ w' = w
    BY <2>1, HandFacts DEF ReaderLookup, TypeInv, TypeOK, CallerType
  <2>3. Keeps(Reader(c)) /\ \A j \in Calls : Owns(Reader(c), j)' => j = pending[c][q[1]]
    BY <2>2, OneHand, HandFacts
  <2>4. /\ q[1] \in IDs /\ pending'[c][q[1]] = NoCall /\ OneEntry(c, q[1])
        /\ UNCHANGED <<queue, closes>> /\ NoNewFresh
    BY <2>1 DEF ReaderLookup, NoNewFresh, OneEntry, TypeInv, TypeOK, ConnType
  <2>5. QED
    BY <2>3, <2>4, HandFacts, Lookup
<1>21. ASSUME NEW c \in Conns, ReaderComplete(c) PROVE Exclusive'
  <2>1. hand'[Reader(c)] = NoCall /\ (\A f \in Goroutines \ {Reader(c)} : hand'[f] = hand[f]) /\ w' = w
    BY <1>21 DEF ReaderComplete, TypeInv, TypeOK, CallerType, ConnType, Phases
  <2>2. Keeps(Reader(c)) /\ \A j \in Calls : ~Owns(Reader(c), j)'
    BY <2>1, OneHand, HandFacts, CallsAssumption
  <2>3. hand[Reader(c)] \in Calls /\ Owns(Reader(c), hand[Reader(c)])
    BY <1>21, HandFacts DEF ReaderComplete, Owns, Reader, TypeInv, TypeOK, CallerType, ConnType, Phases
  <2>4. UNCHANGED <<queue, pending>> /\ NoNewFresh /\ closes' = [closes EXCEPT ![hand[Reader(c)]] = @ + 1]
    BY <1>21 DEF ReaderComplete, CloseDone, NoNewFresh, TypeInv, TypeOK, CallerType, ConnType, Phases
  <2>5. QED
    BY <2>2, <2>3, <2>4, HandFacts, CloseHeld
<1>22. ASSUME NEW c \in Conns, ReaderFails(c) \/ ReaderSpins(c) PROVE Exclusive'
  <2>1. hand' = hand /\ \A d \in Conns : w'[d] = "have" => w[d] = "have"
    BY <1>22 DEF ReaderFails, ReaderSpins, TypeInv, TypeOK, CallerType, ConnType, Phases
  <2>2. UNCHANGED <<queue, pending, closes>> /\ NoNewFresh
    BY <1>22 DEF ReaderFails, ReaderSpins, NoNewFresh, Fresh, TypeInv, TypeOK, CallerType, ConnType, Phases
  <2>3. QED
    BY <2>1, <2>2, SameHands, Stay
<1>23. ASSUME NEW c \in Conns, HandlerDials(c) PROVE Exclusive'
  <2>1. hand' = hand /\ \A d \in Conns : w'[d] = "have" => w[d] = "have"
    BY <1>23 DEF HandlerDials, TypeInv, TypeOK, CallerType, ConnType, Phases
  <2>2. UNCHANGED <<queue, pending, closes>> /\ NoNewFresh
    BY <1>23 DEF HandlerDials, NoNewFresh, Fresh, TypeInv, TypeOK, CallerType, ConnType, Phases
  <2>3. QED
    BY <2>1, <2>2, SameHands, Stay
<1>24. ASSUME NEW c \in Conns, HandlerStops(c) PROVE Exclusive'
  <2>1. hand' = hand /\ \A d \in Conns : w'[d] = "have" => w[d] = "have"
    BY <1>24 DEF HandlerStops, TypeInv, TypeOK, CallerType, ConnType, Phases
  <2>2. UNCHANGED <<queue, pending, closes>> /\ NoNewFresh
    BY <1>24 DEF HandlerStops, NoNewFresh, Fresh, TypeInv, TypeOK, CallerType, ConnType, Phases
  <2>3. QED
    BY <2>1, <2>2, SameHands, Stay
<1>25. ASSUME NEW c \in Conns, HandlerConnects(c) PROVE Exclusive'
  <2>1. hand' = hand /\ \A d \in Conns : w'[d] = "have" => w[d] = "have"
    BY <1>25 DEF HandlerConnects, TypeInv, TypeOK, CallerType, ConnType, Phases
  <2>2. UNCHANGED <<queue, pending, closes>> /\ NoNewFresh
    BY <1>25 DEF HandlerConnects, NoNewFresh, Fresh, TypeInv, TypeOK, CallerType, ConnType, Phases
  <2>3. QED
    BY <2>1, <2>2, SameHands, Stay
<1>26. ASSUME NEW c \in Conns, HandlerRejected(c) PROVE Exclusive'
  <2>1. hand' = hand /\ \A d \in Conns : w'[d] = "have" => w[d] = "have"
    BY <1>26 DEF HandlerRejected, TypeInv, TypeOK, CallerType, ConnType, Phases
  <2>2. UNCHANGED <<queue, pending, closes>> /\ NoNewFresh
    BY <1>26 DEF HandlerRejected, NoNewFresh, Fresh, TypeInv, TypeOK, CallerType, ConnType, Phases
  <2>3. QED
    BY <2>1, <2>2, SameHands, Stay
<1>27. ASSUME NEW c \in Conns, HandlerCloses(c) PROVE Exclusive'
  <2>1. hand' = hand /\ \A d \in Conns : w'[d] = "have" => w[d] = "have"
    BY <1>27 DEF HandlerCloses, TypeInv, TypeOK, CallerType, ConnType, Phases
  <2>2. UNCHANGED <<queue, pending, closes>> /\ NoNewFresh
    BY <1>27 DEF HandlerCloses, NoNewFresh, Fresh, TypeInv, TypeOK, CallerType, ConnType, Phases
  <2>3. QED
    BY <2>1, <2>2, SameHands, Stay
<1>28. ASSUME NEW c \in Conns, NEW i \in IDs, HandlerFailsPending(c, i) PROVE Exclusive'
  <2>1. pending[c][i] \in Calls /\ hand' = hand /\ w' = w
    BY <1>28 DEF HandlerFailsPending, TypeInv, TypeOK, CallerType, ConnType, Phases
  <2>2. /\ pending' = [pending EXCEPT ![c][i] = NoCall] /\ UNCHANGED queue /\ NoNewFresh
        /\ closes' = [closes EXCEPT ![pending[c][i]] = @ + 1]
    BY <1>28 DEF HandlerFailsPending, CloseDone, NoNewFresh, TypeInv, TypeOK, CallerType, ConnType, Phases
  <2>3. QED
    BY <2>1, <2>2, SameHands, CloseEntry
<1>29. ASSUME NEW c \in Conns, HandlerEnds(c) PROVE Exclusive'
  <2>1. hand' = hand /\ \A d \in Conns : w'[d] = "have" => w[d] = "have"
    BY <1>29 DEF HandlerEnds, BothDone, TypeInv, TypeOK, CallerType, ConnType, Phases
  <2>2. UNCHANGED <<queue, pending, closes>> /\ NoNewFresh
    BY <1>29 DEF HandlerEnds, BothDone, NoNewFresh, Fresh, TypeInv, TypeOK, CallerType, ConnType, Phases
  <2>3. QED
    BY <2>1, <2>2, SameHands, Stay
<1>30. ASSUME NEW c \in Conns, HandlerLoops(c) PROVE Exclusive'
  <2>1. hand' = hand /\ \A d \in Conns : w'[d] = "have" => w[d] = "have"
    BY <1>30 DEF HandlerLoops, TypeInv, TypeOK, CallerType, ConnType, Phases
  <2>2. UNCHANGED <<queue, pending, closes>> /\ NoNewFresh
    BY <1>30 DEF HandlerLoops, NoNewFresh, Fresh, TypeInv, TypeOK, CallerType, ConnType, Phases
  <2>3. QED
    BY <2>1, <2>2, SameHands, Stay
<1>31. ASSUME NEW c \in Conns, LinkBreaks(c) PROVE Exclusive'
  <2>1. hand' = hand /\ \A d \in Conns : w'[d] = "have" => w[d] = "have"
    BY <1>31 DEF LinkBreaks, TypeInv, TypeOK, CallerType, ConnType, Phases
  <2>2. UNCHANGED <<queue, pending, closes>> /\ NoNewFresh
    BY <1>31 DEF LinkBreaks, NoNewFresh, Fresh, TypeInv, TypeOK, CallerType, ConnType, Phases
  <2>3. QED
    BY <2>1, <2>2, SameHands, Stay
<1>32. CASE UNCHANGED vars
  BY <1>32, SameHands, Stay DEF vars, NoNewFresh
<1>33. QED
  BY <1>1, <1>2, <1>3, <1>4, <1>5, <1>6, <1>7, <1>8, <1>9, <1>10, <1>11, <1>12, <1>13, <1>14, <1>15, <1>16, <1>17, <1>18, <1>19, <1>20, <1>21, <1>22, <1>23, <1>24, <1>25, <1>26, <1>27, <1>28, <1>29, <1>30, <1>31, <1>32 DEF Next, Finished, CallerNext, WriterNext, ReaderNext, HandlerNext

(* SingleOwner for every number of callers and connections, every queue    *)
(* capacity and whatever IDs a misbehaving server sends: callAsync,        *)
(* clientWriter, clientReader and clientHandleConnection never close a     *)
(* done channel twice and never touch an AsyncResult after closing it.     *)
THEOREM OneOwner == Spec => []SingleOwner
<1>1. Init => TypeInv /\ Exclusive
  BY TypeInit, ExclusiveInit
<1>2. TypeInv /\ Exclusive /\ [Next]_vars => (TypeInv /\ Exclusive)'
  BY TypeNext, ExclusiveNext
<1>3. TypeInv /\ Exclusive => SingleOwner
  BY ExclusiveImplies DEF TypeInv
<1>4. QED
  BY <1>1, <1>2, <1>3, PTL DEF Spec
=============================================================================
