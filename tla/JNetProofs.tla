----------------------------- MODULE JNetProofs -----------------------------
(***************************************************************************)
(* Proofs about the batching transport of pkg/net/jnet, for any number of  *)
(* Gets, connections and workers and any capacity of channels and batches. *)
(***************************************************************************)
EXTENDS JNet, FiniteSetTheorems, TLAPS

(* A first element exists and can be taken off. *)
LEMMA HeadFacts ==
  ASSUME NEW S, NEW q \in Seq(S), q # <<>>
  PROVE  /\ Head(q) \in S /\ Tail(q) \in Seq(S) /\ Head(q) = q[1]
         /\ Len(q) \in Nat \ {0} /\ Len(Tail(q)) = Len(q) - 1
         /\ \A i \in 1 .. Len(q) - 1 : Tail(q)[i] = q[i + 1]
OBVIOUS

(* What a sequence is after an element was appended. *)
LEMMA AppendFacts ==
  ASSUME NEW S, NEW q \in Seq(S), NEW e \in S
  PROVE  /\ Append(q, e) \in Seq(S) /\ Len(Append(q, e)) = Len(q) + 1 /\ Len(q) \in Nat
         /\ \A i \in 1 .. Len(q) : Append(q, e)[i] = q[i]
         /\ Append(q, e)[Len(q) + 1] = e
OBVIOUS

(* The same with a name for the new sequence. *)
LEMMA Appended ==
  ASSUME NEW S, NEW q \in Seq(S), NEW e \in S
  PROVE  \E r \in Seq(S) : r = Append(q, e) /\ Len(r) = Len(q) + 1 /\ r # <<>>
<1>1. Append(q, e) \in Seq(S) /\ Len(Append(q, e)) = Len(q) + 1
  OBVIOUS
<1>2. Append(q, e) # <<>>
  <2>1. Len(q) + 1 # 0 /\ Len(<<>>) = 0
    OBVIOUS
  <2> QED
    BY <1>1, <2>1, Zenon
<1> QED
  BY <1>1, <1>2, Zenon

(* A function keeps its type when a value of the type replaces another; an *)
(* argument outside its domain changes nothing.                            *)
LEMMA ExceptTypes ==
  ASSUME NEW S, NEW T, NEW f \in [S -> T], NEW i, NEW e, i \in S => e \in T
  PROVE  [f EXCEPT ![i] = e] \in [S -> T]
OBVIOUS

(* What inflightBatches holds for one connection. *)
BookEntry == [reqs : Seq(Gets), left : Nat]
Book      == UNION {[S -> BookEntry] : S \in SUBSET Nat}

Books == inflight \in [Queues -> Book]

(* How program counters and local variables go together: submitWorker has  *)
(* room in a batch that it collects and something in one that it flushes,  *)
(* and whoever waits to hand over a request has one.                       *)
Phases ==
  /\ \A q \in Queues :
       /\ sw[q] = "collect" => Len(requests[q]) < MaxBatchCount
       /\ sw[q] # "collect" => requests[q] # <<>>
       /\ sw[q] = "write" => nextCookie[q] > 0
       /\ handoff[q] # Nil => reqs[q] # <<>>
  /\ \A e \in Entries : epc[e] = "process" => ereq[e] \in Request

TypeInv == TypeOK /\ Books /\ Phases

(* What it means to be such a map. *)
LEMMA BookFacts ==
  ASSUME NEW f \in Book
  PROVE  /\ DOMAIN f \subseteq Nat /\ f \in [DOMAIN f -> BookEntry]
         /\ \A n \in DOMAIN f : f[n] \in BookEntry /\ f[n].reqs \in Seq(Gets) /\ f[n].left \in Nat
BY DEF Book, BookEntry

(* The map after flush has entered a batch. *)
Register(f, c, r) == [n \in DOMAIN f \cup {c} |->
                        IF n = c THEN [reqs |-> r, left |-> Len(r)] ELSE f[n]]

(* It has one entry more, with all of the batch to be answered. *)
LEMMA RegisterFacts ==
  ASSUME NEW f \in Book, NEW c \in Nat, NEW r \in Seq(Gets)
  PROVE  \E h \in Book : /\ h = Register(f, c, r) /\ DOMAIN h = DOMAIN f \cup {c}
                         /\ h[c].reqs = r /\ h[c].left = Len(r)
                         /\ \A n \in DOMAIN f : n # c => h[n] = f[n]
<1>1. [reqs |-> r, left |-> Len(r)] \in BookEntry
  BY DEF BookEntry
<1>2. DOMAIN f \cup {c} \subseteq Nat /\ Register(f, c, r) \in [DOMAIN f \cup {c} -> BookEntry]
  BY <1>1, BookFacts DEF Register
<1>3. /\ Register(f, c, r) \in Book /\ DOMAIN Register(f, c, r) = DOMAIN f \cup {c}
      /\ Register(f, c, r)[c].reqs = r /\ Register(f, c, r)[c].left = Len(r)
      /\ \A n \in DOMAIN f : n # c => Register(f, c, r)[n] = f[n]
  BY <1>2 DEF Book, Register
<1> QED
  BY <1>3, Zenon

(* recvWorker counts an answer: the entry goes with the last one. *)
LEMMA CountDownFacts ==
  ASSUME NEW f \in Book, NEW c \in DOMAIN f, f[c].left > 0
  PROVE  /\ CountDown(f, c) \in Book
         /\ DOMAIN CountDown(f, c) = IF f[c].left = 1 THEN DOMAIN f \ {c} ELSE DOMAIN f
         /\ \A n \in DOMAIN CountDown(f, c) :
              /\ CountDown(f, c)[n].reqs = f[n].reqs
              /\ CountDown(f, c)[n].left = IF n = c THEN f[n].left - 1 ELSE f[n].left
<1>1. /\ DOMAIN f \subseteq Nat /\ f \in [DOMAIN f -> BookEntry]
      /\ \A n \in DOMAIN f : f[n] \in BookEntry /\ f[n].reqs \in Seq(Gets) /\ f[n].left \in Nat
  BY BookFacts
<1>2. CASE f[c].left = 1
  <2>1. CountDown(f, c) = [n \in DOMAIN f \ {c} |-> f[n]]
    BY <1>2 DEF CountDown, Without, Restrict
  <2>2. CountDown(f, c) \in [DOMAIN f \ {c} -> BookEntry] /\ DOMAIN f \ {c} \in SUBSET Nat
    BY <1>1, <2>1
  <2>3. CountDown(f, c) \in Book
    BY <2>2 DEF Book
  <2> QED
    BY <1>2, <2>1, <2>3
<1>3. CASE f[c].left # 1
  <2>1. CountDown(f, c) = [f EXCEPT ![c] = [f[c] EXCEPT !.left = f[c].left - 1]]
    BY <1>3 DEF CountDown
  <2>2. /\ [f[c] EXCEPT !.left = f[c].left - 1] \in BookEntry
        /\ [f[c] EXCEPT !.left = f[c].left - 1].reqs = f[c].reqs
        /\ [f[c] EXCEPT !.left = f[c].left - 1].left = f[c].left - 1
    BY <1>1, <1>3 DEF BookEntry
  <2>3. CountDown(f, c) \in [DOMAIN f -> BookEntry] /\ DOMAIN f \in SUBSET Nat
    BY <1>1, <2>1, <2>2
  <2>4. CountDown(f, c) \in Book
    BY <2>3 DEF Book
  <2> QED
    BY <1>1, <1>3, <2>1, <2>2, <2>4
<1> QED
  BY <1>2, <1>3

(* Before the first Get. *)
LEMMA JNetInit == Init => TypeInv /\ ReadyMeansFree
<1> SUFFICES ASSUME Init PROVE TypeInv /\ ReadyMeansFree
  OBVIOUS
<1>1. TypeOK
  BY JNetAssumption DEF Init, TypeOK
<1>2. <<>> \in Book
  <2>1. <<>> \in [{} -> BookEntry]
    OBVIOUS
  <2> QED
    BY <2>1 DEF Book
<1>3. Books
  BY <1>2 DEF Init, Books
<1>4. Phases
  BY JNetAssumption DEF Init, Phases
<1>5. ReadyMeansFree
  BY DEF Init, ReadyMeansFree, IsInjective, Range
<1> QED
  BY <1>1, <1>3, <1>4, <1>5 DEF TypeInv

(* Every step keeps the types. *)
LEMMA NextTypes == TypeInv /\ [Next]_vars => TypeInv'
<1> SUFFICES ASSUME TypeInv, [Next]_vars PROVE TypeInv'
  OBVIOUS
<1> USE JNetAssumption DEF clientVars, serverVars
<1>1. ASSUME NEW g \in Gets, Submit(g) PROVE TypeInv'
  <2>1. /\ reqCH' \in [Queues -> Seq(Gets)] /\ pc' \in [Gets -> {"idle", "wait", "returned"}]
        /\ \A q \in Queues : Len(reqCH'[q]) <= ChanSize
    BY <1>1, AppendFacts, SMTT(30) DEF TypeInv, TypeOK, Submit
  <2> QED
    BY <1>1, <2>1 DEF TypeInv, TypeOK, Books, Phases, Submit
<1>2. ASSUME NEW g \in Gets, GetReturns(g) PROVE TypeInv'
  BY <1>2 DEF TypeInv, TypeOK, Books, Phases, GetReturns
<1>3. ASSUME NEW q \in Queues, Collect(q) PROVE TypeInv'
  <2>1. /\ reqCH[q] \in Seq(Gets) /\ requests[q] \in Seq(Gets) /\ reqCH[q] # <<>>
        /\ sw[q] = "collect" /\ Len(requests[q]) < MaxBatchCount /\ Len(reqCH[q]) <= ChanSize
    BY <1>3 DEF TypeInv, TypeOK, Phases, Collect
  <2>2. /\ Head(reqCH[q]) \in Gets /\ Tail(reqCH[q]) \in Seq(Gets)
        /\ Len(Tail(reqCH[q])) <= ChanSize
    BY <2>1, HeadFacts
  <2>0. /\ reqCH \in [Queues -> Seq(Gets)] /\ requests \in [Queues -> Seq(Gets)]
        /\ sw \in [Queues -> {"collect", "register", "write"}]
        /\ \A p \in Queues : Len(reqCH[p]) <= ChanSize /\ Len(requests[p]) <= MaxBatchCount
    BY DEF TypeInv, TypeOK
  <2>3. PICK r \in Seq(Gets) : /\ r = Append(requests[q], Head(reqCH[q]))
                               /\ Len(r) = Len(requests[q]) + 1 /\ r # <<>>
    BY <2>1, <2>2, Appended
  <2>4. /\ reqCH' = [reqCH EXCEPT ![q] = Tail(reqCH[q])]
        /\ requests' = [requests EXCEPT ![q] = r]
        /\ sw' = [sw EXCEPT ![q] = IF Len(r) >= MaxBatchCount THEN "register" ELSE sw[q]]
    <3>1. requests' = [requests EXCEPT ![q] = r]
      BY <1>3, <2>3 DEF Collect
    <3>2. requests'[q] = r
      BY <3>1 DEF TypeInv, TypeOK
    <3> QED
      BY <1>3, <3>1, <3>2 DEF Collect, Enough
  <2>5. /\ reqCH' \in [Queues -> Seq(Gets)] /\ requests' \in [Queues -> Seq(Gets)]
        /\ sw' \in [Queues -> {"collect", "register", "write"}]
        /\ \A p \in Queues : Len(reqCH'[p]) <= ChanSize /\ Len(requests'[p]) <= MaxBatchCount
    <3>1. Len(r) <= MaxBatchCount
      BY <2>1, <2>3
    <3> QED
      BY <2>0, <2>2, <3>1, <2>4
  <2>6. TypeOK'
    BY <1>3, <2>5 DEF TypeInv, TypeOK, Collect
  <2>7. Phases'
    <3>1. /\ sw'[q] = "collect" => Len(requests'[q]) < MaxBatchCount
          /\ sw'[q] # "collect" => requests'[q] # <<>>
      <4>1. requests'[q] = r /\ sw'[q] = IF Len(r) >= MaxBatchCount THEN "register" ELSE "collect"
        BY <2>0, <2>1, <2>4
      <4>2. Len(r) \in Nat
        OBVIOUS
      <4> QED
        BY <2>3, <4>1, <4>2
    <3>2. \A p \in Queues : p # q => sw'[p] = sw[p] /\ requests'[p] = requests[p]
      BY <2>4 DEF TypeInv, TypeOK
    <3> QED
      BY <1>3, <3>1, <3>2 DEF TypeInv, Phases, Collect
  <2> QED
    BY <1>3, <2>6, <2>7 DEF TypeInv, Books, Collect
<1>4. ASSUME NEW q \in Queues, Tick(q) PROVE TypeInv'
  BY <1>4 DEF TypeInv, TypeOK, Books, Phases, Tick
<1>5. ASSUME NEW q \in Queues, FlushRegisters(q) PROVE TypeInv'
  <2>1. /\ inflight[q] \in Book /\ nextCookie[q] \in Nat /\ requests[q] \in Seq(Gets)
        /\ Len(requests[q]) \in 1 .. MaxBatchCount
    BY <1>5 DEF TypeInv, TypeOK, Phases, Books, FlushRegisters
  <2>2. PICK h \in Book :
          /\ inflight' = [inflight EXCEPT ![q] = h]
          /\ DOMAIN h = DOMAIN inflight[q] \cup {nextCookie[q]}
          /\ h[nextCookie[q]].left = Len(requests[q])
          /\ \A n \in DOMAIN inflight[q] : n # nextCookie[q] => h[n] = inflight[q][n]
    <3>1. inflight' = [inflight EXCEPT ![q] = Register(inflight[q], nextCookie[q], requests[q])]
      BY <1>5 DEF FlushRegisters, Register
    <3>2. PICK f \in Book, c \in Nat, r \in Seq(Gets) :
            f = inflight[q] /\ c = nextCookie[q] /\ r = requests[q]
      BY <2>1
    <3>3. PICK h \in Book : /\ h = Register(f, c, r) /\ DOMAIN h = DOMAIN f \cup {c}
                            /\ h[c].reqs = r /\ h[c].left = Len(r)
                            /\ \A n \in DOMAIN f : n # c => h[n] = f[n]
      BY RegisterFacts, ZenonT(40)
    <3>4. /\ inflight' = [inflight EXCEPT ![q] = h]
          /\ DOMAIN h = DOMAIN inflight[q] \cup {nextCookie[q]}
          /\ h[nextCookie[q]].left = Len(requests[q])
          /\ \A n \in DOMAIN inflight[q] : n # nextCookie[q] => h[n] = inflight[q][n]
      BY <3>1, <3>2, <3>3, Zenon
    <3> QED
      BY <3>4, Zenon
  <2>3. /\ inflight' \in [Queues -> Book] /\ inflight'[q] = h
        /\ \A p \in Queues : p # q => inflight'[p] = inflight[p]
    BY <2>2 DEF TypeInv, Books
  <2>4. \A p \in Queues : \A n \in DOMAIN inflight'[p] : inflight'[p][n].left \in 1 .. MaxBatchCount
    <3> TAKE p \in Queues
    <3>1. CASE p = q
      <4>1. \A n \in DOMAIN inflight[q] : inflight[q][n].left \in 1 .. MaxBatchCount
        BY DEF TypeInv, TypeOK
      <4> QED
        BY <2>1, <2>2, <2>3, <3>1, <4>1
    <3>2. CASE p # q
      BY <2>3, <3>2 DEF TypeInv, TypeOK
    <3> QED
      BY <3>1, <3>2
  <2>5. /\ sw' \in [Queues -> {"collect", "register", "write"}] /\ nextCookie' \in [Queues -> Nat]
        /\ sw' = [sw EXCEPT ![q] = "write"]
    BY <1>5 DEF TypeInv, TypeOK, FlushRegisters
  <2>6. TypeOK'
    BY <1>5, <2>4, <2>5 DEF TypeInv, TypeOK, FlushRegisters
  <2>7. Phases'
    <3>1. nextCookie'[q] > 0 /\ \A p \in Queues : p # q => nextCookie'[p] = nextCookie[p]
      BY <1>5, <2>1 DEF TypeInv, TypeOK, FlushRegisters
    <3> QED
      BY <1>5, <2>5, <3>1 DEF TypeInv, TypeOK, Phases, FlushRegisters
  <2> QED
    BY <2>3, <2>6, <2>7 DEF TypeInv, Books
<1>6. ASSUME NEW q \in Queues, FlushWrites(q) PROVE TypeInv'
  <2>1. [cookie |-> nextCookie[q] - 1, gets |-> requests[q]] \in Batch
    BY <1>6 DEF TypeInv, TypeOK, Phases, Batch, FlushWrites
  <2>2. c2s' \in [Queues -> Seq(Batch)]
    BY <1>6, <2>1, AppendFacts DEF TypeInv, TypeOK, FlushWrites
  <2>3. /\ sw' = [sw EXCEPT ![q] = "collect"] /\ requests' = [requests EXCEPT ![q] = <<>>]
    BY <1>6 DEF FlushWrites
  <2>4. /\ requests' \in [Queues -> Seq(Gets)] /\ \A p \in Queues : Len(requests'[p]) <= MaxBatchCount
        /\ sw' \in [Queues -> {"collect", "register", "write"}]
    BY <2>3 DEF TypeInv, TypeOK
  <2>5. TypeOK'
    BY <1>6, <2>2, <2>4 DEF TypeInv, TypeOK, FlushWrites
  <2>6. Phases'
    <3>1. \A p \in Queues : p # q => sw'[p] = sw[p] /\ requests'[p] = requests[p]
      BY <2>3 DEF TypeInv, TypeOK
    <3>2. sw'[q] = "collect" /\ Len(requests'[q]) < MaxBatchCount
      BY <2>3 DEF TypeInv, TypeOK
    <3> QED
      BY <1>6, <3>1, <3>2 DEF TypeInv, Phases, FlushWrites
  <2> QED
    BY <1>6, <2>5, <2>6 DEF TypeInv, Books, FlushWrites
<1>7. ASSUME NEW q \in Queues, RecvResponses(q) PROVE TypeInv'
  <2>1. /\ Head(s2c[q]) \in Seq(Response) /\ Tail(s2c[q]) \in Seq(Seq(Response))
    BY <1>7, HeadFacts DEF TypeInv, TypeOK, RecvResponses
  <2>2. rresps' \in [Queues -> Seq(Response)] /\ s2c' \in [Queues -> Seq(Seq(Response))]
    BY <1>7, <2>1 DEF TypeInv, TypeOK, RecvResponses
  <2> QED
    BY <1>7, <2>2 DEF TypeInv, TypeOK, Books, Phases, RecvResponses
<1>8. ASSUME NEW q \in Queues, Deliver(q) PROVE TypeInv'
  <2> DEFINE resp == Head(rresps[q])
             g    == inflight[q][resp.batchId].reqs[resp.idx]
  <2>1. resp \in Response /\ Tail(rresps[q]) \in Seq(Response)
    BY <1>8, HeadFacts DEF TypeInv, TypeOK, Deliver
  <2>2. rresps' \in [Queues -> Seq(Response)]
    BY <1>8, <2>1 DEF TypeInv, TypeOK, Deliver
  <2>3. CASE resp.batchId \in DOMAIN inflight[q]
    <3>1. /\ inflight' = [inflight EXCEPT ![q] = CountDown(inflight[q], resp.batchId)]
          /\ got' = [got EXCEPT ![g] = resp] /\ closed' = [closed EXCEPT ![g] = closed[g] + 1]
      BY <1>8, <2>3 DEF Deliver
    <3>2. /\ inflight[q] \in Book
          /\ \A n \in DOMAIN inflight[q] : inflight[q][n].left \in 1 .. MaxBatchCount
      BY DEF TypeInv, TypeOK, Books
    <3>3. PICK h \in Book :
            /\ h = CountDown(inflight[q], resp.batchId)
            /\ DOMAIN h \subseteq DOMAIN inflight[q]
            /\ \A n \in DOMAIN h : h[n].left \in 1 .. MaxBatchCount
      <4>1. inflight[q][resp.batchId].left > 0
        BY <2>3, <3>2
      <4>2. /\ CountDown(inflight[q], resp.batchId) \in Book
            /\ DOMAIN CountDown(inflight[q], resp.batchId) =
                 IF inflight[q][resp.batchId].left = 1 THEN DOMAIN inflight[q] \ {resp.batchId}
                                                       ELSE DOMAIN inflight[q]
            /\ \A n \in DOMAIN CountDown(inflight[q], resp.batchId) :
                 CountDown(inflight[q], resp.batchId)[n].left =
                   IF n = resp.batchId THEN inflight[q][n].left - 1 ELSE inflight[q][n].left
        BY <2>3, <3>2, <4>1, CountDownFacts, ZenonT(40)
      <4>3. \A n \in DOMAIN CountDown(inflight[q], resp.batchId) :
              CountDown(inflight[q], resp.batchId)[n].left \in 1 .. MaxBatchCount
        BY <3>2, <4>2
      <4> QED
        BY <4>2, <4>3
    <3>4. inflight' \in [Queues -> Book] /\ \A p \in Queues : inflight'[p] = IF p = q THEN h ELSE inflight[p]
      BY <3>1, <3>3 DEF TypeInv, Books
    <3>5. \A p \in Queues : \A n \in DOMAIN inflight'[p] : inflight'[p][n].left \in 1 .. MaxBatchCount
      BY <3>3, <3>4 DEF TypeInv, TypeOK
    <3>6. got' \in [Gets -> Response \cup {Nil}]
      <4>1. got \in [Gets -> Response \cup {Nil}]
        BY DEF TypeInv, TypeOK
      <4> QED
        BY <2>1, <3>1, <4>1, ExceptTypes
    <3>7. closed' \in [Gets -> Nat]
      <4>1. closed \in [Gets -> Nat]
        BY DEF TypeInv, TypeOK
      <4>2. g \in Gets => closed[g] + 1 \in Nat
        BY <4>1, SMTT(30)
      <4>3. \A x, y : (x \in Gets => y \in Nat) => [closed EXCEPT ![x] = y] \in [Gets -> Nat]
        BY <4>1, ExceptTypes
      <4> QED
        BY <3>1, <4>2, <4>3, Zenon
    <3>8. TypeOK'
      BY <1>8, <2>2, <3>5, <3>6, <3>7 DEF TypeInv, TypeOK, Deliver
    <3>9. Phases'
      BY <1>8 DEF TypeInv, Phases, Deliver
    <3> QED
      BY <3>4, <3>8, <3>9 DEF TypeInv, Books
  <2>4. CASE resp.batchId \notin DOMAIN inflight[q]
    <3>1. inflight' = inflight /\ got' = got /\ closed' = closed
      BY <1>8, <2>4 DEF Deliver
    <3> QED
      BY <1>8, <2>2, <3>1 DEF TypeInv, TypeOK, Books, Phases, Deliver
  <2> QED
    BY <2>3, <2>4
<1>9. ASSUME NEW q \in Queues, RecvRequests(q) PROVE TypeInv'
  <2> DEFINE bt == Head(c2s[q])
             rs == [n \in 1 .. Len(bt.gets) |->
                      [get |-> bt.gets[n], queue |-> q, batchId |-> bt.cookie, idx |-> n]]
  <2>1. bt \in Batch /\ Tail(c2s[q]) \in Seq(Batch)
    BY <1>9, HeadFacts DEF TypeInv, TypeOK, RecvRequests
  <2>2. rs \in Seq(Request)
    <3>1. bt.gets \in Seq(Gets) /\ bt.cookie \in Nat
      BY <2>1 DEF Batch
    <3>2. rs \in [1 .. Len(bt.gets) -> Request] /\ Len(bt.gets) \in Nat
      BY <3>1 DEF Request
    <3> QED
      BY <3>2
  <2>3. reqs' = [reqs EXCEPT ![q] = rs] /\ c2s' = [c2s EXCEPT ![q] = Tail(c2s[q])]
    BY <1>9 DEF RecvRequests
  <2> HIDE DEF bt, rs
  <2>4. reqs' \in [Queues -> Seq(Request)] /\ c2s' \in [Queues -> Seq(Batch)]
    BY <2>1, <2>2, <2>3 DEF TypeInv, TypeOK
  <2>5. TypeOK'
    BY <1>9, <2>4 DEF TypeInv, TypeOK, RecvRequests
  <2>6. Phases'
    <3>1. \A p \in Queues : p # q => reqs'[p] = reqs[p]
      BY <2>3 DEF TypeInv, TypeOK
    <3>2. handoff[q] = Nil
      BY <1>9 DEF RecvRequests
    <3> QED
      BY <1>9, <3>1, <3>2 DEF TypeInv, Phases, RecvRequests
  <2> QED
    BY <1>9, <2>5, <2>6 DEF TypeInv, Books, RecvRequests
<1>10. ASSUME NEW q \in Queues, SubmitReady(q) PROVE TypeInv'
  <2>1. ready \in Seq(Entries) /\ ready # <<>> /\ Len(ready) \in Nat \ {0}
    BY <1>10 DEF TypeInv, TypeOK, SubmitReady
  <2>2. ready[Len(ready)] \in Entries /\ SubSeq(ready, 1, Len(ready) - 1) \in Seq(Entries)
    BY <2>1
  <2>3. handoff' \in [Queues -> Entries \cup {Nil}] /\ ready' \in Seq(Entries)
    BY <1>10, <2>2 DEF TypeInv, TypeOK, SubmitReady
  <2> QED
    BY <1>10, <2>3 DEF TypeInv, TypeOK, Books, Phases, SubmitReady
<1>11. ASSUME NEW q \in Queues, NEW e \in Entries, Run(e, q), reqs[q] # <<>>
       PROVE  /\ epc' \in [Entries -> {"off", "recv", "process", "done"}]
              /\ ereq' \in [Entries -> Request \cup {Nil}] /\ reqs' \in [Queues -> Seq(Request)]
              /\ \A x \in Entries : epc'[x] = "process" => x = e \/ epc[x] = "process"
              /\ \A x \in Entries : x # e => ereq'[x] = ereq[x]
              /\ ereq'[e] \in Request
              /\ \A p \in Queues : p # q => reqs'[p] = reqs[p]
  <2>1. Head(reqs[q]) \in Request /\ Tail(reqs[q]) \in Seq(Request)
    BY <1>11, HeadFacts DEF TypeInv, TypeOK
  <2> QED
    BY <1>11, <2>1 DEF TypeInv, TypeOK, Run
<1>12. ASSUME NEW q \in Queues, SubmitNew(q) PROVE TypeInv'
  <2>1. PICK e \in Entries : Run(e, q)
    BY <1>12 DEF SubmitNew
  <2>2. reqs[q] # <<>> /\ handoff[q] = Nil
    BY <1>12 DEF SubmitNew
  <2>3. TypeOK'
    BY <1>11, <1>12, <2>1, <2>2 DEF TypeInv, TypeOK, SubmitNew
  <2>4. Phases'
    BY <1>11, <1>12, <2>1, <2>2 DEF TypeInv, Phases, SubmitNew
  <2> QED
    BY <1>12, <2>3, <2>4 DEF TypeInv, Books, SubmitNew
<1>13. ASSUME NEW q \in Queues, HandOver(q) PROVE TypeInv'
  <2>1. /\ handoff[q] \in Entries /\ reqs[q] # <<>> /\ Run(handoff[q], q)
    BY <1>13 DEF TypeInv, TypeOK, Phases, HandOver
  <2>2. /\ handoff' \in [Queues -> Entries \cup {Nil}] /\ handoff'[q] = Nil
        /\ \A p \in Queues : p # q => handoff'[p] = handoff[p]
    BY <1>13 DEF TypeInv, TypeOK, HandOver
  <2>3. TypeOK'
    BY <1>11, <1>13, <2>1, <2>2 DEF TypeInv, TypeOK, HandOver
  <2>4. Phases'
    <3>1. \A p \in Queues : handoff'[p] # Nil => p # q /\ handoff[p] # Nil /\ reqs'[p] = reqs[p]
      BY <1>11, <2>1, <2>2
    <3>2. \A x \in Entries : epc'[x] = "process" => ereq'[x] \in Request
      BY <1>11, <2>1 DEF TypeInv, Phases
    <3> QED
      BY <1>13, <3>1, <3>2 DEF TypeInv, Phases, HandOver
  <2> QED
    BY <1>13, <2>3, <2>4 DEF TypeInv, Books, HandOver
<1>14. ASSUME NEW q \in Queues, CollectResponse(q) PROVE TypeInv'
  <2>1. /\ respCH[q] \in Seq(Response) /\ resps[q] \in Seq(Response) /\ respCH[q] # <<>>
        /\ Len(resps[q]) <= MaxBatchCount /\ Len(respCH[q]) <= ChanSize
    BY <1>14 DEF TypeInv, TypeOK, CollectResponse, BatchFull
  <2>2. /\ Head(respCH[q]) \in Response /\ Tail(respCH[q]) \in Seq(Response)
        /\ Len(Tail(respCH[q])) <= ChanSize
    BY <2>1, HeadFacts
  <2>3. PICK r \in Seq(Response) : r = Append(resps[q], Head(respCH[q])) /\ Len(r) <= MaxBatchCount + 1
    <3>1. PICK r \in Seq(Response) : r = Append(resps[q], Head(respCH[q])) /\ Len(r) = Len(resps[q]) + 1
      BY <2>1, <2>2, Appended
    <3>2. Len(r) <= MaxBatchCount + 1
      BY <2>1, <3>1
    <3> QED
      BY <3>1, <3>2, Zenon
  <2>4. respCH' = [respCH EXCEPT ![q] = Tail(respCH[q])] /\ resps' = [resps EXCEPT ![q] = r]
    BY <1>14, <2>3 DEF CollectResponse
  <2>5. /\ respCH' \in [Queues -> Seq(Response)] /\ resps' \in [Queues -> Seq(Response)]
        /\ \A p \in Queues : Len(respCH'[p]) <= ChanSize /\ Len(resps'[p]) <= MaxBatchCount + 1
    BY <2>2, <2>3, <2>4 DEF TypeInv, TypeOK
  <2> QED
    BY <1>14, <2>5 DEF TypeInv, TypeOK, Books, Phases, CollectResponse
<1>15. ASSUME NEW q \in Queues, FlushResponses(q) PROVE TypeInv'
  <2>1. Cardinality({n \in DOMAIN resps[q] : resps[q][n].err}) \in Nat
    <3>1. DOMAIN resps[q] = 1 .. Len(resps[q]) /\ Len(resps[q]) \in Nat
      BY DEF TypeInv, TypeOK
    <3>2. IsFiniteSet(1 .. Len(resps[q]))
      BY <3>1, FS_Interval
    <3>3. IsFiniteSet({n \in DOMAIN resps[q] : resps[q][n].err})
      BY <3>1, <3>2, FS_Subset
    <3> QED
      BY <3>3, FS_CardinalityType
  <2>2. stale' \in Nat
    BY <1>15, <2>1, SMTT(30) DEF TypeInv, TypeOK, FlushResponses
  <2>3. /\ resps' = [resps EXCEPT ![q] = <<>>] /\ s2c' = [s2c EXCEPT ![q] = Append(s2c[q], resps[q])]
    BY <1>15 DEF FlushResponses
  <2>4. /\ resps' \in [Queues -> Seq(Response)] /\ s2c' \in [Queues -> Seq(Seq(Response))]
        /\ \A p \in Queues : Len(resps'[p]) <= MaxBatchCount + 1
    <3>1. /\ resps \in [Queues -> Seq(Response)] /\ s2c \in [Queues -> Seq(Seq(Response))]
          /\ \A p \in Queues : Len(resps[p]) <= MaxBatchCount + 1
      BY DEF TypeInv, TypeOK
    <3>2. Append(s2c[q], resps[q]) \in Seq(Seq(Response))
      BY <3>1, AppendFacts
    <3> QED
      BY <2>3, <3>1, <3>2
  <2> QED
    BY <1>15, <2>2, <2>4 DEF TypeInv, TypeOK, Books, Phases, FlushResponses
<1>16. ASSUME NEW e \in Entries, ProcessRequest(e) PROVE TypeInv'
  <2>1. ereq[e] \in Request /\ ereq[e].queue \in Queues /\ Len(respCH[ereq[e].queue]) < ChanSize
    BY <1>16 DEF TypeInv, Phases, ProcessRequest, Request
  <2>2. PICK dirty \in BOOLEAN :
          /\ dirty => stale > 0
          /\ stale' = IF dirty THEN stale - 1 ELSE stale
          /\ respCH' = [respCH EXCEPT ![ereq[e].queue] =
               Append(respCH[ereq[e].queue], Answer(ereq[e], dirty \/ ereq[e].get \in Invalid))]
    BY <1>16 DEF ProcessRequest
  <2>3. Answer(ereq[e], dirty \/ ereq[e].get \in Invalid) \in Response
    BY <2>1 DEF Answer, Request, Response
  <2>4. PICK r \in Seq(Response) :
          /\ r = Append(respCH[ereq[e].queue], Answer(ereq[e], dirty \/ ereq[e].get \in Invalid))
          /\ Len(r) <= ChanSize
    <3>1. respCH[ereq[e].queue] \in Seq(Response)
      BY <2>1 DEF TypeInv, TypeOK
    <3>2. PICK r \in Seq(Response) :
            /\ r = Append(respCH[ereq[e].queue], Answer(ereq[e], dirty \/ ereq[e].get \in Invalid))
            /\ Len(r) = Len(respCH[ereq[e].queue]) + 1
      BY <2>3, <3>1, Appended, ZenonT(40)
    <3>3. Len(r) <= ChanSize
      BY <2>1, <3>1, <3>2
    <3> QED
      BY <3>2, <3>3, Zenon
  <2>5. /\ respCH' \in [Queues -> Seq(Response)] /\ \A p \in Queues : Len(respCH'[p]) <= ChanSize
    BY <2>1, <2>2, <2>4 DEF TypeInv, TypeOK
  <2>6. stale' \in Nat
    BY <2>2 DEF TypeInv, TypeOK
  <2>7. /\ epc' \in [Entries -> {"off", "recv", "process", "done"}]
        /\ ereq' \in [Entries -> Request \cup {Nil}]
        /\ \A x \in Entries : epc'[x] = "process" => epc[x] = "process" /\ ereq'[x] = ereq[x]
    BY <1>16 DEF TypeInv, TypeOK, ProcessRequest
  <2>8. TypeOK'
    BY <1>16, <2>5, <2>6, <2>7 DEF TypeInv, TypeOK, ProcessRequest
  <2>9. Phases'
    BY <1>16, <2>7 DEF TypeInv, Phases, ProcessRequest
  <2> QED
    BY <1>16, <2>8, <2>9 DEF TypeInv, Books, ProcessRequest
<1>17. ASSUME NEW e \in Entries, BecomeReady(e) PROVE TypeInv'
  <2>1. /\ ready' \in Seq(Entries) /\ epc' \in [Entries -> {"off", "recv", "process", "done"}]
        /\ \A x \in Entries : epc'[x] = "process" => epc[x] = "process"
    BY <1>17, AppendFacts DEF TypeInv, TypeOK, BecomeReady
  <2> QED
    BY <1>17, <2>1 DEF TypeInv, TypeOK, Books, Phases, BecomeReady
<1>18. CASE UNCHANGED vars
  BY <1>18 DEF TypeInv, TypeOK, Books, Phases, vars
<1> QED
  BY <1>1, <1>2, <1>3, <1>4, <1>5, <1>6, <1>7, <1>8, <1>9, <1>10, <1>12, <1>13, <1>14, <1>15,
     <1>16, <1>17, <1>18 DEF Next, ClientNext, BackendNext, WorkerNext, Finished

(* ReadyMeansFree, by the positions in ready. *)
ReadyAt ==
  /\ \A i \in 1 .. Len(ready) : epc[ready[i]] = "recv"
  /\ \A i, j \in 1 .. Len(ready) : ready[i] = ready[j] => i = j
  /\ \A q \in Queues : handoff[q] # Nil =>
       /\ epc[handoff[q]] = "recv" /\ \A i \in 1 .. Len(ready) : ready[i] # handoff[q]
       /\ \A p \in Queues : handoff[p] = handoff[q] => p = q

(* The two say the same. *)
LEMMA ReadySame == TypeOK => (ReadyMeansFree <=> ReadyAt)
<1> SUFFICES ASSUME TypeOK PROVE ReadyMeansFree <=> ReadyAt
  OBVIOUS
<1>1. DOMAIN ready = 1 .. Len(ready)
  BY DEF TypeOK
<1> QED
  BY <1>1 DEF ReadyMeansFree, ReadyAt, IsInjective, Range

(* WorkerPool keeps its list of ready workers: a worker enters it when it  *)
(* has nothing to do, and Submit takes it off before it gives it a request. *)
LEMMA NextReady == TypeInv /\ ReadyAt /\ [Next]_vars => ReadyAt'
<1> SUFFICES ASSUME TypeInv, ReadyAt, [Next]_vars PROVE ReadyAt'
  OBVIOUS
<1>0. /\ ready \in Seq(Entries) /\ handoff \in [Queues -> Entries \cup {Nil}]
      /\ epc \in [Entries -> {"off", "recv", "process", "done"}]
      /\ Len(ready) \in Nat /\ Nil \notin Entries
      /\ \A i \in 1 .. Len(ready) : ready[i] \in Entries
  BY JNetAssumption DEF TypeInv, TypeOK
<1>1. ASSUME NEW q \in Queues, SubmitReady(q) PROVE ReadyAt'
  <2>1. PICK n \in Nat : n = Len(ready) /\ n > 0
    BY <1>0, <1>1 DEF SubmitReady
  <2>2. PICK r \in Seq(Entries) : /\ r = SubSeq(ready, 1, n - 1) /\ Len(r) = n - 1
                                  /\ \A i \in 1 .. n - 1 : r[i] = ready[i]
    <3>1. /\ SubSeq(ready, 1, n - 1) \in Seq(Entries) /\ Len(SubSeq(ready, 1, n - 1)) = n - 1
          /\ \A i \in 1 .. n - 1 : SubSeq(ready, 1, n - 1)[i] = ready[i]
      BY <1>0, <2>1
    <3> QED
      BY <3>1, Zenon
  <2>3. ready' = r /\ handoff' = [handoff EXCEPT ![q] = ready[n]] /\ epc' = epc
    BY <1>1, <2>1, <2>2 DEF SubmitReady
  <2>4. ready[n] \in Entries /\ epc[ready[n]] = "recv" /\ \A i \in 1 .. n - 1 : i # n /\ ready[i] # ready[n]
    BY <1>0, <2>1 DEF ReadyAt
  <2>5. /\ \A i \in 1 .. n - 1 : epc[r[i]] = "recv"
        /\ \A i, j \in 1 .. n - 1 : r[i] = r[j] => i = j
    BY <2>1, <2>2 DEF ReadyAt
  <2>6. ASSUME NEW p \in Queues, handoff'[p] # Nil
        PROVE  /\ epc[handoff'[p]] = "recv" /\ \A i \in 1 .. n - 1 : r[i] # handoff'[p]
               /\ \A t \in Queues : handoff'[t] = handoff'[p] => t = p
    <3>1. \A t \in Queues : handoff'[t] = IF t = q THEN ready[n] ELSE handoff[t]
      BY <1>0, <2>3
    <3>2. \A t \in Queues : handoff[t] # Nil => handoff[t] # ready[n]
      BY <2>1 DEF ReadyAt
    <3>3. CASE p = q
      <4>1. handoff'[p] = ready[n]
        BY <3>1, <3>3
      <4>2. \A t \in Queues : handoff'[t] = ready[n] => t = q
        <5> TAKE t \in Queues
        <5>1. t # q => handoff'[t] # ready[n]
          BY <1>0, <2>4, <3>1, <3>2
        <5> QED
          BY <5>1
      <4> QED
        BY <2>2, <2>4, <3>3, <4>1, <4>2
    <3>4. CASE p # q
      <4>1. handoff'[p] = handoff[p] /\ handoff[p] # Nil
        BY <2>6, <3>1, <3>4
      <4>2. epc[handoff[p]] = "recv" /\ \A i \in 1 .. n - 1 : r[i] # handoff[p]
        BY <2>1, <2>2, <4>1 DEF ReadyAt
      <4>3. \A t \in Queues : handoff'[t] = handoff[p] => t = p
        BY <3>1, <3>2, <4>1 DEF ReadyAt
      <4> QED
        BY <4>1, <4>2, <4>3
    <3> QED
      BY <3>3, <3>4
  <2> QED
    BY <2>2, <2>3, <2>5, <2>6 DEF ReadyAt
<1>2. ASSUME NEW e \in Entries, BecomeReady(e) PROVE ReadyAt'
  <2>1. /\ epc[e] = "done" /\ epc' = [epc EXCEPT ![e] = "recv"] /\ ready' = Append(ready, e)
        /\ handoff' = handoff
    BY <1>2 DEF BecomeReady
  <2>2. PICK n \in Nat : n = Len(ready)
    BY <1>0
  <2>3. PICK r \in Seq(Entries) : /\ r = Append(ready, e) /\ Len(r) = n + 1
                                  /\ (\A i \in 1 .. n : r[i] = ready[i]) /\ r[n + 1] = e
    <3>1. /\ Append(ready, e) \in Seq(Entries) /\ Len(Append(ready, e)) = n + 1
          /\ (\A i \in 1 .. n : Append(ready, e)[i] = ready[i]) /\ Append(ready, e)[n + 1] = e
      BY <1>0, <2>2, AppendFacts
    <3> QED
      BY <3>1, Zenon
  <2>4. /\ \A i \in 1 .. n : ready[i] # e /\ epc'[ready[i]] = "recv"
        /\ epc'[e] = "recv"
    BY <1>0, <2>1, <2>2 DEF ReadyAt
  <2>5. \A i \in 1 .. n + 1 : i \in 1 .. n \/ i = n + 1
    OBVIOUS
  <2>6. /\ \A i \in 1 .. n + 1 : epc'[r[i]] = "recv"
        /\ \A i, j \in 1 .. n + 1 : r[i] = r[j] => i = j
    <3>1. \A i, j \in 1 .. n : ready[i] = ready[j] => i = j
      BY <2>2 DEF ReadyAt
    <3> QED
      BY <2>3, <2>4, <2>5, <3>1
  <2>7. \A q \in Queues : handoff[q] # Nil => handoff[q] # e /\ epc'[handoff[q]] = "recv"
    BY <1>0, <2>1 DEF ReadyAt
  <2>8. \A q \in Queues : handoff[q] # Nil => \A i \in 1 .. n + 1 : r[i] # handoff[q]
    <3> TAKE q \in Queues
    <3>1. handoff[q] # Nil => \A i \in 1 .. n : ready[i] # handoff[q]
      BY <2>2 DEF ReadyAt
    <3> QED
      BY <2>3, <2>5, <2>7, <3>1
  <2>9. \A q, p \in Queues : handoff[q] # Nil /\ handoff[p] = handoff[q] => p = q
    BY DEF ReadyAt
  <2>10. ready' = r /\ Len(r) = n + 1
    BY <2>1, <2>3
  <2> QED
    BY <2>1, <2>6, <2>7, <2>8, <2>9, <2>10 DEF ReadyAt
<1>3. ASSUME NEW q \in Queues, SubmitNew(q) PROVE ReadyAt'
  <2>1. PICK e \in Entries : epc[e] = "off" /\ epc' = [epc EXCEPT ![e] = "process"]
    BY <1>3 DEF SubmitNew, Run
  <2>2. \A x \in Entries : epc[x] = "recv" => epc'[x] = "recv"
    BY <1>0, <2>1
  <2>3. ready' = ready /\ handoff' = handoff
    BY <1>3 DEF SubmitNew
  <2> QED
    BY <1>0, <2>2, <2>3 DEF ReadyAt
<1>4. ASSUME NEW q \in Queues, HandOver(q) PROVE ReadyAt'
  <2>1. PICK e \in Entries : e = handoff[q] /\ epc' = [epc EXCEPT ![e] = "process"]
    BY <1>0, <1>4 DEF HandOver, Run
  <2>2. ready' = ready /\ handoff' = [handoff EXCEPT ![q] = Nil]
    BY <1>4 DEF HandOver
  <2>3. \A x \in Entries : x # e => epc'[x] = epc[x]
    BY <1>0, <2>1
  <2>4. e # Nil /\ \A i \in 1 .. Len(ready) : ready[i] # e
    BY <1>0, <2>1 DEF ReadyAt
  <2>5. /\ handoff'[q] = Nil
        /\ \A p \in Queues : p # q => handoff'[p] = handoff[p] /\ handoff[p] # e
    BY <1>0, <2>1, <2>2, <2>4 DEF ReadyAt
  <2> QED
    BY <1>0, <2>2, <2>3, <2>4, <2>5 DEF ReadyAt
<1>5. ASSUME NEW e \in Entries, ProcessRequest(e) PROVE ReadyAt'
  <2>1. epc[e] = "process" /\ epc' = [epc EXCEPT ![e] = "done"] /\ ready' = ready /\ handoff' = handoff
    BY <1>5 DEF ProcessRequest
  <2>2. \A x \in Entries : epc[x] = "recv" => epc'[x] = "recv"
    BY <1>0, <2>1
  <2> QED
    BY <1>0, <2>1, <2>2 DEF ReadyAt
<1>6. CASE ready' = ready /\ handoff' = handoff /\ epc' = epc
  BY <1>6 DEF ReadyAt
<1>7. ASSUME NEW g \in Gets, Submit(g) \/ GetReturns(g)
      PROVE  ready' = ready /\ handoff' = handoff /\ epc' = epc
  BY <1>7 DEF Submit, GetReturns, serverVars
<1>8. ASSUME NEW q \in Queues, ClientNext(q)
      PROVE  ready' = ready /\ handoff' = handoff /\ epc' = epc
  BY <1>8 DEF ClientNext, Collect, Tick, FlushRegisters, FlushWrites, RecvResponses, Deliver, serverVars
<1>9. ASSUME NEW q \in Queues, RecvRequests(q) \/ CollectResponse(q) \/ FlushResponses(q)
      PROVE  ready' = ready /\ handoff' = handoff /\ epc' = epc
  BY <1>9 DEF RecvRequests, CollectResponse, FlushResponses
<1>10. CASE UNCHANGED vars
  BY <1>6, <1>10 DEF vars, serverVars
<1> QED
  BY <1>1, <1>2, <1>3, <1>4, <1>5, <1>6, <1>7, <1>8, <1>9, <1>10
  DEF Next, BackendNext, WorkerNext, Finished

(* The transport's state is well-typed for every number of Gets,           *)
(* connections and workers: channels and batches keep their limits, and a  *)
(* batch is in inflightBatches only while some of it is unanswered.        *)
THEOREM JNetTypes == Spec => []TypeOK
<1>1. Init => TypeInv
  BY JNetInit
<1>2. TypeInv => TypeOK
  BY DEF TypeInv
<1> QED
  BY <1>1, <1>2, NextTypes, PTL DEF Spec

(* A worker in WorkerPool.ready, or picked by a Submit, is free: no Submit *)
(* waits for a handler, and no two connections pick the same worker.       *)
THEOREM WorkersFree == Spec => []ReadyMeansFree
<1>1. Init => TypeInv /\ ReadyAt
  <2>1. Init => TypeInv /\ ReadyMeansFree
    BY JNetInit
  <2> QED
    BY <2>1, ReadySame DEF TypeInv
<1>2. TypeInv /\ ReadyAt => ReadyMeansFree
  BY ReadySame DEF TypeInv
<1> QED
  BY <1>1, <1>2, NextTypes, NextReady, PTL DEF Spec

-----------------------------------------------------------------------------
(* The way of a request and its response.  A Get submits one request,      *)
(* which is in one place at a time; the function w says which.             *)

(* The requests in s are of connection q and nowhere else. *)
GetsIn(s, at, w, q) ==
  /\ \A n \in 1 .. Len(s) : w[s[n]] = at /\ QueueOf[s[n]] = q
  /\ \A m, n \in 1 .. Len(s) : s[m] = s[n] => m = n

(* The batch and the index that a request or response carries lead to the  *)
(* Get it is about.                                                        *)
InBook(f, x) ==
  /\ x.batchId \in DOMAIN f /\ x.idx \in DOMAIN f[x.batchId].reqs
  /\ f[x.batchId].reqs[x.idx] = x.get

RecsIn(s, at, w, q, f) ==
  /\ \A n \in 1 .. Len(s) : w[s[n].get] = at /\ QueueOf[s[n].get] = q /\ InBook(f, s[n])
  /\ \A m, n \in 1 .. Len(s) : s[m].get = s[n].get => m = n

(* A batch of requests on the connection is as it was registered. *)
BatchIn(x, w, q, f) ==
  /\ x.cookie \in DOMAIN f /\ f[x.cookie].reqs = x.gets /\ x.gets # <<>>
  /\ \A n \in 1 .. Len(x.gets) : w[x.gets[n]] = "c2s" /\ QueueOf[x.gets[n]] = q

BatchesIn(s, w, q, f) ==
  /\ \A n \in 1 .. Len(s) : BatchIn(s[n], w, q, f)
  /\ \A m, n \in 1 .. Len(s) : s[m].cookie = s[n].cookie => m = n

(* Batches of responses on the connection. *)
NestedIn(s, w, q, f) ==
  /\ \A n \in 1 .. Len(s) : RecsIn(s[n], "s2c", w, q, f)
  /\ \A m, n \in 1 .. Len(s) : \A i \in 1 .. Len(s[m]), j \in 1 .. Len(s[n]) :
       s[m][i].get = s[n][j].get => m = n

(* inflightBatches of a connection whose submitWorker is at phase: no      *)
(* request is registered twice, and none that is not yet written, but for  *)
(* the batch that is about to be.                                          *)
BookIn(f, w, q, next, phase) ==
  /\ \A c \in DOMAIN f : c < next
  /\ \A c \in DOMAIN f : \A n \in 1 .. Len(f[c].reqs) :
       /\ QueueOf[f[c].reqs[n]] = q /\ w[f[c].reqs[n]] \notin {"idle", "reqCH"}
       /\ w[f[c].reqs[n]] = "requests" => phase = "write"
  /\ \A c, d \in DOMAIN f : \A m \in 1 .. Len(f[c].reqs), n \in 1 .. Len(f[d].reqs) :
       f[c].reqs[m] = f[d].reqs[n] => c = d /\ m = n

(* left of an entry is the number of its requests without an answer. *)
Open(r, gt) == {n \in 1 .. Len(r) : gt[r[n]] = Nil}

LeftIn(f, gt) == \A c \in DOMAIN f : f[c].left = Cardinality(Open(f[c].reqs, gt))

(* The queues of connection q, of both sides. *)
SeqsAt(w, q) ==
  /\ GetsIn(reqCH[q], "reqCH", w, q) /\ GetsIn(requests[q], "requests", w, q)
  /\ BatchesIn(c2s[q], w, q, inflight[q])
  /\ RecsIn(reqs[q], "reqs", w, q, inflight[q]) /\ \A n \in 1 .. Len(reqs[q]) : reqs[q][n].queue = q
  /\ RecsIn(respCH[q], "respCH", w, q, inflight[q]) /\ RecsIn(resps[q], "resps", w, q, inflight[q])
  /\ NestedIn(s2c[q], w, q, inflight[q]) /\ RecsIn(rresps[q], "rresps", w, q, inflight[q])

QueueAt(w, q) ==
  /\ SeqsAt(w, q)
  /\ BookIn(inflight[q], w, q, nextCookie[q], sw[q]) /\ LeftIn(inflight[q], got)
  /\ sw[q] = "write" => /\ nextCookie[q] - 1 \in DOMAIN inflight[q]
                        /\ inflight[q][nextCookie[q] - 1].reqs = requests[q]

EntriesAt(w) ==
  /\ \A e \in Entries : epc[e] = "process" =>
       /\ w[ereq[e].get] = "ereq" /\ QueueOf[ereq[e].get] = ereq[e].queue
       /\ InBook(inflight[ereq[e].queue], ereq[e])
  /\ \A e, x \in Entries : epc[e] = "process" /\ epc[x] = "process" /\ ereq[e].get = ereq[x].get => e = x

GetsAt(w) == \A g \in Gets :
  /\ pc[g] = "idle" => w[g] = "idle"
  /\ got[g] # Nil => w[g] = "got" /\ got[g].get = g /\ closed[g] = 1
  /\ got[g] = Nil => closed[g] = 0

Routed(w) == (\A q \in Queues : QueueAt(w, q)) /\ EntriesAt(w) /\ GetsAt(w)

RouteInv == \E w : Routed(w)

(* What a step leaves of the map f of a connection, when only requests at  *)
(* from move: the batches of all others.                                   *)
BookKept(f, h, w, from) ==
  \A c \in DOMAIN f : \A n \in 1 .. Len(f[c].reqs) :
    w[f[c].reqs[n]] \notin {from, "got"} => c \in DOMAIN h /\ h[c].reqs = f[c].reqs

(* A sequence that does not change keeps its place. *)
LEMMA KeepGets ==
  ASSUME NEW s \in Seq(Gets), NEW at, NEW w, NEW v, NEW q,
         GetsIn(s, at, w, q), \A x \in Gets : w[x] = at => v[x] = at
  PROVE  GetsIn(s, at, v, q)
BY DEF GetsIn

(* So does what the batch and index of an item lead to. *)
LEMMA KeepInBook ==
  ASSUME NEW f \in Book, NEW h \in Book, NEW x, NEW w, NEW from, BookKept(f, h, w, from),
         InBook(f, x), w[x.get] \notin {from, "got"}
  PROVE  InBook(h, x)
<1>1. x.batchId \in DOMAIN f /\ x.idx \in DOMAIN f[x.batchId].reqs /\ f[x.batchId].reqs[x.idx] = x.get
  BY DEF InBook
<1>2. DOMAIN f[x.batchId].reqs = 1 .. Len(f[x.batchId].reqs)
  BY <1>1, BookFacts
<1>3. x.batchId \in DOMAIN h /\ h[x.batchId].reqs = f[x.batchId].reqs
  BY <1>1, <1>2 DEF BookKept
<1> QED
  BY <1>1, <1>3 DEF InBook

(* A queue of requests or responses that does not change keeps its place. *)
LEMMA KeepRecs ==
  ASSUME NEW s, NEW at, NEW w, NEW v, NEW q, NEW f \in Book, NEW h \in Book, NEW from,
         RecsIn(s, at, w, q, f), \A x \in Gets : w[x] # from => v[x] = w[x],
         at \notin {from, "got"}, \A n \in 1 .. Len(s) : s[n].get \in Gets,
         BookKept(f, h, w, from)
  PROVE  RecsIn(s, at, v, q, h)
<1>1. ASSUME NEW n \in 1 .. Len(s) PROVE v[s[n].get] = at /\ QueueOf[s[n].get] = q /\ InBook(h, s[n])
  <2>1. w[s[n].get] = at /\ s[n].get \in Gets /\ QueueOf[s[n].get] = q /\ InBook(f, s[n])
    BY DEF RecsIn
  <2>2. InBook(h, s[n])
    BY <2>1, KeepInBook
  <2> QED
    BY <2>1, <2>2
<1> QED
  BY <1>1 DEF RecsIn

(* So do the batches of requests on the connection. *)
LEMMA KeepBatches ==
  ASSUME NEW s \in Seq(Batch), NEW w, NEW v, NEW q, NEW f \in Book, NEW h \in Book, NEW from,
         BatchesIn(s, w, q, f), \A x \in Gets : w[x] # from => v[x] = w[x],
         "c2s" \notin {from, "got"}, BookKept(f, h, w, from)
  PROVE  BatchesIn(s, v, q, h)
<1>1. ASSUME NEW n \in 1 .. Len(s) PROVE BatchIn(s[n], v, q, h)
  <2>1. BatchIn(s[n], w, q, f)
    BY DEF BatchesIn
  <2>0. s[n] \in Batch
    OBVIOUS
  <2>2. s[n].gets \in Seq(Gets)
    BY <2>0 DEF Batch
  <2>3. s[n].gets # <<>> /\ Len(s[n].gets) \in Nat /\ Len(s[n].gets) > 0
    BY <2>1, <2>2 DEF BatchIn
  <2>4. 1 \in 1 .. Len(s[n].gets)
    BY <2>3
  <2>5. s[n].cookie \in DOMAIN h /\ h[s[n].cookie].reqs = f[s[n].cookie].reqs
    BY <2>1, <2>4 DEF BatchIn, BookKept
  <2>6. \A m \in 1 .. Len(s[n].gets) : v[s[n].gets[m]] = "c2s"
    BY <2>1, <2>2 DEF BatchIn
  <2> QED
    BY <2>1, <2>5, <2>6 DEF BatchIn
<1> QED
  BY <1>1 DEF BatchesIn

(* And the batches of responses. *)
LEMMA KeepNested ==
  ASSUME NEW s \in Seq(Seq(Response)), NEW w, NEW v, NEW q, NEW f \in Book, NEW h \in Book, NEW from,
         NestedIn(s, w, q, f), \A x \in Gets : w[x] # from => v[x] = w[x],
         "s2c" \notin {from, "got"}, BookKept(f, h, w, from)
  PROVE  NestedIn(s, v, q, h)
<1>1. ASSUME NEW n \in 1 .. Len(s) PROVE RecsIn(s[n], "s2c", v, q, h)
  <2>1. s[n] \in Seq(Response) /\ RecsIn(s[n], "s2c", w, q, f)
    BY DEF NestedIn
  <2>2. \A m \in 1 .. Len(s[n]) : s[n][m].get \in Gets
    <3>1. PICK r \in Seq(Response) : r = s[n]
      BY <2>1
    <3>2. \A m \in 1 .. Len(r) : r[m] \in Response
      OBVIOUS
    <3>3. \A m \in 1 .. Len(r) : r[m].get \in Gets
      BY <3>2 DEF Response
    <3> QED
      BY <3>1, <3>3
  <2> QED
    BY <2>1, <2>2, KeepRecs
<1> QED
  BY <1>1 DEF NestedIn

(* inflightBatches does not change and requests move on. *)
LEMMA KeepBook ==
  ASSUME NEW f \in Book, NEW w, NEW v, NEW q, NEW next, NEW phase, NEW later,
         BookIn(f, w, q, next, phase),
         phase = "write" => later = "write" \/ \A x \in Gets : QueueOf[x] = q => v[x] # "requests",
         \A x \in Gets : \/ v[x] = w[x] \/ v[x] \notin {"idle", "reqCH", "requests"}
                         \/ w[x] \in {"idle", "reqCH"}
  PROVE  BookIn(f, v, q, next, later)
<1>1. \A c \in DOMAIN f : \A n \in 1 .. Len(f[c].reqs) : f[c].reqs[n] \in Gets
  <2> TAKE c \in DOMAIN f
  <2>1. PICK r \in Seq(Gets) : r = f[c].reqs
    BY BookFacts
  <2>2. \A n \in 1 .. Len(r) : r[n] \in Gets
    OBVIOUS
  <2> QED
    BY <2>1, <2>2
<1> QED
  BY <1>1 DEF BookIn

(* What a step of connection q may change. *)
QueueVars(q) == <<reqCH[q], requests[q], sw[q], nextCookie[q], inflight[q], rresps[q],
                  c2s[q], s2c[q], reqs[q], respCH[q], resps[q]>>

(* The items in the queues of a connection are of their types. *)
LEMMA ItemTypes ==
  ASSUME TypeInv, NEW q \in Queues
  PROVE  /\ reqCH[q] \in Seq(Gets) /\ requests[q] \in Seq(Gets) /\ c2s[q] \in Seq(Batch)
         /\ reqs[q] \in Seq(Request) /\ respCH[q] \in Seq(Response) /\ resps[q] \in Seq(Response)
         /\ s2c[q] \in Seq(Seq(Response)) /\ rresps[q] \in Seq(Response)
         /\ inflight[q] \in Book /\ nextCookie[q] \in Nat
         /\ sw[q] \in {"collect", "register", "write"}
BY DEF TypeInv, TypeOK, Books

(* Requests and responses are about Gets. *)
LEMMA GetOfRequest ==
  ASSUME NEW s \in Seq(Request)
  PROVE  \A n \in 1 .. Len(s) : s[n] \in Request /\ s[n].get \in Gets
<1>1. \A n \in 1 .. Len(s) : s[n] \in Request
  OBVIOUS
<1> QED
  BY <1>1 DEF Request

(* The same of responses. *)
LEMMA GetOfResponse ==
  ASSUME NEW s \in Seq(Response)
  PROVE  \A n \in 1 .. Len(s) : s[n] \in Response /\ s[n].get \in Gets
<1>1. \A n \in 1 .. Len(s) : s[n] \in Response
  OBVIOUS
<1> QED
  BY <1>1 DEF Response

(* What holds of the queues of q that a step does not change, when it moves *)
(* only requests at stage from.                                             *)
KeptAt(v, q, from) ==
  /\ from # "reqCH" /\ reqCH'[q] = reqCH[q] => GetsIn(reqCH'[q], "reqCH", v, q)
  /\ from # "requests" /\ requests'[q] = requests[q] => GetsIn(requests'[q], "requests", v, q)
  /\ from # "c2s" /\ c2s'[q] = c2s[q] => BatchesIn(c2s'[q], v, q, inflight'[q])
  /\ from # "reqs" /\ reqs'[q] = reqs[q] =>
       /\ RecsIn(reqs'[q], "reqs", v, q, inflight'[q])
       /\ \A n \in 1 .. Len(reqs'[q]) : reqs'[q][n].queue = q
  /\ from # "respCH" /\ respCH'[q] = respCH[q] => RecsIn(respCH'[q], "respCH", v, q, inflight'[q])
  /\ from # "resps" /\ resps'[q] = resps[q] => RecsIn(resps'[q], "resps", v, q, inflight'[q])
  /\ from # "s2c" /\ s2c'[q] = s2c[q] => NestedIn(s2c'[q], v, q, inflight'[q])
  /\ from # "rresps" /\ rresps'[q] = rresps[q] => RecsIn(rresps'[q], "rresps", v, q, inflight'[q])

(* A step that moves only requests at stage from leaves every sequence that *)
(* it does not change in order.                                             *)
LEMMA KeepStages ==
  ASSUME TypeInv, NEW q \in Queues, NEW w, NEW v, NEW from, QueueAt(w, q), inflight'[q] \in Book,
         from # "got", \A x \in Gets : w[x] # from => v[x] = w[x],
         BookKept(inflight[q], inflight'[q], w, from)
  PROVE  KeptAt(v, q, from)
<1>1. PICK f \in Book, h \in Book : f = inflight[q] /\ h = inflight'[q]
  BY ItemTypes
<1>2. BookKept(f, h, w, from)
  BY <1>1
<1>3. from # "reqCH" => GetsIn(reqCH[q], "reqCH", v, q)
  <2>1. reqCH[q] \in Seq(Gets) /\ GetsIn(reqCH[q], "reqCH", w, q)
    BY ItemTypes DEF QueueAt, SeqsAt
  <2>2. from # "reqCH" => \A x \in Gets : w[x] = "reqCH" => v[x] = "reqCH"
    OBVIOUS
  <2> QED
    BY <2>1, <2>2, KeepGets
<1>4. from # "requests" => GetsIn(requests[q], "requests", v, q)
  BY ItemTypes, KeepGets, ZenonT(40) DEF QueueAt, SeqsAt
<1>5. from # "c2s" => BatchesIn(c2s[q], v, q, h)
  <2>1. c2s[q] \in Seq(Batch) /\ BatchesIn(c2s[q], w, q, f)
    BY <1>1, ItemTypes DEF QueueAt, SeqsAt
  <2> QED
    BY <1>2, <2>1, KeepBatches
<1>6. from # "reqs" => RecsIn(reqs[q], "reqs", v, q, h)
  <2>1. (\A n \in 1 .. Len(reqs[q]) : reqs[q][n].get \in Gets) /\ RecsIn(reqs[q], "reqs", w, q, f)
    BY <1>1, ItemTypes, GetOfRequest DEF QueueAt, SeqsAt
  <2> QED
    BY <1>2, <2>1, KeepRecs
<1>7. from # "respCH" => RecsIn(respCH[q], "respCH", v, q, h)
  <2>1. (\A n \in 1 .. Len(respCH[q]) : respCH[q][n].get \in Gets) /\ RecsIn(respCH[q], "respCH", w, q, f)
    BY <1>1, ItemTypes, GetOfResponse DEF QueueAt, SeqsAt
  <2> QED
    BY <1>2, <2>1, KeepRecs
<1>8. from # "resps" => RecsIn(resps[q], "resps", v, q, h)
  <2>1. (\A n \in 1 .. Len(resps[q]) : resps[q][n].get \in Gets) /\ RecsIn(resps[q], "resps", w, q, f)
    BY <1>1, ItemTypes, GetOfResponse DEF QueueAt, SeqsAt
  <2> QED
    BY <1>2, <2>1, KeepRecs
<1>9. from # "rresps" => RecsIn(rresps[q], "rresps", v, q, h)
  <2>1. (\A n \in 1 .. Len(rresps[q]) : rresps[q][n].get \in Gets) /\ RecsIn(rresps[q], "rresps", w, q, f)
    BY <1>1, ItemTypes, GetOfResponse DEF QueueAt, SeqsAt
  <2> QED
    BY <1>2, <2>1, KeepRecs
<1>10. from # "s2c" => NestedIn(s2c[q], v, q, h)
  <2>1. s2c[q] \in Seq(Seq(Response)) /\ NestedIn(s2c[q], w, q, f)
    BY <1>1, ItemTypes DEF QueueAt, SeqsAt
  <2> QED
    BY <1>2, <2>1, KeepNested
<1>11. \A n \in 1 .. Len(reqs[q]) : reqs[q][n].queue = q
  BY DEF QueueAt, SeqsAt
<1>12. from # "reqs" /\ reqs'[q] = reqs[q] =>
         /\ RecsIn(reqs'[q], "reqs", v, q, inflight'[q])
         /\ \A n \in 1 .. Len(reqs'[q]) : reqs'[q][n].queue = q
  BY <1>1, <1>6, <1>11, Zenon
<1>13. /\ from # "reqCH" /\ reqCH'[q] = reqCH[q] => GetsIn(reqCH'[q], "reqCH", v, q)
       /\ from # "requests" /\ requests'[q] = requests[q] => GetsIn(requests'[q], "requests", v, q)
       /\ from # "c2s" /\ c2s'[q] = c2s[q] => BatchesIn(c2s'[q], v, q, inflight'[q])
  BY <1>1, <1>3, <1>4, <1>5, Zenon
<1>14. /\ from # "respCH" /\ respCH'[q] = respCH[q] => RecsIn(respCH'[q], "respCH", v, q, inflight'[q])
       /\ from # "resps" /\ resps'[q] = resps[q] => RecsIn(resps'[q], "resps", v, q, inflight'[q])
  BY <1>1, <1>7, <1>8, Zenon
<1>15. /\ from # "s2c" /\ s2c'[q] = s2c[q] => NestedIn(s2c'[q], v, q, inflight'[q])
       /\ from # "rresps" /\ rresps'[q] = rresps[q] => RecsIn(rresps'[q], "rresps", v, q, inflight'[q])
  BY <1>1, <1>9, <1>10, Zenon
<1> QED
  BY <1>12, <1>13, <1>14, <1>15, Zenon DEF KeptAt

(* A connection that a step does not touch. *)
LEMMA QueueFrame ==
  ASSUME TypeInv, NEW q \in Queues, NEW w, NEW v, QueueAt(w, q), UNCHANGED QueueVars(q),
         \A x \in Gets : QueueOf[x] = q => v[x] = w[x] /\ got'[x] = got[x]
  PROVE  QueueAt(v, q)'
<1>1. /\ reqCH'[q] = reqCH[q] /\ requests'[q] = requests[q] /\ sw'[q] = sw[q]
      /\ nextCookie'[q] = nextCookie[q] /\ inflight'[q] = inflight[q] /\ rresps'[q] = rresps[q]
      /\ c2s'[q] = c2s[q] /\ s2c'[q] = s2c[q] /\ reqs'[q] = reqs[q] /\ respCH'[q] = respCH[q]
      /\ resps'[q] = resps[q]
  BY DEF QueueVars
<1>2. \A c \in DOMAIN inflight[q] : \A n \in 1 .. Len(inflight[q][c].reqs) :
        inflight[q][c].reqs[n] \in Gets /\ QueueOf[inflight[q][c].reqs[n]] = q
  <2> TAKE c \in DOMAIN inflight[q]
  <2>1. PICK r \in Seq(Gets) : r = inflight[q][c].reqs
    BY BookFacts, ItemTypes
  <2>2. \A n \in 1 .. Len(r) : r[n] \in Gets
    OBVIOUS
  <2>3. \A n \in 1 .. Len(r) : QueueOf[r[n]] = q
    BY <2>1 DEF QueueAt, SeqsAt, BookIn
  <2> QED
    BY <2>1, <2>2, <2>3
<1>3. GetsIn(reqCH[q], "reqCH", v, q) /\ GetsIn(requests[q], "requests", v, q)
  <2>1. ASSUME NEW s \in Seq(Gets), NEW at, GetsIn(s, at, w, q) PROVE GetsIn(s, at, v, q)
    <3>1. \A n \in 1 .. Len(s) : s[n] \in Gets
      OBVIOUS
    <3> QED
      BY <2>1, <3>1 DEF GetsIn
  <2>2. /\ reqCH[q] \in Seq(Gets) /\ requests[q] \in Seq(Gets)
        /\ GetsIn(reqCH[q], "reqCH", w, q) /\ GetsIn(requests[q], "requests", w, q)
    BY ItemTypes DEF QueueAt, SeqsAt
  <2> QED
    BY <2>1, <2>2
<1>4. BookIn(inflight[q], v, q, nextCookie[q], sw[q])
  BY <1>2 DEF QueueAt, SeqsAt, BookIn
<1>5. LeftIn(inflight[q], got')
  <2>1. \A c \in DOMAIN inflight[q] :
          Open(inflight[q][c].reqs, got') = Open(inflight[q][c].reqs, got)
    BY <1>2 DEF Open
  <2> QED
    BY <2>1 DEF QueueAt, SeqsAt, LeftIn
<1>6. BatchesIn(c2s[q], v, q, inflight[q])
  <2>1. ASSUME NEW n \in 1 .. Len(c2s[q]) PROVE BatchIn(c2s[q][n], v, q, inflight[q])
    <3>1. BatchIn(c2s[q][n], w, q, inflight[q])
      BY DEF QueueAt, SeqsAt, BatchesIn
    <3>2. \A m \in 1 .. Len(c2s[q][n].gets) : c2s[q][n].gets[m] \in Gets /\ QueueOf[c2s[q][n].gets[m]] = q
      BY <1>2, <3>1 DEF BatchIn
    <3> QED
      BY <3>1, <3>2 DEF BatchIn
  <2> QED
    BY <2>1 DEF QueueAt, SeqsAt, BatchesIn
<1>7. ASSUME NEW s, NEW at, RecsIn(s, at, w, q, inflight[q]), \A n \in 1 .. Len(s) : s[n].get \in Gets
      PROVE  RecsIn(s, at, v, q, inflight[q])
  BY <1>7 DEF RecsIn
<1>8. /\ RecsIn(reqs[q], "reqs", v, q, inflight[q]) /\ RecsIn(respCH[q], "respCH", v, q, inflight[q])
      /\ RecsIn(resps[q], "resps", v, q, inflight[q]) /\ RecsIn(rresps[q], "rresps", v, q, inflight[q])
  <2>1. /\ \A n \in 1 .. Len(reqs[q]) : reqs[q][n].get \in Gets
        /\ \A n \in 1 .. Len(respCH[q]) : respCH[q][n].get \in Gets
        /\ \A n \in 1 .. Len(resps[q]) : resps[q][n].get \in Gets
        /\ \A n \in 1 .. Len(rresps[q]) : rresps[q][n].get \in Gets
    BY ItemTypes, GetOfRequest, GetOfResponse
  <2>2. /\ RecsIn(reqs[q], "reqs", w, q, inflight[q]) /\ RecsIn(respCH[q], "respCH", w, q, inflight[q])
        /\ RecsIn(resps[q], "resps", w, q, inflight[q]) /\ RecsIn(rresps[q], "rresps", w, q, inflight[q])
    BY DEF QueueAt, SeqsAt
  <2> QED
    BY <1>7, <2>1, <2>2
<1>9. NestedIn(s2c[q], v, q, inflight[q])
  <2>1. ASSUME NEW n \in 1 .. Len(s2c[q]) PROVE RecsIn(s2c[q][n], "s2c", v, q, inflight[q])
    <3>1. s2c[q][n] \in Seq(Response) /\ RecsIn(s2c[q][n], "s2c", w, q, inflight[q])
      BY ItemTypes DEF QueueAt, SeqsAt, NestedIn
    <3>2. \A m \in 1 .. Len(s2c[q][n]) : s2c[q][n][m].get \in Gets
      BY <3>1, GetOfResponse
    <3> QED
      BY <1>7, <3>1, <3>2
  <2> QED
    BY <2>1 DEF QueueAt, SeqsAt, NestedIn
<1>10. /\ \A n \in 1 .. Len(reqs[q]) : reqs[q][n].queue = q
       /\ sw[q] = "write" => /\ nextCookie[q] - 1 \in DOMAIN inflight[q]
                             /\ inflight[q][nextCookie[q] - 1].reqs = requests[q]
  BY DEF QueueAt, SeqsAt
<1>11. /\ GetsIn(reqCH'[q], "reqCH", v, q) /\ GetsIn(requests'[q], "requests", v, q)
       /\ BatchesIn(c2s'[q], v, q, inflight'[q]) /\ NestedIn(s2c'[q], v, q, inflight'[q])
  BY <1>1, <1>3, <1>6, <1>9, Zenon
<1>12. /\ RecsIn(reqs'[q], "reqs", v, q, inflight'[q]) /\ RecsIn(respCH'[q], "respCH", v, q, inflight'[q])
       /\ RecsIn(resps'[q], "resps", v, q, inflight'[q]) /\ RecsIn(rresps'[q], "rresps", v, q, inflight'[q])
  BY <1>1, <1>8, Zenon
<1>13. BookIn(inflight'[q], v, q, nextCookie'[q], sw'[q]) /\ LeftIn(inflight'[q], got')
  BY <1>1, <1>4, <1>5, Zenon
<1>14. /\ \A n \in 1 .. Len(reqs'[q]) : reqs'[q][n].queue = q
       /\ sw'[q] = "write" => /\ nextCookie'[q] - 1 \in DOMAIN inflight'[q]
                              /\ inflight'[q][nextCookie'[q] - 1].reqs = requests'[q]
  BY <1>1, <1>10
<1> QED
  BY <1>11, <1>12, <1>13, <1>14, Zenon DEF QueueAt, SeqsAt

(* What the workers of the pool hold, when other requests move. *)
LEMMA KeepEntries ==
  ASSUME TypeInv, TypeInv', NEW w, NEW v, NEW from, EntriesAt(w), from \notin {"ereq", "got"},
         \A x \in Gets : w[x] # from => v[x] = w[x],
         \A q \in Queues : BookKept(inflight[q], inflight'[q], w, from),
         \A e \in Entries : epc'[e] = "process" => epc[e] = "process" /\ ereq'[e] = ereq[e]
  PROVE  EntriesAt(v)'
<1>1. ASSUME NEW e \in Entries, epc'[e] = "process"
      PROVE  /\ epc[e] = "process" /\ ereq'[e] = ereq[e]
             /\ v[ereq[e].get] = "ereq" /\ QueueOf[ereq[e].get] = ereq[e].queue
             /\ InBook(inflight'[ereq[e].queue], ereq[e])
  <2>1. epc[e] = "process" /\ ereq'[e] = ereq[e]
    BY <1>1
  <2>2. ereq[e] \in Request
    BY <2>1 DEF TypeInv, Phases
  <2>3. ereq[e].get \in Gets /\ ereq[e].queue \in Queues
    BY <2>2 DEF Request
  <2>4. /\ w[ereq[e].get] = "ereq" /\ QueueOf[ereq[e].get] = ereq[e].queue
        /\ InBook(inflight[ereq[e].queue], ereq[e])
    BY <2>1 DEF EntriesAt
  <2>5. v[ereq[e].get] = "ereq"
    BY <2>3, <2>4
  <2>6. PICK f \in Book, h \in Book : f = inflight[ereq[e].queue] /\ h = inflight'[ereq[e].queue]
    BY <2>3 DEF TypeInv, Books
  <2>7. BookKept(f, h, w, from) /\ InBook(f, ereq[e])
    BY <2>3, <2>4, <2>6
  <2>8. InBook(h, ereq[e])
    BY <2>4, <2>7, KeepInBook
  <2> QED
    BY <2>1, <2>4, <2>5, <2>6, <2>8
<1>2. \A e \in Entries : epc'[e] = "process" =>
        /\ v[ereq'[e].get] = "ereq" /\ QueueOf[ereq'[e].get] = ereq'[e].queue
        /\ InBook(inflight'[ereq'[e].queue], ereq'[e])
  BY <1>1, Zenon
<1>3. \A e, x \in Entries :
        epc'[e] = "process" /\ epc'[x] = "process" /\ ereq'[e].get = ereq'[x].get => e = x
  <2>1. \A e, x \in Entries :
        epc[e] = "process" /\ epc[x] = "process" /\ ereq[e].get = ereq[x].get => e = x
    BY DEF EntriesAt
  <2> QED
    BY <1>1, <2>1
<1> QED
  BY <1>2, <1>3, Zenon DEF EntriesAt

(* What the Gets see. *)
LEMMA KeepGetsAt ==
  ASSUME NEW w, NEW v, NEW from, GetsAt(w), from \notin {"idle", "got"},
         \A x \in Gets : w[x] # from => v[x] = w[x],
         \A x \in Gets : (pc'[x] = "idle" => pc[x] = "idle") /\ got'[x] = got[x] /\ closed'[x] = closed[x]
  PROVE  GetsAt(v)'
<1>1. \A x \in Gets : /\ pc'[x] = "idle" => v[x] = "idle"
                      /\ got'[x] # Nil => v[x] = "got" /\ got'[x].get = x /\ closed'[x] = 1
                      /\ got'[x] = Nil => closed'[x] = 0
  <2> TAKE x \in Gets
  <2>1. /\ pc[x] = "idle" => w[x] = "idle"
        /\ got[x] # Nil => w[x] = "got" /\ got[x].get = x /\ closed[x] = 1
        /\ got[x] = Nil => closed[x] = 0
    BY DEF GetsAt
  <2> QED
    BY <2>1
<1> QED
  BY <1>1 DEF GetsAt

(* A step of connection q alone. *)
LEMMA Composed ==
  ASSUME TypeInv, NEW q \in Queues, NEW w, NEW v, Routed(w),
         QueueAt(v, q)', EntriesAt(v)', GetsAt(v)',
         \A p \in Queues : p # q => UNCHANGED QueueVars(p),
         \A x \in Gets : QueueOf[x] # q => v[x] = w[x] /\ got'[x] = got[x]
  PROVE  RouteInv'
<1>1. ASSUME NEW p \in Queues, p # q PROVE QueueAt(v, p)'
  <2>1. QueueAt(w, p) /\ UNCHANGED QueueVars(p)
    BY <1>1 DEF Routed
  <2>2. \A x \in Gets : QueueOf[x] = p => v[x] = w[x] /\ got'[x] = got[x]
    BY <1>1
  <2> QED
    BY <2>1, <2>2, QueueFrame
<1>2. Routed(v)'
  <2>1. \A p \in Queues : QueueAt(v, p)'
    BY <1>1
  <2> QED
    BY <2>1 DEF Routed
<1> QED
  BY <1>2 DEF RouteInv

(* Requests of connection q go on from one stage to another while         *)
(* inflightBatches stays as it is.                                         *)
LEMMA QueueMoves ==
  ASSUME TypeInv, TypeInv', NEW q \in Queues, NEW w, NEW v, QueueAt(w, q),
         \A x \in Gets : \/ v[x] = w[x] \/ v[x] \notin {"idle", "reqCH", "requests"}
                         \/ w[x] \in {"idle", "reqCH"},
         UNCHANGED <<got, inflight, nextCookie>>,
         sw'[q] = "write" => sw[q] = "write" /\ requests'[q] = requests[q],
         sw[q] = "write" => \/ sw'[q] = "write"
                            \/ \A x \in Gets : QueueOf[x] = q => v[x] # "requests",
         SeqsAt(v, q)'
  PROVE  QueueAt(v, q)'
<1>1. BookIn(inflight[q], v, q, nextCookie[q], sw'[q])
  <2>0. sw'[q] \in {"collect", "register", "write"}
    BY DEF TypeInv, TypeOK
  <2>1. PICK f \in Book, c \in Nat, ph \in {"collect", "register", "write"},
             l \in {"collect", "register", "write"} :
          f = inflight[q] /\ c = nextCookie[q] /\ ph = sw[q] /\ l = sw'[q]
    BY <2>0, ItemTypes
  <2>2. BookIn(f, w, q, c, ph)
    BY <2>1 DEF QueueAt
  <2>3. ph = "write" => l = "write" \/ \A x \in Gets : QueueOf[x] = q => v[x] # "requests"
    BY <2>1
  <2>4. BookIn(f, v, q, c, l)
    BY <2>2, <2>3, KeepBook
  <2> QED
    BY <2>1, <2>4
<1>2. LeftIn(inflight[q], got) /\ (sw[q] = "write" => /\ nextCookie[q] - 1 \in DOMAIN inflight[q]
                      /\ inflight[q][nextCookie[q] - 1].reqs = requests[q])
  BY DEF QueueAt
<1>3. BookIn(inflight'[q], v, q, nextCookie'[q], sw'[q]) /\ LeftIn(inflight'[q], got')
  BY <1>1, <1>2
<1>4. sw'[q] = "write" => /\ nextCookie'[q] - 1 \in DOMAIN inflight'[q]
                          /\ inflight'[q][nextCookie'[q] - 1].reqs = requests'[q]
  BY <1>2
<1> QED
  BY <1>3, <1>4, Zenon DEF QueueAt

(* The same, when nothing else happens. *)
LEMMA MoveOn ==
  ASSUME TypeInv, TypeInv', NEW q \in Queues, NEW w, NEW v, NEW from, Routed(w),
         from \notin {"idle", "ereq", "got"},
         \A x \in Gets : w[x] # from \/ QueueOf[x] # q => v[x] = w[x],
         \A x \in Gets : \/ v[x] = w[x] \/ v[x] \notin {"idle", "reqCH", "requests"} \/ w[x] = "reqCH",
         UNCHANGED <<pc, got, closed, inflight, nextCookie, epc, ereq>>,
         \A p \in Queues : p # q => UNCHANGED QueueVars(p),
         sw'[q] = "write" => sw[q] = "write" /\ requests'[q] = requests[q],
         sw[q] = "write" => \/ sw'[q] = "write"
                            \/ \A x \in Gets : QueueOf[x] = q => v[x] # "requests",
         SeqsAt(v, q)'
  PROVE  RouteInv'
<1>1. /\ \A x \in Gets : w[x] # from => v[x] = w[x]
      /\ \A x \in Gets : QueueOf[x] # q => v[x] = w[x] /\ got'[x] = got[x]
  OBVIOUS
<1>2. QueueAt(w, q) /\ EntriesAt(w) /\ GetsAt(w)
  BY DEF Routed
<1>3. \A p \in Queues : BookKept(inflight[p], inflight'[p], w, from)
  BY DEF BookKept
<1>4. EntriesAt(v)'
  BY <1>1, <1>2, <1>3, KeepEntries
<1>5. GetsAt(v)'
  <2>1. \A x \in Gets : (pc'[x] = "idle" => pc[x] = "idle") /\ got'[x] = got[x] /\ closed'[x] = closed[x]
    OBVIOUS
  <2> QED
    BY <1>1, <1>2, <2>1, KeepGetsAt
<1>6. QueueAt(v, q)'
  <2>1. \A x \in Gets : \/ v[x] = w[x] \/ v[x] \notin {"idle", "reqCH", "requests"}
                        \/ w[x] \in {"idle", "reqCH"}
    OBVIOUS
  <2> QED
    BY <1>2, <2>1, QueueMoves
<1> QED
  BY <1>1, <1>4, <1>5, <1>6, Composed

(* A step that concerns no queue. *)
LEMMA QuietRoute ==
  ASSUME TypeInv, TypeInv', NEW w, Routed(w), \A q \in Queues : UNCHANGED QueueVars(q),
         UNCHANGED <<got, closed, inflight>>, \A x \in Gets : pc'[x] = "idle" => pc[x] = "idle",
         \A e \in Entries : epc'[e] = "process" => epc[e] = "process" /\ ereq'[e] = ereq[e]
  PROVE  RouteInv'
<1>1. \A q \in Queues : QueueAt(w, q)'
  <2> TAKE q \in Queues
  <2>1. QueueAt(w, q) /\ UNCHANGED QueueVars(q)
    BY DEF Routed
  <2>2. \A x \in Gets : QueueOf[x] = q => w[x] = w[x] /\ got'[x] = got[x]
    OBVIOUS
  <2> QED
    BY <2>1, <2>2, QueueFrame
<1>2. EntriesAt(w) /\ GetsAt(w)
  BY DEF Routed
<1>3. \A x \in Gets : w[x] # "none" => w[x] = w[x]
  OBVIOUS
<1>4. EntriesAt(w)'
  <2>1. \A q \in Queues : BookKept(inflight[q], inflight'[q], w, "none")
    BY DEF BookKept
  <2> QED
    BY <1>2, <1>3, <2>1, KeepEntries
<1>5. GetsAt(w)'
  BY <1>2 DEF GetsAt
<1>6. Routed(w)'
  BY <1>1, <1>4, <1>5 DEF Routed
<1> QED
  BY <1>6 DEF RouteInv

(* A new account of where the requests are. *)
LEMMA Relabel ==
  ASSUME NEW w, NEW S, NEW to
  PROVE  \E v : \A x \in Gets : v[x] = IF x \in S THEN to ELSE w[x]
<1>1. \A x \in Gets : [y \in Gets |-> IF y \in S THEN to ELSE w[y]][x] = IF x \in S THEN to ELSE w[x]
  OBVIOUS
<1> QED
  BY <1>1, Zenon

(* The first of the requests in a queue leaves. *)
LEMMA TakeGet ==
  ASSUME NEW s \in Seq(Gets), s # <<>>, NEW at, NEW w, NEW v, NEW q, GetsIn(s, at, w, q),
         \A x \in Gets : x # Head(s) => v[x] = w[x]
  PROVE  Head(s) \in Gets /\ w[Head(s)] = at /\ QueueOf[Head(s)] = q /\ GetsIn(Tail(s), at, v, q)
<1>1. /\ Head(s) \in Gets /\ Tail(s) \in Seq(Gets) /\ Head(s) = s[1]
      /\ Len(s) \in Nat \ {0} /\ Len(Tail(s)) = Len(s) - 1
      /\ \A i \in 1 .. Len(s) - 1 : Tail(s)[i] = s[i + 1]
  BY HeadFacts
<1>2. /\ \A n \in 1 .. Len(s) : s[n] \in Gets /\ w[s[n]] = at /\ QueueOf[s[n]] = q
      /\ \A m, n \in 1 .. Len(s) : s[m] = s[n] => m = n
  BY DEF GetsIn
<1>3. 1 \in 1 .. Len(s) /\ w[Head(s)] = at /\ QueueOf[Head(s)] = q
  BY <1>1, <1>2
<1>4. ASSUME NEW i \in 1 .. Len(Tail(s)) PROVE v[Tail(s)[i]] = at /\ QueueOf[Tail(s)[i]] = q
  <2>1. i + 1 \in 1 .. Len(s) /\ i + 1 # 1 /\ Tail(s)[i] = s[i + 1]
    BY <1>1
  <2>2. s[i + 1] # s[1]
    BY <1>2, <1>3, <2>1
  <2> QED
    BY <1>1, <1>2, <2>1, <2>2
<1>5. \A m, n \in 1 .. Len(Tail(s)) : Tail(s)[m] = Tail(s)[n] => m = n
  <2> TAKE m \in 1 .. Len(Tail(s)), n \in 1 .. Len(Tail(s))
  <2>1. m + 1 \in 1 .. Len(s) /\ n + 1 \in 1 .. Len(s) /\ Tail(s)[m] = s[m + 1] /\ Tail(s)[n] = s[n + 1]
    BY <1>1
  <2>2. s[m + 1] = s[n + 1] => m + 1 = n + 1
    BY <1>2, <2>1
  <2> QED
    BY <2>1, <2>2
<1> QED
  BY <1>1, <1>3, <1>4, <1>5 DEF GetsIn

(* A request joins a queue. *)
LEMMA PutGet ==
  ASSUME NEW s \in Seq(Gets), NEW g \in Gets, NEW at, NEW w, NEW v, NEW q, GetsIn(s, at, w, q),
         w[g] # at, QueueOf[g] = q, \A x \in Gets : v[x] = IF x \in {g} THEN at ELSE w[x]
  PROVE  GetsIn(Append(s, g), at, v, q)
<1>1. /\ Len(Append(s, g)) = Len(s) + 1 /\ Len(s) \in Nat
      /\ \A i \in 1 .. Len(s) : Append(s, g)[i] = s[i]
      /\ Append(s, g)[Len(s) + 1] = g
  BY AppendFacts
<1>2. /\ \A n \in 1 .. Len(s) : s[n] \in Gets /\ w[s[n]] = at /\ QueueOf[s[n]] = q
      /\ \A m, n \in 1 .. Len(s) : s[m] = s[n] => m = n
  BY DEF GetsIn
<1>3. \A n \in 1 .. Len(s) : s[n] # g /\ v[s[n]] = at
  BY <1>2
<1>4. \A n \in 1 .. Len(s) + 1 : n \in 1 .. Len(s) \/ n = Len(s) + 1
  BY <1>1
<1>5. v[g] = at
  OBVIOUS
<1>6. \A n \in 1 .. Len(s) + 1 : v[Append(s, g)[n]] = at /\ QueueOf[Append(s, g)[n]] = q
  BY <1>1, <1>2, <1>3, <1>4, <1>5
<1>7. \A m, n \in 1 .. Len(s) + 1 : Append(s, g)[m] = Append(s, g)[n] => m = n
  BY <1>1, <1>2, <1>3, <1>4
<1> QED
  BY <1>1, <1>6, <1>7 DEF GetsIn

(* The first of the requests or responses in a queue leaves. *)
LEMMA TakeRec ==
  ASSUME NEW T, NEW s \in Seq(T), s # <<>>, NEW at, NEW w, NEW v, NEW q, NEW f,
         RecsIn(s, at, w, q, f), \A n \in 1 .. Len(s) : s[n].get \in Gets,
         \A x \in Gets : x # Head(s).get => v[x] = w[x]
  PROVE  /\ Head(s) \in T /\ Head(s).get \in Gets /\ w[Head(s).get] = at /\ QueueOf[Head(s).get] = q
         /\ InBook(f, Head(s)) /\ RecsIn(Tail(s), at, v, q, f)
<1>1. /\ Head(s) \in T /\ Tail(s) \in Seq(T) /\ Head(s) = s[1]
      /\ Len(s) \in Nat \ {0} /\ Len(Tail(s)) = Len(s) - 1
      /\ \A i \in 1 .. Len(s) - 1 : Tail(s)[i] = s[i + 1]
  BY HeadFacts
<1>3. /\ \A n \in 1 .. Len(s) : /\ s[n].get \in Gets /\ w[s[n].get] = at /\ QueueOf[s[n].get] = q
                                /\ InBook(f, s[n])
      /\ \A m, n \in 1 .. Len(s) : s[m].get = s[n].get => m = n
  BY DEF RecsIn
<1>4. /\ 1 \in 1 .. Len(s) /\ w[Head(s).get] = at /\ QueueOf[Head(s).get] = q /\ InBook(f, Head(s))
      /\ Head(s).get \in Gets
  BY <1>1, <1>3
<1>5. ASSUME NEW i \in 1 .. Len(Tail(s))
      PROVE  v[Tail(s)[i].get] = at /\ QueueOf[Tail(s)[i].get] = q /\ InBook(f, Tail(s)[i])
  <2>1. i + 1 \in 1 .. Len(s) /\ i + 1 # 1 /\ Tail(s)[i] = s[i + 1]
    BY <1>1
  <2>2. s[i + 1].get # s[1].get
    BY <1>3, <1>4, <2>1
  <2> QED
    BY <1>1, <1>3, <2>1, <2>2
<1>6. \A m, n \in 1 .. Len(Tail(s)) : Tail(s)[m].get = Tail(s)[n].get => m = n
  <2> TAKE m \in 1 .. Len(Tail(s)), n \in 1 .. Len(Tail(s))
  <2>1. m + 1 \in 1 .. Len(s) /\ n + 1 \in 1 .. Len(s) /\ Tail(s)[m] = s[m + 1] /\ Tail(s)[n] = s[n + 1]
    BY <1>1
  <2>2. s[m + 1].get = s[n + 1].get => m + 1 = n + 1
    BY <1>3, <2>1
  <2> QED
    BY <2>1, <2>2
<1> QED
  BY <1>1, <1>4, <1>5, <1>6 DEF RecsIn

(* A response joins a queue. *)
LEMMA PutRec ==
  ASSUME NEW T, \A x \in T : x.get \in Gets, NEW s \in Seq(T), NEW r \in T, NEW at, NEW w, NEW v,
         NEW q, NEW f, RecsIn(s, at, w, q, f), w[r.get] # at, QueueOf[r.get] = q, InBook(f, r),
         \A x \in Gets : v[x] = IF x \in {r.get} THEN at ELSE w[x]
  PROVE  RecsIn(Append(s, r), at, v, q, f)
<1>1. /\ Len(Append(s, r)) = Len(s) + 1 /\ Len(s) \in Nat
      /\ \A i \in 1 .. Len(s) : Append(s, r)[i] = s[i]
      /\ Append(s, r)[Len(s) + 1] = r
  BY AppendFacts
<1>0. \A n \in 1 .. Len(s) : s[n] \in T
  OBVIOUS
<1>2. /\ \A n \in 1 .. Len(s) : /\ s[n].get \in Gets /\ w[s[n].get] = at /\ QueueOf[s[n].get] = q
                                /\ InBook(f, s[n])
      /\ \A m, n \in 1 .. Len(s) : s[m].get = s[n].get => m = n
  BY <1>0 DEF RecsIn
<1>3. \A n \in 1 .. Len(s) : s[n].get # r.get /\ v[s[n].get] = at
  BY <1>2
<1>4. \A n \in 1 .. Len(s) + 1 : n \in 1 .. Len(s) \/ n = Len(s) + 1
  BY <1>1
<1>5. v[r.get] = at
  OBVIOUS
<1>6. \A n \in 1 .. Len(s) + 1 : /\ v[Append(s, r)[n].get] = at /\ QueueOf[Append(s, r)[n].get] = q
                                 /\ InBook(f, Append(s, r)[n])
  BY <1>1, <1>2, <1>3, <1>4, <1>5
<1>7. \A m, n \in 1 .. Len(s) + 1 : Append(s, r)[m].get = Append(s, r)[n].get => m = n
  BY <1>1, <1>2, <1>3, <1>4
<1> QED
  BY <1>1, <1>6, <1>7 DEF RecsIn

(* The variables are functions on connections and Gets. *)
LEMMA FunTypes ==
  ASSUME TypeInv
  PROVE  /\ reqCH \in [Queues -> Seq(Gets)] /\ requests \in [Queues -> Seq(Gets)]
         /\ sw \in [Queues -> {"collect", "register", "write"}] /\ nextCookie \in [Queues -> Nat]
         /\ rresps \in [Queues -> Seq(Response)] /\ s2c \in [Queues -> Seq(Seq(Response))]
         /\ c2s \in [Queues -> Seq(Batch)] /\ reqs \in [Queues -> Seq(Request)]
         /\ respCH \in [Queues -> Seq(Response)] /\ resps \in [Queues -> Seq(Response)]
         /\ inflight \in [Queues -> Book]
BY DEF TypeInv, TypeOK, Books

(* The queues a step leaves alone, when inflightBatches stays. *)
LEMMA OtherStages ==
  ASSUME TypeInv, NEW q \in Queues, NEW w, NEW v, NEW from, Routed(w), inflight' = inflight,
         from # "got", \A x \in Gets : w[x] # from \/ QueueOf[x] # q => v[x] = w[x]
  PROVE  SeqsAt(w, q) /\ KeptAt(v, q, from)
<1>1. QueueAt(w, q)
  BY DEF Routed
<1>2. inflight'[q] \in Book /\ BookKept(inflight[q], inflight'[q], w, from)
  BY ItemTypes DEF BookKept
<1>3. \A x \in Gets : w[x] # from => v[x] = w[x]
  OBVIOUS
<1>4. KeptAt(v, q, from)
  BY <1>1, <1>2, <1>3, KeepStages
<1> QED
  BY <1>1, <1>4 DEF QueueAt

(* submitWorker takes a request. *)
LEMMA CollectRoute ==
  ASSUME TypeInv, TypeInv', NEW w, Routed(w), NEW q \in Queues, Collect(q)
  PROVE  RouteInv'
<1>1. /\ sw[q] = "collect" /\ reqCH[q] # <<>>
      /\ reqCH' = [reqCH EXCEPT ![q] = Tail(@)]
      /\ requests' = [requests EXCEPT ![q] = Append(@, Head(reqCH[q]))]
      /\ sw' = [sw EXCEPT ![q] = IF Enough(Len(requests'[q])) THEN "register" ELSE @]
      /\ UNCHANGED <<pc, got, closed, nextCookie, inflight, rresps, c2s, s2c,
                     reqs, respCH, resps, epc, ereq>>
  BY DEF Collect, serverVars
<1>2. /\ reqCH'[q] = Tail(reqCH[q]) /\ requests'[q] = Append(requests[q], Head(reqCH[q]))
      /\ sw'[q] # "write"
      /\ \A p \in Queues : p # q => reqCH'[p] = reqCH[p] /\ requests'[p] = requests[p] /\ sw'[p] = sw[p]
  BY <1>1, FunTypes
<1>3. \A p \in Queues : p # q => UNCHANGED QueueVars(p)
  BY <1>1, <1>2 DEF QueueVars
<1>4. PICK v : \A x \in Gets : v[x] = IF x \in {Head(reqCH[q])} THEN "requests" ELSE w[x]
  BY Relabel, Zenon
<1>5. SeqsAt(w, q)
  BY DEF Routed, QueueAt
<1>6. /\ Head(reqCH[q]) \in Gets /\ w[Head(reqCH[q])] = "reqCH" /\ QueueOf[Head(reqCH[q])] = q
      /\ GetsIn(Tail(reqCH[q]), "reqCH", v, q)
  <2>1. PICK s \in Seq(Gets) : s = reqCH[q]
    BY ItemTypes
  <2>2. /\ s # <<>> /\ GetsIn(s, "reqCH", w, q)
        /\ \A x \in Gets : x # Head(s) => v[x] = w[x]
    BY <1>1, <1>4, <1>5, <2>1 DEF SeqsAt
  <2>3. Head(s) \in Gets /\ w[Head(s)] = "reqCH" /\ QueueOf[Head(s)] = q /\ GetsIn(Tail(s), "reqCH", v, q)
    BY <2>2, TakeGet
  <2> QED
    BY <2>1, <2>3
<1>7. GetsIn(Append(requests[q], Head(reqCH[q])), "requests", v, q)
  <2>1. GetsIn(requests[q], "requests", w, q) /\ requests[q] \in Seq(Gets)
    BY <1>5, ItemTypes DEF SeqsAt
  <2> QED
    BY <1>4, <1>6, <2>1, PutGet
<1>8. /\ \A x \in Gets : w[x] # "reqCH" \/ QueueOf[x] # q => v[x] = w[x]
      /\ \A x \in Gets : \/ v[x] = w[x] \/ v[x] \notin {"idle", "reqCH", "requests"} \/ w[x] = "reqCH"
  BY <1>4, <1>6
<1>9. KeptAt(v, q, "reqCH")
  BY <1>1, <1>8, OtherStages
<1>10. SeqsAt(v, q)'
  <2>1. GetsIn(reqCH'[q], "reqCH", v, q) /\ GetsIn(requests'[q], "requests", v, q)
    BY <1>2, <1>6, <1>7
  <2> QED
    BY <1>1, <1>9, <2>1 DEF SeqsAt, KeptAt
<1> QED
  BY <1>1, <1>2, <1>3, <1>8, <1>10, MoveOn

(* The server's submitWorker takes a response. *)
LEMMA CollectResponseRoute ==
  ASSUME TypeInv, TypeInv', NEW w, Routed(w), NEW q \in Queues, CollectResponse(q)
  PROVE  RouteInv'
<1>1. /\ respCH[q] # <<>>
      /\ resps' = [resps EXCEPT ![q] = Append(@, Head(respCH[q]))]
      /\ respCH' = [respCH EXCEPT ![q] = Tail(@)]
      /\ UNCHANGED <<pc, got, closed, reqCH, requests, sw, nextCookie, inflight, rresps, c2s, s2c,
                     reqs, epc, ereq>>
  BY DEF CollectResponse, clientVars
<1>2. /\ respCH'[q] = Tail(respCH[q]) /\ resps'[q] = Append(resps[q], Head(respCH[q]))
      /\ \A p \in Queues : p # q => respCH'[p] = respCH[p] /\ resps'[p] = resps[p]
  BY <1>1, FunTypes
<1>3. \A p \in Queues : p # q => UNCHANGED QueueVars(p)
  BY <1>1, <1>2 DEF QueueVars
<1>4. PICK v : \A x \in Gets : v[x] = IF x \in {Head(respCH[q]).get} THEN "resps" ELSE w[x]
  <2>1. PICK S : S = {Head(respCH[q]).get}
    OBVIOUS
  <2>2. PICK v : \A x \in Gets : v[x] = IF x \in S THEN "resps" ELSE w[x]
    BY Relabel, Zenon
  <2>3. \A x \in Gets : v[x] = IF x \in {Head(respCH[q]).get} THEN "resps" ELSE w[x]
    BY <2>1, <2>2
  <2> QED
    BY <2>3
<1>5. SeqsAt(w, q)
  BY DEF Routed, QueueAt
<1>0. \A x \in Response : x.get \in Gets
  BY DEF Response
<1>6. /\ Head(respCH[q]) \in Response /\ Head(respCH[q]).get \in Gets /\ w[Head(respCH[q]).get] = "respCH"
      /\ QueueOf[Head(respCH[q]).get] = q /\ InBook(inflight[q], Head(respCH[q]))
      /\ RecsIn(Tail(respCH[q]), "respCH", v, q, inflight[q])
  <2>1. PICK s \in Seq(Response), f \in Book : s = respCH[q] /\ f = inflight[q]
    BY ItemTypes
  <2>2. /\ s # <<>> /\ RecsIn(s, "respCH", w, q, f)
        /\ \A x \in Gets : x # Head(s).get => v[x] = w[x]
    BY <1>1, <1>4, <1>5, <2>1 DEF SeqsAt
  <2>4. \A n \in 1 .. Len(s) : s[n].get \in Gets
    BY GetOfResponse
  <2>3. /\ Head(s) \in Response /\ Head(s).get \in Gets /\ w[Head(s).get] = "respCH"
        /\ QueueOf[Head(s).get] = q /\ InBook(f, Head(s)) /\ RecsIn(Tail(s), "respCH", v, q, f)
    BY <2>2, <2>4, TakeRec
  <2> QED
    BY <2>1, <2>3
<1>7. RecsIn(Append(resps[q], Head(respCH[q])), "resps", v, q, inflight[q])
  <2>1. PICK s \in Seq(Response), f \in Book, r \in Response :
          s = resps[q] /\ f = inflight[q] /\ r = Head(respCH[q])
    BY <1>6, ItemTypes
  <2>2. /\ RecsIn(s, "resps", w, q, f) /\ w[r.get] # "resps" /\ QueueOf[r.get] = q /\ InBook(f, r)
        /\ \A x \in Gets : v[x] = IF x \in {r.get} THEN "resps" ELSE w[x]
    BY <1>4, <1>5, <1>6, <2>1 DEF SeqsAt
  <2>3. RecsIn(Append(s, r), "resps", v, q, f)
    BY <1>0, <2>2, PutRec
  <2> QED
    BY <2>1, <2>3
<1>8. /\ \A x \in Gets : w[x] # "respCH" \/ QueueOf[x] # q => v[x] = w[x]
      /\ \A x \in Gets : \/ v[x] = w[x] \/ v[x] \notin {"idle", "reqCH", "requests"} \/ w[x] = "reqCH"
      /\ \A x \in Gets : v[x] = "requests" => w[x] = "requests"
  BY <1>4, <1>6
<1>9. KeptAt(v, q, "respCH")
  BY <1>1, <1>8, OtherStages
<1>10. SeqsAt(v, q)'
  <2>1. RecsIn(respCH'[q], "respCH", v, q, inflight'[q]) /\ RecsIn(resps'[q], "resps", v, q, inflight'[q])
    BY <1>1, <1>2, <1>6, <1>7
  <2> QED
    BY <1>1, <1>9, <2>1 DEF SeqsAt, KeptAt
<1> QED
  BY <1>1, <1>3, <1>8, <1>10, MoveOn

(* A batch joins the connection. *)
LEMMA PutBatch ==
  ASSUME NEW s \in Seq(Batch), NEW b \in Batch, NEW w, NEW v, NEW q, NEW f, BatchesIn(s, w, q, f),
         b.cookie \in DOMAIN f, f[b.cookie].reqs = b.gets, b.gets # <<>>,
         GetsIn(b.gets, "requests", w, q), \A n \in 1 .. Len(b.gets) : v[b.gets[n]] = "c2s",
         \A x \in Gets : w[x] = "c2s" => v[x] = "c2s"
  PROVE  BatchesIn(Append(s, b), v, q, f)
<1>1. /\ Len(Append(s, b)) = Len(s) + 1 /\ Len(s) \in Nat
      /\ \A i \in 1 .. Len(s) : Append(s, b)[i] = s[i]
      /\ Append(s, b)[Len(s) + 1] = b
  BY AppendFacts
<1>2. \A n \in 1 .. Len(s) + 1 : n \in 1 .. Len(s) \/ n = Len(s) + 1
  BY <1>1
<1>3. b.gets \in Seq(Gets)
  BY DEF Batch
<1>4. 1 \in 1 .. Len(b.gets)
  BY <1>3
<1>5. ASSUME NEW n \in 1 .. Len(s) PROVE BatchIn(s[n], v, q, f) /\ s[n].cookie # b.cookie
  <2>0. s[n] \in Batch
    OBVIOUS
  <2>1. s[n].gets \in Seq(Gets)
    BY <2>0 DEF Batch
  <2>2. \A m \in 1 .. Len(s[n].gets) : s[n].gets[m] \in Gets
    BY <2>1
  <2>3. BatchIn(s[n], w, q, f)
    BY DEF BatchesIn
  <2>4. BatchIn(s[n], v, q, f)
    BY <2>2, <2>3 DEF BatchIn
  <2>5. ASSUME s[n].cookie = b.cookie PROVE FALSE
    <3>1. s[n].gets = b.gets
      BY <2>3, <2>5 DEF BatchIn
    <3>2. w[b.gets[1]] = "c2s"
      BY <1>4, <2>3, <3>1 DEF BatchIn
    <3>3. w[b.gets[1]] = "requests"
      BY <1>4 DEF GetsIn
    <3> QED
      BY <3>2, <3>3
  <2> QED
    BY <2>4, <2>5
<1>6. BatchIn(b, v, q, f)
  BY DEF BatchIn, GetsIn
<1>7. \A n \in 1 .. Len(s) + 1 : BatchIn(Append(s, b)[n], v, q, f)
  BY <1>1, <1>2, <1>5, <1>6
<1>8. \A m, n \in 1 .. Len(s) : s[m].cookie = s[n].cookie => m = n
  BY DEF BatchesIn
<1>9. \A m, n \in 1 .. Len(s) + 1 : Append(s, b)[m].cookie = Append(s, b)[n].cookie => m = n
  BY <1>1, <1>2, <1>5, <1>8
<1> QED
  BY <1>1, <1>7, <1>9 DEF BatchesIn

(* flush writes the batch. *)
LEMMA FlushWritesRoute ==
  ASSUME TypeInv, TypeInv', NEW w, Routed(w), NEW q \in Queues, FlushWrites(q)
  PROVE  RouteInv'
<1>1. /\ sw[q] = "write" /\ sw' = [sw EXCEPT ![q] = "collect"]
      /\ c2s' = [c2s EXCEPT ![q] = Append(@, [cookie |-> nextCookie[q] - 1, gets |-> requests[q]])]
      /\ requests' = [requests EXCEPT ![q] = <<>>]
      /\ UNCHANGED <<pc, got, closed, reqCH, nextCookie, inflight, rresps, s2c,
                     reqs, respCH, resps, epc, ereq>>
  BY DEF FlushWrites, serverVars
<1>2. /\ c2s'[q] = Append(c2s[q], [cookie |-> nextCookie[q] - 1, gets |-> requests[q]])
      /\ requests'[q] = <<>> /\ sw'[q] = "collect"
      /\ \A p \in Queues : p # q => c2s'[p] = c2s[p] /\ requests'[p] = requests[p] /\ sw'[p] = sw[p]
  BY <1>1, FunTypes
<1>3. \A p \in Queues : p # q => UNCHANGED QueueVars(p)
  BY <1>1, <1>2 DEF QueueVars
<1>4. PICK v : \A x \in Gets :
        v[x] = IF x \in {y \in Gets : w[y] = "requests" /\ QueueOf[y] = q} THEN "c2s" ELSE w[x]
  <2>1. PICK S : S = {y \in Gets : w[y] = "requests" /\ QueueOf[y] = q}
    OBVIOUS
  <2>2. PICK v : \A x \in Gets : v[x] = IF x \in S THEN "c2s" ELSE w[x]
    BY Relabel, Zenon
  <2>3. \A x \in Gets :
          v[x] = IF x \in {y \in Gets : w[y] = "requests" /\ QueueOf[y] = q} THEN "c2s" ELSE w[x]
    BY <2>1, <2>2
  <2> QED
    BY <2>3
<1>5. SeqsAt(w, q)
  BY DEF Routed, QueueAt
<1>6. [cookie |-> nextCookie[q] - 1, gets |-> requests[q]] \in Batch /\ requests[q] # <<>>
  BY <1>1, ItemTypes DEF TypeInv, Phases, Batch
<1>7. BatchesIn(Append(c2s[q], [cookie |-> nextCookie[q] - 1, gets |-> requests[q]]), v, q, inflight[q])
  <2>1. PICK s \in Seq(Batch), f \in Book, b \in Batch :
          s = c2s[q] /\ f = inflight[q] /\ b = [cookie |-> nextCookie[q] - 1, gets |-> requests[q]]
    BY <1>6, ItemTypes
  <2>2. b.cookie = nextCookie[q] - 1 /\ b.gets = requests[q] /\ b.gets \in Seq(Gets)
    BY <2>1, ItemTypes
  <2>3. b.cookie \in DOMAIN f /\ f[b.cookie].reqs = b.gets
    BY <1>1, <2>1, <2>2 DEF Routed, QueueAt
  <2>4. BatchesIn(s, w, q, f) /\ GetsIn(b.gets, "requests", w, q) /\ b.gets # <<>>
    BY <1>5, <1>6, <2>1, <2>2 DEF SeqsAt
  <2>5. \A n \in 1 .. Len(b.gets) : b.gets[n] \in Gets /\ w[b.gets[n]] = "requests" /\ QueueOf[b.gets[n]] = q
    BY <2>2, <2>4 DEF GetsIn
  <2>6. /\ \A n \in 1 .. Len(b.gets) : v[b.gets[n]] = "c2s"
        /\ \A x \in Gets : w[x] = "c2s" => v[x] = "c2s"
    BY <1>4, <2>5
  <2>7. BatchesIn(Append(s, b), v, q, f)
    BY <2>3, <2>4, <2>6, PutBatch
  <2> QED
    BY <2>1, <2>7
<1>0. /\ sw'[q] = "write" => sw[q] = "write" /\ requests'[q] = requests[q]
      /\ sw[q] = "write" => sw'[q] = "write" \/ \A x \in Gets : QueueOf[x] = q => v[x] # "requests"
  BY <1>2, <1>4
<1>8. /\ \A x \in Gets : w[x] # "requests" \/ QueueOf[x] # q => v[x] = w[x]
      /\ \A x \in Gets : \/ v[x] = w[x] \/ v[x] \notin {"idle", "reqCH", "requests"} \/ w[x] = "reqCH"
      /\ \A x \in Gets : QueueOf[x] = q => v[x] # "requests"
  BY <1>4
<1>9. KeptAt(v, q, "requests")
  BY <1>1, <1>8, OtherStages
<1>10. SeqsAt(v, q)'
  <2>1. BatchesIn(c2s'[q], v, q, inflight'[q])
    BY <1>1, <1>2, <1>7
  <2>2. GetsIn(requests'[q], "requests", v, q)
    BY <1>2 DEF GetsIn
  <2> QED
    BY <1>1, <1>9, <2>1, <2>2 DEF SeqsAt, KeptAt
<1> QED
  BY <1>0, <1>1, <1>3, <1>8, <1>10, MoveOn

(* The first batch leaves the connection: the others have other requests. *)
LEMMA TakeBatch ==
  ASSUME NEW s \in Seq(Batch), s # <<>>, NEW w, NEW v, NEW q, NEW f \in Book, NEW next, NEW phase,
         BatchesIn(s, w, q, f), BookIn(f, w, q, next, phase),
         \A x \in Gets : (\A n \in 1 .. Len(Head(s).gets) : Head(s).gets[n] # x) => v[x] = w[x]
  PROVE  Head(s) \in Batch /\ BatchIn(Head(s), w, q, f) /\ BatchesIn(Tail(s), v, q, f)
<1>1. /\ Head(s) \in Batch /\ Tail(s) \in Seq(Batch) /\ Head(s) = s[1]
      /\ Len(s) \in Nat \ {0} /\ Len(Tail(s)) = Len(s) - 1
      /\ \A i \in 1 .. Len(s) - 1 : Tail(s)[i] = s[i + 1]
  BY HeadFacts
<1>2. /\ \A n \in 1 .. Len(s) : BatchIn(s[n], w, q, f)
      /\ \A m, n \in 1 .. Len(s) : s[m].cookie = s[n].cookie => m = n
  BY DEF BatchesIn
<1>3. 1 \in 1 .. Len(s)
  BY <1>1
<1>4. BatchIn(Head(s), w, q, f)
  BY <1>1, <1>2, <1>3
<1>5. ASSUME NEW i \in 1 .. Len(Tail(s)) PROVE BatchIn(Tail(s)[i], v, q, f)
  <2>1. i + 1 \in 1 .. Len(s) /\ i + 1 # 1 /\ Tail(s)[i] = s[i + 1]
    BY <1>1
  <2>2. PICK b \in Batch, a \in Batch : b = s[i + 1] /\ a = Head(s)
    BY <1>1, <2>1
  <2>3. BatchIn(b, w, q, f) /\ BatchIn(a, w, q, f) /\ b.cookie # a.cookie
    <3>1. s[i + 1].cookie # s[1].cookie
      BY <1>2, <1>3, <2>1
    <3> QED
      BY <1>1, <1>2, <1>4, <2>1, <2>2, <3>1
  <2>4. /\ b.cookie \in DOMAIN f /\ a.cookie \in DOMAIN f
        /\ f[b.cookie].reqs = b.gets /\ f[a.cookie].reqs = a.gets
    BY <2>3 DEF BatchIn
  <2>5. \A m \in 1 .. Len(b.gets) : \A n \in 1 .. Len(a.gets) : a.gets[n] # b.gets[m]
    <3>1. \A c, d \in DOMAIN f : \A m \in 1 .. Len(f[c].reqs), n \in 1 .. Len(f[d].reqs) :
            f[c].reqs[m] = f[d].reqs[n] => c = d
      BY DEF BookIn
    <3>2. \A m \in 1 .. Len(f[b.cookie].reqs), n \in 1 .. Len(f[a.cookie].reqs) :
            f[b.cookie].reqs[m] = f[a.cookie].reqs[n] => b.cookie = a.cookie
      BY <2>4, <3>1, Zenon
    <3> QED
      BY <2>3, <2>4, <3>2, Zenon
  <2>6. \A m \in 1 .. Len(b.gets) : b.gets[m] \in Gets
    <3>1. b.gets \in Seq(Gets)
      BY DEF Batch
    <3> QED
      BY <3>1
  <2>7. \A m \in 1 .. Len(b.gets) : v[b.gets[m]] = w[b.gets[m]]
    BY <2>2, <2>5, <2>6
  <2>8. BatchIn(b, v, q, f)
    BY <2>3, <2>7 DEF BatchIn
  <2> QED
    BY <2>1, <2>2, <2>8
<1>6. \A m, n \in 1 .. Len(Tail(s)) : Tail(s)[m].cookie = Tail(s)[n].cookie => m = n
  <2> TAKE m \in 1 .. Len(Tail(s)), n \in 1 .. Len(Tail(s))
  <2>1. m + 1 \in 1 .. Len(s) /\ n + 1 \in 1 .. Len(s) /\ Tail(s)[m] = s[m + 1] /\ Tail(s)[n] = s[n + 1]
    BY <1>1
  <2>2. s[m + 1].cookie = s[n + 1].cookie => m + 1 = n + 1
    BY <1>2, <2>1
  <2> QED
    BY <2>1, <2>2
<1> QED
  BY <1>1, <1>4, <1>5, <1>6 DEF BatchesIn

(* The requests that the server reads from a batch. *)
Unpacked(b, q) == [n \in 1 .. Len(b.gets) |->
                     [get |-> b.gets[n], queue |-> q, batchId |-> b.cookie, idx |-> n]]

(* They carry the batch's cookie and their index in it. *)
LEMMA UnpackedFacts ==
  ASSUME NEW b \in Batch, NEW w, NEW v, NEW q, NEW f \in Book, NEW next, NEW phase,
         BatchIn(b, w, q, f), BookIn(f, w, q, next, phase),
         \A n \in 1 .. Len(b.gets) : v[b.gets[n]] = "reqs"
  PROVE  /\ RecsIn(Unpacked(b, q), "reqs", v, q, f)
         /\ \A n \in 1 .. Len(Unpacked(b, q)) : Unpacked(b, q)[n].queue = q
<1>1. b.gets \in Seq(Gets)
  BY DEF Batch
<1>2. Len(b.gets) \in Nat /\ DOMAIN b.gets = 1 .. Len(b.gets)
  BY <1>1
<1>3. Len(Unpacked(b, q)) = Len(b.gets)
  BY <1>2 DEF Unpacked
<1>4. \A n \in 1 .. Len(b.gets) :
        /\ Unpacked(b, q)[n].get = b.gets[n] /\ Unpacked(b, q)[n].queue = q
        /\ Unpacked(b, q)[n].batchId = b.cookie /\ Unpacked(b, q)[n].idx = n
  BY DEF Unpacked
<1>5. /\ b.cookie \in DOMAIN f /\ f[b.cookie].reqs = b.gets
      /\ \A n \in 1 .. Len(b.gets) : QueueOf[b.gets[n]] = q
  BY DEF BatchIn
<1>6. \A m, n \in 1 .. Len(b.gets) : b.gets[m] = b.gets[n] => m = n
  BY <1>5 DEF BookIn
<1>7. \A n \in 1 .. Len(b.gets) : InBook(f, Unpacked(b, q)[n])
  BY <1>2, <1>4, <1>5 DEF InBook
<1>8. \A n \in 1 .. Len(b.gets) : v[Unpacked(b, q)[n].get] = "reqs" /\ QueueOf[Unpacked(b, q)[n].get] = q
  BY <1>4, <1>5
<1>9. \A m, n \in 1 .. Len(b.gets) : Unpacked(b, q)[m].get = Unpacked(b, q)[n].get => m = n
  BY <1>4, <1>6
<1> QED
  BY <1>3, <1>4, <1>7, <1>8, <1>9 DEF RecsIn

(* The server's recvWorker reads a batch. *)
LEMMA RecvRequestsRoute ==
  ASSUME TypeInv, TypeInv', NEW w, Routed(w), NEW q \in Queues, RecvRequests(q)
  PROVE  RouteInv'
<1>1. /\ reqs[q] = <<>> /\ c2s[q] # <<>> /\ c2s' = [c2s EXCEPT ![q] = Tail(@)]
      /\ reqs' = [reqs EXCEPT ![q] = Unpacked(Head(c2s[q]), q)]
      /\ UNCHANGED <<pc, got, closed, reqCH, requests, sw, nextCookie, inflight, rresps, s2c,
                     respCH, resps, epc, ereq>>
  BY DEF RecvRequests, clientVars, Unpacked
<1>2. /\ c2s'[q] = Tail(c2s[q]) /\ reqs'[q] = Unpacked(Head(c2s[q]), q)
      /\ \A p \in Queues : p # q => c2s'[p] = c2s[p] /\ reqs'[p] = reqs[p]
  BY <1>1, FunTypes
<1>3. \A p \in Queues : p # q => UNCHANGED QueueVars(p)
  BY <1>1, <1>2 DEF QueueVars
<1>4. PICK s \in Seq(Batch), f \in Book, next \in Nat, phase \in {"collect", "register", "write"} :
        s = c2s[q] /\ f = inflight[q] /\ next = nextCookie[q] /\ phase = sw[q]
  BY ItemTypes
<1>5. s # <<>> /\ BatchesIn(s, w, q, f) /\ BookIn(f, w, q, next, phase)
  BY <1>1, <1>4 DEF Routed, QueueAt, SeqsAt
<1>6. PICK S : S = {x \in Gets : \E n \in 1 .. Len(Head(s).gets) : Head(s).gets[n] = x}
  OBVIOUS
<1>7. PICK v : \A x \in Gets : v[x] = IF x \in S THEN "reqs" ELSE w[x]
  BY Relabel, Zenon
<1>8. Head(s) \in Batch /\ BatchIn(Head(s), w, q, f) /\ BatchesIn(Tail(s), v, q, f)
  <2>1. \A x \in Gets : (\A n \in 1 .. Len(Head(s).gets) : Head(s).gets[n] # x) => v[x] = w[x]
    BY <1>6, <1>7
  <2> QED
    BY <1>5, <2>1, TakeBatch
<1>9. \A n \in 1 .. Len(Head(s).gets) :
        /\ Head(s).gets[n] \in Gets /\ w[Head(s).gets[n]] = "c2s" /\ QueueOf[Head(s).gets[n]] = q
        /\ v[Head(s).gets[n]] = "reqs"
  <2>1. Head(s).gets \in Seq(Gets)
    BY <1>8 DEF Batch
  <2>2. \A n \in 1 .. Len(Head(s).gets) : Head(s).gets[n] \in Gets
    BY <2>1
  <2> QED
    BY <1>6, <1>7, <1>8, <2>2 DEF BatchIn
<1>10. /\ RecsIn(Unpacked(Head(s), q), "reqs", v, q, f)
       /\ \A n \in 1 .. Len(Unpacked(Head(s), q)) : Unpacked(Head(s), q)[n].queue = q
  <2>1. PICK b \in Batch : b = Head(s)
    BY <1>8
  <2>2. BatchIn(b, w, q, f) /\ \A n \in 1 .. Len(b.gets) : v[b.gets[n]] = "reqs"
    BY <1>8, <1>9, <2>1
  <2>3. /\ RecsIn(Unpacked(b, q), "reqs", v, q, f)
        /\ \A n \in 1 .. Len(Unpacked(b, q)) : Unpacked(b, q)[n].queue = q
    BY <1>5, <2>2, UnpackedFacts
  <2> QED
    BY <2>1, <2>3, Zenon
<1>11. /\ \A x \in Gets : w[x] # "c2s" \/ QueueOf[x] # q => v[x] = w[x]
       /\ \A x \in Gets : \/ v[x] = w[x] \/ v[x] \notin {"idle", "reqCH", "requests"} \/ w[x] = "reqCH"
  BY <1>6, <1>7, <1>9
<1>12. KeptAt(v, q, "c2s")
  BY <1>1, <1>11, OtherStages
<1>13. SeqsAt(v, q)'
  <2>1. /\ BatchesIn(c2s'[q], v, q, inflight'[q]) /\ RecsIn(reqs'[q], "reqs", v, q, inflight'[q])
        /\ \A n \in 1 .. Len(reqs'[q]) : reqs'[q][n].queue = q
    BY <1>1, <1>2, <1>4, <1>8, <1>10, Zenon
  <2> QED
    BY <1>1, <1>12, <2>1 DEF SeqsAt, KeptAt
<1> QED
  BY <1>1, <1>3, <1>11, <1>13, MoveOn

(* A batch of responses joins the connection. *)
LEMMA PutNested ==
  ASSUME NEW s \in Seq(Seq(Response)), NEW r \in Seq(Response), NEW w, NEW v, NEW q, NEW f,
         NestedIn(s, w, q, f), RecsIn(r, "resps", w, q, f),
         \A n \in 1 .. Len(r) : v[r[n].get] = "s2c",
         \A x \in Gets : w[x] = "s2c" => v[x] = "s2c"
  PROVE  NestedIn(Append(s, r), v, q, f)
<1>1. /\ Len(Append(s, r)) = Len(s) + 1 /\ Len(s) \in Nat
      /\ \A i \in 1 .. Len(s) : Append(s, r)[i] = s[i]
      /\ Append(s, r)[Len(s) + 1] = r
  BY AppendFacts
<1>2. \A n \in 1 .. Len(s) + 1 : n \in 1 .. Len(s) \/ n = Len(s) + 1
  BY <1>1
<1>3. ASSUME NEW n \in 1 .. Len(s)
      PROVE  /\ RecsIn(s[n], "s2c", v, q, f)
             /\ \A i \in 1 .. Len(s[n]) : w[s[n][i].get] = "s2c"
  <2>0. s[n] \in Seq(Response)
    OBVIOUS
  <2>1. \A m \in 1 .. Len(s[n]) : s[n][m].get \in Gets
    BY <2>0, GetOfResponse
  <2>2. RecsIn(s[n], "s2c", w, q, f)
    BY DEF NestedIn
  <2> QED
    BY <2>1, <2>2 DEF RecsIn
<1>4. RecsIn(r, "s2c", v, q, f) /\ \A i \in 1 .. Len(r) : w[r[i].get] = "resps"
  BY DEF RecsIn
<1>5. \A n \in 1 .. Len(s) + 1 : RecsIn(Append(s, r)[n], "s2c", v, q, f)
  BY <1>1, <1>2, <1>3, <1>4
<1>6. \A m, n \in 1 .. Len(s) : \A i \in 1 .. Len(s[m]), j \in 1 .. Len(s[n]) :
        s[m][i].get = s[n][j].get => m = n
  BY DEF NestedIn
<1>7. \A m \in 1 .. Len(s) : \A i \in 1 .. Len(s[m]), j \in 1 .. Len(r) : s[m][i].get # r[j].get
  BY <1>3, <1>4
<1>8. ASSUME NEW m \in 1 .. Len(s) + 1, NEW n \in 1 .. Len(s) + 1,
             NEW i \in 1 .. Len(Append(s, r)[m]), NEW j \in 1 .. Len(Append(s, r)[n]),
             Append(s, r)[m][i].get = Append(s, r)[n][j].get
      PROVE  m = n
  <2>1. CASE m \in 1 .. Len(s) /\ n \in 1 .. Len(s)
    BY <1>1, <1>6, <1>8, <2>1
  <2>2. CASE m \in 1 .. Len(s) /\ n = Len(s) + 1
    BY <1>1, <1>7, <1>8, <2>2
  <2>3. CASE n \in 1 .. Len(s) /\ m = Len(s) + 1
    BY <1>1, <1>7, <1>8, <2>3
  <2> QED
    BY <1>2, <2>1, <2>2, <2>3
<1> QED
  BY <1>1, <1>5, <1>8 DEF NestedIn

(* The server's submitWorker writes a batch. *)
LEMMA FlushResponsesRoute ==
  ASSUME TypeInv, TypeInv', NEW w, Routed(w), NEW q \in Queues, FlushResponses(q)
  PROVE  RouteInv'
<1>1. /\ s2c' = [s2c EXCEPT ![q] = Append(@, resps[q])] /\ resps' = [resps EXCEPT ![q] = <<>>]
      /\ UNCHANGED <<pc, got, closed, reqCH, requests, sw, nextCookie, inflight, rresps, c2s,
                     reqs, respCH, epc, ereq>>
  BY DEF FlushResponses, clientVars
<1>2. /\ s2c'[q] = Append(s2c[q], resps[q]) /\ resps'[q] = <<>>
      /\ \A p \in Queues : p # q => s2c'[p] = s2c[p] /\ resps'[p] = resps[p]
  BY <1>1, FunTypes
<1>3. \A p \in Queues : p # q => UNCHANGED QueueVars(p)
  BY <1>1, <1>2 DEF QueueVars
<1>4. PICK s \in Seq(Seq(Response)), r \in Seq(Response), f \in Book :
        s = s2c[q] /\ r = resps[q] /\ f = inflight[q]
  BY ItemTypes
<1>5. NestedIn(s, w, q, f) /\ RecsIn(r, "resps", w, q, f)
  BY <1>4 DEF Routed, QueueAt, SeqsAt
<1>6. PICK S : S = {x \in Gets : w[x] = "resps" /\ QueueOf[x] = q}
  OBVIOUS
<1>7. PICK v : \A x \in Gets : v[x] = IF x \in S THEN "s2c" ELSE w[x]
  BY Relabel, Zenon
<1>8. NestedIn(Append(s, r), v, q, f)
  <2>1. \A n \in 1 .. Len(r) : r[n].get \in Gets
    BY GetOfResponse
  <2>2. \A n \in 1 .. Len(r) : v[r[n].get] = "s2c"
    BY <1>5, <1>6, <1>7, <2>1 DEF RecsIn
  <2>3. \A x \in Gets : w[x] = "s2c" => v[x] = "s2c"
    BY <1>6, <1>7
  <2> QED
    BY <1>5, <2>2, <2>3, PutNested
<1>11. /\ \A x \in Gets : w[x] # "resps" \/ QueueOf[x] # q => v[x] = w[x]
       /\ \A x \in Gets : \/ v[x] = w[x] \/ v[x] \notin {"idle", "reqCH", "requests"} \/ w[x] = "reqCH"
  BY <1>6, <1>7
<1>12. KeptAt(v, q, "resps")
  BY <1>1, <1>11, OtherStages
<1>13. SeqsAt(v, q)'
  <2>1. NestedIn(s2c'[q], v, q, inflight'[q])
    BY <1>1, <1>2, <1>4, <1>8, Zenon
  <2>2. RecsIn(resps'[q], "resps", v, q, inflight'[q])
    BY <1>2 DEF RecsIn
  <2> QED
    BY <1>1, <1>12, <2>1, <2>2 DEF SeqsAt, KeptAt
<1> QED
  BY <1>1, <1>3, <1>11, <1>13, MoveOn

(* The first batch of responses leaves the connection. *)
LEMMA TakeNested ==
  ASSUME NEW s \in Seq(Seq(Response)), s # <<>>, NEW w, NEW v, NEW q, NEW f, NestedIn(s, w, q, f),
         \A x \in Gets : (\A n \in 1 .. Len(Head(s)) : Head(s)[n].get # x) => v[x] = w[x]
  PROVE  Head(s) \in Seq(Response) /\ RecsIn(Head(s), "s2c", w, q, f) /\ NestedIn(Tail(s), v, q, f)
<1>1. /\ Head(s) \in Seq(Response) /\ Tail(s) \in Seq(Seq(Response)) /\ Head(s) = s[1]
      /\ Len(s) \in Nat \ {0} /\ Len(Tail(s)) = Len(s) - 1
      /\ \A i \in 1 .. Len(s) - 1 : Tail(s)[i] = s[i + 1]
  BY HeadFacts
<1>2. \A n \in 1 .. Len(s) : RecsIn(s[n], "s2c", w, q, f)
  BY DEF NestedIn
<1>3. \A m, n \in 1 .. Len(s) : \A i \in 1 .. Len(s[m]), j \in 1 .. Len(s[n]) :
        s[m][i].get = s[n][j].get => m = n
  BY DEF NestedIn
<1>4. 1 \in 1 .. Len(s) /\ RecsIn(Head(s), "s2c", w, q, f)
  BY <1>1, <1>2
<1>5. ASSUME NEW i \in 1 .. Len(Tail(s)) PROVE RecsIn(Tail(s)[i], "s2c", v, q, f)
  <2>1. i + 1 \in 1 .. Len(s) /\ i + 1 # 1 /\ Tail(s)[i] = s[i + 1]
    BY <1>1
  <2>2. PICK b \in Seq(Response), a \in Seq(Response) : b = s[i + 1] /\ a = Head(s)
    BY <1>1, <2>1
  <2>3. \A m \in 1 .. Len(b), n \in 1 .. Len(a) : a[n].get # b[m].get
    BY <1>1, <1>3, <1>4, <2>1, <2>2
  <2>4. \A m \in 1 .. Len(b) : b[m].get \in Gets
    BY GetOfResponse
  <2>5. \A m \in 1 .. Len(b) : v[b[m].get] = w[b[m].get]
    BY <2>2, <2>3, <2>4
  <2>6. RecsIn(b, "s2c", w, q, f)
    BY <1>2, <2>1, <2>2
  <2>7. RecsIn(b, "s2c", v, q, f)
    BY <2>5, <2>6 DEF RecsIn
  <2> QED
    BY <2>1, <2>2, <2>7
<1>6. ASSUME NEW m \in 1 .. Len(Tail(s)), NEW n \in 1 .. Len(Tail(s)),
             NEW i \in 1 .. Len(Tail(s)[m]), NEW j \in 1 .. Len(Tail(s)[n]),
             Tail(s)[m][i].get = Tail(s)[n][j].get
      PROVE  m = n
  <2>1. m + 1 \in 1 .. Len(s) /\ n + 1 \in 1 .. Len(s) /\ Tail(s)[m] = s[m + 1] /\ Tail(s)[n] = s[n + 1]
    BY <1>1
  <2>2. i \in 1 .. Len(s[m + 1]) /\ j \in 1 .. Len(s[n + 1]) /\ s[m + 1][i].get = s[n + 1][j].get
    BY <1>6, <2>1
  <2>3. m + 1 = n + 1
    BY <1>3, <2>1, <2>2
  <2> QED
    BY <2>3
<1> QED
  BY <1>1, <1>4, <1>5, <1>6 DEF NestedIn

(* The client's recvWorker reads a batch. *)
LEMMA RecvResponsesRoute ==
  ASSUME TypeInv, TypeInv', NEW w, Routed(w), NEW q \in Queues, RecvResponses(q)
  PROVE  RouteInv'
<1>1. /\ rresps[q] = <<>> /\ s2c[q] # <<>>
      /\ rresps' = [rresps EXCEPT ![q] = Head(s2c[q])] /\ s2c' = [s2c EXCEPT ![q] = Tail(@)]
      /\ UNCHANGED <<pc, got, closed, reqCH, requests, sw, nextCookie, inflight, c2s,
                     reqs, respCH, resps, epc, ereq>>
  BY DEF RecvResponses, serverVars
<1>2. /\ s2c'[q] = Tail(s2c[q]) /\ rresps'[q] = Head(s2c[q])
      /\ \A p \in Queues : p # q => s2c'[p] = s2c[p] /\ rresps'[p] = rresps[p]
  BY <1>1, FunTypes
<1>3. \A p \in Queues : p # q => UNCHANGED QueueVars(p)
  BY <1>1, <1>2 DEF QueueVars
<1>4. PICK s \in Seq(Seq(Response)), f \in Book : s = s2c[q] /\ f = inflight[q]
  BY ItemTypes
<1>5. s # <<>> /\ NestedIn(s, w, q, f)
  BY <1>1, <1>4 DEF Routed, QueueAt, SeqsAt
<1>6. PICK S : S = {x \in Gets : \E n \in 1 .. Len(Head(s)) : Head(s)[n].get = x}
  OBVIOUS
<1>7. PICK v : \A x \in Gets : v[x] = IF x \in S THEN "rresps" ELSE w[x]
  BY Relabel, Zenon
<1>8. Head(s) \in Seq(Response) /\ RecsIn(Head(s), "s2c", w, q, f) /\ NestedIn(Tail(s), v, q, f)
  <2>1. \A x \in Gets : (\A n \in 1 .. Len(Head(s)) : Head(s)[n].get # x) => v[x] = w[x]
    BY <1>6, <1>7
  <2> QED
    BY <1>5, <2>1, TakeNested
<1>9. \A n \in 1 .. Len(Head(s)) :
        /\ Head(s)[n].get \in Gets /\ w[Head(s)[n].get] = "s2c" /\ QueueOf[Head(s)[n].get] = q
        /\ v[Head(s)[n].get] = "rresps"
  <2>1. \A n \in 1 .. Len(Head(s)) : Head(s)[n].get \in Gets
    BY <1>8, GetOfResponse
  <2> QED
    BY <1>6, <1>7, <1>8, <2>1 DEF RecsIn
<1>10. RecsIn(Head(s), "rresps", v, q, f)
  BY <1>8, <1>9 DEF RecsIn
<1>11. /\ \A x \in Gets : w[x] # "s2c" \/ QueueOf[x] # q => v[x] = w[x]
       /\ \A x \in Gets : \/ v[x] = w[x] \/ v[x] \notin {"idle", "reqCH", "requests"} \/ w[x] = "reqCH"
  BY <1>6, <1>7, <1>9
<1>12. KeptAt(v, q, "s2c")
  BY <1>1, <1>11, OtherStages
<1>13. SeqsAt(v, q)'
  <2>1. NestedIn(s2c'[q], v, q, inflight'[q]) /\ RecsIn(rresps'[q], "rresps", v, q, inflight'[q])
    BY <1>1, <1>2, <1>4, <1>8, <1>10, Zenon
  <2> QED
    BY <1>1, <1>12, <2>1 DEF SeqsAt, KeptAt
<1> QED
  BY <1>1, <1>3, <1>11, <1>13, MoveOn

(* A new batch in inflightBatches: its requests are in no other. *)
LEMMA RegisterIn ==
  ASSUME NEW f \in Book, NEW h \in Book, NEW c \in Nat, NEW r \in Seq(Gets), NEW w, NEW q, NEW gt,
         BookIn(f, w, q, c, "register"), LeftIn(f, gt), GetsIn(r, "requests", w, q),
         \A n \in 1 .. Len(r) : gt[r[n]] = Nil,
         DOMAIN h = DOMAIN f \cup {c}, h[c].reqs = r, h[c].left = Len(r),
         \A n \in DOMAIN f : n # c => h[n] = f[n]
  PROVE  /\ BookIn(h, w, q, c + 1, "write") /\ LeftIn(h, gt) /\ BookKept(f, h, w, "none")
<1>1. /\ \A d \in DOMAIN f : d < c
      /\ \A d \in DOMAIN f : \A n \in 1 .. Len(f[d].reqs) :
           /\ QueueOf[f[d].reqs[n]] = q /\ w[f[d].reqs[n]] \notin {"idle", "reqCH"}
           /\ w[f[d].reqs[n]] # "requests"
      /\ \A d, e \in DOMAIN f : \A m \in 1 .. Len(f[d].reqs), n \in 1 .. Len(f[e].reqs) :
           f[d].reqs[m] = f[e].reqs[n] => d = e /\ m = n
  BY DEF BookIn
<1>2. \A d \in DOMAIN f : d \in Nat /\ d # c /\ h[d] = f[d]
  BY <1>1, BookFacts
<1>3. /\ \A n \in 1 .. Len(r) : w[r[n]] = "requests" /\ QueueOf[r[n]] = q
      /\ \A m, n \in 1 .. Len(r) : r[m] = r[n] => m = n
  BY DEF GetsIn
<1>4. \A d \in DOMAIN h : d < c + 1
  BY <1>1, <1>2
<1>5. \A d \in DOMAIN h : \A n \in 1 .. Len(h[d].reqs) :
           QueueOf[h[d].reqs[n]] = q /\ w[h[d].reqs[n]] \notin {"idle", "reqCH"}
  <2> TAKE d \in DOMAIN h
  <2>1. CASE d = c
    BY <1>3, <2>1
  <2>2. CASE d \in DOMAIN f
    BY <1>1, <1>2, <2>2
  <2> QED
    BY <2>1, <2>2
<1>6. ASSUME NEW d \in DOMAIN h, NEW e \in DOMAIN h,
             NEW m \in 1 .. Len(h[d].reqs), NEW n \in 1 .. Len(h[e].reqs),
             h[d].reqs[m] = h[e].reqs[n]
      PROVE  d = e /\ m = n
  <2>1. CASE d = c /\ e = c
    BY <1>3, <1>6, <2>1
  <2>2. CASE d = c /\ e \in DOMAIN f
    <3>1. w[r[m]] = "requests" /\ w[f[e].reqs[n]] # "requests" /\ r[m] = f[e].reqs[n]
      BY <1>1, <1>2, <1>3, <1>6, <2>2
    <3> QED
      BY <3>1
  <2>3. CASE d \in DOMAIN f /\ e = c
    <3>1. w[r[n]] = "requests" /\ w[f[d].reqs[m]] # "requests" /\ r[n] = f[d].reqs[m]
      BY <1>1, <1>2, <1>3, <1>6, <2>3
    <3> QED
      BY <3>1
  <2>4. CASE d \in DOMAIN f /\ e \in DOMAIN f
    <3>1. m \in 1 .. Len(f[d].reqs) /\ n \in 1 .. Len(f[e].reqs) /\ f[d].reqs[m] = f[e].reqs[n]
      BY <1>2, <1>6, <2>4
    <3> QED
      BY <1>1, <2>4, <3>1
  <2> QED
    BY <2>1, <2>2, <2>3, <2>4
<1>7. BookIn(h, w, q, c + 1, "write")
  BY <1>4, <1>5, <1>6 DEF BookIn
<1>8. Cardinality(Open(r, gt)) = Len(r)
  <2>1. Open(r, gt) = 1 .. Len(r)
    BY DEF Open
  <2>2. PICK n \in Nat : n = Len(r)
    OBVIOUS
  <2>3. 1 \in Int /\ n \in Int
    OBVIOUS
  <2>4. Cardinality(1 .. n) = IF 1 > n THEN 0 ELSE n - 1 + 1
    BY <2>3, FS_Interval
  <2>5. Cardinality(1 .. n) = n
    BY <2>4
  <2> QED
    BY <2>1, <2>2, <2>5
<1>9. LeftIn(h, gt)
  BY <1>2, <1>8 DEF LeftIn
<1>10. BookKept(f, h, w, "none")
  BY <1>2 DEF BookKept
<1> QED
  BY <1>7, <1>9, <1>10

(* flush enters its batch into inflightBatches. *)
LEMMA FlushRegistersRoute ==
  ASSUME TypeInv, TypeInv', NEW w, Routed(w), NEW q \in Queues, FlushRegisters(q)
  PROVE  RouteInv'
<1>1. /\ sw[q] = "register" /\ sw' = [sw EXCEPT ![q] = "write"]
      /\ inflight' = [inflight EXCEPT ![q] = Register(inflight[q], nextCookie[q], requests[q])]
      /\ nextCookie' = [nextCookie EXCEPT ![q] = @ + 1]
      /\ UNCHANGED <<pc, got, closed, reqCH, requests, rresps, c2s, s2c,
                     reqs, respCH, resps, epc, ereq>>
  BY DEF FlushRegisters, serverVars, Register
<1>2. PICK f \in Book, c \in Nat, r \in Seq(Gets) : f = inflight[q] /\ c = nextCookie[q] /\ r = requests[q]
  BY ItemTypes
<1>3. PICK h \in Book : /\ h = Register(f, c, r) /\ DOMAIN h = DOMAIN f \cup {c}
                        /\ h[c].reqs = r /\ h[c].left = Len(r)
                        /\ \A n \in DOMAIN f : n # c => h[n] = f[n]
  BY RegisterFacts
<1>4. /\ inflight'[q] = h /\ nextCookie'[q] = c + 1 /\ sw'[q] = "write" /\ requests'[q] = r
      /\ \A p \in Queues : p # q =>
           inflight'[p] = inflight[p] /\ nextCookie'[p] = nextCookie[p] /\ sw'[p] = sw[p]
  <2>1. inflight' = [inflight EXCEPT ![q] = h]
    BY <1>1, <1>2, <1>3, Zenon
  <2> QED
    BY <1>1, <1>2, <2>1, FunTypes
<1>5. \A p \in Queues : p # q => UNCHANGED QueueVars(p)
  BY <1>1, <1>4 DEF QueueVars
<1>6. QueueAt(w, q) /\ EntriesAt(w) /\ GetsAt(w)
  BY DEF Routed
<1>7. BookIn(h, w, q, c + 1, "write") /\ LeftIn(h, got) /\ BookKept(f, h, w, "none")
  <2>1. BookIn(f, w, q, c, "register") /\ LeftIn(f, got) /\ GetsIn(r, "requests", w, q)
    BY <1>1, <1>2, <1>6 DEF QueueAt, SeqsAt
  <2>2. \A n \in 1 .. Len(r) : got[r[n]] = Nil
    <3>1. \A n \in 1 .. Len(r) : r[n] \in Gets /\ w[r[n]] = "requests"
      BY <2>1 DEF GetsIn
    <3> QED
      BY <1>6, <3>1 DEF GetsAt
  <2> QED
    BY <1>3, <2>1, <2>2, RegisterIn
<1>8. \A x \in Gets : w[x] # "none" => w[x] = w[x]
  OBVIOUS
<1>9. KeptAt(w, q, "none")
  <2>1. inflight'[q] \in Book /\ BookKept(inflight[q], inflight'[q], w, "none")
    BY <1>2, <1>4, <1>7
  <2> QED
    BY <1>6, <1>8, <2>1, KeepStages
<1>10. QueueAt(w, q)'
  <2>1. SeqsAt(w, q)'
    BY <1>1, <1>9 DEF SeqsAt, KeptAt
  <2>2. BookIn(inflight'[q], w, q, nextCookie'[q], sw'[q]) /\ LeftIn(inflight'[q], got')
    BY <1>1, <1>4, <1>7, Zenon
  <2>3. nextCookie'[q] - 1 \in DOMAIN inflight'[q] /\ inflight'[q][nextCookie'[q] - 1].reqs = requests'[q]
    <3>1. nextCookie'[q] - 1 = c
      BY <1>4
    <3> QED
      BY <1>3, <1>4, <3>1
  <2> QED
    BY <2>1, <2>2, <2>3, Zenon DEF QueueAt
<1>11. EntriesAt(w)'
  <2>1. \A p \in Queues : BookKept(inflight[p], inflight'[p], w, "none")
    <3> TAKE p \in Queues
    <3>1. CASE p = q
      BY <1>2, <1>4, <1>7, <3>1
    <3>2. CASE p # q
      BY <1>4, <3>2 DEF BookKept
    <3> QED
      BY <3>1, <3>2
  <2>2. \A e \in Entries : epc'[e] = "process" => epc[e] = "process" /\ ereq'[e] = ereq[e]
    BY <1>1
  <2> QED
    BY <1>6, <1>8, <2>1, <2>2, KeepEntries
<1>12. GetsAt(w)'
  BY <1>1, <1>6 DEF GetsAt
<1>13. \A x \in Gets : QueueOf[x] # q => w[x] = w[x] /\ got'[x] = got[x]
  BY <1>1
<1> QED
  BY <1>5, <1>10, <1>11, <1>12, <1>13, Composed

(* A Get submits its request. *)
LEMMA SubmitRoute ==
  ASSUME TypeInv, TypeInv', NEW w, Routed(w), NEW g \in Gets, Submit(g)
  PROVE  RouteInv'
<1>0. PICK q \in Queues : q = QueueOf[g]
  BY JNetAssumption
<1>1. /\ pc[g] = "idle" /\ reqCH' = [reqCH EXCEPT ![q] = Append(@, g)] /\ pc' = [pc EXCEPT ![g] = "wait"]
      /\ UNCHANGED <<got, closed, requests, sw, nextCookie, inflight, rresps, c2s, s2c,
                     reqs, respCH, resps, epc, ereq>>
  BY <1>0 DEF Submit, serverVars
<1>2. /\ reqCH'[q] = Append(reqCH[q], g) /\ \A p \in Queues : p # q => reqCH'[p] = reqCH[p]
  BY <1>1, FunTypes
<1>3. \A p \in Queues : p # q => UNCHANGED QueueVars(p)
  BY <1>1, <1>2 DEF QueueVars
<1>4. QueueAt(w, q) /\ EntriesAt(w) /\ GetsAt(w)
  BY DEF Routed
<1>5. w[g] = "idle"
  BY <1>1, <1>4 DEF GetsAt
<1>6. PICK v : \A x \in Gets : v[x] = IF x \in {g} THEN "reqCH" ELSE w[x]
  BY Relabel, Zenon
<1>7. /\ \A x \in Gets : w[x] # "idle" \/ QueueOf[x] # q => v[x] = w[x]
      /\ \A x \in Gets : w[x] # "idle" => v[x] = w[x]
      /\ \A x \in Gets : QueueOf[x] # q => v[x] = w[x] /\ got'[x] = got[x]
      /\ \A x \in Gets : \/ v[x] = w[x] \/ v[x] \notin {"idle", "reqCH", "requests"}
                         \/ w[x] \in {"idle", "reqCH"}
  BY <1>0, <1>1, <1>5, <1>6
<1>8. KeptAt(v, q, "idle")
  BY <1>1, <1>7, OtherStages
<1>9. GetsIn(Append(reqCH[q], g), "reqCH", v, q)
  <2>1. GetsIn(reqCH[q], "reqCH", w, q) /\ reqCH[q] \in Seq(Gets)
    BY <1>4, ItemTypes DEF QueueAt, SeqsAt
  <2> QED
    BY <1>0, <1>5, <1>6, <2>1, PutGet
<1>10. SeqsAt(v, q)'
  <2>1. GetsIn(reqCH'[q], "reqCH", v, q)
    BY <1>2, <1>9
  <2> QED
    BY <1>1, <1>8, <2>1 DEF SeqsAt, KeptAt
<1>11. QueueAt(v, q)'
  BY <1>1, <1>4, <1>7, <1>10, QueueMoves
<1>12. EntriesAt(v)'
  <2>1. \A p \in Queues : BookKept(inflight[p], inflight'[p], w, "idle")
    BY <1>1 DEF BookKept
  <2>2. \A e \in Entries : epc'[e] = "process" => epc[e] = "process" /\ ereq'[e] = ereq[e]
    BY <1>1
  <2> QED
    BY <1>4, <1>7, <2>1, <2>2, KeepEntries
<1>13. GetsAt(v)'
  <2>1. pc \in [Gets -> {"idle", "wait", "returned"}]
    BY DEF TypeInv, TypeOK
  <2>2. pc'[g] = "wait" /\ \A x \in Gets : x # g => pc'[x] = pc[x]
    BY <1>1, <2>1
  <2>3. got[g] = Nil /\ closed[g] = 0
    BY <1>4, <1>5 DEF GetsAt
  <2>4. \A x \in Gets : x # g => v[x] = w[x]
    BY <1>6
  <2>5. ASSUME NEW x \in Gets
        PROVE  /\ pc'[x] = "idle" => v[x] = "idle"
               /\ got'[x] # Nil => v[x] = "got" /\ got'[x].get = x /\ closed'[x] = 1
               /\ got'[x] = Nil => closed'[x] = 0
    <3>1. CASE x = g
      BY <1>1, <2>2, <2>3, <3>1
    <3>2. CASE x # g
      BY <1>1, <1>4, <2>2, <2>4, <3>2 DEF GetsAt
    <3> QED
      BY <3>1, <3>2
  <2> QED
    BY <2>5 DEF GetsAt
<1> QED
  BY <1>3, <1>7, <1>11, <1>12, <1>13, Composed

(* A worker of the pool gets the next request of a connection. *)
LEMMA RunRoute ==
  ASSUME TypeInv, TypeInv', NEW w, Routed(w), NEW q \in Queues, NEW e \in Entries,
         reqs[q] # <<>>, Run(e, q), epc[e] # "process",
         UNCHANGED <<pc, got, closed, reqCH, requests, sw, nextCookie, inflight, rresps, c2s, s2c,
                     respCH, resps>>
  PROVE  RouteInv'
<1>1. /\ epc' = [epc EXCEPT ![e] = "process"] /\ ereq' = [ereq EXCEPT ![e] = Head(reqs[q])]
      /\ reqs' = [reqs EXCEPT ![q] = Tail(@)]
  BY DEF Run
<1>2. /\ reqs'[q] = Tail(reqs[q]) /\ \A p \in Queues : p # q => reqs'[p] = reqs[p]
  BY <1>1, FunTypes
<1>3. \A p \in Queues : p # q => UNCHANGED QueueVars(p)
  BY <1>2 DEF QueueVars
<1>4. QueueAt(w, q) /\ EntriesAt(w) /\ GetsAt(w)
  BY DEF Routed
<1>5. PICK s \in Seq(Request), f \in Book : s = reqs[q] /\ f = inflight[q]
  BY ItemTypes
<1>6. PICK S : S = {Head(s).get}
  OBVIOUS
<1>7. PICK v : \A x \in Gets : v[x] = IF x \in S THEN "ereq" ELSE w[x]
  <2>1. \A to : \E v : \A x \in Gets : v[x] = IF x \in S THEN to ELSE w[x]
    BY Relabel, Zenon
  <2> QED
    BY <2>1
<1>8. /\ Head(s) \in Request /\ Head(s).get \in Gets /\ w[Head(s).get] = "reqs"
      /\ QueueOf[Head(s).get] = q /\ InBook(f, Head(s)) /\ RecsIn(Tail(s), "reqs", v, q, f)
  <2>1. s # <<>> /\ RecsIn(s, "reqs", w, q, f)
    BY <1>4, <1>5 DEF QueueAt, SeqsAt
  <2>2. \A x \in Gets : x # Head(s).get => v[x] = w[x]
    BY <1>6, <1>7
  <2>3. \A n \in 1 .. Len(s) : s[n].get \in Gets
    BY GetOfRequest
  <2> QED
    BY <2>1, <2>2, <2>3, TakeRec
<1>9. Head(s).queue = q /\ \A n \in 1 .. Len(Tail(s)) : Tail(s)[n].queue = q
  <2>1. \A n \in 1 .. Len(s) : s[n].queue = q
    BY <1>4, <1>5 DEF QueueAt, SeqsAt
  <2>2. /\ Head(s) = s[1] /\ Len(s) \in Nat \ {0} /\ Len(Tail(s)) = Len(s) - 1
        /\ \A i \in 1 .. Len(s) - 1 : Tail(s)[i] = s[i + 1]
    BY <1>5, HeadFacts
  <2>3. 1 \in 1 .. Len(s) /\ \A i \in 1 .. Len(s) - 1 : i + 1 \in 1 .. Len(s)
    BY <2>2
  <2> QED
    BY <2>1, <2>2, <2>3
<1>10. /\ \A x \in Gets : w[x] # "reqs" \/ QueueOf[x] # q => v[x] = w[x]
       /\ \A x \in Gets : w[x] # "reqs" => v[x] = w[x]
       /\ \A x \in Gets : QueueOf[x] # q => v[x] = w[x] /\ got'[x] = got[x]
       /\ \A x \in Gets : \/ v[x] = w[x] \/ v[x] \notin {"idle", "reqCH", "requests"}
                          \/ w[x] \in {"idle", "reqCH"}
  BY <1>6, <1>7, <1>8
<1>11. KeptAt(v, q, "reqs")
  BY <1>10, OtherStages
<1>12. SeqsAt(v, q)'
  <2>1. RecsIn(reqs'[q], "reqs", v, q, inflight'[q]) /\ \A n \in 1 .. Len(reqs'[q]) : reqs'[q][n].queue = q
    BY <1>2, <1>5, <1>8, <1>9, Zenon
  <2> QED
    BY <1>11, <2>1 DEF SeqsAt, KeptAt
<1>13. QueueAt(v, q)'
  BY <1>4, <1>10, <1>12, QueueMoves
<1>14. GetsAt(v)'
  <2>1. \A x \in Gets : (pc'[x] = "idle" => pc[x] = "idle") /\ got'[x] = got[x] /\ closed'[x] = closed[x]
    OBVIOUS
  <2> QED
    BY <1>4, <1>10, <2>1, KeepGetsAt, ZenonT(40)
<1>15. EntriesAt(v)'
  <2>0. epc \in [Entries -> {"off", "recv", "process", "done"}] /\ ereq \in [Entries -> Request \cup {Nil}]
    BY DEF TypeInv, TypeOK
  <2>1. /\ ereq'[e] = Head(s) /\ \A x \in Entries : x # e => epc'[x] = epc[x] /\ ereq'[x] = ereq[x]
    BY <1>1, <1>5, <2>0
  <2>2. ASSUME NEW x \in Entries, x # e, epc'[x] = "process"
        PROVE  /\ ereq'[x] \in Request /\ w[ereq'[x].get] = "ereq" /\ v[ereq'[x].get] = "ereq"
               /\ QueueOf[ereq'[x].get] = ereq'[x].queue /\ InBook(inflight'[ereq'[x].queue], ereq'[x])
    <3>1. epc[x] = "process" /\ ereq'[x] = ereq[x]
      BY <2>1, <2>2
    <3>2. ereq[x] \in Request
      BY <3>1 DEF TypeInv, Phases
    <3>3. ereq[x].get \in Gets
      BY <3>2 DEF Request
    <3>4. /\ w[ereq[x].get] = "ereq" /\ QueueOf[ereq[x].get] = ereq[x].queue
          /\ InBook(inflight[ereq[x].queue], ereq[x])
      BY <1>4, <3>1 DEF EntriesAt
    <3>5. v[ereq[x].get] = "ereq"
      BY <1>10, <3>3, <3>4
    <3> QED
      BY <3>1, <3>2, <3>4, <3>5
  <2>3. /\ v[ereq'[e].get] = "ereq" /\ QueueOf[ereq'[e].get] = ereq'[e].queue
        /\ InBook(inflight'[ereq'[e].queue], ereq'[e]) /\ w[ereq'[e].get] = "reqs"
    BY <1>5, <1>6, <1>7, <1>8, <1>9, <2>1
  <2>4. ASSUME NEW x \in Entries, NEW y \in Entries, epc'[x] = "process", epc'[y] = "process",
               ereq'[x].get = ereq'[y].get
        PROVE  x = y
    <3>1. CASE x # e /\ y # e
      BY <1>4, <2>1, <2>4, <3>1 DEF EntriesAt
    <3>2. CASE x = e /\ y # e
      BY <2>2, <2>3, <2>4, <3>2
    <3>3. CASE x # e /\ y = e
      BY <2>2, <2>3, <2>4, <3>3
    <3> QED
      BY <3>1, <3>2, <3>3
  <2>5. \A x \in Entries : epc'[x] = "process" =>
          /\ v[ereq'[x].get] = "ereq" /\ QueueOf[ereq'[x].get] = ereq'[x].queue
          /\ InBook(inflight'[ereq'[x].queue], ereq'[x])
    BY <2>2, <2>3, Zenon
  <2> QED
    BY <2>4, <2>5, Zenon DEF EntriesAt
<1> QED
  BY <1>3, <1>10, <1>13, <1>14, <1>15, Composed

(* A worker of the pool answers. *)
LEMMA ProcessRequestRoute ==
  ASSUME TypeInv, TypeInv', NEW w, Routed(w), NEW e \in Entries, ProcessRequest(e)
  PROVE  RouteInv'
<1>1. PICK err \in BOOLEAN :
        /\ epc[e] = "process"
        /\ respCH' = [respCH EXCEPT ![ereq[e].queue] = Append(@, Answer(ereq[e], err))]
        /\ epc' = [epc EXCEPT ![e] = "done"] /\ ereq' = [ereq EXCEPT ![e] = Nil]
        /\ UNCHANGED <<pc, got, closed, reqCH, requests, sw, nextCookie, inflight, rresps, c2s, s2c,
                       reqs, resps>>
  <2>1. PICK dirty \in BOOLEAN :
          respCH' = [respCH EXCEPT ![ereq[e].queue] = Append(@, Answer(ereq[e], dirty \/ ereq[e].get \in Invalid))]
    BY DEF ProcessRequest
  <2>2. (dirty \/ ereq[e].get \in Invalid) \in BOOLEAN
    OBVIOUS
  <2> QED
    BY <2>1, <2>2 DEF ProcessRequest, clientVars
<1>2. ereq[e] \in Request
  BY <1>1 DEF TypeInv, Phases
<1>3. PICK req \in Request, q \in Queues : req = ereq[e] /\ q = ereq[e].queue
  BY <1>2 DEF Request
<1>4. PICK r \in Response : /\ r = Answer(req, err) /\ r.get = req.get /\ r.batchId = req.batchId
                            /\ r.idx = req.idx /\ r.get \in Gets
  <2>1. req.get \in Gets /\ req.batchId \in Nat /\ req.idx \in Nat
    BY DEF Request
  <2>2. /\ Answer(req, err) \in Response /\ Answer(req, err).get = req.get
        /\ Answer(req, err).batchId = req.batchId /\ Answer(req, err).idx = req.idx
    BY <2>1 DEF Answer, Response
  <2> QED
    BY <2>1, <2>2
<1>5. /\ respCH'[q] = Append(respCH[q], r) /\ \A p \in Queues : p # q => respCH'[p] = respCH[p]
  <2>1. respCH' = [respCH EXCEPT ![q] = Append(respCH[q], r)]
    BY <1>1, <1>3, <1>4
  <2> QED
    BY <2>1, FunTypes
<1>6. \A p \in Queues : p # q => UNCHANGED QueueVars(p)
  BY <1>1, <1>5 DEF QueueVars
<1>7. QueueAt(w, q) /\ EntriesAt(w) /\ GetsAt(w)
  BY DEF Routed
<1>8. PICK S : S = {r.get}
  OBVIOUS
<1>9. PICK v : \A x \in Gets : v[x] = IF x \in S THEN "respCH" ELSE w[x]
  BY Relabel, Zenon
<1>10. w[r.get] = "ereq" /\ QueueOf[r.get] = q /\ InBook(inflight[q], r)
  BY <1>1, <1>3, <1>4, <1>7 DEF EntriesAt, InBook
<1>11. /\ \A x \in Gets : w[x] # "ereq" \/ QueueOf[x] # q => v[x] = w[x]
       /\ \A x \in Gets : w[x] # "ereq" => v[x] = w[x]
       /\ \A x \in Gets : QueueOf[x] # q => v[x] = w[x] /\ got'[x] = got[x]
       /\ \A x \in Gets : \/ v[x] = w[x] \/ v[x] \notin {"idle", "reqCH", "requests"}
                          \/ w[x] \in {"idle", "reqCH"}
  BY <1>1, <1>8, <1>9, <1>10
<1>12. KeptAt(v, q, "ereq")
  BY <1>1, <1>11, OtherStages
<1>13. RecsIn(Append(respCH[q], r), "respCH", v, q, inflight[q])
  <2>1. PICK s \in Seq(Response), f \in Book : s = respCH[q] /\ f = inflight[q]
    BY ItemTypes
  <2>2. /\ RecsIn(s, "respCH", w, q, f) /\ w[r.get] # "respCH" /\ QueueOf[r.get] = q /\ InBook(f, r)
        /\ \A x \in Gets : v[x] = IF x \in {r.get} THEN "respCH" ELSE w[x]
    BY <1>7, <1>8, <1>9, <1>10, <2>1 DEF QueueAt, SeqsAt
  <2>3. \A x \in Response : x.get \in Gets
    BY DEF Response
  <2>4. RecsIn(Append(s, r), "respCH", v, q, f)
    BY <2>2, <2>3, PutRec
  <2> QED
    BY <2>1, <2>4
<1>14. SeqsAt(v, q)'
  <2>1. RecsIn(respCH'[q], "respCH", v, q, inflight'[q])
    BY <1>1, <1>5, <1>13
  <2> QED
    BY <1>1, <1>12, <2>1 DEF SeqsAt, KeptAt
<1>15. QueueAt(v, q)'
  BY <1>1, <1>7, <1>11, <1>14, QueueMoves
<1>16. GetsAt(v)'
  <2>1. \A x \in Gets : (pc'[x] = "idle" => pc[x] = "idle") /\ got'[x] = got[x] /\ closed'[x] = closed[x]
    BY <1>1
  <2> QED
    BY <1>7, <1>11, <2>1, KeepGetsAt
<1>17. EntriesAt(v)'
  <2>0. epc \in [Entries -> {"off", "recv", "process", "done"}] /\ ereq \in [Entries -> Request \cup {Nil}]
    BY DEF TypeInv, TypeOK
  <2>1. /\ epc'[e] = "done" /\ \A x \in Entries : x # e => epc'[x] = epc[x] /\ ereq'[x] = ereq[x]
    BY <1>1, <2>0
  <2>2. ASSUME NEW x \in Entries, epc'[x] = "process"
        PROVE  /\ v[ereq'[x].get] = "ereq" /\ epc[x] = "process" /\ ereq'[x] = ereq[x]
               /\ QueueOf[ereq'[x].get] = ereq'[x].queue /\ InBook(inflight'[ereq'[x].queue], ereq'[x])
    <3>1. x # e /\ epc[x] = "process" /\ ereq'[x] = ereq[x]
      BY <2>1, <2>2
    <3>2. ereq[x] \in Request
      BY <3>1 DEF TypeInv, Phases
    <3>3. ereq[x].get \in Gets
      BY <3>2 DEF Request
    <3>4. /\ w[ereq[x].get] = "ereq" /\ QueueOf[ereq[x].get] = ereq[x].queue
          /\ InBook(inflight[ereq[x].queue], ereq[x]) /\ ereq[x].get # ereq[e].get
      BY <1>1, <1>7, <3>1 DEF EntriesAt
    <3>5. v[ereq[x].get] = "ereq"
      BY <1>3, <1>4, <1>8, <1>9, <3>3, <3>4
    <3> QED
      BY <1>1, <3>1, <3>4, <3>5
  <2>4. \A x, y \in Entries :
          epc'[x] = "process" /\ epc'[y] = "process" /\ ereq'[x].get = ereq'[y].get => x = y
    BY <1>7, <2>2 DEF EntriesAt
  <2>5. \A x \in Entries : epc'[x] = "process" =>
          /\ v[ereq'[x].get] = "ereq" /\ QueueOf[ereq'[x].get] = ereq'[x].queue
          /\ InBook(inflight'[ereq'[x].queue], ereq'[x])
    BY <2>2, Zenon
  <2> QED
    BY <2>4, <2>5, Zenon DEF EntriesAt
<1> QED
  BY <1>6, <1>11, <1>15, <1>16, <1>17, Composed

(* Indices without an answer are finitely many. *)
LEMMA OpenFinite ==
  ASSUME NEW r \in Seq(Gets), NEW gt
  PROVE  IsFiniteSet(Open(r, gt)) /\ Cardinality(Open(r, gt)) \in Nat
<1>1. PICK n \in Nat : n = Len(r)
  OBVIOUS
<1>2. 1 \in Int /\ n \in Int
  OBVIOUS
<1>3. IsFiniteSet(1 .. n)
  BY <1>2, FS_Interval
<1>4. Open(r, gt) \in SUBSET (1 .. n)
  BY <1>1 DEF Open
<1>5. IsFiniteSet(Open(r, gt))
  BY <1>3, <1>4, FS_Subset
<1> QED
  BY <1>5, FS_CardinalityType

(* The last of them. *)
LEMMA LastOne ==
  ASSUME NEW S, IsFiniteSet(S), Cardinality(S) = 1, NEW a \in S, NEW b \in S
  PROVE  a = b
<1>1. IsFiniteSet(S \ {a}) /\ Cardinality(S \ {a}) = Cardinality(S) - 1
  BY FS_RemoveElement
<1>2. Cardinality(S \ {a}) = 0
  BY <1>1
<1>3. S \ {a} = {}
  BY <1>1, <1>2, FS_EmptySet
<1> QED
  BY <1>3

(* recvWorker counts an answer: entries that still have a request under    *)
(* way stay, and the counts stay right.                                    *)
LEMMA CountDownIn ==
  ASSUME NEW f \in Book, NEW r \in Response, NEW w, NEW v, NEW q, NEW next, NEW phase,
         NEW gt, NEW gs,
         BookIn(f, w, q, next, phase), LeftIn(f, gt), InBook(f, r), f[r.batchId].left > 0,
         gt[r.get] = Nil, gs[r.get] # Nil, \A x \in Gets : x # r.get => gs[x] = gt[x],
         v[r.get] = "got", \A x \in Gets : x # r.get => v[x] = w[x],
         \A x \in Gets : gt[x] # Nil => w[x] = "got"
  PROVE  /\ CountDown(f, r.batchId) \in Book
         /\ BookIn(CountDown(f, r.batchId), v, q, next, phase)
         /\ LeftIn(CountDown(f, r.batchId), gs)
         /\ BookKept(f, CountDown(f, r.batchId), v, "got")
<1>1. PICK c : c = r.batchId
  OBVIOUS
<1>2. PICK i : i = r.idx
  OBVIOUS
<1>3. PICK g \in Gets : g = r.get
  BY DEF Response
<1>4. c \in DOMAIN f /\ i \in DOMAIN f[c].reqs /\ f[c].reqs[i] = g /\ f[c].left > 0
  BY <1>1, <1>2, <1>3 DEF InBook
<1>5. /\ CountDown(f, c) \in Book
      /\ DOMAIN CountDown(f, c) = IF f[c].left = 1 THEN DOMAIN f \ {c} ELSE DOMAIN f
      /\ \A n \in DOMAIN CountDown(f, c) :
           /\ CountDown(f, c)[n].reqs = f[n].reqs
           /\ CountDown(f, c)[n].left = IF n = c THEN f[n].left - 1 ELSE f[n].left
  BY <1>4, CountDownFacts
<1>6. PICK h \in Book : h = CountDown(f, c)
  BY <1>5
<1>7. /\ DOMAIN h = IF f[c].left = 1 THEN DOMAIN f \ {c} ELSE DOMAIN f
      /\ \A n \in DOMAIN h : h[n].reqs = f[n].reqs
                             /\ h[n].left = IF n = c THEN f[n].left - 1 ELSE f[n].left
  BY <1>5, <1>6
<1>8. /\ \A d \in DOMAIN f : d < next
      /\ \A d \in DOMAIN f : \A n \in 1 .. Len(f[d].reqs) :
           /\ QueueOf[f[d].reqs[n]] = q /\ w[f[d].reqs[n]] \notin {"idle", "reqCH"}
           /\ w[f[d].reqs[n]] = "requests" => phase = "write"
      /\ \A d, e \in DOMAIN f : \A m \in 1 .. Len(f[d].reqs), n \in 1 .. Len(f[e].reqs) :
           f[d].reqs[m] = f[e].reqs[n] => d = e /\ m = n
  BY DEF BookIn
<1>9. \A d \in DOMAIN f : /\ f[d].reqs \in Seq(Gets) /\ f[d].left \in Nat
                          /\ DOMAIN f[d].reqs = 1 .. Len(f[d].reqs)
                          /\ \A n \in 1 .. Len(f[d].reqs) : f[d].reqs[n] \in Gets
  <2> TAKE d \in DOMAIN f
  <2>1. PICK s \in Seq(Gets) : s = f[d].reqs
    BY BookFacts
  <2>2. DOMAIN s = 1 .. Len(s) /\ \A n \in 1 .. Len(s) : s[n] \in Gets
    OBVIOUS
  <2> QED
    BY <2>1, <2>2, BookFacts
<1>10. i \in 1 .. Len(f[c].reqs)
  BY <1>4, <1>9
<1>11. \A d \in DOMAIN f : \A n \in 1 .. Len(f[d].reqs) : f[d].reqs[n] = g => d = c /\ n = i
  BY <1>4, <1>8, <1>10
<1>12. BookIn(h, v, q, next, phase)
  <2>1. \A d \in DOMAIN h : d \in DOMAIN f /\ h[d].reqs = f[d].reqs
    BY <1>7
  <2>2. \A d \in DOMAIN h : d < next
    BY <1>8, <2>1
  <2>3. \A d \in DOMAIN f : \A n \in 1 .. Len(f[d].reqs) :
           /\ QueueOf[f[d].reqs[n]] = q /\ v[f[d].reqs[n]] \notin {"idle", "reqCH"}
           /\ v[f[d].reqs[n]] = "requests" => phase = "write"
    <3> TAKE d \in DOMAIN f
    <3> TAKE n \in 1 .. Len(f[d].reqs)
    <3>1. f[d].reqs[n] \in Gets
      BY <1>9
    <3>2. CASE f[d].reqs[n] = g
      BY <1>3, <1>8, <3>2
    <3>3. CASE f[d].reqs[n] # g
      BY <1>3, <1>8, <3>1, <3>3
    <3> QED
      BY <3>2, <3>3
  <2>4. \A d, e \in DOMAIN h : \A m \in 1 .. Len(h[d].reqs), n \in 1 .. Len(h[e].reqs) :
           h[d].reqs[m] = h[e].reqs[n] => d = e /\ m = n
    BY <1>8, <2>1
  <2> QED
    BY <2>1, <2>2, <2>3, <2>4 DEF BookIn
<1>13. i \in Open(f[c].reqs, gt)
  BY <1>3, <1>4, <1>10 DEF Open
<1>14. \A d \in DOMAIN f : f[d].left = Cardinality(Open(f[d].reqs, gt))
  BY DEF LeftIn
<1>15. LeftIn(h, gs)
  <2>1. ASSUME NEW d \in DOMAIN h PROVE h[d].left = Cardinality(Open(h[d].reqs, gs))
    <3>1. d \in DOMAIN f /\ h[d].reqs = f[d].reqs
      BY <1>7
    <3>2. CASE d # c
      <4>1. \A n \in 1 .. Len(f[d].reqs) : f[d].reqs[n] \in Gets /\ f[d].reqs[n] # g
        BY <1>9, <1>11, <3>1, <3>2
      <4>2. Open(f[d].reqs, gs) = Open(f[d].reqs, gt)
        BY <1>3, <4>1 DEF Open
      <4> QED
        BY <1>7, <1>14, <3>1, <3>2, <4>2
    <3>3. CASE d = c
      <4>1. Open(f[c].reqs, gs) = Open(f[c].reqs, gt) \ {i}
        <5>1. ASSUME NEW n \in 1 .. Len(f[c].reqs)
              PROVE  gs[f[c].reqs[n]] = Nil <=> gt[f[c].reqs[n]] = Nil /\ n # i
          <6>1. f[c].reqs[n] \in Gets
            BY <1>4, <1>9
          <6>2. CASE n = i
            BY <1>3, <1>4, <6>2
          <6>3. CASE n # i
            <7>1. f[c].reqs[n] # g
              BY <1>4, <1>11, <6>3
            <7> QED
              BY <1>3, <6>1, <6>3, <7>1
          <6> QED
            BY <6>2, <6>3
        <5> QED
          BY <5>1 DEF Open
      <4>2. IsFiniteSet(Open(f[c].reqs, gt))
        BY <1>4, <1>9, OpenFinite
      <4>3. Cardinality(Open(f[c].reqs, gt) \ {i}) = Cardinality(Open(f[c].reqs, gt)) - 1
        BY <1>13, <4>2, FS_RemoveElement
      <4>4. h[d].left = f[c].left - 1
        BY <1>7, <3>3
      <4> QED
        BY <1>4, <1>14, <3>1, <3>3, <4>1, <4>3, <4>4
    <3> QED
      BY <3>2, <3>3
  <2> QED
    BY <2>1 DEF LeftIn
<1>16. BookKept(f, h, v, "got")
  <2>1. ASSUME NEW d \in DOMAIN f, NEW n \in 1 .. Len(f[d].reqs), v[f[d].reqs[n]] # "got", d \notin DOMAIN h
        PROVE  FALSE
    <3>1. d = c /\ f[c].left = 1
      BY <1>7, <2>1
    <3>2. f[c].reqs[n] \in Gets /\ n \in 1 .. Len(f[c].reqs)
      BY <1>9, <3>1
    <3>3. f[c].reqs[n] # g
      BY <1>3, <2>1, <3>1
    <3>4. gt[f[c].reqs[n]] = Nil
      <4>1. v[f[c].reqs[n]] = w[f[c].reqs[n]]
        BY <1>3, <3>2, <3>3
      <4> QED
        BY <2>1, <3>1, <3>2, <4>1
    <3>5. n \in Open(f[c].reqs, gt)
      BY <3>2, <3>4 DEF Open
    <3>6. IsFiniteSet(Open(f[c].reqs, gt)) /\ Cardinality(Open(f[c].reqs, gt)) = 1
      BY <1>4, <1>9, <1>14, <3>1, OpenFinite
    <3>7. n = i
      BY <1>13, <3>5, <3>6, LastOne
    <3> QED
      BY <1>4, <3>3, <3>7
  <2>2. \A d \in DOMAIN h : h[d].reqs = f[d].reqs
    BY <1>7
  <2> QED
    BY <2>1, <2>2 DEF BookKept
<1> QED
  BY <1>1, <1>6, <1>12, <1>15, <1>16

(* recvWorker hands a response to the Get it belongs to. *)
LEMMA DeliverRoute ==
  ASSUME TypeInv, TypeInv', NEW w, Routed(w), NEW q \in Queues, Deliver(q)
  PROVE  RouteInv'
<1>1. PICK s \in Seq(Response), f \in Book, next \in Nat, phase \in {"collect", "register", "write"} :
        s = rresps[q] /\ f = inflight[q] /\ next = nextCookie[q] /\ phase = sw[q]
  BY ItemTypes
<1>2. s # <<>>
  BY <1>1 DEF Deliver
<1>3. QueueAt(w, q) /\ EntriesAt(w) /\ GetsAt(w)
  BY DEF Routed
<1>4. PICK r \in Response : r = Head(s)
  BY <1>2, HeadFacts
<1>5. PICK S : S = {r.get}
  OBVIOUS
<1>6. PICK v : \A x \in Gets : v[x] = IF x \in S THEN "got" ELSE w[x]
  BY Relabel, Zenon
<1>7. r.get \in Gets
  BY DEF Response
<1>8. v[r.get] = "got" /\ \A x \in Gets : x # r.get => v[x] = w[x]
  BY <1>5, <1>6, <1>7
<1>9. w[r.get] = "rresps" /\ QueueOf[r.get] = q /\ InBook(f, r) /\ RecsIn(Tail(s), "rresps", v, q, f)
  <2>1. RecsIn(s, "rresps", w, q, f)
    BY <1>1, <1>3 DEF QueueAt, SeqsAt
  <2>2. \A x \in Gets : x # Head(s).get => v[x] = w[x]
    BY <1>4, <1>8
  <2>3. \A n \in 1 .. Len(s) : s[n].get \in Gets
    BY GetOfResponse
  <2>4. w[Head(s).get] = "rresps" /\ QueueOf[Head(s).get] = q /\ InBook(f, Head(s))
        /\ RecsIn(Tail(s), "rresps", v, q, f)
    BY <1>2, <2>1, <2>2, <2>3, TakeRec
  <2> QED
    BY <1>4, <2>4
<1>10. r.batchId \in DOMAIN f /\ f[r.batchId].reqs[r.idx] = r.get
  BY <1>9 DEF InBook
<1>11. /\ rresps' = [rresps EXCEPT ![q] = Tail(s)]
       /\ inflight' = [inflight EXCEPT ![q] = CountDown(f, r.batchId)]
       /\ got' = [got EXCEPT ![r.get] = r] /\ closed' = [closed EXCEPT ![r.get] = closed[r.get] + 1]
       /\ UNCHANGED <<pc, reqCH, requests, sw, nextCookie, c2s, s2c, reqs, respCH, resps, epc, ereq>>
  <2>1. Head(rresps[q]) = r /\ inflight[q] = f
    BY <1>1, <1>4
  <2> QED
    BY <1>1, <1>10, <2>1 DEF Deliver, serverVars
<1>12. got[r.get] = Nil /\ closed[r.get] = 0 /\ r # Nil
  <2>1. got[r.get] = Nil /\ closed[r.get] = 0
    BY <1>3, <1>7, <1>9 DEF GetsAt
  <2> QED
    BY <2>1, NilAssumption
<1>13. /\ got'[r.get] = r /\ closed'[r.get] = 1
       /\ \A x \in Gets : x # r.get => got'[x] = got[x] /\ closed'[x] = closed[x]
  <2>1. got \in [Gets -> Response \cup {Nil}] /\ closed \in [Gets -> Nat]
    BY DEF TypeInv, TypeOK
  <2> QED
    BY <1>7, <1>11, <1>12, <2>1
<1>14. PICK h \in Book : /\ h = CountDown(f, r.batchId)
                         /\ BookIn(h, v, q, next, phase) /\ LeftIn(h, got') /\ BookKept(f, h, v, "got")
  <2>1. BookIn(f, w, q, next, phase) /\ LeftIn(f, got)
    BY <1>1, <1>3 DEF QueueAt
  <2>2. f[r.batchId].left > 0
    <3>1. \A n \in DOMAIN inflight[q] : inflight[q][n].left \in 1 .. MaxBatchCount
      BY DEF TypeInv, TypeOK
    <3>2. f[r.batchId].left \in 1 .. MaxBatchCount
      BY <1>1, <1>10, <3>1
    <3> QED
      BY <3>2, JNetAssumption
  <2>3. \A x \in Gets : got[x] # Nil => w[x] = "got"
    BY <1>3 DEF GetsAt
  <2>4. got'[r.get] # Nil /\ \A x \in Gets : x # r.get => got'[x] = got[x]
    BY <1>12, <1>13
  <2>5. /\ CountDown(f, r.batchId) \in Book /\ BookIn(CountDown(f, r.batchId), v, q, next, phase)
        /\ LeftIn(CountDown(f, r.batchId), got') /\ BookKept(f, CountDown(f, r.batchId), v, "got")
    BY <1>8, <1>9, <1>12, <2>1, <2>2, <2>3, <2>4, CountDownIn
  <2> QED
    BY <2>5, Zenon
<1>15. /\ inflight'[q] = h /\ rresps'[q] = Tail(s)
       /\ \A p \in Queues : p # q => inflight'[p] = inflight[p] /\ rresps'[p] = rresps[p]
  BY <1>11, <1>14, FunTypes
<1>16. \A p \in Queues : p # q => UNCHANGED QueueVars(p)
  BY <1>11, <1>15 DEF QueueVars
<1>17. /\ \A x \in Gets : w[x] # "rresps" => v[x] = w[x]
       /\ \A x \in Gets : QueueOf[x] # q => v[x] = w[x] /\ got'[x] = got[x]
  BY <1>8, <1>9, <1>13
<1>18. BookKept(f, h, w, "rresps")
  <2>1. ASSUME NEW c \in DOMAIN f, NEW n \in 1 .. Len(f[c].reqs), w[f[c].reqs[n]] \notin {"rresps", "got"}
        PROVE  c \in DOMAIN h /\ h[c].reqs = f[c].reqs
    <3>1. f[c].reqs \in Seq(Gets)
      BY BookFacts
    <3>2. f[c].reqs[n] \in Gets
      BY <3>1
    <3>3. v[f[c].reqs[n]] \notin {"got"}
      BY <1>17, <2>1, <3>2
    <3> QED
      BY <1>14, <3>3 DEF BookKept
  <2> QED
    BY <2>1 DEF BookKept
<1>19. KeptAt(v, q, "rresps")
  <2>1. inflight'[q] \in Book /\ BookKept(inflight[q], inflight'[q], w, "rresps")
    BY <1>1, <1>15, <1>18
  <2> QED
    BY <1>3, <1>17, <2>1, KeepStages
<1>20. RecsIn(Tail(s), "rresps", v, q, h)
  <2>1. Tail(s) \in Seq(Response)
    BY <1>2, HeadFacts
  <2>2. \A n \in 1 .. Len(Tail(s)) : Tail(s)[n].get \in Gets
    BY <2>1, GetOfResponse
  <2>3. \A x \in Gets : v[x] # "got" => v[x] = v[x]
    OBVIOUS
  <2>4. BookKept(f, h, v, "got")
    BY <1>14
  <2> QED
    BY <1>9, <2>2, <2>3, <2>4, KeepRecs
<1>21. SeqsAt(v, q)'
  <2>1. RecsIn(rresps'[q], "rresps", v, q, inflight'[q])
    BY <1>15, <1>20, Zenon
  <2> QED
    BY <1>11, <1>19, <2>1 DEF SeqsAt, KeptAt
<1>22. QueueAt(v, q)'
  <2>1. BookIn(inflight'[q], v, q, nextCookie'[q], sw'[q]) /\ LeftIn(inflight'[q], got')
    <3>1. nextCookie'[q] = next /\ sw'[q] = phase
      BY <1>1, <1>11
    <3> QED
      BY <1>14, <1>15, <3>1, Zenon
  <2>2. ASSUME sw'[q] = "write"
        PROVE  /\ nextCookie'[q] - 1 \in DOMAIN inflight'[q]
               /\ inflight'[q][nextCookie'[q] - 1].reqs = requests'[q]
    <3>1. sw[q] = "write" /\ nextCookie'[q] = nextCookie[q] /\ requests'[q] = requests[q]
      BY <1>11, <2>2
    <3>2. PICK c : c = nextCookie[q] - 1
      OBVIOUS
    <3>3. c \in DOMAIN f /\ f[c].reqs = requests[q]
      BY <1>1, <1>3, <3>1, <3>2 DEF QueueAt
    <3>4. requests[q] \in Seq(Gets) /\ requests[q] # <<>> /\ GetsIn(requests[q], "requests", w, q)
      BY <1>3, <3>1, ItemTypes DEF QueueAt, SeqsAt, TypeInv, Phases
    <3>5. 1 \in 1 .. Len(requests[q])
      BY <3>4
    <3>6. w[f[c].reqs[1]] = "requests" /\ 1 \in 1 .. Len(f[c].reqs)
      BY <3>3, <3>4, <3>5 DEF GetsIn
    <3>7. w[f[c].reqs[1]] \notin {"rresps", "got"}
      BY <3>6
    <3>8. c \in DOMAIN h /\ h[c].reqs = f[c].reqs
      BY <1>18, <3>3, <3>6, <3>7 DEF BookKept
    <3> QED
      BY <1>15, <3>1, <3>2, <3>3, <3>8
  <2> QED
    BY <1>21, <2>1, <2>2, Zenon DEF QueueAt
<1>23. EntriesAt(v)'
  <2>1. \A p \in Queues : BookKept(inflight[p], inflight'[p], w, "rresps")
    <3> TAKE p \in Queues
    <3>1. CASE p = q
      BY <1>1, <1>15, <1>18, <3>1
    <3>2. CASE p # q
      BY <1>15, <3>2 DEF BookKept
    <3> QED
      BY <3>1, <3>2
  <2>2. \A e \in Entries : epc'[e] = "process" => epc[e] = "process" /\ ereq'[e] = ereq[e]
    BY <1>11
  <2> QED
    BY <1>3, <1>17, <2>1, <2>2, KeepEntries
<1>24. GetsAt(v)'
  <2>1. ASSUME NEW x \in Gets
        PROVE  /\ pc'[x] = "idle" => v[x] = "idle"
               /\ got'[x] # Nil => v[x] = "got" /\ got'[x].get = x /\ closed'[x] = 1
               /\ got'[x] = Nil => closed'[x] = 0
    <3>1. /\ pc[x] = "idle" => w[x] = "idle"
          /\ got[x] # Nil => w[x] = "got" /\ got[x].get = x /\ closed[x] = 1
          /\ got[x] = Nil => closed[x] = 0
      BY <1>3 DEF GetsAt
    <3>2. CASE x = r.get
      BY <1>8, <1>9, <1>11, <1>12, <1>13, <3>1, <3>2
    <3>3. CASE x # r.get
      BY <1>8, <1>11, <1>13, <3>1, <3>3
    <3> QED
      BY <3>2, <3>3
  <2> QED
    BY <2>1 DEF GetsAt
<1> QED
  BY <1>16, <1>17, <1>22, <1>23, <1>24, Composed

(* Before the first Get every request is with its caller. *)
LEMMA RouteInit == Init => RouteInv
<1> SUFFICES ASSUME Init PROVE RouteInv
  OBVIOUS
<1>1. PICK w : \A x \in Gets : w[x] = "idle"
  <2>1. \A x \in Gets : [y \in Gets |-> "idle"][x] = "idle"
    OBVIOUS
  <2> QED
    BY <2>1
<1>2. ASSUME NEW q \in Queues PROVE QueueAt(w, q)
  <2>1. /\ reqCH[q] = <<>> /\ requests[q] = <<>> /\ c2s[q] = <<>> /\ reqs[q] = <<>>
        /\ respCH[q] = <<>> /\ resps[q] = <<>> /\ s2c[q] = <<>> /\ rresps[q] = <<>>
        /\ inflight[q] = <<>> /\ sw[q] = "collect"
    BY DEF Init
  <2>2. Len(<<>>) = 0 /\ 1 .. 0 = {} /\ DOMAIN <<>> = {}
    OBVIOUS
  <2>3. SeqsAt(w, q)
    BY <2>1, <2>2 DEF SeqsAt, GetsIn, BatchesIn, RecsIn, NestedIn
  <2>4. BookIn(<<>>, w, q, nextCookie[q], sw[q]) /\ LeftIn(<<>>, got)
    BY <2>2 DEF BookIn, LeftIn
  <2> QED
    BY <2>1, <2>3, <2>4 DEF QueueAt
<1>3. EntriesAt(w)
  BY DEF Init, EntriesAt
<1>4. GetsAt(w)
  BY <1>1 DEF Init, GetsAt
<1>5. Routed(w)
  BY <1>2, <1>3, <1>4 DEF Routed
<1> QED
  BY <1>5 DEF RouteInv

(* Every step keeps each request and each response on its way. *)
LEMMA RouteStep == TypeInv /\ TypeInv' /\ RouteInv /\ [Next]_vars => RouteInv'
<1> SUFFICES ASSUME TypeInv, TypeInv', RouteInv, [Next]_vars PROVE RouteInv'
  OBVIOUS
<1>0. PICK w : Routed(w)
  BY DEF RouteInv
<1>1. ASSUME NEW g \in Gets, Submit(g) \/ GetReturns(g) PROVE RouteInv'
  <2>1. CASE Submit(g)
    BY <1>0, <2>1, SubmitRoute
  <2>2. CASE GetReturns(g)
    <3>1. /\ pc[g] = "wait" /\ pc' = [pc EXCEPT ![g] = "returned"]
          /\ UNCHANGED <<got, closed, reqCH, requests, sw, nextCookie, inflight, rresps, c2s, s2c,
                         reqs, respCH, resps, epc, ereq>>
      BY <2>2 DEF GetReturns, serverVars
    <3>2. \A x \in Gets : pc'[x] = "idle" => pc[x] = "idle"
      <4>1. pc \in [Gets -> {"idle", "wait", "returned"}]
        BY DEF TypeInv, TypeOK
      <4> QED
        BY <3>1, <4>1
    <3>3. \A q \in Queues : UNCHANGED QueueVars(q)
      BY <3>1 DEF QueueVars
    <3>4. \A e \in Entries : epc'[e] = "process" => epc[e] = "process" /\ ereq'[e] = ereq[e]
      BY <3>1
    <3> QED
      BY <1>0, <3>1, <3>2, <3>3, <3>4, QuietRoute
  <2> QED
    BY <1>1, <2>1, <2>2
<1>2. ASSUME NEW q \in Queues, ClientNext(q) PROVE RouteInv'
  <2>1. CASE Tick(q)
    <3>1. /\ sw[q] = "collect" /\ sw' = [sw EXCEPT ![q] = "register"]
          /\ UNCHANGED <<pc, got, closed, reqCH, requests, nextCookie, inflight, rresps, c2s, s2c,
                         reqs, respCH, resps, epc, ereq>>
      BY <2>1 DEF Tick, serverVars
    <3>2. sw'[q] = "register" /\ \A p \in Queues : p # q => sw'[p] = sw[p]
      BY <3>1, FunTypes
    <3>3. \A p \in Queues : p # q => UNCHANGED QueueVars(p)
      BY <3>1, <3>2 DEF QueueVars
    <3>4. SeqsAt(w, q)
      BY <1>0 DEF Routed, QueueAt
    <3>5. SeqsAt(w, q)'
      BY <3>1, <3>4 DEF SeqsAt
    <3>6. /\ \A x \in Gets : w[x] # "none" \/ QueueOf[x] # q => w[x] = w[x]
          /\ \A x \in Gets : \/ w[x] = w[x] \/ w[x] \notin {"idle", "reqCH", "requests"} \/ w[x] = "reqCH"
      OBVIOUS
    <3>7. /\ sw'[q] = "write" => sw[q] = "write" /\ requests'[q] = requests[q]
          /\ sw[q] = "write" => sw'[q] = "write" \/ \A x \in Gets : QueueOf[x] = q => w[x] # "requests"
      BY <3>1, <3>2
    <3>8. "none" \notin {"idle", "ereq", "got"}
      OBVIOUS
    <3> QED
      BY <1>0, <3>1, <3>3, <3>5, <3>6, <3>7, <3>8, MoveOn
  <2> QED
    BY <1>0, <1>2, <2>1, CollectRoute, FlushRegistersRoute, FlushWritesRoute, RecvResponsesRoute,
       DeliverRoute DEF ClientNext
<1>3. ASSUME NEW q \in Queues, BackendNext(q) PROVE RouteInv'
  <2>1. CASE SubmitReady(q)
    <3>1. UNCHANGED <<pc, got, closed, reqCH, requests, sw, nextCookie, inflight, rresps, c2s, s2c,
                      reqs, respCH, resps, epc, ereq>>
      BY <2>1 DEF SubmitReady, clientVars
    <3>2. \A p \in Queues : UNCHANGED QueueVars(p)
      BY <3>1 DEF QueueVars
    <3>3. /\ \A e \in Entries : epc'[e] = "process" => epc[e] = "process" /\ ereq'[e] = ereq[e]
          /\ \A x \in Gets : pc'[x] = "idle" => pc[x] = "idle"
      BY <3>1
    <3> QED
      BY <1>0, <3>1, <3>2, <3>3, QuietRoute
  <2>2. CASE SubmitNew(q)
    <3>1. PICK e \in Entries : epc[e] = "off" /\ Run(e, q)
      BY <2>2 DEF SubmitNew
    <3>2. /\ reqs[q] # <<>> /\ epc[e] # "process"
          /\ UNCHANGED <<pc, got, closed, reqCH, requests, sw, nextCookie, inflight, rresps, c2s, s2c,
                         respCH, resps>>
      BY <2>2, <3>1 DEF SubmitNew, clientVars
    <3> QED
      BY <1>0, <3>1, <3>2, RunRoute
  <2>3. CASE HandOver(q)
    <3>1. /\ handoff[q] # Nil /\ epc[handoff[q]] = "recv" /\ Run(handoff[q], q)
          /\ UNCHANGED <<pc, got, closed, reqCH, requests, sw, nextCookie, inflight, rresps, c2s, s2c,
                         respCH, resps>>
      BY <2>3 DEF HandOver, clientVars
    <3>2. handoff[q] \in Entries /\ reqs[q] # <<>> /\ epc[handoff[q]] # "process"
      BY <3>1 DEF TypeInv, TypeOK, Phases
    <3> QED
      BY <1>0, <3>1, <3>2, RunRoute
  <2> QED
    BY <1>0, <1>3, <2>1, <2>2, <2>3, RecvRequestsRoute, CollectResponseRoute, FlushResponsesRoute
    DEF BackendNext
<1>4. ASSUME NEW e \in Entries, WorkerNext(e) PROVE RouteInv'
  <2>1. CASE ProcessRequest(e)
    BY <1>0, <2>1, ProcessRequestRoute
  <2>2. CASE BecomeReady(e)
    <3>1. /\ epc[e] = "done" /\ epc' = [epc EXCEPT ![e] = "recv"]
          /\ UNCHANGED <<pc, got, closed, reqCH, requests, sw, nextCookie, inflight, rresps, c2s, s2c,
                         reqs, respCH, resps, ereq>>
      BY <2>2 DEF BecomeReady, clientVars
    <3>2. \A p \in Queues : UNCHANGED QueueVars(p)
      BY <3>1 DEF QueueVars
    <3>3. /\ \A x \in Entries : epc'[x] = "process" => epc[x] = "process" /\ ereq'[x] = ereq[x]
          /\ \A x \in Gets : pc'[x] = "idle" => pc[x] = "idle"
      <4>1. epc \in [Entries -> {"off", "recv", "process", "done"}]
        BY DEF TypeInv, TypeOK
      <4> QED
        BY <3>1, <4>1
    <3> QED
      BY <1>0, <3>1, <3>2, <3>3, QuietRoute
  <2> QED
    BY <1>4, <2>1, <2>2 DEF WorkerNext
<1>5. ASSUME UNCHANGED vars PROVE RouteInv'
  <2>1. UNCHANGED <<pc, got, closed, reqCH, requests, sw, nextCookie, inflight, rresps, c2s, s2c,
                    reqs, respCH, resps, epc, ereq>>
    BY <1>5 DEF vars, clientVars, serverVars
  <2>2. \A p \in Queues : UNCHANGED QueueVars(p)
    BY <2>1 DEF QueueVars
  <2>3. /\ \A e \in Entries : epc'[e] = "process" => epc[e] = "process" /\ ereq'[e] = ereq[e]
        /\ \A x \in Gets : pc'[x] = "idle" => pc[x] = "idle"
    BY <2>1
  <2> QED
    BY <1>0, <2>1, <2>2, <2>3, QuietRoute
<1> QED
  BY <1>1, <1>2, <1>3, <1>4, <1>5 DEF Next, Finished

(* The types and the ways of the requests, in every state. *)
LEMMA RouteAlways == Spec => [](TypeInv /\ RouteInv)
<1>1. Init => TypeInv /\ RouteInv
  BY JNetInit, RouteInit
<1>2. TypeInv /\ RouteInv /\ [Next]_vars => (TypeInv /\ RouteInv)'
  BY NextTypes, RouteStep
<1> QED
  BY <1>1, <1>2, PTL DEF Spec

(* IOQueue's recvWorker gives every Get the response to its own request    *)
(* and closes req.wait once, for any number of Gets and connections and    *)
(* any sizes of channels and batches.                                      *)
THEOREM ResponsesToRequesters == Spec => []ResponseToRequester
<1>1. RouteInv => ResponseToRequester
  BY DEF RouteInv, Routed, GetsAt, ResponseToRequester
<1> QED
  BY <1>1, RouteAlways, PTL

(* recvWorker finds the batch of every response in inflightBatches, and    *)
(* left is the number of the batch's requests without an answer.           *)
THEOREM InflightIsExact == Spec => []InflightExact
<1>1. TypeInv /\ RouteInv => InflightExact
  <2> SUFFICES ASSUME TypeInv, RouteInv, NEW q \in Queues
               PROVE  /\ \A n \in DOMAIN rresps[q] : rresps[q][n].batchId \in DOMAIN inflight[q]
                      /\ \A c \in DOMAIN inflight[q] :
                           inflight[q][c].left = Cardinality(
                             {n \in DOMAIN inflight[q][c].reqs : got[inflight[q][c].reqs[n]] = Nil})
    BY DEF InflightExact
  <2>1. PICK w : QueueAt(w, q)
    BY DEF RouteInv, Routed
  <2>2. \A n \in 1 .. Len(rresps[q]) : rresps[q][n].batchId \in DOMAIN inflight[q]
    BY <2>1 DEF QueueAt, SeqsAt, RecsIn, InBook
  <2>3. DOMAIN rresps[q] = 1 .. Len(rresps[q])
    BY ItemTypes
  <2>4. ASSUME NEW c \in DOMAIN inflight[q]
        PROVE  inflight[q][c].left = Cardinality(
                 {n \in DOMAIN inflight[q][c].reqs : got[inflight[q][c].reqs[n]] = Nil})
    <3>1. inflight[q][c].left = Cardinality(Open(inflight[q][c].reqs, got))
      BY <2>1 DEF QueueAt, LeftIn
    <3>2. inflight[q][c].reqs \in Seq(Gets)
      BY ItemTypes, BookFacts
    <3>3. DOMAIN inflight[q][c].reqs = 1 .. Len(inflight[q][c].reqs)
      BY <3>2
    <3> QED
      BY <3>1, <3>3 DEF Open
  <2> QED
    BY <2>2, <2>3, <2>4
<1> QED
  BY <1>1, RouteAlways, PTL

-----------------------------------------------------------------------------
(* Error codes. *)

(* No response in s has an error. *)
NoErr(s) == \A n \in 1 .. Len(s) : ~s[n].err

CleanAt(q) == /\ NoErr(respCH[q]) /\ NoErr(resps[q]) /\ NoErr(rresps[q])
              /\ \A n \in 1 .. Len(s2c[q]) : NoErr(s2c[q][n])

Clean == stale = 0 /\ (\A q \in Queues : CleanAt(q)) /\ \A g \in Gets : got[g] # Nil => ~got[g].err

(* Before the first invalid command no response anywhere has an error, and *)
(* no object in respPool.                                                  *)
CleanInv == (\A g \in Invalid : pc[g] = "idle") => Clean

(* The queue without its first response. *)
LEMMA NoErrTail ==
  ASSUME NEW s \in Seq(Response), s # <<>>, NoErr(s)
  PROVE  NoErr(Tail(s)) /\ ~Head(s).err /\ Head(s) \in Response
<1>1. /\ Head(s) \in Response /\ Head(s) = s[1] /\ Len(s) \in Nat \ {0} /\ Len(Tail(s)) = Len(s) - 1
      /\ \A i \in 1 .. Len(s) - 1 : Tail(s)[i] = s[i + 1]
  BY HeadFacts
<1>2. 1 \in 1 .. Len(s) /\ \A i \in 1 .. Len(s) - 1 : i + 1 \in 1 .. Len(s)
  BY <1>1
<1> QED
  BY <1>1, <1>2 DEF NoErr

(* And with one more that has no error. *)
LEMMA NoErrAppend ==
  ASSUME NEW s \in Seq(Response), NEW r \in Response, NoErr(s), ~r.err
  PROVE  NoErr(Append(s, r))
<1>1. /\ Len(Append(s, r)) = Len(s) + 1 /\ Len(s) \in Nat
      /\ \A i \in 1 .. Len(s) : Append(s, r)[i] = s[i]
      /\ Append(s, r)[Len(s) + 1] = r
  BY AppendFacts
<1>2. \A n \in 1 .. Len(s) + 1 : n \in 1 .. Len(s) \/ n = Len(s) + 1
  BY <1>1
<1> QED
  BY <1>1, <1>2 DEF NoErr

(* A worker of the pool answers without error while no invalid command has *)
(* been submitted.                                                         *)
LEMMA ProcessClean ==
  ASSUME TypeInv, RouteInv, \A g \in Invalid : pc[g] = "idle", Clean,
         NEW e \in Entries, ProcessRequest(e)
  PROVE  Clean'
<1>1. epc[e] = "process" /\ ereq[e] \in Request
  BY DEF ProcessRequest, TypeInv, Phases
<1>2. PICK req \in Request, q \in Queues : req = ereq[e] /\ q = ereq[e].queue /\ req.get \in Gets
  BY <1>1 DEF Request
<1>3. req.get \notin Invalid
  <2>1. PICK w : Routed(w)
    BY DEF RouteInv
  <2>2. w[req.get] = "ereq"
    BY <1>1, <1>2, <2>1 DEF Routed, EntriesAt
  <2>3. pc[req.get] # "idle"
    BY <1>2, <2>1, <2>2 DEF Routed, GetsAt
  <2> QED
    BY <2>3
<1>4. PICK dirty \in BOOLEAN :
        /\ dirty => stale > 0
        /\ stale' = IF dirty THEN stale - 1 ELSE stale
        /\ respCH' = [respCH EXCEPT ![q] = Append(@, Answer(req, dirty \/ req.get \in Invalid))]
  BY <1>2 DEF ProcessRequest
<1>5. ~dirty /\ stale' = 0
  BY <1>4 DEF Clean
<1>6. PICK r \in Response : r = Answer(req, FALSE) /\ ~r.err
  <2>1. req.get \in Gets /\ req.batchId \in Nat /\ req.idx \in Nat
    BY DEF Request
  <2>2. Answer(req, FALSE) \in Response /\ ~Answer(req, FALSE).err
    BY <2>1 DEF Answer, Response
  <2> QED
    BY <2>2
<1>7. respCH' = [respCH EXCEPT ![q] = Append(respCH[q], r)]
  <2>1. (dirty \/ req.get \in Invalid) = FALSE
    BY <1>3, <1>5
  <2>2. Answer(req, dirty \/ req.get \in Invalid) = r
    BY <1>6, <2>1
  <2> QED
    BY <1>4, <2>2
<1>8. respCH'[q] = Append(respCH[q], r) /\ \A p \in Queues : p # q => respCH'[p] = respCH[p]
  BY <1>7, FunTypes
<1>9. NoErr(Append(respCH[q], r))
  BY <1>6, ItemTypes, NoErrAppend DEF Clean, CleanAt
<1>10. UNCHANGED <<got, resps, rresps, s2c>>
  BY DEF ProcessRequest, clientVars
<1>11. \A p \in Queues : CleanAt(p)'
  <2> TAKE p \in Queues
  <2>1. CleanAt(p)
    BY DEF Clean
  <2>2. NoErr(respCH'[p])
    BY <1>8, <1>9, <2>1 DEF CleanAt
  <2> QED
    BY <1>10, <2>1, <2>2 DEF CleanAt
<1> QED
  BY <1>5, <1>10, <1>11 DEF Clean

(* Responses without error stay so on their way. *)
LEMMA CleanStep == TypeInv /\ RouteInv /\ CleanInv /\ [Next]_vars => CleanInv'
<1> SUFFICES ASSUME TypeInv, RouteInv, CleanInv, [Next]_vars, \A g \in Invalid : pc'[g] = "idle"
             PROVE  Clean'
  BY DEF CleanInv
<1>0. \A g \in Invalid : pc[g] = "idle"
  <2>1. \A g \in Gets : pc'[g] = "idle" => pc[g] = "idle"
    <3>0. pc \in [Gets -> {"idle", "wait", "returned"}]
      BY DEF TypeInv, TypeOK
    <3>1. ASSUME NEW g \in Gets, Submit(g) \/ GetReturns(g)
          PROVE  \A x \in Gets : pc'[x] = "idle" => pc[x] = "idle"
      BY <3>0, <3>1 DEF Submit, GetReturns
    <3>2. ASSUME NEW q \in Queues, ClientNext(q) \/ BackendNext(q) PROVE pc' = pc
      BY <3>2 DEF ClientNext, BackendNext, Collect, Tick, FlushRegisters, FlushWrites, RecvResponses,
                  Deliver, RecvRequests, SubmitReady, SubmitNew, HandOver, CollectResponse,
                  FlushResponses, clientVars
    <3>3. ASSUME NEW e \in Entries, WorkerNext(e) PROVE pc' = pc
      BY <3>3 DEF WorkerNext, ProcessRequest, BecomeReady, clientVars
    <3>4. ASSUME UNCHANGED vars PROVE pc' = pc
      BY <3>4 DEF vars, clientVars
    <3> QED
      BY <3>1, <3>2, <3>3, <3>4 DEF Next, Finished
  <2> QED
    BY <2>1, JNetAssumption
<1>1. Clean
  BY <1>0 DEF CleanInv
<1>2. ASSUME UNCHANGED <<stale, respCH, resps, rresps, s2c, got>> PROVE Clean'
  BY <1>1, <1>2 DEF Clean, CleanAt
<1>3. ASSUME NEW g \in Gets, Submit(g) \/ GetReturns(g) PROVE Clean'
  BY <1>2, <1>3 DEF Submit, GetReturns, serverVars
<1>4. ASSUME NEW q \in Queues, ClientNext(q) PROVE Clean'
  <2>1. CASE RecvResponses(q)
    <3>1. /\ s2c[q] # <<>> /\ rresps' = [rresps EXCEPT ![q] = Head(s2c[q])]
          /\ s2c' = [s2c EXCEPT ![q] = Tail(@)] /\ UNCHANGED <<stale, respCH, resps, got>>
      BY <2>1 DEF RecvResponses, serverVars
    <3>2. /\ s2c'[q] = Tail(s2c[q]) /\ rresps'[q] = Head(s2c[q])
          /\ \A p \in Queues : p # q => s2c'[p] = s2c[p] /\ rresps'[p] = rresps[p]
      BY <3>1, FunTypes
    <3>3. PICK s \in Seq(Seq(Response)) : s = s2c[q]
      BY ItemTypes
    <3>4. s # <<>> /\ \A n \in 1 .. Len(s) : NoErr(s[n])
      BY <1>1, <3>1, <3>3 DEF Clean, CleanAt
    <3>5. /\ Head(s) = s[1] /\ Len(s) \in Nat \ {0} /\ Len(Tail(s)) = Len(s) - 1
          /\ \A i \in 1 .. Len(s) - 1 : Tail(s)[i] = s[i + 1]
      BY <3>4, HeadFacts
    <3>6. 1 \in 1 .. Len(s) /\ \A i \in 1 .. Len(s) - 1 : i + 1 \in 1 .. Len(s)
      BY <3>5
    <3>7. NoErr(Head(s)) /\ \A i \in 1 .. Len(Tail(s)) : NoErr(Tail(s)[i])
      BY <3>4, <3>5, <3>6
    <3>8. \A p \in Queues : CleanAt(p)'
      <4> TAKE p \in Queues
      <4>1. CleanAt(p)
        BY <1>1 DEF Clean
      <4>2. NoErr(rresps'[p]) /\ \A n \in 1 .. Len(s2c'[p]) : NoErr(s2c'[p][n])
        <5>1. CASE p = q
          BY <3>2, <3>3, <3>7, <5>1
        <5>2. CASE p # q
          BY <3>2, <4>1, <5>2 DEF CleanAt
        <5> QED
          BY <5>1, <5>2
      <4> QED
        BY <3>1, <4>1, <4>2 DEF CleanAt
    <3> QED
      BY <1>1, <3>1, <3>8 DEF Clean
  <2>2. CASE Deliver(q)
    <3>1. /\ rresps[q] # <<>> /\ rresps' = [rresps EXCEPT ![q] = Tail(@)]
          /\ \/ \E g : got' = [got EXCEPT ![g] = Head(rresps[q])]
             \/ got' = got
          /\ UNCHANGED <<stale, respCH, resps, s2c>>
      BY <2>2 DEF Deliver, serverVars
    <3>2. /\ rresps'[q] = Tail(rresps[q]) /\ \A p \in Queues : p # q => rresps'[p] = rresps[p]
      BY <3>1, FunTypes
    <3>3. NoErr(Tail(rresps[q])) /\ ~Head(rresps[q]).err
      BY <1>1, <3>1, ItemTypes, NoErrTail DEF Clean, CleanAt
    <3>4. \A p \in Queues : CleanAt(p)'
      <4> TAKE p \in Queues
      <4>1. CleanAt(p)
        BY <1>1 DEF Clean
      <4>2. NoErr(rresps'[p])
        BY <3>2, <3>3, <4>1 DEF CleanAt
      <4> QED
        BY <3>1, <4>1, <4>2 DEF CleanAt
    <3>5. \A g \in Gets : got'[g] # Nil => ~got'[g].err
      <4>1. got \in [Gets -> Response \cup {Nil}] /\ \A g \in Gets : got[g] # Nil => ~got[g].err
        BY <1>1 DEF TypeInv, TypeOK, Clean
      <4>2. \A g \in Gets : got'[g] = got[g] \/ got'[g] = Head(rresps[q])
        BY <3>1, <4>1
      <4> QED
        BY <3>3, <4>1, <4>2
    <3> QED
      BY <1>1, <3>1, <3>4, <3>5 DEF Clean
  <2> QED
    BY <1>2, <1>4, <2>1, <2>2 DEF ClientNext, Collect, Tick, FlushRegisters, FlushWrites, serverVars
<1>5. ASSUME NEW q \in Queues, BackendNext(q) PROVE Clean'
  <2>1. CASE CollectResponse(q)
    <3>1. /\ respCH[q] # <<>> /\ resps' = [resps EXCEPT ![q] = Append(@, Head(respCH[q]))]
          /\ respCH' = [respCH EXCEPT ![q] = Tail(@)] /\ UNCHANGED <<stale, rresps, s2c, got>>
      BY <2>1 DEF CollectResponse, clientVars
    <3>2. /\ respCH'[q] = Tail(respCH[q]) /\ resps'[q] = Append(resps[q], Head(respCH[q]))
          /\ \A p \in Queues : p # q => respCH'[p] = respCH[p] /\ resps'[p] = resps[p]
      BY <3>1, FunTypes
    <3>3. NoErr(Tail(respCH[q])) /\ ~Head(respCH[q]).err /\ Head(respCH[q]) \in Response
      BY <1>1, <3>1, ItemTypes, NoErrTail DEF Clean, CleanAt
    <3>4. NoErr(Append(resps[q], Head(respCH[q])))
      BY <1>1, <3>3, ItemTypes, NoErrAppend DEF Clean, CleanAt
    <3>5. \A p \in Queues : CleanAt(p)'
      <4> TAKE p \in Queues
      <4>1. CleanAt(p)
        BY <1>1 DEF Clean
      <4>2. NoErr(respCH'[p]) /\ NoErr(resps'[p])
        <5>1. CASE p = q
          BY <3>2, <3>3, <3>4, <5>1
        <5>2. CASE p # q
          BY <3>2, <4>1, <5>2 DEF CleanAt
        <5> QED
          BY <5>1, <5>2
      <4> QED
        BY <3>1, <4>1, <4>2 DEF CleanAt
    <3> QED
      BY <1>1, <3>1, <3>5 DEF Clean
  <2>2. CASE FlushResponses(q)
    <3>1. /\ s2c' = [s2c EXCEPT ![q] = Append(@, resps[q])] /\ resps' = [resps EXCEPT ![q] = <<>>]
          /\ stale' = stale + Cardinality({n \in DOMAIN resps[q] : resps[q][n].err})
          /\ UNCHANGED <<respCH, rresps, got>>
      BY <2>2 DEF FlushResponses, clientVars
    <3>2. PICK s \in Seq(Seq(Response)), r \in Seq(Response) : s = s2c[q] /\ r = resps[q]
      BY ItemTypes
    <3>3. NoErr(r) /\ \A n \in 1 .. Len(s) : NoErr(s[n])
      BY <1>1, <3>2 DEF Clean, CleanAt
    <3>4. stale' = 0
      <4>1. {n \in DOMAIN r : r[n].err} = {}
        BY <3>3 DEF NoErr
      <4>2. Cardinality({n \in DOMAIN r : r[n].err}) = 0
        BY <4>1, FS_EmptySet
      <4> QED
        BY <1>1, <3>1, <3>2, <4>2 DEF Clean
    <3>5. /\ s2c'[q] = Append(s, r) /\ resps'[q] = <<>>
          /\ \A p \in Queues : p # q => s2c'[p] = s2c[p] /\ resps'[p] = resps[p]
      BY <3>1, <3>2, FunTypes
    <3>6. /\ Len(Append(s, r)) = Len(s) + 1 /\ Len(s) \in Nat
          /\ \A i \in 1 .. Len(s) : Append(s, r)[i] = s[i]
          /\ Append(s, r)[Len(s) + 1] = r
      BY AppendFacts
    <3>7. \A n \in 1 .. Len(s) + 1 : n \in 1 .. Len(s) \/ n = Len(s) + 1
      BY <3>6
    <3>8. \A n \in 1 .. Len(Append(s, r)) : NoErr(Append(s, r)[n])
      BY <3>3, <3>6, <3>7
    <3>9. \A p \in Queues : CleanAt(p)'
      <4> TAKE p \in Queues
      <4>1. CleanAt(p)
        BY <1>1 DEF Clean
      <4>2. NoErr(resps'[p]) /\ \A n \in 1 .. Len(s2c'[p]) : NoErr(s2c'[p][n])
        <5>1. CASE p = q
          <6>1. NoErr(<<>>)
            BY DEF NoErr
          <6> QED
            BY <3>5, <3>8, <5>1, <6>1
        <5>2. CASE p # q
          BY <3>5, <4>1, <5>2 DEF CleanAt
        <5> QED
          BY <5>1, <5>2
      <4> QED
        BY <3>1, <4>1, <4>2 DEF CleanAt
    <3> QED
      BY <1>1, <3>1, <3>4, <3>9 DEF Clean
  <2> QED
    BY <1>2, <1>5, <2>1, <2>2 DEF BackendNext, RecvRequests, SubmitReady, SubmitNew, HandOver, clientVars
<1>6. ASSUME NEW e \in Entries, WorkerNext(e) PROVE Clean'
  <2>1. CASE ProcessRequest(e)
    BY <1>0, <1>1, <2>1, ProcessClean
  <2>2. CASE BecomeReady(e)
    BY <1>2, <2>2 DEF BecomeReady, clientVars
  <2> QED
    BY <1>6, <2>1, <2>2 DEF WorkerNext
<1>7. ASSUME UNCHANGED vars PROVE Clean'
  BY <1>2, <1>7 DEF vars, clientVars, serverVars
<1> QED
  BY <1>3, <1>4, <1>5, <1>6, <1>7 DEF Next, Finished

(* An error code in a response needs an invalid command before it: what    *)
(* respPool hands out to processRequest is clean until then.               *)
THEOREM ErrorsHaveCause == Spec => []ErrorsNeedInvalid
<1>1. Init => CleanInv
  BY DEF Init, CleanInv, Clean, CleanAt, NoErr
<1>2. CleanInv => ErrorsNeedInvalid
  BY DEF CleanInv, Clean, ErrorsNeedInvalid
<1> QED
  BY <1>1, <1>2, RouteAlways, CleanStep, PTL DEF Spec
=============================================================================
