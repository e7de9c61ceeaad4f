---------------------------- MODULE IORPCServer ----------------------------
(***************************************************************************)
(* The RPC server of pkg/iorpc/server.go: an acceptor; for every           *)
(* connection a reader that starts one goroutine per request and a writer  *)
(* that encodes the responses; workersCh, shared by all connections, which *)
(* bounds the running handlers; and serverMessagePool, whose objects carry *)
(* a request from the reader to its worker and the response on to the      *)
(* writer.  Clients are the environment.                                   *)
(***************************************************************************)
EXTENDS Integers, Sequences, FiniteSets, Functions

CONSTANTS
  Requests,          \* what the clients send
  ConnOf, IDOf,      \* on which connection, with which wire ID (0: no response wanted)
  Conns,             \* the connections clients open, each once
  Workers,           \* the goroutines that run serveRequest
  Concurrency,       \* capacity of workersCh
  PendingResponses,  \* capacity of a responsesChan
  Messages,          \* the serverMessage objects
  Nil,               \* a nil pointer
  MaxStarts,         \* bound: how often the application calls Start
  MaxErrors          \* bound: failures of the network, of Accept and of Listener.Init

ASSUME RequestsAssumption == ConnOf \in [Requests -> Conns] /\ IDOf \in [Requests -> Nat]
ASSUME DistinctIDs == \A p, q \in Requests :
  p # q /\ ConnOf[p] = ConnOf[q] /\ IDOf[p] # 0 => IDOf[p] # IDOf[q]
ASSUME NilAssumption == Nil \notin Requests \cup Messages \cup Conns
ASSUME ServerSizes == /\ Concurrency \in Nat \ {0} /\ PendingResponses \in Nat \ {0}
                      /\ MaxStarts \in Nat /\ MaxErrors \in Nat

VARIABLES
  \* Server
  stopChan,   \* serverStopChan: "nil", "open" or "closed"
  starts,     \* how often Start has been called
  listener,   \* "none" (ListenAddr() is nil), "open" or "closed"
  a,          \* serverHandler: where it is
  workersCh,  \* number of tokens in the workersCh of every Start
  errors,     \* failures so far
  \* serverMessage
  pool,       \* the serverMessages nobody refers to
  mID, mRequest, mResponse,
  \* serveRequest goroutines
  wpc, wm,    \* where it is, its m (Nil once it is back in the pool)
  wreq, wconn,\* its request, the connection it answers to
  wch,        \* the Start whose workersCh it has a token of
  \* per connection
  s, link,    \* serverHandleConnection: where it is; the net.Conn
  unsent,     \* requests the clients have yet to send
  in,         \* requests sent by the client and not yet decoded
  rd, rm,     \* serverReader: where it is, its m
  responses,  \* responsesChan
  wr, wrsp,   \* serverWriter: where it is, its wireResponse
  buf, out    \* responses in the encoder's buffer; responses on the wire

server  == <<stopChan, starts, listener, a>>
message == <<pool, mID, mRequest, mResponse>>
worker  == <<wpc, wm, wreq, wconn, wch>>
reader  == <<unsent, in, rd, rm>>
writer  == <<wr, wrsp, buf, out>>
vars    == <<server, workersCh, errors, message, worker, s, link, reader, responses, writer>>

(* A response carries an ID and what the handler made of some request. *)
Responses == [id : Nat, of : Requests \cup {Nil}]

TypeOK ==
  /\ stopChan \in {"nil", "open", "closed"} /\ starts \in 0 .. MaxStarts
  /\ listener \in {"none", "open", "closed"} /\ a \in {"off", "accept", "backoff"}
  /\ workersCh \in [1 .. MaxStarts -> 0 .. Concurrency] /\ errors \in 0 .. MaxErrors
  /\ pool \subseteq Messages /\ mID \in [Messages -> Nat]
  /\ mRequest \in [Messages -> Requests \cup {Nil}]
  /\ mResponse \in [Messages -> Requests \cup {Nil}]
  /\ wpc \in [Workers -> {"idle", "start", "handle", "push", "wait", "release"}]
  /\ wm \in [Workers -> Messages \cup {Nil}] /\ wreq \in [Workers -> Requests \cup {Nil}]
  /\ wconn \in [Workers -> Conns \cup {Nil}] /\ wch \in [Workers -> 0 .. MaxStarts]
  /\ s \in [Conns -> {"off", "handshake", "run", "closing", "ended"}]
  /\ link \in [Conns -> {"none", "up", "broken", "closed"}]
  /\ unsent \subseteq Requests /\ in \in [Conns -> Seq(Requests)]
  /\ rd \in [Conns -> {"off", "read", "have", "wait", "spin", "done"}]
  /\ rm \in [Conns -> Messages \cup {Nil}]
  /\ responses \in [Conns -> Seq(Messages)]
  /\ \A c \in Conns : Len(responses[c]) <= PendingResponses
  /\ wr \in [Conns -> {"off", "loop", "select", "encode", "done"}]
  /\ wrsp \in [Conns -> Responses]
  /\ buf \in [Conns -> Seq(Responses)] /\ out \in [Conns -> Seq(Responses)]

NoResponse == [id |-> 0, of |-> Nil]

Init ==
  /\ stopChan = "nil" /\ starts = 0 /\ listener = "none" /\ a = "off"
  /\ workersCh = [n \in 1 .. MaxStarts |-> 0] /\ errors = 0
  /\ pool = Messages /\ mID = [m \in Messages |-> 0]
  /\ mRequest = [m \in Messages |-> Nil] /\ mResponse = [m \in Messages |-> Nil]
  /\ wpc = [x \in Workers |-> "idle"] /\ wm = [x \in Workers |-> Nil]
  /\ wreq = [x \in Workers |-> Nil] /\ wconn = [x \in Workers |-> Nil]
  /\ wch = [x \in Workers |-> 0]
  /\ s = [c \in Conns |-> "off"] /\ link = [c \in Conns |-> "none"]
  /\ unsent = Requests /\ in = [c \in Conns |-> <<>>] /\ rd = [c \in Conns |-> "off"] /\ rm = [c \in Conns |-> Nil]
  /\ responses = [c \in Conns |-> <<>>]
  /\ wr = [c \in Conns |-> "off"] /\ wrsp = [c \in Conns |-> NoResponse]
  /\ buf = [c \in Conns |-> <<>>] /\ out = [c \in Conns |-> <<>>]

-----------------------------------------------------------------------------
(* Start, Stop and serverHandler. *)

(* The listener is initialised only if it has no address yet, and it keeps *)
(* its address when it is closed.                                          *)
Start ==
  /\ stopChan = "nil" /\ starts < MaxStarts
  /\ stopChan' = "open" /\ starts' = starts + 1 /\ a' = "accept"
  /\ listener' = IF listener = "none" THEN "open" ELSE listener
  /\ UNCHANGED <<workersCh, errors, message, worker, s, link, reader, responses, writer>>

(* The address cannot be listened on: Start returns the error, but leaves  *)
(* serverStopChan open, as if the server were running.                     *)
StartFails ==
  /\ stopChan = "nil" /\ starts < MaxStarts /\ listener = "none"
  /\ errors < MaxErrors /\ errors' = errors + 1
  /\ stopChan' = "open" /\ starts' = starts + 1
  /\ UNCHANGED <<listener, a, workersCh, message, worker, s, link, reader, responses, writer>>

Stop ==
  /\ stopChan = "open" /\ stopChan' = "closed"
  /\ UNCHANGED <<starts, listener, a, workersCh, errors, message, worker, s, link, reader,
                 responses, writer>>

(* stopWg counts serverHandler and the connections, not the workers: they  *)
(* may outlive Stop, and the next Start makes a workersCh of its own.      *)
StopReturns ==
  /\ stopChan = "closed" /\ a = "off" /\ \A c \in Conns : s[c] \in {"off", "ended"}
  /\ stopChan' = "nil"
  /\ UNCHANGED <<starts, listener, a, workersCh, errors, message, worker, s, link, reader,
                 responses, writer>>

Accept(c) ==
  /\ a = "accept" /\ listener = "open" /\ s[c] = "off"
  /\ s' = [s EXCEPT ![c] = "handshake"] /\ link' = [link EXCEPT ![c] = "up"]
  /\ UNCHANGED <<server, workersCh, errors, message, worker, reader, responses, writer>>

(* Accept fails at once on a closed listener, and now and then on an open  *)
(* one; then serverHandler pauses for a second.                            *)
AcceptFails ==
  /\ a = "accept" /\ a' = "backoff"
  /\ \/ listener = "closed" /\ UNCHANGED errors
     \/ listener = "open" /\ errors < MaxErrors /\ errors' = errors + 1
  /\ UNCHANGED <<stopChan, starts, listener, workersCh, message, worker, s, link, reader,
                 responses, writer>>

AcceptAgain ==
  /\ a = "backoff" /\ a' = "accept"
  /\ UNCHANGED <<stopChan, starts, listener, workersCh, errors, message, worker, s, link,
                 reader, responses, writer>>

(* The listener is closed only by the select around Accept. *)
AcceptStops ==
  /\ stopChan = "closed" /\ a \in {"accept", "backoff"} /\ a' = "off"
  /\ listener' = IF a = "accept" THEN "closed" ELSE listener
  /\ UNCHANGED <<stopChan, starts, workersCh, errors, message, worker, s, link, reader,
                 responses, writer>>

-----------------------------------------------------------------------------
(* serverHandleConnection. *)

Handshake(c) ==
  /\ s[c] = "handshake" /\ s' = [s EXCEPT ![c] = "run"]
  /\ rd' = [rd EXCEPT ![c] = "read"] /\ wr' = [wr EXCEPT ![c] = "loop"]
  /\ UNCHANGED <<server, workersCh, errors, message, worker, link, unsent, in, rm, responses, wrsp,
                 buf, out>>

(* OnConnect refuses, the handshake byte cannot be read or does not come   *)
(* within 10 seconds, or the server is stopped.                            *)
HandshakeFails(c) ==
  /\ s[c] = "handshake" /\ s' = [s EXCEPT ![c] = "ended"]
  /\ link' = [link EXCEPT ![c] = "closed"]
  /\ UNCHANGED <<server, workersCh, errors, message, worker, reader, responses, writer>>

(* Mutant: serverStopChan is missing from the select. *)
ConnClosesOnError(c) ==
  /\ s[c] = "run" /\ (rd[c] = "done" \/ wr[c] = "done")
  /\ s' = [s EXCEPT ![c] = "closing"] /\ link' = [link EXCEPT ![c] = "closed"]
  /\ UNCHANGED <<server, workersCh, errors, message, worker, reader, responses, writer>>

(* stopChan of the connection is closed together with the net.Conn. *)
ConnCloses(c) ==
  /\ s[c] = "run" /\ (rd[c] = "done" \/ wr[c] = "done" \/ stopChan = "closed")
  /\ s' = [s EXCEPT ![c] = "closing"] /\ link' = [link EXCEPT ![c] = "closed"]
  /\ UNCHANGED <<server, workersCh, errors, message, worker, reader, responses, writer>>

ConnEnds(c) ==
  /\ s[c] = "closing" /\ rd[c] = "done" /\ wr[c] = "done"
  /\ s' = [s EXCEPT ![c] = "ended"]
  /\ UNCHANGED <<server, workersCh, errors, message, worker, link, reader, responses, writer>>

-----------------------------------------------------------------------------
(* serverReader. *)

(* Mutant: m.ID keeps the value of the request that used m before. *)
ReaderDecodesStale(c) ==
  /\ rd[c] = "read" /\ link[c] # "closed" /\ in[c] # <<>>
  /\ rd' = [rd EXCEPT ![c] = "have"]
  /\ in' = [in EXCEPT ![c] = Tail(@)]
  /\ \E m \in pool : /\ pool' = pool \ {m} /\ rm' = [rm EXCEPT ![c] = m]
                     /\ mID' = IF mID[m] = 0 THEN [mID EXCEPT ![m] = IDOf[Head(in[c])]] ELSE mID
                     /\ mRequest' = [mRequest EXCEPT ![m] = Head(in[c])]
  /\ UNCHANGED <<server, workersCh, errors, mResponse, worker, s, link, unsent, responses, writer>>

ReaderDecodes(c) ==
  /\ rd[c] = "read" /\ link[c] # "closed" /\ in[c] # <<>>
  /\ rd' = [rd EXCEPT ![c] = "have"]
  /\ in' = [in EXCEPT ![c] = Tail(@)]
  /\ \E m \in pool : /\ pool' = pool \ {m} /\ rm' = [rm EXCEPT ![c] = m]
                     /\ mID' = [mID EXCEPT ![m] = IDOf[Head(in[c])]]
                     /\ mRequest' = [mRequest EXCEPT ![m] = Head(in[c])]
  /\ UNCHANGED <<server, workersCh, errors, mResponse, worker, s, link, unsent, responses, writer>>

(* The decoder fails, or the client has closed the connection. *)
ReaderFails(c) ==
  /\ rd[c] = "read" /\ link[c] \in {"broken", "closed"}
  /\ rd' = [rd EXCEPT ![c] = "done"]
  /\ UNCHANGED <<server, workersCh, errors, message, worker, s, link, unsent, in, rm, responses, writer>>

(* PipeConn in DecodeRequest: when the client has ended the connection in  *)
(* the middle of a request's body, every splice reads 0 bytes and the loop *)
(* goes on, even after conn.Close, which waits for it.                     *)
ReaderSpins(c) ==
  /\ \/ rd[c] = "read" /\ link[c] = "broken" /\ in[c] = <<>> /\ (\E q \in unsent : ConnOf[q] = c)
     \/ rd[c] = "spin"
  /\ rd' = [rd EXCEPT ![c] = "spin"]
  /\ UNCHANGED <<server, workersCh, errors, message, worker, s, link, unsent, in, rm, responses, writer>>

(* workersCh <- struct{}{} in either select, then go serveRequest. *)
ReaderSpawns(c) ==
  /\ rd[c] \in {"have", "wait"} /\ workersCh[starts] < Concurrency
  /\ workersCh' = [workersCh EXCEPT ![starts] = @ + 1] /\ rd' = [rd EXCEPT ![c] = "read"]
  /\ \E x \in Workers : /\ wpc[x] = "idle" /\ wpc' = [wpc EXCEPT ![x] = "start"]
                        /\ wm' = [wm EXCEPT ![x] = rm[c]] /\ wconn' = [wconn EXCEPT ![x] = c]
                        /\ wch' = [wch EXCEPT ![x] = starts]
  /\ rm' = [rm EXCEPT ![c] = Nil]
  /\ UNCHANGED <<server, errors, message, wreq, s, link, unsent, in, responses, writer>>

ReaderWaits(c) ==
  /\ rd[c] = "have" /\ workersCh[starts] = Concurrency /\ rd' = [rd EXCEPT ![c] = "wait"]
  /\ UNCHANGED <<server, workersCh, errors, message, worker, s, link, unsent, in, rm, responses, writer>>

(* The request is dropped, its serverMessage left to the garbage collector. *)
ReaderStops(c) ==
  /\ rd[c] = "wait" /\ link[c] = "closed" /\ rd' = [rd EXCEPT ![c] = "done"]
  /\ pool' = pool \cup {rm[c]} /\ rm' = [rm EXCEPT ![c] = Nil]
  /\ UNCHANGED <<server, workersCh, errors, mID, mRequest, mResponse, worker, s, link, unsent, in,
                 responses, writer>>

-----------------------------------------------------------------------------
(* serveRequest. *)

(* Mutant: the worker goes on using the message it has given back. *)
WorkerStartsKeeps(x) ==
  LET m == wm[x] IN
  /\ wpc[x] = "start" /\ wpc' = [wpc EXCEPT ![x] = "handle"]
  /\ wreq' = [wreq EXCEPT ![x] = mRequest[m]] /\ mRequest' = [mRequest EXCEPT ![m] = Nil]
  /\ pool' = IF mID[m] = 0 THEN pool \cup {m} ELSE pool
  /\ UNCHANGED <<server, workersCh, errors, wm, mID, mResponse, wconn, wch, s, link, reader,
                 responses, writer>>

(* With ID 0 the serverMessage goes back to the pool before the handler    *)
(* runs.                                                                   *)
WorkerStarts(x) ==
  LET m == wm[x] IN
  /\ wpc[x] = "start" /\ wpc' = [wpc EXCEPT ![x] = "handle"]
  /\ wreq' = [wreq EXCEPT ![x] = mRequest[m]] /\ mRequest' = [mRequest EXCEPT ![m] = Nil]
  /\ \/ mID[m] = 0 /\ pool' = pool \cup {m} /\ wm' = [wm EXCEPT ![x] = Nil]
                   /\ mResponse' = [mResponse EXCEPT ![m] = Nil]
     \/ mID[m] # 0 /\ UNCHANGED <<pool, wm, mResponse>>
  /\ UNCHANGED <<server, workersCh, errors, mID, wconn, wch, s, link, reader, responses, writer>>

(* The handler returns a response or an error, or panics and is recovered. *)
WorkerHandles(x) ==
  /\ wpc[x] = "handle"
  /\ \/ /\ wm[x] # Nil /\ wpc' = [wpc EXCEPT ![x] = "push"]
        /\ mResponse' = [mResponse EXCEPT ![wm[x]] = wreq[x]]
     \/ wm[x] = Nil /\ wpc' = [wpc EXCEPT ![x] = "release"] /\ UNCHANGED mResponse
  /\ wreq' = [wreq EXCEPT ![x] = Nil]
  /\ UNCHANGED <<server, workersCh, errors, pool, mID, mRequest, wm, wconn, wch, s, link, reader,
                 responses, writer>>

(* Mutant: one response more than the channel holds. *)
HasRoomOffByOne(c) == Len(responses[c]) <= PendingResponses

HasRoom(c) == Len(responses[c]) < PendingResponses

WorkerPushes(x) ==
  /\ wpc[x] \in {"push", "wait"} /\ HasRoom(wconn[x])
  /\ responses' = [responses EXCEPT ![wconn[x]] = Append(@, wm[x])]
  /\ wpc' = [wpc EXCEPT ![x] = "release"] /\ wm' = [wm EXCEPT ![x] = Nil]
  /\ UNCHANGED <<server, workersCh, errors, message, wreq, wconn, wch, s, link, reader, writer>>

WorkerWaits(x) ==
  /\ wpc[x] = "push" /\ ~HasRoom(wconn[x]) /\ wpc' = [wpc EXCEPT ![x] = "wait"]
  /\ UNCHANGED <<server, workersCh, errors, message, wm, wreq, wconn, wch, s, link, reader,
                 responses, writer>>

(* Mutants: serveRequest returns without taking its token back; it waits   *)
(* for responsesChan only.                                                 *)
WorkerGivesUpWithToken(x) ==
  /\ wpc[x] = "wait" /\ link[wconn[x]] = "closed" /\ wpc' = [wpc EXCEPT ![x] = "idle"]
  /\ pool' = pool \cup {wm[x]} /\ wm' = [wm EXCEPT ![x] = Nil]
  /\ wconn' = [wconn EXCEPT ![x] = Nil] /\ wch' = [wch EXCEPT ![x] = 0]
  /\ UNCHANGED <<server, workersCh, errors, mID, mRequest, mResponse, wreq, s, link, reader,
                 responses, writer>>
WorkerNeverGivesUp(x) == FALSE

WorkerGivesUp(x) ==
  /\ wpc[x] = "wait" /\ link[wconn[x]] = "closed" /\ wpc' = [wpc EXCEPT ![x] = "release"]
  /\ mResponse' = [mResponse EXCEPT ![wm[x]] = Nil]
  /\ pool' = pool \cup {wm[x]} /\ wm' = [wm EXCEPT ![x] = Nil]
  /\ UNCHANGED <<server, workersCh, errors, mID, mRequest, wreq, wconn, wch, s, link, reader,
                 responses, writer>>

WorkerReleases(x) ==
  /\ wpc[x] = "release" /\ wpc' = [wpc EXCEPT ![x] = "idle"]
  /\ workersCh' = [workersCh EXCEPT ![wch[x]] = @ - 1] /\ wch' = [wch EXCEPT ![x] = 0]
  /\ wconn' = [wconn EXCEPT ![x] = Nil]
  /\ UNCHANGED <<server, errors, message, wm, wreq, s, link, reader, responses, writer>>

-----------------------------------------------------------------------------
(* serverWriter. *)

(* Copy the message, clear it and put it back into the pool. *)
WriterTakes(c) ==
  LET m == Head(responses[c]) IN
  /\ wr[c] \in {"loop", "select"} /\ responses[c] # <<>> /\ wr' = [wr EXCEPT ![c] = "encode"]
  /\ responses' = [responses EXCEPT ![c] = Tail(@)]
  /\ wrsp' = [wrsp EXCEPT ![c] = [id |-> mID[m], of |-> mResponse[m]]]
  /\ mResponse' = [mResponse EXCEPT ![m] = Nil] /\ pool' = pool \cup {m}
  /\ UNCHANGED <<server, workersCh, errors, mID, mRequest, worker, s, link, reader, buf, out>>

WriterPolls(c) ==
  /\ wr[c] = "loop" /\ responses[c] = <<>> /\ wr' = [wr EXCEPT ![c] = "select"]
  /\ UNCHANGED <<server, workersCh, errors, message, worker, s, link, reader, responses,
                 wrsp, buf, out>>

WriterStops(c) ==
  /\ wr[c] = "select" /\ link[c] = "closed" /\ wr' = [wr EXCEPT ![c] = "done"]
  /\ UNCHANGED <<server, workersCh, errors, message, worker, s, link, reader, responses,
                 wrsp, buf, out>>

(* EncodeResponse leaves a response without body in the encoder's buffer   *)
(* unless the buffer is full; one with a body is written at once, with     *)
(* what was buffered before it.                                            *)
WriterBuffers(c) ==
  /\ wr[c] = "encode" /\ wr' = [wr EXCEPT ![c] = "loop"]
  /\ buf' = [buf EXCEPT ![c] = Append(@, wrsp[c])] /\ wrsp' = [wrsp EXCEPT ![c] = NoResponse]
  /\ UNCHANGED <<server, workersCh, errors, message, worker, s, link, reader, responses, out>>

WriterWrites(c) ==
  /\ wr[c] = "encode" /\ link[c] \in {"up", "broken"} /\ wr' = [wr EXCEPT ![c] = "loop"]
  /\ out' = IF link[c] = "up" THEN [out EXCEPT ![c] = @ \o Append(buf[c], wrsp[c])] ELSE out
  /\ buf' = [buf EXCEPT ![c] = <<>>] /\ wrsp' = [wrsp EXCEPT ![c] = NoResponse]
  /\ UNCHANGED <<server, workersCh, errors, message, worker, s, link, reader, responses>>

WriterFails(c) ==
  /\ wr[c] = "encode" /\ link[c] \in {"broken", "closed"} /\ wr' = [wr EXCEPT ![c] = "done"]
  /\ wrsp' = [wrsp EXCEPT ![c] = NoResponse]
  /\ UNCHANGED <<server, workersCh, errors, message, worker, s, link, reader, responses, buf, out>>

-----------------------------------------------------------------------------
(* The clients and the network. *)

(* A client numbers the requests of a connection in the order it sends     *)
(* them; those with ID 0 come in between.                                  *)
ClientSends(q) ==
  /\ q \in unsent /\ link[ConnOf[q]] = "up" /\ unsent' = unsent \ {q}
  /\ \A p \in unsent : IDOf[q] # 0 /\ ConnOf[p] = ConnOf[q] => IDOf[p] = 0 \/ IDOf[q] <= IDOf[p]
  /\ in' = [in EXCEPT ![ConnOf[q]] = Append(@, q)]
  /\ UNCHANGED <<server, workersCh, errors, message, worker, s, link, rd, rm, responses, writer>>

Disconnect(c) ==
  /\ link[c] = "up" /\ errors < MaxErrors /\ errors' = errors + 1
  /\ link' = [link EXCEPT ![c] = "broken"]
  /\ UNCHANGED <<server, workersCh, message, worker, s, reader, responses, writer>>

-----------------------------------------------------------------------------
AcceptorNext == AcceptFails \/ AcceptAgain \/ AcceptStops \/ \E c \in Conns : Accept(c)

ConnNext(c) == Handshake(c) \/ HandshakeFails(c) \/ ConnCloses(c) \/ ConnEnds(c)

ReaderNext(c) == \/ ReaderDecodes(c) \/ ReaderFails(c) \/ ReaderSpins(c)
                 \/ ReaderSpawns(c) \/ ReaderWaits(c) \/ ReaderStops(c)

WorkerNext(x) == \/ WorkerStarts(x) \/ WorkerHandles(x) \/ WorkerPushes(x)
                 \/ WorkerWaits(x) \/ WorkerGivesUp(x) \/ WorkerReleases(x)

WriterNext(c) == \/ WriterTakes(c) \/ WriterPolls(c) \/ WriterStops(c)
                 \/ WriterBuffers(c) \/ WriterWrites(c) \/ WriterFails(c)

(* The application has stopped the server for good and its handlers have   *)
(* returned.                                                               *)
Finished == /\ stopChan = "nil" /\ starts = MaxStarts /\ \A x \in Workers : wpc[x] = "idle"
            /\ UNCHANGED vars

Next ==
  \/ Start \/ StartFails \/ Stop \/ StopReturns \/ AcceptorNext \/ Finished
  \/ \E c \in Conns : ConnNext(c) \/ ReaderNext(c) \/ WriterNext(c) \/ Disconnect(c)
  \/ \E x \in Workers : WorkerNext(x)
  \/ \E q \in Requests : ClientSends(q)

Spec == Init /\ [][Next]_vars

(* Goroutines that can run do run and handlers return.  A Write into an    *)
(* open connection may block for as long as the client does not read.      *)
Fairness ==
  /\ WF_vars(StopReturns) /\ WF_vars(AcceptStops)
  /\ \A c \in Conns :
       /\ WF_vars(ConnNext(c)) /\ WF_vars(ReaderNext(c))
       /\ WF_vars(WriterTakes(c) \/ WriterPolls(c) \/ WriterStops(c))
       /\ WF_vars(WriterBuffers(c) \/ WriterFails(c))
  /\ \A x \in Workers : WF_vars(WorkerNext(x))

FairSpec == Spec /\ Fairness

-----------------------------------------------------------------------------
(* Where a serverMessage is: with whom, or in the pool. *)
Holders(m) ==
  {<<"pool">> : p \in pool \cap {m}}
    \cup {<<"reader", c>> : c \in {d \in Conns : rm[d] = m}}
    \cup {<<"worker", x>> : x \in {y \in Workers : wm[y] = m}}
    \cup UNION {{<<"responses", c, i>> : i \in {j \in DOMAIN responses[c] : responses[c][j] = m}} : c \in Conns}

(* A serverMessage has exactly one holder, although the pool recycles it   *)
(* between connections and serveRequest returns it early for ID 0: nobody  *)
(* reads or writes a message after giving it away.                         *)
MessageHeldOnce == \A m \in Messages : Cardinality(Holders(m)) = 1

Encoded(c) == out[c] \o buf[c] \o (IF wr[c] = "encode" THEN <<wrsp[c]>> ELSE <<>>)

(* Every response carries the ID of the request it answers, goes to the    *)
(* connection that request came from, and is sent once; requests with ID 0 *)
(* get none.                                                               *)
ResponseAnswersRequest ==
  \A c \in Conns :
    /\ \A r \in Range(Encoded(c)) :
         r.of \in Requests /\ r.id # 0 /\ IDOf[r.of] = r.id /\ ConnOf[r.of] = c
    /\ IsInjective(Encoded(c))

(* The tokens in workersCh are those of the running handlers, on every way *)
(* out of serveRequest: none is lost when a connection dies under a worker *)
(* or a handler fails, a handler that outlives Stop gives its token back   *)
(* to the channel it came from, and Concurrency bounds the goroutines.     *)
TokensMatchWorkers ==
  \A n \in 1 .. MaxStarts :
    workersCh[n] = Cardinality({x \in Workers : wpc[x] # "idle" /\ wch[x] = n})

(* Once a connection is closed, the workers that still answer to it give   *)
(* their tokens back, however full its responsesChan is.                   *)
WorkersLeaveClosedConn ==
  \A c \in Conns : link[c] = "closed" ~> \A x \in Workers : wconn[x] # c

(* Stop returns, whatever readers and writers wait for; unless a reader    *)
(* spins in PipeConn, for which serverHandleConnection and Stop wait.      *)
StopTerminates == stopChan = "closed" ~> stopChan = "nil" \/ \E c \in Conns : rd[c] = "spin"

(* FlushDelay is "The maximum delay between response flushes to clients":  *)
(* a response in the encoder's buffer is flushed or its connection ends.   *)
ResponsesFlushed == \A c \in Conns : buf[c] # <<>> ~> buf[c] = <<>> \/ s[c] = "ended"
=============================================================================
