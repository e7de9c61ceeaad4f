--------------------------- MODULE ConnPoolProofs ---------------------------
(***************************************************************************)
(* Proofs about ConnPool: its types, the number of connections, that       *)
(* pooled connections are clean and that a Get returns its own block.      *)
(***************************************************************************)
EXTENDS ConnPool, FiniteSetTheorems, SequenceTheorems, TLAPS

-----------------------------------------------------------------------------
(* Types, in four groups of variables. *)

PCs == {"idle", "lock", "dial", "write", "header", "body", "put", "stopped"}

(* What a thread has in each of its states. *)
Phase(p, c, l, n, bd) ==
  /\ p \in {"write", "header", "body", "put"} => c \in Sockets
  /\ p \in {"idle", "lock", "dial"} => c = NoConn
  /\ p \in {"write", "header", "body"} => l > 0
  /\ Len(bd) <= n

ThreadTypes ==
  /\ tpc \in [Threads -> PCs] /\ cmd \in [Threads -> Commands]
  /\ tconn \in [Threads -> Sockets \cup {NoConn}] /\ left \in [Threads -> 0 .. BatchSize]
  /\ need \in [Threads -> Nat] /\ body \in [Threads -> Seq(Cells)]
  /\ \A t \in Threads : Phase(tpc[t], tconn[t], left[t], need[t], body[t])

WireTypes ==
  /\ link \in [Sockets -> {"none", "up", "reset", "eof", "closed"}]
  /\ toServer \in [Sockets -> Seq(0 .. 15)] /\ toClient \in [Sockets -> Seq(Cells)]
  /\ \A c \in Sockets : Len(toServer[c]) <= SockReqs + 1 /\ Len(toClient[c]) <= SockPieces

(* A handler writes exactly while it has something to write. *)
HandlerTypes ==
  /\ server \in {"up", "crashed"} /\ hpc \in [Sockets -> {"off", "stream", "read", "write"}]
  /\ hout \in [Sockets -> Seq(Cells)] /\ hbuf \in [Sockets -> 0 .. MaxPieces]
  /\ bufs \subseteq 0 .. MaxPieces
  /\ \A c \in Sockets : hpc[c] = "write" <=> hout[c] # <<>>

PoolTypes ==
  /\ mode \in Transports /\ conns \in Seq(Sockets) /\ Len(conns) <= Cons
  /\ open \in BOOLEAN /\ faults \in 0 .. MaxFaults

(* A connection that was never dialed has no handler. *)
Unborn == \A c \in Sockets : link[c] = "none" => hpc[c] = "off"

Types == ThreadTypes /\ WireTypes /\ HandlerTypes /\ PoolTypes /\ Unborn

(* The groups make up the type invariant. *)
LEMMA TypesImply == Types => TypeOK
  BY DEF Types, TypeOK, ThreadTypes, WireTypes, HandlerTypes, PoolTypes, PCs, Phase

-----------------------------------------------------------------------------
(* Constants, sequences and responses. *)

(* Taking from the front of a nonempty sequence. *)
LEMMA TailFacts ==
  ASSUME NEW S, NEW q \in Seq(S), q # <<>>
  PROVE  /\ Head(q) \in S /\ Head(q) = q[1] /\ Tail(q) \in Seq(S)
         /\ Len(q) \in Nat \ {0} /\ Len(Tail(q)) = Len(q) - 1
         /\ \A n \in 1 .. Len(q) - 1 : Tail(q)[n] = q[n + 1]
  OBVIOUS

(* Adding at the end of a sequence. *)
LEMMA AppendFacts ==
  ASSUME NEW S, NEW q \in Seq(S), NEW x \in S
  PROVE  /\ Append(q, x) \in Seq(S) /\ Len(Append(q, x)) = Len(q) + 1 /\ Len(q) \in Nat
         /\ Append(q, x)[Len(q) + 1] = x
         /\ \A n \in 1 .. Len(q) : Append(q, x)[n] = q[n]
  OBVIOUS

(* Some block is the longest. *)
LEMMA LongestBlock == \E n \in Known : \A m \in Known : Pieces[m] <= Pieces[n]
<1>1. Pieces \in [0 .. 4 -> Nat \ {0}]
  BY PoolAssumption DEF Known
<1>2. \A n \in 0 .. 4 : Pieces[n] \in Int
  BY <1>1
<1>3. PICK a \in {0, 1} : Pieces[0] <= Pieces[a] /\ Pieces[1] <= Pieces[a]
  BY <1>2
<1>4. PICK d \in {a, 2} : Pieces[a] <= Pieces[d] /\ Pieces[2] <= Pieces[d]
  BY <1>2, <1>3
<1>5. PICK e \in {d, 3} : Pieces[d] <= Pieces[e] /\ Pieces[3] <= Pieces[e]
  BY <1>2, <1>3, <1>4
<1>6. PICK f \in {e, 4} : Pieces[e] <= Pieces[f] /\ Pieces[4] <= Pieces[f]
  BY <1>2, <1>3, <1>4, <1>5
<1>7. f \in 0 .. 4 /\ a \in 0 .. 4 /\ d \in 0 .. 4 /\ e \in 0 .. 4
  BY <1>3, <1>4, <1>5, <1>6
<1>8. \A m \in 0 .. 4 : m = 0 \/ m = 1 \/ m = 2 \/ m = 3 \/ m = 4
  OBVIOUS
<1>9. \A m \in 0 .. 4 : Pieces[m] <= Pieces[f]
  <2>1. Pieces[d] <= Pieces[f] /\ Pieces[a] <= Pieces[f]
    BY <1>2, <1>4, <1>5, <1>6, <1>7
  <2>2. Pieces[0] <= Pieces[f] /\ Pieces[1] <= Pieces[f] /\ Pieces[2] <= Pieces[f] /\ Pieces[3] <= Pieces[f] /\ Pieces[4] <= Pieces[f]
    BY <1>2, <1>3, <1>4, <1>5, <1>6, <1>7, <2>1
  <2>3. QED
    BY <1>8, <2>2
<1>10. QED
  BY <1>7, <1>9 DEF Known

(* MaxPieces is the number of pieces of the longest block. *)
LEMMA MaxPiecesFacts ==
  /\ MaxPieces \in Nat
  /\ \A k \in Known : Pieces[k] \in Nat \ {0} /\ Pieces[k] <= MaxPieces
<1>1. \E n \in Range(Pieces) : \A m \in Range(Pieces) : m <= n
  <2>1. PICK n \in Known : \A m \in Known : Pieces[m] <= Pieces[n]
    BY LongestBlock
  <2>2. Pieces[n] \in Range(Pieces) /\ \A x \in Range(Pieces) : \E m \in Known : x = Pieces[m]
    BY PoolAssumption DEF Range
  <2>3. QED
    BY <2>1, <2>2
<1>2. MaxPieces \in Range(Pieces) /\ \A m \in Range(Pieces) : m <= MaxPieces
  BY <1>1, Zenon DEF MaxPieces
<1>3. QED
  BY <1>2, PoolAssumption DEF Range

(* The transports' versions of Get. *)
LEMMA GetFacts ==
  ASSUME mode \in Transports
  PROVE  /\ Get.requests \in 1 .. BatchSize /\ (Get.framed <=> mode # "tcpsendfile")
         /\ mode # "tcppool" => Get.requests = 1
<1>1. BatchSize \in Nat \ {0}
  BY BatchFits
<1>2. CASE mode = "tcppool"
  <2>1. Get = TcppoolGet
    BY <1>2 DEF Get
  <2>2. QED
    BY <1>1, <1>2, <2>1 DEF TcppoolGet
<1>3. CASE mode = "gonet" \/ mode = "quic"
  <2>1. Get = [requests |-> 1, framed |-> TRUE]
    BY <1>3 DEF Get, GonetGet, QuicGet
  <2>2. QED
    BY <1>1, <1>3, <2>1
<1>4. CASE mode \notin {"tcppool", "gonet", "quic"} /\ mode \in Transports
  <2>1. Get = SendfileGet /\ mode = "tcpsendfile"
    BY <1>4, PoolAssumption DEF Get
  <2>2. QED
    BY <1>1, <1>4, <2>1 DEF SendfileGet
<1>5. QED
  BY <1>2, <1>3, <1>4

(* A block has as many pieces as its command says. *)
LEMMA BlockFacts ==
  ASSUME NEW k \in Known
  PROVE  /\ Block(k) \in Seq(Cells) /\ Len(Block(k)) = Pieces[k] /\ k \in Nat
         /\ \A n \in 1 .. Pieces[k] : Block(k)[n] = <<"data", k>>
<1>1. Pieces[k] \in Nat /\ k \in Nat
  BY MaxPiecesFacts DEF Known
<1>2. PICK x : x = <<"data", k>>
  OBVIOUS
<1>3. x \in Cells
  BY <1>1, <1>2 DEF Cells
<1>4. Block(k) = [i \in 1 .. Pieces[k] |-> x]
  BY <1>2 DEF Block
<1>5. Block(k) \in [1 .. Pieces[k] -> Cells] /\ \A n \in 1 .. Pieces[k] : Block(k)[n] = x
  BY <1>3, <1>4
<1>6. Block(k) \in Seq(Cells) /\ Len(Block(k)) = Pieces[k]
  BY <1>1, <1>5
<1>7. QED
  BY <1>1, <1>2, <1>5, <1>6

(* A header in front of a sequence. *)
LEMMA HeaderFacts ==
  ASSUME NEW S, NEW h \in S, NEW q \in Seq(S)
  PROVE  /\ <<h>> \o q \in Seq(S) /\ Len(<<h>> \o q) = Len(q) + 1 /\ Len(q) \in Nat
         /\ (<<h>> \o q)[1] = h
         /\ \A n \in 1 .. Len(q) : (<<h>> \o q)[n + 1] = q[n]
  OBVIOUS

(* The responses of tcppool and quic. *)
LEMMA ResponseFacts ==
  ASSUME NEW k \in 0 .. 15
  PROVE  /\ TcppoolResponse(k) = QuicResponse(k)
         /\ TcppoolResponse(k) \in Seq(Cells)
         /\ Len(TcppoolResponse(k)) = IF k \in Known THEN Pieces[k] + 1 ELSE 2
         /\ k \in Known => /\ TcppoolResponse(k)[1] = <<"header", Pieces[k]>>
                           /\ \A n \in 1 .. Pieces[k] : TcppoolResponse(k)[n + 1] = <<"data", k>>
         /\ k \notin Known => /\ TcppoolResponse(k)[1] = <<"error", 1>>
                              /\ TcppoolResponse(k)[2] = <<"message", k>>
<1>1. TcppoolResponse(k) = QuicResponse(k)
  BY DEF TcppoolResponse, QuicResponse
<1>2. CASE k \in Known
  <2>1. <<"header", Pieces[k]>> \in Cells
    BY <1>2, MaxPiecesFacts DEF Cells
  <2>2. TcppoolResponse(k) = <<<<"header", Pieces[k]>>>> \o Block(k)
    BY <1>2 DEF TcppoolResponse
  <2>3. PICK h \in Cells : h = <<"header", Pieces[k]>>
    BY <2>1
  <2>4. PICK q \in Seq(Cells) : q = Block(k)
    BY <1>2, BlockFacts
  <2>5. /\ <<h>> \o q \in Seq(Cells) /\ Len(<<h>> \o q) = Pieces[k] + 1
        /\ (<<h>> \o q)[1] = h
        /\ \A n \in 1 .. Pieces[k] : (<<h>> \o q)[n + 1] = <<"data", k>>
    BY <1>2, <2>4, HeaderFacts, BlockFacts
  <2>6. QED
    BY <1>1, <1>2, <2>2, <2>3, <2>4, <2>5
<1>3. CASE k \notin Known
  <2>1. <<"error", 1>> \in Cells /\ <<"message", k>> \in Cells
    BY DEF Cells
  <2>2. PICK a \in Cells : a = <<"error", 1>>
    BY <2>1
  <2>3. PICK d \in Cells : d = <<"message", k>>
    BY <2>1
  <2>4. TcppoolResponse(k) = <<a, d>>
    BY <1>3, <2>2, <2>3 DEF TcppoolResponse
  <2>5. QED
    BY <1>1, <1>3, <2>2, <2>3, <2>4
<1>4. QED
  BY <1>2, <1>3

(* The responses of gonet. *)
LEMMA GonetFacts ==
  ASSUME NEW k \in 0 .. 15, NEW room \in Nat
  PROVE  /\ GonetResponse(k, room) \in Seq(Cells)
         /\ Len(GonetResponse(k, room)) = IF k \in Known THEN Pieces[k] + 1 ELSE 1
         /\ k \in Known => /\ GonetResponse(k, room)[1] = <<"header", Pieces[k]>>
                           /\ \A n \in 1 .. Pieces[k] : GonetResponse(k, room)[n + 1] =
                                IF n <= room THEN <<"data", k>> ELSE <<"stale", n>>
         /\ k \notin Known => GonetResponse(k, room)[1] = <<"error", 1>>
<1>1. CASE k \in Known
  <2>1. <<"header", Pieces[k]>> \in Cells /\ Pieces[k] \in Nat
    BY <1>1, MaxPiecesFacts DEF Cells
  <2>2. PICK q : q = [i \in 1 .. Pieces[k] |-> IF i <= room THEN <<"data", k>> ELSE <<"stale", i>>]
    OBVIOUS
  <2>3. GonetResponse(k, room) = <<<<"header", Pieces[k]>>>> \o q
    BY <1>1, <2>2 DEF GonetResponse
  <2>4. PICK h \in Cells : h = <<"header", Pieces[k]>>
    BY <2>1
  <2>5. \A i \in 1 .. Pieces[k] : (IF i <= room THEN <<"data", k>> ELSE <<"stale", i>>) \in Cells
    BY <2>1 DEF Cells
  <2>6. q \in Seq(Cells) /\ Len(q) = Pieces[k]
    <3>1. q \in [1 .. Pieces[k] -> Cells]
      BY <2>2, <2>5
    <3>2. QED
      BY <2>1, <3>1
  <2>7. /\ <<h>> \o q \in Seq(Cells) /\ Len(<<h>> \o q) = Pieces[k] + 1
        /\ (<<h>> \o q)[1] = h
        /\ \A n \in 1 .. Pieces[k] : (<<h>> \o q)[n + 1] = q[n]
    BY <2>6, HeaderFacts
  <2>8. \A n \in 1 .. Pieces[k] : q[n] = IF n <= room THEN <<"data", k>> ELSE <<"stale", n>>
    BY <2>2
  <2>9. QED
    BY <1>1, <2>3, <2>4, <2>7, <2>8
<1>2. CASE k \notin Known
  <2>1. PICK a \in Cells : a = <<"error", 1>>
    BY DEF Cells
  <2>2. GonetResponse(k, room) = <<a>>
    BY <1>2, <2>1 DEF GonetResponse
  <2>3. QED
    BY <1>2, <2>1, <2>2
<1>3. QED
  BY <1>1, <1>2

-----------------------------------------------------------------------------
(* Every step keeps the types. *)

(* The types of the thread variables after a step of t. *)
LEMMA ThreadStep ==
  ASSUME ThreadTypes, NEW t \in Threads,
         NEW p \in PCs, NEW k \in Commands, NEW c \in Sockets \cup {NoConn},
         NEW l \in 0 .. BatchSize, NEW n \in Nat, NEW bd \in Seq(Cells), Phase(p, c, l, n, bd),
         tpc' = [tpc EXCEPT ![t] = p], cmd' = [cmd EXCEPT ![t] = k],
         tconn' = [tconn EXCEPT ![t] = c], left' = [left EXCEPT ![t] = l],
         need' = [need EXCEPT ![t] = n], body' = [body EXCEPT ![t] = bd]
  PROVE  ThreadTypes'
<1>1. /\ tpc' \in [Threads -> PCs] /\ cmd' \in [Threads -> Commands]
      /\ tconn' \in [Threads -> Sockets \cup {NoConn}] /\ left' \in [Threads -> 0 .. BatchSize]
      /\ need' \in [Threads -> Nat] /\ body' \in [Threads -> Seq(Cells)]
  BY DEF ThreadTypes
<1>2. ASSUME NEW u \in Threads PROVE Phase(tpc'[u], tconn'[u], left'[u], need'[u], body'[u])
  <2>1. CASE u = t
    <3>1. tpc'[u] = p /\ tconn'[u] = c /\ left'[u] = l /\ need'[u] = n /\ body'[u] = bd
      BY <2>1 DEF ThreadTypes
    <3>2. QED
      BY <3>1
  <2>2. CASE u # t
    <3>1. tpc'[u] = tpc[u] /\ tconn'[u] = tconn[u] /\ left'[u] = left[u] /\ need'[u] = need[u] /\ body'[u] = body[u]
      BY <2>2 DEF ThreadTypes
    <3>2. QED
      BY <3>1 DEF ThreadTypes
  <2>3. QED
    BY <2>1, <2>2
<1>3. QED
  BY <1>1, <1>2 DEF ThreadTypes

(* The variables of a thread, and that they stay the same. *)
LEMMA ThreadValues ==
  ASSUME ThreadTypes, NEW t \in Threads
  PROVE  /\ tpc[t] \in PCs /\ cmd[t] \in Commands /\ tconn[t] \in Sockets \cup {NoConn}
         /\ left[t] \in 0 .. BatchSize /\ need[t] \in Nat /\ body[t] \in Seq(Cells)
         /\ Phase(tpc[t], tconn[t], left[t], need[t], body[t])
         /\ tpc = [tpc EXCEPT ![t] = tpc[t]] /\ cmd = [cmd EXCEPT ![t] = cmd[t]]
         /\ tconn = [tconn EXCEPT ![t] = tconn[t]] /\ left = [left EXCEPT ![t] = left[t]]
         /\ need = [need EXCEPT ![t] = need[t]] /\ body = [body EXCEPT ![t] = body[t]]
  BY DEF ThreadTypes

(* A Get returns. *)
LEMMA LeaveTypes ==
  ASSUME ThreadTypes, NEW t \in Threads, NEW p \in {"idle", "stopped"}, Leave(t, p),
         NEW c \in Sockets \cup {NoConn}, tconn' = [tconn EXCEPT ![t] = c],
         p = "idle" => c = NoConn
  PROVE  ThreadTypes'
<1>1. AnyCommand \in Commands
  BY PoolAssumption DEF AnyCommand
<1>2. PICK e : e = <<>>
  OBVIOUS
<1>3. e \in Seq(Cells) /\ Len(e) = 0
  BY <1>2
<1>4. Phase(p, c, 0, 0, e) /\ p \in PCs
  BY <1>3 DEF Phase, PCs
<1>5. 0 \in 0 .. BatchSize /\ 0 \in Nat
  BY BatchFits
<1>6. /\ tpc' = [tpc EXCEPT ![t] = p] /\ cmd' = [cmd EXCEPT ![t] = AnyCommand]
      /\ left' = [left EXCEPT ![t] = 0] /\ need' = [need EXCEPT ![t] = 0] /\ body' = [body EXCEPT ![t] = e]
  BY <1>2 DEF Leave, Goto
<1>7. QED
  BY <1>1, <1>3, <1>4, <1>5, <1>6, ThreadStep

(* A Get has its connection. *)
LEMMA BeginTypes ==
  ASSUME Types, NEW t \in Threads, NEW c \in Sockets, Begin(t, c), UNCHANGED <<need, body>>
  PROVE  ThreadTypes'
<1>1. PICK k \in Commands : cmd' = [cmd EXCEPT ![t] = k]
  BY DEF Begin
<1>2. PICK l : l = Get.requests
  OBVIOUS
<1>3. l \in 0 .. BatchSize /\ l > 0
  BY <1>2, GetFacts, BatchFits DEF Types, PoolTypes
<1>4. ThreadTypes
  BY DEF Types
<1>5. Phase("write", c, l, need[t], body[t])
  BY <1>3, <1>4, ThreadValues DEF Phase
<1>6. need' = [need EXCEPT ![t] = need[t]] /\ body' = [body EXCEPT ![t] = body[t]]
  BY <1>4, ThreadValues
<1>7. tpc' = [tpc EXCEPT ![t] = "write"] /\ tconn' = [tconn EXCEPT ![t] = c] /\ left' = [left EXCEPT ![t] = l]
  BY <1>2 DEF Begin, Goto
<1>8. "write" \in PCs /\ need[t] \in Nat /\ body[t] \in Seq(Cells)
  BY <1>4, ThreadValues DEF PCs
<1>9. QED
  BY <1>1, <1>3, <1>4, <1>5, <1>6, <1>7, <1>8, ThreadStep

(* A thread goes on to p and keeps what it has. *)
LEMMA GotoTypes ==
  ASSUME ThreadTypes, NEW t \in Threads, NEW p \in PCs, Goto(t, p),
         UNCHANGED <<cmd, tconn, left, need, body>>,
         Phase(p, tconn[t], left[t], need[t], body[t])
  PROVE  ThreadTypes'
<1>1. tpc' = [tpc EXCEPT ![t] = p]
  BY DEF Goto
<1>2. PICK k \in Commands : k = cmd[t]
  BY ThreadValues
<1>3. PICK c \in Sockets \cup {NoConn} : c = tconn[t]
  BY ThreadValues
<1>4. PICK l \in 0 .. BatchSize : l = left[t]
  BY ThreadValues
<1>5. PICK n \in Nat : n = need[t]
  BY ThreadValues
<1>6. PICK bd \in Seq(Cells) : bd = body[t]
  BY ThreadValues
<1>7. /\ cmd' = [cmd EXCEPT ![t] = k] /\ tconn' = [tconn EXCEPT ![t] = c]
      /\ left' = [left EXCEPT ![t] = l] /\ need' = [need EXCEPT ![t] = n]
      /\ body' = [body EXCEPT ![t] = bd]
  BY <1>2, <1>3, <1>4, <1>5, <1>6, ThreadValues
<1>8. Phase(p, c, l, n, bd)
  BY <1>3, <1>4, <1>5, <1>6
<1>9. ThreadTypes
  OBVIOUS
<1>10. QED
  BY ONLY <1>1, <1>7, <1>8, <1>9, ThreadStep

(* The place of a new connection. *)
LEMMA NewConnFacts ==
  ASSUME Free # {}
  PROVE  NewConn \in Sockets /\ NewConn \in Free
<1>1. \E c : c \in Free
  OBVIOUS
<1>2. NewConn \in Free
  BY <1>1, Zenon DEF NewConn
<1>3. QED
  BY <1>2 DEF Free

(* The server accepts a connection. *)
LEMMA AcceptTypes ==
  ASSUME Types, NEW c \in Sockets, hpc[c] # "write", NEW how \in {"up", "reset"}, Accept(c, how),
         UNCHANGED <<server, hout, hbuf, bufs>>
  PROVE  /\ HandlerTypes' /\ Unborn'
         /\ link' \in [Sockets -> {"none", "up", "reset", "eof", "closed"}]
<1>1. HandlerTypes /\ WireTypes /\ Unborn
  BY DEF Types
<1>2. link' \in [Sockets -> {"none", "up", "reset", "eof", "closed"}]
  BY <1>1 DEF WireTypes, Accept
<1>3. PICK p \in {"stream", "read"} : hpc' = [hpc EXCEPT ![c] = p]
  BY DEF Accept
<1>4. hpc' \in [Sockets -> {"off", "stream", "read", "write"}]
  BY <1>1, <1>3 DEF HandlerTypes
<1>5. \A d \in Sockets : hpc'[d] = "write" <=> hpc[d] = "write"
  BY <1>1, <1>3 DEF HandlerTypes
<1>6. Unborn'
  BY <1>1, <1>3 DEF Unborn, Accept, HandlerTypes, WireTypes
<1>7. QED
  BY <1>1, <1>2, <1>4, <1>5, <1>6 DEF HandlerTypes

(* The process of the server ends. *)
LEMMA CrashTypes ==
  ASSUME Types, NEW c \in Sockets, Crash(c), UNCHANGED <<toClient, hbuf, bufs>>
  PROVE  WireTypes' /\ HandlerTypes' /\ Unborn'
<1>1. PICK e : e = <<>>
  OBVIOUS
<1>2. e \in Seq(Cells) /\ e \in Seq(0 .. 15) /\ Len(e) = 0 /\ 0 <= SockReqs + 1
  BY <1>1, BatchFits
<1>3. toServer' = [d \in Sockets |-> e] /\ hout' = [d \in Sockets |-> e]
  BY <1>1 DEF Crash
<1>4. link' \in [Sockets -> {"none", "up", "reset", "eof", "closed"}]
  BY DEF Crash, Types, WireTypes
<1>5. WireTypes'
  BY <1>2, <1>3, <1>4 DEF Types, WireTypes
<1>6. hpc' = [d \in Sockets |-> "off"] /\ server' = "crashed"
  BY DEF Crash
<1>7. HandlerTypes'
  BY <1>1, <1>2, <1>3, <1>6 DEF Types, HandlerTypes
<1>8. Unborn'
  BY <1>6 DEF Unborn
<1>9. QED
  BY <1>5, <1>7, <1>8

(* A handler has a response to write. *)
LEMMA ReplyTypes ==
  ASSUME Types, NEW c \in Sockets, Arrived(c), NEW pieces \in Seq(Cells), Len(pieces) > 0,
         Reply(c, pieces), hbuf' \in [Sockets -> 0 .. MaxPieces]
  PROVE  Types'
<1>1. WireTypes /\ HandlerTypes /\ ThreadTypes /\ PoolTypes
  BY DEF Types
<1>2. PICK s : s = Tail(toServer[c])
  OBVIOUS
<1>3. s \in Seq(0 .. 15) /\ Len(s) <= SockReqs + 1
  <2>1. toServer[c] \in Seq(0 .. 15) /\ toServer[c] # <<>> /\ Len(toServer[c]) <= SockReqs + 1
    BY <1>1 DEF WireTypes, Arrived
  <2>2. PICK q \in Seq(0 .. 15) : q = toServer[c]
    BY <2>1
  <2>3. s \in Seq(0 .. 15) /\ Len(s) = Len(q) - 1 /\ Len(q) \in Nat
    BY <1>2, <2>1, <2>2, TailFacts
  <2>4. QED
    BY <2>1, <2>2, <2>3, BatchFits
<1>4. toServer' = [toServer EXCEPT ![c] = s]
  BY <1>2 DEF Reply
<1>5. WireTypes'
  BY <1>1, <1>3, <1>4 DEF WireTypes, Reply
<1>6. hout' = [hout EXCEPT ![c] = pieces] /\ hpc' = [hpc EXCEPT ![c] = "write"] /\ UNCHANGED <<server, bufs>>
  BY DEF Reply
<1>7. pieces # <<>>
  OBVIOUS
<1>8. HandlerTypes'
  BY <1>1, <1>6, <1>7 DEF HandlerTypes
<1>9. ThreadTypes' /\ PoolTypes' /\ Unborn'
  <2>1. UNCHANGED link /\ hpc[c] = "read" /\ hpc' = [hpc EXCEPT ![c] = "write"]
    BY DEF Reply, Arrived
  <2>2. Unborn'
    BY <1>1, <2>1 DEF Unborn, HandlerTypes, Types
  <2>3. QED
    BY <1>1, <2>2 DEF ThreadTypes, PoolTypes, Reply, threadVars
<1>10. QED
  BY <1>5, <1>8, <1>9 DEF Types

(* The request at the front of a connection. *)
LEMMA ArrivedFacts ==
  ASSUME Types, NEW c \in Sockets, Arrived(c)
  PROVE  Head(toServer[c]) \in 0 .. 15 /\ Head(toServer[c]) = toServer[c][1]
<1>1. toServer[c] \in Seq(0 .. 15) /\ toServer[c] # <<>>
  BY DEF Types, WireTypes, Arrived
<1>2. QED
  BY <1>1, TailFacts

(* Every step keeps the types. *)
LEMMA NextTypes == Types /\ [Next]_vars => Types'
<1> SUFFICES ASSUME Types, [Next]_vars PROVE Types'
  OBVIOUS
<1> USE DEF threadVars, wireVars, handlerVars
<1>0. ThreadTypes /\ WireTypes /\ HandlerTypes /\ PoolTypes /\ Unborn
  BY DEF Types
<1>a. ASSUME UNCHANGED threadVars PROVE ThreadTypes'
  BY <1>0, <1>a DEF ThreadTypes
<1>b. ASSUME UNCHANGED wireVars PROVE WireTypes'
  BY <1>0, <1>b DEF WireTypes
<1>c. ASSUME UNCHANGED handlerVars PROVE HandlerTypes'
  BY <1>0, <1>c DEF HandlerTypes
<1>d. ASSUME UNCHANGED <<mode, conns, open, faults>> PROVE PoolTypes'
  BY <1>0, <1>d DEF PoolTypes
<1>e. ASSUME UNCHANGED <<link, hpc>> PROVE Unborn'
  BY <1>0, <1>e DEF Unborn
<1>1. ASSUME NEW t \in Threads, TakePooled(t) PROVE Types'
  <2>1. PICK c : c = Head(conns)
    OBVIOUS
  <2>2. /\ c \in Sockets /\ Tail(conns) \in Seq(Sockets) /\ Len(Tail(conns)) <= Cons
    <3>1. conns \in Seq(Sockets) /\ conns # <<>> /\ Len(conns) <= Cons /\ Cons \in Nat
      BY <1>0, <1>1, PoolAssumption DEF TakePooled, PoolTypes
    <3>2. QED
      BY <2>1, <3>1, TailFacts
  <2>3. ThreadTypes'
    BY <1>1, <2>1, <2>2, BeginTypes DEF TakePooled
  <2>4. PoolTypes'
    BY <1>0, <1>1, <2>2 DEF TakePooled, PoolTypes
  <2>5. QED
    BY <1>1, <1>b, <1>c, <1>e, <2>3, <2>4 DEF TakePooled, Types
<1>2. ASSUME NEW t \in Threads, PoolEmpty(t) PROVE Types'
  <2>1. Phase("lock", tconn[t], left[t], need[t], body[t]) /\ "lock" \in PCs
    BY <1>0, <1>2, ThreadValues DEF PoolEmpty, Phase, PCs
  <2>2. ThreadTypes'
    BY <1>0, <1>2, <2>1, GotoTypes DEF PoolEmpty
  <2>3. QED
    BY <1>2, <1>b, <1>c, <1>d, <1>e, <2>2 DEF PoolEmpty, Types
<1>3. ASSUME NEW t \in Threads, Lock(t) PROVE Types'
  <2>1. Phase("dial", tconn[t], left[t], need[t], body[t]) /\ "dial" \in PCs
    BY <1>0, <1>3, ThreadValues DEF Lock, Phase, PCs
  <2>2. ThreadTypes'
    BY <1>0, <1>3, <2>1, GotoTypes DEF Lock
  <2>3. QED
    BY <1>3, <1>b, <1>c, <1>d, <1>e, <2>2 DEF Lock, Types
<1>4. ASSUME NEW t \in Threads, Dial(t) PROVE Types'
  <2>1. PICK c : c = NewConn
    OBVIOUS
  <2>2. c \in Sockets /\ c \in Free
    BY <1>4, <2>1, NewConnFacts DEF Dial
  <2>3. PICK e : e = <<>>
    OBVIOUS
  <2>4. e \in Seq(Cells) /\ e \in Seq(0 .. 15) /\ Len(e) = 0 /\ 0 <= SockReqs + 1 /\ 0 <= SockPieces
    BY <2>3, BatchFits, PoolAssumption
  <2>5. ThreadTypes'
    BY <1>4, <2>1, <2>2, BeginTypes DEF Dial
  <2>6. CASE hpc[c] # "write"
    <3>1. /\ HandlerTypes' /\ Unborn'
          /\ link' \in [Sockets -> {"none", "up", "reset", "eof", "closed"}]
      BY <1>4, <2>1, <2>2, <2>6, AcceptTypes DEF Dial
    <3>2. toServer' = [toServer EXCEPT ![c] = e] /\ toClient' = [toClient EXCEPT ![c] = e]
      BY <1>4, <2>1, <2>3 DEF Dial
    <3>3. WireTypes'
      BY <1>0, <2>2, <2>4, <3>1, <3>2 DEF WireTypes
    <3>4. QED
      BY <1>4, <1>d, <2>5, <3>1, <3>3 DEF Dial, Types
  <2>7. hpc[c] # "write"
    BY <1>0, <2>2 DEF Free, Unborn
  <2>8. QED
    BY <2>6, <2>7
<1>5. ASSUME NEW t \in Threads, DialFails(t) PROVE Types'
  <2>1. ThreadTypes'
    <3>1. tconn[t] \in Sockets \cup {NoConn} /\ tconn' = [tconn EXCEPT ![t] = tconn[t]]
      BY <1>0, <1>5, ThreadValues DEF DialFails
    <3>2. QED
      BY <1>0, <1>5, <3>1, LeaveTypes DEF DialFails
  <2>2. PoolTypes'
    BY <1>0, <1>5, PoolAssumption DEF DialFails, PoolTypes
  <2>3. QED
    BY <1>5, <1>b, <1>c, <1>e, <2>1, <2>2 DEF DialFails, Types
<1>6. ASSUME NEW t \in Threads, OpenStreamFails(t) PROVE Types'
  <2>1. PICK c : c = NewConn
    OBVIOUS
  <2>2. c \in Sockets /\ c \in Free
    BY <1>6, <2>1, NewConnFacts DEF OpenStreamFails
  <2>3. hpc[c] # "write"
    BY <1>0, <2>2 DEF Free, Unborn
  <2>4. /\ HandlerTypes' /\ Unborn'
        /\ link' \in [Sockets -> {"none", "up", "reset", "eof", "closed"}]
    BY <1>6, <2>1, <2>2, <2>3, AcceptTypes DEF OpenStreamFails
  <2>5. WireTypes'
    BY <1>0, <1>6, <2>4 DEF OpenStreamFails, WireTypes
  <2>6. ThreadTypes'
    <3>1. tconn[t] \in Sockets \cup {NoConn} /\ tconn' = [tconn EXCEPT ![t] = tconn[t]]
      BY <1>0, <1>6, ThreadValues DEF OpenStreamFails
    <3>2. QED
      BY <1>0, <1>6, <3>1, LeaveTypes DEF OpenStreamFails
  <2>7. PoolTypes'
    BY <1>0, <1>6, PoolAssumption DEF OpenStreamFails, PoolTypes
  <2>8. QED
    BY <2>4, <2>5, <2>6, <2>7 DEF Types
<1>7. ASSUME NEW t \in Threads, WriteRequest(t) PROVE Types'
  <2>1. PICK c : c = tconn[t]
    OBVIOUS
  <2>2. /\ tpc[t] = "write" /\ link[c] \in {"up", "eof"}
        /\ UNCHANGED <<mode, cmd, tconn, conns, open, toClient, faults, handlerVars>>
        /\ \/ /\ Len(toServer[c]) < SockReqs /\ UNCHANGED link
              /\ toServer' = [toServer EXCEPT ![c] = Append(@, cmd[t])]
           \/ link' = [link EXCEPT ![c] = "reset"] /\ UNCHANGED toServer
    BY <1>7, <2>1 DEF WriteRequest
  <2>3. c \in Sockets /\ left[t] \in 1 .. BatchSize /\ cmd[t] \in Commands /\ cmd[t] \in 0 .. 15
    BY <1>0, <2>1, <2>2, ThreadValues, PoolAssumption, BatchFits DEF Phase
  <2>4. WireTypes' /\ Unborn'
    <3>1. CASE Len(toServer[c]) < SockReqs /\ UNCHANGED link /\ toServer' = [toServer EXCEPT ![c] = Append(@, cmd[t])]
      <4>1. PICK q \in Seq(0 .. 15) : q = toServer[c]
        BY <1>0, <2>3 DEF WireTypes
      <4>2. PICK s : s = Append(q, cmd[t])
        OBVIOUS
      <4>3. s \in Seq(0 .. 15) /\ Len(s) <= SockReqs + 1
        BY <2>3, <3>1, <4>1, <4>2, AppendFacts, BatchFits
      <4>4. toServer' = [toServer EXCEPT ![c] = s]
        BY <3>1, <4>1, <4>2
      <4>5. QED
        BY <1>0, <1>e, <2>2, <2>3, <3>1, <4>3, <4>4 DEF WireTypes
    <3>2. CASE link' = [link EXCEPT ![c] = "reset"] /\ UNCHANGED toServer
      BY <1>0, <2>2, <2>3, <3>2 DEF WireTypes, Unborn
    <3>3. QED
      BY <2>2, <3>1, <3>2
  <2>5. ThreadTypes'
    <3>1. PICK l \in 1 .. BatchSize : left' = [left EXCEPT ![t] = l]
      <4>1. Get.requests \in 1 .. BatchSize
        BY <1>0, GetFacts DEF PoolTypes
      <4>2. left' = [left EXCEPT ![t] = IF left[t] = 1 THEN Get.requests ELSE left[t] - 1]
        BY <1>7 DEF WriteRequest
      <4>3. (IF left[t] = 1 THEN Get.requests ELSE left[t] - 1) \in 1 .. BatchSize
        BY <2>3, <4>1, BatchFits
      <4>4. QED
        BY <4>2, <4>3
    <3>2. PICK p \in {"write", "header", "body"} : tpc' = [tpc EXCEPT ![t] = p]
      BY <1>7 DEF WriteRequest, Goto
    <3>3. PICK n \in Nat : need' = [need EXCEPT ![t] = n]
      <4>1. GetSize(cmd[t]) \in Nat
        BY MaxPiecesFacts DEF GetSize
      <4>2. need' = [need EXCEPT ![t] = IF Get.framed THEN 0 ELSE GetSize(cmd[t])]
        BY <1>7 DEF WriteRequest
      <4>3. QED
        BY <4>1, <4>2
    <3>4. PICK e : e = <<>>
      OBVIOUS
    <3>5. e \in Seq(Cells) /\ Len(e) = 0 /\ body' = [body EXCEPT ![t] = e]
      BY <1>7, <3>4 DEF WriteRequest
    <3>6. cmd' = [cmd EXCEPT ![t] = cmd[t]] /\ tconn' = [tconn EXCEPT ![t] = c]
      BY <1>0, <2>1, <2>2, ThreadValues
    <3>7. Phase(p, c, l, n, e) /\ l \in 0 .. BatchSize /\ p \in PCs
      BY <2>3, <3>1, <3>2, <3>3, <3>5, BatchFits DEF Phase, PCs
    <3>8. c \in Sockets \cup {NoConn}
      BY <2>3
    <3>9. QED
      BY <1>0, <2>3, <3>1, <3>2, <3>3, <3>5, <3>6, <3>7, <3>8, ThreadStep
  <2>6. QED
    BY <2>2, <1>c, <1>d, <2>4, <2>5 DEF Types
<1>8. ASSUME NEW t \in Threads, ReadHeader(t) PROVE Types'
  <2>1. PICK c : c = tconn[t]
    OBVIOUS
  <2>2. /\ tpc[t] = "header" /\ toClient[c] # <<>> /\ toClient' = [toClient EXCEPT ![c] = Tail(@)]
        /\ UNCHANGED <<mode, cmd, tconn, left, conns, open, link, toServer, faults, handlerVars>>
    BY <1>8, <2>1 DEF ReadHeader, Consume
  <2>3. c \in Sockets /\ left[t] \in 0 .. BatchSize /\ left[t] > 0
    BY <1>0, <2>1, <2>2, ThreadValues DEF Phase
  <2>4. PICK q \in Seq(Cells) : q = toClient[c]
    BY <1>0, <2>3 DEF WireTypes
  <2>5. Head(q) \in Cells /\ Tail(q) \in Seq(Cells) /\ Len(Tail(q)) = Len(q) - 1 /\ Len(q) \in Nat
    BY <2>2, <2>4, TailFacts
  <2>6. WireTypes'
    <3>1. PICK s \in Seq(Cells) : s = Tail(q)
      BY <2>5
    <3>2. toClient' = [toClient EXCEPT ![c] = s]
      BY <2>2, <2>4, <3>1
    <3>3. Len(s) <= SockPieces
      BY <1>0, <2>3, <2>4, <2>5, <3>1, PoolAssumption DEF WireTypes
    <3>4. QED
      BY <1>0, <2>2, <2>3, <3>1, <3>2, <3>3 DEF WireTypes
  <2>7. ThreadTypes'
    <3>1. PICK n \in Nat : n = Head(q)[2]
      BY <2>5 DEF Cells
    <3>2. PICK e : e = <<>>
      OBVIOUS
    <3>3. e \in Seq(Cells) /\ Len(e) = 0 /\ body' = [body EXCEPT ![t] = e] /\ need' = [need EXCEPT ![t] = n]
      BY <1>8, <2>1, <2>4, <3>1, <3>2 DEF ReadHeader
    <3>4. /\ cmd' = [cmd EXCEPT ![t] = cmd[t]] /\ tconn' = [tconn EXCEPT ![t] = c]
          /\ left' = [left EXCEPT ![t] = left[t]] /\ tpc' = [tpc EXCEPT ![t] = "body"]
      BY <1>0, <1>8, <2>1, <2>2, ThreadValues DEF ReadHeader, Goto
    <3>5. Phase("body", c, left[t], n, e) /\ "body" \in PCs /\ cmd[t] \in Commands /\ c \in Sockets \cup {NoConn}
      BY <1>0, <2>3, <3>1, <3>3, ThreadValues DEF Phase, PCs
    <3>6. QED
      BY <1>0, <2>3, <3>1, <3>3, <3>4, <3>5, ThreadStep
  <2>8. QED
    BY <2>2, <1>c, <1>d, <1>e, <2>6, <2>7 DEF Types
<1>9. ASSUME NEW t \in Threads, ReadPiece(t) PROVE Types'
  <2>1. PICK c : c = tconn[t]
    OBVIOUS
  <2>2. /\ tpc[t] = "body" /\ toClient[c] # <<>> /\ toClient' = [toClient EXCEPT ![c] = Tail(@)]
        /\ Len(body[t]) < need[t]
        /\ UNCHANGED <<mode, tpc, cmd, tconn, left, need, conns, open, link, toServer, faults, handlerVars>>
    BY <1>9, <2>1 DEF ReadPiece, Consume
  <2>3. c \in Sockets /\ left[t] \in 0 .. BatchSize /\ left[t] > 0
    BY <1>0, <2>1, <2>2, ThreadValues DEF Phase
  <2>4. PICK q \in Seq(Cells) : q = toClient[c]
    BY <1>0, <2>3 DEF WireTypes
  <2>5. Head(q) \in Cells /\ Tail(q) \in Seq(Cells) /\ Len(Tail(q)) = Len(q) - 1 /\ Len(q) \in Nat
    BY <2>2, <2>4, TailFacts
  <2>6. WireTypes'
    <3>1. PICK s \in Seq(Cells) : s = Tail(q)
      BY <2>5
    <3>2. toClient' = [toClient EXCEPT ![c] = s]
      BY <2>2, <2>4, <3>1
    <3>3. Len(s) <= SockPieces
      BY <1>0, <2>3, <2>4, <2>5, <3>1, PoolAssumption DEF WireTypes
    <3>4. QED
      BY <1>0, <2>2, <2>3, <3>1, <3>2, <3>3 DEF WireTypes
  <2>7. ThreadTypes'
    <3>1. PICK bd \in Seq(Cells) : bd = body[t]
      BY <1>0, ThreadValues
    <3>2. PICK e : e = Append(bd, Head(q))
      OBVIOUS
    <3>3. e \in Seq(Cells) /\ Len(e) = Len(bd) + 1 /\ Len(bd) \in Nat
      BY <2>5, <3>1, <3>2, AppendFacts
    <3>4. body' = [body EXCEPT ![t] = e]
      BY <1>9, <2>1, <2>4, <3>1, <3>2 DEF ReadPiece
    <3>5. /\ cmd' = [cmd EXCEPT ![t] = cmd[t]] /\ tconn' = [tconn EXCEPT ![t] = c]
          /\ left' = [left EXCEPT ![t] = left[t]] /\ tpc' = [tpc EXCEPT ![t] = "body"]
          /\ need' = [need EXCEPT ![t] = need[t]]
      BY <1>0, <2>1, <2>2, ThreadValues
    <3>6. need[t] \in Nat /\ "body" \in PCs /\ cmd[t] \in Commands /\ c \in Sockets \cup {NoConn}
      BY <1>0, <2>3, ThreadValues DEF PCs
    <3>7. Phase("body", c, left[t], need[t], e)
      BY <2>2, <2>3, <3>1, <3>3, <3>6 DEF Phase
    <3>8. QED
      BY <1>0, <2>3, <3>3, <3>4, <3>5, <3>6, <3>7, ThreadStep
  <2>8. QED
    BY <2>2, <1>c, <1>d, <1>e, <2>6, <2>7 DEF Types
<1>10. ASSUME NEW t \in Threads, ResponseRead(t) PROVE Types'
  <2>1. /\ tpc[t] = "body" /\ UNCHANGED <<mode, tconn, conns, open, wireVars, faults, handlerVars>>
    BY <1>10 DEF ResponseRead
  <2>2. tconn' = [tconn EXCEPT ![t] = tconn[t]]
    BY <1>0, <2>1, ThreadValues
  <2>3. ASSUME Leave(t, "stopped") PROVE ThreadTypes'
    <3>1. PICK c \in Sockets \cup {NoConn} : c = tconn[t]
      BY <1>0, ThreadValues
    <3>2. QED
      BY <1>0, <2>2, <2>3, <3>1, LeaveTypes
  <2>4. ASSUME Goto(t, IF left[t] > 1 THEN "header" ELSE "put"), left' = [left EXCEPT ![t] = @ - 1], UNCHANGED <<cmd, need, body>>
        PROVE  ThreadTypes'
    <3>1. PICK l : l = left[t] - 1
      OBVIOUS
    <3>2. PICK p : p = IF left[t] > 1 THEN "header" ELSE "put"
      OBVIOUS
    <3>3. left[t] \in 1 .. BatchSize /\ tconn[t] \in Sockets
      BY <1>0, <2>1, ThreadValues, BatchFits DEF Phase
    <3>4. l \in 0 .. BatchSize /\ p \in PCs /\ (p = "header" => l > 0) /\ p \in {"header", "put"}
      BY <3>1, <3>2, <3>3, BatchFits DEF PCs
    <3>5. PICK k \in Commands : k = cmd[t]
      BY <1>0, ThreadValues
    <3>6. PICK n \in Nat : n = need[t]
      BY <1>0, ThreadValues
    <3>7. PICK bd \in Seq(Cells) : bd = body[t]
      BY <1>0, ThreadValues
    <3>8. PICK c \in Sockets \cup {NoConn} : c = tconn[t]
      BY <1>0, ThreadValues
    <3>9. Phase(p, c, l, n, bd)
      BY <1>0, <3>3, <3>4, <3>6, <3>7, <3>8, ThreadValues DEF Phase
    <3>10. tpc' = [tpc EXCEPT ![t] = p] /\ left' = [left EXCEPT ![t] = l]
      BY <2>4, <3>1, <3>2 DEF Goto
    <3>11. /\ cmd' = [cmd EXCEPT ![t] = k] /\ need' = [need EXCEPT ![t] = n]
           /\ body' = [body EXCEPT ![t] = bd] /\ tconn' = [tconn EXCEPT ![t] = c]
      BY <1>0, <2>2, <2>4, <3>5, <3>6, <3>7, <3>8, ThreadValues
    <3>12. QED
      BY <1>0, <3>4, <3>9, <3>10, <3>11, ThreadStep
  <2>5. ThreadTypes'
    BY <1>10, <2>3, <2>4 DEF ResponseRead
  <2>6. QED
    BY <2>1, <1>b, <1>c, <1>d, <1>e, <2>5 DEF Types
<1>11. ASSUME NEW t \in Threads, IOFails(t) PROVE Types'
  <2>1. Leave(t, "stopped") /\ UNCHANGED <<mode, tconn, conns, open, wireVars, faults, handlerVars>>
    BY <1>11 DEF IOFails
  <2>2. tconn' = [tconn EXCEPT ![t] = tconn[t]] /\ tconn[t] \in Sockets \cup {NoConn}
    BY <1>0, <2>1, ThreadValues
  <2>3. ThreadTypes'
    BY <1>0, <2>1, <2>2, LeaveTypes
  <2>4. QED
    BY <2>1, <1>b, <1>c, <1>d, <1>e, <2>3 DEF Types
<1>12. ASSUME NEW t \in Threads, Put(t) PROVE Types'
  <2>1. PICK c : c = tconn[t]
    OBVIOUS
  <2>2. /\ tpc[t] = "put" /\ Leave(t, "idle") /\ tconn' = [tconn EXCEPT ![t] = NoConn]
        /\ UNCHANGED <<mode, open, toServer, toClient, faults, handlerVars>>
        /\ \/ Len(conns) < Cons /\ conns' = Append(conns, c) /\ UNCHANGED link
           \/ link' = [link EXCEPT ![c] = "closed"] /\ UNCHANGED conns
    BY <1>12, <2>1 DEF Put
  <2>3. c \in Sockets
    BY <1>0, <2>1, <2>2, ThreadValues DEF Phase
  <2>4. ThreadTypes'
    BY <1>0, <2>2, LeaveTypes
  <2>5. WireTypes' /\ Unborn'
    BY <1>0, <2>2, <2>3 DEF WireTypes, Unborn
  <2>6. PoolTypes'
    <3>1. conns \in Seq(Sockets) /\ Len(conns) <= Cons
      BY <1>0 DEF PoolTypes
    <3>2. Append(conns, c) \in Seq(Sockets) /\ Len(Append(conns, c)) = Len(conns) + 1 /\ Len(conns) \in Nat
      BY <2>3, <3>1, AppendFacts
    <3>3. conns' \in Seq(Sockets) /\ Len(conns') <= Cons
      <4>1. CASE UNCHANGED conns
        BY <3>1, <4>1
      <4>2. CASE Len(conns) < Cons /\ conns' = Append(conns, c)
        BY <3>2, <4>2, PoolAssumption
      <4>3. QED
        BY <2>2, <4>1, <4>2
    <3>4. QED
      BY <1>0, <2>2, <3>3 DEF PoolTypes
  <2>7. QED
    BY <2>2, <1>c, <2>4, <2>5, <2>6 DEF Types
<1>13. CASE Close
  <2>1. PICK e : e = <<>>
    OBVIOUS
  <2>2. e \in Seq(Cells) /\ Len(e) = 0 /\ 0 <= SockPieces /\ toClient' = [c \in Sockets |-> e]
    BY <1>13, <2>1, PoolAssumption DEF Close
  <2>3. link' = [c \in Sockets |-> IF link[c] = "none" THEN "none" ELSE "closed"] /\ UNCHANGED toServer
    BY <1>13 DEF Close
  <2>4. WireTypes'
    BY <1>0, <2>2, <2>3 DEF WireTypes
  <2>5. Unborn' /\ PoolTypes'
    BY <1>0, <1>13, <2>3 DEF Unborn, PoolTypes, Close
  <2>6. QED
    BY <1>13, <1>a, <1>c, <2>4, <2>5 DEF Close, Types
<1>14. ASSUME NEW c \in Sockets, AcceptStream(c) PROVE Types'
  <2>1. UNCHANGED <<mode, threadVars, conns, open, toClient, faults, hbuf, bufs>>
    BY <1>14 DEF AcceptStream
  <2>2. CASE Crash(c)
    BY <1>a, <1>d, <2>1, <2>2, CrashTypes DEF Types
  <2>3. CASE hpc' = [hpc EXCEPT ![c] = "read"] /\ UNCHANGED <<link, server, toServer, hout>>
    <3>1. hpc[c] = "stream"
      BY <1>14 DEF AcceptStream
    <3>2. HandlerTypes' /\ Unborn'
      BY <1>0, <2>1, <2>3, <3>1 DEF HandlerTypes, Unborn
    <3>3. QED
      BY <1>a, <1>b, <1>d, <2>1, <2>3, <3>2 DEF Types
  <2>4. QED
    BY <1>14, <2>2, <2>3 DEF AcceptStream
<1>15. ASSUME NEW c \in Sockets, TcppoolHandle(c) \/ QuicHandle(c) PROVE Types'
  <2>1. PICK k : k = Head(toServer[c])
    OBVIOUS
  <2>2. Arrived(c) /\ UNCHANGED hbuf
    BY <1>15 DEF TcppoolHandle, QuicHandle
  <2>3. k \in 0 .. 15
    BY <2>1, <2>2, ArrivedFacts
  <2>4. PICK pieces : pieces = TcppoolResponse(k)
    OBVIOUS
  <2>5. Reply(c, pieces)
    BY <1>15, <2>1, <2>3, <2>4, ResponseFacts DEF TcppoolHandle, QuicHandle
  <2>6. pieces \in Seq(Cells) /\ Len(pieces) > 0
    <3>1. pieces \in Seq(Cells) /\ Len(pieces) = IF k \in Known THEN Pieces[k] + 1 ELSE 2
      BY <2>3, <2>4, ResponseFacts
    <3>2. QED
      BY <3>1, MaxPiecesFacts
  <2>7. hbuf' \in [Sockets -> 0 .. MaxPieces]
    BY <1>0, <2>2 DEF HandlerTypes
  <2>8. QED
    BY <2>2, <2>5, <2>6, <2>7, ReplyTypes
<1>16. ASSUME NEW c \in Sockets, React(c) PROVE Types'
  <2>1. PICK k : k = Head(toServer[c])
    OBVIOUS
  <2>2. Arrived(c) /\ hbuf' = [hbuf EXCEPT ![c] = GetSize(k)]
    BY <1>16, <2>1 DEF React
  <2>3. k \in 0 .. 15
    BY <2>1, <2>2, ArrivedFacts
  <2>4. PICK room \in bufs \cup {MaxPieces} : Reply(c, GonetResponse(k, room))
    BY <1>16, <2>1 DEF React
  <2>5. room \in Nat
    BY <1>0, <2>4, MaxPiecesFacts DEF HandlerTypes
  <2>6. PICK pieces : pieces = GonetResponse(k, room)
    OBVIOUS
  <2>7. pieces \in Seq(Cells) /\ Len(pieces) > 0
    <3>1. pieces \in Seq(Cells) /\ Len(pieces) = IF k \in Known THEN Pieces[k] + 1 ELSE 1
      BY <2>3, <2>5, <2>6, GonetFacts
    <3>2. QED
      BY <3>1, MaxPiecesFacts
  <2>8. GetSize(k) \in 0 .. MaxPieces
    BY MaxPiecesFacts DEF GetSize
  <2>9. hbuf' \in [Sockets -> 0 .. MaxPieces]
    BY <1>0, <2>2, <2>8 DEF HandlerTypes
  <2>10. QED
    BY <2>2, <2>4, <2>6, <2>7, <2>9, ReplyTypes
<1>17. ASSUME NEW c \in Sockets, SendfileHandle(c) PROVE Types'
  <2>1. PICK k : k = Head(toServer[c])
    OBVIOUS
  <2>2. CASE k \in Known /\ Reply(c, Block(k)) /\ UNCHANGED hbuf
    <3>1. PICK pieces : pieces = Block(k)
      OBVIOUS
    <3>2. pieces \in Seq(Cells) /\ Len(pieces) > 0
      BY <2>2, <3>1, BlockFacts, MaxPiecesFacts
    <3>3. Arrived(c) /\ hbuf' \in [Sockets -> 0 .. MaxPieces]
      BY <1>0, <1>17, <2>2 DEF SendfileHandle, HandlerTypes
    <3>4. QED
      BY <2>2, <3>1, <3>2, <3>3, ReplyTypes
  <2>3. CASE Crash(c) /\ UNCHANGED <<mode, threadVars, conns, open, toClient, faults, hbuf, bufs>>
    BY <1>a, <1>d, <2>3, CrashTypes DEF Types
  <2>4. QED
    BY <1>17, <2>1, <2>2, <2>3 DEF SendfileHandle
<1>18. ASSUME NEW c \in Sockets, HandlerWrite(c) PROVE Types'
  <2>1. /\ hpc[c] = "write" /\ Len(toClient[c]) < SockPieces
        /\ UNCHANGED <<mode, threadVars, conns, open, link, toServer, faults, server>>
    BY <1>18 DEF HandlerWrite
  <2>2. PICK h \in Seq(Cells) : h = hout[c] /\ h # <<>>
    BY <1>0, <2>1 DEF HandlerTypes
  <2>3. Head(h) \in Cells /\ Tail(h) \in Seq(Cells) /\ Len(Tail(h)) = Len(h) - 1 /\ Len(h) \in Nat \ {0}
    BY <2>2, TailFacts
  <2>4. PICK q \in Seq(Cells) : q = toClient[c]
    BY <1>0 DEF WireTypes
  <2>5. PICK s : s = Append(q, Head(h))
    OBVIOUS
  <2>6. s \in Seq(Cells) /\ Len(s) = Len(q) + 1 /\ Len(q) \in Nat
    BY <2>3, <2>4, <2>5, AppendFacts
  <2>7. toClient' = [toClient EXCEPT ![c] = s]
    BY <1>18, <2>2, <2>4, <2>5 DEF HandlerWrite
  <2>8. Len(s) <= SockPieces
    BY <2>1, <2>4, <2>6, PoolAssumption
  <2>9. WireTypes'
    BY <1>0, <2>1, <2>6, <2>7, <2>8 DEF WireTypes
  <2>10. PICK g \in Seq(Cells) : g = Tail(h)
    BY <2>3
  <2>11. g = <<>> <=> Len(h) = 1
    <3>1. Len(g) = Len(h) - 1 /\ Len(h) \in Nat
      BY <2>3, <2>10
    <3>2. g = <<>> <=> Len(g) = 0
      BY <2>10, EmptySeq
    <3>3. QED
      BY <3>1, <3>2
  <2>12. hout' = [hout EXCEPT ![c] = g]
    BY <1>18, <2>2, <2>10 DEF HandlerWrite
  <2>13. PICK p : p = IF Len(h) = 1 THEN "read" ELSE "write"
    OBVIOUS
  <2>14. hpc' = [hpc EXCEPT ![c] = p]
    BY <1>18, <2>1, <2>2, <2>13 DEF HandlerWrite
  <2>15. hbuf' \in [Sockets -> 0 .. MaxPieces] /\ bufs' \subseteq 0 .. MaxPieces
    <3>1. CASE UNCHANGED <<bufs, hbuf>>
      BY <1>0, <3>1 DEF HandlerTypes
    <3>2. CASE AfterWrite(c)
      <4>1. hbuf[c] \in 0 .. MaxPieces /\ 0 \in 0 .. MaxPieces
        BY <1>0, MaxPiecesFacts DEF HandlerTypes
      <4>2. bufs' \subseteq bufs \cup {hbuf[c]} /\ hbuf' = [hbuf EXCEPT ![c] = 0]
        BY <3>2 DEF AfterWrite
      <4>3. QED
        BY <1>0, <4>1, <4>2 DEF HandlerTypes
    <3>3. QED
      BY <1>18, <3>1, <3>2 DEF HandlerWrite
  <2>16. \A d \in Sockets : hpc'[d] = "write" <=> hout'[d] # <<>>
    BY <1>0, <2>11, <2>12, <2>13, <2>14 DEF HandlerTypes
  <2>17. hpc' \in [Sockets -> {"off", "stream", "read", "write"}] /\ hout' \in [Sockets -> Seq(Cells)]
    BY <1>0, <2>10, <2>12, <2>13, <2>14 DEF HandlerTypes
  <2>18. HandlerTypes'
    BY <1>0, <2>1, <2>15, <2>16, <2>17 DEF HandlerTypes
  <2>19. Unborn'
    BY <1>0, <2>1, <2>14 DEF Unborn, HandlerTypes
  <2>20. QED
    BY <1>a, <1>d, <2>1, <2>9, <2>18, <2>19 DEF Types
<1>19. ASSUME NEW c \in Sockets, HandlerEnds(c) PROVE Types'
  <2>1. /\ hpc' = [hpc EXCEPT ![c] = "off"] /\ hout' = [hout EXCEPT ![c] = <<>>]
        /\ UNCHANGED <<mode, threadVars, conns, open, wireVars, faults, server, hbuf, bufs>>
    BY <1>19 DEF HandlerEnds
  <2>2. PICK e : e = <<>>
    OBVIOUS
  <2>3. hout' = [hout EXCEPT ![c] = e] /\ e \in Seq(Cells)
    BY <2>1, <2>2
  <2>4. HandlerTypes'
    BY <1>0, <2>1, <2>2, <2>3 DEF HandlerTypes
  <2>5. Unborn'
    BY <1>0, <2>1 DEF Unborn, HandlerTypes
  <2>6. QED
    BY <1>a, <1>b, <1>d, <2>1, <2>4, <2>5 DEF Types
<1>20. ASSUME NEW c \in Sockets, NetBreaks(c) PROVE Types'
  <2>1. PICK e : e = <<>>
    OBVIOUS
  <2>2. e \in Seq(Cells) /\ e \in Seq(0 .. 15) /\ Len(e) = 0 /\ 0 <= SockPieces /\ 0 <= SockReqs + 1
    BY <2>1, PoolAssumption, BatchFits
  <2>3. toServer' = [toServer EXCEPT ![c] = e] /\ toClient' = [toClient EXCEPT ![c] = e] /\ link' = [link EXCEPT ![c] = "reset"]
    BY <1>20, <2>1 DEF NetBreaks
  <2>4. WireTypes'
    BY <1>0, <2>2, <2>3 DEF WireTypes
  <2>5. Unborn' /\ PoolTypes'
    BY <1>0, <1>20, <2>3, PoolAssumption DEF Unborn, PoolTypes, WireTypes, NetBreaks
  <2>6. QED
    BY <1>20, <1>a, <1>c, <2>4, <2>5 DEF NetBreaks, Types
<1>21. CASE UNCHANGED vars
  BY <1>21, <1>a, <1>b, <1>c, <1>d, <1>e DEF vars, Types
<1>22. QED
  BY <1>1, <1>2, <1>3, <1>4, <1>5, <1>6, <1>7, <1>8, <1>9, <1>10, <1>11, <1>12, <1>13, <1>14, <1>15, <1>16, <1>17, <1>18, <1>19, <1>20, <1>21 DEF Next, ThreadNext, HandlerNext

-----------------------------------------------------------------------------
(* The number of connections. *)

(* The threads that have a connection or are about to dial one. *)
Engaged == {t \in Threads : tconn[t] # NoConn \/ tpc[t] \in {"lock", "dial"}}

(* Each connection in conns has a thread that is not engaged. *)
BoundInv == Len(conns) + Cardinality(Engaged) <= NumThreads

(* Sets of threads are finite. *)
LEMMA ThreadSets ==
  ASSUME NEW S, S \subseteq Threads
  PROVE  IsFiniteSet(S) /\ Cardinality(S) \in Nat /\ Cardinality(S) <= NumThreads
<1>1. NumThreads \in Nat \ {0} /\ NumThreads \in Int /\ 1 \in Int
  BY PoolAssumption
<1>2. IsFiniteSet(1 .. NumThreads) /\ Cardinality(1 .. NumThreads) = NumThreads
  BY <1>1, FS_Interval
<1>3. IsFiniteSet(S) /\ Cardinality(S) <= NumThreads
  BY <1>2, FS_Subset DEF Threads
<1>4. QED
  BY <1>3, FS_CardinalityType

(* A smaller set of threads has no more members, and fewer without t. *)
LEMMA ThreadSubsets ==
  ASSUME NEW S, S \subseteq Threads, NEW T, T \subseteq S
  PROVE  /\ Cardinality(T) <= Cardinality(S)
         /\ \A t \in S : t \notin T => Cardinality(T) + 1 <= Cardinality(S)
<1>1. IsFiniteSet(S) /\ Cardinality(S) \in Nat
  BY ThreadSets
<1>2. Cardinality(T) <= Cardinality(S)
  BY <1>1, FS_Subset
<1>3. ASSUME NEW t \in S, t \notin T PROVE Cardinality(T) + 1 <= Cardinality(S)
  <2>1. PICK R : R = S \ {t}
    OBVIOUS
  <2>2. IsFiniteSet(R) /\ Cardinality(R) = Cardinality(S) - 1
    BY <1>1, <2>1, FS_RemoveElement
  <2>3. T \in SUBSET R
    BY <1>3, <2>1
  <2>4. Cardinality(T) <= Cardinality(R)
    BY <2>2, <2>3, FS_Subset
  <2>5. Cardinality(T) \in Nat
    BY ThreadSets
  <2>6. QED
    BY <1>1, <2>2, <2>4, <2>5
<1>4. QED
  BY <1>2, <1>3

(* No thread becomes engaged and no connection is added. *)
LEMMA BoundKept ==
  ASSUME Types, BoundInv, Engaged' \subseteq Engaged, Len(conns') = Len(conns)
  PROVE  BoundInv'
<1>1. PICK S : S = Engaged
  OBVIOUS
<1>2. PICK T : T = Engaged'
  OBVIOUS
<1>3. S \subseteq Threads /\ T \subseteq S
  BY <1>1, <1>2 DEF Engaged
<1>4. Cardinality(T) <= Cardinality(S) /\ Cardinality(S) \in Nat /\ Cardinality(T) \in Nat
  BY <1>3, ThreadSubsets, ThreadSets
<1>5. Len(conns) \in Nat /\ NumThreads \in Nat
  BY PoolAssumption DEF Types, PoolTypes
<1>6. Len(conns) + Cardinality(S) <= NumThreads
  BY <1>1 DEF BoundInv
<1>7. Len(conns') + Cardinality(T) <= NumThreads
  BY <1>4, <1>5, <1>6
<1>8. QED
  BY <1>2, <1>7 DEF BoundInv

(* Every step keeps the bound. *)
LEMMA NextBound == Types /\ BoundInv /\ [Next]_vars => BoundInv'
<1> SUFFICES ASSUME Types, BoundInv, [Next]_vars PROVE BoundInv'
  OBVIOUS
<1> USE DEF threadVars, wireVars, handlerVars
<1>0. ThreadTypes /\ conns \in Seq(Sockets) /\ Len(conns) \in Nat /\ NumThreads \in Nat
  BY PoolAssumption DEF Types, PoolTypes
<1>1. ASSUME NEW t \in Threads, TakePooled(t) PROVE BoundInv'
  <2>1. PICK S : S = Engaged
    OBVIOUS
  <2>2. PICK T : T = Engaged'
    OBVIOUS
  <2>3. tpc' = [tpc EXCEPT ![t] = "write"] /\ tconn' = [tconn EXCEPT ![t] = Head(conns)]
    BY <1>1 DEF TakePooled, Begin, Goto
  <2>4. T \subseteq S \cup {t}
    BY <1>0, <2>1, <2>2, <2>3 DEF Engaged, ThreadTypes
  <2>5. IsFiniteSet(S) /\ Cardinality(S) \in Nat
    BY <2>1, ThreadSets DEF Engaged
  <2>6. IsFiniteSet(S \cup {t}) /\ Cardinality(S \cup {t}) <= Cardinality(S) + 1
    <3>1. CASE t \in S
      <4>1. S \cup {t} = S
        BY <3>1
      <4>2. QED
        BY <2>5, <4>1
    <3>2. CASE t \notin S
      <4>1. PICK n, R : n = Cardinality(S) /\ R = Cardinality(S \cup {t})
        OBVIOUS
      <4>2. IsFiniteSet(S \cup {t}) /\ R = IF t \in S THEN n ELSE n + 1
        BY <2>5, <4>1, FS_AddElement, Zenon
      <4>3. n \in Nat /\ R <= n + 1
        BY <2>5, <3>2, <4>1, <4>2
      <4>4. QED
        BY <4>1, <4>2, <4>3, Zenon
    <3>3. QED
      BY <3>1, <3>2
  <2>7. S \cup {t} \subseteq Threads
    BY <2>1 DEF Engaged
  <2>8. Cardinality(T) <= Cardinality(S \cup {t}) /\ Cardinality(S \cup {t}) \in Nat /\ Cardinality(T) \in Nat
    BY <2>4, <2>7, ThreadSubsets, ThreadSets
  <2>9. conns # <<>> /\ conns' = Tail(conns)
    BY <1>1 DEF TakePooled
  <2>10. Len(conns') = Len(conns) - 1
    BY <1>0, <2>9, TailFacts
  <2>11. Len(conns) + Cardinality(S) <= NumThreads
    BY <2>1 DEF BoundInv
  <2>12. Len(conns') + Cardinality(T) <= NumThreads
    BY <1>0, <2>5, <2>6, <2>8, <2>10, <2>11
  <2>13. QED
    BY <2>2, <2>12 DEF BoundInv
<1>2. ASSUME NEW t \in Threads, PoolEmpty(t) PROVE BoundInv'
  <2>1. PICK T : T = Engaged'
    OBVIOUS
  <2>2. T \subseteq Threads
    BY <2>1 DEF Engaged
  <2>3. Cardinality(T) <= NumThreads /\ Cardinality(T) \in Nat
    BY <2>2, ThreadSets
  <2>4. Len(conns') = 0
    BY <1>2 DEF PoolEmpty
  <2>5. QED
    BY <2>1, <2>3, <2>4 DEF BoundInv
<1>3. ASSUME NEW t \in Threads, Lock(t) PROVE BoundInv'
  <2>1. tpc[t] = "lock" /\ tpc' = [tpc EXCEPT ![t] = "dial"] /\ UNCHANGED <<tconn, conns>>
    BY <1>3 DEF Lock, Goto
  <2>2. Engaged' \subseteq Engaged
    BY <1>0, <2>1 DEF Engaged, ThreadTypes
  <2>3. QED
    BY <2>1, <2>2, BoundKept
<1>4. ASSUME NEW t \in Threads, Dial(t) PROVE BoundInv'
  <2>1. tpc[t] = "dial" /\ tpc' = [tpc EXCEPT ![t] = "write"] /\ tconn' = [tconn EXCEPT ![t] = NewConn] /\ UNCHANGED conns
    BY <1>4 DEF Dial, Begin, Goto
  <2>2. Engaged' \subseteq Engaged
    BY <1>0, <2>1 DEF Engaged, ThreadTypes
  <2>3. QED
    BY <2>1, <2>2, BoundKept
<1>5. ASSUME NEW t \in Threads, DialFails(t) \/ OpenStreamFails(t) \/ IOFails(t) PROVE BoundInv'
  <2>1. tpc' = [tpc EXCEPT ![t] = "stopped"] /\ UNCHANGED <<tconn, conns>>
    BY <1>5 DEF DialFails, OpenStreamFails, IOFails, Leave, Goto
  <2>2. Engaged' \subseteq Engaged
    BY <1>0, <2>1 DEF Engaged, ThreadTypes
  <2>3. QED
    BY <2>1, <2>2, BoundKept
<1>6. ASSUME NEW t \in Threads, WriteRequest(t) \/ ReadHeader(t) \/ ResponseRead(t) PROVE BoundInv'
  <2>1. PICK p \in {"write", "header", "body", "put", "stopped"} : tpc' = [tpc EXCEPT ![t] = p]
    BY <1>6 DEF WriteRequest, ReadHeader, ResponseRead, Leave, Goto
  <2>2. UNCHANGED <<tconn, conns>>
    BY <1>6 DEF WriteRequest, ReadHeader, ResponseRead
  <2>3. Engaged' \subseteq Engaged
    BY <1>0, <2>1, <2>2 DEF Engaged, ThreadTypes
  <2>4. QED
    BY <2>2, <2>3, BoundKept
<1>7. ASSUME NEW t \in Threads, Put(t) PROVE BoundInv'
  <2>1. PICK S : S = Engaged
    OBVIOUS
  <2>2. PICK T : T = Engaged'
    OBVIOUS
  <2>3. /\ tpc[t] = "put" /\ tpc' = [tpc EXCEPT ![t] = "idle"] /\ tconn' = [tconn EXCEPT ![t] = NoConn]
        /\ conns' = conns \/ conns' = Append(conns, tconn[t])
    BY <1>7 DEF Put, Leave, Goto
  <2>4. tconn[t] \in Sockets /\ NoConn \notin Sockets
    BY <1>0, <2>3, ThreadValues, PoolAssumption DEF Phase
  <2>5. T \subseteq S /\ t \in S /\ t \notin T /\ S \subseteq Threads
    BY <1>0, <2>1, <2>2, <2>3, <2>4 DEF Engaged, ThreadTypes
  <2>6. Cardinality(T) + 1 <= Cardinality(S) /\ Cardinality(S) \in Nat /\ Cardinality(T) \in Nat
    BY <2>5, ThreadSubsets, ThreadSets
  <2>7. Len(conns') <= Len(conns) + 1 /\ Len(conns') \in Nat
    BY <1>0, <2>3, <2>4, AppendFacts
  <2>8. Len(conns) + Cardinality(S) <= NumThreads
    BY <2>1 DEF BoundInv
  <2>9. Len(conns') + Cardinality(T) <= NumThreads
    BY <1>0, <2>6, <2>7, <2>8
  <2>10. QED
    BY <2>2, <2>9 DEF BoundInv
<1>8. CASE UNCHANGED <<tpc, tconn, conns>>
  <2>1. Engaged' \subseteq Engaged
    BY <1>8 DEF Engaged
  <2>2. QED
    BY <1>8, <2>1, BoundKept
<1>9. ASSUME NEW t \in Threads, ReadPiece(t) PROVE UNCHANGED <<tpc, tconn, conns>>
  BY <1>9 DEF ReadPiece
<1>10. ASSUME NEW c \in Sockets, HandlerNext(c) \/ NetBreaks(c) PROVE UNCHANGED <<tpc, tconn, conns>>
  BY <1>10 DEF HandlerNext, NetBreaks, AcceptStream, TcppoolHandle, QuicHandle, React, SendfileHandle, HandlerWrite, HandlerEnds, Reply
<1>11. Close \/ UNCHANGED vars => UNCHANGED <<tpc, tconn, conns>>
  BY DEF Close, vars
<1>12. QED
  BY <1>1, <1>2, <1>3, <1>4, <1>5, <1>6, <1>7, <1>8, <1>9, <1>10, <1>11 DEF Next, ThreadNext

(* No more members than positions. *)
LEMMA RangeBounded ==
  ASSUME NEW S, NEW q \in Seq(S)
  PROVE  IsFiniteSet(Range(q)) /\ Cardinality(Range(q)) <= Len(q) /\ Cardinality(Range(q)) \in Nat
<1>1. Len(q) \in Nat /\ DOMAIN q = 1 .. Len(q) /\ 1 \in Int /\ Len(q) \in Int
  OBVIOUS
<1>2. IsFiniteSet(1 .. Len(q)) /\ Cardinality(1 .. Len(q)) = Len(q)
  BY <1>1, FS_Interval
<1>3. q \in Surjection(1 .. Len(q), Range(q))
  BY <1>1 DEF Surjection, Range
<1>4. IsFiniteSet(Range(q)) /\ Cardinality(Range(q)) <= Len(q)
  BY <1>2, <1>3, FS_Surjection
<1>5. QED
  BY <1>4, FS_CardinalityType

(* The bound is about the connections of the client. *)
LEMMA BoundImplies == Types /\ BoundInv => ConnsBounded
<1> SUFFICES ASSUME Types, BoundInv PROVE ConnsBounded
  OBVIOUS
<1>1. ThreadTypes /\ conns \in Seq(Sockets) /\ Len(conns) \in Nat /\ NumThreads \in Nat
  BY PoolAssumption DEF Types, PoolTypes
<1>2. PICK H : H = {t \in Threads : tconn[t] # NoConn}
  OBVIOUS
<1>3. PICK C : C = {tconn[t] : t \in H}
  OBVIOUS
<1>4. IsFiniteSet(H) /\ Cardinality(H) \in Nat /\ H \subseteq Threads
  BY <1>2, ThreadSets
<1>5. PICK f : f = [t \in H |-> tconn[t]]
  OBVIOUS
<1>6. f \in Surjection(H, C)
  BY <1>3, <1>5 DEF Surjection
<1>7. IsFiniteSet(C) /\ Cardinality(C) <= Cardinality(H)
  BY <1>4, <1>6, FS_Surjection
<1>8. PICK R : R = Range(conns)
  OBVIOUS
<1>9. IsFiniteSet(R) /\ Cardinality(R) <= Len(conns) /\ Cardinality(R) \in Nat
  BY <1>1, <1>8, RangeBounded
<1>10. PICK S : S = Engaged
  OBVIOUS
<1>11. H \subseteq S /\ S \subseteq Threads
  BY <1>2, <1>10 DEF Engaged
<1>12. Cardinality(H) <= Cardinality(S) /\ Cardinality(S) \in Nat
  BY <1>11, ThreadSubsets, ThreadSets
<1>13. PICK U : U = R \cup C
  OBVIOUS
<1>14. IsFiniteSet(U) /\ Cardinality(U) <= Cardinality(R) + Cardinality(C)
  <2>1. PICK I : I = R \cap C
    OBVIOUS
  <2>2. IsFiniteSet(U) /\ Cardinality(U) = Cardinality(R) + Cardinality(C) - Cardinality(I)
    BY <1>7, <1>9, <1>13, <2>1, FS_Union
  <2>3. I \in SUBSET C
    BY <2>1
  <2>4. IsFiniteSet(I) /\ Cardinality(I) \in Nat /\ Cardinality(C) \in Nat
    BY <1>7, <2>3, FS_Subset, FS_CardinalityType
  <2>5. QED
    BY <1>9, <2>2, <2>4
<1>15. PICK V : V = (Range(conns) \cup {tconn[t] : t \in Threads}) \ {NoConn}
  OBVIOUS
<1>16. V \in SUBSET U
  BY <1>2, <1>3, <1>8, <1>13, <1>15
<1>17. Cardinality(V) <= Cardinality(U) /\ Cardinality(V) \in Nat /\ Cardinality(U) \in Nat /\ Cardinality(C) \in Nat
  BY <1>7, <1>14, <1>16, FS_Subset, FS_CardinalityType
<1>18. Len(conns) + Cardinality(S) <= NumThreads
  BY <1>10 DEF BoundInv
<1>19. Cardinality(V) <= NumThreads
  BY <1>1, <1>4, <1>7, <1>9, <1>12, <1>14, <1>17, <1>18
<1>20. QED
  BY <1>15, <1>19 DEF ConnsBounded

-----------------------------------------------------------------------------
(* Every connection has one place. *)

(* A connection that was dialed and, while op, not closed. *)
Live(lk, op, c) == lk[c] # "none" /\ (op => lk[c] # "closed")

(* A connection is in conns once or belongs to one thread. *)
Apart ==
  /\ \A m, n \in 1 .. Len(conns) : conns[m] = conns[n] => m = n
  /\ \A n \in 1 .. Len(conns) : \A t \in Threads : tconn[t] # conns[n]
  /\ \A t, u \in Threads : tconn[t] = tconn[u] /\ tconn[t] # NoConn => t = u

(* It was dialed and, before Close, not closed: a new one is none of them. *)
Dialed ==
  /\ \A n \in 1 .. Len(conns) : Live(link, open, conns[n])
  /\ \A t \in Threads : tconn[t] # NoConn => Live(link, open, tconn[t])
  /\ ~open => \A t \in Threads : tpc[t] = "stopped"

(* A connection in conns is one. *)
LEMMA PooledConn ==
  ASSUME Types, NEW n \in 1 .. Len(conns)
  PROVE  conns[n] \in Sockets
  BY DEF Types, PoolTypes

(* Before Close a new connection is in no place yet. *)
LEMMA NewConnApart ==
  ASSUME Types, Dialed, open, Free # {}
  PROVE  /\ \A n \in 1 .. Len(conns) : conns[n] # NewConn
         /\ \A t \in Threads : tconn[t] # NewConn
<1>1. PICK c \in Free : c = NewConn /\ c \in Sockets
  BY NewConnFacts
<1>2. link[c] \in {"none", "closed"}
  BY <1>1 DEF Free
<1>3. ~Live(link, open, c)
  BY <1>2 DEF Live
<1>4. NoConn # c
  BY <1>1, PoolAssumption
<1>5. QED
  BY <1>1, <1>3, <1>4 DEF Dialed

(* Nobody takes or returns a connection. *)
LEMMA ApartKept ==
  ASSUME Apart, UNCHANGED <<tconn, conns>>
  PROVE  Apart'
  BY DEF Apart

(* No connection that has a place is closed, and nobody leaves a Get. *)
LEMMA DialedKept ==
  ASSUME Types, Dialed, UNCHANGED <<tconn, conns, open>>,
         \A c \in Sockets : Live(link, open, c) => Live(link', open', c),
         ~open => UNCHANGED tpc
  PROVE  Dialed'
<1>1. \A n \in 1 .. Len(conns) : conns[n] \in Sockets
  BY PooledConn
<1>2. \A t \in Threads : tconn[t] # NoConn => tconn[t] \in Sockets
  BY ThreadValues DEF Types
<1>3. QED
  BY <1>1, <1>2 DEF Dialed

(* Every step keeps connections in one place. *)
LEMMA NextApart == Types /\ Apart /\ Dialed /\ [Next]_vars => Apart' /\ Dialed'
<1> SUFFICES ASSUME Types, Apart, Dialed, [Next]_vars PROVE Apart' /\ Dialed'
  OBVIOUS
<1> USE DEF threadVars, wireVars, handlerVars
<1>0. /\ ThreadTypes /\ WireTypes /\ PoolTypes /\ conns \in Seq(Sockets) /\ Len(conns) \in Nat
      /\ tconn \in [Threads -> Sockets \cup {NoConn}] /\ tpc \in [Threads -> PCs]
      /\ link \in [Sockets -> {"none", "up", "reset", "eof", "closed"}]
      /\ NoConn \notin Sockets
  BY PoolAssumption DEF Types, PoolTypes, ThreadTypes, WireTypes
<1>1. ASSUME NEW t \in Threads, TakePooled(t) PROVE Apart' /\ Dialed'
  <2>1. /\ open /\ tpc[t] = "idle" /\ conns # <<>> /\ conns' = Tail(conns)
        /\ tconn' = [tconn EXCEPT ![t] = Head(conns)] /\ UNCHANGED <<open, link>>
    BY <1>1 DEF TakePooled, Begin
  <2>2. PICK c \in Sockets : c = conns[1] /\ c = Head(conns)
    BY <1>0, <2>1, TailFacts
  <2>3. /\ Len(conns) \in Nat \ {0} /\ Len(conns') = Len(conns) - 1
        /\ \A n \in 1 .. Len(conns') : conns'[n] = conns[n + 1] /\ n + 1 \in 1 .. Len(conns)
    BY <1>0, <2>1, TailFacts
  <2>4. tconn' = [tconn EXCEPT ![t] = c] /\ 1 \in 1 .. Len(conns)
    BY <2>1, <2>2, <2>3
  <2>5. \A u \in Threads : tconn'[u] = (IF u = t THEN c ELSE tconn[u]) /\ tconn[u] # c
    BY <1>0, <2>2, <2>4 DEF Apart
  <2>6. \A n \in 1 .. Len(conns') : conns'[n] # c
    BY <2>2, <2>3, <2>4 DEF Apart
  <2>7. \A m, n \in 1 .. Len(conns') : conns'[m] = conns'[n] => m = n
    <3>1. SUFFICES ASSUME NEW m \in 1 .. Len(conns'), NEW n \in 1 .. Len(conns'), conns'[m] = conns'[n]
                   PROVE  m = n
      OBVIOUS
    <3>2. conns[m + 1] = conns[n + 1] /\ m + 1 \in 1 .. Len(conns) /\ n + 1 \in 1 .. Len(conns)
      BY <2>3, <3>1
    <3>3. m + 1 = n + 1
      BY <3>2 DEF Apart
    <3>4. QED
      BY <2>3, <3>3
  <2>8. \A n \in 1 .. Len(conns') : \A u \in Threads : tconn'[u] # conns'[n]
    BY <2>3, <2>5, <2>6 DEF Apart
  <2>9. Apart'
    BY <2>5, <2>7, <2>8 DEF Apart
  <2>10. \A d : Live(link', open', d) <=> Live(link, open, d)
    BY <2>1 DEF Live
  <2>11. \A n \in 1 .. Len(conns') : Live(link, open, conns'[n])
    BY <2>3 DEF Dialed
  <2>12. \A u \in Threads : tconn'[u] # NoConn => Live(link, open, tconn'[u])
    BY <2>2, <2>4, <2>5 DEF Dialed
  <2>13. Dialed'
    BY <2>1, <2>10, <2>11, <2>12 DEF Dialed
  <2>14. QED
    BY <2>9, <2>13
<1>2. ASSUME NEW t \in Threads, Dial(t) PROVE Apart' /\ Dialed'
  <2>1. open
    BY <1>2 DEF Dial, Dialed
  <2>2. PICK c \in Sockets : c = NewConn
    BY <1>2, NewConnFacts DEF Dial
  <2>3. /\ \A n \in 1 .. Len(conns) : conns[n] # c
        /\ \A u \in Threads : tconn[u] # c
    BY <1>2, <2>1, <2>2, NewConnApart DEF Dial
  <2>4. tconn' = [tconn EXCEPT ![t] = c] /\ link' = [link EXCEPT ![c] = "up"] /\ UNCHANGED <<conns, open>>
    BY <1>2, <2>2 DEF Dial, Begin, Accept
  <2>5. \A u \in Threads : tconn'[u] = IF u = t THEN c ELSE tconn[u]
    BY <1>0, <2>4
  <2>6. Apart'
    BY <2>3, <2>4, <2>5 DEF Apart
  <2>7. \A d \in Sockets : (d # c /\ Live(link, open, d) => Live(link', open', d)) /\ (d = c => Live(link', open', d))
    BY <1>0, <2>4 DEF Live
  <2>8. \A u \in Threads : tconn[u] # NoConn => tconn[u] \in Sockets
    BY <1>0
  <2>9. \A n \in 1 .. Len(conns) : conns[n] \in Sockets
    BY PooledConn
  <2>10. Dialed'
    <3>1. \A n \in 1 .. Len(conns') : Live(link', open', conns'[n])
      BY <2>3, <2>4, <2>7, <2>9 DEF Dialed
    <3>2. \A u \in Threads : tconn'[u] # NoConn => Live(link', open', tconn'[u])
      BY <2>3, <2>5, <2>7, <2>8 DEF Dialed
    <3>3. QED
      BY <2>1, <2>4, <3>1, <3>2 DEF Dialed
  <2>11. QED
    BY <2>6, <2>10
<1>3. ASSUME NEW t \in Threads, OpenStreamFails(t) PROVE Apart' /\ Dialed'
  <2>1. open
    BY <1>3 DEF OpenStreamFails, Dialed
  <2>2. PICK c \in Sockets : c = NewConn
    BY <1>3, NewConnFacts DEF OpenStreamFails
  <2>3. link' = [link EXCEPT ![c] = "reset"] /\ UNCHANGED <<tconn, conns, open>>
    BY <1>3, <2>2 DEF OpenStreamFails, Accept
  <2>4. \A d \in Sockets : Live(link, open, d) => Live(link', open', d)
    BY <1>0, <2>3 DEF Live
  <2>5. QED
    BY <2>1, <2>3, <2>4, ApartKept, DialedKept
<1>4. ASSUME NEW t \in Threads, Put(t) PROVE Apart' /\ Dialed'
  <2>1. open /\ tpc[t] = "put"
    BY <1>4 DEF Put, Dialed
  <2>2. PICK c \in Sockets : c = tconn[t]
    BY <1>0, <2>1, ThreadValues DEF Phase
  <2>3. tconn' = [tconn EXCEPT ![t] = NoConn] /\ UNCHANGED open
    BY <1>4 DEF Put
  <2>4. \A u \in Threads : tconn'[u] = IF u = t THEN NoConn ELSE tconn[u]
    BY <1>0, <2>3
  <2>5. \A u \in Threads : tconn'[u] # c
    BY <1>0, <2>2, <2>4 DEF Apart
  <2>6. c # NoConn /\ Live(link, open, c) /\ \A n \in 1 .. Len(conns) : conns[n] # c
    BY <1>0, <2>2 DEF Dialed, Apart
  <2>7. CASE conns' = Append(conns, c) /\ UNCHANGED link
    <3>1. /\ Len(conns') = Len(conns) + 1 /\ conns'[Len(conns) + 1] = c
          /\ \A n \in 1 .. Len(conns) : conns'[n] = conns[n]
      BY <1>0, <2>7, AppendFacts
    <3>2. \A n \in 1 .. Len(conns') : n \in 1 .. Len(conns) \/ n = Len(conns) + 1
      BY <1>0, <3>1
    <3>3. \A m, n \in 1 .. Len(conns') : conns'[m] = conns'[n] => m = n
      BY <2>6, <3>1, <3>2 DEF Apart
    <3>4. \A n \in 1 .. Len(conns') : \A u \in Threads : tconn'[u] # conns'[n]
      <4>1. \A n \in 1 .. Len(conns) : conns[n] # NoConn
        BY <1>0, PooledConn
      <4>2. QED
        BY <2>4, <2>5, <3>1, <3>2, <4>1 DEF Apart
    <3>5. \A u, v \in Threads : tconn'[u] = tconn'[v] /\ tconn'[u] # NoConn => u = v
      BY <2>4 DEF Apart
    <3>6. Apart'
      BY <3>3, <3>4, <3>5 DEF Apart
    <3>7. \A d : Live(link', open', d) <=> Live(link, open, d)
      BY <2>3, <2>7 DEF Live
    <3>8. \A n \in 1 .. Len(conns') : Live(link, open, conns'[n])
      BY <2>6, <3>1, <3>2 DEF Dialed
    <3>9. \A u \in Threads : tconn'[u] # NoConn => Live(link, open, tconn'[u])
      BY <2>4 DEF Dialed
    <3>10. Dialed'
      BY <2>1, <2>3, <3>7, <3>8, <3>9 DEF Dialed
    <3>11. QED
      BY <3>6, <3>10
  <2>8. CASE conns' = conns /\ link' = [link EXCEPT ![c] = "closed"]
    <3>1. Apart'
      <4>1. \A n \in 1 .. Len(conns) : conns[n] # NoConn
        BY <1>0, PooledConn
      <4>2. QED
        BY <2>4, <2>8, <4>1 DEF Apart
    <3>2. \A d \in Sockets : d # c /\ Live(link, open, d) => Live(link', open', d)
      BY <1>0, <2>3, <2>8 DEF Live
    <3>3. \A n \in 1 .. Len(conns') : Live(link', open', conns'[n])
      <4>1. \A n \in 1 .. Len(conns) : conns[n] \in Sockets
        BY PooledConn
      <4>2. QED
        BY <2>6, <2>8, <3>2, <4>1 DEF Dialed
    <3>4. \A u \in Threads : tconn'[u] # NoConn => Live(link', open', tconn'[u])
      BY <1>0, <2>4, <2>5, <3>2 DEF Dialed
    <3>5. Dialed'
      BY <2>1, <2>3, <3>3, <3>4 DEF Dialed
    <3>6. QED
      BY <3>1, <3>5
  <2>9. QED
    BY <1>4, <2>2, <2>7, <2>8 DEF Put
<1>5. CASE Close
  <2>1. /\ \A t \in Threads : tpc[t] = "stopped"
        /\ open /\ open' = FALSE /\ UNCHANGED <<tpc, tconn, conns>>
        /\ link' = [c \in Sockets |-> IF link[c] = "none" THEN "none" ELSE "closed"]
    BY <1>5 DEF Close
  <2>2. \A c \in Sockets : Live(link, open, c) => Live(link', open', c)
    BY <2>1 DEF Live
  <2>3. \A n \in 1 .. Len(conns) : conns[n] \in Sockets
    BY PooledConn
  <2>4. \A t \in Threads : tconn[t] # NoConn => tconn[t] \in Sockets
    BY <1>0
  <2>5. Dialed'
    BY <2>1, <2>2, <2>3, <2>4 DEF Dialed
  <2>6. QED
    BY <2>1, <2>5, ApartKept
<1>6. ASSUME NEW t \in Threads,
             PoolEmpty(t) \/ Lock(t) \/ DialFails(t) \/ WriteRequest(t) \/ ReadHeader(t) \/ ReadPiece(t)
               \/ ResponseRead(t) \/ IOFails(t)
      PROVE  Apart' /\ Dialed'
  <2>1. UNCHANGED <<tconn, conns, open>>
    BY <1>6 DEF PoolEmpty, Lock, DialFails, WriteRequest, ReadHeader, ReadPiece, ResponseRead, IOFails
  <2>2. tpc[t] # "stopped"
    BY <1>6 DEF PoolEmpty, Lock, DialFails, WriteRequest, ReadHeader, ReadPiece, ResponseRead, IOFails
  <2>3. open
    BY <2>2 DEF Dialed
  <2>4. link' = link \/ (WriteRequest(t) /\ link' = [link EXCEPT ![tconn[t]] = "reset"])
    BY <1>6 DEF PoolEmpty, Lock, DialFails, WriteRequest, ReadHeader, ReadPiece, ResponseRead, IOFails
  <2>5. \A c \in Sockets : Live(link, open, c) => Live(link', open', c)
    BY <1>0, <2>1, <2>4 DEF Live
  <2>6. QED
    BY <2>1, <2>3, <2>5, ApartKept, DialedKept
<1>7. ASSUME NEW c \in Sockets, HandlerNext(c) \/ NetBreaks(c) PROVE Apart' /\ Dialed'
  <2>1. UNCHANGED <<tpc, tconn, conns, open>>
    BY <1>7 DEF HandlerNext, NetBreaks, AcceptStream, TcppoolHandle, QuicHandle, React, SendfileHandle, HandlerWrite, HandlerEnds, Reply
  <2>2. \A d \in Sockets : link'[d] = link[d] \/ (link[d] = "up" /\ link'[d] \in {"eof", "reset"})
    <3>1. CASE UNCHANGED link
      BY <3>1
    <3>2. CASE \E d \in Sockets : Crash(d)
      BY <3>2 DEF Crash
    <3>3. CASE NetBreaks(c)
      BY <1>0, <3>3 DEF NetBreaks
    <3>4. QED
      BY <1>7, <3>1, <3>2, <3>3 DEF HandlerNext, AcceptStream, TcppoolHandle, QuicHandle, React, SendfileHandle, HandlerWrite, HandlerEnds, Reply
  <2>3. \A d \in Sockets : Live(link, open, d) => Live(link', open', d)
    BY <2>1, <2>2 DEF Live
  <2>4. QED
    BY <2>1, <2>3, ApartKept, DialedKept
<1>8. CASE UNCHANGED vars
  <2>1. UNCHANGED <<tpc, tconn, conns, open, link>>
    BY <1>8 DEF vars
  <2>2. \A d \in Sockets : Live(link, open, d) => Live(link', open', d)
    BY <2>1 DEF Live
  <2>3. QED
    BY <2>1, <2>2, ApartKept, DialedKept
<1>9. QED
  BY <1>1, <1>2, <1>3, <1>4, <1>5, <1>6, <1>7, <1>8 DEF Next, ThreadNext

-----------------------------------------------------------------------------
(* What is under way on a connection. *)

Framed(md) == md # "tcpsendfile"

(* How many pieces a response to k has. *)
RespLen(md, k) == IF ~Framed(md) THEN GetSize(k)
                  ELSE IF k \in Known THEN Pieces[k] + 1
                  ELSE IF md = "gonet" THEN 1 ELSE 2

(* x may be piece j of a response to k, counted from 0. *)
Piece(md, B, k, j, x) ==
  IF ~Framed(md) THEN x = <<"data", k>>
  ELSE IF j = 0 THEN x = (IF k \in Known THEN <<"header", Pieces[k]>> ELSE <<"error", 1>>)
  ELSE IF k \in Known THEN \/ x = <<"data", k>>
                           \/ md = "gonet" /\ x = <<"stale", j>> /\ \E n \in B : n < j
  ELSE x = <<"message", k>>

(* The pieces s, the first of which is number off of the stream, belong to *)
(* responses to k that follow each other.                                  *)
Fits(md, B, k, off, s) ==
  \A n \in 1 .. Len(s) : \A r \in Nat : \A j \in 0 .. RespLen(md, k) - 1 :
    off + n - 1 = RespLen(md, k) * r + j => Piece(md, B, k, j, s[n])

(* The requests the server has yet to answer. *)
Asked(md, ts) == IF Framed(md) THEN Len(ts)
                 ELSE IF \E n \in 1 .. Len(ts) : ts[n] \in Known THEN 1 ELSE 0

(* They are all for k; those that tcpsendfile does not answer may be older. *)
Requests(md, k, ts) ==
  \A n \in 1 .. Len(ts) :
    IF Framed(md) THEN ts[n] = k ELSE ts[n] \in Known => n = Len(ts) /\ ts[n] = k

(* A Get of k has read off pieces of the m responses it has yet to get:    *)
(* what is on the way back, in the handler's hand and asked for is the     *)
(* rest of them.                                                           *)
Flow(md, B, k, m, off, lk, ts, tc, ho) ==
  /\ Fits(md, B, k, off, tc)
  /\ Len(tc) + off <= RespLen(md, k) * m
  /\ lk = "up" => /\ Fits(md, B, k, off + Len(tc), ho) /\ Requests(md, k, ts)
                  /\ Len(tc) + Len(ho) + RespLen(md, k) * Asked(md, ts) + off = RespLen(md, k) * m

(* An idle connection: nothing is under way. *)
Idle(md, lk, ts, tc, ho) ==
  /\ tc = <<>>
  /\ lk = "up" => ho = <<>> /\ \A n \in 1 .. Len(ts) : ~Framed(md) /\ ts[n] \notin Known

(* Sums of which two parts change. *)
LEMMA Sums ==
  ASSUME NEW u \in Nat, NEW v \in Nat, NEW S \in Nat, NEW off \in Nat, NEW M \in Nat, u + v + S + off = M
  PROVE  \A L \in Nat : u + v + (S + L) + off = M + L /\ u + off <= M + L
  OBVIOUS

(* A piece goes from one part of a sum to another. *)
LEMMA SumsMove ==
  ASSUME NEW u \in Nat, NEW v \in Nat \ {0}, NEW S \in Nat, NEW off \in Nat, NEW M \in Nat, u + v + S + off = M
  PROVE  (u + 1) + (v - 1) + S + off = M /\ (u + 1) + off <= M
  OBVIOUS

(* The same is taken from both sides. *)
LEMMA Difference ==
  ASSUME NEW u \in Nat, NEW v \in Nat, NEW S \in Nat, NEW L \in Nat, NEW M \in Nat, u + v + S + L = M + L
  PROVE  u + v + S + 0 = M
  OBVIOUS

(* A number has one quotient and one remainder. *)
LEMMA Remainder ==
  ASSUME NEW L \in Nat \ {0}, NEW a \in Nat, NEW r \in Nat,
         NEW x \in 0 .. L - 1, NEW j \in 0 .. L - 1, L * a + x = L * r + j
  PROVE  x = j
<1>1. CASE a = r
  BY <1>1
<1>2. ASSUME NEW p \in Nat, NEW q \in Nat, p > q PROVE L * p >= L * q + L
  <2>1. PICK d \in Nat : p = q + 1 + d
    <3>1. p - q - 1 \in Nat /\ p = q + 1 + (p - q - 1)
      BY <1>2
    <3>2. QED
      BY <3>1
  <2>2. L * p = L * q + L + L * d /\ L * d \in Nat /\ L * q \in Nat
    BY <2>1
  <2>3. QED
    BY <2>2
<1>3. L * a \in Nat /\ L * r \in Nat
  OBVIOUS
<1>4. CASE a > r
  <2>1. L * a >= L * r + L
    BY <1>2, <1>4
  <2>2. QED
    BY <1>3, <2>1
<1>5. CASE r > a
  <2>1. L * r >= L * a + L
    BY <1>2, <1>5
  <2>2. QED
    BY <1>3, <2>1
<1>6. QED
  BY <1>1, <1>4, <1>5

(* The lengths of responses. *)
LEMMA RespLenFacts ==
  ASSUME NEW md \in Transports, NEW k \in 0 .. 15
  PROVE  /\ RespLen(md, k) \in Nat /\ GetSize(k) \in Nat
         /\ Framed(md) \/ k \in Known => RespLen(md, k) > 0
         /\ ~Framed(md) => RespLen(md, k) = GetSize(k)
         /\ k \in Known => GetSize(k) = Pieces[k] /\ (Framed(md) => RespLen(md, k) = Pieces[k] + 1)
         /\ k \notin Known => GetSize(k) = 0 /\ (Framed(md) => RespLen(md, k) = IF md = "gonet" THEN 1 ELSE 2)
  BY MaxPiecesFacts DEF RespLen, GetSize

(* How many requests are still to be answered is a number. *)
LEMMA AskedFacts ==
  ASSUME NEW md, NEW ts \in Seq(0 .. 15)
  PROVE  /\ Asked(md, ts) \in Nat /\ (Framed(md) => Asked(md, ts) = Len(ts))
         /\ ~Framed(md) => /\ Asked(md, ts) \in {0, 1}
                           /\ Asked(md, ts) = 1 <=> \E n \in 1 .. Len(ts) : ts[n] \in Known
  BY DEF Asked

(* Buffers put back meanwhile change nothing about earlier pieces. *)
LEMMA FitsGrows ==
  ASSUME NEW md, NEW B, NEW C, B \subseteq C, NEW k, NEW off, NEW s, Fits(md, B, k, off, s)
  PROVE  Fits(md, C, k, off, s)
<1>1. \A j, x : Piece(md, B, k, j, x) => Piece(md, C, k, j, x)
  BY DEF Piece
<1>2. QED
  BY <1>1 DEF Fits

(* Neither does it change what is under way. *)
LEMMA FlowGrows ==
  ASSUME NEW md, NEW B, NEW C, B \subseteq C, NEW k, NEW m, NEW off, NEW lk, NEW ts, NEW tc, NEW ho,
         Flow(md, B, k, m, off, lk, ts, tc, ho)
  PROVE  Flow(md, C, k, m, off, lk, ts, tc, ho)
  BY FitsGrows DEF Flow

(* No pieces fit anywhere. *)
LEMMA FitsEmpty ==
  ASSUME NEW md, NEW B, NEW k, NEW off, NEW s, Len(s) = 0
  PROVE  Fits(md, B, k, off, s)
  BY DEF Fits

(* An idle connection is ready for any Get. *)
LEMMA IdleFlow ==
  ASSUME NEW md \in Transports, NEW B, NEW k \in 0 .. 15, NEW lk, NEW ts \in Seq(0 .. 15),
         NEW tc \in Seq(Cells), NEW ho \in Seq(Cells), Idle(md, lk, ts, tc, ho)
  PROVE  Flow(md, B, k, 0, 0, lk, ts, tc, ho)
<1>1. PICK L \in Nat : L = RespLen(md, k)
  BY RespLenFacts
<1>2. Len(tc) = 0
  BY DEF Idle
<1>3. Fits(md, B, k, 0, tc) /\ Len(tc) + 0 <= L * 0
  BY <1>1, <1>2, FitsEmpty
<1>4. ASSUME lk = "up"
      PROVE  /\ Fits(md, B, k, 0 + Len(tc), ho) /\ Requests(md, k, ts)
             /\ Len(tc) + Len(ho) + L * Asked(md, ts) + 0 = L * 0
  <2>1. Len(ho) = 0 /\ \A n \in 1 .. Len(ts) : ~Framed(md) /\ ts[n] \notin Known
    BY <1>4 DEF Idle
  <2>2. Fits(md, B, k, 0 + Len(tc), ho)
    BY <2>1, FitsEmpty
  <2>3. Requests(md, k, ts)
    BY <2>1 DEF Requests
  <2>4. Asked(md, ts) = 0
    <3>1. CASE Framed(md)
      <4>1. Len(ts) \in Nat /\ ~(Len(ts) > 0)
        <5>1. Len(ts) \in Nat
          OBVIOUS
        <5>2. Len(ts) > 0 => 1 \in 1 .. Len(ts)
          BY <5>1
        <5>3. QED
          BY <2>1, <3>1, <5>1, <5>2
      <4>2. QED
        BY <3>1, <4>1 DEF Asked
    <3>2. CASE ~Framed(md)
      BY <2>1, <3>2 DEF Asked
    <3>3. QED
      BY <3>1, <3>2
  <2>5. QED
    BY <1>2, <2>1, <2>2, <2>3, <2>4
<1>5. QED
  BY <1>1, <1>3, <1>4 DEF Flow

(* When nothing is due the connection is idle. *)
LEMMA FlowIdle ==
  ASSUME NEW md \in Transports, NEW B, NEW k \in 0 .. 15, NEW lk, NEW ts \in Seq(0 .. 15),
         NEW tc \in Seq(Cells), NEW ho \in Seq(Cells), Flow(md, B, k, 0, 0, lk, ts, tc, ho)
  PROVE  Idle(md, lk, ts, tc, ho)
<1>1. PICK L \in Nat : L = RespLen(md, k)
  BY RespLenFacts
<1>2. Len(tc) \in Nat /\ Len(ho) \in Nat /\ L * 0 = 0
  OBVIOUS
<1>3. Len(tc) = 0
  BY <1>1, <1>2 DEF Flow
<1>4. tc = <<>>
  BY <1>3, EmptySeq
<1>5. ASSUME lk = "up" PROVE ho = <<>> /\ \A n \in 1 .. Len(ts) : ~Framed(md) /\ ts[n] \notin Known
  <2>1. PICK a \in Nat : a = Asked(md, ts)
    BY AskedFacts
  <2>2. Len(tc) + Len(ho) + L * a + 0 = L * 0 /\ L * a \in Nat
    <3>1. Len(tc) + Len(ho) + RespLen(md, k) * Asked(md, ts) + 0 = RespLen(md, k) * 0
      BY <1>5 DEF Flow
    <3>2. L * a \in Nat
      OBVIOUS
    <3>3. QED
      BY <1>1, <2>1, <3>1, <3>2
  <2>3. Len(ho) = 0 /\ L * a = 0
    BY <1>2, <1>3, <2>2
  <2>4. L = 0 \/ a = 0
    BY <2>3
  <2>5. ho = <<>>
    BY <2>3, EmptySeq
  <2>6. ASSUME NEW n \in 1 .. Len(ts) PROVE ~Framed(md) /\ ts[n] \notin Known
    <3>1. CASE Framed(md)
      <4>1. L # 0 /\ a = Len(ts) /\ Len(ts) \in Nat
        <5>1. RespLen(md, k) > 0
          BY <3>1, RespLenFacts
        <5>2. Asked(md, ts) = Len(ts) /\ Len(ts) \in Nat
          BY <3>1, AskedFacts
        <5>3. QED
          BY <1>1, <2>1, <5>1, <5>2
      <4>2. QED
        BY <2>4, <2>6, <4>1
    <3>2. CASE ~Framed(md)
      <4>1. SUFFICES ASSUME ts[n] \in Known PROVE FALSE
        BY <3>2
      <4>2. ts[n] = k
        BY <1>5, <2>6, <3>2, <4>1 DEF Flow, Requests
      <4>3. L # 0
        <5>1. RespLen(md, k) > 0
          BY <4>1, <4>2, RespLenFacts
        <5>2. QED
          BY <1>1, <5>1
      <4>4. a = 1
        BY <2>1, <2>6, <3>2, <4>1, AskedFacts
      <4>5. QED
        BY <2>4, <4>3, <4>4
    <3>3. QED
      BY <3>1, <3>2
  <2>7. QED
    BY <2>5, <2>6
<1>6. QED
  BY <1>4, <1>5 DEF Idle

(* A connection that ends keeps what has arrived. *)
LEMMA FlowDown ==
  ASSUME NEW md, NEW B, NEW k, NEW m, NEW off, NEW lk, NEW ts, NEW tc, NEW ho,
         NEW lk2, lk2 # "up", NEW ts2, NEW ho2, Flow(md, B, k, m, off, lk, ts, tc, ho)
  PROVE  Flow(md, B, k, m, off, lk2, ts2, tc, ho2)
  BY DEF Flow

(* What was on a connection that breaks is lost. *)
LEMMA FlowLost ==
  ASSUME NEW md \in Transports, NEW B, NEW k \in 0 .. 15, NEW m \in Nat, NEW off \in Nat,
         NEW lk, NEW ts, NEW tc \in Seq(Cells), NEW ho,
         NEW lk2, lk2 # "up", NEW ts2, NEW tc2, NEW ho2, Flow(md, B, k, m, off, lk, ts, tc, ho), Len(tc2) = 0
  PROVE  Flow(md, B, k, m, off, lk2, ts2, tc2, ho2)
<1>1. PICK L \in Nat : L = RespLen(md, k)
  BY RespLenFacts
<1>2. L * m \in Nat /\ Len(tc) \in Nat
  OBVIOUS
<1>3. Len(tc) + off <= L * m
  BY <1>1 DEF Flow
<1>4. Len(tc2) + off <= L * m
  BY <1>2, <1>3
<1>5. QED
  BY <1>1, <1>4, FitsEmpty DEF Flow

(* The pieces p are a whole response to k. *)
Response(md, B, k, p) ==
  /\ Len(p) = RespLen(md, k)
  /\ \A n \in 1 .. Len(p) : Piece(md, B, k, n - 1, p[n])

(* The handler takes a request and has its response in its hand. *)
LEMMA FlowReply ==
  ASSUME NEW md \in Transports, NEW B, NEW k \in 0 .. 15, NEW m \in Nat, NEW off \in Nat,
         NEW lk, NEW ts \in Seq(0 .. 15), NEW tc \in Seq(Cells), NEW ho, Len(ho) = 0,
         Flow(md, B, k, m, off, lk, ts, tc, ho), ts # <<>>,
         NEW p \in Seq(Cells), Response(md, B, ts[1], p), Framed(md) \/ ts[1] \in Known
  PROVE  Flow(md, B, k, m, off, lk, Tail(ts), tc, p)
<1>1. PICK L \in Nat : L = RespLen(md, k)
  BY RespLenFacts
<1>2. /\ Len(ts) \in Nat \ {0} /\ Len(tc) \in Nat /\ Tail(ts) \in Seq(0 .. 15)
      /\ Len(Tail(ts)) = Len(ts) - 1 /\ \A n \in 1 .. Len(Tail(ts)) : Tail(ts)[n] = ts[n + 1]
  BY TailFacts
<1>3. 1 \in 1 .. Len(ts)
  BY <1>2
<1>4. PICK s \in Seq(0 .. 15) : s = Tail(ts)
  BY <1>2
<1>5. Fits(md, B, k, off, tc) /\ Len(tc) + off <= L * m
  BY <1>1 DEF Flow
<1>6. ASSUME lk = "up"
      PROVE  /\ Fits(md, B, k, off + Len(tc), p) /\ Requests(md, k, s)
             /\ Len(tc) + Len(p) + L * Asked(md, s) + off = L * m
  <2>1. Requests(md, k, ts)
    BY <1>6 DEF Flow
  <2>2. ts[1] = k
    BY <1>3, <2>1 DEF Requests
  <2>3. L > 0
    BY <1>1, <2>2, RespLenFacts
  <2>4. Len(p) = L /\ \A n \in 1 .. L : Piece(md, B, k, n - 1, p[n])
    BY <1>1, <2>2 DEF Response
  <2>5. \A n \in 1 .. Len(s) : s[n] = ts[n + 1] /\ n + 1 \in 1 .. Len(ts)
    BY <1>2, <1>4
  <2>6. PICK a \in Nat : a = Asked(md, ts)
    BY AskedFacts
  <2>7. PICK b \in Nat : b = Asked(md, s)
    BY AskedFacts
  <2>8. Requests(md, k, s) /\ a = b + 1
    <3>1. CASE Framed(md)
      <4>1. Requests(md, k, s)
        BY <2>1, <2>5, <3>1 DEF Requests
      <4>2. a = Len(ts) /\ b = Len(s)
        BY <2>6, <2>7, <3>1, AskedFacts
      <4>3. QED
        BY <1>2, <1>4, <4>1, <4>2
    <3>2. CASE ~Framed(md)
      <4>1. ts[1] \in Known
        BY <3>2
      <4>2. 1 = Len(ts)
        BY <1>3, <2>1, <3>2, <4>1 DEF Requests
      <4>3. Len(s) = 0
        BY <1>2, <1>4, <4>2
      <4>4. Requests(md, k, s)
        BY <4>3 DEF Requests
      <4>5. b = 0
        BY <2>7, <3>2, <4>3 DEF Asked
      <4>6. a = 1
        BY <1>3, <2>6, <3>2, <4>1 DEF Asked
      <4>7. QED
        BY <4>4, <4>5, <4>6
    <3>3. QED
      BY <3>1, <3>2
  <2>9. Len(tc) + 0 + L * a + off = L * m
    BY <1>1, <1>6, <2>6 DEF Flow
  <2>10. L * a = L * b + L /\ L * b \in Nat /\ L * m \in Nat
    BY <2>8
  <2>11. Len(tc) + Len(p) + L * b + off = L * m
    <3>1. PICK M \in Nat : M = L * m
      BY <2>10
    <3>2. PICK S \in Nat : S = L * b
      BY <2>10
    <3>3. Len(tc) + 0 + (S + L) + off = M
      BY <2>9, <2>10, <3>1, <3>2
    <3>4. Len(tc) + L + S + off = M
      BY <1>2, <3>3
    <3>5. QED
      BY <2>4, <3>1, <3>2, <3>4
  <2>12. PICK d \in Nat : off + Len(tc) = L * d
    <3>1. off + Len(tc) = L * (m - a)
      <4>1. L * (m - a) = L * m - L * a /\ L * a \in Nat
        OBVIOUS
      <4>2. PICK M \in Nat : M = L * m
        BY <2>10
      <4>3. PICK S \in Nat : S = L * a
        BY <4>1
      <4>4. Len(tc) + 0 + S + off = M
        BY <2>9, <4>2, <4>3
      <4>5. off + Len(tc) = M - S
        BY <1>2, <4>4
      <4>6. QED
        BY <4>1, <4>2, <4>3, <4>5
    <3>2. m - a \in Nat
      <4>1. CASE m < a
        <5>1. PICK e \in Nat : a = m + 1 + e
          <6>1. a - m - 1 \in Nat /\ a = m + 1 + (a - m - 1)
            BY <4>1
          <6>2. QED
            BY <6>1
        <5>2. L * a = L * m + L + L * e /\ L * e \in Nat
          BY <5>1
        <5>3. PICK M \in Nat : M = L * m
          BY <2>10
        <5>4. PICK S \in Nat : S = L * e
          BY <5>2
        <5>5. Len(tc) + 0 + (M + L + S) + off = M
          BY <2>9, <5>2, <5>3, <5>4
        <5>6. QED
          BY <1>2, <2>3, <5>5
      <4>2. CASE m >= a
        BY <4>2
      <4>3. QED
        BY <4>1, <4>2
    <3>3. QED
      BY <3>1, <3>2
  <2>13. Fits(md, B, k, off + Len(tc), p)
    <3>1. SUFFICES ASSUME NEW n \in 1 .. L, NEW r \in Nat, NEW j \in 0 .. L - 1,
                          off + Len(tc) + n - 1 = L * r + j
                   PROVE  Piece(md, B, k, j, p[n])
      BY <1>1, <2>4 DEF Fits
    <3>2. PICK x \in 0 .. L - 1 : x = n - 1
      OBVIOUS
    <3>3. L * d + x = L * r + j
      <4>1. L * d \in Nat /\ L * r \in Nat
        OBVIOUS
      <4>2. QED
        BY <1>2, <2>12, <3>1, <3>2, <4>1
    <3>4. L \in Nat \ {0}
      BY <2>3
    <3>5. x = j
      BY <3>3, <3>4, Remainder
    <3>6. QED
      BY <2>4, <3>2, <3>5
  <2>14. QED
    BY <2>7, <2>8, <2>11, <2>13
<1>7. QED
  BY <1>1, <1>4, <1>5, <1>6 DEF Flow

(* The handler writes one piece. *)
LEMMA FlowWrite ==
  ASSUME NEW md \in Transports, NEW B, NEW k \in 0 .. 15, NEW m \in Nat, NEW off \in Nat,
         NEW ts \in Seq(0 .. 15), NEW tc \in Seq(Cells), NEW ho \in Seq(Cells), ho # <<>>,
         Flow(md, B, k, m, off, "up", ts, tc, ho)
  PROVE  Flow(md, B, k, m, off, "up", ts, Append(tc, Head(ho)), Tail(ho))
<1>1. PICK L \in Nat : L = RespLen(md, k)
  BY RespLenFacts
<1>2. /\ Len(ho) \in Nat \ {0} /\ Tail(ho) \in Seq(Cells) /\ Len(Tail(ho)) = Len(ho) - 1
      /\ \A n \in 1 .. Len(ho) - 1 : Tail(ho)[n] = ho[n + 1]
      /\ Head(ho) = ho[1] /\ Head(ho) \in Cells
  BY TailFacts
<1>3. PICK x \in Cells : x = Head(ho) /\ x = ho[1]
  BY <1>2
<1>4. PICK s \in Seq(Cells) : s = Append(tc, x)
  BY AppendFacts
<1>5. PICK h \in Seq(Cells) : h = Tail(ho)
  BY <1>2
<1>6. /\ Len(s) = Len(tc) + 1 /\ Len(tc) \in Nat /\ s[Len(tc) + 1] = x
      /\ \A n \in 1 .. Len(tc) : s[n] = tc[n]
  BY <1>4, AppendFacts
<1>7. /\ Fits(md, B, k, off, tc) /\ Fits(md, B, k, off + Len(tc), ho) /\ Requests(md, k, ts)
      /\ Len(tc) + Len(ho) + L * Asked(md, ts) + off = L * m
  BY <1>1 DEF Flow
<1>8. PICK a \in Nat : a = Asked(md, ts)
  BY AskedFacts
<1>9. L * a \in Nat /\ L * m \in Nat
  OBVIOUS
<1>10. Len(s) + Len(h) + L * a + off = L * m /\ Len(s) + off <= L * m
  <2>1. PICK M \in Nat : M = L * m
    BY <1>9
  <2>2. PICK S \in Nat : S = L * a
    BY <1>9
  <2>3. Len(tc) + Len(ho) + S + off = M
    BY <1>7, <1>8, <2>1, <2>2
  <2>4. Len(s) + Len(h) + S + off = M /\ Len(s) + off <= M
    <3>1. PICK u \in Nat : u = Len(tc)
      BY <1>6
    <3>2. PICK v \in Nat \ {0} : v = Len(ho)
      BY <1>2
    <3>3. Len(s) = u + 1 /\ Len(h) = v - 1
      BY <1>2, <1>5, <1>6, <3>1, <3>2
    <3>4. u + v + S + off = M
      BY <2>3, <3>1, <3>2
    <3>5. (u + 1) + (v - 1) + S + off = M /\ (u + 1) + off <= M
      BY <3>4, SumsMove
    <3>6. QED
      BY <3>3, <3>5
  <2>5. QED
    BY <2>1, <2>2, <2>4
<1>11. Fits(md, B, k, off, s)
  <2>1. SUFFICES ASSUME NEW n \in 1 .. Len(s), NEW r \in Nat, NEW j \in 0 .. L - 1,
                        off + n - 1 = L * r + j
                 PROVE  Piece(md, B, k, j, s[n])
    BY <1>1 DEF Fits
  <2>2. CASE n \in 1 .. Len(tc)
    <3>1. Piece(md, B, k, j, tc[n])
      BY <1>1, <1>7, <2>1, <2>2 DEF Fits
    <3>2. QED
      BY <1>6, <2>2, <3>1
  <2>3. CASE n = Len(tc) + 1
    <3>1. 1 \in 1 .. Len(ho) /\ off + Len(tc) + 1 - 1 = L * r + j
      BY <1>2, <1>6, <2>1, <2>3
    <3>2. Piece(md, B, k, j, ho[1])
      BY <1>1, <1>7, <3>1 DEF Fits
    <3>3. QED
      BY <1>3, <1>6, <2>3, <3>2
  <2>4. QED
    BY <1>6, <2>2, <2>3
<1>12. Fits(md, B, k, off + Len(s), h)
  <2>1. SUFFICES ASSUME NEW n \in 1 .. Len(h), NEW r \in Nat, NEW j \in 0 .. L - 1,
                        off + Len(s) + n - 1 = L * r + j
                 PROVE  Piece(md, B, k, j, h[n])
    BY <1>1 DEF Fits
  <2>2. PICK i \in 1 .. Len(ho) : i = n + 1 /\ h[n] = ho[i]
    BY <1>2, <1>5
  <2>3. off + Len(tc) + i - 1 = off + Len(s) + n - 1
    BY <1>6, <2>2
  <2>4. Piece(md, B, k, j, ho[i])
    BY <1>1, <1>7, <2>1, <2>2, <2>3 DEF Fits
  <2>5. QED
    BY <2>2, <2>4
<1>13. QED
  BY <1>1, <1>3, <1>4, <1>5, <1>7, <1>8, <1>10, <1>11, <1>12 DEF Flow

(* The client writes a request; tcpsendfile's writes one at a time. *)
LEMMA FlowRequest ==
  ASSUME NEW md \in Transports, NEW B, NEW k \in 0 .. 15, NEW m \in Nat,
         NEW ts \in Seq(0 .. 15), NEW tc \in Seq(Cells), NEW ho \in Seq(Cells),
         Flow(md, B, k, m, 0, "up", ts, tc, ho), ~Framed(md) => m = 0
  PROVE  Flow(md, B, k, m + 1, 0, "up", Append(ts, k), tc, ho)
<1>1. PICK L \in Nat : L = RespLen(md, k)
  BY RespLenFacts
<1>2. PICK s \in Seq(0 .. 15) : s = Append(ts, k)
  BY AppendFacts
<1>3. /\ Len(s) = Len(ts) + 1 /\ Len(ts) \in Nat /\ s[Len(ts) + 1] = k
      /\ \A n \in 1 .. Len(ts) : s[n] = ts[n]
  BY <1>2, AppendFacts
<1>4. \A n \in 1 .. Len(s) : n \in 1 .. Len(ts) \/ n = Len(s)
  BY <1>3
<1>5. /\ Fits(md, B, k, 0, tc) /\ Fits(md, B, k, 0 + Len(tc), ho) /\ Requests(md, k, ts)
      /\ Len(tc) + Len(ho) + L * Asked(md, ts) + 0 = L * m /\ Len(tc) + 0 <= L * m
  BY <1>1 DEF Flow
<1>6. PICK a \in Nat : a = Asked(md, ts)
  BY AskedFacts
<1>7. PICK b \in Nat : b = Asked(md, s)
  BY AskedFacts
<1>8. L * m \in Nat /\ L * (m + 1) = L * m + L /\ Len(tc) \in Nat /\ Len(ho) \in Nat
  OBVIOUS
<1>9. Requests(md, k, s) /\ L * b = L * a + L
  <2>1. CASE Framed(md)
    <3>1. Requests(md, k, s)
      BY <1>3, <1>4, <1>5, <2>1 DEF Requests
    <3>2. b = a + 1
      BY <1>3, <1>6, <1>7, <2>1, AskedFacts
    <3>3. QED
      BY <3>1, <3>2
  <2>2. CASE ~Framed(md)
    <3>1. Idle(md, "up", ts, tc, ho)
      BY <2>2, FlowIdle
    <3>2. \A n \in 1 .. Len(ts) : ts[n] \notin Known
      BY <3>1 DEF Idle
    <3>3. Requests(md, k, s)
      BY <1>3, <1>4, <2>2, <3>2 DEF Requests
    <3>4. a = 0
      BY <1>6, <2>2, <3>2 DEF Asked
    <3>5. CASE k \in Known
      <4>1. Len(ts) + 1 \in 1 .. Len(s) /\ s[Len(ts) + 1] \in Known
        BY <1>3, <3>5
      <4>2. b = 1
        BY <1>7, <2>2, <4>1 DEF Asked
      <4>3. QED
        BY <3>3, <3>4, <4>2
    <3>6. CASE k \notin Known
      <4>1. L = 0
        BY <1>1, <2>2, <3>6, RespLenFacts
      <4>2. QED
        BY <3>3, <4>1
    <3>7. QED
      BY <3>5, <3>6
  <2>3. QED
    BY <2>1, <2>2
<1>10. L * a \in Nat /\ Len(tc) + Len(ho) + L * b + 0 = L * (m + 1) /\ Len(tc) + 0 <= L * (m + 1)
  <2>1. PICK M \in Nat : M = L * m
    BY <1>8
  <2>2. PICK S \in Nat : S = L * a
    OBVIOUS
  <2>3. Len(tc) + Len(ho) + S + 0 = M /\ Len(tc) + 0 <= M
    BY <1>5, <1>6, <2>1, <2>2
  <2>4. Len(tc) + Len(ho) + (S + L) + 0 = M + L /\ Len(tc) + 0 <= M + L
    <3>1. PICK u \in Nat, v \in Nat : u = Len(tc) /\ v = Len(ho)
      BY <1>8
    <3>2. u + v + S + 0 = M
      BY <2>3, <3>1
    <3>3. u + v + (S + L) + 0 = M + L /\ u + 0 <= M + L
      BY <3>2, Sums
    <3>4. QED
      BY <3>1, <3>3
  <2>5. L * b = S + L /\ L * (m + 1) = M + L
    BY <1>8, <1>9, <2>1, <2>2
  <2>6. QED
    BY <2>2, <2>4, <2>5
<1>11. QED
  BY <1>1, <1>2, <1>5, <1>7, <1>9, <1>10 DEF Flow

(* A request that is written to an ended connection. *)
LEMMA FlowUnheard ==
  ASSUME NEW md \in Transports, NEW B, NEW k \in 0 .. 15, NEW m \in Nat, NEW lk,
         NEW lk2, lk2 # "up", NEW ts, NEW tc \in Seq(Cells), NEW ho, Flow(md, B, k, m, 0, lk, ts, tc, ho)
  PROVE  Flow(md, B, k, m + 1, 0, lk2, ts, tc, ho)
<1>1. PICK L \in Nat : L = RespLen(md, k)
  BY RespLenFacts
<1>2. L * m \in Nat /\ L * (m + 1) = L * m + L /\ Len(tc) \in Nat
  OBVIOUS
<1>3. Fits(md, B, k, 0, tc) /\ Len(tc) + 0 <= L * m
  BY <1>1 DEF Flow
<1>4. Len(tc) + 0 <= L * (m + 1)
  BY <1>2, <1>3
<1>5. QED
  BY <1>1, <1>3, <1>4 DEF Flow

(* The client reads a piece: the next one of its response. *)
LEMMA FlowRead ==
  ASSUME NEW md \in Transports, NEW B, NEW k \in 0 .. 15, NEW m \in Nat, NEW off \in Nat,
         NEW lk, NEW ts \in Seq(0 .. 15), NEW tc \in Seq(Cells), NEW ho \in Seq(Cells), tc # <<>>,
         Flow(md, B, k, m, off, lk, ts, tc, ho)
  PROVE  /\ Flow(md, B, k, m, off + 1, lk, ts, Tail(tc), ho)
         /\ off < RespLen(md, k) => Piece(md, B, k, off, Head(tc))
         /\ 1 + off <= RespLen(md, k) * m
<1>1. PICK L \in Nat : L = RespLen(md, k)
  BY RespLenFacts
<1>2. /\ Len(tc) \in Nat \ {0} /\ Tail(tc) \in Seq(Cells) /\ Len(Tail(tc)) = Len(tc) - 1
      /\ \A n \in 1 .. Len(tc) - 1 : Tail(tc)[n] = tc[n + 1]
      /\ Head(tc) = tc[1]
  BY TailFacts
<1>3. PICK s \in Seq(Cells) : s = Tail(tc)
  BY <1>2
<1>4. Fits(md, B, k, off, tc) /\ Len(tc) + off <= L * m
  BY <1>1 DEF Flow
<1>5. L * m \in Nat /\ Len(ho) \in Nat
  OBVIOUS
<1>6. Fits(md, B, k, off + 1, s)
  <2>1. SUFFICES ASSUME NEW n \in 1 .. Len(s), NEW r \in Nat, NEW j \in 0 .. L - 1,
                        off + 1 + n - 1 = L * r + j
                 PROVE  Piece(md, B, k, j, s[n])
    BY <1>1 DEF Fits
  <2>2. PICK i \in 1 .. Len(tc) : i = n + 1 /\ s[n] = tc[i]
    BY <1>2, <1>3
  <2>3. off + i - 1 = off + 1 + n - 1
    BY <2>2
  <2>4. Piece(md, B, k, j, tc[i])
    BY <1>1, <1>4, <2>1, <2>2, <2>3 DEF Fits
  <2>5. QED
    BY <2>2, <2>4
<1>7. Len(s) + off + 1 = Len(tc) + off /\ 1 + off <= L * m /\ Len(s) + (off + 1) <= L * m
  BY <1>2, <1>3, <1>4, <1>5
<1>8. ASSUME lk = "up"
      PROVE  /\ Fits(md, B, k, off + 1 + Len(s), ho) /\ Requests(md, k, ts)
             /\ Len(s) + Len(ho) + L * Asked(md, ts) + (off + 1) = L * m
  <2>1. PICK a \in Nat : a = Asked(md, ts)
    BY AskedFacts
  <2>2. /\ Fits(md, B, k, off + Len(tc), ho) /\ Requests(md, k, ts)
        /\ Len(tc) + Len(ho) + L * a + off = L * m
    BY <1>1, <1>8, <2>1 DEF Flow
  <2>3. off + Len(tc) = off + 1 + Len(s) /\ L * a \in Nat
    BY <1>2, <1>3
  <2>4. Len(s) + Len(ho) + L * a + (off + 1) = L * m
    BY <1>2, <1>3, <1>5, <2>2, <2>3
  <2>5. QED
    BY <2>1, <2>2, <2>3, <2>4
<1>9. ASSUME off < L PROVE Piece(md, B, k, off, Head(tc))
  <2>1. 1 \in 1 .. Len(tc) /\ off \in 0 .. L - 1 /\ off + 1 - 1 = L * 0 + off
    BY <1>2, <1>9
  <2>2. Piece(md, B, k, off, tc[1])
    BY <1>1, <1>4, <2>1 DEF Fits
  <2>3. QED
    BY <1>2, <2>2
<1>10. QED
  BY <1>1, <1>3, <1>6, <1>7, <1>8, <1>9 DEF Flow

(* A response is complete and the next one begins. *)
LEMMA FlowNext ==
  ASSUME NEW md \in Transports, NEW B, NEW k \in 0 .. 15, NEW m \in Nat \ {0},
         NEW lk, NEW ts \in Seq(0 .. 15), NEW tc \in Seq(Cells), NEW ho \in Seq(Cells),
         Flow(md, B, k, m, RespLen(md, k), lk, ts, tc, ho)
  PROVE  Flow(md, B, k, m - 1, 0, lk, ts, tc, ho)
<1>1. PICK L \in Nat : L = RespLen(md, k)
  BY RespLenFacts
<1>2. PICK p \in Nat : p = m - 1 /\ m = p + 1
  OBVIOUS
<1>3. L * m = L * p + L /\ L * p \in Nat /\ Len(tc) \in Nat /\ Len(ho) \in Nat
  BY <1>2
<1>4. Fits(md, B, k, L, tc) /\ Len(tc) + L <= L * m
  BY <1>1 DEF Flow
<1>5. ASSUME NEW o \in Nat, NEW s, Fits(md, B, k, L + o, s) PROVE Fits(md, B, k, o, s)
  <2>1. SUFFICES ASSUME NEW n \in 1 .. Len(s), NEW r \in Nat, NEW j \in 0 .. L - 1,
                        o + n - 1 = L * r + j
                 PROVE  Piece(md, B, k, j, s[n])
    BY <1>1 DEF Fits
  <2>2. L * (r + 1) = L * r + L /\ L * r \in Nat /\ r + 1 \in Nat
    OBVIOUS
  <2>3. n \in Int /\ L + o + n - 1 = L * (r + 1) + j
    BY <2>1, <2>2
  <2>4. QED
    BY <1>1, <1>5, <2>2, <2>3 DEF Fits
<1>6. Fits(md, B, k, 0, tc)
  <2>1. Fits(md, B, k, L + 0, tc)
    BY <1>4
  <2>2. QED
    BY <1>5, <2>1
<1>7. Len(tc) + 0 <= L * p
  <2>1. PICK M \in Nat : M = L * p
    BY <1>3
  <2>2. Len(tc) + L <= M + L
    BY <1>3, <1>4, <2>1
  <2>3. QED
    BY <1>3, <2>1, <2>2
<1>8. ASSUME lk = "up"
      PROVE  /\ Fits(md, B, k, 0 + Len(tc), ho) /\ Requests(md, k, ts)
             /\ Len(tc) + Len(ho) + L * Asked(md, ts) + 0 = L * p
  <2>1. PICK a \in Nat : a = Asked(md, ts)
    BY AskedFacts
  <2>2. /\ Fits(md, B, k, L + Len(tc), ho) /\ Requests(md, k, ts)
        /\ Len(tc) + Len(ho) + L * a + L = L * m
    BY <1>1, <1>8, <2>1 DEF Flow
  <2>3. Fits(md, B, k, Len(tc), ho) /\ 0 + Len(tc) = Len(tc)
    BY <1>3, <1>5, <2>2
  <2>4. L * a \in Nat
    OBVIOUS
  <2>5. Len(tc) + Len(ho) + L * a + 0 = L * p
    <3>1. PICK M \in Nat : M = L * p
      BY <1>3
    <3>2. PICK S \in Nat : S = L * a
      BY <2>4
    <3>3. Len(tc) + Len(ho) + S + L = M + L
      BY <1>3, <2>2, <3>1, <3>2
    <3>4. PICK u \in Nat, v \in Nat : u = Len(tc) /\ v = Len(ho)
      BY <1>3
    <3>5. u + v + S + L = M + L
      BY <3>3, <3>4
    <3>6. u + v + S + 0 = M
      BY <3>5, Difference
    <3>7. QED
      BY <3>1, <3>2, <3>4, <3>6
  <2>6. QED
    BY <2>1, <2>2, <2>3, <2>5
<1>9. QED
  BY <1>1, <1>2, <1>6, <1>7, <1>8 DEF Flow

-----------------------------------------------------------------------------
(* What the Gets have read and have to expect. *)

Reqs(md) == IF md = "tcppool" THEN BatchSize ELSE 1

Active(p) == p \in {"write", "header", "body", "put"}

(* The responses that a Get has asked for and not read to their ends. *)
Due(md, p, l) == IF p = "write" THEN Reqs(md) - l ELSE IF p = "put" THEN 0 ELSE l

(* How much of the first one it has read. *)
Off(md, p, bd) == IF p # "body" THEN 0 ELSE IF Framed(md) THEN Len(bd) + 1 ELSE Len(bd)

Announced(md, k) == IF Framed(md) /\ k \notin Known THEN 1 ELSE GetSize(k)

ReadSoFar(md, B, k, bd) ==
  \A n \in 1 .. Len(bd) : Piece(md, B, k, IF Framed(md) THEN n ELSE n - 1, bd[n])

(* The variables of a Get. *)
Reading(md, B, p, k, l, n, bd) ==
  /\ p \in {"body", "put"} => n = Announced(md, k) /\ ReadSoFar(md, B, k, bd)
  /\ p = "put" => Len(bd) = n /\ (Framed(md) => k \in Known)
  /\ p = "header" => Framed(md)
  /\ p # "put" => l <= Reqs(md)

(* A Get and its connection. *)
Good(md, B, p, k, l, n, bd, lk, ts, tc, ho) ==
  Active(p) => /\ Reading(md, B, p, k, l, n, bd)
               /\ Flow(md, B, k, Due(md, p, l), Off(md, p, bd), lk, ts, tc, ho)

ThreadGood(t) ==
  LET c == tconn[t] IN
  Good(mode, bufs, tpc[t], cmd[t], left[t], need[t], body[t], link[c], toServer[c], toClient[c], hout[c])

FlowInv ==
  /\ \A t \in Threads : ThreadGood(t)
  /\ \A n \in 1 .. Len(conns) :
       LET c == conns[n] IN Idle(mode, link[c], toServer[c], toClient[c], hout[c])

(* What Get does in terms of the transport. *)
LEMMA ReqsFacts ==
  ASSUME mode \in Transports
  PROVE  /\ Get.requests = Reqs(mode) /\ (Get.framed <=> Framed(mode))
         /\ Reqs(mode) \in 1 .. BatchSize /\ (~Framed(mode) => Reqs(mode) = 1)
<1>1. BatchSize \in Nat \ {0}
  BY BatchFits
<1>2. CASE mode = "tcppool"
  <2>1. Get = TcppoolGet
    BY <1>2 DEF Get
  <2>2. QED
    BY <1>1, <1>2, <2>1 DEF TcppoolGet, Reqs, Framed
<1>3. CASE mode = "gonet" \/ mode = "quic"
  <2>1. Get = [requests |-> 1, framed |-> TRUE]
    BY <1>3 DEF Get, GonetGet, QuicGet
  <2>2. QED
    BY <1>1, <1>3, <2>1 DEF Reqs, Framed
<1>4. CASE mode \notin {"tcppool", "gonet", "quic"} /\ mode \in Transports
  <2>1. Get = SendfileGet /\ mode = "tcpsendfile"
    BY <1>4, PoolAssumption DEF Get
  <2>2. QED
    BY <1>1, <1>4, <2>1 DEF SendfileGet, Reqs, Framed
<1>5. QED
  BY <1>2, <1>3, <1>4

(* What a Get has read stays right when buffers are put back. *)
LEMMA ReadingGrows ==
  ASSUME NEW md, NEW B, NEW C, B \subseteq C, NEW p, NEW k, NEW l, NEW n, NEW bd,
         Reading(md, B, p, k, l, n, bd)
  PROVE  Reading(md, C, p, k, l, n, bd)
<1>1. \A j, x : Piece(md, B, k, j, x) => Piece(md, C, k, j, x)
  BY DEF Piece
<1>2. ReadSoFar(md, B, k, bd) => ReadSoFar(md, C, k, bd)
  BY <1>1 DEF ReadSoFar
<1>3. QED
  BY <1>2 DEF Reading

(* A Get that goes well still does when buffers are put back. *)
LEMMA GoodGrows ==
  ASSUME NEW md, NEW B, NEW C, B \subseteq C, NEW p, NEW k, NEW l, NEW n, NEW bd,
         NEW lk, NEW ts, NEW tc, NEW ho, Good(md, B, p, k, l, n, bd, lk, ts, tc, ho)
  PROVE  Good(md, C, p, k, l, n, bd, lk, ts, tc, ho)
<1> SUFFICES ASSUME Active(p)
             PROVE  /\ Reading(md, C, p, k, l, n, bd)
                    /\ Flow(md, C, k, Due(md, p, l), Off(md, p, bd), lk, ts, tc, ho)
  BY DEF Good
<1>1. /\ Reading(md, B, p, k, l, n, bd)
      /\ Flow(md, B, k, Due(md, p, l), Off(md, p, bd), lk, ts, tc, ho)
  BY DEF Good
<1>2. QED
  BY <1>1, ReadingGrows, FlowGrows

(* What is due is a number. *)
LEMMA DueFacts ==
  ASSUME Types, NEW t \in Threads, Active(tpc[t]), ThreadGood(t)
  PROVE  /\ tconn[t] \in Sockets /\ cmd[t] \in 0 .. 15 /\ mode \in Transports
         /\ Due(mode, tpc[t], left[t]) \in Nat /\ Off(mode, tpc[t], body[t]) \in Nat
         /\ body[t] \in Seq(Cells) /\ need[t] \in Nat /\ left[t] \in Nat
<1>1. /\ ThreadTypes /\ PoolTypes /\ mode \in Transports /\ BatchSize \in Nat
      /\ Commands \subseteq 0 .. 15
  BY PoolAssumption, BatchFits DEF Types, PoolTypes
<1>2. /\ tconn[t] \in Sockets /\ cmd[t] \in 0 .. 15 /\ left[t] \in 0 .. BatchSize
      /\ body[t] \in Seq(Cells) /\ need[t] \in Nat
  BY <1>1, ThreadValues DEF Phase, Active
<1>3. tpc[t] # "put" => left[t] <= Reqs(mode)
  BY DEF ThreadGood, Good, Reading
<1>4. Reqs(mode) \in Nat
  BY <1>1, ReqsFacts
<1>5. Due(mode, tpc[t], left[t]) \in Nat
  BY <1>1, <1>2, <1>3, <1>4 DEF Due
<1>6. Len(body[t]) \in Nat
  BY <1>2
<1>7. Off(mode, tpc[t], body[t]) \in Nat
  BY <1>6 DEF Off
<1>8. QED
  BY <1>1, <1>2, <1>5, <1>7

(* The values of a connection. *)
LEMMA WireValues ==
  ASSUME Types, NEW c \in Sockets
  PROVE  /\ toServer[c] \in Seq(0 .. 15) /\ toClient[c] \in Seq(Cells) /\ hout[c] \in Seq(Cells)
         /\ mode \in Transports
  BY DEF Types, WireTypes, HandlerTypes, PoolTypes

(* A thread whose variables and connection stay as they are. *)
LEMMA ThreadFrame ==
  ASSUME Types, NEW u \in Threads, ThreadGood(u), mode' = mode, bufs \subseteq bufs',
         tpc'[u] = tpc[u], cmd'[u] = cmd[u], tconn'[u] = tconn[u], left'[u] = left[u],
         need'[u] = need[u], body'[u] = body[u],
         tconn[u] \in Sockets =>
           /\ link'[tconn[u]] = link[tconn[u]] /\ toServer'[tconn[u]] = toServer[tconn[u]]
           /\ toClient'[tconn[u]] = toClient[tconn[u]] /\ hout'[tconn[u]] = hout[tconn[u]]
  PROVE  ThreadGood(u)'
<1>1. CASE ~Active(tpc[u])
  BY <1>1 DEF ThreadGood, Good
<1>2. CASE Active(tpc[u])
  <2>1. PICK c \in Sockets : c = tconn[u]
    BY <1>2, DueFacts
  <2>2. Good(mode, bufs, tpc[u], cmd[u], left[u], need[u], body[u], link[c], toServer[c], toClient[c], hout[c])
    BY <2>1 DEF ThreadGood
  <2>3. Good(mode, bufs', tpc[u], cmd[u], left[u], need[u], body[u], link[c], toServer[c], toClient[c], hout[c])
    BY <2>2, GoodGrows
  <2>4. link'[c] = link[c] /\ toServer'[c] = toServer[c] /\ toClient'[c] = toClient[c] /\ hout'[c] = hout[c] /\ tconn'[u] = c
    BY <2>1
  <2>5. Good(mode', bufs', tpc'[u], cmd'[u], left'[u], need'[u], body'[u], link'[c], toServer'[c], toClient'[c], hout'[c])
    BY <2>3, <2>4
  <2>6. QED
    BY <2>4, <2>5 DEF ThreadGood
<1>3. QED
  BY <1>1, <1>2

(* All variables of thread u stay as they are. *)
ThreadSame(u) ==
  /\ tpc'[u] = tpc[u] /\ cmd'[u] = cmd[u] /\ tconn'[u] = tconn[u] /\ left'[u] = left[u]
  /\ need'[u] = need[u] /\ body'[u] = body[u]

(* All variables of connection c stay as they are. *)
ConnSame(c) ==
  link'[c] = link[c] /\ toServer'[c] = toServer[c] /\ toClient'[c] = toClient[c] /\ hout'[c] = hout[c]

(* A step of t that touches connection c only. *)
LEMMA ThreadMove ==
  ASSUME Types, FlowInv, mode' = mode, bufs \subseteq bufs', NEW t \in Threads, NEW c,
         \A u \in Threads : u # t => ThreadSame(u) /\ tconn[u] # c,
         \A d \in Sockets : d # c => ConnSame(d),
         ThreadGood(t)',
         \A n \in 1 .. Len(conns') :
           \/ conns'[n] = c /\ Idle(mode', link'[c], toServer'[c], toClient'[c], hout'[c])
           \/ conns'[n] # c /\ \E m \in 1 .. Len(conns) : conns'[n] = conns[m]
  PROVE  FlowInv'
<1>1. ASSUME NEW u \in Threads PROVE ThreadGood(u)'
  <2>1. CASE u = t
    BY <2>1
  <2>2. CASE u # t
    <3>1. ThreadSame(u) /\ tconn[u] # c /\ ThreadGood(u)
      BY <2>2 DEF FlowInv
    <3>2. tconn[u] \in Sockets => ConnSame(tconn[u])
      BY <3>1
    <3>3. QED
      BY <3>1, <3>2, ThreadFrame DEF ThreadSame, ConnSame
  <2>3. QED
    BY <2>1, <2>2
<1>2. ASSUME NEW n \in 1 .. Len(conns')
      PROVE  Idle(mode', link'[conns'[n]], toServer'[conns'[n]], toClient'[conns'[n]], hout'[conns'[n]])
  <2>1. CASE conns'[n] = c
    BY <1>2, <2>1
  <2>2. CASE conns'[n] # c
    <3>1. PICK m \in 1 .. Len(conns) : conns'[n] = conns[m]
      BY <1>2, <2>2
    <3>2. PICK d \in Sockets : d = conns[m] /\ d = conns'[n] /\ d # c
      BY <2>2, <3>1, PooledConn
    <3>3. Idle(mode, link[d], toServer[d], toClient[d], hout[d])
      BY <3>1, <3>2 DEF FlowInv
    <3>4. ConnSame(d)
      BY <3>2
    <3>5. Idle(mode', link'[d], toServer'[d], toClient'[d], hout'[d])
      BY <3>3, <3>4 DEF ConnSame
    <3>6. QED
      BY <3>2, <3>5
  <2>3. QED
    BY <2>1, <2>2
<1>3. QED
  BY <1>1, <1>2 DEF FlowInv

(* What was to come on c, whatever it was, is what is to come now. *)
Carries(c) ==
  \A k \in 0 .. 15, m \in Nat, off \in Nat :
    Flow(mode, bufs, k, m, off, link[c], toServer[c], toClient[c], hout[c]) =>
      Flow(mode, bufs', k, m, off, link'[c], toServer'[c], toClient'[c], hout'[c])

(* A step of the network or the server. *)
LEMMA WireMove ==
  ASSUME Types, Types', FlowInv, bufs \subseteq bufs',
         UNCHANGED <<mode, tpc, cmd, tconn, left, need, body, conns>>,
         \A c \in Sockets : Carries(c)
  PROVE  FlowInv'
<1>1. ASSUME NEW u \in Threads PROVE ThreadGood(u)'
  <2>1. CASE ~Active(tpc[u])
    BY <2>1 DEF ThreadGood, Good
  <2>2. CASE Active(tpc[u])
    <3>1. ThreadGood(u)
      BY DEF FlowInv
    <3>2. PICK c \in Sockets : c = tconn[u]
      BY <2>2, <3>1, DueFacts
    <3>3. PICK k \in 0 .. 15 : k = cmd[u]
      BY <2>2, <3>1, DueFacts
    <3>4. PICK m \in Nat : m = Due(mode, tpc[u], left[u])
      BY <2>2, <3>1, DueFacts
    <3>5. PICK off \in Nat : off = Off(mode, tpc[u], body[u])
      BY <2>2, <3>1, DueFacts
    <3>6. /\ Reading(mode, bufs, tpc[u], k, left[u], need[u], body[u])
          /\ Flow(mode, bufs, k, m, off, link[c], toServer[c], toClient[c], hout[c])
      BY <2>2, <3>1, <3>2, <3>3, <3>4, <3>5 DEF ThreadGood, Good
    <3>7. Flow(mode, bufs', k, m, off, link'[c], toServer'[c], toClient'[c], hout'[c])
      BY <3>6 DEF Carries
    <3>8. Reading(mode, bufs', tpc[u], k, left[u], need[u], body[u])
      BY <3>6, ReadingGrows
    <3>9. Good(mode, bufs', tpc[u], cmd[u], left[u], need[u], body[u], link'[c], toServer'[c], toClient'[c], hout'[c])
      BY <3>3, <3>4, <3>5, <3>7, <3>8 DEF Good
    <3>10. QED
      BY <3>2, <3>9 DEF ThreadGood
  <2>3. QED
    BY <2>1, <2>2
<1>2. ASSUME NEW n \in 1 .. Len(conns)
      PROVE  Idle(mode', link'[conns[n]], toServer'[conns[n]], toClient'[conns[n]], hout'[conns[n]])
  <2>1. PICK c \in Sockets : c = conns[n]
    BY <1>2, PooledConn
  <2>2. Idle(mode, link[c], toServer[c], toClient[c], hout[c])
    BY <1>2, <2>1 DEF FlowInv
  <2>3. /\ toServer[c] \in Seq(0 .. 15) /\ toClient[c] \in Seq(Cells) /\ hout[c] \in Seq(Cells)
        /\ mode \in Transports
    BY WireValues
  <2>4. toServer'[c] \in Seq(0 .. 15) /\ toClient'[c] \in Seq(Cells) /\ hout'[c] \in Seq(Cells)
    BY DEF Types, WireTypes, HandlerTypes
  <2>5. 0 \in 0 .. 15
    OBVIOUS
  <2>6. Flow(mode, bufs, 0, 0, 0, link[c], toServer[c], toClient[c], hout[c])
    BY <2>2, <2>3, <2>5, IdleFlow
  <2>7. Flow(mode, bufs', 0, 0, 0, link'[c], toServer'[c], toClient'[c], hout'[c])
    BY <2>5, <2>6 DEF Carries
  <2>8. Idle(mode, link'[c], toServer'[c], toClient'[c], hout'[c])
    BY <2>3, <2>4, <2>5, <2>7, FlowIdle
  <2>9. QED
    BY <2>1, <2>8
<1>3. QED
  BY <1>1, <1>2 DEF FlowInv

(* A step of one connection. *)
LEMMA ConnMove ==
  ASSUME Types, Types', FlowInv, bufs \subseteq bufs',
         UNCHANGED <<mode, tpc, cmd, tconn, left, need, body, conns>>,
         NEW c \in Sockets, \A d \in Sockets : d # c => ConnSame(d), Carries(c)
  PROVE  FlowInv'
<1>1. ASSUME NEW d \in Sockets PROVE Carries(d)
  <2>1. CASE d = c
    BY <2>1
  <2>2. CASE d # c
    <3>1. ConnSame(d)
      BY <2>2
    <3>2. \A k \in 0 .. 15, m \in Nat, off \in Nat :
            Flow(mode, bufs, k, m, off, link[d], toServer[d], toClient[d], hout[d]) =>
              Flow(mode, bufs', k, m, off, link[d], toServer[d], toClient[d], hout[d])
      BY FlowGrows
    <3>3. QED
      BY <3>1, <3>2 DEF Carries, ConnSame
  <2>3. QED
    BY <2>1, <2>2
<1>2. QED
  BY <1>1, WireMove

-----------------------------------------------------------------------------
(* The steps of the server and the network. *)

(* What the handlers write are responses. *)
LEMMA TcppoolResponds ==
  ASSUME NEW md \in {"tcppool", "quic"}, NEW B, NEW k \in 0 .. 15
  PROVE  Response(md, B, k, TcppoolResponse(k))
<1>1. PICK p \in Seq(Cells) : p = TcppoolResponse(k)
  BY ResponseFacts
<1>2. Framed(md) /\ md # "gonet"
  BY DEF Framed
<1>3. CASE k \in Known
  <2>1. /\ Len(p) = Pieces[k] + 1 /\ Pieces[k] \in Nat /\ p[1] = <<"header", Pieces[k]>>
        /\ \A n \in 1 .. Pieces[k] : p[n + 1] = <<"data", k>>
    BY <1>1, <1>3, ResponseFacts, MaxPiecesFacts
  <2>2. Len(p) = RespLen(md, k)
    BY <1>2, <1>3, <2>1 DEF RespLen
  <2>3. ASSUME NEW n \in 1 .. Len(p) PROVE Piece(md, B, k, n - 1, p[n])
    <3>1. CASE n = 1
      BY <1>2, <1>3, <2>1, <3>1 DEF Piece
    <3>2. CASE n # 1
      <4>1. PICK i \in 1 .. Pieces[k] : n = i + 1 /\ n - 1 = i /\ i # 0
        <5>1. n - 1 \in 1 .. Pieces[k] /\ n = (n - 1) + 1 /\ n - 1 # 0
          BY <2>1, <2>3, <3>2
        <5>2. QED
          BY <5>1
      <4>2. p[n] = <<"data", k>>
        BY <2>1, <4>1
      <4>3. QED
        BY <1>2, <1>3, <4>1, <4>2 DEF Piece
    <3>3. QED
      BY <3>1, <3>2
  <2>4. QED
    BY <1>1, <2>2, <2>3 DEF Response
<1>4. CASE k \notin Known
  <2>1. Len(p) = 2 /\ p[1] = <<"error", 1>> /\ p[2] = <<"message", k>>
    BY <1>1, <1>4, ResponseFacts
  <2>2. Len(p) = RespLen(md, k)
    BY <1>2, <1>4, <2>1 DEF RespLen
  <2>3. Piece(md, B, k, 0, p[1]) /\ Piece(md, B, k, 1, p[2])
    BY <1>2, <1>4, <2>1 DEF Piece
  <2>4. \A n \in 1 .. Len(p) : (n = 1 /\ n - 1 = 0) \/ (n = 2 /\ n - 1 = 1)
    BY <2>1
  <2>5. \A n \in 1 .. Len(p) : Piece(md, B, k, n - 1, p[n])
    BY <2>3, <2>4
  <2>6. QED
    BY <1>1, <2>2, <2>5 DEF Response
<1>5. QED
  BY <1>3, <1>4

(* What lies behind the length of a recycled buffer is stale. *)
LEMMA GonetResponds ==
  ASSUME NEW B \in SUBSET (0 .. MaxPieces), NEW k \in 0 .. 15, NEW room \in B \cup {MaxPieces}
  PROVE  Response("gonet", B, k, GonetResponse(k, room))
<1>1. room \in Nat /\ MaxPieces \in Nat
  BY MaxPiecesFacts
<1>2. PICK p \in Seq(Cells) : p = GonetResponse(k, room)
  BY <1>1, GonetFacts
<1>3. Framed("gonet")
  BY DEF Framed
<1>4. CASE k \in Known
  <2>1. /\ Len(p) = Pieces[k] + 1 /\ Pieces[k] \in Nat /\ Pieces[k] <= MaxPieces
        /\ p[1] = <<"header", Pieces[k]>>
        /\ \A n \in 1 .. Pieces[k] : p[n + 1] = IF n <= room THEN <<"data", k>> ELSE <<"stale", n>>
    BY <1>1, <1>2, <1>4, GonetFacts, MaxPiecesFacts
  <2>2. Len(p) = RespLen("gonet", k)
    BY <1>3, <1>4, <2>1 DEF RespLen
  <2>3. ASSUME NEW n \in 1 .. Len(p) PROVE Piece("gonet", B, k, n - 1, p[n])
    <3>1. CASE n = 1
      BY <1>3, <1>4, <2>1, <3>1 DEF Piece
    <3>2. CASE n # 1
      <4>1. PICK i \in 1 .. Pieces[k] : n = i + 1 /\ n - 1 = i /\ i # 0
        <5>1. n - 1 \in 1 .. Pieces[k] /\ n = (n - 1) + 1 /\ n - 1 # 0
          <6>1. Pieces[k] \in Nat /\ Len(p) = Pieces[k] + 1
            BY <2>1
          <6>2. QED
            BY <2>3, <3>2, <6>1
        <5>2. QED
          BY <5>1
      <4>2. CASE i <= room
        <5>1. p[n] = <<"data", k>>
          BY <2>1, <4>1, <4>2
        <5>2. QED
          BY <1>3, <1>4, <4>1, <5>1 DEF Piece
      <4>3. CASE ~(i <= room)
        <5>1. p[n] = <<"stale", i>>
          BY <2>1, <4>1, <4>3
        <5>2. room \in B /\ room < i
          <6>1. i \in Nat /\ i <= MaxPieces /\ ~(i <= room)
            <7>1. PICK P \in Nat : P = Pieces[k] /\ P <= MaxPieces
              BY <2>1
            <7>2. i \in 1 .. P
              BY <7>1
            <7>3. i \in Nat /\ i <= MaxPieces
              BY <1>1, <7>1, <7>2
            <7>4. QED
              BY <4>3, <7>3
          <6>2. room # MaxPieces
            BY <6>1
          <6>3. QED
            BY <1>1, <6>1, <6>2
        <5>3. QED
          BY <1>3, <1>4, <4>1, <5>1, <5>2 DEF Piece
      <4>4. QED
        BY <4>2, <4>3
    <3>3. QED
      BY <3>1, <3>2
  <2>4. QED
    BY <1>2, <2>2, <2>3 DEF Response
<1>5. CASE k \notin Known
  <2>1. Len(p) = 1 /\ p[1] = <<"error", 1>>
    BY <1>1, <1>2, <1>5, GonetFacts
  <2>2. Len(p) = RespLen("gonet", k)
    BY <1>3, <1>5, <2>1 DEF RespLen
  <2>3. Piece("gonet", B, k, 0, p[1])
    BY <1>3, <1>5, <2>1 DEF Piece
  <2>4. \A n \in 1 .. Len(p) : n = 1 /\ n - 1 = 0
    BY <2>1
  <2>5. \A n \in 1 .. Len(p) : Piece("gonet", B, k, n - 1, p[n])
    BY <2>3, <2>4
  <2>6. QED
    BY <1>2, <2>2, <2>5 DEF Response
<1>6. QED
  BY <1>4, <1>5

(* A response of tcpsendfile is the block alone. *)
LEMMA SendfileResponds ==
  ASSUME NEW B, NEW k \in Known
  PROVE  Response("tcpsendfile", B, k, Block(k))
<1>1. ~Framed("tcpsendfile")
  BY DEF Framed
<1>2. Len(Block(k)) = RespLen("tcpsendfile", k)
  BY <1>1, BlockFacts DEF RespLen, GetSize
<1>3. Pieces[k] \in Nat /\ Len(Block(k)) = Pieces[k] /\ \A n \in 1 .. Pieces[k] : Block(k)[n] = <<"data", k>>
  BY BlockFacts, MaxPiecesFacts
<1>4. \A n \in 1 .. Len(Block(k)) : Piece("tcpsendfile", B, k, n - 1, Block(k)[n])
  BY <1>1, <1>3 DEF Piece
<1>5. QED
  BY <1>2, <1>4 DEF Response

(* A handler has the response to its request in its hand. *)
LEMMA ReplyFlow ==
  ASSUME Types, Types', FlowInv, NEW c \in Sockets, Arrived(c), NEW p \in Seq(Cells), Reply(c, p),
         Response(mode, bufs, Head(toServer[c]), p), Framed(mode) \/ Head(toServer[c]) \in Known
  PROVE  FlowInv'
<1> USE DEF threadVars
<1>1. /\ bufs' = bufs /\ UNCHANGED <<mode, tpc, cmd, tconn, left, need, body, conns, link, toClient>>
      /\ toServer' = [toServer EXCEPT ![c] = Tail(toServer[c])] /\ hout' = [hout EXCEPT ![c] = p]
  BY DEF Reply
<1>2. /\ toServer[c] \in Seq(0 .. 15) /\ toClient[c] \in Seq(Cells) /\ hout[c] \in Seq(Cells)
      /\ mode \in Transports
  BY WireValues
<1>3. toServer[c] # <<>> /\ Head(toServer[c]) = toServer[c][1] /\ hout[c] = <<>>
  BY ArrivedFacts DEF Arrived, Types, HandlerTypes
<1>4. Len(hout[c]) = 0
  BY <1>3
<1>5. toServer'[c] = Tail(toServer[c]) /\ hout'[c] = p /\ \A d \in Sockets : d # c => ConnSame(d)
  BY <1>1 DEF ConnSame, Types, WireTypes, HandlerTypes
<1>6. Carries(c)
  <2>1. SUFFICES ASSUME NEW k \in 0 .. 15, NEW m \in Nat, NEW off \in Nat,
                        Flow(mode, bufs, k, m, off, link[c], toServer[c], toClient[c], hout[c])
                 PROVE  Flow(mode, bufs, k, m, off, link[c], Tail(toServer[c]), toClient[c], p)
    BY <1>1, <1>5 DEF Carries
  <2>2. PICK ts \in Seq(0 .. 15) : ts = toServer[c]
    BY <1>2
  <2>3. PICK tc \in Seq(Cells) : tc = toClient[c]
    BY <1>2
  <2>4. PICK ho : ho = hout[c]
    OBVIOUS
  <2>5. PICK lk : lk = link[c]
    OBVIOUS
  <2>6. /\ Flow(mode, bufs, k, m, off, lk, ts, tc, ho) /\ ts # <<>> /\ Len(ho) = 0
        /\ Response(mode, bufs, ts[1], p) /\ (Framed(mode) \/ ts[1] \in Known)
    BY <1>3, <1>4, <2>1, <2>2, <2>3, <2>4, <2>5
  <2>7. Flow(mode, bufs, k, m, off, lk, Tail(ts), tc, p)
    BY <1>2, <2>6, FlowReply
  <2>8. QED
    BY <2>2, <2>3, <2>5, <2>7
<1>7. bufs \subseteq bufs'
  BY <1>1
<1>8. QED
  BY <1>1, <1>5, <1>6, <1>7, ConnMove

(* The process of the server ends. *)
LEMMA CrashFlow ==
  ASSUME Types, Types', FlowInv, NEW c \in Sockets, Crash(c),
         UNCHANGED <<mode, tpc, cmd, tconn, left, need, body, conns, toClient, bufs>>
  PROVE  FlowInv'
<1>1. ASSUME NEW d \in Sockets PROVE Carries(d)
  <2>1. link'[d] # "up"
    BY DEF Crash
  <2>2. SUFFICES ASSUME NEW k \in 0 .. 15, NEW m \in Nat, NEW off \in Nat,
                        Flow(mode, bufs, k, m, off, link[d], toServer[d], toClient[d], hout[d])
                 PROVE  Flow(mode, bufs, k, m, off, link'[d], toServer'[d], toClient[d], hout'[d])
    BY DEF Carries
  <2>3. QED
    BY <2>1, <2>2, FlowDown
<1>2. QED
  BY <1>1, WireMove

(* A step of a handler. *)
LEMMA HandlerFlow ==
  ASSUME Types, Types', FlowInv, NEW c \in Sockets, HandlerNext(c)
  PROVE  FlowInv'
<1> USE DEF threadVars, wireVars, handlerVars
<1>0. /\ toServer[c] \in Seq(0 .. 15) /\ toClient[c] \in Seq(Cells) /\ hout[c] \in Seq(Cells)
      /\ mode \in Transports
  BY WireValues
<1>1. CASE AcceptStream(c)
  <2>1. UNCHANGED <<mode, tpc, cmd, tconn, left, need, body, conns, toClient, bufs>>
    BY <1>1 DEF AcceptStream
  <2>2. CASE Crash(c)
    BY <2>1, <2>2, CrashFlow
  <2>3. CASE UNCHANGED <<link, toServer, hout>>
    <3>1. \A d \in Sockets : Carries(d)
      BY <2>1, <2>3 DEF Carries
    <3>2. QED
      BY <2>1, <3>1, WireMove
  <2>4. QED
    BY <1>1, <2>2, <2>3 DEF AcceptStream
<1>2. CASE TcppoolHandle(c) \/ QuicHandle(c)
  <2>1. PICK k \in 0 .. 15 : k = Head(toServer[c])
    BY <1>2, ArrivedFacts DEF TcppoolHandle, QuicHandle
  <2>2. PICK p \in Seq(Cells) : p = TcppoolResponse(k) /\ p = QuicResponse(k)
    BY ResponseFacts
  <2>3. mode \in {"tcppool", "quic"} /\ Arrived(c) /\ Reply(c, p)
    BY <1>2, <2>1, <2>2 DEF TcppoolHandle, QuicHandle
  <2>4. Response(mode, bufs, k, p)
    BY <2>2, <2>3, TcppoolResponds
  <2>5. Framed(mode)
    BY <2>3 DEF Framed
  <2>6. QED
    BY <2>1, <2>3, <2>4, <2>5, ReplyFlow
<1>3. CASE React(c)
  <2>1. PICK k \in 0 .. 15 : k = Head(toServer[c])
    BY <1>3, ArrivedFacts DEF React
  <2>2. PICK room \in bufs \cup {MaxPieces} : Reply(c, GonetResponse(k, room))
    BY <1>3, <2>1 DEF React
  <2>3. mode = "gonet" /\ Arrived(c) /\ bufs \in SUBSET (0 .. MaxPieces) /\ MaxPieces \in Nat
    BY <1>3, MaxPiecesFacts DEF React, Types, HandlerTypes
  <2>4. room \in Nat
    BY <2>3
  <2>5. PICK p \in Seq(Cells) : p = GonetResponse(k, room)
    BY <2>4, GonetFacts
  <2>6. Response(mode, bufs, k, p)
    BY <2>3, <2>5, GonetResponds
  <2>7. Framed(mode)
    BY <2>3 DEF Framed
  <2>8. QED
    BY <2>1, <2>2, <2>3, <2>5, <2>6, <2>7, ReplyFlow
<1>4. CASE SendfileHandle(c)
  <2>1. PICK k \in 0 .. 15 : k = Head(toServer[c])
    BY <1>4, ArrivedFacts DEF SendfileHandle
  <2>2. CASE k \in Known /\ Reply(c, Block(k))
    <3>1. mode = "tcpsendfile" /\ Arrived(c)
      BY <1>4 DEF SendfileHandle
    <3>2. PICK p \in Seq(Cells) : p = Block(k)
      BY <2>2, BlockFacts
    <3>3. Response(mode, bufs, k, p)
      BY <2>2, <3>1, <3>2, SendfileResponds
    <3>4. QED
      BY <2>1, <2>2, <3>1, <3>2, <3>3, ReplyFlow
  <2>3. CASE Crash(c) /\ UNCHANGED <<mode, tpc, cmd, tconn, left, need, body, conns, toClient, bufs>>
    BY <2>3, CrashFlow
  <2>4. QED
    BY <1>4, <2>1, <2>2, <2>3 DEF SendfileHandle
<1>5. CASE HandlerWrite(c)
  <2>1. PICK ho \in Seq(Cells) : ho = hout[c]
    BY <1>0
  <2>2. PICK tc \in Seq(Cells) : tc = toClient[c]
    BY <1>0
  <2>3. PICK ts \in Seq(0 .. 15) : ts = toServer[c]
    BY <1>0
  <2>4. /\ UNCHANGED <<mode, tpc, cmd, tconn, left, need, body, conns, link, toServer>> /\ link[c] = "up"
        /\ toClient' = [toClient EXCEPT ![c] = Append(tc, Head(ho))] /\ hout' = [hout EXCEPT ![c] = Tail(ho)]
    BY <1>5, <2>1, <2>2 DEF HandlerWrite
  <2>5. ho # <<>>
    BY <1>5, <2>1 DEF HandlerWrite, Types, HandlerTypes
  <2>6. bufs \subseteq bufs'
    BY <1>5 DEF HandlerWrite, AfterWrite
  <2>7. toClient'[c] = Append(tc, Head(ho)) /\ hout'[c] = Tail(ho) /\ \A d \in Sockets : d # c => ConnSame(d)
    BY <2>4 DEF ConnSame, Types, WireTypes, HandlerTypes
  <2>8. Carries(c)
    <3>1. SUFFICES ASSUME NEW k \in 0 .. 15, NEW m \in Nat, NEW off \in Nat,
                          Flow(mode, bufs, k, m, off, "up", ts, tc, ho)
                   PROVE  Flow(mode, bufs', k, m, off, "up", ts, Append(tc, Head(ho)), Tail(ho))
      BY <2>1, <2>2, <2>3, <2>4, <2>7 DEF Carries
    <3>2. Flow(mode, bufs, k, m, off, "up", ts, Append(tc, Head(ho)), Tail(ho))
      BY <1>0, <2>5, <3>1, FlowWrite
    <3>3. QED
      BY <2>6, <3>2, FlowGrows
  <2>9. QED
    BY <2>4, <2>6, <2>7, <2>8, ConnMove
<1>6. CASE HandlerEnds(c)
  <2>1. /\ UNCHANGED <<mode, tpc, cmd, tconn, left, need, body, conns, link, toServer, toClient, bufs>>
        /\ link[c] # "up" /\ hout' = [hout EXCEPT ![c] = <<>>]
    BY <1>6 DEF HandlerEnds
  <2>2. \A d \in Sockets : d # c => ConnSame(d)
    BY <2>1 DEF ConnSame, Types, HandlerTypes
  <2>3. Carries(c)
    <3>1. SUFFICES ASSUME NEW k \in 0 .. 15, NEW m \in Nat, NEW off \in Nat,
                          Flow(mode, bufs, k, m, off, link[c], toServer[c], toClient[c], hout[c])
                   PROVE  Flow(mode, bufs, k, m, off, link[c], toServer[c], toClient[c], hout'[c])
      BY <2>1 DEF Carries
    <3>2. QED
      BY <2>1, <3>1, FlowDown
  <2>4. bufs \subseteq bufs'
    BY <2>1
  <2>5. QED
    BY <2>1, <2>2, <2>3, <2>4, ConnMove
<1>7. QED
  BY <1>1, <1>2, <1>3, <1>4, <1>5, <1>6 DEF HandlerNext

(* A connection breaks. *)
LEMMA BreakFlow ==
  ASSUME Types, Types', FlowInv, NEW c \in Sockets, NetBreaks(c)
  PROVE  FlowInv'
<1>1. PICK e : e = <<>>
  OBVIOUS
<1>2. /\ UNCHANGED <<mode, tpc, cmd, tconn, left, need, body, conns, hout, bufs>>
      /\ link' = [link EXCEPT ![c] = "reset"]
      /\ toServer' = [toServer EXCEPT ![c] = e] /\ toClient' = [toClient EXCEPT ![c] = e]
  BY <1>1 DEF NetBreaks, threadVars, handlerVars
<1>3. /\ link'[c] = "reset" /\ toClient'[c] = e /\ Len(e) = 0
      /\ \A d \in Sockets : d # c => ConnSame(d)
  BY <1>1, <1>2 DEF ConnSame, Types, WireTypes
<1>4. Carries(c)
  <2>1. SUFFICES ASSUME NEW k \in 0 .. 15, NEW m \in Nat, NEW off \in Nat,
                        Flow(mode, bufs, k, m, off, link[c], toServer[c], toClient[c], hout[c])
                 PROVE  Flow(mode, bufs, k, m, off, "reset", toServer'[c], e, hout[c])
    BY <1>2, <1>3 DEF Carries
  <2>2. PICK tc \in Seq(Cells) : tc = toClient[c]
    BY WireValues
  <2>3. mode \in Transports /\ "reset" # "up"
    BY WireValues
  <2>4. Flow(mode, bufs, k, m, off, link[c], toServer[c], tc, hout[c])
    BY <2>1, <2>2
  <2>5. QED
    BY <1>3, <2>3, <2>4, FlowLost
<1>5. bufs \subseteq bufs'
  BY <1>2
<1>6. QED
  BY <1>2, <1>3, <1>4, <1>5, ConnMove

-----------------------------------------------------------------------------
(* The steps of the threads. *)

(* No connection changes and none is returned. *)
LEMMA StillMove ==
  ASSUME Types, FlowInv, UNCHANGED <<mode, bufs, conns, link, toServer, toClient, hout>>,
         NEW t \in Threads, \A u \in Threads : u # t => ThreadSame(u), ThreadGood(t)'
  PROVE  FlowInv'
<1>1. ASSUME NEW u \in Threads PROVE ThreadGood(u)'
  <2>1. CASE u = t
    BY <2>1
  <2>2. CASE u # t
    <3>1. ThreadSame(u) /\ ThreadGood(u)
      BY <2>2 DEF FlowInv
    <3>2. QED
      BY <3>1, ThreadFrame DEF ThreadSame
  <2>3. QED
    BY <2>1, <2>2
<1>2. QED
  BY <1>1 DEF FlowInv

(* A step of a Get on its own connection. *)
LEMMA OwnMove ==
  ASSUME Types, Apart, FlowInv, UNCHANGED <<mode, bufs, tconn, conns>>,
         NEW t \in Threads, NEW c \in Sockets, c = tconn[t],
         \A u \in Threads : u # t => ThreadSame(u),
         \A d \in Sockets : d # c => ConnSame(d),
         Good(mode, bufs, tpc'[t], cmd'[t], left'[t], need'[t], body'[t],
              link'[c], toServer'[c], toClient'[c], hout'[c])
  PROVE  FlowInv'
<1>1. ThreadGood(t)'
  BY DEF ThreadGood
<1>2. c # NoConn
  BY PoolAssumption
<1>3. \A u \in Threads : u # t => ThreadSame(u) /\ tconn[u] # c
  BY <1>2 DEF Apart
<1>4. \A n \in 1 .. Len(conns') : conns'[n] # c /\ \E m \in 1 .. Len(conns) : conns'[n] = conns[m]
  BY DEF Apart
<1>5. bufs \subseteq bufs' /\ mode' = mode
  OBVIOUS
<1>6. QED
  BY <1>1, <1>3, <1>4, <1>5, ThreadMove

(* What a Get knows about its connection. *)
LEMMA OwnFacts ==
  ASSUME Types, FlowInv, NEW t \in Threads, Active(tpc[t])
  PROVE  /\ tconn[t] \in Sockets /\ cmd[t] \in 0 .. 15
         /\ toServer[tconn[t]] \in Seq(0 .. 15) /\ toClient[tconn[t]] \in Seq(Cells) /\ hout[tconn[t]] \in Seq(Cells)
         /\ Reading(mode, bufs, tpc[t], cmd[t], left[t], need[t], body[t])
         /\ Flow(mode, bufs, cmd[t], Due(mode, tpc[t], left[t]), Off(mode, tpc[t], body[t]),
                 link[tconn[t]], toServer[tconn[t]], toClient[tconn[t]], hout[tconn[t]])
         /\ body[t] \in Seq(Cells) /\ need[t] \in Nat /\ left[t] \in Nat /\ Len(body[t]) <= need[t]
         /\ tpc[t] # "put" => left[t] > 0 /\ left[t] <= Reqs(mode)
<1>1. ThreadGood(t)
  BY DEF FlowInv
<1>2. /\ tconn[t] \in Sockets /\ cmd[t] \in 0 .. 15
      /\ body[t] \in Seq(Cells) /\ need[t] \in Nat /\ left[t] \in Nat
  BY <1>1, DueFacts
<1>3. /\ Reading(mode, bufs, tpc[t], cmd[t], left[t], need[t], body[t])
      /\ Flow(mode, bufs, cmd[t], Due(mode, tpc[t], left[t]), Off(mode, tpc[t], body[t]),
              link[tconn[t]], toServer[tconn[t]], toClient[tconn[t]], hout[tconn[t]])
  BY <1>1 DEF ThreadGood, Good
<1>4. Phase(tpc[t], tconn[t], left[t], need[t], body[t])
  BY ThreadValues DEF Types
<1>5. Len(body[t]) <= need[t] /\ (tpc[t] # "put" => left[t] > 0)
  BY <1>4 DEF Phase, Active
<1>6. tpc[t] # "put" => left[t] <= Reqs(mode)
  BY <1>3 DEF Reading
<1>7. QED
  BY <1>2, <1>3, <1>5, <1>6, WireValues

(* A Get has its connection, on which nothing is under way. *)
LEMMA BeginGood ==
  ASSUME Types, NEW t \in Threads, NEW c \in Sockets, Begin(t, c), UNCHANGED <<mode, bufs, need, body>>,
         toServer'[c] \in Seq(0 .. 15), toClient'[c] \in Seq(Cells), hout'[c] \in Seq(Cells),
         Idle(mode, link'[c], toServer'[c], toClient'[c], hout'[c])
  PROVE  ThreadGood(t)' /\ \A u \in Threads : u # t => ThreadSame(u)
<1>1. PICK k \in Commands : cmd' = [cmd EXCEPT ![t] = k]
  BY DEF Begin
<1>2. mode \in Transports /\ k \in 0 .. 15
  BY PoolAssumption DEF Types, PoolTypes
<1>3. Get.requests = Reqs(mode) /\ Reqs(mode) \in 1 .. BatchSize /\ BatchSize \in Nat
  BY <1>2, ReqsFacts, BatchFits
<1>4. tpc' = [tpc EXCEPT ![t] = "write"] /\ tconn' = [tconn EXCEPT ![t] = c] /\ left' = [left EXCEPT ![t] = Reqs(mode)]
  BY <1>3 DEF Begin, Goto
<1>5. tpc'[t] = "write" /\ tconn'[t] = c /\ left'[t] = Reqs(mode) /\ cmd'[t] = k
  BY <1>1, <1>4 DEF Types, ThreadTypes
<1>6. \A u \in Threads : u # t => ThreadSame(u)
  BY <1>1, <1>4 DEF ThreadSame, Types, ThreadTypes
<1>7. Reading(mode, bufs, "write", k, Reqs(mode), need[t], body[t])
  BY <1>3 DEF Reading
<1>8. Due(mode, "write", Reqs(mode)) = 0 /\ Off(mode, "write", body[t]) = 0
  BY <1>3 DEF Due, Off
<1>9. PICK lk, ts, tc, ho : lk = link'[c] /\ ts = toServer'[c] /\ tc = toClient'[c] /\ ho = hout'[c]
  OBVIOUS
<1>10. Flow(mode, bufs, k, 0, 0, lk, ts, tc, ho)
  BY <1>2, <1>9, IdleFlow
<1>11. Good(mode, bufs, "write", k, Reqs(mode), need[t], body[t], lk, ts, tc, ho)
  BY <1>7, <1>8, <1>10 DEF Good
<1>12. ThreadGood(t)'
  BY <1>5, <1>9, <1>11 DEF ThreadGood
<1>13. QED
  BY <1>6, <1>12

(* A Get ends. *)
LEMMA LeaveGood ==
  ASSUME Types, NEW t \in Threads, NEW p \in {"idle", "stopped"}, Leave(t, p),
         NEW c, tconn' = [tconn EXCEPT ![t] = c]
  PROVE  ThreadGood(t)' /\ \A u \in Threads : u # t => ThreadSame(u)
<1>1. tpc' = [tpc EXCEPT ![t] = p] /\ tpc'[t] = p
  BY DEF Leave, Goto, Types, ThreadTypes
<1>2. ~Active(p)
  BY DEF Active
<1>3. ThreadGood(t)'
  BY <1>1, <1>2 DEF ThreadGood, Good
<1>4. \A u \in Threads : u # t => ThreadSame(u)
  BY <1>1 DEF Leave, ThreadSame, Types, ThreadTypes
<1>5. QED
  BY <1>3, <1>4

(* A Get takes a pooled connection: nothing is under way on it. *)
LEMMA TakePooledFlow ==
  ASSUME Types, Apart, FlowInv, NEW t \in Threads, TakePooled(t)
  PROVE  FlowInv'
<1>1. /\ conns # <<>> /\ conns' = Tail(conns) /\ Begin(t, Head(conns))
      /\ UNCHANGED <<mode, need, body, link, toServer, toClient, hout, bufs>>
  BY DEF TakePooled, wireVars, handlerVars
<1>2. conns \in Seq(Sockets)
  BY DEF Types, PoolTypes
<1>3. PICK c \in Sockets : c = conns[1] /\ c = Head(conns)
  BY <1>1, <1>2, TailFacts
<1>4. /\ Len(conns) \in Nat \ {0}
      /\ \A n \in 1 .. Len(conns') : conns'[n] = conns[n + 1] /\ n + 1 \in 1 .. Len(conns) /\ n + 1 # 1
  BY <1>1, <1>2, TailFacts
<1>5. 1 \in 1 .. Len(conns)
  BY <1>4
<1>6. Idle(mode, link[c], toServer[c], toClient[c], hout[c])
  BY <1>3, <1>5 DEF FlowInv
<1>7. toServer[c] \in Seq(0 .. 15) /\ toClient[c] \in Seq(Cells) /\ hout[c] \in Seq(Cells)
  BY WireValues
<1>8. ThreadGood(t)' /\ \A u \in Threads : u # t => ThreadSame(u)
  BY <1>1, <1>3, <1>6, <1>7, BeginGood
<1>9. \A u \in Threads : tconn[u] # c
  BY <1>3, <1>5 DEF Apart
<1>10. \A n \in 1 .. Len(conns') : conns'[n] # c /\ \E m \in 1 .. Len(conns) : conns'[n] = conns[m]
  BY <1>3, <1>4, <1>5 DEF Apart
<1>11. \A d \in Sockets : ConnSame(d)
  BY <1>1 DEF ConnSame
<1>12. mode' = mode /\ bufs \subseteq bufs'
  BY <1>1
<1>13. QED
  BY <1>8, <1>9, <1>10, <1>11, <1>12, ThreadMove

(* A Get dials: nothing is under way on a new connection. *)
LEMMA DialFlow ==
  ASSUME Types, Dialed, FlowInv, NEW t \in Threads, Dial(t)
  PROVE  FlowInv'
<1>1. Free # {} /\ open
  BY DEF Dial, Dialed
<1>2. PICK c \in Sockets : c = NewConn /\ c \in Free
  BY <1>1, NewConnFacts
<1>3. PICK e : e = <<>>
  OBVIOUS
<1>4. e \in Seq(0 .. 15) /\ e \in Seq(Cells) /\ Len(e) = 0
  BY <1>3
<1>5. /\ Accept(c, "up") /\ Begin(t, c) /\ UNCHANGED <<mode, need, body, conns, hout, bufs>>
      /\ toServer' = [toServer EXCEPT ![c] = e] /\ toClient' = [toClient EXCEPT ![c] = e]
  BY <1>2, <1>3 DEF Dial
<1>6. link' = [link EXCEPT ![c] = "up"]
  BY <1>5 DEF Accept
<1>7. hout[c] = e
  <2>1. hpc[c] = "off"
    BY <1>2 DEF Free, Types, Unborn
  <2>2. QED
    BY <1>3, <2>1 DEF Types, HandlerTypes
<1>8. link'[c] = "up" /\ toServer'[c] = e /\ toClient'[c] = e /\ hout'[c] = e /\ \A d \in Sockets : d # c => ConnSame(d)
  BY <1>5, <1>6, <1>7 DEF ConnSame, Types, WireTypes, HandlerTypes
<1>9. Idle(mode, "up", e, e, e)
  BY <1>3, <1>4 DEF Idle
<1>10. ThreadGood(t)' /\ \A u \in Threads : u # t => ThreadSame(u)
  BY <1>4, <1>5, <1>8, <1>9, BeginGood
<1>11. /\ \A n \in 1 .. Len(conns) : conns[n] # c
       /\ \A u \in Threads : tconn[u] # c
  BY <1>1, <1>2, NewConnApart
<1>12. mode' = mode /\ bufs \subseteq bufs' /\ conns' = conns
  BY <1>5
<1>13. \A n \in 1 .. Len(conns') : conns'[n] # c /\ \E m \in 1 .. Len(conns) : conns'[n] = conns[m]
  BY <1>11, <1>12
<1>14. QED
  BY <1>8, <1>10, <1>11, <1>12, <1>13, ThreadMove

(* A connection without a stream is nobody's. *)
LEMMA OpenStreamFlow ==
  ASSUME Types, Dialed, FlowInv, NEW t \in Threads, OpenStreamFails(t)
  PROVE  FlowInv'
<1>1. Free # {} /\ open
  BY DEF OpenStreamFails, Dialed
<1>2. PICK c \in Sockets : c = NewConn /\ c \in Free
  BY <1>1, NewConnFacts
<1>3. /\ link' = [link EXCEPT ![c] = "reset"] /\ Leave(t, "stopped")
      /\ UNCHANGED <<mode, tconn, conns, toServer, toClient, hout, bufs>>
  BY <1>2 DEF OpenStreamFails, Accept
<1>4. \A d \in Sockets : d # c => ConnSame(d)
  BY <1>3 DEF ConnSame, Types, WireTypes
<1>5. tconn' = [tconn EXCEPT ![t] = tconn[t]]
  BY <1>3, ThreadValues DEF Types
<1>6. ThreadGood(t)' /\ \A u \in Threads : u # t => ThreadSame(u)
  BY <1>3, <1>5, LeaveGood
<1>7. /\ \A n \in 1 .. Len(conns) : conns[n] # c
      /\ \A u \in Threads : tconn[u] # c
  BY <1>1, <1>2, NewConnApart
<1>8. mode' = mode /\ bufs \subseteq bufs' /\ conns' = conns
  BY <1>3
<1>9. \A n \in 1 .. Len(conns') : conns'[n] # c /\ \E m \in 1 .. Len(conns) : conns'[n] = conns[m]
  BY <1>7, <1>8
<1>10. QED
  BY <1>4, <1>6, <1>7, <1>8, <1>9, ThreadMove

(* A thread that is in no Get, or whose Get fails. *)
LEMMA OutsideFlow ==
  ASSUME Types, FlowInv, NEW t \in Threads,
         PoolEmpty(t) \/ Lock(t) \/ DialFails(t) \/ IOFails(t)
  PROVE  FlowInv'
<1>1. UNCHANGED <<mode, bufs, conns, link, toServer, toClient, hout, tconn>>
  BY DEF PoolEmpty, Lock, DialFails, IOFails, wireVars, handlerVars
<1>2. CASE PoolEmpty(t) \/ Lock(t)
  <2>1. PICK p \in {"lock", "dial"} : tpc' = [tpc EXCEPT ![t] = p]
    BY <1>2 DEF PoolEmpty, Lock, Goto
  <2>2. tpc'[t] = p /\ ~Active(p)
    BY <2>1 DEF Types, ThreadTypes, Active
  <2>3. ThreadGood(t)'
    BY <2>2 DEF ThreadGood, Good
  <2>4. UNCHANGED <<cmd, tconn, left, need, body>>
    BY <1>2 DEF PoolEmpty, Lock
  <2>5. \A u \in Threads : u # t => ThreadSame(u)
    BY <2>1, <2>4 DEF ThreadSame, Types, ThreadTypes
  <2>6. QED
    BY <1>1, <2>3, <2>5, StillMove
<1>3. CASE DialFails(t) \/ IOFails(t)
  <2>1. Leave(t, "stopped")
    BY <1>3 DEF DialFails, IOFails
  <2>2. tconn' = [tconn EXCEPT ![t] = tconn[t]]
    BY <1>1, ThreadValues DEF Types
  <2>3. ThreadGood(t)' /\ \A u \in Threads : u # t => ThreadSame(u)
    BY <2>1, <2>2, LeaveGood
  <2>4. QED
    BY <1>1, <2>3, StillMove
<1>4. QED
  BY <1>2, <1>3

(* A request is written: one response more is due. *)
LEMMA WriteRequestFlow ==
  ASSUME Types, Apart, FlowInv, NEW t \in Threads, WriteRequest(t)
  PROVE  FlowInv'
<1>1. tpc[t] = "write" /\ Active(tpc[t])
  BY DEF WriteRequest, Active
<1>2. PICK c \in Sockets : c = tconn[t]
  BY <1>1, OwnFacts
<1>3. PICK k \in 0 .. 15 : k = cmd[t]
  BY <1>1, OwnFacts
<1>4. PICK l \in Nat \ {0} : l = left[t]
  BY <1>1, OwnFacts
<1>5. mode \in Transports
  BY DEF Types, PoolTypes
<1>6. PICK R \in Nat \ {0} : R = Reqs(mode) /\ R = Get.requests
  BY <1>5, ReqsFacts, BatchFits
<1>7. (Get.framed <=> Framed(mode)) /\ (~Framed(mode) => R = 1)
  BY <1>5, <1>6, ReqsFacts
<1>8. PICK ts \in Seq(0 .. 15), tc \in Seq(Cells), ho \in Seq(Cells) :
        ts = toServer[c] /\ tc = toClient[c] /\ ho = hout[c]
  BY <1>2, WireValues
<1>9. l <= R
  BY <1>1, <1>4, <1>6, OwnFacts
<1>10. PICK m \in Nat : m = R - l
  BY <1>9
<1>11. Flow(mode, bufs, k, m, 0, link[c], ts, tc, ho)
  <2>1. Due(mode, "write", left[t]) = m /\ Off(mode, "write", body[t]) = 0
    BY <1>4, <1>6, <1>10 DEF Due, Off
  <2>2. QED
    BY <1>1, <1>2, <1>3, <1>8, <2>1, OwnFacts
<1>12. ~Framed(mode) => m = 0
  BY <1>7, <1>9, <1>10
<1>13. PICK l2 : l2 = IF l = 1 THEN R ELSE l - 1
  OBVIOUS
<1>14. PICK p : p = IF l # 1 THEN "write" ELSE IF Framed(mode) THEN "header" ELSE "body"
  OBVIOUS
<1>15. PICK n : n = IF Framed(mode) THEN 0 ELSE GetSize(k)
  OBVIOUS
<1>16. PICK e : e = <<>>
  OBVIOUS
<1>17. /\ UNCHANGED <<mode, bufs, tconn, conns, cmd, toClient, hout>>
       /\ tpc' = [tpc EXCEPT ![t] = p] /\ left' = [left EXCEPT ![t] = l2]
       /\ need' = [need EXCEPT ![t] = n] /\ body' = [body EXCEPT ![t] = e]
  <2>1. UNCHANGED <<mode, bufs, tconn, conns, cmd, toClient, hout>>
    BY DEF WriteRequest, handlerVars
  <2>2. tpc' = [tpc EXCEPT ![t] = p]
    BY <1>4, <1>7, <1>14 DEF WriteRequest, Goto
  <2>3. left' = [left EXCEPT ![t] = l2]
    BY <1>4, <1>6, <1>13 DEF WriteRequest
  <2>4. need' = [need EXCEPT ![t] = n] /\ body' = [body EXCEPT ![t] = e]
    BY <1>3, <1>7, <1>15, <1>16 DEF WriteRequest
  <2>5. QED
    BY <2>1, <2>2, <2>3, <2>4
<1>18. tpc'[t] = p /\ cmd'[t] = k /\ left'[t] = l2 /\ need'[t] = n /\ body'[t] = e
  BY <1>3, <1>17 DEF Types, ThreadTypes
<1>19. \A u \in Threads : u # t => ThreadSame(u)
  BY <1>17 DEF ThreadSame, Types, ThreadTypes
<1>20. Flow(mode, bufs, k, m + 1, 0, link'[c], toServer'[c], tc, ho) /\ \A d \in Sockets : d # c => ConnSame(d)
  <2>1. CASE link[c] = "up" /\ link' = link /\ toServer' = [toServer EXCEPT ![c] = Append(ts, k)]
    <3>1. toServer'[c] = Append(ts, k) /\ link'[c] = "up" /\ \A d \in Sockets : d # c => ConnSame(d)
      BY <1>17, <2>1 DEF ConnSame, Types, WireTypes
    <3>2. Flow(mode, bufs, k, m, 0, "up", ts, tc, ho)
      BY <1>11, <2>1
    <3>3. Flow(mode, bufs, k, m + 1, 0, "up", Append(ts, k), tc, ho)
      BY <1>5, <1>12, <3>2, FlowRequest
    <3>4. QED
      BY <3>1, <3>3
  <2>2. CASE link' = [link EXCEPT ![c] = "reset"] /\ toServer' = toServer
    <3>1. toServer'[c] = ts /\ link'[c] = "reset" /\ \A d \in Sockets : d # c => ConnSame(d)
      BY <1>8, <1>17, <2>2 DEF ConnSame, Types, WireTypes
    <3>2. "reset" # "up"
      OBVIOUS
    <3>3. Flow(mode, bufs, k, m + 1, 0, "reset", ts, tc, ho)
      BY <1>5, <1>11, <3>2, FlowUnheard
    <3>4. QED
      BY <3>1, <3>3
  <2>3. QED
    BY <1>2, <1>3, <1>8, <2>1, <2>2 DEF WriteRequest
<1>21. Due(mode, p, l2) = m + 1 /\ Off(mode, p, e) = 0
  <2>1. CASE l # 1
    <3>1. p = "write" /\ l2 = l - 1
      BY <1>13, <1>14, <2>1
    <3>2. R - l2 = m + 1
      BY <1>10, <3>1
    <3>3. QED
      BY <1>6, <3>1, <3>2 DEF Due, Off
  <2>2. CASE l = 1
    <3>1. p \in {"header", "body"} /\ l2 = R /\ m + 1 = R /\ (p = "body" => ~Framed(mode))
      BY <1>10, <1>13, <1>14, <2>2
    <3>2. Len(e) = 0
      BY <1>16
    <3>3. QED
      BY <3>1, <3>2 DEF Due, Off
  <2>3. QED
    BY <2>1, <2>2
<1>22. Reading(mode, bufs, p, k, l2, n, e)
  <2>1. p \in {"write", "header", "body"} /\ (p = "header" => Framed(mode)) /\ (p = "body" => ~Framed(mode))
    BY <1>14
  <2>2. l2 <= R
    BY <1>9, <1>13
  <2>3. p = "body" => n = Announced(mode, k)
    BY <1>15, <2>1 DEF Announced
  <2>4. ReadSoFar(mode, bufs, k, e)
    BY <1>16 DEF ReadSoFar
  <2>5. QED
    BY <1>6, <2>1, <2>2, <2>3, <2>4 DEF Reading
<1>23. toClient'[c] = tc /\ hout'[c] = ho
  BY <1>8, <1>17
<1>24. Good(mode, bufs, p, k, l2, n, e, link'[c], toServer'[c], toClient'[c], hout'[c])
  BY <1>20, <1>21, <1>22, <1>23 DEF Good
<1>25. QED
  BY <1>2, <1>17, <1>18, <1>19, <1>20, <1>24, OwnMove

(* A piece is taken from the connection. *)
LEMMA ConsumeFacts ==
  ASSUME Types, NEW c \in Sockets, Consume(c), UNCHANGED <<link, toServer, hout>>
  PROVE  /\ toClient[c] # <<>> /\ toClient'[c] = Tail(toClient[c])
         /\ \A d \in Sockets : d # c => ConnSame(d)
<1>1. toClient[c] # <<>> /\ toClient' = [toClient EXCEPT ![c] = Tail(toClient[c])]
  BY DEF Consume
<1>2. QED
  BY <1>1 DEF ConnSame, Types, WireTypes

(* What is read first is the header, and its length is the block's. *)
LEMMA ReadHeaderFlow ==
  ASSUME Types, Apart, FlowInv, NEW t \in Threads, ReadHeader(t)
  PROVE  FlowInv'
<1>1. tpc[t] = "header" /\ Active(tpc[t])
  BY DEF ReadHeader, Active
<1>2. PICK c \in Sockets : c = tconn[t]
  BY <1>1, OwnFacts
<1>3. PICK k \in 0 .. 15 : k = cmd[t]
  BY <1>1, OwnFacts
<1>4. PICK m \in Nat : m = left[t]
  BY <1>1, OwnFacts
<1>5. mode \in Transports
  BY DEF Types, PoolTypes
<1>6. PICK ts \in Seq(0 .. 15), tc \in Seq(Cells), ho \in Seq(Cells) :
        ts = toServer[c] /\ tc = toClient[c] /\ ho = hout[c]
  BY <1>2, WireValues
<1>7. Reading(mode, bufs, "header", k, m, need[t], body[t])
  BY <1>1, <1>3, <1>4, OwnFacts
<1>8. Framed(mode) /\ m <= Reqs(mode)
  BY <1>7 DEF Reading
<1>9. Flow(mode, bufs, k, m, 0, link[c], ts, tc, ho)
  <2>1. Due(mode, "header", left[t]) = m /\ Off(mode, "header", body[t]) = 0
    BY <1>4 DEF Due, Off
  <2>2. QED
    BY <1>1, <1>2, <1>3, <1>6, <2>1, OwnFacts
<1>10. PICK e : e = <<>>
  OBVIOUS
<1>11. PICK n : n = Head(toClient[tconn[t]])[2]
  OBVIOUS
<1>12. /\ UNCHANGED <<mode, bufs, tconn, conns, cmd, left, link, toServer, hout>> /\ Consume(c)
       /\ tpc' = [tpc EXCEPT ![t] = "body"] /\ need' = [need EXCEPT ![t] = n] /\ body' = [body EXCEPT ![t] = e]
  BY <1>2, <1>10, <1>11 DEF ReadHeader, Goto, handlerVars
<1>13. tpc'[t] = "body" /\ cmd'[t] = k /\ left'[t] = m /\ need'[t] = n /\ body'[t] = e
  BY <1>3, <1>4, <1>12 DEF Types, ThreadTypes
<1>14. \A u \in Threads : u # t => ThreadSame(u)
  BY <1>12 DEF ThreadSame, Types, ThreadTypes
<1>15. tc # <<>> /\ toClient'[c] = Tail(tc) /\ \A d \in Sockets : d # c => ConnSame(d)
  BY <1>6, <1>12, ConsumeFacts
<1>16. 0 < RespLen(mode, k)
  BY <1>5, <1>8, RespLenFacts
<1>17. /\ Flow(mode, bufs, k, m, 0 + 1, link[c], ts, Tail(tc), ho)
       /\ Piece(mode, bufs, k, 0, Head(tc))
  BY <1>5, <1>9, <1>15, <1>16, FlowRead
<1>18. n = Announced(mode, k)
  <2>1. CASE k \in Known
    <3>1. Head(tc) = <<"header", Pieces[k]>>
      BY <1>8, <1>17, <2>1 DEF Piece
    <3>2. n = Pieces[k]
      BY <1>2, <1>6, <1>11, <3>1
    <3>3. QED
      BY <2>1, <3>2 DEF Announced, GetSize
  <2>2. CASE k \notin Known
    <3>1. Head(tc) = <<"error", 1>>
      BY <1>8, <1>17, <2>2 DEF Piece
    <3>2. n = 1
      BY <1>2, <1>6, <1>11, <3>1
    <3>3. QED
      BY <1>8, <2>2, <3>2 DEF Announced
  <2>3. QED
    BY <2>1, <2>2
<1>19. Reading(mode, bufs, "body", k, m, n, e)
  <2>1. ReadSoFar(mode, bufs, k, e)
    BY <1>10 DEF ReadSoFar
  <2>2. QED
    BY <1>8, <1>18, <2>1 DEF Reading
<1>20. Due(mode, "body", m) = m /\ Off(mode, "body", e) = 0 + 1
  <2>1. Len(e) = 0
    BY <1>10
  <2>2. QED
    BY <1>8, <2>1 DEF Due, Off
<1>21. link'[c] = link[c] /\ toServer'[c] = ts /\ hout'[c] = ho
  BY <1>6, <1>12
<1>22. Good(mode, bufs, "body", k, m, n, e, link'[c], toServer'[c], toClient'[c], hout'[c])
  BY <1>15, <1>17, <1>19, <1>20, <1>21 DEF Good
<1>23. QED
  BY <1>2, <1>12, <1>13, <1>14, <1>15, <1>22, OwnMove

(* What is read next is the next piece of the block. *)
LEMMA ReadPieceFlow ==
  ASSUME Types, Apart, FlowInv, NEW t \in Threads, ReadPiece(t)
  PROVE  FlowInv'
<1>1. tpc[t] = "body" /\ Active(tpc[t])
  BY DEF ReadPiece, Active
<1>2. PICK c \in Sockets : c = tconn[t]
  BY <1>1, OwnFacts
<1>3. PICK k \in 0 .. 15 : k = cmd[t]
  BY <1>1, OwnFacts
<1>4. PICK m \in Nat : m = left[t]
  BY <1>1, OwnFacts
<1>5. mode \in Transports
  BY DEF Types, PoolTypes
<1>6. PICK ts \in Seq(0 .. 15), tc \in Seq(Cells), ho \in Seq(Cells) :
        ts = toServer[c] /\ tc = toClient[c] /\ ho = hout[c]
  BY <1>2, WireValues
<1>7. PICK bd \in Seq(Cells) : bd = body[t]
  BY <1>1, OwnFacts
<1>8. PICK n \in Nat : n = need[t]
  BY <1>1, OwnFacts
<1>9. Reading(mode, bufs, "body", k, m, n, bd)
  BY <1>1, <1>3, <1>4, <1>7, <1>8, OwnFacts
<1>10. n = Announced(mode, k) /\ ReadSoFar(mode, bufs, k, bd) /\ m <= Reqs(mode)
  BY <1>9 DEF Reading
<1>11. PICK off \in Nat : off = Off(mode, "body", bd)
  BY DEF Off
<1>12. Flow(mode, bufs, k, m, off, link[c], ts, tc, ho)
  <2>1. Due(mode, "body", left[t]) = m
    BY <1>4 DEF Due
  <2>2. QED
    BY <1>1, <1>2, <1>3, <1>6, <1>7, <1>11, <2>1, OwnFacts
<1>13. /\ UNCHANGED <<mode, bufs, tconn, conns, tpc, cmd, left, need, link, toServer, hout>> /\ Consume(c)
       /\ body' = [body EXCEPT ![t] = Append(bd, Head(tc))] /\ Len(bd) < n
  BY <1>2, <1>6, <1>7, <1>8 DEF ReadPiece, handlerVars
<1>14. tc # <<>> /\ toClient'[c] = Tail(tc) /\ \A d \in Sockets : d # c => ConnSame(d)
  BY <1>6, <1>13, ConsumeFacts
<1>15. PICK x \in Cells : x = Head(tc)
  BY <1>14, TailFacts
<1>16. PICK b2 \in Seq(Cells) : b2 = Append(bd, x)
  BY AppendFacts
<1>17. tpc'[t] = "body" /\ cmd'[t] = k /\ left'[t] = m /\ need'[t] = n /\ body'[t] = b2
  BY <1>1, <1>3, <1>4, <1>8, <1>13, <1>15, <1>16 DEF Types, ThreadTypes
<1>18. \A u \in Threads : u # t => ThreadSame(u)
  BY <1>13 DEF ThreadSame, Types, ThreadTypes
<1>19. /\ Flow(mode, bufs, k, m, off + 1, link[c], ts, Tail(tc), ho)
       /\ off < RespLen(mode, k) => Piece(mode, bufs, k, off, x)
       /\ 1 + off <= RespLen(mode, k) * m
  BY <1>5, <1>12, <1>14, <1>15, FlowRead
<1>20. Len(bd) \in Nat /\ Len(b2) = Len(bd) + 1 /\ b2[Len(bd) + 1] = x /\ \A i \in 1 .. Len(bd) : b2[i] = bd[i]
  BY <1>16, AppendFacts
<1>21. off < RespLen(mode, k)
  <2>1. CASE ~Framed(mode)
    <3>1. off = Len(bd) /\ RespLen(mode, k) = GetSize(k) /\ n = GetSize(k)
      BY <1>5, <1>10, <1>11, <2>1, RespLenFacts DEF Off, Announced
    <3>2. QED
      BY <1>13, <3>1
  <2>2. CASE Framed(mode) /\ k \in Known
    <3>1. off = Len(bd) + 1 /\ RespLen(mode, k) = Pieces[k] + 1 /\ n = Pieces[k]
      BY <1>5, <1>10, <1>11, <2>2, RespLenFacts DEF Off, Announced
    <3>2. QED
      BY <1>13, <1>20, <3>1
  <2>3. CASE Framed(mode) /\ k \notin Known
    <3>1. off = Len(bd) + 1 /\ n = 1
      BY <1>10, <1>11, <2>3 DEF Off, Announced
    <3>2. off = 1
      BY <1>13, <1>20, <3>1
    <3>3. CASE mode # "gonet"
      <4>1. RespLen(mode, k) = 2
        BY <2>3, <3>3 DEF RespLen
      <4>2. QED
        BY <3>2, <4>1
    <3>4. CASE mode = "gonet"
      <4>1. RespLen(mode, k) = 1 /\ Reqs(mode) = 1
        BY <2>3, <3>4 DEF RespLen, Reqs
      <4>2. 1 + off <= 1 * m /\ m <= 1
        BY <1>10, <1>19, <4>1
      <4>3. QED
        BY <3>2, <4>2
    <3>5. QED
      BY <3>3, <3>4
  <2>4. QED
    BY <2>1, <2>2, <2>3
<1>22. ReadSoFar(mode, bufs, k, b2)
  <2>1. off = IF Framed(mode) THEN Len(bd) + 1 ELSE (Len(bd) + 1) - 1
    BY <1>11, <1>20 DEF Off
  <2>2. ASSUME NEW i \in 1 .. Len(b2) PROVE Piece(mode, bufs, k, IF Framed(mode) THEN i ELSE i - 1, b2[i])
    <3>1. CASE i \in 1 .. Len(bd)
      <4>1. Piece(mode, bufs, k, IF Framed(mode) THEN i ELSE i - 1, bd[i])
        BY <1>10, <3>1 DEF ReadSoFar
      <4>2. QED
        BY <1>20, <3>1, <4>1
    <3>2. CASE i = Len(bd) + 1
      <4>1. off = IF Framed(mode) THEN i ELSE i - 1
        BY <2>1, <3>2
      <4>2. Piece(mode, bufs, k, off, b2[i])
        BY <1>19, <1>20, <1>21, <3>2
      <4>3. QED
        BY <4>1, <4>2
    <3>3. QED
      BY <1>20, <2>2, <3>1, <3>2
  <2>3. QED
    BY <2>2 DEF ReadSoFar
<1>23. Reading(mode, bufs, "body", k, m, n, b2)
  BY <1>10, <1>22 DEF Reading
<1>24. Due(mode, "body", m) = m /\ Off(mode, "body", b2) = off + 1
  BY <1>11, <1>20 DEF Due, Off
<1>25. link'[c] = link[c] /\ toServer'[c] = ts /\ hout'[c] = ho
  BY <1>6, <1>13
<1>26. Good(mode, bufs, "body", k, m, n, b2, link'[c], toServer'[c], toClient'[c], hout'[c])
  BY <1>14, <1>19, <1>23, <1>24, <1>25 DEF Good
<1>27. QED
  BY <1>2, <1>13, <1>14, <1>17, <1>18, <1>26, OwnMove

(* A response ends where the next one begins; an error ends the Get. *)
LEMMA ResponseReadFlow ==
  ASSUME Types, Apart, FlowInv, NEW t \in Threads, ResponseRead(t)
  PROVE  FlowInv'
<1> USE DEF wireVars, handlerVars
<1>1. tpc[t] = "body" /\ Active(tpc[t]) /\ Len(body[t]) = need[t]
  BY DEF ResponseRead, Active
<1>2. UNCHANGED <<mode, bufs, tconn, conns, link, toServer, toClient, hout>>
  BY DEF ResponseRead
<1>3. CASE IsError(t) /\ Leave(t, "stopped")
  <2>1. tconn' = [tconn EXCEPT ![t] = tconn[t]]
    BY <1>2, ThreadValues DEF Types
  <2>2. ThreadGood(t)' /\ \A u \in Threads : u # t => ThreadSame(u)
    BY <1>3, <2>1, LeaveGood
  <2>3. QED
    BY <1>2, <2>2, StillMove
<1>4. CASE /\ ~IsError(t) /\ Goto(t, IF left[t] > 1 THEN "header" ELSE "put")
           /\ left' = [left EXCEPT ![t] = @ - 1] /\ UNCHANGED <<cmd, need, body>>
  <2>1. PICK c \in Sockets : c = tconn[t]
    BY <1>1, OwnFacts
  <2>2. PICK k \in 0 .. 15 : k = cmd[t]
    BY <1>1, OwnFacts
  <2>3. PICK m \in Nat \ {0} : m = left[t]
    BY <1>1, OwnFacts
  <2>4. mode \in Transports
    BY DEF Types, PoolTypes
  <2>5. PICK ts \in Seq(0 .. 15), tc \in Seq(Cells), ho \in Seq(Cells) :
          ts = toServer[c] /\ tc = toClient[c] /\ ho = hout[c]
    BY <2>1, WireValues
  <2>6. PICK bd \in Seq(Cells) : bd = body[t]
    BY <1>1, OwnFacts
  <2>7. PICK n \in Nat : n = need[t]
    BY <1>1, OwnFacts
  <2>8. Reading(mode, bufs, "body", k, m, n, bd)
    BY <1>1, <2>2, <2>3, <2>6, <2>7, OwnFacts
  <2>9. n = Announced(mode, k) /\ ReadSoFar(mode, bufs, k, bd) /\ m <= Reqs(mode) /\ Len(bd) = n
    BY <1>1, <2>6, <2>7, <2>8 DEF Reading
  <2>10. Flow(mode, bufs, k, m, Off(mode, "body", bd), link[c], ts, tc, ho)
    <3>1. Due(mode, "body", left[t]) = m
      BY <2>3 DEF Due
    <3>2. QED
      BY <1>1, <2>1, <2>2, <2>5, <2>6, <3>1, OwnFacts
  <2>11. Framed(mode) => k \in Known
    <3>1. SUFFICES ASSUME Framed(mode), k \notin Known PROVE FALSE
      OBVIOUS
    <3>2. Len(bd) = 1
      BY <2>9, <3>1 DEF Announced
    <3>3. 1 \in 1 .. Len(bd)
      BY <3>2
    <3>4. Piece(mode, bufs, k, 1, bd[1])
      BY <2>9, <3>1, <3>3 DEF ReadSoFar
    <3>5. bd[1] = <<"message", k>>
      BY <3>1, <3>4 DEF Piece
    <3>6. bd[1][1] = "message"
      BY <3>5
    <3>7. 1 \in DOMAIN body[t] /\ body[t][1][1] = "message"
      BY <2>6, <3>3, <3>6
    <3>8. Get.framed
      BY <2>4, <3>1, ReqsFacts
    <3>9. QED
      BY <1>4, <3>7, <3>8 DEF IsError
  <2>12. Off(mode, "body", bd) = RespLen(mode, k)
    <3>1. CASE Framed(mode)
      <4>1. k \in Known
        BY <2>11, <3>1
      <4>2. Len(bd) = Pieces[k] /\ RespLen(mode, k) = Pieces[k] + 1
        BY <2>4, <2>9, <3>1, <4>1, RespLenFacts DEF Announced
      <4>3. QED
        BY <3>1, <4>2 DEF Off
    <3>2. CASE ~Framed(mode)
      <4>1. Len(bd) = GetSize(k) /\ RespLen(mode, k) = GetSize(k)
        BY <2>4, <2>9, <3>2, RespLenFacts DEF Announced
      <4>2. QED
        BY <3>2, <4>1 DEF Off
    <3>3. QED
      BY <3>1, <3>2
  <2>13. Flow(mode, bufs, k, m - 1, 0, link[c], ts, tc, ho)
    <3>1. Flow(mode, bufs, k, m, RespLen(mode, k), link[c], ts, tc, ho)
      BY <2>10, <2>12
    <3>2. PICK lk : lk = link[c]
      OBVIOUS
    <3>3. Flow(mode, bufs, k, m - 1, 0, lk, ts, tc, ho)
      BY <2>4, <3>1, <3>2, FlowNext
    <3>4. QED
      BY <3>2, <3>3
  <2>14. PICK p : p = IF m > 1 THEN "header" ELSE "put"
    OBVIOUS
  <2>15. tpc' = [tpc EXCEPT ![t] = p] /\ left' = [left EXCEPT ![t] = m - 1]
    BY <1>4, <2>3, <2>14 DEF Goto
  <2>16. tpc'[t] = p /\ cmd'[t] = k /\ left'[t] = m - 1 /\ need'[t] = n /\ body'[t] = bd
    BY <1>4, <2>2, <2>6, <2>7, <2>15 DEF Types, ThreadTypes
  <2>17. \A u \in Threads : u # t => ThreadSame(u)
    BY <1>2, <1>4, <2>15 DEF ThreadSame, Types, ThreadTypes
  <2>18. \A d \in Sockets : ConnSame(d)
    BY <1>2 DEF ConnSame
  <2>19. Due(mode, p, m - 1) = m - 1 /\ Off(mode, p, bd) = 0
    <3>1. CASE m > 1
      BY <2>14, <3>1 DEF Due, Off
    <3>2. CASE m = 1
      BY <2>14, <3>2 DEF Due, Off
    <3>3. QED
      BY <3>1, <3>2
  <2>20. Reading(mode, bufs, p, k, m - 1, n, bd)
    <3>1. p \in {"header", "put"} /\ (p = "header" => m > 1)
      BY <2>14
    <3>2. Reqs(mode) \in Nat /\ (~Framed(mode) => Reqs(mode) = 1)
      BY <2>4, ReqsFacts, BatchFits
    <3>3. (p = "header" => Framed(mode)) /\ m - 1 <= Reqs(mode)
      BY <2>9, <3>1, <3>2
    <3>4. QED
      BY <2>9, <2>11, <3>1, <3>3 DEF Reading
  <2>21. link'[c] = link[c] /\ toServer'[c] = ts /\ toClient'[c] = tc /\ hout'[c] = ho
    BY <1>2, <2>5
  <2>22. Good(mode, bufs, p, k, m - 1, n, bd, link'[c], toServer'[c], toClient'[c], hout'[c])
    BY <2>13, <2>19, <2>20, <2>21 DEF Good
  <2>23. QED
    BY <1>2, <2>1, <2>16, <2>17, <2>18, <2>22, OwnMove
<1>5. QED
  BY <1>3, <1>4 DEF ResponseRead

(* A connection is returned when nothing is due on it. *)
LEMMA PutFlow ==
  ASSUME Types, Apart, FlowInv, NEW t \in Threads, Put(t)
  PROVE  FlowInv'
<1> USE DEF wireVars, handlerVars
<1>1. tpc[t] = "put" /\ Active(tpc[t])
  BY DEF Put, Active
<1>2. PICK c \in Sockets : c = tconn[t]
  BY <1>1, OwnFacts
<1>3. PICK k \in 0 .. 15 : k = cmd[t]
  BY <1>1, OwnFacts
<1>4. PICK ts \in Seq(0 .. 15), tc \in Seq(Cells), ho \in Seq(Cells) :
        ts = toServer[c] /\ tc = toClient[c] /\ ho = hout[c]
  BY <1>2, WireValues
<1>5. mode \in Transports /\ conns \in Seq(Sockets)
  BY DEF Types, PoolTypes
<1>6. Idle(mode, link[c], ts, tc, ho)
  <2>1. Due(mode, "put", left[t]) = 0 /\ Off(mode, "put", body[t]) = 0
    BY DEF Due, Off
  <2>2. PICK lk : lk = link[c]
    OBVIOUS
  <2>3. Flow(mode, bufs, k, 0, 0, lk, ts, tc, ho)
    BY <1>1, <1>2, <1>3, <1>4, <2>1, <2>2, OwnFacts
  <2>4. QED
    BY <1>5, <2>2, <2>3, FlowIdle
<1>7. /\ UNCHANGED <<mode, bufs, toServer, toClient, hout>> /\ Leave(t, "idle")
      /\ tconn' = [tconn EXCEPT ![t] = NoConn]
  BY DEF Put
<1>8. ThreadGood(t)' /\ \A u \in Threads : u # t => ThreadSame(u)
  BY <1>7, LeaveGood
<1>9. c # NoConn
  BY PoolAssumption
<1>10. \A u \in Threads : u # t => tconn[u] # c
  BY <1>2, <1>9 DEF Apart
<1>11. \A n \in 1 .. Len(conns) : conns[n] # c
  BY <1>2 DEF Apart
<1>12. mode' = mode /\ bufs \subseteq bufs'
  BY <1>7
<1>13. CASE conns' = Append(conns, c) /\ UNCHANGED link
  <2>1. \A d \in Sockets : ConnSame(d)
    BY <1>7, <1>13 DEF ConnSame
  <2>2. Idle(mode', link'[c], toServer'[c], toClient'[c], hout'[c])
    BY <1>4, <1>6, <1>7, <1>13
  <2>3. /\ Len(conns') = Len(conns) + 1 /\ Len(conns) \in Nat /\ conns'[Len(conns) + 1] = c
        /\ \A n \in 1 .. Len(conns) : conns'[n] = conns[n]
    BY <1>5, <1>13, AppendFacts
  <2>4. \A n \in 1 .. Len(conns') : n \in 1 .. Len(conns) \/ n = Len(conns) + 1
    BY <2>3
  <2>5. \A n \in 1 .. Len(conns') :
          conns'[n] = c \/ (conns'[n] # c /\ \E m \in 1 .. Len(conns) : conns'[n] = conns[m])
    BY <1>11, <2>3, <2>4
  <2>6. QED
    BY <1>8, <1>10, <1>12, <2>1, <2>2, <2>5, ThreadMove
<1>14. CASE conns' = conns /\ link' = [link EXCEPT ![c] = "closed"]
  <2>1. \A d \in Sockets : d # c => ConnSame(d)
    BY <1>7, <1>14 DEF ConnSame, Types, WireTypes
  <2>2. \A n \in 1 .. Len(conns') : conns'[n] # c /\ \E m \in 1 .. Len(conns) : conns'[n] = conns[m]
    BY <1>11, <1>14
  <2>3. QED
    BY <1>8, <1>10, <1>12, <2>1, <2>2, ThreadMove
<1>15. QED
  BY <1>2, <1>13, <1>14 DEF Put

(* Close ends all connections. *)
LEMMA CloseFlow ==
  ASSUME Types, FlowInv, Close
  PROVE  FlowInv'
<1>1. /\ \A t \in Threads : tpc[t] = "stopped"
      /\ UNCHANGED <<mode, tpc, conns>>
      /\ link' = [c \in Sockets |-> IF link[c] = "none" THEN "none" ELSE "closed"]
      /\ toClient' = [c \in Sockets |-> <<>>]
  BY DEF Close, threadVars
<1>2. \A t \in Threads : ThreadGood(t)'
  BY <1>1 DEF ThreadGood, Good, Active
<1>3. ASSUME NEW n \in 1 .. Len(conns)
      PROVE  Idle(mode', link'[conns[n]], toServer'[conns[n]], toClient'[conns[n]], hout'[conns[n]])
  <2>1. PICK c \in Sockets : c = conns[n]
    BY <1>3, PooledConn
  <2>2. link'[c] # "up" /\ toClient'[c] = <<>>
    BY <1>1
  <2>3. QED
    BY <2>1, <2>2 DEF Idle
<1>4. QED
  BY <1>1, <1>2, <1>3 DEF FlowInv

(* Every step keeps what is under way in order. *)
LEMMA NextFlow == Types /\ Types' /\ Apart /\ Dialed /\ FlowInv /\ [Next]_vars => FlowInv'
<1> SUFFICES ASSUME Types, Types', Apart, Dialed, FlowInv, [Next]_vars PROVE FlowInv'
  OBVIOUS
<1>1. CASE UNCHANGED vars
  <2>1. bufs \subseteq bufs' /\ UNCHANGED <<mode, tpc, cmd, tconn, left, need, body, conns, link, toServer, toClient, hout, bufs>>
    BY <1>1 DEF vars, threadVars, wireVars, handlerVars
  <2>2. \A c \in Sockets : Carries(c)
    BY <2>1 DEF Carries
  <2>3. QED
    BY <2>1, <2>2, WireMove
<1>2. ASSUME NEW t \in Threads, TakePooled(t) \/ PoolEmpty(t) \/ Lock(t) \/ ThreadNext(t) PROVE FlowInv'
  BY <1>2, TakePooledFlow, OutsideFlow, DialFlow, OpenStreamFlow, WriteRequestFlow, ReadHeaderFlow,
     ReadPieceFlow, ResponseReadFlow, PutFlow DEF ThreadNext
<1>3. ASSUME NEW c \in Sockets, HandlerNext(c) \/ NetBreaks(c) PROVE FlowInv'
  BY <1>3, HandlerFlow, BreakFlow
<1>4. CASE Close
  BY <1>4, CloseFlow
<1>5. QED
  BY <1>1, <1>2, <1>3, <1>4 DEF Next

-----------------------------------------------------------------------------
(* The results. *)

(* Nothing is pooled and nobody is engaged in the beginning. *)
LEMMA InitBound == Init => BoundInv
<1> SUFFICES ASSUME Init PROVE BoundInv
  OBVIOUS
<1>1. PICK S : S = Engaged
  OBVIOUS
<1>2. S \subseteq Threads
  BY <1>1 DEF Engaged
<1>3. Cardinality(S) <= NumThreads /\ Cardinality(S) \in Nat
  BY <1>2, ThreadSets
<1>4. Len(conns) = 0
  BY DEF Init
<1>5. QED
  BY <1>1, <1>3, <1>4 DEF BoundInv

(* The initial values have their types. *)
LEMMA InitTypes == Init => Types
<1> SUFFICES ASSUME Init PROVE Types
  OBVIOUS
<1>1. PICK e : e = <<>>
  OBVIOUS
<1>2. Len(e) = 0 /\ (\A S : e \in Seq(S))
  BY <1>1
<1>3. AnyCommand \in Commands
  <2>1. \E k \in Commands : TRUE
    BY PoolAssumption
  <2>2. QED
    BY <2>1, Zenon DEF AnyCommand
<1>4. ThreadTypes
  <2>1. /\ tpc = [t \in Threads |-> "idle"] /\ cmd = [t \in Threads |-> AnyCommand]
        /\ tconn = [t \in Threads |-> NoConn] /\ left = [t \in Threads |-> 0]
        /\ need = [t \in Threads |-> 0] /\ body = [t \in Threads |-> e]
    BY <1>1 DEF Init
  <2>2. BatchSize \in Nat /\ e \in Seq(Cells)
    BY <1>2, BatchFits
  <2>3. QED
    BY <1>2, <1>3, <2>1, <2>2 DEF ThreadTypes, Phase, PCs
<1>5. WireTypes
  <2>1. /\ link = [c \in Sockets |-> "none"]
        /\ toServer = [c \in Sockets |-> e] /\ toClient = [c \in Sockets |-> e]
    BY <1>1 DEF Init
  <2>2. SockReqs \in Nat /\ SockPieces \in Nat /\ e \in Seq(Cells) /\ e \in Seq(0 .. 15)
    BY <1>2, BatchFits, PoolAssumption
  <2>3. QED
    BY <1>2, <2>1, <2>2 DEF WireTypes
<1>6. HandlerTypes
  <2>1. /\ server = "up" /\ hpc = [c \in Sockets |-> "off"] /\ hout = [c \in Sockets |-> e]
        /\ hbuf = [c \in Sockets |-> 0] /\ bufs = {}
    BY <1>1 DEF Init
  <2>2. MaxPieces \in Nat /\ e \in Seq(Cells)
    BY <1>2, MaxPiecesFacts
  <2>3. QED
    BY <1>1, <2>1, <2>2 DEF HandlerTypes
<1>7. PoolTypes
  <2>1. mode \in Transports /\ conns = e /\ open = TRUE /\ faults = 0
    BY <1>1 DEF Init
  <2>2. Cons \in Nat /\ MaxFaults \in Nat /\ e \in Seq(Sockets)
    BY <1>2, PoolAssumption
  <2>3. QED
    BY <1>2, <2>1, <2>2 DEF PoolTypes
<1>8. Unborn
  BY DEF Init, Unborn
<1>9. QED
  BY <1>4, <1>5, <1>6, <1>7, <1>8 DEF Types

(* Every variable keeps its type: the channel holds at most Cons           *)
(* connections, a socket no more than its buffers take, and no Get reads   *)
(* more than its response announced, whatever the callers and the handlers *)
(* do and whichever connection breaks.                                     *)
THEOREM PoolTypesHold == Spec => []TypeOK
<1>1. Spec => []Types
  BY InitTypes, NextTypes, PTL DEF Spec
<1>2. QED
  BY <1>1, TypesImply, PTL

(* A client has at most one connection per thread: getConn's check of the  *)
(* empty channel and the dial that follows it are separate steps, and the  *)
(* threads between them still count no more than those without one.        *)
THEOREM ConnsAreBounded == Spec => []ConnsBounded
<1>1. Spec => [](Types /\ BoundInv)
  BY InitTypes, InitBound, NextTypes, NextBound, PTL DEF Spec
<1>2. QED
  BY <1>1, BoundImplies, PTL

(* Nothing is under way in the beginning. *)
LEMMA InitFlow == Init => Apart /\ Dialed /\ FlowInv
<1> SUFFICES ASSUME Init PROVE Apart /\ Dialed /\ FlowInv
  OBVIOUS
<1>1. Len(conns) = 0 /\ open = TRUE /\ \A t \in Threads : tconn[t] = NoConn /\ tpc[t] = "idle"
  BY DEF Init
<1>2. Apart /\ Dialed
  <2>1. \A n \in 1 .. Len(conns) : FALSE
    BY <1>1
  <2>2. Apart
    BY <1>1, <2>1 DEF Apart
  <2>3. Dialed
    BY <1>1, <2>1 DEF Dialed
  <2>4. QED
    BY <2>2, <2>3
<1>3. FlowInv
  BY <1>1 DEF FlowInv, ThreadGood, Good, Active
<1>4. QED
  BY <1>2, <1>3

(* The inductive invariant of the two results that follow. *)
LEMMA FlowHolds == Spec => [](Types /\ Apart /\ Dialed /\ FlowInv)
<1>1. Init => Types /\ Apart /\ Dialed /\ FlowInv
  BY InitTypes, InitFlow
<1>2. Types /\ Apart /\ Dialed /\ FlowInv /\ [Next]_vars => Types' /\ Apart' /\ Dialed' /\ FlowInv'
  BY NextTypes, NextApart, NextFlow
<1>3. QED
  BY <1>1, <1>2, PTL DEF Spec

(* withConn hands out a connection that nobody else has and on which       *)
(* nothing is under way: no request is unanswered and no byte unread from  *)
(* whatever Get used it before, for any number of threads and connections, *)
(* any batch and any blocks, whichever connections break or servers die.   *)
THEOREM PooledAreClean == Spec => []PooledClean
<1>1. Types /\ Apart /\ Dialed /\ FlowInv => PooledClean
  <2> SUFFICES ASSUME Types, Apart, FlowInv PROVE PooledClean
    OBVIOUS
  <2>2. conns \in Seq(Sockets) /\ mode \in Transports
    BY DEF Types, PoolTypes
  <2>3. DOMAIN conns = 1 .. Len(conns)
    BY <2>2
  <2>4. IsInjective(conns)
    BY <2>3 DEF IsInjective, Apart
  <2>5. ASSUME NEW c \in Range(conns)
        PROVE  /\ \A t \in Threads : tconn[t] # c
               /\ link[c] = "up" => /\ toClient[c] = <<>> /\ hout[c] = <<>>
                                    /\ \A i \in DOMAIN toServer[c] : ~Get.framed /\ toServer[c][i] \notin Known
    <3>1. PICK n \in 1 .. Len(conns) : c = conns[n]
      BY <2>3, <2>5 DEF Range
    <3>2. c \in Sockets
      BY <3>1, PooledConn
    <3>3. Idle(mode, link[c], toServer[c], toClient[c], hout[c])
      BY <3>1 DEF FlowInv
    <3>4. toServer[c] \in Seq(0 .. 15)
      BY <3>2, WireValues
    <3>5. DOMAIN toServer[c] = 1 .. Len(toServer[c])
      BY <3>4
    <3>6. Get.framed <=> Framed(mode)
      BY <2>2, ReqsFacts
    <3>7. QED
      BY <3>1, <3>3, <3>5, <3>6 DEF Idle, Apart
  <2>6. QED
    BY <2>4, <2>5 DEF PooledClean
<1>2. QED
  BY FlowHolds, <1>1, PTL

(* A Get that succeeds has read the block of its own command, whole and in *)
(* order, although connections change hands, batches pipeline requests and *)
(* gonet recycles its buffers.                                             *)
THEOREM GetsReturnTheirBlocks == Spec => []GetReturnsItsBlock
<1>1. Types /\ Apart /\ Dialed /\ FlowInv => GetReturnsItsBlock
  <2> SUFFICES ASSUME Types, FlowInv, NEW t \in Threads, tpc[t] = "put"
               PROVE  /\ Len(body[t]) = GetSize(cmd[t]) /\ (Get.framed => cmd[t] \in Known)
                      /\ \A i \in DOMAIN body[t] :
                           \/ body[t][i] = <<"data", cmd[t]>>
                           \/ mode = "gonet" /\ body[t][i] = <<"stale", i>> /\ \E n \in bufs : n < i
    BY DEF GetReturnsItsBlock
  <2>2. Active(tpc[t])
    BY DEF Active
  <2>3. Reading(mode, bufs, tpc[t], cmd[t], left[t], need[t], body[t]) /\ body[t] \in Seq(Cells)
    BY <2>2, OwnFacts
  <2>4. /\ need[t] = Announced(mode, cmd[t]) /\ ReadSoFar(mode, bufs, cmd[t], body[t])
        /\ Len(body[t]) = need[t] /\ (Framed(mode) => cmd[t] \in Known)
    BY <2>3 DEF Reading
  <2>5. Get.framed <=> Framed(mode)
    BY ReqsFacts DEF Types, PoolTypes
  <2>6. Len(body[t]) = GetSize(cmd[t])
    BY <2>4 DEF Announced
  <2>7. ASSUME NEW i \in DOMAIN body[t]
        PROVE  \/ body[t][i] = <<"data", cmd[t]>>
               \/ mode = "gonet" /\ body[t][i] = <<"stale", i>> /\ \E n \in bufs : n < i
    <3>1. i \in 1 .. Len(body[t])
      BY <2>3, <2>7
    <3>2. Piece(mode, bufs, cmd[t], IF Framed(mode) THEN i ELSE i - 1, body[t][i])
      BY <2>4, <3>1 DEF ReadSoFar
    <3>3. CASE Framed(mode)
      <4>1. Piece(mode, bufs, cmd[t], i, body[t][i]) /\ cmd[t] \in Known /\ i # 0
        BY <2>4, <3>1, <3>2, <3>3
      <4>2. QED
        BY <3>3, <4>1 DEF Piece
    <3>4. CASE ~Framed(mode)
      BY <3>2, <3>4 DEF Piece
    <3>5. QED
      BY <3>3, <3>4
  <2>8. QED
    BY <2>4, <2>5, <2>6, <2>7
<1>2. QED
  BY FlowHolds, <1>1, PTL
=============================================================================
