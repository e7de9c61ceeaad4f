-------------------------- MODULE IORPCServerProofs --------------------------
(***************************************************************************)
(* Proofs about the server of pkg/iorpc/server.go, for any number of       *)
(* connections, requests, worker goroutines, pooled messages and restarts. *)
(***************************************************************************)
EXTENDS IORPCServer, FiniteSetTheorems, TLAPS

(* How program counters and local variables go together: reader and worker *)
(* have a serverMessage exactly while they need one, and a worker knows    *)
(* the connection it answers to until it has given back its token.         *)
Phases ==
  /\ \A c \in Conns : s[c] \in {"off", "handshake"} => rd[c] = "off"
  /\ \A c \in Conns : rd[c] \in {"have", "wait"} <=> rm[c] # Nil
  /\ \A x \in Workers :
       /\ wpc[x] \in {"start", "push", "wait"} => wm[x] # Nil
       /\ wpc[x] \in {"idle", "release"} => wm[x] = Nil
       /\ wpc[x] # "idle" => wconn[x] # Nil

(* The goroutines with a token of the n-th workersCh. *)
Running(n) == {x \in Workers : wpc[x] # "idle" /\ wch[x] = n}

Tokens == \A n \in 1 .. MaxStarts :
  IsFiniteSet(Running(n)) /\ workersCh[n] = Cardinality(Running(n))

ServerInv == TypeOK /\ Phases /\ Tokens

(* A first element exists and can be taken off. *)
LEMMA HeadFacts ==
  ASSUME NEW S, NEW q \in Seq(S), q # <<>>
  PROVE  /\ Head(q) \in S /\ Tail(q) \in Seq(S) /\ Head(q) = q[1]
         /\ Len(q) \in Nat \ {0} /\ Len(Tail(q)) = Len(q) - 1
         /\ \A i \in 1 .. Len(q) - 1 : Tail(q)[i] = q[i + 1]
OBVIOUS

(* What a sequence is after an element was appended. *)
LEMMA AppendFacts ==
  ASSUME NEW S, NEW q \in Seq(S), NEW e \in S
  PROVE  /\ Append(q, e) \in Seq(S) /\ Len(Append(q, e)) = Len(q) + 1 /\ Len(q) \in Nat
         /\ \A i \in 1 .. Len(q) : Append(q, e)[i] = q[i]
         /\ Append(q, e)[Len(q) + 1] = e
OBVIOUS

(* A function keeps its type when a value of the type replaces another; an *)
(* argument outside its domain changes nothing.                            *)
LEMMA ExceptTypes ==
  ASSUME NEW S, NEW T, NEW f \in [S -> T], NEW i, NEW e, i \in S => e \in T
  PROVE  [f EXCEPT ![i] = e] \in [S -> T]
OBVIOUS

(* Before Start the server is well-typed and no token is out. *)
LEMMA ServerInit == Init => ServerInv
<1> SUFFICES ASSUME Init PROVE ServerInv
  OBVIOUS
<1>1. TypeOK
  BY RequestsAssumption, ServerSizes DEF Init, TypeOK, NoResponse, Responses
<1>2. Phases
  BY DEF Init, Phases
<1>3. ASSUME NEW n \in 1 .. MaxStarts PROVE Running(n) = {} /\ workersCh[n] = 0
  BY DEF Init, Running
<1>4. QED
  BY <1>1, <1>2, <1>3, FS_EmptySet DEF ServerInv, Tokens

(* Every step keeps the types; that a returned token leaves no negative    *)
(* count needs Tokens.                                                     *)
LEMMA NextTypes == ServerInv /\ [Next]_vars => TypeOK'
<1> SUFFICES ASSUME ServerInv, [Next]_vars PROVE TypeOK'
  OBVIOUS
<1> USE RequestsAssumption, NilAssumption, ServerSizes DEF server, message, worker, reader, writer, ServerInv, TypeOK
<1>1. CASE Start
  BY <1>1 DEF Start
<1>2. CASE StartFails
  BY <1>2 DEF StartFails
<1>3. CASE Stop
  BY <1>3 DEF Stop
<1>4. CASE StopReturns
  BY <1>4 DEF StopReturns
<1>5. CASE AcceptFails
  BY <1>5 DEF AcceptFails
<1>6. CASE AcceptAgain
  BY <1>6 DEF AcceptAgain
<1>7. CASE AcceptStops
  BY <1>7 DEF AcceptStops
<1>8. ASSUME NEW c \in Conns, Accept(c) PROVE TypeOK'
  BY <1>8 DEF Accept
<1>9. ASSUME NEW c \in Conns, Handshake(c) PROVE TypeOK'
  BY <1>9 DEF Handshake
<1>10. ASSUME NEW c \in Conns, HandshakeFails(c) PROVE TypeOK'
  BY <1>10 DEF HandshakeFails
<1>11. ASSUME NEW c \in Conns, ConnCloses(c) PROVE TypeOK'
  BY <1>11 DEF ConnCloses
<1>12. ASSUME NEW c \in Conns, ConnEnds(c) PROVE TypeOK'
  BY <1>12 DEF ConnEnds
<1>13. ASSUME NEW c \in Conns, ReaderDecodes(c) PROVE TypeOK'
  <2>1. Head(in[c]) \in Requests /\ Tail(in[c]) \in Seq(Requests)
    BY <1>13, HeadFacts DEF ReaderDecodes
  <2>2. in' \in [Conns -> Seq(Requests)]
    BY <1>13, <2>1 DEF ReaderDecodes
  <2>3. PICK m \in pool : /\ pool' = pool \ {m} /\ rm' = [rm EXCEPT ![c] = m]
                          /\ mID' = [mID EXCEPT ![m] = IDOf[Head(in[c])]]
                          /\ mRequest' = [mRequest EXCEPT ![m] = Head(in[c])]
    BY <1>13 DEF ReaderDecodes
  <2>4. /\ pool' \subseteq Messages /\ rm' \in [Conns -> Messages \cup {Nil}]
        /\ mID' \in [Messages -> Nat] /\ mRequest' \in [Messages -> Requests \cup {Nil}]
    BY <2>1, <2>3
  <2>5. QED
    BY <1>13, <2>2, <2>4 DEF ReaderDecodes
<1>14. ASSUME NEW c \in Conns, ReaderFails(c) \/ ReaderSpins(c) PROVE TypeOK'
  <2>1. PICK x \in {"done", "spin"} : rd' = [rd EXCEPT ![c] = x]
    BY <1>14 DEF ReaderFails, ReaderSpins
  <2>2. rd' \in [Conns -> {"off", "read", "have", "wait", "spin", "done"}]
    BY <2>1
  <2>3. UNCHANGED <<server, workersCh, errors, message, worker, s, link, unsent, in, rm, responses, writer>>
    BY <1>14 DEF ReaderFails, ReaderSpins
  <2>4. QED
    BY <2>2, <2>3
<1>15. ASSUME NEW c \in Conns, ReaderSpawns(c) PROVE TypeOK'
  <2>1. PICK x \in Workers : /\ wpc' = [wpc EXCEPT ![x] = "start"]
                             /\ wm' = [wm EXCEPT ![x] = rm[c]] /\ wconn' = [wconn EXCEPT ![x] = c]
                             /\ wch' = [wch EXCEPT ![x] = starts]
    BY <1>15 DEF ReaderSpawns
  <2>2. workersCh' \in [1 .. MaxStarts -> 0 .. Concurrency]
    <3>1. ASSUME NEW n \in 1 .. MaxStarts, n = starts PROVE workersCh[n] + 1 \in 0 .. Concurrency
      <4>1. workersCh[n] \in 0 .. Concurrency /\ workersCh[n] < Concurrency
        BY <1>15, <3>1 DEF ReaderSpawns
      <4>2. QED
        BY <4>1, SMTT(30)
    <3>2. workersCh' = [workersCh EXCEPT ![starts] = workersCh[starts] + 1]
      BY <1>15 DEF ReaderSpawns
    <3>3. QED
      BY <3>1, <3>2, ExceptTypes
  <2>3. /\ wpc' \in [Workers -> {"idle", "start", "handle", "push", "wait", "release"}]
        /\ wm' \in [Workers -> Messages \cup {Nil}] /\ wconn' \in [Workers -> Conns \cup {Nil}]
        /\ wch' \in [Workers -> 0 .. MaxStarts]
    BY <2>1
  <2>4. QED
    BY <1>15, <2>2, <2>3 DEF ReaderSpawns
<1>16. ASSUME NEW c \in Conns, ReaderWaits(c) PROVE TypeOK'
  BY <1>16 DEF ReaderWaits
<1>17. ASSUME NEW c \in Conns, ReaderStops(c) PROVE TypeOK'
  <2>1. rm[c] \in Messages
    BY <1>17 DEF ReaderStops, Phases
  <2>2. QED
    BY <1>17, <2>1 DEF ReaderStops
<1>18. ASSUME NEW c \in Conns, WriterTakes(c) PROVE TypeOK'
  <2> DEFINE m == Head(responses[c])
  <2>1. m \in Messages /\ Tail(responses[c]) \in Seq(Messages) /\ Len(Tail(responses[c])) <= PendingResponses
    BY <1>18, HeadFacts DEF WriterTakes
  <2>2. responses' \in [Conns -> Seq(Messages)] /\ \A d \in Conns : Len(responses'[d]) <= PendingResponses
    BY <1>18, <2>1 DEF WriterTakes
  <2>3. wrsp' \in [Conns -> Responses]
    BY <1>18, <2>1 DEF WriterTakes, Responses
  <2>4. QED
    BY <1>18, <2>1, <2>2, <2>3 DEF WriterTakes
<1>19. ASSUME NEW c \in Conns, WriterPolls(c) PROVE TypeOK'
  BY <1>19 DEF WriterPolls
<1>20. ASSUME NEW c \in Conns, WriterStops(c) PROVE TypeOK'
  BY <1>20 DEF WriterStops
<1>21. ASSUME NEW c \in Conns, WriterBuffers(c) PROVE TypeOK'
  <2>1. NoResponse \in Responses
    BY DEF NoResponse, Responses
  <2>2. buf' \in [Conns -> Seq(Responses)]
    BY <1>21, AppendFacts DEF WriterBuffers
  <2>3. QED
    BY <1>21, <2>1, <2>2 DEF WriterBuffers
<1>22. ASSUME NEW c \in Conns, WriterWrites(c) PROVE TypeOK'
  <2>1. NoResponse \in Responses
    BY DEF NoResponse, Responses
  <2>2. Append(buf[c], wrsp[c]) \in Seq(Responses)
    BY AppendFacts
  <2>3. out[c] \o Append(buf[c], wrsp[c]) \in Seq(Responses)
    BY <2>2
  <2>4. out' \in [Conns -> Seq(Responses)] /\ buf' \in [Conns -> Seq(Responses)] /\ wrsp' \in [Conns -> Responses]
    BY <1>22, <2>1, <2>3 DEF WriterWrites
  <2>5. QED
    BY <1>22, <2>4 DEF WriterWrites
<1>23. ASSUME NEW c \in Conns, WriterFails(c) PROVE TypeOK'
  <2>1. NoResponse \in Responses
    BY DEF NoResponse, Responses
  <2>2. QED
    BY <1>23, <2>1 DEF WriterFails
<1>24. ASSUME NEW c \in Conns, Disconnect(c) PROVE TypeOK'
  BY <1>24, SMTT(30) DEF Disconnect
<1>25. ASSUME NEW x \in Workers, WorkerStarts(x) PROVE TypeOK'
  <2>1. wm[x] \in Messages
    BY <1>25 DEF WorkerStarts, Phases
  <2>2. QED
    BY <1>25, <2>1 DEF WorkerStarts
<1>26. ASSUME NEW x \in Workers, WorkerHandles(x) PROVE TypeOK'
  BY <1>26, ZenonT(40) DEF WorkerHandles
<1>27. ASSUME NEW x \in Workers, WorkerPushes(x) PROVE TypeOK'
  <2>1. wm[x] \in Messages /\ wconn[x] \in Conns
    BY <1>27 DEF WorkerPushes, Phases
  <2>2. /\ Append(responses[wconn[x]], wm[x]) \in Seq(Messages)
        /\ Len(Append(responses[wconn[x]], wm[x])) <= PendingResponses
    BY <1>27, <2>1, AppendFacts DEF WorkerPushes, HasRoom
  <2>3. responses' \in [Conns -> Seq(Messages)] /\ \A c \in Conns : Len(responses'[c]) <= PendingResponses
    BY <1>27, <2>1, <2>2 DEF WorkerPushes
  <2>4. QED
    BY <1>27, <2>3 DEF WorkerPushes
<1>28. ASSUME NEW x \in Workers, WorkerWaits(x) PROVE TypeOK'
  BY <1>28 DEF WorkerWaits
<1>29. ASSUME NEW x \in Workers, WorkerGivesUp(x) PROVE TypeOK'
  <2>1. wm[x] \in Messages
    BY <1>29 DEF WorkerGivesUp, Phases
  <2>2. QED
    BY <1>29, <2>1 DEF WorkerGivesUp
<1>30. ASSUME NEW x \in Workers, WorkerReleases(x) PROVE TypeOK'
  <2>1. workersCh' \in [1 .. MaxStarts -> 0 .. Concurrency]
    <3>1. ASSUME wch[x] \in 1 .. MaxStarts PROVE workersCh[wch[x]] - 1 \in 0 .. Concurrency
      <4>1. x \in Running(wch[x])
        BY <1>30 DEF WorkerReleases, Running
      <4>2. IsFiniteSet(Running(wch[x])) /\ workersCh[wch[x]] = Cardinality(Running(wch[x]))
        BY <3>1 DEF Tokens
      <4>3. workersCh[wch[x]] # 0
        BY <4>1, <4>2, FS_EmptySet
      <4>4. workersCh[wch[x]] \in 0 .. Concurrency
        BY <3>1
      <4>5. QED
        BY <4>3, <4>4
    <3>2. workersCh' = [workersCh EXCEPT ![wch[x]] = workersCh[wch[x]] - 1]
      BY <1>30 DEF WorkerReleases
    <3>3. QED
      BY <3>1, <3>2, ExceptTypes
  <2>2. QED
    BY <1>30, <2>1 DEF WorkerReleases
<1>31. ASSUME NEW q \in Requests, ClientSends(q) PROVE TypeOK'
  <2>1. in' \in [Conns -> Seq(Requests)]
    BY <1>31, AppendFacts DEF ClientSends
  <2>2. QED
    BY <1>31, <2>1 DEF ClientSends
<1>32. CASE UNCHANGED vars
  BY <1>32 DEF vars
<1>33. QED
  BY <1>1, <1>2, <1>3, <1>4, <1>5, <1>6, <1>7, <1>8, <1>9, <1>10, <1>11, <1>12, <1>13, <1>14,
     <1>15, <1>16, <1>17, <1>18, <1>19, <1>20, <1>21, <1>22, <1>23, <1>24, <1>25, <1>26, <1>27,
     <1>28, <1>29, <1>30, <1>31, <1>32
     DEF Next, AcceptorNext, ConnNext, ReaderNext, WriterNext, WorkerNext, Finished

(* No step separates a goroutine's program counter from its locals. *)
LEMMA NextPhases == ServerInv /\ [Next]_vars => Phases'
<1> SUFFICES ASSUME ServerInv, [Next]_vars PROVE Phases'
  OBVIOUS
<1> USE NilAssumption DEF server, message, worker, reader, writer, ServerInv, TypeOK, Phases
<1>1. CASE Start
  BY <1>1 DEF Start
<1>2. CASE StartFails
  BY <1>2 DEF StartFails
<1>3. CASE Stop
  BY <1>3 DEF Stop
<1>4. CASE StopReturns
  BY <1>4 DEF StopReturns
<1>5. CASE AcceptFails
  BY <1>5 DEF AcceptFails
<1>6. CASE AcceptAgain
  BY <1>6 DEF AcceptAgain
<1>7. CASE AcceptStops
  BY <1>7 DEF AcceptStops
<1>8. ASSUME NEW c \in Conns, Accept(c) PROVE Phases'
  BY <1>8 DEF Accept
<1>9. ASSUME NEW c \in Conns, Handshake(c) PROVE Phases'
  BY <1>9 DEF Handshake
<1>10. ASSUME NEW c \in Conns, HandshakeFails(c) PROVE Phases'
  BY <1>10 DEF HandshakeFails
<1>11. ASSUME NEW c \in Conns, ConnCloses(c) PROVE Phases'
  BY <1>11 DEF ConnCloses
<1>12. ASSUME NEW c \in Conns, ConnEnds(c) PROVE Phases'
  BY <1>12 DEF ConnEnds
<1>13. ASSUME NEW c \in Conns, ReaderDecodes(c) PROVE Phases'
  <2>1. PICK m \in pool : rm' = [rm EXCEPT ![c] = m]
    BY <1>13 DEF ReaderDecodes
  <2>2. rd[c] = "read" /\ rd' = [rd EXCEPT ![c] = "have"] /\ UNCHANGED <<s, wpc, wm, wconn>> /\ m # Nil
    BY <1>13 DEF ReaderDecodes
  <2>3. QED
    BY <2>1, <2>2
<1>14. ASSUME NEW c \in Conns, ReaderFails(c) \/ ReaderSpins(c) PROVE Phases'
  <2>1. PICK x \in {"done", "spin"} : rd' = [rd EXCEPT ![c] = x]
    BY <1>14 DEF ReaderFails, ReaderSpins
  <2>2. rd[c] \in {"read", "spin"} /\ UNCHANGED <<s, rm, wpc, wm, wconn>>
    BY <1>14 DEF ReaderFails, ReaderSpins
  <2>3. QED
    BY <2>1, <2>2
<1>15. ASSUME NEW c \in Conns, ReaderSpawns(c) PROVE Phases'
  <2>1. PICK x \in Workers : /\ wpc[x] = "idle" /\ wpc' = [wpc EXCEPT ![x] = "start"]
                             /\ wm' = [wm EXCEPT ![x] = rm[c]] /\ wconn' = [wconn EXCEPT ![x] = c]
    BY <1>15 DEF ReaderSpawns
  <2>2. rm[c] # Nil /\ rm' = [rm EXCEPT ![c] = Nil] /\ rd[c] # "off" /\ rd' = [rd EXCEPT ![c] = "read"] /\ s' = s
    BY <1>15 DEF ReaderSpawns
  <2>3. QED
    BY <2>1, <2>2
<1>16. ASSUME NEW c \in Conns, ReaderWaits(c) PROVE Phases'
  BY <1>16 DEF ReaderWaits
<1>17. ASSUME NEW c \in Conns, ReaderStops(c) PROVE Phases'
  BY <1>17 DEF ReaderStops
<1>18. ASSUME NEW c \in Conns, WriterTakes(c) PROVE Phases'
  BY <1>18 DEF WriterTakes
<1>19. ASSUME NEW c \in Conns, WriterPolls(c) PROVE Phases'
  BY <1>19 DEF WriterPolls
<1>20. ASSUME NEW c \in Conns, WriterStops(c) PROVE Phases'
  BY <1>20 DEF WriterStops
<1>21. ASSUME NEW c \in Conns, WriterBuffers(c) PROVE Phases'
  BY <1>21 DEF WriterBuffers
<1>22. ASSUME NEW c \in Conns, WriterWrites(c) PROVE Phases'
  BY <1>22 DEF WriterWrites
<1>23. ASSUME NEW c \in Conns, WriterFails(c) PROVE Phases'
  BY <1>23 DEF WriterFails
<1>24. ASSUME NEW c \in Conns, Disconnect(c) PROVE Phases'
  BY <1>24 DEF Disconnect
<1>25. ASSUME NEW x \in Workers, WorkerStarts(x) PROVE Phases'
  BY <1>25 DEF WorkerStarts
<1>26. ASSUME NEW x \in Workers, WorkerHandles(x) PROVE Phases'
  BY <1>26 DEF WorkerHandles
<1>27. ASSUME NEW x \in Workers, WorkerPushes(x) PROVE Phases'
  BY <1>27 DEF WorkerPushes
<1>28. ASSUME NEW x \in Workers, WorkerWaits(x) PROVE Phases'
  BY <1>28 DEF WorkerWaits
<1>29. ASSUME NEW x \in Workers, WorkerGivesUp(x) PROVE Phases'
  BY <1>29 DEF WorkerGivesUp
<1>30. ASSUME NEW x \in Workers, WorkerReleases(x) PROVE Phases'
  BY <1>30 DEF WorkerReleases
<1>31. ASSUME NEW q \in Requests, ClientSends(q) PROVE Phases'
  BY <1>31 DEF ClientSends
<1>32. CASE UNCHANGED vars
  BY <1>32 DEF vars
<1>33. QED
  BY <1>1, <1>2, <1>3, <1>4, <1>5, <1>6, <1>7, <1>8, <1>9, <1>10, <1>11, <1>12, <1>13, <1>14,
     <1>15, <1>16, <1>17, <1>18, <1>19, <1>20, <1>21, <1>22, <1>23, <1>24, <1>25, <1>26, <1>27,
     <1>28, <1>29, <1>30, <1>31, <1>32
     DEF Next, AcceptorNext, ConnNext, ReaderNext, WriterNext, WorkerNext, Finished

(* A step that gives no token away and takes none leaves every workersCh   *)
(* with the tokens of its workers.                                         *)
LEMMA SameTokens ==
  ASSUME Tokens, UNCHANGED <<workersCh, wch>>, \A x \in Workers : wpc'[x] = "idle" <=> wpc[x] = "idle"
  PROVE  Tokens'
<1>1. ASSUME NEW n \in 1 .. MaxStarts PROVE Running(n)' = Running(n)
  BY DEF Running
<1>2. QED
  BY <1>1 DEF Tokens

(* Every step keeps the tokens and the workers together. *)
LEMMA NextTokens == ServerInv /\ [Next]_vars => Tokens'
<1> SUFFICES ASSUME ServerInv, [Next]_vars PROVE Tokens'
  OBVIOUS
<1> USE DEF server, message, worker, reader, writer, ServerInv
<1>1. ASSUME NEW c \in Conns, ReaderSpawns(c) PROVE Tokens'
  <2>1. PICK y \in Workers : /\ wpc[y] = "idle" /\ wpc' = [wpc EXCEPT ![y] = "start"]
                             /\ wch' = [wch EXCEPT ![y] = starts]
    BY <1>1 DEF ReaderSpawns
  <2>2. workersCh' = [workersCh EXCEPT ![starts] = @ + 1]
    BY <1>1 DEF ReaderSpawns
  <2>3. ASSUME NEW n \in 1 .. MaxStarts PROVE IsFiniteSet(Running(n)') /\ workersCh'[n] = Cardinality(Running(n)')
    <3>1. IsFiniteSet(Running(n)) /\ workersCh[n] = Cardinality(Running(n)) /\ y \notin Running(n)
      BY <2>1 DEF Tokens, Running
    <3>2. CASE n = starts
      <4>1. Running(n)' = Running(n) \cup {y}
        BY <2>1, <3>2 DEF Running, TypeOK
      <4>2. workersCh'[n] = workersCh[n] + 1
        BY <2>2, <3>2 DEF TypeOK
      <4>3. QED
        BY <3>1, <4>1, <4>2, FS_AddElement
    <3>3. CASE n # starts
      <4>1. Running(n)' = Running(n)
        BY <2>1, <3>1, <3>3 DEF Running, TypeOK
      <4>2. workersCh'[n] = workersCh[n]
        BY <2>2, <3>3 DEF TypeOK
      <4>3. QED
        BY <3>1, <4>1, <4>2
    <3>4. QED
      BY <3>2, <3>3
  <2>4. QED
    BY <2>3 DEF Tokens
<1>2. ASSUME NEW y \in Workers, WorkerReleases(y) PROVE Tokens'
  <2>1. /\ wpc[y] = "release" /\ wpc' = [wpc EXCEPT ![y] = "idle"] /\ wch' = [wch EXCEPT ![y] = 0]
        /\ workersCh' = [workersCh EXCEPT ![wch[y]] = @ - 1]
    BY <1>2 DEF WorkerReleases
  <2>2. ASSUME NEW n \in 1 .. MaxStarts PROVE IsFiniteSet(Running(n)') /\ workersCh'[n] = Cardinality(Running(n)')
    <3>1. IsFiniteSet(Running(n)) /\ workersCh[n] = Cardinality(Running(n))
      BY DEF Tokens
    <3>2. Running(n)' = Running(n) \ {y}
      BY <2>1 DEF Running, TypeOK
    <3>3. CASE n = wch[y]
      <4>1. y \in Running(n)
        BY <2>1, <3>3 DEF Running
      <4>2. workersCh'[n] = workersCh[n] - 1
        BY <2>1, <3>3 DEF TypeOK
      <4>3. QED
        BY <3>1, <3>2, <4>1, <4>2, FS_RemoveElement
    <3>4. CASE n # wch[y]
      <4>1. y \notin Running(n)
        BY <3>4 DEF Running
      <4>2. workersCh'[n] = workersCh[n]
        BY <2>1, <3>4 DEF TypeOK
      <4>3. QED
        BY <3>1, <3>2, <4>1, <4>2, FS_RemoveElement
    <3>5. QED
      BY <3>3, <3>4
  <2>3. QED
    BY <2>2 DEF Tokens
<1>3. ASSUME NEW x \in Workers, WorkerNext(x), ~WorkerReleases(x) PROVE Tokens'
  <2>1. UNCHANGED <<workersCh, wch>> /\ \A y \in Workers : wpc'[y] = "idle" <=> wpc[y] = "idle"
    BY <1>3
       DEF WorkerNext, WorkerStarts, WorkerHandles, WorkerPushes, WorkerWaits, WorkerGivesUp,
       TypeOK
  <2>2. QED
    BY <2>1, SameTokens
<1>4. ASSUME UNCHANGED <<workersCh, worker>> PROVE Tokens'
  BY <1>4, SameTokens
<1>5. CASE Start \/ StartFails \/ Stop \/ StopReturns \/ AcceptorNext \/ UNCHANGED vars
  BY <1>4, <1>5
     DEF Start, StartFails, Stop, StopReturns, AcceptorNext, AcceptFails, AcceptAgain,
     AcceptStops, Accept, vars
<1>6. ASSUME NEW c \in Conns, ConnNext(c) \/ WriterNext(c) \/ Disconnect(c) PROVE Tokens'
  BY <1>4, <1>6
     DEF ConnNext, Handshake, HandshakeFails, ConnCloses, ConnEnds, WriterNext, WriterTakes,
     WriterPolls, WriterStops, WriterBuffers, WriterWrites, WriterFails, Disconnect
<1>7. ASSUME NEW c \in Conns, ReaderNext(c), ~ReaderSpawns(c) PROVE Tokens'
  BY <1>4, <1>7 DEF ReaderNext, ReaderDecodes, ReaderFails, ReaderSpins, ReaderWaits, ReaderStops
<1>8. ASSUME NEW q \in Requests, ClientSends(q) PROVE Tokens'
  BY <1>4, <1>8 DEF ClientSends
<1>9. QED
  BY <1>1, <1>2, <1>3, <1>5, <1>6, <1>7, <1>8 DEF Next, Finished

(* ServerInv is inductive. *)
LEMMA ServerNext == ServerInv /\ [Next]_vars => ServerInv'
BY NextTypes, NextPhases, NextTokens DEF ServerInv

(* Every variable of the server keeps its type, for every choice of the    *)
(* constants: no responsesChan exceeds PendingResponses, and no workersCh  *)
(* holds a negative number of tokens or more than Concurrency.             *)
THEOREM ServerTypes == Spec => []TypeOK
BY ServerInit, ServerNext, PTL DEF Spec, ServerInv

(* On every way through serveRequest exactly one token is taken and given  *)
(* back, to the workersCh it came from even if the server was restarted in *)
(* between: workersCh never leaks capacity, and Concurrency bounds the     *)
(* handlers that run.                                                      *)
THEOREM TokensOfWorkers == Spec => []TokensMatchWorkers
<1>1. ServerInv => TokensMatchWorkers
  BY DEF ServerInv, Tokens, Running, TokensMatchWorkers
<1>2. QED
  BY <1>1, ServerInit, ServerNext, PTL DEF Spec

-----------------------------------------------------------------------------
(* Who holds a serverMessage. *)

Unread(m)   == \A c \in Conns : rm[c] # m
Unworked(m) == \A x \in Workers : wm[x] # m
Unqueued(m) == \A c \in Conns : \A i \in 1 .. Len(responses[c]) : responses[c][i] # m

PoolAlone   == \A m \in pool : Unread(m) /\ Unworked(m) /\ Unqueued(m)
ReaderAlone == \A c \in Conns : rm[c] # Nil =>
  Unworked(rm[c]) /\ Unqueued(rm[c]) /\ \A d \in Conns : rm[d] = rm[c] => d = c
WorkerAlone == \A x \in Workers : wm[x] # Nil =>
  Unqueued(wm[x]) /\ \A y \in Workers : wm[y] = wm[x] => y = x
QueueAlone  == \A c, d \in Conns : \A i \in 1 .. Len(responses[c]), j \in 1 .. Len(responses[d]) :
  responses[c][i] = responses[d][j] => c = d /\ i = j
Held        == \A m \in Messages : m \in pool \/ ~Unread(m) \/ ~Unworked(m) \/ ~Unqueued(m)

(* Every message has one holder: an invariant without cardinalities. *)
HeldInv == PoolAlone /\ ReaderAlone /\ WorkerAlone /\ QueueAlone /\ Held

(* responsesChan after its first element was taken, *)
LEMMA TakenQueue ==
  ASSUME TypeOK, NEW c \in Conns, responses[c] # <<>>, responses' = [responses EXCEPT ![c] = Tail(@)]
  PROVE  \A d \in Conns : \A i \in 1 .. Len(responses'[d]) : \E j \in 1 .. Len(responses[d]) :
           responses'[d][i] = responses[d][j] /\ (d = c => j = i + 1) /\ (d # c => j = i)
<1> DEFINE q == responses[c]
<1>1. /\ responses'[c] = Tail(q) /\ \A d \in Conns \ {c} : responses'[d] = responses[d]
      /\ \A d \in Conns : responses[d] \in Seq(Messages) /\ Len(responses[d]) \in Nat
  BY DEF TypeOK
<1>2. /\ Len(Tail(q)) = Len(q) - 1 /\ Len(q) \in Nat \ {0}
      /\ \A i \in 1 .. Len(Tail(q)) : Tail(q)[i] = q[i + 1]
  BY HeadFacts DEF TypeOK
<1> HIDE DEF q
<1> SUFFICES ASSUME NEW d \in Conns, NEW i \in 1 .. Len(responses'[d])
             PROVE  \E j \in 1 .. Len(responses[d]) :
                      responses'[d][i] = responses[d][j] /\ (d = c => j = i + 1) /\ (d # c => j = i)
  OBVIOUS
<1>3. CASE d = c
  <2>1. i \in 1 .. Len(Tail(q)) /\ responses'[d][i] = Tail(q)[i] /\ responses[d] = q
    BY <1>1, <1>3 DEF q
  <2>2. i + 1 \in 1 .. Len(q) /\ Tail(q)[i] = q[i + 1]
    BY <1>2, <2>1
  <2>3. QED
    BY <1>3, <2>1, <2>2
<1>4. CASE d # c
  BY <1>1, <1>4
<1>5. QED
  BY <1>3, <1>4

(* and after a message was put. *)
LEMMA PushedQueue ==
  ASSUME TypeOK, NEW c \in Conns, NEW m \in Messages, responses' = [responses EXCEPT ![c] = Append(@, m)]
  PROVE  /\ \A d \in Conns : \A i \in 1 .. Len(responses'[d]) :
              \/ i \in 1 .. Len(responses[d]) /\ responses'[d][i] = responses[d][i]
              \/ d = c /\ i = Len(responses[d]) + 1 /\ responses'[d][i] = m
         /\ \A d \in Conns : \A i \in 1 .. Len(responses[d]) :
              i \in 1 .. Len(responses'[d]) /\ responses'[d][i] = responses[d][i]
         /\ Len(responses[c]) + 1 \in 1 .. Len(responses'[c]) /\ responses'[c][Len(responses[c]) + 1] = m
<1>1. /\ responses'[c] = Append(responses[c], m) /\ \A d \in Conns \ {c} : responses'[d] = responses[d]
      /\ \A d \in Conns : responses[d] \in Seq(Messages) /\ Len(responses[d]) \in Nat
  BY DEF TypeOK
<1>2. /\ Len(responses'[c]) = Len(responses[c]) + 1 /\ responses'[c][Len(responses[c]) + 1] = m
      /\ \A i \in 1 .. Len(responses[c]) : responses'[c][i] = responses[c][i]
  BY <1>1, AppendFacts
<1>3. QED
  BY <1>1, <1>2

(* The reader takes a message out of the pool. *)
LEMMA PoolToReader ==
  ASSUME TypeOK, HeldInv, NEW c \in Conns, NEW m \in pool, rm[c] = Nil,
         pool' = pool \ {m}, rm' = [rm EXCEPT ![c] = m], UNCHANGED <<wm, responses>>
  PROVE  HeldInv'
<1> USE NilAssumption DEF HeldInv, Unread, Unworked, Unqueued
<1>1. m \in Messages /\ m # Nil /\ rm'[c] = m /\ \A d \in Conns \ {c} : rm'[d] = rm[d]
  BY DEF TypeOK
<1>2. PoolAlone'
  BY <1>1 DEF PoolAlone
<1>3. ReaderAlone'
  BY <1>1 DEF ReaderAlone, PoolAlone
<1>4. WorkerAlone'
  BY DEF WorkerAlone
<1>5. QueueAlone'
  BY DEF QueueAlone
<1>6. Held'
  BY <1>1 DEF Held
<1>7. QED
  BY <1>2, <1>3, <1>4, <1>5, <1>6

(* It hands its message to a new worker. *)
LEMMA ReaderToWorker ==
  ASSUME TypeOK, HeldInv, NEW c \in Conns, NEW x \in Workers, rm[c] # Nil, wm[x] = Nil,
         rm' = [rm EXCEPT ![c] = Nil], wm' = [wm EXCEPT ![x] = rm[c]], UNCHANGED <<pool, responses>>
  PROVE  HeldInv'
<1> USE NilAssumption DEF HeldInv, Unread, Unworked, Unqueued
<1>1. /\ rm[c] \in Messages /\ rm'[c] = Nil /\ \A d \in Conns \ {c} : rm'[d] = rm[d]
      /\ wm'[x] = rm[c] /\ \A y \in Workers \ {x} : wm'[y] = wm[y]
  BY DEF TypeOK
<1>2. PoolAlone'
  BY <1>1 DEF PoolAlone, TypeOK
<1>3. ReaderAlone'
  BY <1>1 DEF ReaderAlone
<1>4. WorkerAlone'
  BY <1>1 DEF WorkerAlone, ReaderAlone
<1>5. QueueAlone'
  BY DEF QueueAlone
<1>6. Held'
  BY <1>1 DEF Held
<1>7. QED
  BY <1>2, <1>3, <1>4, <1>5, <1>6

(* A message goes back to the pool from a reader that stops, *)
LEMMA ReaderToPool ==
  ASSUME TypeOK, HeldInv, NEW c \in Conns, rm[c] # Nil,
         rm' = [rm EXCEPT ![c] = Nil], pool' = pool \cup {rm[c]}, UNCHANGED <<wm, responses>>
  PROVE  HeldInv'
<1> USE NilAssumption DEF HeldInv, Unread, Unworked, Unqueued
<1>1. rm[c] \in Messages /\ rm'[c] = Nil /\ \A d \in Conns \ {c} : rm'[d] = rm[d]
  BY DEF TypeOK
<1>2. PoolAlone'
  BY <1>1, SMTT(30) DEF PoolAlone, ReaderAlone, TypeOK
<1>3. ReaderAlone'
  BY <1>1 DEF ReaderAlone
<1>4. WorkerAlone'
  BY DEF WorkerAlone
<1>5. QueueAlone'
  BY DEF QueueAlone
<1>6. Held'
  BY <1>1 DEF Held
<1>7. QED
  BY <1>2, <1>3, <1>4, <1>5, <1>6

(* from a worker that has no response to send or nobody to send it to, *)
LEMMA WorkerToPool ==
  ASSUME TypeOK, HeldInv, NEW x \in Workers, wm[x] # Nil,
         wm' = [wm EXCEPT ![x] = Nil], pool' = pool \cup {wm[x]}, UNCHANGED <<rm, responses>>
  PROVE  HeldInv'
<1> USE NilAssumption DEF HeldInv, Unread, Unworked, Unqueued
<1>1. wm[x] \in Messages /\ wm'[x] = Nil /\ \A y \in Workers \ {x} : wm'[y] = wm[y]
  BY DEF TypeOK
<1>2. PoolAlone'
  BY <1>1 DEF PoolAlone, ReaderAlone, WorkerAlone, TypeOK
<1>3. ReaderAlone'
  BY <1>1 DEF ReaderAlone
<1>4. WorkerAlone'
  BY <1>1 DEF WorkerAlone
<1>5. QueueAlone'
  BY DEF QueueAlone
<1>6. Held'
  BY <1>1 DEF Held
<1>7. QED
  BY <1>2, <1>3, <1>4, <1>5, <1>6

(* and from the writer that takes it out of responsesChan, where           *)
LEMMA QueueToPool ==
  ASSUME TypeOK, HeldInv, NEW c \in Conns, responses[c] # <<>>,
         responses' = [responses EXCEPT ![c] = Tail(@)], pool' = pool \cup {Head(responses[c])},
         UNCHANGED <<rm, wm>>
  PROVE  HeldInv'
<1> USE NilAssumption DEF HeldInv, Unread, Unworked, Unqueued
<1> DEFINE q == responses[c]
<1>1. /\ responses'[c] = Tail(q) /\ \A d \in Conns \ {c} : responses'[d] = responses[d]
      /\ \A d \in Conns : responses[d] \in Seq(Messages) /\ Len(responses[d]) \in Nat
  BY DEF TypeOK
<1>2. /\ Head(q) = q[1] /\ Head(q) \in Messages /\ Len(Tail(q)) = Len(q) - 1 /\ Len(q) \in Nat \ {0}
      /\ \A i \in 1 .. Len(Tail(q)) : Tail(q)[i] = q[i + 1]
  BY HeadFacts DEF TypeOK
<1> HIDE DEF q
<1>3. \A d \in Conns : \A i \in 1 .. Len(responses'[d]) : \E j \in 1 .. Len(responses[d]) :
        responses'[d][i] = responses[d][j] /\ (d = c => j = i + 1) /\ (d # c => j = i)
  BY TakenQueue
<1>4. Head(q) = responses[c][1] /\ 1 \in 1 .. Len(responses[c])
  BY <1>2 DEF q
<1>5. \A d \in Conns : \A i \in 1 .. Len(responses'[d]) : responses'[d][i] # Head(q)
  <2> SUFFICES ASSUME NEW d \in Conns, NEW i \in 1 .. Len(responses'[d]), responses'[d][i] = Head(q) PROVE FALSE
    OBVIOUS
  <2>1. PICK j \in 1 .. Len(responses[d]) :
          responses'[d][i] = responses[d][j] /\ (d = c => j = i + 1) /\ (d # c => j = i)
    BY <1>3
  <2>2. d = c /\ j = 1
    BY <1>4, <2>1 DEF QueueAlone
  <2>3. QED
    BY <2>1, <2>2
<1>6. PoolAlone'
  <2>1. Unread(Head(q)) /\ Unworked(Head(q))
    BY <1>2, <1>4, SMTT(30) DEF ReaderAlone, WorkerAlone
  <2>2. QED
    BY <1>3, <1>5, <2>1 DEF PoolAlone, q
<1>7. ReaderAlone'
  BY <1>3 DEF ReaderAlone
<1>8. WorkerAlone'
  BY <1>3 DEF WorkerAlone
<1>9. QueueAlone'
  <2> SUFFICES ASSUME NEW d \in Conns, NEW e \in Conns, NEW i \in 1 .. Len(responses'[d]), NEW j \in 1 .. Len(responses'[e]),
                      responses'[d][i] = responses'[e][j]
               PROVE  d = e /\ i = j
    BY DEF QueueAlone
  <2>1. PICK k \in 1 .. Len(responses[d]) :
          responses'[d][i] = responses[d][k] /\ (d = c => k = i + 1) /\ (d # c => k = i)
    BY <1>3
  <2>2. PICK l \in 1 .. Len(responses[e]) :
          responses'[e][j] = responses[e][l] /\ (e = c => l = j + 1) /\ (e # c => l = j)
    BY <1>3
  <2>3. d = e /\ k = l
    BY <2>1, <2>2 DEF QueueAlone
  <2>4. QED
    BY <2>1, <2>2, <2>3
<1>10. Held'
  <2> SUFFICES ASSUME NEW m \in Messages PROVE (m \in pool \/ ~Unread(m) \/ ~Unworked(m) \/ ~Unqueued(m))'
    BY DEF Held
  <2>1. CASE m \in pool \/ ~Unread(m) \/ ~Unworked(m)
    BY <2>1
  <2>2. ASSUME NEW d \in Conns, NEW i \in 1 .. Len(responses[d]), responses[d][i] = m
        PROVE  m = Head(q) \/ \E j \in 1 .. Len(responses'[d]) : responses'[d][j] = m
    <3>1. CASE d # c
      BY <1>1, <2>2, <3>1
    <3>2. CASE d = c /\ i = 1
      BY <1>4, <2>2, <3>2
    <3>3. CASE d = c /\ i # 1
      <4>1. i - 1 \in 1 .. Len(Tail(q)) /\ (i - 1) + 1 = i
        BY <1>2, <3>3 DEF q
      <4>2. Tail(q)[i - 1] = q[i]
        BY <1>2, <4>1
      <4>3. QED
        BY <1>1, <2>2, <3>3, <4>1, <4>2 DEF q
    <3>4. QED
      BY <3>1, <3>2, <3>3
  <2>3. QED
    BY <2>1, <2>2, ZenonT(40) DEF Held, q
<1>11. QED
  BY <1>6, <1>7, <1>8, <1>9, <1>10

(* the worker has put it.                                                  *)
LEMMA WorkerToQueue ==
  ASSUME TypeOK, HeldInv, NEW x \in Workers, NEW c \in Conns, wm[x] # Nil,
         responses' = [responses EXCEPT ![c] = Append(@, wm[x])], wm' = [wm EXCEPT ![x] = Nil],
         UNCHANGED <<rm, pool>>
  PROVE  HeldInv'
<1> USE NilAssumption DEF HeldInv, Unread, Unworked, Unqueued
<1>1. wm[x] \in Messages /\ wm'[x] = Nil /\ \A y \in Workers \ {x} : wm'[y] = wm[y]
  BY DEF TypeOK
<1> DEFINE n == Len(responses[c]) + 1
<1>2. n \in 1 .. Len(responses'[c]) /\ responses'[c][n] = wm[x]
  BY <1>1, PushedQueue
<1>3. \A d \in Conns : \A i \in 1 .. Len(responses'[d]) :
        \/ i \in 1 .. Len(responses[d]) /\ responses'[d][i] = responses[d][i]
        \/ d = c /\ i = n /\ responses'[d][i] = wm[x]
  BY <1>1, PushedQueue
<1>4. \A d \in Conns : \A i \in 1 .. Len(responses[d]) :
        i \in 1 .. Len(responses'[d]) /\ responses'[d][i] = responses[d][i]
  BY <1>1, PushedQueue
<1> HIDE DEF n
<1>5. PoolAlone'
  BY <1>1, <1>3, SMTT(30) DEF PoolAlone, TypeOK
<1>6. ReaderAlone'
  BY <1>1, <1>3 DEF ReaderAlone
<1>7. WorkerAlone'
  BY <1>1, <1>3 DEF WorkerAlone
<1>8. QueueAlone'
  <2> SUFFICES ASSUME NEW d \in Conns, NEW e \in Conns, NEW i \in 1 .. Len(responses'[d]), NEW j \in 1 .. Len(responses'[e]),
                      responses'[d][i] = responses'[e][j]
               PROVE  d = e /\ i = j
    BY DEF QueueAlone
  <2>1. \A k \in Conns : \A l \in 1 .. Len(responses[k]) : responses[k][l] # wm[x]
    BY DEF WorkerAlone
  <2>2. QED
    BY <1>3, <2>1 DEF QueueAlone
<1>9. Held'
  <2> SUFFICES ASSUME NEW m \in Messages PROVE (m \in pool \/ ~Unread(m) \/ ~Unworked(m) \/ ~Unqueued(m))'
    BY DEF Held
  <2>1. CASE m = wm[x]
    BY <1>2, <2>1
  <2>2. CASE m # wm[x]
    BY <1>1, <1>4, <2>2 DEF Held
  <2>3. QED
    BY <2>1, <2>2
<1>10. QED
  BY <1>5, <1>6, <1>7, <1>8, <1>9

(* At first every message is in the pool. *)
LEMMA HeldInit == Init => HeldInv
BY NilAssumption
   DEF Init, HeldInv, PoolAlone, ReaderAlone, WorkerAlone, QueueAlone, Held, Unread, Unworked,
   Unqueued

(* A step that moves no message. *)
LEMMA HeldStay ==
  ASSUME HeldInv, UNCHANGED <<pool, rm, wm, responses>> PROVE HeldInv'
BY DEF HeldInv, PoolAlone, ReaderAlone, WorkerAlone, QueueAlone, Held, Unread, Unworked, Unqueued

(* Every step moves at most one message, from one holder to the next. *)
LEMMA HeldNext == ServerInv /\ HeldInv /\ [Next]_vars => HeldInv'
<1> SUFFICES ASSUME ServerInv, HeldInv, [Next]_vars PROVE HeldInv'
  OBVIOUS
<1> USE DEF server, message, worker, reader, writer
<1>1. TypeOK
  BY DEF ServerInv
<1>2. ASSUME NEW c \in Conns, ReaderDecodes(c) PROVE HeldInv'
  <2>1. PICK m \in pool : pool' = pool \ {m} /\ rm' = [rm EXCEPT ![c] = m]
    BY <1>2 DEF ReaderDecodes
  <2>2. rm[c] = Nil /\ UNCHANGED <<wm, responses>>
    BY <1>2 DEF ReaderDecodes, ServerInv, Phases
  <2>3. QED
    BY <1>1, <2>1, <2>2, PoolToReader
<1>3. ASSUME NEW c \in Conns, ReaderSpawns(c) PROVE HeldInv'
  <2>1. PICK x \in Workers : wpc[x] = "idle" /\ wm' = [wm EXCEPT ![x] = rm[c]]
    BY <1>3 DEF ReaderSpawns
  <2>2. rm[c] # Nil /\ wm[x] = Nil /\ rm' = [rm EXCEPT ![c] = Nil] /\ UNCHANGED <<pool, responses>>
    BY <1>3, <2>1 DEF ReaderSpawns, ServerInv, Phases
  <2>3. QED
    BY <1>1, <2>1, <2>2, ReaderToWorker
<1>4. ASSUME NEW c \in Conns, ReaderStops(c) PROVE HeldInv'
  BY <1>1, <1>4, ReaderToPool DEF ReaderStops, ServerInv, Phases
<1>5. ASSUME NEW c \in Conns, WriterTakes(c) PROVE HeldInv'
  BY <1>1, <1>5, QueueToPool DEF WriterTakes
<1>6. ASSUME NEW x \in Workers, WorkerStarts(x) PROVE HeldInv'
  <2>1. wm[x] # Nil /\ UNCHANGED <<rm, responses>>
    BY <1>6 DEF WorkerStarts, ServerInv, Phases
  <2>2. \/ pool' = pool \cup {wm[x]} /\ wm' = [wm EXCEPT ![x] = Nil]
        \/ UNCHANGED <<pool, wm>>
    BY <1>6 DEF WorkerStarts
  <2>3. QED
    BY <1>1, <2>1, <2>2, WorkerToPool, HeldStay
<1>7. ASSUME NEW x \in Workers, WorkerPushes(x) PROVE HeldInv'
  <2>1. wm[x] # Nil /\ wconn[x] \in Conns
    BY <1>1, <1>7 DEF WorkerPushes, ServerInv, Phases, TypeOK
  <2>2. QED
    BY <1>1, <1>7, <2>1, WorkerToQueue DEF WorkerPushes
<1>8. ASSUME NEW x \in Workers, WorkerGivesUp(x) PROVE HeldInv'
  BY <1>1, <1>8, WorkerToPool DEF WorkerGivesUp, ServerInv, Phases
<1>9. CASE Start \/ StartFails \/ Stop \/ StopReturns \/ AcceptorNext \/ UNCHANGED vars
  BY <1>9, HeldStay
     DEF Start, StartFails, Stop, StopReturns, AcceptorNext, AcceptFails, AcceptAgain,
     AcceptStops, Accept, vars
<1>10. ASSUME NEW c \in Conns, ConnNext(c) \/ Disconnect(c) PROVE HeldInv'
  BY <1>10, HeldStay DEF ConnNext, Handshake, HandshakeFails, ConnCloses, ConnEnds, Disconnect
<1>11. ASSUME NEW c \in Conns, WriterNext(c), ~WriterTakes(c) PROVE HeldInv'
  BY <1>11, HeldStay
     DEF WriterNext, WriterPolls, WriterStops, WriterBuffers, WriterWrites, WriterFails
<1>12. ASSUME NEW c \in Conns, ReaderFails(c) \/ ReaderSpins(c) \/ ReaderWaits(c) PROVE HeldInv'
  BY <1>12, HeldStay DEF ReaderFails, ReaderSpins, ReaderWaits
<1>13. ASSUME NEW x \in Workers, WorkerHandles(x) \/ WorkerWaits(x) \/ WorkerReleases(x) PROVE HeldInv'
  BY <1>13, HeldStay DEF WorkerHandles, WorkerWaits, WorkerReleases
<1>14. ASSUME NEW q \in Requests, ClientSends(q) PROVE HeldInv'
  BY <1>14, HeldStay DEF ClientSends
<1>15. QED
  BY <1>2, <1>3, <1>4, <1>5, <1>6, <1>7, <1>8, <1>9, <1>10, <1>11, <1>12, <1>13, <1>14
  DEF Next, Finished, ReaderNext, WorkerNext, WriterNext

(* A message that is somewhere and nowhere else has one holder. *)
LEMMA OneHolder == TypeOK /\ HeldInv => MessageHeldOnce
<1> SUFFICES ASSUME TypeOK, HeldInv, NEW m \in Messages PROVE Cardinality(Holders(m)) = 1
  BY DEF MessageHeldOnce
<1> USE NilAssumption DEF HeldInv, Unread, Unworked, Unqueued
<1> DEFINE P == {<<"pool">> : p \in pool \cap {m}}
           R == {<<"reader", c>> : c \in {d \in Conns : rm[d] = m}}
           W == {<<"worker", x>> : x \in {y \in Workers : wm[y] = m}}
           Q == UNION {{<<"responses", c, i>> : i \in {j \in DOMAIN responses[c] : responses[c][j] = m}} : c \in Conns}
<1>1. Holders(m) = P \cup R \cup W \cup Q
  BY DEF Holders
<1>2. m # Nil /\ \A c \in Conns : DOMAIN responses[c] = 1 .. Len(responses[c])
  BY DEF TypeOK
<1>3. m \notin pool => P = {}
  OBVIOUS
<1>4. Unread(m) => R = {}
  OBVIOUS
<1>5. Unworked(m) => W = {}
  OBVIOUS
<1>6. Unqueued(m) => Q = {}
  BY <1>2
<1>7. ASSUME NEW h, Holders(m) = {h} PROVE Cardinality(Holders(m)) = 1
  BY <1>7, FS_Singleton
<1>8. CASE m \in pool
  <2>1. P = {<<"pool">>}
    BY <1>8
  <2>2. R = {} /\ W = {} /\ Q = {}
    BY <1>4, <1>5, <1>6, <1>8 DEF PoolAlone
  <2>3. QED
    BY <1>1, <1>7, <2>1, <2>2
<1>9. ASSUME NEW c \in Conns, rm[c] = m PROVE Cardinality(Holders(m)) = 1
  <2>1. R = {<<"reader", c>>}
    BY <1>2, <1>9 DEF ReaderAlone
  <2>2. P = {} /\ W = {} /\ Q = {}
    BY <1>2, <1>3, <1>5, <1>6, <1>9 DEF PoolAlone, ReaderAlone
  <2>3. QED
    BY <1>1, <1>7, <2>1, <2>2
<1>10. ASSUME NEW x \in Workers, wm[x] = m PROVE Cardinality(Holders(m)) = 1
  <2>1. W = {<<"worker", x>>}
    BY <1>2, <1>10 DEF WorkerAlone
  <2>2. P = {} /\ R = {} /\ Q = {}
    BY <1>2, <1>3, <1>4, <1>6, <1>10 DEF PoolAlone, ReaderAlone, WorkerAlone
  <2>3. QED
    BY <1>1, <1>7, <2>1, <2>2
<1>11. ASSUME NEW c \in Conns, NEW i \in 1 .. Len(responses[c]), responses[c][i] = m PROVE Cardinality(Holders(m)) = 1
  <2>1. \A d \in Conns : \A j \in DOMAIN responses[d] : responses[d][j] = m => d = c /\ j = i
    BY <1>2, <1>11 DEF QueueAlone
  <2>2. Q = {<<"responses", c, i>>}
    BY <1>2, <1>11, <2>1
  <2>3. P = {} /\ R = {} /\ W = {}
    BY <1>2, <1>3, <1>4, <1>5, <1>11 DEF PoolAlone, ReaderAlone, WorkerAlone
  <2>4. QED
    BY <1>1, <1>7, <2>2, <2>3
<1>12. QED
  BY <1>8, <1>9, <1>10, <1>11 DEF Held

(* A serverMessage has exactly one holder in every state, however often    *)
(* the pool recycles it between connections: nobody reads or writes a      *)
(* message after giving it away, and none is lost.                         *)
THEOREM MessagesHeldOnce == Spec => []MessageHeldOnce
<1>1. ServerInv /\ HeldInv => MessageHeldOnce
  BY OneHolder DEF ServerInv
<1>2. QED
  BY <1>1, ServerInit, ServerNext, HeldInit, HeldNext, PTL DEF Spec

-----------------------------------------------------------------------------
(* What has been encoded for a connection. *)

(* p is q without some of its last elements. *)
Trims(p, q) == Len(p) <= Len(q) /\ \A i \in 1 .. Len(p) : p[i] = q[i]

(* out and buf in a row, and then what is just being encoded. *)
LEMMA RowEncode ==
  ASSUME NEW S, NEW p \in Seq(S), NEW q \in Seq(S), NEW w \in S
  PROVE  p \o q \o <<w>> = Append(p \o q, w) /\ Append(p \o q, w) \in Seq(S)
OBVIOUS

(* With nothing being encoded, it is out and buf. *)
LEMMA RowRest ==
  ASSUME NEW S, NEW p \in Seq(S), NEW q \in Seq(S)
  PROVE  p \o q \o <<>> = p \o q /\ p \o q \in Seq(S) /\ p \o <<>> = p
OBVIOUS

(* The writer moves the response on into the buffer, *)
LEMMA RowBuffers ==
  ASSUME NEW S, NEW p \in Seq(S), NEW q \in Seq(S), NEW w \in S
  PROVE  p \o Append(q, w) = Append(p \o q, w)
OBVIOUS

(* or loses it, or all that was not yet sent. *)
LEMMA RowTrims ==
  ASSUME NEW S, NEW p \in Seq(S), NEW q \in Seq(S), NEW w \in S
  PROVE  Trims(p, Append(p \o q, w)) /\ Trims(p \o q, Append(p \o q, w))
BY DEF Trims

(* So the buffered response of a connection counts as encoded. *)
LEMMA BufferedRow ==
  ASSUME TypeOK, NEW c \in Conns
  PROVE  out[c] \o Append(buf[c], wrsp[c]) = Append(out[c] \o buf[c], wrsp[c])
<1>1. out[c] \in Seq(Responses) /\ buf[c] \in Seq(Responses) /\ wrsp[c] \in Responses
  BY DEF TypeOK
<1>2. \A p, q \in Seq(Responses) : \A w \in Responses : p \o Append(q, w) = Append(p \o q, w)
  BY RowBuffers
<1>3. QED
  BY <1>1, <1>2, Zenon

(* Encoded(c) is a sequence of responses. *)
EncodedTypes == \A c \in Conns : Encoded(c) \in Seq(Responses) /\ Len(Encoded(c)) \in Nat

(* The encoder gets nothing else. *)
LEMMA EncodedType == TypeOK => EncodedTypes
<1> SUFFICES ASSUME TypeOK, NEW c \in Conns PROVE Encoded(c) \in Seq(Responses) /\ Len(Encoded(c)) \in Nat
  BY DEF EncodedTypes
<1>1. out[c] \in Seq(Responses) /\ buf[c] \in Seq(Responses) /\ wrsp[c] \in Responses
  BY DEF TypeOK
<1>2. out[c] \o buf[c] \o <<>> \in Seq(Responses)
  BY <1>1, RowRest
<1>3. out[c] \o buf[c] \o <<wrsp[c]>> \in Seq(Responses)
  BY <1>1, RowEncode
<1>4. Encoded(c) \in Seq(Responses)
  BY <1>2, <1>3, Zenon DEF Encoded
<1>5. QED
  BY <1>4

(* A step keeps what was encoded for a connection, or loses the end of it, *)
(* unless the writer takes another response.                               *)
LEMMA EncodedNext ==
  ASSUME TypeOK, TypeOK', [Next]_vars, NEW c \in Conns
  PROVE  \/ Trims(Encoded(c)', Encoded(c))
         \/ /\ WriterTakes(c)
            /\ Encoded(c)' = Append(Encoded(c), [id |-> mID[Head(responses[c])], of |-> mResponse[Head(responses[c])]])
<1> USE DEF server, message, worker, reader, writer
<1>1. /\ out[c] \in Seq(Responses) /\ buf[c] \in Seq(Responses) /\ wrsp[c] \in Responses
      /\ out'[c] \in Seq(Responses) /\ buf'[c] \in Seq(Responses) /\ wrsp'[c] \in Responses
  BY DEF TypeOK
<1>2. /\ wr[c] = "encode" => Encoded(c) = Append(out[c] \o buf[c], wrsp[c])
      /\ wr[c] # "encode" => Encoded(c) = out[c] \o buf[c]
      /\ wr'[c] = "encode" => Encoded(c)' = Append(out'[c] \o buf'[c], wrsp'[c])
      /\ wr'[c] # "encode" => Encoded(c)' = out'[c] \o buf'[c]
  <2>1. /\ out[c] \o buf[c] \o <<wrsp[c]>> = Append(out[c] \o buf[c], wrsp[c])
        /\ out'[c] \o buf'[c] \o <<wrsp'[c]>> = Append(out'[c] \o buf'[c], wrsp'[c])
    BY <1>1, RowEncode, ZenonT(40)
  <2>2. out[c] \o buf[c] \o <<>> = out[c] \o buf[c] /\ out'[c] \o buf'[c] \o <<>> = out'[c] \o buf'[c]
    BY <1>1, RowRest
  <2>3. /\ wr[c] = "encode" => Encoded(c) = out[c] \o buf[c] \o <<wrsp[c]>>
        /\ wr[c] # "encode" => Encoded(c) = out[c] \o buf[c] \o <<>>
    BY Zenon DEF Encoded
  <2>4. /\ wr'[c] = "encode" => Encoded(c)' = out'[c] \o buf'[c] \o <<wrsp'[c]>>
        /\ wr'[c] # "encode" => Encoded(c)' = out'[c] \o buf'[c] \o <<>>
    BY Zenon DEF Encoded
  <2>5. QED
    BY <2>1, <2>2, <2>3, <2>4, Zenon
<1>3. /\ out \in [Conns -> Seq(Responses)] /\ buf \in [Conns -> Seq(Responses)]
      /\ wrsp \in [Conns -> Responses] /\ wr \in [Conns -> {"off", "loop", "select", "encode", "done"}]
  BY DEF TypeOK
<1>4. Trims(Encoded(c), Encoded(c))
  <2>1. Encoded(c) \in Seq(Responses)
    <3>1. out[c] \o buf[c] \in Seq(Responses)
      BY <1>1, RowRest
    <3>2. Append(out[c] \o buf[c], wrsp[c]) \in Seq(Responses)
      BY <1>1, RowEncode
    <3>3. QED
      BY <1>2, <3>1, <3>2, Zenon
  <2>2. QED
    BY <2>1 DEF Trims
<1>5. ASSUME Encoded(c)' = Encoded(c) PROVE Trims(Encoded(c)', Encoded(c))
  BY <1>4, <1>5
<1>6. ASSUME out'[c] = out[c], buf'[c] = buf[c], wr'[c] = wr[c], wrsp'[c] = wrsp[c] PROVE Trims(Encoded(c)', Encoded(c))
  BY <1>2, <1>5, <1>6
<1>7. ASSUME UNCHANGED writer PROVE Trims(Encoded(c)', Encoded(c))
  BY <1>6, <1>7
<1>8. ASSUME NEW d \in Conns, WriterNext(d), d # c PROVE Trims(Encoded(c)', Encoded(c))
  <2>1. CASE WriterTakes(d)
    BY <1>3, <1>6, <1>8, <2>1 DEF WriterTakes
  <2>2. CASE WriterPolls(d)
    BY <1>3, <1>6, <1>8, <2>2 DEF WriterPolls
  <2>3. CASE WriterStops(d)
    BY <1>3, <1>6, <1>8, <2>3 DEF WriterStops
  <2>4. CASE WriterBuffers(d)
    BY <1>3, <1>6, <1>8, <2>4 DEF WriterBuffers
  <2>5. CASE WriterWrites(d)
    BY <1>3, <1>6, <1>8, <2>5 DEF WriterWrites
  <2>6. CASE WriterFails(d)
    BY <1>3, <1>6, <1>8, <2>6 DEF WriterFails
  <2>7. QED
    BY <1>8, <2>1, <2>2, <2>3, <2>4, <2>5, <2>6 DEF WriterNext
<1>9. ASSUME WriterTakes(c)
      PROVE  Encoded(c)' = Append(Encoded(c), [id |-> mID[Head(responses[c])], of |-> mResponse[Head(responses[c])]])
  <2>1. /\ wr[c] # "encode" /\ wr'[c] = "encode" /\ out' = out /\ buf' = buf
        /\ wrsp'[c] = [id |-> mID[Head(responses[c])], of |-> mResponse[Head(responses[c])]]
    BY <1>3, <1>9 DEF WriterTakes
  <2>2. Encoded(c)' = Append(out[c] \o buf[c], wrsp'[c]) /\ Encoded(c) = out[c] \o buf[c]
    <3>1. Encoded(c)' = Append(out'[c] \o buf'[c], wrsp'[c])
      BY <1>2, <2>1, Zenon
    <3>2. Encoded(c) = out[c] \o buf[c]
      BY <1>2, <2>1, Zenon
    <3>3. QED
      BY <2>1, <3>1, <3>2, Zenon
  <2>3. QED
    BY <2>1, <2>2, Zenon
<1>10. ASSUME wr[c] = "encode", wr'[c] # "encode",
              \/ out'[c] = out[c] /\ buf'[c] = buf[c]
              \/ out'[c] = out[c] /\ buf'[c] = Append(buf[c], wrsp[c])
              \/ out'[c] = out[c] /\ buf'[c] = <<>>
              \/ out'[c] = out[c] \o Append(buf[c], wrsp[c]) /\ buf'[c] = <<>>
       PROVE  Trims(Encoded(c)', Encoded(c))
  <2>1. Encoded(c) = Append(out[c] \o buf[c], wrsp[c]) /\ Encoded(c)' = out'[c] \o buf'[c]
    BY <1>2, <1>10
  <2>2. out[c] \o Append(buf[c], wrsp[c]) = Append(out[c] \o buf[c], wrsp[c])
    BY BufferedRow
  <2>3. out'[c] \o <<>> = out'[c]
    BY <1>1, RowRest
  <2>4. /\ Trims(out[c], Append(out[c] \o buf[c], wrsp[c]))
        /\ Trims(out[c] \o buf[c], Append(out[c] \o buf[c], wrsp[c]))
    BY <1>1, RowTrims
  <2>5. QED
    BY <1>4, <1>10, <2>1, <2>2, <2>3, <2>4
<1>11. CASE WriterPolls(c) \/ WriterStops(c)
  <2>1. wr[c] # "encode" /\ wr'[c] # "encode" /\ out' = out /\ buf' = buf /\ wrsp' = wrsp
    BY <1>3, <1>11 DEF WriterPolls, WriterStops
  <2>2. QED
    BY <1>2, <1>5, <2>1
<1>12. CASE WriterBuffers(c)
  BY <1>3, <1>10, <1>12 DEF WriterBuffers
<1>13. CASE WriterWrites(c) \/ WriterFails(c)
  <2>1. CASE WriterFails(c)
    BY <1>3, <1>10, <2>1 DEF WriterFails
  <2>2. CASE WriterWrites(c)
    <3>1. out' = out \/ out' = [out EXCEPT ![c] = out[c] \o Append(buf[c], wrsp[c])]
      BY <2>2 DEF WriterWrites
    <3>2. wr[c] = "encode" /\ wr'[c] = "loop" /\ buf'[c] = <<>>
      BY <1>3, <2>2 DEF WriterWrites
    <3>3. QED
      BY <1>3, <1>10, <3>1, <3>2
  <2>3. QED
    BY <1>13, <2>1, <2>2
<1>14. CASE Start \/ StartFails \/ Stop \/ StopReturns \/ AcceptorNext \/ UNCHANGED vars
  BY <1>7, <1>14
     DEF Start, StartFails, Stop, StopReturns, AcceptorNext, AcceptFails, AcceptAgain,
     AcceptStops, Accept, vars
<1>15. ASSUME NEW d \in Conns, Handshake(d) PROVE Trims(Encoded(c)', Encoded(c))
  <2>1. /\ out' = out /\ buf' = buf /\ wrsp' = wrsp /\ wr' = [wr EXCEPT ![d] = "loop"]
    BY <1>15 DEF Handshake
  <2>2. CASE d # c
    BY <1>3, <1>6, <2>1, <2>2
  <2>3. CASE d = c
    <3>1. CASE wr[c] = "encode"
      BY <1>3, <1>10, <2>1, <2>3, <3>1
    <3>2. CASE wr[c] # "encode"
      <4>1. wr'[c] # "encode"
        BY <1>3, <2>1, <2>3
      <4>2. QED
        BY <1>2, <1>5, <2>1, <3>2, <4>1
    <3>3. QED
      BY <3>1, <3>2
  <2>4. QED
    BY <2>2, <2>3
<1>16. ASSUME NEW d \in Conns, HandshakeFails(d) \/ ConnCloses(d) \/ ConnEnds(d) \/ ReaderNext(d) \/ Disconnect(d)
       PROVE  Trims(Encoded(c)', Encoded(c))
  BY <1>7, <1>16 DEF HandshakeFails, ConnCloses, ConnEnds, ReaderNext, ReaderDecodes, ReaderFails, ReaderSpins,
                     ReaderSpawns, ReaderWaits, ReaderStops, Disconnect
<1>17. ASSUME NEW x \in Workers, WorkerNext(x) PROVE Trims(Encoded(c)', Encoded(c))
  BY <1>7, <1>17
     DEF WorkerNext, WorkerStarts, WorkerHandles, WorkerPushes, WorkerWaits, WorkerGivesUp,
     WorkerReleases
<1>18. ASSUME NEW q \in Requests, ClientSends(q) PROVE Trims(Encoded(c)', Encoded(c))
  BY <1>7, <1>18 DEF ClientSends
<1>19. QED
  <2>1. ASSUME NEW d \in Conns, WriterNext(d)
        PROVE  Trims(Encoded(c)', Encoded(c)) \/ WriterTakes(c)
    BY <1>8, <1>11, <1>12, <1>13, <2>1 DEF WriterNext
  <2>2. QED
    BY <1>9, <1>14, <1>15, <1>16, <1>17, <1>18, <2>1 DEF Next, ConnNext, Finished

-----------------------------------------------------------------------------
(* The way of a request and its response. *)

(* The message has a request of connection c, under its ID; *)
Carries(m, c) == mRequest[m] \in Requests /\ ConnOf[mRequest[m]] = c /\ IDOf[mRequest[m]] = mID[m]

(* or the response to one that wants a response. *)
Answers(m, c) == mResponse[m] \in Requests /\ ConnOf[mResponse[m]] = c /\ IDOf[mResponse[m]] = mID[m] /\ mID[m] # 0

(* Where a request of connection c may be, and what is known of it there. *)
InRoute     == \A c \in Conns : \A i \in 1 .. Len(in[c]) : ConnOf[in[c][i]] = c
ReaderRoute == \A c \in Conns : rm[c] # Nil => Carries(rm[c], c)
WorkerRoute == \A x \in Workers :
  /\ wpc[x] = "start" => Carries(wm[x], wconn[x])
  /\ wpc[x] = "handle" => /\ wreq[x] \in Requests /\ ConnOf[wreq[x]] = wconn[x]
                          /\ wm[x] # Nil => IDOf[wreq[x]] = mID[wm[x]] /\ mID[wm[x]] # 0
  /\ wpc[x] \in {"push", "wait"} => Answers(wm[x], wconn[x])
QueueRoute  == \A c \in Conns : \A i \in 1 .. Len(responses[c]) : Answers(responses[c][i], c)
EncodedRoute == \A c \in Conns : \A i \in 1 .. Len(Encoded(c)) :
  LET r == Encoded(c)[i] IN r.of \in Requests /\ r.id # 0 /\ IDOf[r.of] = r.id /\ ConnOf[r.of] = c

RouteInv == InRoute /\ ReaderRoute /\ WorkerRoute /\ QueueRoute /\ EncodedRoute

(* Only its own client sends on a connection. *)
LEMMA InNext == ServerInv /\ HeldInv /\ RouteInv /\ [Next]_vars => InRoute'
<1> SUFFICES ASSUME ServerInv, HeldInv, RouteInv, [Next]_vars PROVE InRoute'
  OBVIOUS
<1> USE NilAssumption DEF server, message, worker, reader, writer
<1>1. ASSUME UNCHANGED in PROVE InRoute'
  BY <1>1 DEF RouteInv, InRoute
<1>2. in \in [Conns -> Seq(Requests)] /\ \A d \in Conns : in[d] \in Seq(Requests)
  BY DEF ServerInv, TypeOK
<1>3. ASSUME NEW c \in Conns, ReaderDecodes(c) PROVE InRoute'
  <2>1. in[c] # <<>> /\ in' = [in EXCEPT ![c] = Tail(in[c])]
    BY <1>3 DEF ReaderDecodes
  <2>2. /\ Len(Tail(in[c])) = Len(in[c]) - 1 /\ Len(in[c]) \in Nat \ {0}
        /\ \A i \in 1 .. Len(in[c]) - 1 : Tail(in[c])[i] = in[c][i + 1]
    BY <1>2, <2>1, HeadFacts
  <2>3. \A i \in 1 .. Len(Tail(in[c])) : ConnOf[Tail(in[c])[i]] = c
    BY <2>2 DEF RouteInv, InRoute
  <2>4. QED
    BY <1>2, <2>1, <2>3 DEF RouteInv, InRoute
<1>4. ASSUME NEW q \in Requests, ClientSends(q) PROVE InRoute'
  <2>1. in' = [in EXCEPT ![ConnOf[q]] = Append(in[ConnOf[q]], q)] /\ ConnOf[q] \in Conns
    BY <1>4, RequestsAssumption DEF ClientSends
  <2>2. /\ Len(Append(in[ConnOf[q]], q)) = Len(in[ConnOf[q]]) + 1 /\ Len(in[ConnOf[q]]) \in Nat
        /\ \A i \in 1 .. Len(in[ConnOf[q]]) : Append(in[ConnOf[q]], q)[i] = in[ConnOf[q]][i]
        /\ Append(in[ConnOf[q]], q)[Len(in[ConnOf[q]]) + 1] = q
    BY <1>2, <2>1, AppendFacts
  <2>3. \A i \in 1 .. Len(Append(in[ConnOf[q]], q)) : ConnOf[Append(in[ConnOf[q]], q)[i]] = ConnOf[q]
    BY <2>1, <2>2 DEF RouteInv, InRoute
  <2>4. QED
    BY <1>2, <2>1, <2>3 DEF RouteInv, InRoute
<1>5. CASE Start \/ StartFails \/ Stop \/ StopReturns \/ AcceptFails \/ AcceptAgain \/
         AcceptStops \/ UNCHANGED vars
  BY <1>5, <1>1 DEF Start, StartFails, Stop, StopReturns, AcceptFails, AcceptAgain, AcceptStops,
                vars
<1>6. ASSUME NEW c \in Conns,
          Accept(c) \/ Handshake(c) \/ HandshakeFails(c) \/ ConnCloses(c) \/ ConnEnds(c) \/
          Disconnect(c) \/ ReaderFails(c) \/ ReaderSpins(c) \/ ReaderSpawns(c) \/ ReaderWaits(c) \/
          ReaderStops(c) \/ WriterTakes(c) \/ WriterPolls(c) \/ WriterStops(c) \/
          WriterBuffers(c) \/ WriterWrites(c) \/ WriterFails(c)
      PROVE  InRoute'
  BY <1>6, <1>1 DEF Accept, Handshake, HandshakeFails, ConnCloses, ConnEnds, Disconnect,
                ReaderFails, ReaderSpins, ReaderSpawns, ReaderWaits, ReaderStops, WriterTakes, WriterPolls,
                WriterStops, WriterBuffers, WriterWrites, WriterFails
<1>7. ASSUME NEW x \in Workers,
          WorkerStarts(x) \/ WorkerHandles(x) \/ WorkerPushes(x) \/ WorkerWaits(x) \/
          WorkerGivesUp(x) \/ WorkerReleases(x)
      PROVE  InRoute'
  BY <1>7, <1>1 DEF WorkerStarts, WorkerHandles, WorkerPushes, WorkerWaits, WorkerGivesUp,
                WorkerReleases
<1>8. QED
  BY <1>3, <1>4, <1>5, <1>6, <1>7
  DEF Next, AcceptorNext, ConnNext, ReaderNext, WriterNext, WorkerNext, Finished

(* The message of a reader is its own from the decoder on. *)
LEMMA ReaderNextRoute == ServerInv /\ HeldInv /\ RouteInv /\ [Next]_vars => ReaderRoute'
<1> SUFFICES ASSUME ServerInv, HeldInv, RouteInv, [Next]_vars PROVE ReaderRoute'
  OBVIOUS
<1> USE NilAssumption DEF server, message, worker, reader, writer
<1>1. ASSUME UNCHANGED <<rm, mRequest, mID>> PROVE ReaderRoute'
  BY <1>1 DEF RouteInv, ReaderRoute, Carries
<1>2. /\ rm \in [Conns -> Messages \cup {Nil}] /\ mRequest \in [Messages -> Requests \cup {Nil}]
      /\ mID \in [Messages -> Nat] /\ \A d \in Conns : rm[d] # Nil => rm[d] \in Messages
  BY DEF ServerInv, TypeOK
<1>3. ASSUME NEW c \in Conns, ReaderDecodes(c) PROVE ReaderRoute'
  <2>1. PICK m \in pool : /\ rm' = [rm EXCEPT ![c] = m] /\ mID' = [mID EXCEPT ![m] = IDOf[Head(in[c])]]
                          /\ mRequest' = [mRequest EXCEPT ![m] = Head(in[c])]
    BY <1>3 DEF ReaderDecodes
  <2>2. in[c] \in Seq(Requests) /\ in[c] # <<>> /\ m \in Messages
    BY <1>3 DEF ReaderDecodes, ServerInv, TypeOK
  <2>3. Head(in[c]) = in[c][1] /\ Head(in[c]) \in Requests /\ 1 \in 1 .. Len(in[c])
    BY <2>2, HeadFacts
  <2>4. ConnOf[Head(in[c])] = c
    BY <2>3 DEF RouteInv, InRoute
  <2>5. \A d \in Conns : rm[d] # m
    BY DEF HeldInv, PoolAlone, Unread
  <2>6. QED
    BY <1>2, <2>1, <2>2, <2>3, <2>4, <2>5 DEF RouteInv, ReaderRoute, Carries
<1>4. ASSUME NEW c \in Conns, ReaderSpawns(c) PROVE ReaderRoute'
  BY <1>4, <1>2 DEF ReaderSpawns, RouteInv, ReaderRoute, Carries
<1>5. ASSUME NEW c \in Conns, ReaderStops(c) PROVE ReaderRoute'
  BY <1>5, <1>2 DEF ReaderStops, RouteInv, ReaderRoute, Carries
<1>6. ASSUME NEW x \in Workers, WorkerStarts(x) PROVE ReaderRoute'
  <2>1. \A d \in Conns : rm[d] # Nil => rm[d] # wm[x]
    BY DEF HeldInv, ReaderAlone, Unworked
  <2>2. mRequest' = [mRequest EXCEPT ![wm[x]] = Nil] /\ UNCHANGED <<rm, mID>>
    BY <1>6 DEF WorkerStarts
  <2>3. QED
    BY <1>2, <2>1, <2>2 DEF RouteInv, ReaderRoute, Carries
<1>7. CASE Start \/ StartFails \/ Stop \/ StopReturns \/ AcceptFails \/ AcceptAgain \/
         AcceptStops \/ UNCHANGED vars
  BY <1>7, <1>1 DEF Start, StartFails, Stop, StopReturns, AcceptFails, AcceptAgain, AcceptStops,
                vars
<1>8. ASSUME NEW c \in Conns,
          Accept(c) \/ Handshake(c) \/ HandshakeFails(c) \/ ConnCloses(c) \/ ConnEnds(c) \/
          Disconnect(c) \/ ReaderFails(c) \/ ReaderSpins(c) \/ ReaderWaits(c) \/ WriterTakes(c) \/
          WriterPolls(c) \/ WriterStops(c) \/ WriterBuffers(c) \/ WriterWrites(c) \/
          WriterFails(c)
      PROVE  ReaderRoute'
  BY <1>8, <1>1 DEF Accept, Handshake, HandshakeFails, ConnCloses, ConnEnds, Disconnect,
                ReaderFails, ReaderSpins, ReaderWaits, WriterTakes, WriterPolls, WriterStops, WriterBuffers,
                WriterWrites, WriterFails
<1>9. ASSUME NEW x \in Workers,
          WorkerHandles(x) \/ WorkerPushes(x) \/ WorkerWaits(x) \/ WorkerGivesUp(x) \/
          WorkerReleases(x)
      PROVE  ReaderRoute'
  BY <1>9, <1>1 DEF WorkerHandles, WorkerPushes, WorkerWaits, WorkerGivesUp, WorkerReleases
<1>10. ASSUME NEW q \in Requests, ClientSends(q) PROVE ReaderRoute'
  BY <1>10, <1>1 DEF ClientSends
<1>11. QED
  BY <1>3, <1>4, <1>5, <1>6, <1>7, <1>8, <1>9, <1>10
  DEF Next, AcceptorNext, ConnNext, ReaderNext, WriterNext, WorkerNext, Finished

(* A worker serves the request it was started for, and its message stays   *)
(* with it.                                                                *)
LEMMA WorkerNextRoute == ServerInv /\ HeldInv /\ RouteInv /\ [Next]_vars => WorkerRoute'
<1> SUFFICES ASSUME ServerInv, HeldInv, RouteInv, [Next]_vars PROVE WorkerRoute'
  OBVIOUS
<1> USE NilAssumption DEF server, message, worker, reader, writer
<1>1. ASSUME UNCHANGED <<wpc, wm, wreq, wconn, mRequest, mResponse, mID>> PROVE WorkerRoute'
  BY <1>1 DEF RouteInv, WorkerRoute, Carries, Answers
<1>2. /\ wpc \in [Workers -> {"idle", "start", "handle", "push", "wait", "release"}]
      /\ wm \in [Workers -> Messages \cup {Nil}] /\ wreq \in [Workers -> Requests \cup {Nil}]
      /\ wconn \in [Workers -> Conns \cup {Nil}] /\ mID \in [Messages -> Nat]
      /\ mRequest \in [Messages -> Requests \cup {Nil}] /\ mResponse \in [Messages -> Requests \cup {Nil}]
  BY DEF ServerInv, TypeOK
<1>3. \A y \in Workers : /\ wpc[y] \in {"start", "push", "wait"} => wm[y] # Nil
                         /\ wm[y] # Nil => wm[y] \in Messages
  BY DEF ServerInv, Phases, TypeOK
<1>4. \A x, y \in Workers : wm[y] # Nil /\ x # y => wm[x] # wm[y]
  BY DEF HeldInv, WorkerAlone
<1>5. ASSUME NEW c \in Conns, ReaderDecodes(c) PROVE WorkerRoute'
  <2>1. PICK m \in pool : /\ mID' = [mID EXCEPT ![m] = IDOf[Head(in[c])]]
                          /\ mRequest' = [mRequest EXCEPT ![m] = Head(in[c])]
    BY <1>5 DEF ReaderDecodes
  <2>2. UNCHANGED <<wpc, wm, wreq, wconn, mResponse>>
    BY <1>5 DEF ReaderDecodes
  <2>3. \A y \in Workers : wm[y] # m
    BY DEF HeldInv, PoolAlone, Unworked
  <2>4. \A y \in Workers : wm[y] # Nil => mID'[wm[y]] = mID[wm[y]] /\ mRequest'[wm[y]] = mRequest[wm[y]]
    BY <1>2, <1>3, <2>1, <2>3
  <2>5. QED
    BY <1>3, <2>2, <2>4 DEF RouteInv, WorkerRoute, Carries, Answers
<1>6. ASSUME NEW c \in Conns, ReaderSpawns(c) PROVE WorkerRoute'
  <2>1. PICK y \in Workers : /\ wpc' = [wpc EXCEPT ![y] = "start"] /\ wm' = [wm EXCEPT ![y] = rm[c]]
                             /\ wconn' = [wconn EXCEPT ![y] = c]
    BY <1>6 DEF ReaderSpawns
  <2>2. UNCHANGED <<wreq, mID, mRequest, mResponse>>
    BY <1>6 DEF ReaderSpawns
  <2>3. Carries(rm[c], c)
    BY <1>6 DEF ReaderSpawns, ServerInv, Phases, RouteInv, ReaderRoute
  <2>4. QED
    BY <1>2, <2>1, <2>2, <2>3 DEF RouteInv, WorkerRoute, Carries, Answers
<1>7. ASSUME NEW c \in Conns, WriterTakes(c) PROVE WorkerRoute'
  <2>1. /\ responses[c] \in Seq(Messages) /\ responses[c] # <<>>
        /\ mResponse' = [mResponse EXCEPT ![Head(responses[c])] = Nil]
        /\ UNCHANGED <<wpc, wm, wreq, wconn, mID, mRequest>>
    BY <1>7 DEF WriterTakes, ServerInv, TypeOK
  <2>2. Head(responses[c]) = responses[c][1] /\ 1 \in 1 .. Len(responses[c])
    BY <2>1, HeadFacts
  <2>3. \A y \in Workers : wm[y] # Nil => wm[y] # Head(responses[c])
    BY <2>2 DEF HeldInv, WorkerAlone, Unqueued
  <2>4. \A y \in Workers : wm[y] # Nil => mResponse'[wm[y]] = mResponse[wm[y]]
    BY <1>2, <1>3, <2>1, <2>3
  <2>5. QED
    BY <1>3, <2>1, <2>4 DEF RouteInv, WorkerRoute, Carries, Answers
<1>8. ASSUME NEW x \in Workers, WorkerStarts(x) PROVE WorkerRoute'
  <2>1. /\ wpc[x] = "start" /\ wpc' = [wpc EXCEPT ![x] = "handle"] /\ wm[x] # Nil
        /\ wreq' = [wreq EXCEPT ![x] = mRequest[wm[x]]] /\ mRequest' = [mRequest EXCEPT ![wm[x]] = Nil]
        /\ UNCHANGED <<wconn, mID>>
    BY <1>8, <1>3 DEF WorkerStarts
  <2>2. \/ mID[wm[x]] = 0 /\ wm' = [wm EXCEPT ![x] = Nil] /\ mResponse' = [mResponse EXCEPT ![wm[x]] = Nil]
        \/ mID[wm[x]] # 0 /\ UNCHANGED <<wm, mResponse>>
    BY <1>8 DEF WorkerStarts
  <2>3. Carries(wm[x], wconn[x])
    BY <2>1 DEF RouteInv, WorkerRoute
  <2>4. ASSUME NEW y \in Workers, y # x
        PROVE  /\ wpc'[y] = wpc[y] /\ wm'[y] = wm[y] /\ wreq'[y] = wreq[y]
               /\ wm[y] # Nil => mRequest'[wm[y]] = mRequest[wm[y]] /\ mResponse'[wm[y]] = mResponse[wm[y]]
    BY <1>2, <1>3, <1>4, <2>1, <2>2, <2>4
  <2>5. /\ wpc'[x] = "handle" /\ wreq'[x] = mRequest[wm[x]]
        /\ wm'[x] # Nil => wm'[x] = wm[x] /\ mID[wm[x]] # 0
    BY <1>2, <2>1, <2>2
  <2>6. QED
    BY <1>3, <2>1, <2>3, <2>4, <2>5 DEF RouteInv, WorkerRoute, Carries, Answers
<1>9. ASSUME NEW x \in Workers, WorkerHandles(x) PROVE WorkerRoute'
  <2>1. /\ wpc[x] = "handle" /\ wreq' = [wreq EXCEPT ![x] = Nil] /\ UNCHANGED <<wm, wconn, mID, mRequest>>
    BY <1>9 DEF WorkerHandles
  <2>2. \/ wm[x] # Nil /\ wpc' = [wpc EXCEPT ![x] = "push"] /\ mResponse' = [mResponse EXCEPT ![wm[x]] = wreq[x]]
        \/ wm[x] = Nil /\ wpc' = [wpc EXCEPT ![x] = "release"] /\ UNCHANGED mResponse
    BY <1>9 DEF WorkerHandles
  <2>3. /\ wreq[x] \in Requests /\ ConnOf[wreq[x]] = wconn[x]
        /\ wm[x] # Nil => IDOf[wreq[x]] = mID[wm[x]] /\ mID[wm[x]] # 0
    BY <2>1 DEF RouteInv, WorkerRoute
  <2>4. ASSUME NEW y \in Workers, y # x
        PROVE  /\ wpc'[y] = wpc[y] /\ wreq'[y] = wreq[y]
               /\ wm[y] # Nil => mResponse'[wm[y]] = mResponse[wm[y]]
    BY <1>2, <1>3, <1>4, <2>1, <2>2, <2>4
  <2>5. \/ wm[x] # Nil /\ wpc'[x] = "push" /\ mResponse'[wm[x]] = wreq[x]
        \/ wpc'[x] = "release"
    BY <1>2, <1>3, <2>2
  <2>6. QED
    BY <1>3, <2>1, <2>3, <2>4, <2>5 DEF RouteInv, WorkerRoute, Carries, Answers
<1>10. ASSUME NEW x \in Workers, WorkerPushes(x) PROVE WorkerRoute'
  BY <1>10, <1>2 DEF WorkerPushes, RouteInv, WorkerRoute, Carries, Answers
<1>11. ASSUME NEW x \in Workers, WorkerWaits(x) PROVE WorkerRoute'
  BY <1>11, <1>2 DEF WorkerWaits, RouteInv, WorkerRoute, Carries, Answers
<1>12. ASSUME NEW x \in Workers, WorkerGivesUp(x) PROVE WorkerRoute'
  <2>1. /\ wpc[x] = "wait" /\ wpc' = [wpc EXCEPT ![x] = "release"] /\ wm' = [wm EXCEPT ![x] = Nil]
        /\ mResponse' = [mResponse EXCEPT ![wm[x]] = Nil] /\ UNCHANGED <<wreq, wconn, mID, mRequest>>
    BY <1>12 DEF WorkerGivesUp
  <2>2. ASSUME NEW y \in Workers, y # x
        PROVE  /\ wpc'[y] = wpc[y] /\ wm'[y] = wm[y] /\ wm[y] # Nil => mResponse'[wm[y]] = mResponse[wm[y]]
    BY <1>2, <1>3, <1>4, <2>1, <2>2
  <2>3. wpc'[x] = "release"
    BY <1>2, <2>1
  <2>4. QED
    BY <1>3, <2>1, <2>2, <2>3 DEF RouteInv, WorkerRoute, Carries, Answers
<1>13. ASSUME NEW x \in Workers, WorkerReleases(x) PROVE WorkerRoute'
  BY <1>13, <1>2 DEF WorkerReleases, RouteInv, WorkerRoute, Carries, Answers
<1>14. CASE Start \/ StartFails \/ Stop \/ StopReturns \/ AcceptFails \/ AcceptAgain \/
         AcceptStops \/ UNCHANGED vars
  BY <1>14, <1>1 DEF Start, StartFails, Stop, StopReturns, AcceptFails, AcceptAgain, AcceptStops,
                vars
<1>15. ASSUME NEW c \in Conns,
          Accept(c) \/ Handshake(c) \/ HandshakeFails(c) \/ ConnCloses(c) \/ ConnEnds(c) \/
          Disconnect(c) \/ ReaderFails(c) \/ ReaderSpins(c) \/ ReaderWaits(c) \/ ReaderStops(c) \/
          WriterPolls(c) \/ WriterStops(c) \/ WriterBuffers(c) \/ WriterWrites(c) \/
          WriterFails(c)
      PROVE  WorkerRoute'
  BY <1>15, <1>1 DEF Accept, Handshake, HandshakeFails, ConnCloses, ConnEnds, Disconnect,
                ReaderFails, ReaderSpins, ReaderWaits, ReaderStops, WriterPolls, WriterStops, WriterBuffers,
                WriterWrites, WriterFails
<1>16. ASSUME NEW q \in Requests, ClientSends(q) PROVE WorkerRoute'
  BY <1>16, <1>1 DEF ClientSends
<1>17. QED
  BY <1>5, <1>6, <1>7, <1>8, <1>9, <1>10, <1>11, <1>12, <1>13, <1>14, <1>15, <1>16
  DEF Next, AcceptorNext, ConnNext, ReaderNext, WriterNext, WorkerNext, Finished

(* In a responsesChan there are responses to requests of its connection. *)
LEMMA QueueNextRoute == ServerInv /\ HeldInv /\ RouteInv /\ [Next]_vars => QueueRoute'
<1> SUFFICES ASSUME ServerInv, HeldInv, RouteInv, [Next]_vars PROVE QueueRoute'
  OBVIOUS
<1> USE NilAssumption DEF server, message, worker, reader, writer
<1>1. /\ mID \in [Messages -> Nat] /\ mResponse \in [Messages -> Requests \cup {Nil}]
      /\ responses \in [Conns -> Seq(Messages)] /\ TypeOK
      /\ \A d \in Conns : responses[d] \in Seq(Messages) /\ \A i \in 1 .. Len(responses[d]) : responses[d][i] \in Messages
  BY DEF ServerInv, TypeOK
<1>2. ASSUME NEW m \in Messages, Unqueued(m), UNCHANGED responses,
             mID' = [mID EXCEPT ![m] = mID'[m]], mResponse' = [mResponse EXCEPT ![m] = mResponse'[m]]
      PROVE  QueueRoute'
  BY <1>1, <1>2 DEF RouteInv, QueueRoute, Answers, Unqueued
<1>3. ASSUME UNCHANGED <<responses, mResponse, mID>> PROVE QueueRoute'
  BY <1>3 DEF RouteInv, QueueRoute, Answers
<1>4. \A y \in Workers : wm[y] # Nil => wm[y] \in Messages /\ Unqueued(wm[y])
  BY DEF HeldInv, WorkerAlone, ServerInv, TypeOK
<1>5. ASSUME NEW c \in Conns, ReaderDecodes(c) PROVE QueueRoute'
  <2>1. PICK m \in pool : mID' = [mID EXCEPT ![m] = IDOf[Head(in[c])]]
    BY <1>5 DEF ReaderDecodes
  <2>2. UNCHANGED <<responses, mResponse>> /\ m \in Messages
    BY <1>5 DEF ReaderDecodes, ServerInv, TypeOK
  <2>3. Unqueued(m)
    BY DEF HeldInv, PoolAlone
  <2>4. QED
    BY <1>1, <2>1, <2>2, <2>3 DEF RouteInv, QueueRoute, Answers, Unqueued
<1>6. ASSUME NEW c \in Conns, WriterTakes(c) PROVE QueueRoute'
  <2>1. /\ responses[c] # <<>> /\ responses' = [responses EXCEPT ![c] = Tail(responses[c])] /\ UNCHANGED mID
        /\ mResponse' = [mResponse EXCEPT ![Head(responses[c])] = Nil]
    BY <1>6 DEF WriterTakes
  <2>2. \A d \in Conns : \A i \in 1 .. Len(responses'[d]) : \E j \in 1 .. Len(responses[d]) :
          responses'[d][i] = responses[d][j] /\ (d = c => j = i + 1) /\ (d # c => j = i)
    BY <1>1, <2>1, TakenQueue
  <2>3. Head(responses[c]) = responses[c][1] /\ 1 \in 1 .. Len(responses[c])
    BY <1>1, <2>1, HeadFacts
  <2>4. ASSUME NEW d \in Conns, NEW i \in 1 .. Len(responses'[d]) PROVE Answers(responses[d][i], d)'
    <3>1. PICK j \in 1 .. Len(responses[d]) :
            responses'[d][i] = responses[d][j] /\ (d = c => j = i + 1) /\ (d # c => j = i)
      BY <2>2
    <3>2. responses[d][j] # Head(responses[c])
      <4>1. CASE d = c
        <5>1. j # 1
          BY <3>1, <4>1
        <5>2. QED
          BY <2>3, <4>1, <5>1 DEF HeldInv, QueueAlone
      <4>2. CASE d # c
        BY <2>3, <4>2 DEF HeldInv, QueueAlone
      <4>3. QED
        BY <4>1, <4>2
    <3>3. Answers(responses[d][j], d) /\ responses[d][j] \in Messages
      BY <1>1 DEF RouteInv, QueueRoute
    <3>4. mResponse'[responses[d][j]] = mResponse[responses[d][j]]
      BY <1>1, <2>1, <3>2, <3>3
    <3>5. QED
      BY <2>1, <3>1, <3>3, <3>4 DEF Answers
  <2>5. QED
    BY <2>4 DEF QueueRoute
<1>7. ASSUME NEW x \in Workers, WorkerStarts(x) PROVE QueueRoute'
  <2>1. wm[x] # Nil
    BY <1>7 DEF WorkerStarts, ServerInv, Phases
  <2>2. UNCHANGED <<responses, mID>> /\ (mResponse' = mResponse \/ mResponse' = [mResponse EXCEPT ![wm[x]] = Nil])
    BY <1>7 DEF WorkerStarts
  <2>3. QED
    BY <1>1, <1>3, <1>4, <2>1, <2>2 DEF RouteInv, QueueRoute, Answers, Unqueued
<1>8. ASSUME NEW x \in Workers, WorkerHandles(x) PROVE QueueRoute'
  <2>1. /\ UNCHANGED <<responses, mID>>
        /\ mResponse' = mResponse \/ (wm[x] # Nil /\ mResponse' = [mResponse EXCEPT ![wm[x]] = wreq[x]])
    BY <1>8 DEF WorkerHandles
  <2>2. QED
    BY <1>1, <1>3, <1>4, <2>1 DEF RouteInv, QueueRoute, Answers, Unqueued
<1>9. ASSUME NEW x \in Workers, WorkerPushes(x) PROVE QueueRoute'
  <2>1. /\ wm[x] # Nil /\ wconn[x] \in Conns /\ UNCHANGED <<mID, mResponse>>
        /\ responses' = [responses EXCEPT ![wconn[x]] = Append(responses[wconn[x]], wm[x])]
    BY <1>9 DEF WorkerPushes, ServerInv, Phases, TypeOK
  <2>2. Answers(wm[x], wconn[x])
    BY <1>9 DEF WorkerPushes, RouteInv, WorkerRoute
  <2>3. \A d \in Conns : \A i \in 1 .. Len(responses'[d]) :
          \/ i \in 1 .. Len(responses[d]) /\ responses'[d][i] = responses[d][i]
          \/ d = wconn[x] /\ i = Len(responses[d]) + 1 /\ responses'[d][i] = wm[x]
    BY <1>1, <1>4, <2>1, PushedQueue
  <2>4. ASSUME NEW d \in Conns, NEW i \in 1 .. Len(responses'[d]) PROVE Answers(responses[d][i], d)'
    <3>1. CASE i \in 1 .. Len(responses[d]) /\ responses'[d][i] = responses[d][i]
      <4>1. Answers(responses[d][i], d)
        BY <3>1 DEF RouteInv, QueueRoute
      <4>2. QED
        BY <2>1, <3>1, <4>1 DEF Answers
    <3>2. CASE d = wconn[x] /\ responses'[d][i] = wm[x]
      BY <2>1, <2>2, <3>2 DEF Answers
    <3>3. QED
      BY <2>3, <3>1, <3>2
  <2>5. QED
    BY <2>4 DEF QueueRoute
<1>10. ASSUME NEW x \in Workers, WorkerGivesUp(x) PROVE QueueRoute'
  <2>1. UNCHANGED <<responses, mID>> /\ wm[x] # Nil /\ mResponse' = [mResponse EXCEPT ![wm[x]] = Nil]
    BY <1>10 DEF WorkerGivesUp, ServerInv, Phases
  <2>2. QED
    BY <1>1, <1>3, <1>4, <2>1 DEF RouteInv, QueueRoute, Answers, Unqueued
<1>11. CASE Start \/ StartFails \/ Stop \/ StopReturns \/ AcceptFails \/ AcceptAgain \/
         AcceptStops \/ UNCHANGED vars
  BY <1>11, <1>3 DEF Start, StartFails, Stop, StopReturns, AcceptFails, AcceptAgain, AcceptStops,
                vars
<1>12. ASSUME NEW c \in Conns,
          Accept(c) \/ Handshake(c) \/ HandshakeFails(c) \/ ConnCloses(c) \/ ConnEnds(c) \/
          Disconnect(c) \/ ReaderFails(c) \/ ReaderSpins(c) \/ ReaderSpawns(c) \/ ReaderWaits(c) \/
          ReaderStops(c) \/ WriterPolls(c) \/ WriterStops(c) \/ WriterBuffers(c) \/
          WriterWrites(c) \/ WriterFails(c)
      PROVE  QueueRoute'
  BY <1>12, <1>3 DEF Accept, Handshake, HandshakeFails, ConnCloses, ConnEnds, Disconnect,
                ReaderFails, ReaderSpins, ReaderSpawns, ReaderWaits, ReaderStops, WriterPolls, WriterStops,
                WriterBuffers, WriterWrites, WriterFails
<1>13. ASSUME NEW x \in Workers, WorkerWaits(x) \/ WorkerReleases(x) PROVE QueueRoute'
  BY <1>13, <1>3 DEF WorkerWaits, WorkerReleases
<1>14. ASSUME NEW q \in Requests, ClientSends(q) PROVE QueueRoute'
  BY <1>14, <1>3 DEF ClientSends
<1>15. QED
  BY <1>5, <1>6, <1>7, <1>8, <1>9, <1>10, <1>11, <1>12, <1>13, <1>14
  DEF Next, AcceptorNext, ConnNext, ReaderNext, WriterNext, WorkerNext, Finished

(* What is encoded was in the responsesChan before. *)
LEMMA EncodedNextRoute == ServerInv /\ HeldInv /\ RouteInv /\ [Next]_vars => EncodedRoute'
<1> SUFFICES ASSUME ServerInv, HeldInv, RouteInv, [Next]_vars, NEW c \in Conns, NEW i \in 1 .. Len(Encoded(c)')
             PROVE  LET r == Encoded(c)'[i] IN r.of \in Requests /\ r.id # 0 /\ IDOf[r.of] = r.id /\ ConnOf[r.of] = c
  BY DEF EncodedRoute
<1>1. TypeOK /\ TypeOK'
  BY NextTypes DEF ServerInv
<1>2. Encoded(c) \in Seq(Responses) /\ Len(Encoded(c)) \in Nat
  BY <1>1, EncodedType DEF EncodedTypes
<1>3. CASE Trims(Encoded(c)', Encoded(c))
  <2>1. Encoded(c)' \in Seq(Responses) /\ Len(Encoded(c)') \in Nat
    <3>1. EncodedTypes'
      BY <1>1, EncodedType, PTL
    <3>2. QED
      BY <3>1 DEF EncodedTypes
  <2>2. i \in 1 .. Len(Encoded(c)) /\ Encoded(c)'[i] = Encoded(c)[i]
    BY <1>2, <1>3, <2>1 DEF Trims
  <2>3. QED
    BY <2>2 DEF RouteInv, EncodedRoute
<1>4. ASSUME WriterTakes(c), NEW m, m = Head(responses[c]),
             Encoded(c)' = Append(Encoded(c), [id |-> mID[m], of |-> mResponse[m]])
      PROVE  LET r == Encoded(c)'[i] IN r.of \in Requests /\ r.id # 0 /\ IDOf[r.of] = r.id /\ ConnOf[r.of] = c
  <2>1. responses[c] \in Seq(Messages) /\ responses[c] # <<>>
    BY <1>1, <1>4 DEF TypeOK, WriterTakes
  <2>2. m = responses[c][1] /\ 1 \in 1 .. Len(responses[c]) /\ m \in Messages
    BY <1>4, <2>1, HeadFacts
  <2>3. Answers(m, c)
    BY <2>2 DEF RouteInv, QueueRoute
  <2>4. PICK r \in Responses : r = [id |-> mID[m], of |-> mResponse[m]]
    <3>1. mID[m] \in Nat /\ mResponse[m] \in Requests \cup {Nil}
      <4>1. mID \in [Messages -> Nat] /\ mResponse \in [Messages -> Requests \cup {Nil}]
        BY <1>1 DEF TypeOK
      <4>2. QED
        BY <2>2, <4>1
    <3>2. [id |-> mID[m], of |-> mResponse[m]] \in Responses
      BY <3>1 DEF Responses
    <3>3. QED
      BY <3>2
  <2>5. /\ Len(Encoded(c)') = Len(Encoded(c)) + 1
        /\ \A j \in 1 .. Len(Encoded(c)) : Encoded(c)'[j] = Encoded(c)[j]
        /\ Encoded(c)'[Len(Encoded(c)) + 1] = r
    BY <1>2, <1>4, <2>4, AppendFacts
  <2>6. CASE i \in 1 .. Len(Encoded(c))
    BY <2>5, <2>6 DEF RouteInv, EncodedRoute
  <2>7. CASE i = Len(Encoded(c)) + 1
    BY <2>3, <2>4, <2>5, <2>7 DEF Answers
  <2>8. QED
    BY <1>2, <2>5, <2>6, <2>7
<1>5. QED
  BY <1>1, <1>3, <1>4, EncodedNext

(* RouteInv is inductive. *)
LEMMA RouteNext == ServerInv /\ HeldInv /\ RouteInv /\ [Next]_vars => RouteInv'
BY InNext, ReaderNextRoute, WorkerNextRoute, QueueNextRoute, EncodedNextRoute DEF RouteInv

(* At first there is nothing on its way. *)
LEMMA RouteInit == Init => RouteInv
BY NilAssumption
   DEF Init, RouteInv, InRoute, ReaderRoute, WorkerRoute, QueueRoute, EncodedRoute, Encoded

-----------------------------------------------------------------------------
(* A request is in one place at a time: not yet sent, on the wire, in a    *)
(* message, with a worker, in a message as a response, or encoded.         *)

(* q has not come as far as the encoder, a response, a worker, ... *)
Unencoded(q)  == \A c \in Conns : \A i \in 1 .. Len(Encoded(c)) : Encoded(c)[i].of # q
Unanswered(q) == Unencoded(q) /\ \A m \in Messages : mResponse[m] # q
Unserved(q)   == Unanswered(q) /\ \A x \in Workers : wreq[x] # q
Undecoded(q)  == Unserved(q) /\ \A m \in Messages : mRequest[m] # q
Unreceived(q) == Undecoded(q) /\ \A c \in Conns : \A i \in 1 .. Len(in[c]) : in[c][i] # q

UnsentOnce   == \A q \in unsent : Unreceived(q)
InOnce       == \A q \in Requests : \A c \in Conns : \A i \in 1 .. Len(in[c]) : in[c][i] = q =>
  Undecoded(q) /\ \A d \in Conns : \A j \in 1 .. Len(in[d]) : in[d][j] = q => d = c /\ j = i
DecodedOnce  == \A q \in Requests : \A m \in Messages : mRequest[m] = q =>
  Unserved(q) /\ \A n \in Messages : mRequest[n] = q => n = m
ServedOnce   == \A q \in Requests : \A x \in Workers : wreq[x] = q =>
  Unanswered(q) /\ \A y \in Workers : wreq[y] = q => y = x
AnsweredOnce == \A q \in Requests : \A m \in Messages : mResponse[m] = q =>
  Unencoded(q) /\ \A n \in Messages : mResponse[n] = q => n = m
EncodedOnce  == \A c, d \in Conns : \A i \in 1 .. Len(Encoded(c)), j \in 1 .. Len(Encoded(d)) :
  Encoded(c)[i].of = Encoded(d)[j].of => c = d /\ i = j

OnceInv == UnsentOnce /\ InOnce /\ DecodedOnce /\ ServedOnce /\ AnsweredOnce /\ EncodedOnce

(* Nothing new is encoded. *)
EncodesNone == \A c \in Conns : \A i \in 1 .. Len(Encoded(c)') :
  i \in 1 .. Len(Encoded(c)) /\ Encoded(c)'[i] = Encoded(c)[i]

(* Requests are only dropped. *)
LEMMA OnceDrops ==
  ASSUME TypeOK, OnceInv, EncodesNone, unsent' = unsent, in' = in,
         \A m \in Messages : mRequest'[m] \in {mRequest[m], Nil} /\ mResponse'[m] \in {mResponse[m], Nil},
         \A x \in Workers : wreq'[x] \in {wreq[x], Nil}
  PROVE  OnceInv'
<1>1. Nil \notin Requests /\ unsent \subseteq Requests
  BY NilAssumption DEF TypeOK
<1>2. ASSUME NEW q, Unencoded(q) PROVE Unencoded(q)'
  BY <1>2 DEF EncodesNone, Unencoded
<1>3. ASSUME NEW q \in Requests, Unanswered(q) PROVE Unanswered(q)'
  BY <1>1, <1>2, <1>3 DEF Unanswered
<1>4. ASSUME NEW q \in Requests, Unserved(q) PROVE Unserved(q)'
  BY <1>1, <1>3, <1>4 DEF Unserved
<1>5. ASSUME NEW q \in Requests, Undecoded(q) PROVE Undecoded(q)'
  BY <1>1, <1>4, <1>5 DEF Undecoded
<1>6. UnsentOnce'
  BY <1>1, <1>5 DEF OnceInv, UnsentOnce, Unreceived
<1>7. InOnce'
  BY <1>5 DEF OnceInv, InOnce
<1>8. DecodedOnce'
  BY <1>1, <1>4 DEF OnceInv, DecodedOnce
<1>9. ServedOnce'
  BY <1>1, <1>3 DEF OnceInv, ServedOnce
<1>10. AnsweredOnce'
  BY <1>1, <1>2 DEF OnceInv, AnsweredOnce
<1>11. EncodedOnce'
  BY DEF OnceInv, EncodedOnce, EncodesNone
<1>12. QED
  BY <1>6, <1>7, <1>8, <1>9, <1>10, <1>11 DEF OnceInv

(* A client sends q. *)
LEMMA OnceSends ==
  ASSUME TypeOK, OnceInv, EncodesNone, NEW q \in unsent, unsent' = unsent \ {q},
         in' = [in EXCEPT ![ConnOf[q]] = Append(in[ConnOf[q]], q)], UNCHANGED <<mRequest, mResponse, wreq>>
  PROVE  OnceInv'
<1>1. /\ q \in Requests /\ ConnOf[q] \in Conns /\ in \in [Conns -> Seq(Requests)]
      /\ \A c \in Conns : in[c] \in Seq(Requests) /\ Len(in[c]) \in Nat
  BY RequestsAssumption DEF TypeOK
<1>2. /\ Len(Append(in[ConnOf[q]], q)) = Len(in[ConnOf[q]]) + 1
      /\ \A i \in 1 .. Len(in[ConnOf[q]]) : Append(in[ConnOf[q]], q)[i] = in[ConnOf[q]][i]
      /\ Append(in[ConnOf[q]], q)[Len(in[ConnOf[q]]) + 1] = q
  BY <1>1, AppendFacts
<1>3. \A c \in Conns : \A i \in 1 .. Len(in'[c]) :
        \/ i \in 1 .. Len(in[c]) /\ in'[c][i] = in[c][i]
        \/ c = ConnOf[q] /\ i = Len(in[c]) + 1 /\ in'[c][i] = q
  BY <1>1, <1>2
<1>4. ASSUME NEW r, Undecoded(r) PROVE Undecoded(r)'
  BY <1>4 DEF EncodesNone, Undecoded, Unserved, Unanswered, Unencoded
<1>5. Undecoded(q) /\ \A c \in Conns : \A i \in 1 .. Len(in[c]) : in[c][i] # q
  BY DEF OnceInv, UnsentOnce, Unreceived
<1>6. UnsentOnce'
  BY <1>3, <1>4 DEF OnceInv, UnsentOnce, Unreceived
<1>7. InOnce'
  <2> SUFFICES ASSUME NEW r \in Requests, NEW c \in Conns, NEW i \in 1 .. Len(in'[c]), in'[c][i] = r
               PROVE  /\ Undecoded(r)'
                      /\ \A d \in Conns : \A j \in 1 .. Len(in'[d]) : in'[d][j] = r => d = c /\ j = i
    BY DEF InOnce
  <2>1. Undecoded(r)
    BY <1>3, <1>5 DEF OnceInv, InOnce
  <2>2. ASSUME NEW d \in Conns, NEW j \in 1 .. Len(in'[d]), in'[d][j] = r PROVE d = c /\ j = i
    BY <1>3, <1>5, <2>2 DEF OnceInv, InOnce
  <2>3. QED
    BY <1>4, <2>1, <2>2
<1>8. DecodedOnce'
  BY DEF OnceInv, DecodedOnce, EncodesNone, Unserved, Unanswered, Unencoded
<1>9. ServedOnce'
  BY DEF OnceInv, ServedOnce, EncodesNone, Unanswered, Unencoded
<1>10. AnsweredOnce'
  BY DEF OnceInv, AnsweredOnce, EncodesNone, Unencoded
<1>11. EncodedOnce'
  BY DEF OnceInv, EncodedOnce, EncodesNone
<1>12. QED
  BY <1>6, <1>7, <1>8, <1>9, <1>10, <1>11 DEF OnceInv

(* A reader decodes q into its message. *)
LEMMA OnceDecodes ==
  ASSUME TypeOK, OnceInv, EncodesNone, NEW c \in Conns, in[c] # <<>>, in' = [in EXCEPT ![c] = Tail(in[c])],
         NEW m \in Messages, mRequest' = [mRequest EXCEPT ![m] = Head(in[c])], UNCHANGED <<unsent, mResponse, wreq>>
  PROVE  OnceInv'
<1>1. /\ in \in [Conns -> Seq(Requests)] /\ mRequest \in [Messages -> Requests \cup {Nil}]
      /\ \A d \in Conns : in[d] \in Seq(Requests) /\ Len(in[d]) \in Nat
  BY DEF TypeOK
<1>2. PICK q \in Requests : q = Head(in[c]) /\ q = in[c][1] /\ 1 \in 1 .. Len(in[c])
  BY <1>1, HeadFacts
<1>3. /\ Len(Tail(in[c])) = Len(in[c]) - 1 /\ \A i \in 1 .. Len(in[c]) - 1 : Tail(in[c])[i] = in[c][i + 1]
  BY <1>1, HeadFacts
<1>4. ASSUME NEW d \in Conns, NEW i \in 1 .. Len(in'[d])
      PROVE  \E j \in 1 .. Len(in[d]) : in'[d][i] = in[d][j] /\ (d = c => j = i + 1) /\ (d # c => j = i)
  <2>1. CASE d = c
    <3>1. i + 1 \in 1 .. Len(in[c]) /\ in'[d][i] = in[c][i + 1]
      BY <1>1, <1>3, <2>1
    <3>2. QED
      BY <2>1, <3>1
  <2>2. CASE d # c
    BY <1>1, <2>2
  <2>3. QED
    BY <2>1, <2>2
<1>5. Undecoded(q)
  BY <1>2 DEF OnceInv, InOnce
<1>6. ASSUME NEW r, Unserved(r) PROVE Unserved(r)'
  BY <1>6 DEF EncodesNone, Unserved, Unanswered, Unencoded
<1>7. ASSUME NEW r, r # q, Undecoded(r) PROVE Undecoded(r)'
  BY <1>1, <1>2, <1>6, <1>7 DEF Undecoded
<1>8. UnsentOnce'
  <2> SUFFICES ASSUME NEW r \in unsent PROVE Unreceived(r)'
    BY DEF UnsentOnce
  <2>1. Unreceived(r)
    BY DEF OnceInv, UnsentOnce
  <2>2. r # q /\ \A d \in Conns : \A i \in 1 .. Len(in'[d]) : in'[d][i] # r
    BY <1>2, <1>4, <2>1 DEF Unreceived
  <2>3. QED
    BY <1>7, <2>1, <2>2 DEF Unreceived
<1>9. InOnce'
  <2> SUFFICES ASSUME NEW r \in Requests, NEW d \in Conns, NEW i \in 1 .. Len(in'[d]), in'[d][i] = r
               PROVE  /\ Undecoded(r)'
                      /\ \A e \in Conns : \A j \in 1 .. Len(in'[e]) : in'[e][j] = r => e = d /\ j = i
    BY DEF InOnce
  <2>1. PICK k \in 1 .. Len(in[d]) : in'[d][i] = in[d][k] /\ (d = c => k = i + 1) /\ (d # c => k = i)
    BY <1>4
  <2>2. Undecoded(r)
    BY <2>1 DEF OnceInv, InOnce
  <2>3. r # q
    <3>1. d = c => k # 1
      BY <2>1
    <3>2. QED
      BY <1>2, <2>1, <3>1 DEF OnceInv, InOnce
  <2>4. ASSUME NEW e \in Conns, NEW j \in 1 .. Len(in'[e]), in'[e][j] = r PROVE e = d /\ j = i
    <3>1. PICK l \in 1 .. Len(in[e]) : in'[e][j] = in[e][l] /\ (e = c => l = j + 1) /\ (e # c => l = j)
      BY <1>4
    <3>2. e = d /\ l = k
      BY <2>1, <2>4, <3>1 DEF OnceInv, InOnce
    <3>3. QED
      BY <2>1, <3>1, <3>2
  <2>5. QED
    BY <1>7, <2>2, <2>3, <2>4
<1>10. DecodedOnce'
  <2> SUFFICES ASSUME NEW r \in Requests, NEW n \in Messages, mRequest'[n] = r
               PROVE  Unserved(r)' /\ \A k \in Messages : mRequest'[k] = r => k = n
    BY DEF DecodedOnce
  <2>1. /\ mRequest'[m] = q /\ \A k \in Messages \ {m} : mRequest'[k] = mRequest[k]
        /\ \A k \in Messages : mRequest[k] # q
    BY <1>1, <1>2, <1>5 DEF Undecoded
  <2>2. CASE n = m
    BY <1>5, <1>6, <2>1, <2>2 DEF Undecoded
  <2>3. CASE n # m
    BY <1>6, <2>1, <2>3 DEF OnceInv, DecodedOnce
  <2>4. QED
    BY <2>2, <2>3
<1>11. ServedOnce'
  BY DEF OnceInv, ServedOnce, EncodesNone, Unanswered, Unencoded
<1>12. AnsweredOnce'
  BY DEF OnceInv, AnsweredOnce, EncodesNone, Unencoded
<1>13. EncodedOnce'
  BY DEF OnceInv, EncodedOnce, EncodesNone
<1>14. QED
  BY <1>8, <1>9, <1>10, <1>11, <1>12, <1>13 DEF OnceInv

(* A worker takes q out of its message. *)
LEMMA OnceServes ==
  ASSUME TypeOK, OnceInv, EncodesNone, NEW x \in Workers, NEW m \in Messages, NEW q \in Requests, mRequest[m] = q,
         mRequest' = [mRequest EXCEPT ![m] = Nil], wreq' = [wreq EXCEPT ![x] = q],
         \A n \in Messages : mResponse'[n] \in {mResponse[n], Nil}, UNCHANGED <<unsent, in>>
  PROVE  OnceInv'
<1>1. /\ mRequest \in [Messages -> Requests \cup {Nil}] /\ wreq \in [Workers -> Requests \cup {Nil}]
      /\ Nil \notin Requests /\ unsent \subseteq Requests
  BY NilAssumption DEF TypeOK
<1>2. /\ Unserved(q) /\ mRequest'[m] = Nil /\ wreq'[x] = q
      /\ \A n \in Messages \ {m} : mRequest'[n] = mRequest[n] /\ mRequest[n] # q
      /\ \A y \in Workers : y # x => wreq'[y] = wreq[y]
  BY <1>1 DEF OnceInv, DecodedOnce
<1>3. ASSUME NEW r \in Requests, Unanswered(r) PROVE Unanswered(r)'
  BY <1>1, <1>3 DEF EncodesNone, Unanswered, Unencoded
<1>4. ASSUME NEW r \in Requests, r # q, Unserved(r) PROVE Unserved(r)'
  BY <1>2, <1>3, <1>4 DEF Unserved
<1>5. ASSUME NEW r \in Requests, Undecoded(r) PROVE Undecoded(r)'
  <2>1. r # q /\ Unserved(r)
    BY <1>5 DEF Undecoded
  <2>2. QED
    BY <1>1, <1>2, <1>4, <1>5, <2>1 DEF Undecoded
<1>6. UnsentOnce'
  BY <1>1, <1>5 DEF OnceInv, UnsentOnce, Unreceived
<1>7. InOnce'
  BY <1>5 DEF OnceInv, InOnce
<1>8. DecodedOnce'
  BY <1>1, <1>2, <1>4 DEF OnceInv, DecodedOnce
<1>9. ServedOnce'
  BY <1>1, <1>2, <1>3 DEF OnceInv, ServedOnce, Unserved
<1>10. AnsweredOnce'
  BY <1>1 DEF OnceInv, AnsweredOnce, EncodesNone, Unencoded
<1>11. EncodedOnce'
  BY DEF OnceInv, EncodedOnce, EncodesNone
<1>12. QED
  BY <1>6, <1>7, <1>8, <1>9, <1>10, <1>11 DEF OnceInv

(* The handler returns the response to q. *)
LEMMA OnceAnswers ==
  ASSUME TypeOK, OnceInv, EncodesNone, NEW x \in Workers, NEW m \in Messages, NEW q \in Requests, wreq[x] = q,
         wreq' = [wreq EXCEPT ![x] = Nil], mResponse' = [mResponse EXCEPT ![m] = q], UNCHANGED <<unsent, in, mRequest>>
  PROVE  OnceInv'
<1>1. /\ mResponse \in [Messages -> Requests \cup {Nil}] /\ wreq \in [Workers -> Requests \cup {Nil}]
      /\ Nil \notin Requests /\ unsent \subseteq Requests
  BY NilAssumption DEF TypeOK
<1>2. /\ Unanswered(q) /\ wreq'[x] = Nil /\ mResponse'[m] = q
      /\ \A y \in Workers : y # x => wreq'[y] = wreq[y] /\ wreq[y] # q
      /\ \A n \in Messages : n # m => mResponse'[n] = mResponse[n]
  BY <1>1 DEF OnceInv, ServedOnce
<1>3. ASSUME NEW r \in Requests, Unencoded(r) PROVE Unencoded(r)'
  BY <1>3 DEF EncodesNone, Unencoded
<1>4. ASSUME NEW r \in Requests, r # q, Unanswered(r) PROVE Unanswered(r)'
  BY <1>2, <1>3, <1>4 DEF Unanswered
<1>5. ASSUME NEW r \in Requests, Unserved(r) PROVE Unserved(r)'
  <2>1. r # q /\ Unanswered(r)
    BY <1>5 DEF Unserved
  <2>2. QED
    BY <1>1, <1>2, <1>4, <1>5, <2>1 DEF Unserved
<1>6. UnsentOnce'
  BY <1>1, <1>5 DEF OnceInv, UnsentOnce, Unreceived, Undecoded
<1>7. InOnce'
  BY <1>5 DEF OnceInv, InOnce, Undecoded
<1>8. DecodedOnce'
  BY <1>5 DEF OnceInv, DecodedOnce
<1>9. ServedOnce'
  BY <1>1, <1>2, <1>4 DEF OnceInv, ServedOnce
<1>10. AnsweredOnce'
  BY <1>1, <1>2, <1>3 DEF OnceInv, AnsweredOnce, Unanswered
<1>11. EncodedOnce'
  BY DEF OnceInv, EncodedOnce, EncodesNone
<1>12. QED
  BY <1>6, <1>7, <1>8, <1>9, <1>10, <1>11 DEF OnceInv

(* The writer encodes the response to q as the last one of connection c. *)
LEMMA OnceEncodes ==
  ASSUME TypeOK, OnceInv, NEW c \in Conns, NEW m \in Messages, NEW q \in Requests, mResponse[m] = q,
         mResponse' = [mResponse EXCEPT ![m] = Nil], UNCHANGED <<unsent, in, mRequest, wreq>>,
         \A d \in Conns : \A i \in 1 .. Len(Encoded(d)') :
           \/ i \in 1 .. Len(Encoded(d)) /\ Encoded(d)'[i] = Encoded(d)[i]
           \/ d = c /\ i = Len(Encoded(c)) + 1 /\ Encoded(d)'[i].of = q
  PROVE  OnceInv'
<1>1. /\ mResponse \in [Messages -> Requests \cup {Nil}] /\ Nil \notin Requests /\ unsent \subseteq Requests
  BY NilAssumption DEF TypeOK
<1>2. Unencoded(q) /\ mResponse'[m] = Nil /\ \A n \in Messages : n # m => mResponse'[n] = mResponse[n] /\ mResponse[n] # q
  BY <1>1 DEF OnceInv, AnsweredOnce
<1>3. ASSUME NEW r \in Requests, r # q, Unencoded(r) PROVE Unencoded(r)'
  BY <1>3 DEF Unencoded
<1>4. ASSUME NEW r \in Requests, Unanswered(r) PROVE Unanswered(r)'
  <2>1. r # q /\ Unencoded(r)
    BY <1>4 DEF Unanswered
  <2>2. QED
    BY <1>1, <1>2, <1>3, <1>4, <2>1 DEF Unanswered
<1>5. UnsentOnce'
  BY <1>1, <1>4 DEF OnceInv, UnsentOnce, Unreceived, Undecoded, Unserved
<1>6. InOnce'
  BY <1>4 DEF OnceInv, InOnce, Undecoded, Unserved
<1>7. DecodedOnce'
  BY <1>4 DEF OnceInv, DecodedOnce, Unserved
<1>8. ServedOnce'
  BY <1>4 DEF OnceInv, ServedOnce
<1>9. AnsweredOnce'
  BY <1>1, <1>2, <1>3 DEF OnceInv, AnsweredOnce
<1>10. EncodedOnce'
  BY <1>2 DEF OnceInv, EncodedOnce, Unencoded
<1>11. QED
  BY <1>5, <1>6, <1>7, <1>8, <1>9, <1>10 DEF OnceInv

(* Every step moves at most one request one place further, or drops it. *)
LEMMA OnceNext == ServerInv /\ HeldInv /\ RouteInv /\ OnceInv /\ [Next]_vars => OnceInv'
<1> SUFFICES ASSUME ServerInv, HeldInv, RouteInv, OnceInv, [Next]_vars PROVE OnceInv'
  OBVIOUS
<1> USE DEF server, message, worker, reader, writer
<1>1. TypeOK /\ TypeOK' /\ EncodedTypes /\ EncodedTypes'
  <2>1. TypeOK /\ TypeOK'
    BY NextTypes DEF ServerInv
  <2>2. QED
    BY <2>1, EncodedType, PTL
<1>2. ASSUME NEW d \in Conns, Trims(Encoded(d)', Encoded(d)), NEW i \in 1 .. Len(Encoded(d)')
      PROVE  i \in 1 .. Len(Encoded(d)) /\ Encoded(d)'[i] = Encoded(d)[i]
  <2>1. Len(Encoded(d)) \in Nat /\ Len(Encoded(d)') \in Nat
    BY <1>1 DEF EncodedTypes
  <2>2. QED
    BY <1>2, <2>1 DEF Trims
<1>3. ASSUME NEW d \in Conns, wr'[d] = "encode" => wr[d] = "encode" PROVE Trims(Encoded(d)', Encoded(d))
  <2>1. ~WriterTakes(d)
    BY <1>1, <1>3 DEF WriterTakes, TypeOK
  <2>2. QED
    BY <1>1, <2>1, EncodedNext
<1>4. ASSUME \A d \in Conns : wr'[d] = "encode" => wr[d] = "encode" PROVE EncodesNone
  BY <1>2, <1>3, <1>4 DEF EncodesNone
<1>5. ASSUME UNCHANGED <<unsent, in, mRequest, mResponse, wreq>>,
             \A d \in Conns : wr'[d] = "encode" => wr[d] = "encode"
      PROVE  OnceInv'
  BY <1>1, <1>4, <1>5, OnceDrops
<1>6. ASSUME UNCHANGED <<unsent, in, mRequest, mResponse, wreq, wr>> PROVE OnceInv'
  BY <1>5, <1>6
<1>7. wr \in [Conns -> {"off", "loop", "select", "encode", "done"}]
  BY <1>1 DEF TypeOK
<1>8. ASSUME NEW q \in Requests, ClientSends(q) PROVE OnceInv'
  BY <1>8, <1>1, <1>4, OnceSends DEF ClientSends
<1>9. ASSUME NEW c \in Conns, ReaderDecodes(c) PROVE OnceInv'
  <2>1. PICK m \in pool : mRequest' = [mRequest EXCEPT ![m] = Head(in[c])]
    BY <1>9 DEF ReaderDecodes
  <2>2. m \in Messages /\ in[c] # <<>> /\ in' = [in EXCEPT ![c] = Tail(in[c])] /\ UNCHANGED <<unsent, mResponse, wreq, wr>>
    BY <1>9, <1>1 DEF ReaderDecodes, TypeOK
  <2>3. QED
    BY <1>1, <1>4, <2>1, <2>2, OnceDecodes
<1>10. ASSUME NEW x \in Workers, WorkerStarts(x) PROVE OnceInv'
  <2>1. wm[x] \in Messages /\ mRequest[wm[x]] \in Requests
    BY <1>10, <1>1 DEF WorkerStarts, ServerInv, Phases, TypeOK, RouteInv, WorkerRoute, Carries
  <2>2. /\ mRequest' = [mRequest EXCEPT ![wm[x]] = Nil] /\ wreq' = [wreq EXCEPT ![x] = mRequest[wm[x]]]
        /\ UNCHANGED <<unsent, in, wr>>
        /\ mResponse' = mResponse \/ mResponse' = [mResponse EXCEPT ![wm[x]] = Nil]
    BY <1>10 DEF WorkerStarts
  <2>3. \A n \in Messages : mResponse'[n] \in {mResponse[n], Nil}
    BY <1>1, <2>2 DEF TypeOK
  <2>4. QED
    BY <1>1, <1>4, <2>1, <2>2, <2>3, OnceServes
<1>11. ASSUME NEW x \in Workers, WorkerHandles(x) PROVE OnceInv'
  <2>1. wreq[x] \in Requests /\ UNCHANGED <<unsent, in, mRequest, wr>> /\ wreq' = [wreq EXCEPT ![x] = Nil]
    BY <1>11 DEF WorkerHandles, RouteInv, WorkerRoute
  <2>2. CASE wm[x] # Nil /\ mResponse' = [mResponse EXCEPT ![wm[x]] = wreq[x]]
    <3>1. wm[x] \in Messages
      BY <1>1, <2>2 DEF TypeOK
    <3>2. QED
      BY <1>1, <1>4, <2>1, <2>2, <3>1, OnceAnswers
  <2>3. CASE mResponse' = mResponse
    <3>1. \A y \in Workers : wreq'[y] \in {wreq[y], Nil}
      BY <1>1, <2>1 DEF TypeOK
    <3>2. QED
      BY <1>1, <1>4, <2>1, <2>3, <3>1, OnceDrops
  <2>4. QED
    BY <1>11, <2>2, <2>3 DEF WorkerHandles
<1>12. ASSUME NEW x \in Workers, WorkerGivesUp(x) PROVE OnceInv'
  <2>1. UNCHANGED <<unsent, in, mRequest, wreq, wr>> /\ mResponse' = [mResponse EXCEPT ![wm[x]] = Nil]
    BY <1>12 DEF WorkerGivesUp
  <2>2. \A m \in Messages : mResponse'[m] \in {mResponse[m], Nil}
    BY <1>1, <2>1 DEF TypeOK
  <2>3. QED
    BY <1>1, <1>4, <2>1, <2>2, OnceDrops
<1>13. ASSUME NEW c \in Conns, WriterTakes(c) PROVE OnceInv'
  <2>1. responses[c] \in Seq(Messages) /\ responses[c] # <<>>
    BY <1>13, <1>1 DEF WriterTakes, TypeOK
  <2>2. PICK m \in Messages : m = Head(responses[c]) /\ m = responses[c][1] /\ 1 \in 1 .. Len(responses[c])
    BY <2>1, HeadFacts
  <2>3. PICK q \in Requests : q = mResponse[m]
    BY <2>2 DEF RouteInv, QueueRoute, Answers
  <2>4. /\ mResponse' = [mResponse EXCEPT ![m] = Nil] /\ UNCHANGED <<unsent, in, mRequest, wreq>>
        /\ wr' = [wr EXCEPT ![c] = "encode"]
    BY <1>13, <2>2 DEF WriterTakes
  <2>5. ASSUME NEW d \in Conns, NEW i \in 1 .. Len(Encoded(d)')
        PROVE  \/ i \in 1 .. Len(Encoded(d)) /\ Encoded(d)'[i] = Encoded(d)[i]
               \/ d = c /\ i = Len(Encoded(c)) + 1 /\ Encoded(d)'[i].of = q
    <3>1. CASE Trims(Encoded(d)', Encoded(d))
      BY <1>2, <3>1
    <3>2. CASE ~Trims(Encoded(d)', Encoded(d))
      <4>1. d = c
        BY <1>3, <1>7, <2>4, <3>2
      <4>2. Encoded(c)' = Append(Encoded(c), [id |-> mID[m], of |-> q])
        BY <1>1, <2>2, <2>3, <3>2, <4>1, EncodedNext
      <4>3. PICK r \in Responses : r = [id |-> mID[m], of |-> q]
        <5>1. mID[m] \in Nat
          BY <1>1 DEF TypeOK
        <5>2. [id |-> mID[m], of |-> q] \in Responses
          BY <5>1 DEF Responses
        <5>3. QED
          BY <5>2
      <4>4. Encoded(c) \in Seq(Responses) /\ Len(Encoded(c)) \in Nat
        BY <1>1 DEF EncodedTypes
      <4>5. /\ Len(Encoded(c)') = Len(Encoded(c)) + 1
            /\ \A j \in 1 .. Len(Encoded(c)) : Encoded(c)'[j] = Encoded(c)[j]
            /\ Encoded(c)'[Len(Encoded(c)) + 1] = r
        BY <4>2, <4>3, <4>4, AppendFacts
      <4>6. r.of = q
        BY <4>3
      <4>7. QED
        BY <4>1, <4>4, <4>5, <4>6
    <3>3. QED
      BY <3>1, <3>2
  <2>6. QED
    BY <1>1, <2>3, <2>4, <2>5, OnceEncodes
<1>14. ASSUME NEW c \in Conns, Handshake(c) PROVE OnceInv'
  BY <1>14, <1>5, <1>7 DEF Handshake
<1>15. ASSUME NEW c \in Conns, WriterPolls(c) PROVE OnceInv'
  BY <1>15, <1>5, <1>7 DEF WriterPolls
<1>16. ASSUME NEW c \in Conns, WriterStops(c) PROVE OnceInv'
  BY <1>16, <1>5, <1>7 DEF WriterStops
<1>17. ASSUME NEW c \in Conns, WriterBuffers(c) PROVE OnceInv'
  BY <1>17, <1>5, <1>7 DEF WriterBuffers
<1>18. ASSUME NEW c \in Conns, WriterWrites(c) PROVE OnceInv'
  BY <1>18, <1>5, <1>7 DEF WriterWrites
<1>19. ASSUME NEW c \in Conns, WriterFails(c) PROVE OnceInv'
  BY <1>19, <1>5, <1>7 DEF WriterFails
<1>20. CASE Start \/ StartFails \/ Stop \/ StopReturns \/ AcceptFails \/ AcceptAgain \/
         AcceptStops \/ UNCHANGED vars
  BY <1>20, <1>6 DEF Start, StartFails, Stop, StopReturns, AcceptFails, AcceptAgain, AcceptStops,
                vars
<1>21. ASSUME NEW c \in Conns,
          Accept(c) \/ HandshakeFails(c) \/ ConnCloses(c) \/ ConnEnds(c) \/ Disconnect(c) \/
          ReaderFails(c) \/ ReaderSpins(c) \/ ReaderSpawns(c) \/ ReaderWaits(c) \/ ReaderStops(c)
      PROVE  OnceInv'
  BY <1>21, <1>6 DEF Accept, HandshakeFails, ConnCloses, ConnEnds, Disconnect, ReaderFails, ReaderSpins,
                ReaderSpawns, ReaderWaits, ReaderStops
<1>22. ASSUME NEW x \in Workers, WorkerPushes(x) \/ WorkerWaits(x) \/ WorkerReleases(x) PROVE OnceInv'
  BY <1>22, <1>6 DEF WorkerPushes, WorkerWaits, WorkerReleases
<1>23. QED
  BY <1>8, <1>9, <1>10, <1>11, <1>12, <1>13, <1>14, <1>15, <1>16, <1>17, <1>18, <1>19, <1>20,
     <1>21, <1>22
  DEF Next, AcceptorNext, ConnNext, ReaderNext, WriterNext, WorkerNext, Finished

(* At first every request is unsent. *)
LEMMA OnceInit == Init => OnceInv
BY NilAssumption
   DEF Init, OnceInv, UnsentOnce, InOnce, DecodedOnce, ServedOnce, AnsweredOnce, EncodedOnce,
   Unreceived, Undecoded, Unserved, Unanswered, Unencoded, Encoded

(* Every response carries the ID of the request it answers and goes to the *)
(* connection that request came from, no request is answered twice, and    *)
(* those with ID 0 are not answered: whatever the handlers' order, and     *)
(* however the serverMessages are recycled.                                *)
THEOREM ResponsesAnswer == Spec => []ResponseAnswersRequest
<1>1. ServerInv /\ RouteInv /\ OnceInv => ResponseAnswersRequest
  <2> SUFFICES ASSUME ServerInv, RouteInv, OnceInv, NEW c \in Conns
               PROVE  /\ \A r \in Range(Encoded(c)) :
                           r.of \in Requests /\ r.id # 0 /\ IDOf[r.of] = r.id /\ ConnOf[r.of] = c
                      /\ IsInjective(Encoded(c))
    BY DEF ResponseAnswersRequest
  <2>1. Encoded(c) \in Seq(Responses)
    BY EncodedType DEF ServerInv, EncodedTypes
  <2>2. DOMAIN Encoded(c) = 1 .. Len(Encoded(c))
    BY <2>1
  <2>3. \A i \in DOMAIN Encoded(c) : LET r == Encoded(c)[i] IN
          r.of \in Requests /\ r.id # 0 /\ IDOf[r.of] = r.id /\ ConnOf[r.of] = c
    BY <2>2 DEF RouteInv, EncodedRoute
  <2>4. \A i, j \in DOMAIN Encoded(c) : Encoded(c)[i] = Encoded(c)[j] => i = j
    BY <2>2 DEF OnceInv, EncodedOnce
  <2>5. QED
    BY <2>3, <2>4 DEF Range, IsInjective
<1>2. QED
  BY <1>1, ServerInit, ServerNext, HeldInit, HeldNext, RouteInit, RouteNext, OnceInit, OnceNext,
     PTL DEF Spec
=============================================================================
