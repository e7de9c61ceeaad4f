-------------------------- MODULE WireCodecProofs --------------------------
(***************************************************************************)
(* Proofs about the wire codec of pkg/iorpc/encoding.go: its types, that   *)
(* the decoder drains its headerBuffer, and that it returns what was       *)
(* encoded.  What the ringBuffer does is taken from RingBufferProofs.      *)
(***************************************************************************)
EXTENDS WireCodec, SequenceTheorems, TLAPS

RingThm == INSTANCE RingBufferProofs
             WITH Bytes <- Cells, InitialCapacity <- BufferSize,
                  MaxCapacity <- 4 * BufferSize, MaxChunk <- BufferSize

(* The sizes of a message. *)
LEMMA Sizes ==
  /\ \A m \in Messages : HeaderSize[m] \in Nat /\ ErrorSize[m] \in Nat
                         /\ BodySize[m] \in Nat /\ Offset[m] \in Nat
  /\ BufferSize \in Nat \ {0}
  BY CodecAssumption

(* headerBuffer meets the assumptions of the ringBuffer. *)
LEMMA RingFits ==
  /\ Zero \in Cells
  /\ BufferSize \in Nat \ {0} /\ 4 * BufferSize \in Nat
  /\ BufferSize <= 4 * BufferSize
  /\ BufferSize \in Nat \ {0}
<1>1. Zero \in Cells
  BY DEF Zero, Cells, NoMessage
<1>2. BufferSize \in Nat \ {0}
  BY CodecAssumption
<1>3. QED
  BY <1>1, <1>2

(* The ringBuffer of the decoder is the one of RingBufferProofs. *)
LEMMA SameTypes == (Ring!TypeOK <=> RingThm!TypeOK) /\ (Ring!TypeOK' <=> RingThm!TypeOK')
BY DEF Ring!TypeOK, RingThm!TypeOK, Ring!Capacity, RingThm!Capacity

(* Its contents are the same. *)
LEMMA SameContents == Ring!Contents = RingThm!Contents /\ Ring!Contents' = RingThm!Contents'
BY DEF Ring!Contents, RingThm!Contents, Ring!Capacity, RingThm!Capacity

(* The same trySlice. *)
LEMMA SameSlice ==
  ASSUME NEW n \in Nat, Ring!TrySlice(n) PROVE RingThm!TrySlice(n)
BY Zenon DEF Ring!TrySlice, RingThm!TrySlice, Ring!Take, RingThm!Take, Ring!Peek, RingThm!Peek,
             Ring!Slice, RingThm!Slice, Ring!UpTo, RingThm!UpTo, Ring!Capacity, RingThm!Capacity,
             Ring!Consume, RingThm!Consume

(* The same write. *)
LEMMA SameWrite ==
  ASSUME NEW p, Ring!Write(p) PROVE RingThm!Write(p)
<1>1. CASE Ring!WriteGrows(p)
  <2>1. RingThm!WriteGrows(p)
    BY <1>1, Zenon DEF Ring!WriteGrows, RingThm!WriteGrows, Ring!Take, RingThm!Take, Ring!Peek, RingThm!Peek,
             Ring!Slice, RingThm!Slice, Ring!UpTo, RingThm!UpTo, Ring!Capacity, RingThm!Capacity, Ring!Fits, RingThm!Fits
  <2>2. QED
    BY <2>1, Zenon DEF Ring!Write, RingThm!Write
<1>2. CASE Ring!WriteFits(p)
  <2>1. RingThm!WriteFits(p)
    BY <1>2, Zenon DEF Ring!WriteFits, RingThm!WriteFits, Ring!CopyTo, RingThm!CopyTo,
             Ring!UpTo, RingThm!UpTo, Ring!Capacity, RingThm!Capacity, Ring!Fits, RingThm!Fits
  <2>2. QED
    BY <2>1, Zenon DEF Ring!Write, RingThm!Write
<1>3. CASE Ring!WritePanics(p)
  <2>1. RingThm!WritePanics(p)
    BY <1>3, Zenon DEF Ring!WritePanics, RingThm!WritePanics, Ring!Capacity, RingThm!Capacity, Ring!Fits, RingThm!Fits
  <2>2. QED
    BY <2>1, Zenon DEF Ring!Write, RingThm!Write
<1>4. QED
  BY <1>1, <1>2, <1>3, Zenon DEF Ring!Write

(* The contents are size bytes. *)
LEMMA ContentsTyped ==
  ASSUME Ring!TypeOK
  PROVE  Ring!Contents \in Seq(Cells) /\ Len(Ring!Contents) = size /\ size \in Nat
<1>1. RingThm!TypeOK
  BY SameTypes
<1>2. RingThm!Contents \in Seq(Cells) /\ Len(RingThm!Contents) = size /\ size \in Nat
  BY <1>1, RingFits, RingThm!ContentsIs, Zenon
<1>3. QED
  BY <1>2, SameContents

(* A piece that CopyN writes is appended, unless the write panics. *)
LEMMA HeaderWrite ==
  ASSUME Ring!TypeOK, NEW p \in Seq(Cells), Len(p) > 0, Ring!Write(p)
  PROVE  /\ Ring!TypeOK' /\ ~panicked
         /\ \/ panicked' = TRUE
            \/ /\ panicked' = panicked /\ size' = size + Len(p)
               /\ Ring!Contents' = Ring!Contents \o p
<1>1. RingThm!TypeOK /\ RingThm!Write(p)
  BY SameTypes, SameWrite
<1>2. /\ RingThm!TypeOK'
      /\ \/ /\ panicked' = TRUE /\ size' = size
            /\ RingThm!Contents' = RingThm!Contents /\ io' = io
         \/ /\ panicked' = panicked /\ size' = size + Len(p)
            /\ RingThm!Contents' = RingThm!Contents \o p /\ io' = <<"put", p>>
  BY <1>1, RingFits, RingThm!WriteStep, Zenon
<1>3. ~panicked
  BY DEF Ring!Write
<1>4. Ring!TypeOK'
  BY <1>2, SameTypes
<1>5. QED
  BY <1>2, <1>3, <1>4, SameContents, Zenon

(* TrySlice of as many bytes as there are returns and removes them all. *)
LEMMA HeaderSlice ==
  ASSUME Ring!TypeOK, NEW n \in Nat, size = n, Ring!TrySlice(n)
  PROVE  /\ Ring!TypeOK' /\ size' = 0 /\ panicked' = panicked /\ ~panicked
         /\ io'[2] = Ring!Contents
<1>1. RingThm!TypeOK /\ RingThm!TrySlice(n)
  BY SameTypes, SameSlice
<1>2. PICK k \in Nat : /\ k = (IF size < n THEN size ELSE n) /\ k <= size
                       /\ io' = <<"get", SubSeq(RingThm!Contents, 1, k)>> /\ RingThm!Consume(k)
  BY <1>1, RingFits, RingThm!TrySliceTakes, Zenon
<1>3. k = n /\ k = size
  BY <1>2
<1>4. SubSeq(RingThm!Contents, 1, k) = Ring!Contents
  <2>1. SubSeq(Ring!Contents, 1, Len(Ring!Contents)) = Ring!Contents
    BY ContentsTyped, SubSeqFull
  <2>2. QED
    BY <1>3, <2>1, ContentsTyped, SameContents, Zenon
<1>5. io'[2] = Ring!Contents
  BY <1>2, <1>4
<1>6. size' = 0 /\ panicked' = panicked
  <2>1. size' = size - k /\ panicked' = panicked
    BY <1>2 DEF RingThm!Consume
  <2>2. QED
    BY <1>3, <2>1
<1>7. ~panicked
  BY DEF Ring!TrySlice
<1>8. RingThm!TypeOK'
  BY <1>1, RingFits, RingThm!TrySliceStep, Zenon
<1>9. QED
  BY <1>5, <1>6, <1>7, <1>8, SameTypes

-----------------------------------------------------------------------------
(* Types. *)

(* A run of cells. *)
LEMMA RunFacts ==
  ASSUME NEW kind \in {"header", "error", "body"}, NEW m \in Messages, NEW from \in Nat, NEW n \in Nat
  PROVE  /\ Run(kind, m, from, n) \in Seq(Cells) /\ Len(Run(kind, m, from, n)) = n
         /\ \A i \in 1 .. n : Run(kind, m, from, n)[i] = <<kind, m, from + i>>
<1>1. PICK q : q = [i \in 1 .. n |-> <<kind, m, from + i>>]
  OBVIOUS
<1>2. \A i \in 1 .. n : <<kind, m, from + i>> \in Cells
  BY DEF Cells
<1>3. q \in [1 .. n -> Cells]
  BY <1>1, <1>2
<1>4. q \in Seq(Cells) /\ Len(q) = n
  BY <1>3
<1>5. \A i \in 1 .. n : q[i] = <<kind, m, from + i>>
  BY <1>1
<1>6. Run(kind, m, from, n) = q
  BY <1>1 DEF Run
<1>7. QED
  BY <1>4, <1>5, <1>6

(* The first n cells of a stream and the others. *)
LEMMA CutFacts ==
  ASSUME NEW s \in Seq(Cells), NEW n \in Nat, n <= Len(s)
  PROVE  /\ SubSeq(s, 1, n) \in Seq(Cells) /\ Len(SubSeq(s, 1, n)) = n
         /\ \A i \in 1 .. n : SubSeq(s, 1, n)[i] = s[i]
         /\ SubSeq(s, n + 1, Len(s)) \in Seq(Cells) /\ Len(SubSeq(s, n + 1, Len(s))) = Len(s) - n
         /\ \A i \in 1 .. Len(s) - n : SubSeq(s, n + 1, Len(s))[i] = s[n + i]
<1>1. Len(s) \in Nat /\ Len(s) <= Len(s)
  OBVIOUS
<1>2. /\ SubSeq(s, 1, n) \in Seq(Cells) /\ Len(SubSeq(s, 1, n)) = n
      /\ \A i \in 1 .. n : SubSeq(s, 1, n)[i] = s[i]
  BY RingFits, RingThm!FirstPiece, Zenon
<1>3. /\ SubSeq(s, n + 1, Len(s)) \in Seq(Cells) /\ Len(SubSeq(s, n + 1, Len(s))) = Len(s) - n
      /\ \A i \in 1 .. Len(s) - n : SubSeq(s, n + 1, Len(s))[i] = s[n + i]
  BY <1>1, RingFits, RingThm!Piece, Zenon
<1>4. QED
  BY <1>2, <1>3

(* The start line of a message, its headers and its error. *)
LEMMA HeadersFacts ==
  ASSUME NEW m \in Messages, NEW loses
  PROVE  /\ EncodedHeaders(m, loses) \in Seq(Cells)
         /\ Len(EncodedHeaders(m, loses)) = 1 + HeaderSize[m] + ErrorSize[m]
         /\ EncodedHeaders(m, loses)[1] = IF loses THEN Zero ELSE <<"line", m, 1>>
         /\ \A i \in 1 .. HeaderSize[m] : EncodedHeaders(m, loses)[1 + i] = <<"header", m, i>>
         /\ \A i \in 1 .. ErrorSize[m] :
              EncodedHeaders(m, loses)[1 + HeaderSize[m] + i] = <<"error", m, i>>
<1>0. "header" \in {"header", "error", "body"} /\ "error" \in {"header", "error", "body"} /\ 0 \in Nat
  OBVIOUS
<1>1. PICK H \in Nat, E \in Nat : H = HeaderSize[m] /\ E = ErrorSize[m]
  BY Sizes
<1>2. PICK a \in Cells : a = IF loses THEN Zero ELSE <<"line", m, 1>>
  BY RingFits DEF Cells
<1>3. PICK p \in Seq(Cells) : /\ p = Run("header", m, 0, H) /\ Len(p) = H
                              /\ \A i \in 1 .. H : p[i] = <<"header", m, i>>
  <2>1. /\ Run("header", m, 0, H) \in Seq(Cells) /\ Len(Run("header", m, 0, H)) = H
        /\ \A i \in 1 .. H : Run("header", m, 0, H)[i] = <<"header", m, 0 + i>>
    BY <1>0, RunFacts, Zenon
  <2>2. \A i \in 1 .. H : 0 + i = i
    OBVIOUS
  <2>3. QED
    BY <2>1, <2>2, Zenon
<1>4. PICK q \in Seq(Cells) : /\ q = Run("error", m, 0, E) /\ Len(q) = E
                              /\ \A i \in 1 .. E : q[i] = <<"error", m, i>>
  <2>1. /\ Run("error", m, 0, E) \in Seq(Cells) /\ Len(Run("error", m, 0, E)) = E
        /\ \A i \in 1 .. E : Run("error", m, 0, E)[i] = <<"error", m, 0 + i>>
    BY <1>0, RunFacts, Zenon
  <2>2. \A i \in 1 .. E : 0 + i = i
    OBVIOUS
  <2>3. QED
    BY <2>1, <2>2, Zenon
<1>5. EncodedHeaders(m, loses) = <<a>> \o p \o q
  BY <1>1, <1>2, <1>3, <1>4, Zenon DEF EncodedHeaders
<1>6. PICK s \in Seq(Cells) : /\ s = <<a>> \o p /\ Len(s) = 1 + H
                              /\ s[1] = a /\ \A i \in 1 .. H : s[1 + i] = p[i]
  <2>1. <<a>> \in Seq(Cells) /\ Len(<<a>>) = 1 /\ <<a>>[1] = a
    OBVIOUS
  <2>2. PICK l \in Seq(Cells) : l = <<a>> /\ Len(l) = 1 /\ l[1] = a
    BY <2>1
  <2>3. /\ l \o p \in Seq(Cells) /\ Len(l \o p) = 1 + H
        /\ (l \o p)[1] = a /\ \A i \in 1 .. H : (l \o p)[1 + i] = p[i]
    BY <1>3, <2>2
  <2>4. QED
    BY <2>2, <2>3, Zenon
<1>7. /\ s \o q \in Seq(Cells) /\ Len(s \o q) = 1 + H + E
      /\ (s \o q)[1] = a /\ (\A i \in 1 .. H : (s \o q)[1 + i] = s[1 + i])
      /\ \A i \in 1 .. E : (s \o q)[1 + H + i] = q[i]
  <2>1. /\ s \o q \in Seq(Cells) /\ Len(s \o q) = Len(s) + Len(q)
        /\ \A i \in 1 .. Len(s) : (s \o q)[i] = s[i]
        /\ \A i \in 1 .. Len(q) : (s \o q)[Len(s) + i] = q[i]
    OBVIOUS
  <2>2. 1 \in 1 .. Len(s) /\ \A i \in 1 .. H : 1 + i \in 1 .. Len(s)
    BY <1>6
  <2>3. QED
    BY <1>4, <1>6, <2>1, <2>2, SMTT(30)
<1>8. EncodedHeaders(m, loses) = s \o q
  BY <1>5, <1>6, Zenon
<1>9. /\ \A i \in 1 .. H : (s \o q)[1 + i] = <<"header", m, i>>
      /\ \A i \in 1 .. E : (s \o q)[1 + H + i] = <<"error", m, i>>
  BY <1>3, <1>4, <1>6, <1>7, Zenon
<1>10. QED
  BY <1>1, <1>2, <1>7, <1>8, <1>9, Zenon

(* The body that follows them. *)
LEMMA BodyFacts ==
  ASSUME isConn \in BOOLEAN, NEW m \in Messages
  PROVE  /\ EncodedBody(m) \in Seq(Cells)
         /\ Len(EncodedBody(m)) = IF HasBody(m) THEN BodySize[m] ELSE 0
         /\ \A i \in 1 .. Len(EncodedBody(m)) :
              EncodedBody(m)[i] = <<"body", m, (IF isConn THEN Offset[m] ELSE 0) + i>>
<1>1. PICK o \in Nat : o = IF isConn THEN Offset[m] ELSE 0
  BY Sizes
<1>2. BodySize[m] \in Nat
  BY Sizes
<1>3. CASE HasBody(m)
  <2>1. EncodedBody(m) = Run("body", m, o, BodySize[m])
    BY <1>1, <1>3, Zenon DEF EncodedBody
  <2>2. /\ Run("body", m, o, BodySize[m]) \in Seq(Cells) /\ Len(Run("body", m, o, BodySize[m])) = BodySize[m]
        /\ \A i \in 1 .. BodySize[m] : Run("body", m, o, BodySize[m])[i] = <<"body", m, o + i>>
    BY <1>2, RunFacts
  <2>3. QED
    BY <1>1, <1>3, <2>1, <2>2, Zenon
<1>4. CASE ~HasBody(m)
  <2>1. PICK e \in Seq(Cells) : e = <<>> /\ Len(e) = 0
    BY EmptySeq
  <2>2. EncodedBody(m) = e
    BY <1>4, <2>1, Zenon DEF EncodedBody
  <2>3. \A i \in 1 .. Len(e) : FALSE
    BY <2>1
  <2>4. QED
    BY <1>4, <2>1, <2>2, <2>3, Zenon
<1>5. QED
  BY <1>3, <1>4

(* The part of a message that Decode reads next. *)
LEMMA NextPartFacts ==
  /\ \A part : NextPart(NoMessage, part) = "done"
  /\ \A m \in Messages :
       /\ NextPart(m, "line")   = IF ErrorSize[m] > 0 THEN "error"
                                  ELSE IF HeaderSize[m] > 0 THEN "header"
                                  ELSE IF BodySize[m] > 0 THEN "body" ELSE "done"
       /\ NextPart(m, "error")  = IF HeaderSize[m] > 0 THEN "header"
                                  ELSE IF BodySize[m] > 0 THEN "body" ELSE "done"
       /\ NextPart(m, "header") = IF BodySize[m] > 0 THEN "body" ELSE "done"
       /\ NextPart(m, "body")   = "done"
<1>1. ASSUME NEW part PROVE NextPart(NoMessage, part) = "done"
  BY DEF NextPart, Announced
<1>2. ASSUME NEW m \in Messages
      PROVE  /\ Announced(ErrorSize, m) = ErrorSize[m] /\ Announced(HeaderSize, m) = HeaderSize[m]
             /\ Announced(BodySize, m) = BodySize[m]
  BY NoMessageAssumption DEF Announced
<1>3. QED
  BY <1>1, <1>2 DEF NextPart

(* The decoder's buffer holds what it has copied of the headers, and       *)
(* nothing when there are none to copy.                                    *)

Busy == reader \in {"error", "header", "body"}

HeaderInv ==
  /\ Busy => line \in Messages
  /\ reader \in {"line", "error", "body"} => size = 0
  /\ reader = "error" => got.header = <<>>
  /\ reader = "header" /\ ~panicked => Ring!Contents = got.header

EncoderTypes ==
  /\ isConn \in BOOLEAN /\ link \in {"up", "eof", "reset"}
  /\ headerBuffer \in Seq(Cells) /\ Len(headerBuffer) < BufferSize
  /\ bufferCap \in Nat /\ Len(headerBuffer) <= bufferCap
  /\ sent \in Seq(Messages) /\ lost \subseteq 1 .. Len(sent)
  /\ wire \in Seq(Cells)

DecoderTypes ==
  /\ reader \in {"line", "error", "header", "body", "garbage", "failed"}
  /\ line \in Messages \cup {NoMessage} /\ got \in Parts
  /\ received \in Seq((Messages \cup {NoMessage}) \X Parts)

CodecInv == EncoderTypes /\ DecoderTypes /\ Ring!TypeOK /\ HeaderInv

(* An empty buffer is as empty as an empty sequence. *)
LEMMA Drained == ASSUME Ring!TypeOK, size = 0 PROVE Ring!Contents = <<>>
<1>1. Ring!Contents \in Seq(Cells) /\ Len(Ring!Contents) = 0
  BY ContentsTyped
<1>2. QED
  BY <1>1, EmptySeq

(* It goes on with the same message, or returns it. *)
LEMMA ProceedFacts ==
  ASSUME DecoderTypes, NEW m \in Messages \cup {NoMessage},
         NEW part \in {"line", "error", "header", "body"},
         NEW parts \in Parts, Proceed(m, part, parts)
  PROVE  /\ DecoderTypes'
         /\ reader' \in {"line", "error", "header", "body"}
         /\ reader' = "error" => part = "line"
         /\ reader' = "header" => part \in {"line", "error"}
         /\ Busy' => m \in Messages /\ line' = m /\ got' = parts /\ received' = received
                     /\ reader' = NextPart(m, part)
         /\ ~Busy' => NextPart(m, part) = "done" /\ reader' = "line"
                      /\ received' = Append(received, <<m, parts>>)
<1>1. NextPart(m, part) \in {"error", "header", "body", "done"}
  BY DEF NextPart
<1>2. CASE NextPart(m, part) = "done"
  <2>1. /\ received' = Append(received, <<m, parts>>)
        /\ reader' = "line" /\ line' = NoMessage /\ got' = Empty
    BY <1>2 DEF Proceed
  <2>2. Empty \in Parts
    BY EmptySeq DEF Empty, Parts
  <2>3. <<m, parts>> \in (Messages \cup {NoMessage}) \X Parts
    OBVIOUS
  <2>4. Append(received, <<m, parts>>) \in Seq((Messages \cup {NoMessage}) \X Parts)
    BY <2>3, AppendProperties DEF DecoderTypes
  <2>5. DecoderTypes'
    BY <2>1, <2>2, <2>4 DEF DecoderTypes
  <2>6. QED
    BY <1>2, <2>1, <2>5 DEF Busy
<1>3. CASE NextPart(m, part) # "done"
  <2>1. reader' = NextPart(m, part) /\ line' = m /\ got' = parts /\ received' = received
    BY <1>3 DEF Proceed
  <2>2. m \in Messages
    BY <1>3, NextPartFacts
  <2>3. /\ reader' = "error" => part = "line"
        /\ reader' = "header" => part \in {"line", "error"}
    BY <2>1 DEF NextPart
  <2>4. DecoderTypes'
    BY <1>1, <1>3, <2>1 DEF DecoderTypes
  <2>5. QED
    BY <1>1, <1>3, <2>1, <2>2, <2>3, <2>4 DEF Busy
<1>4. QED
  BY <1>2, <1>3

(* What the decoder has not read: what is under way, then what the encoder *)
(* still holds back.                                                       *)
Stream == wire \o headerBuffer

(* A buffer that has grown holds what it has to. *)
LEMMA GrownFacts ==
  ASSUME NEW c \in Nat, NEW n \in Nat PROVE Grown(c, n) \in Nat /\ n <= Grown(c, n)
BY DEF Grown

(* Pieces of a stream can be put together in any order. *)
LEMMA StreamAssociative ==
  \A s, t, v \in Seq(Cells) : (s \o t) \o v = s \o (t \o v)
<1>1. ASSUME NEW s \in Seq(Cells), NEW t \in Seq(Cells), NEW v \in Seq(Cells)
      PROVE  (s \o t) \o v = s \o (t \o v)
  BY ConcatAssociative
<1>2. QED
  BY <1>1

(* The same of what is under way, what the encoder holds back and what it  *)
(* appends to that.                                                        *)
LEMMA AppendedHeaders ==
  ASSUME wire \in Seq(Cells), headerBuffer \in Seq(Cells), NEW h \in Seq(Cells)
  PROVE  (wire \o headerBuffer) \o h = wire \o (headerBuffer \o h)
BY StreamAssociative, ZenonT(60)

(* Whether or not the headers are flushed, and whether or not the start    *)
(* line is lost, one message is added to the end of the stream.            *)
LEMMA EncodeStream ==
  ASSUME EncoderTypes, NEW m \in Messages, NEW n \in 0 .. Len(EncodedBody(m)), Encode(m, n)
  PROVE  /\ EncoderTypes'
         /\ \E loses \in BOOLEAN :
              /\ lost' = IF loses THEN lost \cup {Len(sent) + 1} ELSE lost
              /\ Stream' = Stream \o (EncodedHeaders(m, loses) \o SubSeq(EncodedBody(m), 1, n))
<1>1. PICK before : before = IF HasBody(m) THEN <<>> ELSE headerBuffer
  OBVIOUS
<1>2. PICK l : l = LosesLine(before, m)
  OBVIOUS
<1>3. PICK h \in Seq(Cells) : h = EncodedHeaders(m, l)
  BY HeadersFacts, Zenon
<1>4. isConn \in BOOLEAN /\ wire \in Seq(Cells) /\ headerBuffer \in Seq(Cells)
  BY DEF EncoderTypes
<1>5. PICK b \in Seq(Cells) : b = SubSeq(EncodedBody(m), 1, n)
  <2>1. EncodedBody(m) \in Seq(Cells)
    BY <1>4, BodyFacts
  <2>2. SubSeq(EncodedBody(m), 1, n) \in Seq(Cells)
    BY <2>1, CutFacts
  <2>3. QED
    BY <2>2, Zenon
<1>6. before \in Seq(Cells)
  BY <1>1, <1>4, EmptySeq
<1>7. PICK after \in Seq(Cells) : after = before \o h
  BY <1>3, <1>6, ConcatProperties, Zenon
<1>8. /\ sent' = Append(sent, m) /\ isConn' = isConn
      /\ lost' = IF l THEN lost \cup {Len(sent')} ELSE lost
      /\ bufferCap' = Grown(bufferCap, Len(after))
      /\ headerBuffer' = IF FlushAfter(m, after) THEN <<>> ELSE after
      /\ wire' = wire \o (IF HasBody(m) THEN headerBuffer ELSE <<>>)
                      \o (IF FlushAfter(m, after) THEN after ELSE <<>>) \o b
      /\ link' = IF n < Len(EncodedBody(m)) THEN "eof" ELSE "up"
  BY <1>1, <1>2, <1>3, <1>5, <1>7, Zenon DEF Encode
<1>9. /\ sent' \in Seq(Messages) /\ Len(sent') = Len(sent) + 1 /\ Len(sent) \in Nat
  BY <1>8 DEF EncoderTypes
<1>10. lost' = IF l THEN lost \cup {Len(sent) + 1} ELSE lost
  BY <1>8, <1>9
<1>11. lost' \subseteq 1 .. Len(sent')
  <2>1. lost \subseteq 1 .. Len(sent)
    BY DEF EncoderTypes
  <2>2. \A x \in 1 .. Len(sent) : x \in 1 .. Len(sent')
    BY <1>9
  <2>3. Len(sent) + 1 \in 1 .. Len(sent')
    BY <1>9
  <2>4. QED
    BY <1>10, <2>1, <2>2, <2>3
<1>12. PICK e \in Seq(Cells) : e = <<>> /\ Len(e) = 0
  BY EmptySeq
<1>13. PICK u \in Seq(Cells) : u = wire \o headerBuffer
  BY <1>4, ConcatProperties, Zenon
<1>14. /\ headerBuffer' \in Seq(Cells) /\ Len(headerBuffer') < BufferSize
       /\ Len(headerBuffer') <= Len(after)
  <2>1. BufferSize \in Nat \ {0} /\ Len(after) \in Nat
    BY Sizes
  <2>2. CASE FlushAfter(m, after)
    <3>1. headerBuffer' = e
      BY <1>8, <1>12, <2>2
    <3>2. 0 < BufferSize /\ 0 <= Len(after)
      BY <2>1
    <3>3. QED
      BY <1>12, <3>1, <3>2, Zenon
  <2>3. CASE ~FlushAfter(m, after)
    <3>1. headerBuffer' = after
      BY <1>8, <2>3
    <3>2. ~(Len(after) >= BufferSize)
      BY <2>3, Zenon DEF FlushAfter, Full
    <3>3. Len(after) < BufferSize /\ Len(after) <= Len(after)
      BY <2>1, <3>2
    <3>4. QED
      BY <3>1, <3>3, Zenon
  <2>4. QED
    BY <2>2, <2>3
<1>15. ASSUME HasBody(m)
       PROVE  wire' \in Seq(Cells) /\ Stream' = u \o (h \o b)
  <2>1. FlushAfter(m, after) /\ before = <<>>
    BY <1>1, <1>15 DEF FlushAfter
  <2>2. after = h
    BY <1>3, <1>7, <2>1, ConcatEmptySeq, Zenon
  <2>3. headerBuffer' = e /\ wire' = (u \o h) \o b
    BY <1>8, <1>12, <1>13, <1>15, <2>1, <2>2, Zenon
  <2>4. u \o h \in Seq(Cells)
    BY <1>3, <1>13, ConcatProperties
  <2>5. wire' \in Seq(Cells)
    BY <1>5, <2>3, <2>4, ConcatProperties, Zenon
  <2>6. Stream' = wire'
    BY <1>12, <2>3, <2>5, ConcatEmptySeq, Zenon DEF Stream
  <2>7. (u \o h) \o b = u \o (h \o b)
    BY <1>3, <1>5, <1>13, StreamAssociative, ZenonT(60)
  <2>8. QED
    BY <2>3, <2>5, <2>6, <2>7, Zenon
<1>16. ASSUME ~HasBody(m)
       PROVE  wire' \in Seq(Cells) /\ Stream' = u \o (h \o b)
  <2>1. before = headerBuffer /\ after = headerBuffer \o h
    BY <1>1, <1>7, <1>16
  <2>2. b = e
    <3>1. Len(EncodedBody(m)) = 0 /\ EncodedBody(m) \in Seq(Cells)
      BY <1>4, <1>16, BodyFacts
    <3>2. n = 0
      BY <3>1
    <3>3. SubSeq(EncodedBody(m), 1, 0) = <<>>
      BY SubSeqEmpty
    <3>4. QED
      BY <1>5, <1>12, <3>2, <3>3
  <2>3. wire \o e = wire /\ h \o b = h
    BY <1>3, <1>4, <1>12, <2>2, ConcatEmptySeq, Zenon
  <2>4. u \o h = wire \o after
    <3>1. (wire \o headerBuffer) \o h = wire \o (headerBuffer \o h)
      BY <1>4, AppendedHeaders, Zenon
    <3>2. QED
      BY <1>13, <2>1, <3>1, Zenon
  <2>5. CASE FlushAfter(m, after)
    <3>1. wire' = (wire \o after) \o e /\ headerBuffer' = e
      BY <1>8, <1>12, <1>16, <2>2, <2>3, <2>5, Zenon
    <3>2. wire \o after \in Seq(Cells)
      BY <1>4, ConcatProperties
    <3>3. wire' = wire \o after
      BY <1>12, <3>1, <3>2, ConcatEmptySeq, Zenon
    <3>4. Stream' = wire \o after
      BY <1>12, <3>1, <3>2, <3>3, ConcatEmptySeq, Zenon DEF Stream
    <3>5. QED
      BY <2>3, <2>4, <3>2, <3>3, <3>4, Zenon
  <2>6. CASE ~FlushAfter(m, after)
    <3>1. wire' = (wire \o e) \o e /\ headerBuffer' = after
      BY <1>8, <1>12, <1>16, <2>2, <2>3, <2>6, Zenon
    <3>2. wire' = wire
      BY <2>3, <3>1, Zenon
    <3>3. QED
      BY <1>4, <2>3, <2>4, <3>1, <3>2, Zenon DEF Stream
  <2>7. QED
    BY <2>5, <2>6
<1>17. wire' \in Seq(Cells) /\ Stream' = u \o (h \o b)
  BY <1>15, <1>16
<1>18. Stream' = Stream \o (EncodedHeaders(m, l) \o SubSeq(EncodedBody(m), 1, n))
  BY <1>3, <1>5, <1>13, <1>17, Zenon DEF Stream
<1>19. EncoderTypes'
  <2>2. bufferCap' \in Nat /\ Len(after) <= bufferCap'
    <3>1. bufferCap \in Nat /\ Len(after) \in Nat
      BY DEF EncoderTypes
    <3>2. QED
      BY <1>8, <3>1, GrownFacts
  <2>3. Len(headerBuffer') <= bufferCap'
    BY <1>14, <2>2
  <2>4. link' \in {"up", "eof", "reset"}
    BY <1>8
  <2>5. QED
    BY <1>4, <1>8, <1>9, <1>11, <1>14, <1>17, <2>2, <2>3, <2>4 DEF EncoderTypes
<1>20. l \in BOOLEAN
  BY <1>2 DEF LosesLine
<1>21. QED
  BY <1>10, <1>18, <1>19, <1>20, Zenon

(* Steps that leave the decoder's buffer alone. *)
LEMMA RingStays ==
  ASSUME UNCHANGED ring
  PROVE  /\ Ring!TypeOK' <=> Ring!TypeOK
         /\ Ring!Contents' = Ring!Contents /\ size' = size /\ panicked' = panicked
<1>1. start' = start /\ size' = size /\ buf' = buf /\ io' = io /\ panicked' = panicked
  BY DEF ring
<1>2. QED
  BY <1>1 DEF Ring!TypeOK, Ring!Contents, Ring!Capacity

(* The decoder leaves the encoder alone and reads n cells of the stream. *)
LEMMA StreamAdvances ==
  ASSUME EncoderTypes, NEW n \in Nat, n <= Len(wire),
         wire' = SubSeq(wire, n + 1, Len(wire)), UNCHANGED <<isConn, encoding, link>>
  PROVE  /\ EncoderTypes'
         /\ Stream \in Seq(Cells) /\ Stream' \in Seq(Cells)
         /\ Len(Stream') = Len(Stream) - n /\ Len(wire) <= Len(Stream)
         /\ \A i \in 1 .. n : Stream[i] = wire[i]
         /\ \A i \in 1 .. Len(Stream) - n : Stream'[i] = Stream[n + i]
<1>1. wire \in Seq(Cells) /\ headerBuffer \in Seq(Cells) /\ headerBuffer' = headerBuffer
  BY DEF EncoderTypes, encoding
<1>2. PICK u \in Seq(Cells) : /\ u = SubSeq(wire, n + 1, Len(wire)) /\ Len(u) = Len(wire) - n
                              /\ \A i \in 1 .. Len(wire) - n : u[i] = wire[n + i]
  BY <1>1, CutFacts
<1>3. EncoderTypes'
  BY <1>2 DEF EncoderTypes, encoding
<1>4. PICK s \in Seq(Cells) : /\ s = wire \o headerBuffer /\ Len(s) = Len(wire) + Len(headerBuffer)
                              /\ \A i \in 1 .. Len(wire) + Len(headerBuffer) :
                                   s[i] = IF i <= Len(wire) THEN wire[i] ELSE headerBuffer[i - Len(wire)]
  <2>1. /\ wire \o headerBuffer \in Seq(Cells) /\ Len(wire \o headerBuffer) = Len(wire) + Len(headerBuffer)
        /\ \A i \in 1 .. Len(wire) + Len(headerBuffer) :
             (wire \o headerBuffer)[i] = IF i <= Len(wire) THEN wire[i] ELSE headerBuffer[i - Len(wire)]
    BY <1>1, ConcatProperties
  <2>2. QED
    BY <2>1, Zenon
<1>5. PICK t \in Seq(Cells) : /\ t = u \o headerBuffer /\ Len(t) = Len(u) + Len(headerBuffer)
                              /\ \A i \in 1 .. Len(u) + Len(headerBuffer) :
                                   t[i] = IF i <= Len(u) THEN u[i] ELSE headerBuffer[i - Len(u)]
  <2>1. /\ u \o headerBuffer \in Seq(Cells) /\ Len(u \o headerBuffer) = Len(u) + Len(headerBuffer)
        /\ \A i \in 1 .. Len(u) + Len(headerBuffer) :
             (u \o headerBuffer)[i] = IF i <= Len(u) THEN u[i] ELSE headerBuffer[i - Len(u)]
    BY <1>1, <1>2, ConcatProperties
  <2>2. QED
    BY <2>1, Zenon
<1>6. Stream = s /\ Stream' = t
  BY <1>1, <1>2, <1>4, <1>5 DEF Stream
<1>7. PICK W \in Nat, B \in Nat : W = Len(wire) /\ B = Len(headerBuffer)
  BY <1>1
<1>8. Len(t) = Len(s) - n /\ Len(s) = W + B /\ W <= Len(s) /\ n <= W /\ Len(u) = W - n
  <2>1. /\ Len(u) = W - n /\ n <= W /\ Len(s) = W + B /\ Len(t) = Len(u) + B
    BY <1>2, <1>4, <1>5, <1>7, Zenon
  <2>2. QED
    BY <2>1
<1>9. ASSUME NEW i \in 1 .. n PROVE s[i] = wire[i]
  <2>1. i \in 1 .. W + B /\ i <= W
    BY <1>8
  <2>2. QED
    BY <1>4, <1>7, <2>1
<1>10. ASSUME NEW i \in 1 .. Len(s) - n PROVE t[i] = s[n + i]
  <2>1. /\ i \in 1 .. Len(u) + B /\ n + i \in 1 .. W + B
        /\ (i <= Len(u) <=> n + i <= W) /\ i - Len(u) = (n + i) - W
    BY <1>8
  <2>2. CASE i <= Len(u)
    <3>1. t[i] = u[i] /\ s[n + i] = wire[n + i] /\ i \in 1 .. Len(wire) - n
      BY <1>4, <1>5, <1>7, <1>8, <2>1, <2>2
    <3>2. QED
      BY <1>2, <3>1
  <2>3. CASE ~(i <= Len(u))
    <3>1. t[i] = headerBuffer[i - Len(u)] /\ s[n + i] = headerBuffer[(n + i) - W]
      BY <1>4, <1>5, <1>7, <2>1, <2>3
    <3>2. QED
      BY <2>1, <3>1
  <2>4. QED
    BY <2>2, <2>3
<1>11. QED
  BY <1>3, <1>6, <1>7, <1>8, <1>9, <1>10

(* Reading the start line. *)
LEMMA ReadLineTypes ==
  ASSUME CodecInv, ReadLine
  PROVE  /\ CodecInv'
         /\ wire # <<>> /\ Head(wire) = wire[1] /\ wire[1] \in Cells /\ 1 <= Len(wire)
         /\ wire' = SubSeq(wire, 1 + 1, Len(wire)) /\ UNCHANGED <<isConn, encoding, link>>
<1> USE DEF CodecInv
<1>1. /\ reader = "line" /\ wire # <<>> /\ wire' = Tail(wire)
      /\ UNCHANGED <<isConn, encoding, link, ring>>
  BY DEF ReadLine
<1>2. wire \in Seq(Cells)
  BY DEF EncoderTypes
<1>3. /\ Head(wire) = wire[1] /\ wire[1] \in Cells /\ 1 <= Len(wire)
      /\ wire' = SubSeq(wire, 1 + 1, Len(wire))
  <2>1. Len(wire) \in Nat \ {0}
    BY <1>1, <1>2, EmptySeq
  <2>2. Tail(wire) = SubSeq(wire, 2, Len(wire))
    BY <1>1, <1>2, TailIsSubSeq
  <2>3. Head(wire) = wire[1] /\ wire[1] \in Cells
    BY <1>2, <2>1
  <2>4. QED
    BY <1>1, <2>1, <2>2, <2>3
<1>4. EncoderTypes'
  BY <1>1, <1>3, StreamAdvances
<1>5. Ring!TypeOK' /\ size' = 0 /\ Ring!Contents' = <<>>
  BY <1>1, Drained, RingStays DEF HeaderInv
<1>6. DecoderTypes' /\ HeaderInv'
  <2>1. CASE Head(wire)[1] \in {"line", "zero"} /\ Proceed(Head(wire)[2], "line", Empty)
    <3>1. Head(wire)[2] \in Messages \cup {NoMessage}
      BY <1>3 DEF Cells
    <3>2. Empty \in Parts /\ Empty.header = <<>>
      BY EmptySeq DEF Empty, Parts
    <3>3. /\ DecoderTypes' /\ reader' \in {"line", "error", "header", "body"}
          /\ Busy' => line' \in Messages /\ got' = Empty
      BY <2>1, <3>1, <3>2, ProceedFacts
    <3>4. QED
      BY <1>5, <3>2, <3>3 DEF HeaderInv, Busy
  <2>2. CASE reader' = "garbage" /\ UNCHANGED <<line, got, received>>
    BY <2>2 DEF HeaderInv, Busy, DecoderTypes
  <2>3. QED
    BY <2>1, <2>2 DEF ReadLine
<1>7. QED
  BY <1>1, <1>3, <1>4, <1>5, <1>6

(* Reading the error. *)
LEMMA ReadErrorTypes ==
  ASSUME CodecInv, ReadError
  PROVE  CodecInv' /\ [got EXCEPT !.error = SubSeq(wire, 1, ErrorSize[line])] \in Parts
<1> USE DEF CodecInv
<1>1. PICK n \in Nat : n = ErrorSize[line]
  BY Sizes DEF ReadError, HeaderInv, Busy
<1>2. /\ reader = "error" /\ n <= Len(wire) /\ wire' = SubSeq(wire, n + 1, Len(wire))
      /\ Proceed(line, "error", [got EXCEPT !.error = SubSeq(wire, 1, n)])
      /\ UNCHANGED <<isConn, encoding, link, ring>>
  <2>1. Len(wire) >= n => n <= Len(wire)
    BY <1>1 DEF EncoderTypes
  <2>2. QED
    BY <1>1, <2>1 DEF ReadError
<1>3. EncoderTypes'
  BY <1>2, StreamAdvances
<1>4. PICK p : p = [got EXCEPT !.error = SubSeq(wire, 1, n)]
  OBVIOUS
<1>5. p \in Parts /\ p.header = <<>>
  <2>1. SubSeq(wire, 1, n) \in Seq(Cells)
    BY <1>2, CutFacts DEF EncoderTypes
  <2>2. got \in Parts /\ got.header = <<>>
    BY <1>2 DEF DecoderTypes, HeaderInv
  <2>3. QED
    BY <1>4, <2>1, <2>2 DEF Parts
<1>6. Ring!TypeOK' /\ size' = 0 /\ Ring!Contents' = <<>>
  BY <1>2, Drained, RingStays DEF HeaderInv
<1>7. /\ DecoderTypes' /\ reader' \in {"line", "header", "body"}
      /\ Busy' => line' \in Messages /\ got' = p
  <2>1. line \in Messages \cup {NoMessage} /\ Proceed(line, "error", p)
    BY <1>2, <1>4 DEF DecoderTypes
  <2>2. QED
    BY <1>5, <2>1, ProceedFacts
<1>8. HeaderInv'
  BY <1>5, <1>6, <1>7 DEF HeaderInv, Busy
<1>9. QED
  BY <1>1, <1>3, <1>4, <1>5, <1>6, <1>7, <1>8

(* Copying a piece of the headers. *)
LEMMA CopyHeaderTypes ==
  ASSUME CodecInv, NEW n \in 1 .. Len(wire), n <= HeaderLeft,
         reader = "header", Ring!Write(SubSeq(wire, 1, n)),
         wire' = SubSeq(wire, n + 1, Len(wire)),
         got' = [got EXCEPT !.header = @ \o SubSeq(wire, 1, n)],
         UNCHANGED <<isConn, encoding, link, reader, line, received>>
  PROVE  /\ CodecInv'
         /\ got'.error = got.error /\ got'.body = got.body
         /\ Len(got'.header) = Len(got.header) + n
         /\ \A i \in 1 .. Len(got.header) : got'.header[i] = got.header[i]
         /\ \A i \in 1 .. n : got'.header[Len(got.header) + i] = wire[i]
<1> USE DEF CodecInv
<1>1. wire \in Seq(Cells) /\ n \in Nat /\ n <= Len(wire) /\ n > 0 /\ Len(wire) \in Nat
  BY DEF EncoderTypes
<1>2. PICK p \in Seq(Cells) : p = SubSeq(wire, 1, n) /\ Len(p) = n /\ \A i \in 1 .. n : p[i] = wire[i]
  BY <1>1, CutFacts
<1>3. PICK g \in Seq(Cells) : g = got.header
  BY DEF DecoderTypes, Parts
<1>4. PICK q \in Seq(Cells) : /\ q = g \o p /\ Len(q) = Len(g) + n
                              /\ \A i \in 1 .. Len(g) : q[i] = g[i]
                              /\ \A i \in 1 .. n : q[Len(g) + i] = p[i]
  <2>1. /\ g \o p \in Seq(Cells) /\ Len(g \o p) = Len(g) + Len(p)
        /\ \A i \in 1 .. Len(g) : (g \o p)[i] = g[i]
        /\ \A i \in 1 .. Len(p) : (g \o p)[Len(g) + i] = p[i]
    OBVIOUS
  <2>2. QED
    BY <1>2, <2>1, Zenon
<1>5. got' = [got EXCEPT !.header = q]
  BY <1>2, <1>3, <1>4
<1>6. got' \in Parts /\ got'.header = q /\ got'.error = got.error /\ got'.body = got.body
  BY <1>5 DEF DecoderTypes, Parts
<1>7. EncoderTypes'
  BY <1>1, StreamAdvances
<1>8. DecoderTypes'
  BY <1>6 DEF DecoderTypes
<1>9. /\ Ring!TypeOK' /\ ~panicked
      /\ \/ panicked' = TRUE
         \/ panicked' = panicked /\ Ring!Contents' = Ring!Contents \o p
  BY <1>1, <1>2, HeaderWrite
<1>10. HeaderInv'
  <2>1. ~panicked' => Ring!Contents' = q
    <3>1. Ring!Contents = g
      BY <1>3, <1>9 DEF HeaderInv
    <3>2. QED
      BY <1>4, <1>9, <3>1
  <2>2. line \in Messages /\ reader' = "header" /\ line' = line
    BY DEF HeaderInv, Busy
  <2>3. QED
    BY <1>6, <2>1, <2>2 DEF HeaderInv
<1>11. QED
  BY <1>2, <1>3, <1>4, <1>6, <1>7, <1>8, <1>9, <1>10, Zenon

(* Taking the headers out of the buffer: they are what was copied. *)
LEMMA SliceHeaderTypes ==
  ASSUME CodecInv, SliceHeader
  PROVE  /\ CodecInv'
         /\ reader' = "failed" \/ Proceed(line, "header", got)
         /\ reader' = "failed" => UNCHANGED <<line, got, received>>
         /\ Len(got.header) = HeaderSize[line]
<1> USE DEF CodecInv
<1>1. PICK n \in Nat : n = HeaderSize[line]
  BY Sizes DEF SliceHeader, HeaderInv, Busy
<1>2. /\ reader = "header" /\ n - Len(got.header) = 0 /\ Ring!TrySlice(n)
      /\ UNCHANGED <<isConn, encoding, wire, link>>
  BY <1>1 DEF SliceHeader, HeaderLeft
<1>3. ~panicked
  BY <1>2 DEF Ring!TrySlice
<1>4. PICK g \in Seq(Cells) : g = got.header
  BY DEF DecoderTypes, Parts
<1>5. n = Len(g) /\ Ring!Contents = g /\ size = n
  <2>1. Ring!Contents = g
    BY <1>2, <1>3, <1>4 DEF HeaderInv
  <2>2. Len(Ring!Contents) = size
    BY ContentsTyped
  <2>3. n - Len(g) = 0 /\ Len(g) \in Nat
    BY <1>2, <1>4
  <2>4. QED
    BY <2>1, <2>2, <2>3
<1>6. Ring!TypeOK' /\ size' = 0 /\ io'[2] = g
  BY <1>2, <1>5, HeaderSlice
<1>7. EncoderTypes'
  BY <1>2 DEF EncoderTypes, encoding
<1>8. [got EXCEPT !.header = io'[2]] = got /\ got \in Parts
  BY <1>4, <1>6 DEF DecoderTypes, Parts
<1>9. \/ Proceed(line, "header", got)
      \/ reader' = "failed" /\ UNCHANGED <<line, got, received>>
  BY <1>8 DEF SliceHeader
<1>10. CASE reader' = "failed" /\ UNCHANGED <<line, got, received>>
  BY <1>1, <1>4, <1>5, <1>6, <1>7, <1>10 DEF DecoderTypes, HeaderInv, Busy
<1>11. CASE Proceed(line, "header", got)
  <2>1. line \in Messages \cup {NoMessage}
    BY DEF DecoderTypes
  <2>2. /\ DecoderTypes' /\ reader' \in {"line", "body"}
        /\ Busy' => line' \in Messages
    BY <1>8, <1>11, <2>1, ProceedFacts
  <2>3. HeaderInv'
    BY <1>6, <2>2 DEF HeaderInv, Busy
  <2>4. QED
    BY <1>1, <1>4, <1>5, <1>6, <1>7, <1>11, <2>2, <2>3
<1>12. QED
  BY <1>9, <1>10, <1>11

(* Reading the body. *)
LEMMA ReadBodyTypes ==
  ASSUME CodecInv, ReadBody
  PROVE  CodecInv' /\ [got EXCEPT !.body = SubSeq(wire, 1, BodySize[line])] \in Parts
<1> USE DEF CodecInv
<1>1. PICK n \in Nat : n = BodySize[line]
  BY Sizes DEF ReadBody, HeaderInv, Busy
<1>2. /\ reader = "body" /\ n <= Len(wire) /\ wire' = SubSeq(wire, n + 1, Len(wire))
      /\ Proceed(line, "body", [got EXCEPT !.body = SubSeq(wire, 1, n)])
      /\ UNCHANGED <<isConn, encoding, link, ring>>
  <2>1. Len(wire) >= n => n <= Len(wire)
    BY <1>1 DEF EncoderTypes
  <2>2. QED
    BY <1>1, <2>1 DEF ReadBody
<1>3. EncoderTypes'
  BY <1>2, StreamAdvances
<1>4. PICK p : p = [got EXCEPT !.body = SubSeq(wire, 1, n)]
  OBVIOUS
<1>5. p \in Parts
  <2>1. SubSeq(wire, 1, n) \in Seq(Cells)
    BY <1>2, CutFacts DEF EncoderTypes
  <2>2. got \in Parts
    BY <1>2 DEF DecoderTypes
  <2>3. QED
    BY <1>4, <2>1, <2>2 DEF Parts
<1>6. Ring!TypeOK' /\ size' = 0
  BY <1>2, RingStays DEF HeaderInv
<1>7. /\ DecoderTypes' /\ reader' = "line"
  <2>1. line \in Messages /\ Proceed(line, "body", p)
    BY <1>2, <1>4 DEF HeaderInv, Busy
  <2>2. NextPart(line, "body") = "done"
    BY <2>1, NextPartFacts
  <2>3. DecoderTypes' /\ (Busy' => reader' = NextPart(line, "body")) /\ (~Busy' => reader' = "line")
    BY <1>5, <2>1, ProceedFacts
  <2>4. QED
    BY <2>2, <2>3 DEF Busy
<1>8. HeaderInv'
  BY <1>6, <1>7 DEF HeaderInv, Busy
<1>9. QED
  BY <1>1, <1>3, <1>4, <1>5, <1>6, <1>7, <1>8

(* Every step keeps the types and the decoder's buffer in order. *)
LEMMA CodecInvNext == CodecInv /\ [CodecNext]_codecVars => CodecInv'
<1> SUFFICES ASSUME CodecInv, [CodecNext]_codecVars PROVE CodecInv'
  OBVIOUS
<1> USE DEF CodecInv
<1>0. ASSUME UNCHANGED decoding, UNCHANGED ring PROVE DecoderTypes' /\ Ring!TypeOK' /\ HeaderInv'
  BY <1>0, RingStays DEF decoding, DecoderTypes, HeaderInv, Busy
<1>1. ASSUME NEW m \in Messages, NEW n \in 0 .. Len(EncodedBody(m)), Encode(m, n) PROVE CodecInv'
  <2>1. EncoderTypes'
    BY <1>1, EncodeStream
  <2>2. UNCHANGED decoding /\ UNCHANGED ring
    BY <1>1 DEF Encode
  <2>3. QED
    BY <1>0, <2>1, <2>2
<1>2. CASE Flush
  <2>1. UNCHANGED decoding /\ UNCHANGED ring /\ UNCHANGED <<isConn, bufferCap, sent, lost, link>>
    BY <1>2 DEF Flush
  <2>2. PICK e \in Seq(Cells) : e = <<>> /\ Len(e) = 0
    BY EmptySeq
  <2>3. wire' \in Seq(Cells)
    BY <1>2, ConcatProperties DEF Flush, EncoderTypes
  <2>4. headerBuffer' = e
    BY <1>2, <2>2 DEF Flush
  <2>5. EncoderTypes'
    <3>1. 0 < BufferSize /\ 0 <= bufferCap
      BY Sizes DEF EncoderTypes
    <3>2. QED
      BY <2>1, <2>2, <2>3, <2>4, <3>1 DEF EncoderTypes
  <2>6. QED
    BY <1>0, <2>1, <2>5
<1>3. CASE LinkEnds
  <2>1. EncoderTypes'
    BY <1>3 DEF LinkEnds, EncoderTypes, encoding
  <2>2. UNCHANGED decoding /\ UNCHANGED ring
    BY <1>3 DEF LinkEnds
  <2>3. QED
    BY <1>0, <2>1, <2>2
<1>4. CASE CopyHeader
  <2>1. PICK n \in 1 .. Len(wire) :
          /\ n <= HeaderLeft /\ Ring!Write(SubSeq(wire, 1, n))
          /\ wire' = SubSeq(wire, n + 1, Len(wire))
          /\ got' = [got EXCEPT !.header = @ \o SubSeq(wire, 1, n)]
    BY <1>4 DEF CopyHeader
  <2>2. reader = "header" /\ UNCHANGED <<isConn, encoding, link, reader, line, received>>
    BY <1>4 DEF CopyHeader
  <2>3. QED
    BY <2>1, <2>2, CopyHeaderTypes
<1>5. CASE DecodeFails
  <2>1. UNCHANGED <<isConn, encoding, wire, link, line, got, received, ring>> /\ reader' = "failed"
    BY <1>5 DEF DecodeFails
  <2>2. EncoderTypes' /\ DecoderTypes'
    BY <2>1 DEF EncoderTypes, DecoderTypes, encoding
  <2>3. Ring!TypeOK' /\ HeaderInv'
    BY <2>1, RingStays DEF HeaderInv, Busy
  <2>4. QED
    BY <2>2, <2>3
<1>6. CASE UNCHANGED codecVars
  <2>1. UNCHANGED decoding /\ UNCHANGED ring /\ UNCHANGED <<isConn, encoding, wire, link>>
    BY <1>6 DEF codecVars
  <2>2. EncoderTypes'
    BY <2>1 DEF EncoderTypes, encoding
  <2>3. QED
    BY <1>0, <2>1, <2>2
<1>7. QED
  BY <1>1, <1>2, <1>3, <1>4, <1>5, <1>6, ReadLineTypes, ReadErrorTypes, SliceHeaderTypes, ReadBodyTypes
  DEF CodecNext, Decode

(* The encoder's and the decoder's buffers are empty at first. *)
LEMMA CodecInvInit == CodecInit => CodecInv
<1> SUFFICES ASSUME CodecInit PROVE CodecInv
  OBVIOUS
<1>1. PICK e \in Seq(Cells) : e = <<>> /\ Len(e) = 0
  BY EmptySeq
<1>2. headerBuffer = e /\ wire = e /\ bufferCap = BufferSize /\ isConn \in BOOLEAN /\ link = "up" /\ lost = {}
  BY <1>1 DEF CodecInit
<1>3. sent = <<>> /\ reader = "line" /\ line = NoMessage /\ got = Empty /\ received = <<>>
  BY DEF CodecInit
<1>4. sent \in Seq(Messages) /\ received \in Seq((Messages \cup {NoMessage}) \X Parts)
  BY <1>3, EmptySeq
<1>5. EncoderTypes
  <2>1. BufferSize \in Nat /\ 0 < BufferSize /\ 0 <= BufferSize
    BY Sizes
  <2>2. QED
    BY <1>1, <1>2, <1>4, <2>1 DEF EncoderTypes
<1>6. got \in Parts
  BY <1>1, <1>3 DEF Empty, Parts
<1>7. DecoderTypes
  BY <1>3, <1>4, <1>6 DEF DecoderTypes
<1>8. Ring!TypeOK /\ size = 0
  <2>1. RingThm!Init
    <3>1. Ring!Init
      BY DEF CodecInit
    <3>2. QED
      BY <3>1, Zenon DEF Ring!Init, RingThm!Init
  <2>2. RingThm!TypeOK
    BY <2>1, RingFits, RingThm!RingInit, Zenon
  <2>3. size = 0
    BY <2>1 DEF RingThm!Init
  <2>4. QED
    BY <2>2, <2>3, SameTypes
<1>9. QED
  BY <1>3, <1>5, <1>7, <1>8 DEF CodecInv, HeaderInv, Busy

-----------------------------------------------------------------------------
(* What is on the stream.  Message m of an encoder takes MessageSize(m)    *)
(* cells; cut says, relative to the first cell that was not read, where    *)
(* the messages end: message i has the cells after cut[i - 1] up to        *)
(* cut[i], which is not positive for what was read.  The last message may  *)
(* have been broken off.                                                   *)

MessageSize(m) == 1 + HeaderSize[m] + ErrorSize[m] + (IF HasBody(m) THEN BodySize[m] ELSE 0)

(* Byte j of what follows the start line. *)
HeadCell(m, j) == IF j <= HeaderSize[m] THEN <<"header", m, j>> ELSE <<"error", m, j - HeaderSize[m]>>

(* Cell j of a message whose start line was lost or not. *)
CellOf(spliced, m, loses, j) ==
  IF j = 1 THEN IF loses THEN Zero ELSE <<"line", m, 1>>
  ELSE IF j <= 1 + HeaderSize[m] + ErrorSize[m] THEN HeadCell(m, j - 1)
  ELSE <<"body", m, (IF spliced THEN Offset[m] ELSE 0) + (j - (1 + HeaderSize[m] + ErrorSize[m]))>>

Laid(cut, spliced, s, ms, lo) ==
  /\ cut \in [0 .. Len(ms) -> Int]
  /\ \A i \in 1 .. Len(ms) : cut[i] = cut[i - 1] + MessageSize(ms[i])
  /\ \A i, j \in 0 .. Len(ms) : i < j => cut[i] < cut[j]
  /\ \A x \in 1 .. Len(s) : \E i \in 1 .. Len(ms) : cut[i - 1] < x /\ x <= cut[i]
  /\ \A i \in 1 .. Len(ms), x \in 1 .. Len(s) :
       cut[i - 1] < x /\ x <= cut[i] => s[x] = CellOf(spliced, ms[i], i \in lo, x - cut[i - 1])

(* Nothing is missing at the end while the connection is up. *)
LaidInv(cut) ==
  /\ Laid(cut, isConn, Stream, sent, lost)
  /\ link = "up" => Len(Stream) = cut[Len(sent)]

(* The messages that the decoder has begun are messages that were sent. *)
Begun == Len(received) + (IF Busy THEN 1 ELSE 0)

Counted(cut) ==
  /\ Begun <= Len(sent)
  /\ Begun > 0 => cut[Begun - 1] < 0

(* Within message i the decoder has read its bytes up to where the stream  *)
(* stands.                                                                 *)

HeadRead(m, parts) ==
  /\ \A j \in 1 .. Len(parts.error) : parts.error[j] = HeadCell(m, j)
  /\ \A j \in 1 .. Len(parts.header) : parts.header[j] = HeadCell(m, Len(parts.error) + j)
  /\ parts.body = <<>>

ReadUpTo(cut, i, m, parts) ==
  /\ i \notin lost /\ m = sent[i] /\ HeadRead(m, parts)
  /\ cut[i - 1] = -(1 + Len(parts.error) + Len(parts.header))

InMessage(cut, i) ==
  /\ ReadUpTo(cut, i, line, got)
  /\ reader = "error" => Len(got.error) = 0 /\ Len(got.header) = 0
  /\ reader \in {"header", "body"} => Len(got.error) = ErrorSize[line]
  /\ reader = "body" => Len(got.header) = HeaderSize[line]

(* While the stream is in step the decoder is where a message begins or    *)
(* inside the next one.                                                    *)
Aligned(cut) ==
  InStep(Len(received)) =>
    /\ reader # "garbage"
    /\ reader = "line" => cut[Len(received)] = 0
    /\ Busy => InMessage(cut, Len(received) + 1)

Told ==
  \A i \in 1 .. Len(received) :
    InStep(i) => received[i][1] = sent[i] /\ Faithful(sent[i], received[i][2])

DecodeInv == Told /\ \E cut : LaidInv(cut) /\ Counted(cut) /\ Aligned(cut)


(* A message has at least its start line, headers and error. *)
LEMMA MessageSizes ==
  ASSUME NEW m \in Messages
  PROVE  /\ MessageSize(m) \in Nat /\ 1 + HeaderSize[m] + ErrorSize[m] <= MessageSize(m)
         /\ HasBody(m) => MessageSize(m) = 1 + HeaderSize[m] + ErrorSize[m] + BodySize[m]
         /\ ~HasBody(m) => MessageSize(m) = 1 + HeaderSize[m] + ErrorSize[m]
BY Sizes DEF MessageSize

(* t is what remains of s after n cells. *)
Advanced(s, t, n) ==
  n <= Len(s) /\ Len(t) = Len(s) - n /\ \A i \in 1 .. Len(s) - n : t[i] = s[n + i]

(* There is a layout of t in which everything is n cells nearer. *)
Nearer(cut, spliced, t, ms, lo, n) ==
  \E c : Laid(c, spliced, t, ms, lo) /\ \A i \in 0 .. Len(ms) : c[i] = cut[i] - n

(* The decoder reads n cells. *)
LEMMA LaidShift ==
  ASSUME NEW cut, NEW spliced, NEW s \in Seq(Cells), NEW t \in Seq(Cells),
         NEW ms \in Seq(Messages), NEW lo, Laid(cut, spliced, s, ms, lo),
         NEW n \in Nat, Advanced(s, t, n)
  PROVE  Nearer(cut, spliced, t, ms, lo, n)
<1> USE DEF Advanced
<1>1. PICK M \in Nat, S \in Nat : M = Len(ms) /\ S = Len(s)
  OBVIOUS
<1>2. PICK c : c = [i \in 0 .. M |-> cut[i] - n]
  OBVIOUS
<1>3. /\ cut \in [0 .. M -> Int]
      /\ \A i \in 1 .. M : cut[i] = cut[i - 1] + MessageSize(ms[i])
      /\ \A i, j \in 0 .. M : i < j => cut[i] < cut[j]
      /\ \A x \in 1 .. S : \E i \in 1 .. M : cut[i - 1] < x /\ x <= cut[i]
      /\ \A i \in 1 .. M, x \in 1 .. S :
           cut[i - 1] < x /\ x <= cut[i] => s[x] = CellOf(spliced, ms[i], i \in lo, x - cut[i - 1])
  BY <1>1 DEF Laid
<1>4. c \in [0 .. M -> Int] /\ \A i \in 0 .. M : c[i] = cut[i] - n
  BY <1>2, <1>3
<1>5. ASSUME NEW i \in 1 .. M
      PROVE  \E a, b \in Int : a = cut[i] /\ b = cut[i - 1] /\ c[i] = a - n /\ c[i - 1] = b - n
  <2>1. i \in 0 .. M /\ i - 1 \in 0 .. M
    OBVIOUS
  <2>2. cut[i] \in Int /\ cut[i - 1] \in Int
    BY <1>3, <2>1
  <2>3. QED
    BY <1>4, <2>1, <2>2
<1>6. ASSUME NEW i \in 1 .. M PROVE c[i] = c[i - 1] + MessageSize(ms[i])
  <2>1. PICK z \in Nat : z = MessageSize(ms[i])
    BY <1>1, MessageSizes
  <2>2. PICK a \in Int, b \in Int : a = cut[i] /\ b = cut[i - 1] /\ c[i] = a - n /\ c[i - 1] = b - n
    BY <1>5
  <2>3. a = b + z
    BY <1>3, <2>1, <2>2
  <2>4. a - n = (b - n) + z
    BY <2>3
  <2>5. QED
    BY <2>1, <2>2, <2>4
<1>7. ASSUME NEW i \in 0 .. M, NEW j \in 0 .. M, i < j PROVE c[i] < c[j]
  <2>1. cut[i] \in Int /\ cut[j] \in Int /\ cut[i] < cut[j]
    BY <1>3, <1>7
  <2>2. QED
    BY <1>4, <2>1, SMTT(30)
<1>8. ASSUME NEW x \in 1 .. Len(t) PROVE \E i \in 1 .. M : c[i - 1] < x /\ x <= c[i]
  <2>1. n + x \in 1 .. S
    BY <1>1
  <2>2. PICK i \in 1 .. M : cut[i - 1] < n + x /\ n + x <= cut[i]
    BY <1>3, <2>1
  <2>3. PICK a \in Int, b \in Int : a = cut[i] /\ b = cut[i - 1] /\ c[i] = a - n /\ c[i - 1] = b - n
    BY <1>5
  <2>4. b - n < x /\ x <= a - n
    BY <2>2, <2>3, SMTT(30)
  <2>5. QED
    BY <2>3, <2>4
<1>9. ASSUME NEW i \in 1 .. M, NEW x \in 1 .. Len(t), c[i - 1] < x, x <= c[i]
      PROVE  t[x] = CellOf(spliced, ms[i], i \in lo, x - c[i - 1])
  <2>1. n + x \in 1 .. S /\ x \in 1 .. Len(s) - n
    BY <1>1
  <2>2. cut[i - 1] < n + x /\ n + x <= cut[i] /\ (n + x) - cut[i - 1] = x - c[i - 1]
    <3>1. PICK a \in Int, b \in Int : a = cut[i] /\ b = cut[i - 1] /\ c[i] = a - n /\ c[i - 1] = b - n
      BY <1>5
    <3>2. b - n < x /\ x <= a - n
      BY <1>9, <3>1
    <3>3. b < n + x /\ n + x <= a /\ (n + x) - b = x - (b - n)
      BY <3>2
    <3>4. QED
      BY <3>1, <3>3
  <2>3. t[x] = s[n + x]
    BY <2>1
  <2>4. s[n + x] = CellOf(spliced, ms[i], i \in lo, (n + x) - cut[i - 1])
    BY <1>3, <2>1, <2>2
  <2>5. QED
    BY <2>2, <2>3, <2>4
<1>10. Laid(c, spliced, t, ms, lo)
  BY <1>1, <1>4, <1>6, <1>7, <1>8, <1>9, Zenon DEF Laid
<1>11. QED
  BY <1>1, <1>4, <1>10, Zenon DEF Nearer

(* Two pieces of a stream, one after the other. *)
LEMMA Together ==
  ASSUME NEW s \in Seq(Cells), NEW x \in Seq(Cells)
  PROVE  /\ s \o x \in Seq(Cells) /\ Len(s \o x) = Len(s) + Len(x)
         /\ \A k \in 1 .. Len(s) : (s \o x)[k] = s[k]
         /\ \A k \in 1 .. Len(x) : (s \o x)[Len(s) + k] = x[k]
OBVIOUS

(* There is a layout of t, with m as one more message, that leaves the     *)
(* others where they are.                                                  *)
Extended(cut, spliced, t, ms, m, lo) ==
  \E c : /\ Laid(c, spliced, t, Append(ms, m), lo)
         /\ \A i \in 0 .. Len(ms) : c[i] = cut[i]
         /\ c[Len(ms) + 1] = cut[Len(ms)] + MessageSize(m)

(* x are the first cells of m, or all of them. *)
CellsOf(x, spliced, m, loses) ==
  Len(x) <= MessageSize(m) /\ \A j \in 1 .. Len(x) : x[j] = CellOf(spliced, m, loses, j)

(* The encoder adds the cells of a message, or the first of them. *)
LEMMA LaidExtend ==
  ASSUME NEW cut, NEW spliced, NEW s \in Seq(Cells), NEW ms \in Seq(Messages),
         NEW lo, lo \subseteq 1 .. Len(ms), Laid(cut, spliced, s, ms, lo), Len(s) = cut[Len(ms)],
         NEW m \in Messages, NEW loses \in BOOLEAN, NEW x \in Seq(Cells), CellsOf(x, spliced, m, loses),
         NEW lo2, lo2 = (IF loses THEN lo \cup {Len(ms) + 1} ELSE lo),
         NEW t, t = s \o x
  PROVE  Extended(cut, spliced, t, ms, m, lo2)
<1> DEFINE ms2 == Append(ms, m)
<1> USE DEF CellsOf
<1> HIDE DEF ms2
<1>1. PICK M \in Nat, S \in Nat, X \in Nat, Z \in Nat :
        M = Len(ms) /\ S = Len(s) /\ X = Len(x) /\ Z = MessageSize(m) /\ 1 <= Z /\ X <= Z
  <2>1. MessageSize(m) \in Nat /\ 1 <= MessageSize(m)
    <3>1. HeaderSize[m] \in Nat /\ ErrorSize[m] \in Nat
      BY Sizes
    <3>2. QED
      BY <3>1, MessageSizes
  <2>2. QED
    BY <2>1
<1>2. PICK c : c = [i \in 0 .. M + 1 |-> IF i <= M THEN cut[i] ELSE S + Z]
  OBVIOUS
<1>3. /\ cut \in [0 .. M -> Int]
      /\ \A i \in 1 .. M : cut[i] = cut[i - 1] + MessageSize(ms[i])
      /\ \A i, j \in 0 .. M : i < j => cut[i] < cut[j]
      /\ \A k \in 1 .. S : \E i \in 1 .. M : cut[i - 1] < k /\ k <= cut[i]
      /\ \A i \in 1 .. M, k \in 1 .. S :
           cut[i - 1] < k /\ k <= cut[i] => s[k] = CellOf(spliced, ms[i], i \in lo, k - cut[i - 1])
  BY <1>1 DEF Laid
<1>4. /\ c \in [0 .. M + 1 -> Int] /\ c[M + 1] = S + Z /\ cut[M] = S
      /\ \A i \in 0 .. M : c[i] = cut[i]
  BY <1>1, <1>2, <1>3
<1>5. /\ ms2 \in Seq(Messages) /\ Len(ms2) = M + 1 /\ ms2[M + 1] = m
      /\ \A i \in 1 .. M : ms2[i] = ms[i]
  BY <1>1 DEF ms2
<1>6. /\ t \in Seq(Cells) /\ Len(t) = S + X
      /\ \A k \in 1 .. S : t[k] = s[k]
      /\ \A k \in 1 .. X : t[S + k] = x[k]
  <2>1. /\ s \o x \in Seq(Cells) /\ Len(s \o x) = Len(s) + Len(x)
        /\ \A k \in 1 .. Len(s) : (s \o x)[k] = s[k]
        /\ \A k \in 1 .. Len(x) : (s \o x)[Len(s) + k] = x[k]
    BY Together, Zenon
  <2>2. QED
    BY <1>1, <2>1, Zenon
<1>7. /\ \A i \in 1 .. M : i \in lo2 <=> i \in lo
      /\ M + 1 \in lo2 <=> loses
  <2>1. M + 1 \notin lo
    BY <1>1
  <2>2. \A i \in 1 .. M : i # M + 1
    OBVIOUS
  <2>3. QED
    BY <1>1, <2>1, <2>2
<1>8. ASSUME NEW i \in 1 .. M + 1 PROVE c[i] = c[i - 1] + MessageSize(ms2[i])
  <2>1. CASE i \in 1 .. M
    <3>1. i \in 0 .. M /\ i - 1 \in 0 .. M
      BY <2>1
    <3>2. c[i] = cut[i] /\ c[i - 1] = cut[i - 1] /\ ms2[i] = ms[i]
      BY <1>4, <1>5, <2>1, <3>1
    <3>3. cut[i] = cut[i - 1] + MessageSize(ms[i])
      BY <1>3, <2>1
    <3>4. QED
      BY <3>2, <3>3
  <2>2. CASE i = M + 1
    <3>1. i - 1 = M /\ M \in 0 .. M
      BY <2>2
    <3>2. c[i - 1] = S /\ c[i] = S + Z /\ ms2[i] = m
      BY <1>4, <1>5, <2>2, <3>1
    <3>3. S + Z = S + MessageSize(ms2[i])
      BY <1>1, <3>2, Zenon
    <3>4. QED
      BY <3>2, <3>3, Zenon
  <2>3. i \in 1 .. M \/ i = M + 1
    OBVIOUS
  <2>4. QED
    BY <2>1, <2>2, <2>3, Zenon
<1>9. ASSUME NEW i \in 0 .. M + 1, NEW j \in 0 .. M + 1, i < j PROVE c[i] < c[j]
  <2>1. i \in 0 .. M /\ (i = M \/ i < M)
    BY <1>9
  <2>2. PICK a \in Int : a = cut[i] /\ c[i] = a
    BY <1>3, <1>4, <2>1
  <2>3. CASE j \in 0 .. M
    BY <1>3, <1>4, <1>9, <2>1, <2>3
  <2>4. CASE j = M + 1
    <3>1. a <= S
      BY <1>3, <1>4, <2>1, <2>2, SMTT(30)
    <3>2. a < S + Z
      BY <1>1, <3>1
    <3>3. QED
      BY <1>4, <2>2, <2>4, <3>2
  <2>5. QED
    BY <2>3, <2>4
<1>10. ASSUME NEW k \in 1 .. S + X PROVE \E i \in 1 .. M + 1 : c[i - 1] < k /\ k <= c[i]
  <2>1. CASE k <= S
    <3>0. k \in 1 .. S
      BY <2>1
    <3>1. PICK i \in 1 .. M : cut[i - 1] < k /\ k <= cut[i]
      BY <1>3, <3>0, Zenon
    <3>2. i \in 1 .. M + 1 /\ i \in 0 .. M /\ i - 1 \in 0 .. M
      OBVIOUS
    <3>3. c[i] = cut[i] /\ c[i - 1] = cut[i - 1]
      BY <1>4, <3>2
    <3>4. QED
      BY <3>1, <3>2, <3>3
  <2>2. CASE ~(k <= S)
    <3>1. (M + 1) - 1 = M /\ M \in 0 .. M /\ M + 1 \in 1 .. M + 1
      OBVIOUS
    <3>2. S < k /\ k <= S + Z
      BY <1>1, <2>2
    <3>3. c[(M + 1) - 1] < k /\ k <= c[M + 1]
      BY <1>4, <3>1, <3>2
    <3>4. QED
      BY <3>1, <3>3
  <2>3. QED
    BY <2>1, <2>2
<1>11. ASSUME NEW i \in 1 .. M + 1, NEW k \in 1 .. S + X, c[i - 1] < k, k <= c[i]
       PROVE  t[k] = CellOf(spliced, ms2[i], i \in lo2, k - c[i - 1])
  <2>1. CASE i \in 1 .. M
    <3>1. c[i] = cut[i] /\ c[i - 1] = cut[i - 1] /\ ms2[i] = ms[i] /\ (i \in lo2 <=> i \in lo)
      <4>1. i \in 0 .. M /\ i - 1 \in 0 .. M
        BY <2>1
      <4>2. QED
        BY <1>4, <1>5, <1>7, <2>1, <4>1, Zenon
    <3>2. cut[i] <= S
      <4>1. i \in 0 .. M /\ (i = M \/ i < M) /\ M \in 0 .. M
        BY <2>1
      <4>2. PICK a \in Int : a = cut[i]
        BY <1>3, <4>1
      <4>3. QED
        BY <1>3, <1>4, <4>1, <4>2, SMTT(30)
    <3>3. k \in 1 .. S
      <4>1. i \in 0 .. M
        BY <2>1
      <4>2. PICK a \in Int : a = cut[i]
        BY <1>3, <4>1
      <4>3. QED
        BY <1>11, <3>1, <3>2, <4>2
    <3>4. s[k] = CellOf(spliced, ms[i], i \in lo, k - cut[i - 1])
      BY <1>3, <1>11, <2>1, <3>1, <3>3
    <3>5. CellOf(spliced, ms[i], i \in lo2, k - cut[i - 1]) = CellOf(spliced, ms[i], i \in lo, k - cut[i - 1])
      BY <3>1 DEF CellOf
    <3>6. t[k] = s[k]
      BY <1>6, <3>3
    <3>7. QED
      BY <3>1, <3>4, <3>5, <3>6, Zenon
  <2>2. CASE i = M + 1
    <3>1. c[i - 1] = S /\ ms2[i] = m /\ (i \in lo2 <=> loses)
      <4>1. i - 1 = M /\ M \in 0 .. M
        BY <2>2
      <4>2. QED
        BY <1>4, <1>5, <1>7, <2>2, <4>1, Zenon
    <3>2. PICK j \in 1 .. X : k = S + j /\ k - S = j
      <4>1. S < k
        BY <1>11, <3>1
      <4>2. k - S \in 1 .. X /\ k = S + (k - S)
        BY <4>1
      <4>3. QED
        BY <4>2
    <3>3. t[k] = CellOf(spliced, m, loses, j)
      BY <1>1, <1>6, <3>2
    <3>4. CellOf(spliced, m, i \in lo2, j) = CellOf(spliced, m, loses, j)
      BY <3>1 DEF CellOf
    <3>5. k - c[i - 1] = j
      BY <3>1, <3>2
    <3>6. QED
      BY <3>1, <3>3, <3>4, <3>5, Zenon
  <2>3. i \in 1 .. M \/ i = M + 1
    OBVIOUS
  <2>4. QED
    BY <2>1, <2>2, <2>3, Zenon
<1>12. Laid(c, spliced, t, ms2, lo2)
  BY <1>4, <1>5, <1>6, <1>8, <1>9, <1>10, <1>11, Zenon DEF Laid
<1>13. QED
  BY <1>1, <1>4, <1>12, Zenon DEF Extended, ms2

(* What is written of a message are its cells. *)
LEMMA EncodedCells ==
  ASSUME isConn \in BOOLEAN, NEW m \in Messages, NEW loses \in BOOLEAN, NEW n \in 0 .. Len(EncodedBody(m)),
         NEW x, x = EncodedHeaders(m, loses) \o SubSeq(EncodedBody(m), 1, n)
  PROVE  /\ x \in Seq(Cells)
         /\ n = Len(EncodedBody(m)) => Len(x) = MessageSize(m)
         /\ CellsOf(x, isConn, m, loses)
<1>1. PICK H \in Nat, E \in Nat, B \in Nat, o \in Nat :
        /\ H = HeaderSize[m] /\ E = ErrorSize[m] /\ B = Len(EncodedBody(m))
        /\ o = IF isConn THEN Offset[m] ELSE 0
  BY Sizes, BodyFacts
<1>2. PICK h \in Seq(Cells) :
        /\ h = EncodedHeaders(m, loses) /\ Len(h) = 1 + H + E
        /\ h[1] = IF loses THEN Zero ELSE <<"line", m, 1>>
        /\ \A i \in 1 .. H : h[1 + i] = <<"header", m, i>>
        /\ \A i \in 1 .. E : h[1 + H + i] = <<"error", m, i>>
  <2>1. /\ EncodedHeaders(m, loses) \in Seq(Cells)
        /\ Len(EncodedHeaders(m, loses)) = 1 + HeaderSize[m] + ErrorSize[m]
        /\ EncodedHeaders(m, loses)[1] = IF loses THEN Zero ELSE <<"line", m, 1>>
        /\ \A i \in 1 .. HeaderSize[m] : EncodedHeaders(m, loses)[1 + i] = <<"header", m, i>>
        /\ \A i \in 1 .. ErrorSize[m] :
             EncodedHeaders(m, loses)[1 + HeaderSize[m] + i] = <<"error", m, i>>
    BY HeadersFacts, ZenonT(40)
  <2>2. PICK h \in Seq(Cells) : h = EncodedHeaders(m, loses)
    BY <2>1, Zenon
  <2>3. QED
    BY <1>1, <2>1, <2>2
<1>3. n \in Nat /\ n <= B
  BY <1>1
<1>4. PICK b \in Seq(Cells) :
        /\ b = SubSeq(EncodedBody(m), 1, n) /\ Len(b) = n
        /\ \A i \in 1 .. n : b[i] = <<"body", m, o + i>>
  <2>1. /\ EncodedBody(m) \in Seq(Cells)
        /\ \A i \in 1 .. B : EncodedBody(m)[i] = <<"body", m, o + i>>
    BY <1>1, BodyFacts, Zenon
  <2>2. /\ SubSeq(EncodedBody(m), 1, n) \in Seq(Cells) /\ Len(SubSeq(EncodedBody(m), 1, n)) = n
        /\ \A i \in 1 .. n : SubSeq(EncodedBody(m), 1, n)[i] = EncodedBody(m)[i]
    BY <1>1, <1>3, <2>1, CutFacts, Zenon
  <2>3. \A i \in 1 .. n : i \in 1 .. B
    BY <1>3
  <2>4. QED
    BY <2>1, <2>2, <2>3, Zenon
<1>5. /\ h \o b \in Seq(Cells) /\ Len(h \o b) = (1 + H + E) + n
      /\ \A i \in 1 .. 1 + H + E : (h \o b)[i] = h[i]
      /\ \A i \in 1 .. n : (h \o b)[(1 + H + E) + i] = b[i]
  <2>1. /\ h \o b \in Seq(Cells) /\ Len(h \o b) = Len(h) + Len(b)
        /\ \A i \in 1 .. Len(h) : (h \o b)[i] = h[i]
        /\ \A i \in 1 .. Len(b) : (h \o b)[Len(h) + i] = b[i]
    BY Together, Zenon
  <2>2. QED
    BY <1>2, <1>4, <2>1, Zenon
<1>6. x = h \o b
  BY <1>2, <1>4
<1>7. (1 + H + E) + n <= MessageSize(m) /\ (n = B => (1 + H + E) + n = MessageSize(m))
  <2>1. B = IF HasBody(m) THEN BodySize[m] ELSE 0
    BY <1>1, BodyFacts
  <2>2. MessageSize(m) = 1 + H + E + B
    BY <1>1, <2>1 DEF MessageSize
  <2>3. QED
    BY <1>3, <2>2
<1>8. ASSUME NEW j \in 1 .. (1 + H + E) + n PROVE x[j] = CellOf(isConn, m, loses, j)
  <2>1. CASE j = 1
    <3>1. x[j] = h[1]
      <4>1. 1 \in 1 .. 1 + H + E
        OBVIOUS
      <4>2. QED
        BY <1>5, <1>6, <2>1, <4>1, Zenon
    <3>2. CellOf(isConn, m, loses, j) = h[1]
      BY <1>2, <2>1, Zenon DEF CellOf
    <3>3. QED
      BY <3>1, <3>2, Zenon
  <2>2. CASE j # 1 /\ j <= 1 + H
    <3>1. PICK i \in 1 .. H : j = 1 + i
      <4>1. j - 1 \in 1 .. H /\ j = 1 + (j - 1)
        BY <2>2
      <4>2. QED
        BY <4>1
    <3>2. x[j] = <<"header", m, i>>
      BY <1>2, <1>5, <1>6, <2>2, <3>1
    <3>3. j - 1 = i /\ i <= H /\ j <= 1 + H + E
      BY <3>1
    <3>4. CellOf(isConn, m, loses, j) = <<"header", m, i>>
      BY <1>1, <2>2, <3>3 DEF CellOf, HeadCell
    <3>5. QED
      BY <3>2, <3>4
  <2>3. CASE j > 1 + H /\ j <= 1 + H + E
    <3>1. PICK i \in 1 .. E : j = 1 + H + i
      <4>1. j - (1 + H) \in 1 .. E /\ j = 1 + H + (j - (1 + H))
        BY <2>3
      <4>2. QED
        BY <4>1
    <3>2. x[j] = <<"error", m, i>>
      BY <1>2, <1>5, <1>6, <2>3, <3>1
    <3>3. (j - 1) - H = i /\ ~(j - 1 <= H) /\ j # 1 /\ j <= 1 + H + E
      BY <2>3, <3>1
    <3>4. CellOf(isConn, m, loses, j) = <<"error", m, i>>
      BY <1>1, <3>3 DEF CellOf, HeadCell
    <3>5. QED
      BY <3>2, <3>4
  <2>4. CASE j > 1 + H + E
    <3>1. PICK i \in 1 .. n : j = (1 + H + E) + i
      <4>1. j - (1 + H + E) \in 1 .. n /\ j = (1 + H + E) + (j - (1 + H + E))
        BY <1>3, <2>4
      <4>2. QED
        BY <4>1
    <3>2. x[j] = <<"body", m, o + i>>
      BY <1>4, <1>5, <1>6, <3>1
    <3>3. j - (1 + H + E) = i /\ j # 1 /\ ~(j <= 1 + H + E)
      BY <2>4, <3>1
    <3>4. CellOf(isConn, m, loses, j) = <<"body", m, o + i>>
      BY <1>1, <3>3 DEF CellOf
    <3>5. QED
      BY <3>2, <3>4
  <2>5. \/ j = 1 \/ (j # 1 /\ j <= 1 + H)
        \/ (j > 1 + H /\ j <= 1 + H + E) \/ j > 1 + H + E
    BY <1>3
  <2>6. QED
    BY <2>1, <2>2, <2>3, <2>4, <2>5, Zenon
<1>9. QED
  BY <1>1, <1>5, <1>6, <1>7, <1>8 DEF CellsOf

-----------------------------------------------------------------------------
(* What the decoder makes of it. *)

(* A start line, lost or not, is the first cell of a message and no other. *)
LEMMA StartCells ==
  ASSUME NEW spliced, NEW m \in Messages, NEW loses, NEW j \in Nat \ {0}
  PROVE  /\ CellOf(spliced, m, loses, j)[1] \in {"line", "zero"} <=> j = 1
         /\ CellOf(spliced, m, loses, 1)[2] = IF loses THEN NoMessage ELSE m
<1>1. CellOf(spliced, m, loses, 1) = IF loses THEN Zero ELSE <<"line", m, 1>>
  BY DEF CellOf
<1>2. ASSUME j # 1 PROVE CellOf(spliced, m, loses, j)[1] \in {"header", "error", "body"}
  <2>1. CASE j <= 1 + HeaderSize[m] + ErrorSize[m]
    <3>1. CellOf(spliced, m, loses, j) = HeadCell(m, j - 1)
      BY <1>2, <2>1, Zenon DEF CellOf
    <3>2. HeadCell(m, j - 1)[1] \in {"header", "error"}
      BY DEF HeadCell
    <3>3. QED
      BY <3>1, <3>2
  <2>2. CASE ~(j <= 1 + HeaderSize[m] + ErrorSize[m])
    BY <1>2, <2>2 DEF CellOf
  <2>3. QED
    BY <2>1, <2>2
<1>3. QED
  BY <1>1, <1>2 DEF Zero

(* The ends are in the order of the messages. *)
Ordered(cut, i, j) ==
  /\ cut[i] \in Int /\ cut[j] \in Int
  /\ i <= j <=> cut[i] <= cut[j]
  /\ i < j <=> cut[i] < cut[j]
  /\ i = j <=> cut[i] = cut[j]

(* The messages end one after the other. *)
LEMMA CutsGrow ==
  ASSUME NEW cut, NEW spliced, NEW s, NEW ms \in Seq(Messages), NEW lo, Laid(cut, spliced, s, ms, lo),
         NEW i \in 0 .. Len(ms), NEW j \in 0 .. Len(ms)
  PROVE  Ordered(cut, i, j)
<1>1. PICK M \in Nat : M = Len(ms)
  OBVIOUS
<1>2. cut \in [0 .. M -> Int] /\ \A k, l \in 0 .. M : k < l => cut[k] < cut[l]
  BY <1>1, Zenon DEF Laid
<1>3. PICK a \in Int, b \in Int : a = cut[i] /\ b = cut[j]
  BY <1>1, <1>2
<1>4. (i < j => a < b) /\ (j < i => b < a)
  BY <1>1, <1>2, <1>3
<1>5. i = j => a = b
  BY <1>3
<1>6. i < j \/ i = j \/ j < i
  BY <1>1
<1>7. QED
  BY <1>3, <1>4, <1>5, <1>6 DEF Ordered

(* Where message i ends. *)
LEMMA MessageEnds ==
  ASSUME NEW cut, NEW spliced, NEW s, NEW ms \in Seq(Messages), NEW lo, Laid(cut, spliced, s, ms, lo),
         NEW i \in 1 .. Len(ms)
  PROVE  /\ i - 1 \in 0 .. Len(ms) /\ i \in 0 .. Len(ms) /\ ms[i] \in Messages
         /\ cut[i - 1] \in Int /\ cut[i] \in Int
         /\ cut[i] = cut[i - 1] + MessageSize(ms[i])
<1>1. PICK M \in Nat : M = Len(ms)
  OBVIOUS
<1>2. cut \in [0 .. M -> Int] /\ \A k \in 1 .. M : cut[k] = cut[k - 1] + MessageSize(ms[k])
  BY <1>1, Zenon DEF Laid
<1>3. i - 1 \in 0 .. M /\ i \in 0 .. M /\ ms[i] \in Messages
  BY <1>1
<1>4. QED
  BY <1>1, <1>2, <1>3

(* Cell x of the stream is cell j of message i. *)
IsCell(s, x, spliced, ms, i, lo, j) == s[x] = CellOf(spliced, ms[i], i \in lo, j)

(* Where cell j of message i lies. *)
LEMMA CellAt ==
  ASSUME NEW cut, NEW spliced, NEW s \in Seq(Cells), NEW ms \in Seq(Messages), NEW lo,
         Laid(cut, spliced, s, ms, lo), NEW i \in 1 .. Len(ms), NEW j \in 1 .. MessageSize(ms[i]),
         NEW x \in 1 .. Len(s), x = cut[i - 1] + j
  PROVE  IsCell(s, x, spliced, ms, i, lo, j)
<1>1. PICK Z \in Nat, a \in Int, b \in Int : Z = MessageSize(ms[i]) /\ a = cut[i - 1] /\ b = cut[i] /\ b = a + Z
  <2>1. MessageSize(ms[i]) \in Nat
    BY MessageEnds, MessageSizes
  <2>2. cut[i - 1] \in Int /\ cut[i] \in Int /\ cut[i] = cut[i - 1] + MessageSize(ms[i])
    BY MessageEnds
  <2>3. QED
    BY <2>1, <2>2
<1>2. a < x /\ x <= b /\ x - a = j
  BY <1>1, SMTT(30)
<1>3. QED
  BY <1>1, <1>2, Zenon DEF Laid, IsCell

(* The first cell of a stream is one of message i, which may have begun    *)
(* before it.                                                              *)
BeginsWith(cut, spliced, s, ms, lo) ==
  \E i \in 1 .. Len(ms) :
    /\ cut[i - 1] < 1 /\ 1 <= cut[i] /\ cut[i - 1] \in Int /\ cut[i] \in Int
    /\ 1 - cut[i - 1] \in Nat \ {0}
    /\ IsCell(s, 1, spliced, ms, i, lo, 1 - cut[i - 1])

(* The first cell belongs to a message. *)
LEMMA FirstCell ==
  ASSUME NEW cut, NEW spliced, NEW s \in Seq(Cells), NEW ms \in Seq(Messages),
         NEW lo, Laid(cut, spliced, s, ms, lo), 1 <= Len(s)
  PROVE  BeginsWith(cut, spliced, s, ms, lo)
<1>1. PICK M \in Nat, S \in Nat : M = Len(ms) /\ S = Len(s)
  OBVIOUS
<1>2. 1 \in 1 .. S
  BY <1>1
<1>3. PICK i \in 1 .. M : cut[i - 1] < 1 /\ 1 <= cut[i]
  BY <1>1, <1>2, Zenon DEF Laid
<1>4. s[1] = CellOf(spliced, ms[i], i \in lo, 1 - cut[i - 1])
  BY <1>1, <1>2, <1>3, Zenon DEF Laid
<1>5. cut[i - 1] \in Int /\ cut[i] \in Int
  <2>1. i \in 0 .. M /\ i - 1 \in 0 .. M
    OBVIOUS
  <2>2. cut \in [0 .. M -> Int]
    BY <1>1, Zenon DEF Laid
  <2>3. QED
    BY <2>1, <2>2
<1>6. 1 - cut[i - 1] \in Nat \ {0}
  <2>1. PICK a \in Int : a = cut[i - 1]
    BY <1>5
  <2>2. 1 - a \in Nat \ {0}
    BY <1>3, <2>1
  <2>3. QED
    BY <2>1, <2>2
<1>7. QED
  BY <1>1, <1>3, <1>4, <1>5, <1>6, Zenon DEF BeginsWith, IsCell

(* What the decoder reads is gone from the stream. *)
LEMMA LaidMoves ==
  ASSUME EncoderTypes, NEW cut, LaidInv(cut), NEW n \in Nat, n <= Len(wire),
         wire' = SubSeq(wire, n + 1, Len(wire)), UNCHANGED <<isConn, encoding, link>>
  PROVE  \E c : LaidInv(c)' /\ \A i \in 0 .. Len(sent) : c[i] = cut[i] - n
<1>1. /\ EncoderTypes' /\ Stream \in Seq(Cells) /\ Stream' \in Seq(Cells)
      /\ Len(Stream') = Len(Stream) - n /\ Len(wire) <= Len(Stream)
      /\ \A i \in 1 .. Len(Stream) - n : Stream'[i] = Stream[n + i]
  BY StreamAdvances
<1>2. sent \in Seq(Messages) /\ sent' = sent /\ lost' = lost /\ isConn' = isConn /\ link' = link
  BY DEF EncoderTypes, encoding
<1>3. n <= Len(Stream)
  BY <1>1 DEF EncoderTypes
<1>4. Laid(cut, isConn, Stream, sent, lost) /\ (link = "up" => Len(Stream) = cut[Len(sent)])
  BY DEF LaidInv
<1>5. PICK c : Laid(c, isConn, Stream', sent, lost) /\ \A i \in 0 .. Len(sent) : c[i] = cut[i] - n
  <2>0. PICK s \in Seq(Cells), t \in Seq(Cells), ms \in Seq(Messages) :
          s = Stream /\ t = Stream' /\ ms = sent
    BY <1>1, <1>2
  <2>1. PICK lo, spliced : lo = lost /\ spliced = isConn
    OBVIOUS
  <2>2. Laid(cut, spliced, s, ms, lo) /\ Advanced(s, t, n)
    BY <1>1, <1>3, <1>4, <2>0, <2>1 DEF Advanced
  <2>3. Nearer(cut, spliced, t, ms, lo, n)
    BY <2>2, LaidShift
  <2>4. QED
    BY <2>0, <2>1, <2>3, Zenon DEF Nearer
<1>6. Len(sent) \in 0 .. Len(sent)
  BY <1>2
<1>7. LaidInv(c)'
  BY <1>1, <1>2, <1>4, <1>5, <1>6 DEF LaidInv
<1>8. QED
  BY <1>5, <1>7

(* The stream is in step up to a message if it is up to the one before and *)
(* that message is as the decoder expects it.                              *)
LEMMA InStepNext ==
  ASSUME NEW R \in Nat
  PROVE  InStep(R + 1) <=> InStep(R) /\ R + 1 \notin lost /\ sent[R + 1] \notin NilReader
<1>1. \A k : k \in 1 .. R + 1 <=> k \in 1 .. R \/ k = R + 1
  OBVIOUS
<1>2. QED
  BY <1>1, Zenon DEF InStep

(* What was sent stays what it was. *)
SentStays ==
  isConn' = isConn /\ \A i \in 1 .. Len(sent) : sent'[i] = sent[i] /\ (i \in lost' <=> i \in lost)

(* Then so does what was told of it. *)
LEMMA ToldStays ==
  ASSUME CodecInv, Told, Len(received) <= Len(sent), received' = received, SentStays
  PROVE  Told' /\ \A i \in 0 .. Len(sent) : InStep(i)' <=> InStep(i)
<1>1. PICK S \in Nat, R \in Nat : S = Len(sent) /\ R = Len(received) /\ R <= S
  BY DEF CodecInv, EncoderTypes, DecoderTypes
<1>2. ASSUME NEW i \in 0 .. S PROVE InStep(i)' <=> InStep(i)
  <2>1. \A k \in 1 .. i : sent'[k] = sent[k] /\ (k \in lost' <=> k \in lost)
    BY <1>1 DEF SentStays
  <2>2. QED
    BY <2>1, Zenon DEF InStep
<1>3. ASSUME NEW i \in 1 .. R, InStep(i)'
      PROVE  received'[i][1] = sent'[i] /\ Faithful(sent[i], received[i][2])'
  <2>1. i \in 0 .. S /\ i \in 1 .. S
    BY <1>1
  <2>2. sent'[i] = sent[i] /\ InStep(i)
    BY <1>1, <1>2, <1>3, <2>1, Zenon DEF SentStays
  <2>3. received[i][1] = sent[i] /\ Faithful(sent[i], received[i][2])
    BY <1>1, <2>2, Zenon DEF Told
  <2>4. QED
    BY <2>2, <2>3, Zenon DEF Faithful, SentStays
<1>4. Told'
  BY <1>1, <1>3, Zenon DEF Told
<1>5. QED
  BY <1>1, <1>2, <1>4

(* When the decoder does nothing, it is where it was in a layout that      *)
(* leaves what was sent where it is.                                       *)
LEMMA PlaceStays ==
  ASSUME CodecInv, DecodeInv, UNCHANGED decoding, SentStays, Len(sent) <= Len(sent'),
         sent' \in Seq(Messages), NEW cut, Counted(cut), Aligned(cut),
         NEW c, LaidInv(c)', \A i \in 0 .. Len(sent) : c[i] = cut[i]
  PROVE  DecodeInv'
<1>1. PICK S \in Nat, R \in Nat : S = Len(sent) /\ R = Len(received)
  BY DEF CodecInv, EncoderTypes, DecoderTypes
<1>2. reader' = reader /\ line' = line /\ got' = got /\ received' = received
  BY DEF decoding
<1>3. R <= S /\ (Busy => R + 1 <= S)
  BY <1>1 DEF Counted, Begun
<1>4. Told' /\ \A i \in 0 .. S : InStep(i)' <=> InStep(i)
  BY <1>1, <1>2, <1>3, ToldStays DEF DecodeInv
<1>5. R \in 0 .. S /\ c[R] = cut[R]
  BY <1>1, <1>3
<1>6. Busy' <=> Busy
  BY <1>2 DEF Busy
<1>7. Counted(c)'
  <2>1. Len(sent') \in Nat
    OBVIOUS
  <2>2. CASE Busy
    <3>1. Begun = R + 1 /\ Begun' = R + 1 /\ (R + 1) - 1 = R /\ R + 1 > 0
      BY <1>1, <1>2, <1>6, <2>2 DEF Begun
    <3>2. QED
      BY <1>1, <1>3, <1>5, <2>1, <2>2, <3>1 DEF Counted
  <2>3. CASE ~Busy
    <3>1. Begun = R /\ Begun' = R
      BY <1>1, <1>2, <1>6, <2>3 DEF Begun
    <3>2. R > 0 => c[R - 1] = cut[R - 1]
      <4>1. R > 0 => R - 1 \in 0 .. S
        BY <1>3
      <4>2. QED
        BY <1>1, <4>1
    <3>3. QED
      BY <1>1, <1>3, <2>1, <3>1, <3>2 DEF Counted
  <2>4. QED
    BY <2>2, <2>3
<1>8. Aligned(c)'
  <2>1. ASSUME InStep(R) /\ Busy PROVE InMessage(c, R + 1)'
    <3>1. InMessage(cut, R + 1) /\ R + 1 \in 1 .. S /\ (R + 1) - 1 = R
      BY <1>1, <1>3, <2>1 DEF Aligned
    <3>2. sent'[R + 1] = sent[R + 1] /\ (R + 1 \in lost' <=> R + 1 \in lost)
      BY <1>1, <3>1, Zenon DEF SentStays
    <3>3. QED
      BY <1>2, <1>5, <3>1, <3>2, Zenon DEF InMessage, ReadUpTo
  <2>2. InStep(R)' <=> InStep(R)
    BY <1>4, <1>5
  <2>3. QED
    BY <1>1, <1>2, <1>5, <1>6, <2>1, <2>2, Zenon DEF Aligned
<1>9. QED
  BY <1>4, <1>7, <1>8, Zenon DEF DecodeInv

(* A message is added to what the decoder will read. *)
LEMMA EncodeDecodes ==
  ASSUME CodecInv, DecodeInv, NEW m \in Messages, NEW n \in 0 .. Len(EncodedBody(m)), Encode(m, n)
  PROVE  DecodeInv'
<1>1. PICK cut : LaidInv(cut) /\ Counted(cut) /\ Aligned(cut)
  BY DEF DecodeInv
<1>2. /\ link = "up" /\ sent' = Append(sent, m) /\ isConn' = isConn /\ UNCHANGED decoding
      /\ link' = IF n < Len(EncodedBody(m)) THEN "eof" ELSE "up"
  BY DEF Encode
<1>3. EncoderTypes
  BY DEF CodecInv
<1>4. PICK loses \in BOOLEAN :
        /\ lost' = IF loses THEN lost \cup {Len(sent) + 1} ELSE lost
        /\ Stream' = Stream \o (EncodedHeaders(m, loses) \o SubSeq(EncodedBody(m), 1, n))
  BY <1>3, EncodeStream
<1>5. PICK x : x = EncodedHeaders(m, loses) \o SubSeq(EncodedBody(m), 1, n)
  OBVIOUS
<1>6. /\ x \in Seq(Cells) /\ CellsOf(x, isConn, m, loses)
      /\ n = Len(EncodedBody(m)) => Len(x) = MessageSize(m)
  BY <1>3, <1>5, EncodedCells DEF EncoderTypes
<1>0. PICK lo, spliced, lo2, t : lo = lost /\ spliced = isConn /\ lo2 = lost' /\ t = Stream'
  OBVIOUS
<1>7. PICK s \in Seq(Cells), ms \in Seq(Messages) : s = Stream /\ ms = sent
  <2>1. Stream \in Seq(Cells)
    BY <1>3, ConcatProperties, Zenon DEF Stream, EncoderTypes
  <2>2. QED
    BY <1>3, <2>1 DEF EncoderTypes
<1>8. /\ Laid(cut, spliced, s, ms, lo) /\ Len(s) = cut[Len(ms)] /\ lo \subseteq 1 .. Len(ms)
      /\ CellsOf(x, spliced, m, loses) /\ t = s \o x
      /\ lo2 = IF loses THEN lo \cup {Len(ms) + 1} ELSE lo
  BY <1>0, <1>1, <1>2, <1>3, <1>4, <1>5, <1>6, <1>7 DEF LaidInv, EncoderTypes
<1>9. Extended(cut, spliced, t, ms, m, lo2)
  BY <1>6, <1>8, LaidExtend
<1>10. PICK c : /\ Laid(c, isConn', Stream', sent', lost')
                /\ \A i \in 0 .. Len(sent) : c[i] = cut[i]
                /\ c[Len(sent) + 1] = cut[Len(sent)] + MessageSize(m)
  BY <1>0, <1>2, <1>7, <1>9, Zenon DEF Extended
<1>11. Len(sent') = Len(sent) + 1 /\ sent' \in Seq(Messages) /\ Len(sent) \in Nat
  BY <1>2, <1>3 DEF EncoderTypes
<1>12. LaidInv(c)'
  <2>1. ASSUME link' = "up" PROVE Len(Stream') = c[Len(sent')]
    <3>1. n = Len(EncodedBody(m))
      <4>1. EncodedBody(m) \in Seq(Cells)
        BY <1>3, BodyFacts DEF EncoderTypes
      <4>2. Len(EncodedBody(m)) \in Nat /\ ~(n < Len(EncodedBody(m)))
        BY <1>2, <2>1, <4>1
      <4>3. QED
        BY <4>2
    <3>2. Len(s \o x) = Len(s) + Len(x)
      BY <1>6, Together
    <3>3. Len(t) = cut[Len(ms)] + MessageSize(m)
      BY <1>6, <1>8, <3>1, <3>2
    <3>4. QED
      BY <1>0, <1>7, <1>10, <1>11, <3>3
  <2>2. QED
    BY <1>10, <2>1 DEF LaidInv
<1>13. SentStays
  <2>1. \A i \in 1 .. Len(sent) : sent'[i] = sent[i] /\ i # Len(sent) + 1
    BY <1>2, <1>3 DEF EncoderTypes
  <2>2. \A i \in 1 .. Len(sent) : i \in lost' <=> i \in lost
    BY <1>4, <2>1
  <2>3. QED
    BY <1>2, <2>1, <2>2 DEF SentStays
<1>14. Len(sent) <= Len(sent')
  BY <1>11
<1>15. QED
  BY <1>1, <1>2, <1>10, <1>11, <1>12, <1>13, <1>14, PlaceStays

(* A flush changes nothing of the stream. *)
LEMMA FlushDecodes ==
  ASSUME CodecInv, DecodeInv, Flush
  PROVE  DecodeInv'
<1>1. PICK cut : LaidInv(cut) /\ Counted(cut) /\ Aligned(cut)
  BY DEF DecodeInv
<1>2. PICK w \in Seq(Cells), h \in Seq(Cells) : w = wire /\ h = headerBuffer
  BY DEF CodecInv, EncoderTypes
<1>3. /\ wire' = w \o h /\ headerBuffer' = <<>> /\ UNCHANGED decoding
      /\ UNCHANGED <<isConn, sent, lost, link>>
  BY <1>2 DEF Flush
<1>4. Stream' = Stream
  <2>1. w \o h \in Seq(Cells)
    BY Together, Zenon
  <2>2. (w \o h) \o <<>> = w \o h
    BY <2>1, ConcatEmptySeq
  <2>3. QED
    BY <1>2, <1>3, <2>2 DEF Stream
<1>5. LaidInv(cut)' /\ SentStays
  BY <1>1, <1>3, <1>4 DEF LaidInv, SentStays
<1>6. Len(sent) <= Len(sent') /\ sent' \in Seq(Messages)
  BY <1>3 DEF CodecInv, EncoderTypes
<1>7. QED
  BY <1>1, <1>3, <1>5, <1>6, PlaceStays

(* Nor does the end of the connection. *)
LEMMA LinkEndDecodes ==
  ASSUME CodecInv, DecodeInv, LinkEnds
  PROVE  DecodeInv'
<1>1. PICK cut : LaidInv(cut) /\ Counted(cut) /\ Aligned(cut)
  BY DEF DecodeInv
<1>2. link' # "up" /\ UNCHANGED <<isConn, headerBuffer, sent, lost, wire, decoding>>
  BY DEF LinkEnds, encoding
<1>3. LaidInv(cut)' /\ SentStays
  BY <1>1, <1>2 DEF LaidInv, SentStays, Stream
<1>4. Len(sent) <= Len(sent') /\ sent' \in Seq(Messages)
  BY <1>2 DEF CodecInv, EncoderTypes
<1>5. QED
  BY <1>1, <1>2, <1>3, <1>4, PlaceStays

(* Error and headers, read in the other order than they were written, are  *)
(* the bytes of the message when the two are put together.                 *)
LEMMA HeadsFaithful ==
  ASSUME NEW m \in Messages, NEW e \in Seq(Cells), NEW h \in Seq(Cells),
         Len(e) = ErrorSize[m], Len(h) = HeaderSize[m],
         \A j \in 1 .. Len(e) : e[j] = HeadCell(m, j),
         \A j \in 1 .. Len(h) : h[j] = HeadCell(m, Len(e) + j)
  PROVE  e \o h = Run("header", m, 0, HeaderSize[m]) \o Run("error", m, 0, ErrorSize[m])
<1>0. "header" \in {"header", "error", "body"} /\ "error" \in {"header", "error", "body"} /\ 0 \in Nat
  OBVIOUS
<1>1. PICK H \in Nat, E \in Nat : H = HeaderSize[m] /\ E = ErrorSize[m]
  BY Sizes
<1>2. PICK p \in Seq(Cells) : /\ p = Run("header", m, 0, H) /\ Len(p) = H
                              /\ \A i \in 1 .. H : p[i] = <<"header", m, i>>
  <2>1. /\ Run("header", m, 0, H) \in Seq(Cells) /\ Len(Run("header", m, 0, H)) = H
        /\ \A i \in 1 .. H : Run("header", m, 0, H)[i] = <<"header", m, 0 + i>>
    BY <1>0, RunFacts, Zenon
  <2>2. \A i \in 1 .. H : 0 + i = i
    OBVIOUS
  <2>3. QED
    BY <2>1, <2>2, Zenon
<1>3. PICK q \in Seq(Cells) : /\ q = Run("error", m, 0, E) /\ Len(q) = E
                              /\ \A i \in 1 .. E : q[i] = <<"error", m, i>>
  <2>1. /\ Run("error", m, 0, E) \in Seq(Cells) /\ Len(Run("error", m, 0, E)) = E
        /\ \A i \in 1 .. E : Run("error", m, 0, E)[i] = <<"error", m, 0 + i>>
    BY <1>0, RunFacts, Zenon
  <2>2. \A i \in 1 .. E : 0 + i = i
    OBVIOUS
  <2>3. QED
    BY <2>1, <2>2, Zenon
<1>4. PICK x \in Seq(Cells) : /\ x = e \o h /\ Len(x) = E + H
                              /\ \A k \in 1 .. E : x[k] = e[k]
                              /\ \A k \in 1 .. H : x[E + k] = h[k]
  <2>1. /\ e \o h \in Seq(Cells) /\ Len(e \o h) = Len(e) + Len(h)
        /\ \A k \in 1 .. Len(e) : (e \o h)[k] = e[k]
        /\ \A k \in 1 .. Len(h) : (e \o h)[Len(e) + k] = h[k]
    BY Together, Zenon
  <2>2. Len(e) = E /\ Len(h) = H
    BY <1>1
  <2>3. PICK z \in Seq(Cells) : z = e \o h
    BY <2>1, Zenon
  <2>4. /\ Len(z) = E + H
        /\ \A k \in 1 .. E : z[k] = e[k]
        /\ \A k \in 1 .. H : z[E + k] = h[k]
    BY <2>1, <2>2, <2>3
  <2>5. QED
    BY <2>3, <2>4, Zenon
<1>5. PICK y \in Seq(Cells) : /\ y = p \o q /\ Len(y) = H + E
                              /\ \A k \in 1 .. H : y[k] = p[k]
                              /\ \A k \in 1 .. E : y[H + k] = q[k]
  <2>1. /\ p \o q \in Seq(Cells) /\ Len(p \o q) = Len(p) + Len(q)
        /\ \A k \in 1 .. Len(p) : (p \o q)[k] = p[k]
        /\ \A k \in 1 .. Len(q) : (p \o q)[Len(p) + k] = q[k]
    BY Together, Zenon
  <2>2. Len(p) = H /\ Len(q) = E
    BY <1>2, <1>3
  <2>3. PICK z \in Seq(Cells) : z = p \o q
    BY <2>1, Zenon
  <2>4. /\ Len(z) = H + E
        /\ \A k \in 1 .. H : z[k] = p[k]
        /\ \A k \in 1 .. E : z[H + k] = q[k]
    BY <2>1, <2>2, <2>3
  <2>5. QED
    BY <2>3, <2>4, Zenon
<1>6. ASSUME NEW j \in 1 .. E + H PROVE x[j] = HeadCell(m, j)
  <2>1. CASE j <= E
    <3>1. j \in 1 .. E
      BY <2>1
    <3>2. QED
      BY <1>1, <1>4, <3>1, Zenon
  <2>2. CASE ~(j <= E)
    <3>1. PICK k \in 1 .. H : j = E + k
      <4>1. j - E \in 1 .. H /\ j = E + (j - E)
        BY <2>2
      <4>2. QED
        BY <4>1
    <3>2. QED
      BY <1>1, <1>4, <3>1, Zenon
  <2>3. QED
    BY <2>1, <2>2
<1>7. ASSUME NEW j \in 1 .. E + H PROVE y[j] = HeadCell(m, j)
  <2>1. CASE j <= H
    <3>1. j \in 1 .. H
      BY <2>1
    <3>2. y[j] = <<"header", m, j>>
      BY <1>2, <1>5, <3>1, Zenon
    <3>3. QED
      BY <1>1, <2>1, <3>2 DEF HeadCell
  <2>2. CASE ~(j <= H)
    <3>1. PICK k \in 1 .. E : j = H + k /\ j - H = k
      <4>1. j - H \in 1 .. E /\ j = H + (j - H)
        BY <2>2
      <4>2. QED
        BY <4>1
    <3>2. y[j] = <<"error", m, k>>
      BY <1>3, <1>5, <3>1, Zenon
    <3>3. QED
      BY <1>1, <2>2, <3>1, <3>2 DEF HeadCell
  <2>3. QED
    BY <2>1, <2>2
<1>8. x = y
  <2>1. Len(x) = Len(y) /\ \A j \in 1 .. Len(x) : x[j] = y[j]
    <3>1. Len(x) = E + H /\ Len(y) = E + H
      BY <1>4, <1>5
    <3>2. QED
      BY <1>6, <1>7, <3>1, Zenon
  <2>2. QED
    BY <2>1, SeqEqual
<1>9. QED
  BY <1>1, <1>2, <1>3, <1>4, <1>5, <1>8, Zenon

(* A message of which all was read. *)
LEMMA AllFaithful ==
  ASSUME isConn \in BOOLEAN, NEW m \in Messages, NEW parts \in Parts,
         Len(parts.error) = ErrorSize[m], Len(parts.header) = HeaderSize[m],
         \A j \in 1 .. Len(parts.error) : parts.error[j] = HeadCell(m, j),
         \A j \in 1 .. Len(parts.header) : parts.header[j] = HeadCell(m, Len(parts.error) + j),
         Len(parts.body) = BodySize[m],
         \A j \in 1 .. BodySize[m] : parts.body[j] = <<"body", m, (IF isConn THEN Offset[m] ELSE 0) + j>>
  PROVE  Faithful(m, parts)
<1>0. "body" \in {"header", "error", "body"}
  OBVIOUS
<1>1. PICK B \in Nat, o \in Nat : B = BodySize[m] /\ o = IF isConn THEN Offset[m] ELSE 0
  BY Sizes
<1>2. PICK e \in Seq(Cells), h \in Seq(Cells), b \in Seq(Cells) :
        e = parts.error /\ h = parts.header /\ b = parts.body
  BY DEF Parts
<1>3. e \o h = Run("header", m, 0, HeaderSize[m]) \o Run("error", m, 0, ErrorSize[m])
  BY <1>2, HeadsFaithful
<1>4. PICK r \in Seq(Cells) : r = Run("body", m, o, B) /\ Len(r) = B /\ \A i \in 1 .. B : r[i] = <<"body", m, o + i>>
  BY <1>0, RunFacts, Zenon
<1>5. b = r
  <2>1. Len(b) = Len(r) /\ \A j \in 1 .. Len(b) : b[j] = r[j]
    BY <1>1, <1>2, <1>4
  <2>2. QED
    BY <2>1, SeqEqual
<1>6. QED
  BY <1>1, <1>2, <1>3, <1>4, <1>5, Zenon DEF Faithful

(* Decode goes on in step within message i, or has all of its bytes and is *)
(* where it ends.                                                          *)
ReadInStep(c, i, m, parts) ==
  /\ Busy => InMessage(c, i)
  /\ ~Busy => Faithful(m, parts) /\ c[i] = 0

(* With a part of message i read to its end.                               *)
LEMMA ProceedsInStep ==
  ASSUME NEW i \in 1 .. Len(sent), i \notin lost, NEW m \in Messages, m = sent[i],
         NEW part \in {"line", "error", "header"}, NEW parts \in Parts, HeadRead(m, parts),
         Len(parts.error) = (IF part = "line" THEN 0 ELSE ErrorSize[m]),
         Len(parts.header) = (IF part = "header" THEN HeaderSize[m] ELSE 0),
         NEW c, c[i - 1] = -(1 + Len(parts.error) + Len(parts.header)),
         c[i] = c[i - 1] + MessageSize(m),
         isConn \in BOOLEAN, DecoderTypes, Proceed(m, part, parts), UNCHANGED <<isConn, sent, lost>>
  PROVE  ReadInStep(c, i, m, parts)'
<1>1. PICK H \in Nat, E \in Nat, B \in Nat : H = HeaderSize[m] /\ E = ErrorSize[m] /\ B = BodySize[m]
  BY Sizes
<1>2. PICK e \in Seq(Cells), h \in Seq(Cells) : e = parts.error /\ h = parts.header
  BY DEF Parts
<1>3. /\ Busy' => line' = m /\ got' = parts /\ reader' = NextPart(m, part)
      /\ ~Busy' => NextPart(m, part) = "done"
  BY ProceedFacts
<1>4. /\ NextPart(m, "line")   = IF E > 0 THEN "error"
                                 ELSE IF H > 0 THEN "header"
                                 ELSE IF B > 0 THEN "body" ELSE "done"
      /\ NextPart(m, "error")  = IF H > 0 THEN "header"
                                 ELSE IF B > 0 THEN "body" ELSE "done"
      /\ NextPart(m, "header") = IF B > 0 THEN "body" ELSE "done"
  BY <1>1, NextPartFacts
<1>5. ASSUME Busy' PROVE InMessage(c, i)'
  <2>1. ReadUpTo(c, i, line, got)'
    BY <1>3, <1>5 DEF ReadUpTo, HeadRead
  <2>2. /\ reader' = "error" => Len(e) = 0 /\ Len(h) = 0
        /\ reader' \in {"header", "body"} => Len(e) = E
        /\ reader' = "body" => Len(h) = H
    <3>1. CASE part = "line"
      BY <1>1, <1>2, <1>3, <1>4, <1>5, <3>1
    <3>2. CASE part = "error"
      BY <1>1, <1>2, <1>3, <1>4, <1>5, <3>2, SMTT(30)
    <3>3. CASE part = "header"
      BY <1>1, <1>2, <1>3, <1>4, <1>5, <3>3
    <3>4. QED
      BY <3>1, <3>2, <3>3
  <2>3. QED
    BY <1>1, <1>2, <1>3, <1>5, <2>1, <2>2, Zenon DEF InMessage
<1>6. ASSUME ~Busy' PROVE Faithful(m, parts)' /\ c[i] = 0
  <2>1. B = 0 /\ Len(e) = E /\ Len(h) = H
    <3>0. NextPart(m, part) = "done"
      BY <1>3, <1>6
    <3>1. CASE part = "line"
      BY <1>1, <1>2, <1>4, <3>0, <3>1
    <3>2. CASE part = "error"
      BY <1>1, <1>2, <1>4, <3>0, <3>2
    <3>3. CASE part = "header"
      BY <1>1, <1>2, <1>4, <3>0, <3>3, SMTT(30)
    <3>4. QED
      BY <3>1, <3>2, <3>3
  <2>2. c[i] = 0
    <3>1. MessageSize(m) = 1 + H + E
      BY <1>1, <2>1 DEF MessageSize, HasBody
    <3>2. c[i - 1] = -(1 + E + H)
      BY <1>2, <2>1
    <3>3. QED
      BY <3>1, <3>2
  <2>3. Faithful(m, parts)'
    <3>1. Len(parts.body) = 0 /\ isConn' = isConn
      BY EmptySeq DEF HeadRead
    <3>2. \A j \in 1 .. BodySize[m] : FALSE
      BY <1>1, <2>1
    <3>3. /\ Len(parts.error) = ErrorSize[m] /\ Len(parts.header) = HeaderSize[m]
          /\ Len(parts.body) = BodySize[m]
      BY <1>1, <1>2, <2>1, <3>1
    <3>4. Faithful(m, parts)
      BY <3>2, <3>3, AllFaithful DEF HeadRead
    <3>5. QED
      BY <3>1, <3>4 DEF Faithful
  <2>4. QED
    BY <2>2, <2>3
<1>7. QED
  BY <1>5, <1>6 DEF ReadInStep

(* Decode went on to the next part of message R + 1 or has returned it.    *)
LEMMA DecodesOn ==
  ASSUME CodecInv, Told, NEW R \in Nat, R = Len(received), R + 1 <= Len(sent),
         NEW m \in Messages \cup {NoMessage}, NEW part \in {"line", "error", "header", "body"},
         NEW parts \in Parts, Proceed(m, part, parts), UNCHANGED <<isConn, sent, lost>>,
         NEW c, LaidInv(c)', c[R] < 0,
         InStep(R) /\ Busy' => InMessage(c, R + 1)',
         InStep(R + 1) /\ ~Busy' => m = sent[R + 1] /\ Faithful(m, parts)' /\ c[R + 1] = 0
  PROVE  DecodeInv'
<1>1. PICK S \in Nat : S = Len(sent) /\ R + 1 <= S
  BY DEF CodecInv, EncoderTypes
<1>2. /\ Busy' => received' = received /\ reader' \in {"error", "header", "body"}
      /\ ~Busy' => reader' = "line" /\ received' = Append(received, <<m, parts>>)
  BY ProceedFacts DEF CodecInv, Busy
<1>3. sent' = sent /\ lost' = lost /\ isConn' = isConn
  OBVIOUS
<1>4. \A i \in Nat : InStep(i)' <=> InStep(i)
  BY <1>3, Zenon DEF InStep
<1>5. InStep(R + 1) => InStep(R)
  BY InStepNext
<1>6. Begun' = R + 1 /\ Len(received') = IF Busy' THEN R ELSE R + 1
  <2>1. CASE Busy'
    BY <1>2, <2>1 DEF Begun
  <2>2. CASE ~Busy'
    <3>1. Len(received') = R + 1
      BY <1>2, <2>2, AppendProperties DEF CodecInv, DecoderTypes
    <3>2. QED
      BY <2>2, <3>1 DEF Begun
  <2>3. QED
    BY <2>1, <2>2
<1>7. Counted(c)'
  <2>1. R + 1 > 0 /\ (R + 1) - 1 = R
    OBVIOUS
  <2>2. QED
    BY <1>1, <1>3, <1>6, <2>1 DEF Counted
<1>8. Aligned(c)'
  <2>1. CASE Busy'
    <3>1. reader' # "garbage" /\ reader' # "line" /\ Len(received') = R
      BY <1>2, <1>6, <2>1
    <3>2. QED
      BY <1>4, <2>1, <3>1, Zenon DEF Aligned
  <2>2. CASE ~Busy'
    <3>1. reader' # "garbage" /\ Len(received') = R + 1 /\ R + 1 \in Nat
      BY <1>2, <1>6, <2>2
    <3>2. QED
      BY <1>4, <2>2, <3>1, Zenon DEF Aligned
  <2>3. QED
    BY <2>1, <2>2
<1>9. ASSUME NEW q, NEW p PROVE Faithful(q, p)' <=> Faithful(q, p)
  BY <1>3 DEF Faithful
<1>10. Told'
  <2>1. CASE Busy'
    <3>1. received' = received /\ SentStays /\ Len(received) <= Len(sent)
      BY <1>1, <1>2, <1>3, <2>1 DEF SentStays
    <3>2. QED
      BY <3>1, ToldStays
  <2>2. CASE ~Busy'
    <3>1. /\ Len(received') = R + 1 /\ received'[R + 1] = <<m, parts>>
          /\ \A i \in 1 .. R : received'[i] = received[i]
      BY <1>2, <2>2, AppendProperties DEF CodecInv, DecoderTypes
    <3>2. ASSUME NEW i \in 1 .. R + 1, InStep(i)'
          PROVE  received'[i][1] = sent'[i] /\ Faithful(sent[i], received[i][2])'
      <4>1. CASE i \in 1 .. R
        <5>1. received'[i] = received[i] /\ InStep(i)
          BY <1>4, <3>1, <3>2, <4>1
        <5>2. received[i][1] = sent[i] /\ Faithful(sent[i], received[i][2])
          BY <4>1, <5>1, Zenon DEF Told
        <5>3. PICK q, p : q = sent[i] /\ p = received[i][2]
          OBVIOUS
        <5>4. Faithful(q, p)' /\ q = sent'[i] /\ p = received'[i][2] /\ received'[i][1] = sent'[i]
          BY <1>3, <1>9, <5>1, <5>2, <5>3, Zenon
        <5>5. QED
          BY <5>4, Zenon DEF Faithful
      <4>2. CASE i = R + 1
        <5>1. InStep(R + 1) /\ received'[i] = <<m, parts>>
          BY <1>4, <3>1, <3>2, <4>2
        <5>2. m = sent[R + 1] /\ Faithful(m, parts)'
          BY <2>2, <5>1
        <5>3. m = sent'[i] /\ parts = received'[i][2] /\ received'[i][1] = sent'[i]
          BY <1>3, <4>2, <5>1, <5>2
        <5>4. QED
          BY <5>2, <5>3, Zenon DEF Faithful
      <4>3. i \in 1 .. R \/ i = R + 1
        OBVIOUS
      <4>4. QED
        BY <4>1, <4>2, <4>3
    <3>3. QED
      BY <3>1, <3>2, Zenon DEF Told
  <2>3. QED
    BY <2>1, <2>2
<1>11. QED
  BY <1>7, <1>8, <1>10, Zenon DEF DecodeInv

(* Inside message R + 1: what the decoder reads next are the cells that    *)
(* follow.                                                                 *)
Inside(cut, R) ==
  /\ R + 1 \in 1 .. Len(sent) /\ R + 1 <= Len(sent) /\ R \in 0 .. Len(sent)
  /\ R + 1 \in 0 .. Len(sent) /\ line \in Messages
  /\ cut[R] \in Int /\ cut[R] < 0
  /\ InStep(R) => /\ InMessage(cut, R + 1)
                  /\ R + 1 \notin lost /\ line = sent[R + 1] /\ HeadRead(line, got)
                  /\ cut[R] = -(1 + Len(got.error) + Len(got.header))
                  /\ cut[R + 1] = cut[R] + MessageSize(line)
                  /\ cut[R + 1] \in Int
                  /\ \A j \in 1 .. MessageSize(line), x \in 1 .. Len(wire) :
                       x = cut[R] + j => wire[x] = CellOf(isConn, line, FALSE, j)

(* Where the decoder is inside a message. *)
LEMMA InsideMessage ==
  ASSUME CodecInv, Busy, NEW cut, LaidInv(cut), Counted(cut), Aligned(cut),
         NEW R \in Nat, R = Len(received)
  PROVE  Inside(cut, R)
<1>1. PICK S \in Nat : S = Len(sent)
  BY DEF CodecInv, EncoderTypes
<1>2. R + 1 <= S /\ cut[R] < 0
  <2>1. Begun = R + 1 /\ R + 1 > 0 /\ (R + 1) - 1 = R
    BY DEF Begun
  <2>2. QED
    BY <1>1, <2>1 DEF Counted
<1>3. R + 1 \in 1 .. S /\ R \in 0 .. S /\ R + 1 \in 0 .. S /\ (R + 1) - 1 = R
  BY <1>2
<1>4. sent \in Seq(Messages) /\ Laid(cut, isConn, Stream, sent, lost)
  BY DEF CodecInv, EncoderTypes, LaidInv
<1>5. cut[R] \in Int /\ cut[R + 1] \in Int /\ cut[R + 1] = cut[R] + MessageSize(sent[R + 1])
  <2>0. PICK ms \in Seq(Messages) : ms = sent
    BY <1>4
  <2>1. PICK s, lo, spliced : s = Stream /\ lo = lost /\ spliced = isConn
    OBVIOUS
  <2>2. Laid(cut, spliced, s, ms, lo) /\ R + 1 \in 1 .. Len(ms)
    BY <1>1, <1>3, <1>4, <2>0, <2>1
  <2>3. /\ cut[(R + 1) - 1] \in Int /\ cut[R + 1] \in Int
        /\ cut[R + 1] = cut[(R + 1) - 1] + MessageSize(ms[R + 1])
    BY <2>2, MessageEnds, Zenon
  <2>4. QED
    BY <1>3, <2>0, <2>3, Zenon
<1>6. line \in Messages
  BY DEF CodecInv, HeaderInv
<1>7. ASSUME InStep(R)
      PROVE  /\ InMessage(cut, R + 1)
             /\ R + 1 \notin lost /\ line = sent[R + 1] /\ HeadRead(line, got)
             /\ cut[R] = -(1 + Len(got.error) + Len(got.header))
  <2>1. InMessage(cut, R + 1)
    BY <1>7, Zenon DEF Aligned
  <2>2. QED
    BY <1>3, <2>1, Zenon DEF InMessage, ReadUpTo
<1>8. ASSUME InStep(R), NEW j \in 1 .. MessageSize(line), NEW x \in 1 .. Len(wire), x = cut[R] + j
      PROVE  wire[x] = CellOf(isConn, line, FALSE, j)
  <2>1. wire \in Seq(Cells) /\ headerBuffer \in Seq(Cells)
    BY DEF CodecInv, EncoderTypes
  <2>2. /\ Stream \in Seq(Cells) /\ Len(Stream) = Len(wire) + Len(headerBuffer)
        /\ \A k \in 1 .. Len(wire) : Stream[k] = wire[k]
    BY <2>1, Together DEF Stream
  <2>0. PICK s \in Seq(Cells), ms \in Seq(Messages) : s = Stream /\ ms = sent
    BY <1>4, <2>2
  <2>3. PICK lo, spliced : lo = lost /\ spliced = isConn
    OBVIOUS
  <2>4. x \in 1 .. Len(s) /\ s[x] = wire[x]
    BY <2>0, <2>1, <2>2
  <2>5. /\ Laid(cut, spliced, s, ms, lo) /\ R + 1 \in 1 .. Len(ms)
        /\ j \in 1 .. MessageSize(ms[R + 1]) /\ x = cut[(R + 1) - 1] + j
    BY <1>1, <1>3, <1>4, <1>7, <1>8, <2>0, <2>3
  <2>6. s[x] = CellOf(spliced, ms[R + 1], R + 1 \in lo, j)
    <3>1. PICK i \in 1 .. Len(ms) : i = R + 1
      BY <2>5
    <3>2. j \in 1 .. MessageSize(ms[i]) /\ x \in 1 .. Len(s) /\ x = cut[i - 1] + j
      BY <2>4, <2>5, <3>1, Zenon
    <3>3. IsCell(s, x, spliced, ms, i, lo, j)
      BY <2>5, <3>2, CellAt
    <3>4. QED
      BY <3>1, <3>3, Zenon DEF IsCell
  <2>7. CellOf(spliced, line, R + 1 \in lo, j) = CellOf(spliced, line, FALSE, j)
    BY <1>7, <1>8, <2>3 DEF CellOf
  <2>8. QED
    BY <1>7, <1>8, <2>0, <2>3, <2>4, <2>6, <2>7, Zenon
<1>9. InStep(R) => \A j \in 1 .. MessageSize(line), x \in 1 .. Len(wire) :
                     x = cut[R] + j => wire[x] = CellOf(isConn, line, FALSE, j)
  BY <1>8
<1>10. QED
  BY <1>1, <1>2, <1>3, <1>5, <1>6, <1>7, <1>9, Zenon DEF Inside

(* Decode is still within message R + 1. *)
LEMMA ReadsOn ==
  ASSUME CodecInv, Told, NEW R \in Nat, R = Len(received), R + 1 <= Len(sent),
         Busy', received' = received, UNCHANGED <<isConn, sent, lost>>,
         NEW c, LaidInv(c)', c[R] < 0,
         InStep(R) => InMessage(c, R + 1)'
  PROVE  DecodeInv'
<1>1. PICK S \in Nat : S = Len(sent) /\ R + 1 <= S /\ R <= S
  BY DEF CodecInv, EncoderTypes
<1>2. SentStays
  BY DEF SentStays
<1>3. Told' /\ \A i \in 0 .. S : InStep(i)' <=> InStep(i)
  BY <1>1, <1>2, ToldStays
<1>4. R \in 0 .. S
  BY <1>1
<1>5. InStep(R)' => InMessage(c, R + 1)'
  BY <1>3, <1>4
<1>6. Aligned(c)'
  <2>1. reader' # "garbage" /\ reader' # "line" /\ R = Len(received')
    BY DEF Busy
  <2>2. QED
    BY <1>5, <2>1, Zenon DEF Aligned
<1>7. Counted(c)'
  <2>1. Begun' = R + 1 /\ R + 1 > 0 /\ (R + 1) - 1 = R
    BY DEF Begun
  <2>2. QED
    BY <1>1, <2>1 DEF Counted
<1>8. QED
  BY <1>3, <1>6, <1>7, Zenon DEF DecodeInv

(* The decoder gives up, or takes something for a start line that is none. *)
LEMMA StopsDecoding ==
  ASSUME CodecInv, Told, NEW cut, LaidInv(cut), Counted(cut),
         reader' \in {"failed", "garbage"}, reader' = "garbage" => ~InStep(Len(received)),
         received' = received, UNCHANGED <<isConn, sent, lost>>,
         NEW n \in Nat, NEW c, LaidInv(c)', \A i \in 0 .. Len(sent) : c[i] = cut[i] - n
  PROVE  DecodeInv'
<1>1. PICK S \in Nat, R \in Nat : S = Len(sent) /\ R = Len(received)
  BY DEF CodecInv, EncoderTypes, DecoderTypes
<1>2. R <= S /\ (Busy => R + 1 <= S)
  BY <1>1 DEF Counted, Begun
<1>3. SentStays
  BY DEF SentStays
<1>4. Told' /\ \A i \in 0 .. S : InStep(i)' <=> InStep(i)
  BY <1>1, <1>2, <1>3, ToldStays
<1>5. R \in 0 .. S /\ ~Busy'
  BY <1>2 DEF Busy
<1>6. Aligned(c)'
  <2>1. reader' # "line" /\ R = Len(received') /\ (reader' = "garbage" => ~InStep(R)')
    BY <1>1, <1>4, <1>5
  <2>2. QED
    BY <1>5, <2>1, Zenon DEF Aligned
<1>7. ASSUME R > 0 PROVE c[R - 1] < 0
  <2>1. R - 1 \in 0 .. S
    BY <1>2, <1>7
  <2>2. PICK a \in Int : a = cut[R - 1] /\ a < 0
    <3>1. PICK s, lo, spliced : s = Stream /\ lo = lost /\ spliced = isConn
      OBVIOUS
    <3>2. PICK ms \in Seq(Messages) : ms = sent
      BY DEF CodecInv, EncoderTypes
    <3>3. Laid(cut, spliced, s, ms, lo) /\ R - 1 \in 0 .. Len(ms) /\ R \in 0 .. Len(ms) /\ R - 1 < R
      BY <1>1, <1>5, <2>1, <3>1, <3>2 DEF LaidInv
    <3>4. cut[R - 1] \in Int /\ cut[R] \in Int /\ cut[R - 1] < cut[R]
      BY <3>3, CutsGrow DEF Ordered
    <3>5. CASE Busy
      <4>1. Begun = R + 1 /\ (R + 1) - 1 = R /\ R + 1 > 0
        BY <1>1, <3>5 DEF Begun
      <4>2. cut[R] < 0
        BY <4>1 DEF Counted
      <4>3. QED
        BY <3>4, <4>2
    <3>6. CASE ~Busy
      <4>1. Begun = R
        BY <1>1, <3>6 DEF Begun
      <4>2. cut[R - 1] < 0
        BY <1>7, <4>1 DEF Counted
      <4>3. QED
        BY <3>4, <4>2
    <3>7. QED
      BY <3>5, <3>6
  <2>3. c[R - 1] = a - n
    BY <1>1, <2>1, <2>2
  <2>4. QED
    BY <2>2, <2>3
<1>8. Counted(c)'
  <2>1. Begun' = R
    BY <1>1, <1>5 DEF Begun
  <2>2. QED
    BY <1>1, <1>2, <1>7, <2>1 DEF Counted
<1>9. QED
  BY <1>4, <1>6, <1>8, Zenon DEF DecodeInv

(* A start line, or what is taken for one. *)
LEMMA ReadLineDecodes ==
  ASSUME CodecInv, DecodeInv, ReadLine
  PROVE  DecodeInv'
<1>1. PICK cut : LaidInv(cut) /\ Counted(cut) /\ Aligned(cut)
  BY DEF DecodeInv
<1>2. PICK S \in Nat, R \in Nat : S = Len(sent) /\ R = Len(received)
  BY DEF CodecInv, EncoderTypes, DecoderTypes
<1>3. /\ wire # <<>> /\ Head(wire) = wire[1] /\ wire[1] \in Cells /\ 1 <= Len(wire)
      /\ wire' = SubSeq(wire, 1 + 1, Len(wire)) /\ UNCHANGED <<isConn, encoding, link>>
  BY ReadLineTypes
<1>4. PICK c : LaidInv(c)' /\ \A i \in 0 .. S : c[i] = cut[i] - 1
  BY <1>1, <1>2, <1>3, LaidMoves DEF CodecInv
<1>5. reader = "line" /\ ~Busy /\ Told /\ UNCHANGED <<isConn, sent, lost>>
  BY <1>3 DEF ReadLine, Busy, DecodeInv, encoding
<1>6. R <= S /\ R \in 0 .. S /\ (R > 0 => cut[R - 1] < 0)
  <2>1. Begun = R
    BY <1>2, <1>5 DEF Begun
  <2>2. QED
    BY <1>1, <1>2, <2>1 DEF Counted
<1>7. InStep(R) => cut[R] = 0
  BY <1>1, <1>2, <1>5, Zenon DEF Aligned
<1>8. PICK s \in Seq(Cells), ms \in Seq(Messages) : s = Stream /\ ms = sent /\ s[1] = Head(wire) /\ 1 <= Len(s)
  <2>1. wire \in Seq(Cells) /\ headerBuffer \in Seq(Cells) /\ sent \in Seq(Messages)
    BY DEF CodecInv, EncoderTypes
  <2>2. /\ Stream \in Seq(Cells) /\ Len(Stream) = Len(wire) + Len(headerBuffer)
        /\ \A k \in 1 .. Len(wire) : Stream[k] = wire[k]
    BY <2>1, Together DEF Stream
  <2>3. 1 \in 1 .. Len(wire) /\ 1 <= Len(Stream)
    BY <1>3, <2>1, <2>2
  <2>4. QED
    BY <1>3, <2>1, <2>2, <2>3
<1>9. PICK lo, spliced : lo = lost /\ spliced = isConn
  OBVIOUS
<1>10. Laid(cut, spliced, s, ms, lo)
  BY <1>1, <1>8, <1>9, Zenon DEF LaidInv
<1>11. PICK i \in 1 .. S :
         /\ cut[i - 1] < 1 /\ 1 <= cut[i] /\ cut[i - 1] \in Int /\ cut[i] \in Int
         /\ 1 - cut[i - 1] \in Nat \ {0}
         /\ Head(wire) = CellOf(spliced, sent[i], i \in lost, 1 - cut[i - 1])
  <2>1. BeginsWith(cut, spliced, s, ms, lo)
    BY <1>8, <1>10, FirstCell
  <2>2. QED
    BY <1>2, <1>8, <1>9, <2>1, Zenon DEF BeginsWith, IsCell
<1>12. /\ i - 1 \in 0 .. S /\ i \in 0 .. S /\ sent[i] \in Messages
       /\ cut[i] = cut[i - 1] + MessageSize(sent[i])
  <2>1. i \in 1 .. Len(ms)
    BY <1>2, <1>8
  <2>2. QED
    BY <1>2, <1>8, <1>10, <2>1, MessageEnds
<1>13. /\ Head(wire)[1] \in {"line", "zero"} <=> cut[i - 1] = 0
       /\ cut[i - 1] = 0 => Head(wire)[2] = IF i \in lost THEN NoMessage ELSE sent[i]
  <2>0. PICK l : l = (i \in lost)
    OBVIOUS
  <2>1. PICK j \in Nat \ {0}, m \in Messages : j = 1 - cut[i - 1] /\ m = sent[i]
    BY <1>11, <1>12
  <2>2. /\ CellOf(spliced, m, l, j)[1] \in {"line", "zero"} <=> j = 1
        /\ CellOf(spliced, m, l, 1)[2] = IF l THEN NoMessage ELSE m
    BY StartCells
  <2>3. j = 1 <=> cut[i - 1] = 0
    BY <1>11, <2>1
  <2>4. Head(wire) = CellOf(spliced, m, l, j)
    BY <1>11, <2>0, <2>1
  <2>5. QED
    BY <2>0, <2>1, <2>2, <2>3, <2>4, Zenon
<1>14. \A k \in 0 .. S : /\ cut[k] \in Int
                         /\ k < i <=> cut[k] < cut[i]
                         /\ k <= i - 1 <=> cut[k] <= cut[i - 1]
                         /\ k = i - 1 <=> cut[k] = cut[i - 1]
  <2>1. ASSUME NEW k \in 0 .. Len(ms), NEW l \in 0 .. Len(ms)
        PROVE  /\ cut[k] \in Int
               /\ k < l <=> cut[k] < cut[l]
               /\ k <= l <=> cut[k] <= cut[l]
               /\ k = l <=> cut[k] = cut[l]
    <3>1. Ordered(cut, k, l)
      BY <1>10, CutsGrow
    <3>2. QED
      BY <3>1 DEF Ordered
  <2>2. QED
    BY <1>2, <1>8, <1>12, <2>1
<1>15. CASE Head(wire)[1] \notin {"line", "zero"} /\ reader' = "garbage" /\ UNCHANGED <<line, got, received>>
  <2>1. ~InStep(R)
    <3>1. SUFFICES ASSUME InStep(R) PROVE FALSE
      OBVIOUS
    <3>2. cut[R] = 0 /\ cut[i - 1] # 0
      BY <1>7, <1>13, <1>15, <3>1
    <3>3. cut[i - 1] < 0 /\ 0 < cut[i]
      BY <1>11, <3>2
    <3>4. R < i /\ ~(R <= i - 1)
      BY <1>6, <1>11, <1>14, <3>2, <3>3
    <3>5. QED
      BY <3>4
  <2>2. QED
    BY <1>1, <1>2, <1>4, <1>5, <1>15, <2>1, StopsDecoding
<1>16. CASE Head(wire)[1] \in {"line", "zero"} /\ Proceed(Head(wire)[2], "line", Empty)
  <2>1. cut[i - 1] = 0
    BY <1>13, <1>16
  <2>2. PICK m \in Messages \cup {NoMessage} :
          m = Head(wire)[2] /\ m = (IF i \in lost THEN NoMessage ELSE sent[i]) /\ Proceed(m, "line", Empty)
    BY <1>12, <1>13, <1>16, <2>1
  <2>3. R <= i - 1 /\ R + 1 <= S
    <3>1. R > 0 => R - 1 < i - 1
      <4>1. SUFFICES ASSUME R > 0 PROVE R - 1 < i - 1
        OBVIOUS
      <4>2. R - 1 \in 0 .. S
        BY <1>6, <4>1
      <4>3. ~(cut[i - 1] <= cut[R - 1]) /\ cut[R - 1] # cut[i - 1] /\ cut[R - 1] <= cut[i - 1]
        BY <1>6, <1>14, <2>1, <4>1, <4>2
      <4>4. R - 1 <= i - 1 /\ R - 1 # i - 1
        BY <1>14, <4>2, <4>3
      <4>5. QED
        BY <4>4
    <3>2. QED
      BY <3>1
  <2>4. c[R] < 0 /\ (InStep(R) => i = R + 1 /\ c[i - 1] = -1 /\ c[i] = c[i - 1] + MessageSize(sent[i]))
    <3>1. PICK a \in Int : a = cut[R] /\ a <= 0
      BY <1>6, <1>14, <2>1, <2>3
    <3>2. c[R] = a - 1
      BY <1>4, <1>6, <3>1
    <3>3. ASSUME InStep(R) PROVE i = R + 1 /\ c[i - 1] = -1 /\ c[i] = c[i - 1] + MessageSize(sent[i])
      <4>1. R = i - 1
        BY <1>6, <1>7, <1>14, <2>1, <3>3
      <4>2. c[i - 1] = -1
        BY <1>4, <1>12, <2>1
      <4>3. PICK z \in Nat : z = MessageSize(sent[i])
        BY <1>12, MessageSizes
      <4>4. c[i] = z - 1
        BY <1>4, <1>12, <2>1, <4>3
      <4>5. z - 1 = -1 + z
        BY <4>3
      <4>6. QED
        BY <4>1, <4>2, <4>3, <4>4, <4>5
    <3>4. QED
      BY <3>1, <3>2, <3>3
  <2>5. PICK part \in {"line", "error", "header"}, parts \in Parts : part = "line" /\ parts = Empty
    BY EmptySeq DEF Empty, Parts
  <2>6. /\ HeadRead(sent[i], parts) /\ Len(parts.error) = 0 /\ Len(parts.header) = 0
    BY <2>5, EmptySeq DEF Empty, HeadRead
  <2>7. ASSUME InStep(R), i \notin lost
        PROVE  /\ m = sent[R + 1]
               /\ Busy' => InMessage(c, R + 1)'
               /\ ~Busy' => Faithful(m, parts)' /\ c[R + 1] = 0
    <3>1. i = R + 1 /\ m = sent[i] /\ m \in Messages
      BY <1>12, <2>2, <2>4, <2>7
    <3>2. /\ HeadRead(m, parts) /\ Proceed(m, part, parts)
          /\ Len(parts.error) = (IF part = "line" THEN 0 ELSE ErrorSize[m])
          /\ Len(parts.header) = (IF part = "header" THEN HeaderSize[m] ELSE 0)
      BY <2>2, <2>5, <2>6, <3>1
    <3>3. /\ c[i - 1] = -(1 + Len(parts.error) + Len(parts.header))
          /\ c[i] = c[i - 1] + MessageSize(m)
      BY <2>4, <2>6, <2>7, <3>1
    <3>4. i \in 1 .. Len(sent) /\ DecoderTypes /\ isConn \in BOOLEAN
      BY <1>2 DEF CodecInv, EncoderTypes
    <3>5. ReadInStep(c, i, m, parts)'
      BY <1>5, <2>7, <3>1, <3>2, <3>3, <3>4, ProceedsInStep
    <3>6. QED
      BY <3>1, <3>5, Zenon DEF ReadInStep
  <2>8. Busy' => i \notin lost
    BY <1>5, <2>2, <2>5, ProceedFacts, NoMessageAssumption DEF CodecInv
  <2>9. /\ InStep(R) /\ Busy' => InMessage(c, R + 1)'
        /\ InStep(R + 1) /\ ~Busy' => m = sent[R + 1] /\ Faithful(m, parts)' /\ c[R + 1] = 0
    <3>1. InStep(R + 1) => InStep(R) /\ R + 1 \notin lost
      BY InStepNext
    <3>2. InStep(R + 1) => i \notin lost
      BY <2>4, <3>1
    <3>3. QED
      BY <2>7, <2>8, <3>1, <3>2, Zenon
  <2>10. Proceed(m, part, parts) /\ part \in {"line", "error", "header", "body"} /\ R + 1 <= Len(sent)
    BY <1>2, <2>2, <2>3, <2>5
  <2>11. QED
    BY <1>2, <1>4, <1>5, <2>4, <2>9, <2>10, DecodesOn
<1>17. QED
  BY <1>15, <1>16 DEF ReadLine

(* The error of a response. *)
LEMMA ReadErrorDecodes ==
  ASSUME CodecInv, DecodeInv, ReadError
  PROVE  DecodeInv'
<1>1. PICK cut : LaidInv(cut) /\ Counted(cut) /\ Aligned(cut)
  BY DEF DecodeInv
<1>2. reader = "error" /\ Busy /\ Told
  BY DEF ReadError, Busy, DecodeInv
<1>3. PICK S \in Nat, R \in Nat : S = Len(sent) /\ R = Len(received)
  BY DEF CodecInv, EncoderTypes, DecoderTypes
<1>4. line \in Messages
  BY <1>2 DEF CodecInv, HeaderInv
<1>5. PICK m \in Messages, n \in Nat, H \in Nat :
        m = line /\ n = ErrorSize[line] /\ H = HeaderSize[line]
  BY <1>4, Sizes
<1>6. PICK parts \in Parts : parts = [got EXCEPT !.error = SubSeq(wire, 1, n)]
  BY <1>5, ReadErrorTypes
<1>7. /\ n <= Len(wire) /\ wire' = SubSeq(wire, n + 1, Len(wire))
      /\ Proceed(m, "error", parts) /\ UNCHANGED <<isConn, encoding, link>>
      /\ UNCHANGED <<isConn, sent, lost>>
  <2>1. Len(wire) >= n => n <= Len(wire)
    BY DEF CodecInv, EncoderTypes
  <2>2. QED
    BY <1>5, <1>6, <2>1 DEF ReadError, encoding
<1>8. PICK c : LaidInv(c)' /\ \A i \in 0 .. S : c[i] = cut[i] - n
  BY <1>1, <1>3, <1>7, LaidMoves DEF CodecInv
<1>9. /\ R + 1 \in 1 .. S /\ R + 1 <= S /\ R \in 0 .. S /\ R + 1 \in 0 .. S
      /\ cut[R] \in Int /\ cut[R] < 0
      /\ InStep(R) => /\ InMessage(cut, R + 1)
                      /\ R + 1 \notin lost /\ m = sent[R + 1] /\ HeadRead(m, got)
                      /\ cut[R] = -(1 + Len(got.error) + Len(got.header))
                      /\ cut[R + 1] = cut[R] + MessageSize(m)
                      /\ cut[R + 1] \in Int
                      /\ \A j \in 1 .. MessageSize(m), x \in 1 .. Len(wire) :
                           x = cut[R] + j => wire[x] = CellOf(isConn, m, FALSE, j)
  <2>1. Inside(cut, R)
    BY <1>1, <1>2, <1>3, InsideMessage
  <2>2. QED
    BY <1>3, <1>5, <2>1, Zenon DEF Inside
<1>10. PICK a \in Int : a = cut[R] /\ a < 0 /\ c[R] = a - n
  BY <1>8, <1>9
<1>11. got \in Parts /\ Len(wire) \in Nat /\ wire \in Seq(Cells)
  BY DEF CodecInv, DecoderTypes, EncoderTypes
<1>12. PICK e \in Seq(Cells) : /\ e = SubSeq(wire, 1, n) /\ Len(e) = n
                               /\ \A i \in 1 .. n : e[i] = wire[i]
  BY <1>7, <1>11, CutFacts
<1>13. parts.error = e /\ parts.header = got.header /\ parts.body = got.body
  BY <1>6, <1>11, <1>12 DEF Parts
<1>14. PICK part \in {"line", "error", "header"} : part = "error"
  OBVIOUS
<1>15. ASSUME InStep(R) PROVE ReadInStep(c, R + 1, m, parts)'
  <2>1. Len(got.error) = 0 /\ Len(got.header) = 0 /\ a = -1
    <3>1. Len(got.error) = 0 /\ Len(got.header) = 0
      BY <1>2, <1>9, <1>15, Zenon DEF InMessage
    <3>2. QED
      BY <1>9, <1>10, <1>15, <3>1
  <2>2. ASSUME NEW j \in 1 .. n PROVE e[j] = HeadCell(m, j)
    <3>1. PICK Z \in Nat : Z = MessageSize(m) /\ 1 + H + n <= Z
      BY <1>5, MessageSizes
    <3>2. j + 1 \in 1 .. Z /\ j \in 1 .. Len(wire) /\ j = a + (j + 1)
      BY <1>7, <1>11, <2>1, <3>1
    <3>3. wire[j] = CellOf(isConn, m, FALSE, j + 1)
      BY <1>9, <1>10, <1>15, <3>1, <3>2, Zenon
    <3>4. j + 1 # 1 /\ j + 1 <= 1 + H + n /\ (j + 1) - 1 = j
      OBVIOUS
    <3>5. CellOf(isConn, m, FALSE, j + 1) = HeadCell(m, j)
      BY <1>5, <3>4 DEF CellOf
    <3>6. QED
      BY <1>12, <3>3, <3>5
  <2>3. HeadRead(m, parts)
    <3>1. \A j \in 1 .. Len(parts.header) : FALSE
      BY <1>13, <2>1
    <3>2. parts.body = <<>>
      BY <1>9, <1>13, <1>15 DEF HeadRead
    <3>3. QED
      BY <1>12, <1>13, <2>2, <3>1, <3>2 DEF HeadRead
  <2>4. /\ Len(parts.error) = (IF part = "line" THEN 0 ELSE ErrorSize[m])
        /\ Len(parts.header) = (IF part = "header" THEN HeaderSize[m] ELSE 0)
        /\ Proceed(m, part, parts)
    BY <1>5, <1>7, <1>12, <1>13, <1>14, <2>1
  <2>5. PICK i \in 1 .. S : i = R + 1 /\ i - 1 = R
    BY <1>9
  <2>6. c[i - 1] = -(1 + Len(parts.error) + Len(parts.header)) /\ c[i] = c[i - 1] + MessageSize(m)
    <3>1. c[R] = -(1 + n)
      BY <1>10, <2>1
    <3>2. PICK Z \in Nat : Z = MessageSize(m)
      BY MessageSizes
    <3>3. c[R + 1] = (a + Z) - n /\ (a + Z) - n = (a - n) + Z
      BY <1>8, <1>9, <1>10, <1>15, <3>2
    <3>4. Len(parts.error) = n /\ Len(parts.header) = 0
      BY <1>12, <1>13, <2>1
    <3>5. QED
      BY <1>10, <2>5, <3>1, <3>2, <3>3, <3>4, SMTT(30)
  <2>7. i \notin lost /\ m = sent[i] /\ i \in 1 .. Len(sent) /\ DecoderTypes /\ isConn \in BOOLEAN
    BY <1>3, <1>9, <1>15, <2>5 DEF CodecInv, EncoderTypes
  <2>8. ReadInStep(c, i, m, parts)'
    BY <1>7, <2>3, <2>4, <2>6, <2>7, ProceedsInStep
  <2>9. QED
    BY <2>5, <2>8
<1>16. InStep(R + 1) => InStep(R)
  BY InStepNext
<1>17. /\ InStep(R) /\ Busy' => InMessage(c, R + 1)'
       /\ InStep(R + 1) /\ ~Busy' => m = sent[R + 1] /\ Faithful(m, parts)' /\ c[R + 1] = 0
  BY <1>9, <1>15, <1>16, Zenon DEF ReadInStep
<1>18. R + 1 <= Len(sent) /\ c[R] < 0 /\ Proceed(m, part, parts) /\ part \in {"line", "error", "header", "body"}
  BY <1>3, <1>7, <1>9, <1>10, <1>14
<1>19. QED
  BY <1>2, <1>3, <1>7, <1>8, <1>17, <1>18, DecodesOn

(* A piece of the headers. *)
LEMMA CopyHeaderDecodes ==
  ASSUME CodecInv, DecodeInv, CopyHeader
  PROVE  DecodeInv'
<1>1. PICK cut : LaidInv(cut) /\ Counted(cut) /\ Aligned(cut)
  BY DEF DecodeInv
<1>2. PICK n \in 1 .. Len(wire) :
        /\ n <= HeaderLeft /\ Ring!Write(SubSeq(wire, 1, n))
        /\ wire' = SubSeq(wire, n + 1, Len(wire))
        /\ got' = [got EXCEPT !.header = @ \o SubSeq(wire, 1, n)]
  BY DEF CopyHeader
<1>3. /\ reader = "header" /\ Busy /\ Busy' /\ Told
      /\ UNCHANGED <<isConn, encoding, link, reader, line, received>>
      /\ UNCHANGED <<isConn, sent, lost>>
  BY DEF CopyHeader, Busy, DecodeInv, encoding
<1>4. PICK S \in Nat, R \in Nat : S = Len(sent) /\ R = Len(received)
  BY DEF CodecInv, EncoderTypes, DecoderTypes
<1>5. line \in Messages /\ n \in Nat /\ n <= Len(wire) /\ Len(wire) \in Nat
  BY <1>3 DEF CodecInv, HeaderInv, EncoderTypes
<1>6. PICK m \in Messages, E \in Nat, H \in Nat :
        m = line /\ E = ErrorSize[line] /\ H = HeaderSize[line]
  BY <1>5, Sizes
<1>7. PICK c : LaidInv(c)' /\ \A i \in 0 .. S : c[i] = cut[i] - n
  BY <1>1, <1>2, <1>3, <1>4, <1>5, LaidMoves, ZenonT(40) DEF CodecInv
<1>8. /\ R + 1 \in 1 .. S /\ R + 1 <= S /\ R \in 0 .. S /\ R + 1 \in 0 .. S
      /\ cut[R] \in Int /\ cut[R] < 0
      /\ InStep(R) => /\ InMessage(cut, R + 1)
                      /\ R + 1 \notin lost /\ m = sent[R + 1] /\ HeadRead(m, got)
                      /\ cut[R] = -(1 + Len(got.error) + Len(got.header))
                      /\ \A j \in 1 .. MessageSize(m), x \in 1 .. Len(wire) :
                           x = cut[R] + j => wire[x] = CellOf(isConn, m, FALSE, j)
  <2>1. Inside(cut, R)
    BY <1>1, <1>3, <1>4, InsideMessage
  <2>2. QED
    BY <1>4, <1>6, <2>1, Zenon DEF Inside
<1>9. PICK a \in Int : a = cut[R] /\ a < 0 /\ c[R] = a - n
  BY <1>7, <1>8
<1>10. PICK e \in Seq(Cells), g \in Seq(Cells), h \in Seq(Cells) :
         e = got.error /\ g = got.header /\ h = got'.header
  <2>1. got \in Parts /\ CodecInv'
    BY <1>2, <1>3, CopyHeaderTypes DEF CodecInv, DecoderTypes
  <2>2. got' \in Parts
    BY <2>1 DEF CodecInv, DecoderTypes
  <2>3. QED
    BY <2>1, <2>2 DEF Parts
<1>11. /\ got'.error = e /\ got'.body = got.body /\ Len(h) = Len(g) + n
       /\ \A i \in 1 .. Len(g) : h[i] = g[i]
       /\ \A i \in 1 .. n : h[Len(g) + i] = wire[i]
  BY <1>2, <1>3, <1>10, CopyHeaderTypes
<1>12. n <= H - Len(g)
  BY <1>2, <1>6, <1>10 DEF HeaderLeft
<1>13. ASSUME InStep(R) PROVE InMessage(c, R + 1)'
  <2>1. Len(e) = E /\ a = -(1 + E + Len(g))
    <3>1. Len(got.error) = ErrorSize[line]
      BY <1>3, <1>8, <1>13 DEF InMessage
    <3>2. QED
      BY <1>6, <1>8, <1>9, <1>10, <1>13, <3>1
  <2>2. ASSUME NEW j \in 1 .. Len(h) PROVE h[j] = HeadCell(m, E + j)
    <3>1. CASE j <= Len(g)
      <4>1. j \in 1 .. Len(g)
        BY <3>1
      <4>2. h[j] = g[j] /\ g[j] = HeadCell(m, Len(e) + j)
        BY <1>8, <1>10, <1>11, <1>13, <4>1, Zenon DEF HeadRead
      <4>3. QED
        BY <2>1, <4>2
    <3>2. CASE ~(j <= Len(g))
      <4>1. PICK k \in 1 .. n : j = Len(g) + k
        <5>1. j - Len(g) \in 1 .. n /\ j = Len(g) + (j - Len(g))
          BY <1>5, <1>11, <3>2
        <5>2. QED
          BY <5>1
      <4>2. PICK Z \in Nat : Z = MessageSize(m) /\ 1 + H + E <= Z
        BY <1>6, MessageSizes
      <4>3. PICK y \in 1 .. Z : /\ y = 1 + (E + j) /\ k \in 1 .. Len(wire) /\ k = a + y
                                /\ y # 1 /\ y <= 1 + H + E /\ y - 1 = E + j
        <5>1. /\ 1 + (E + j) \in 1 .. Z /\ k \in 1 .. Len(wire) /\ k = a + (1 + (E + j))
              /\ 1 + (E + j) # 1 /\ 1 + (E + j) <= 1 + H + E /\ (1 + (E + j)) - 1 = E + j
          BY <1>5, <1>12, <2>1, <4>1, <4>2
        <5>2. QED
          BY <5>1
      <4>4. wire[k] = CellOf(isConn, m, FALSE, y)
        BY <1>8, <1>9, <1>13, <4>2, <4>3, Zenon
      <4>5. CellOf(isConn, m, FALSE, y) = HeadCell(m, E + j)
        BY <1>6, <4>3 DEF CellOf
      <4>6. QED
        BY <1>11, <4>1, <4>4, <4>5
    <3>3. QED
      BY <3>1, <3>2
  <2>3. HeadRead(line, got)'
    <3>1. line' = m /\ got'.error = e /\ got'.header = h /\ got'.body = <<>>
      BY <1>3, <1>6, <1>8, <1>10, <1>11, <1>13 DEF HeadRead
    <3>2. \A j \in 1 .. Len(e) : e[j] = HeadCell(m, j)
      BY <1>8, <1>10, <1>13 DEF HeadRead
    <3>3. QED
      BY <2>1, <2>2, <3>1, <3>2 DEF HeadRead
  <2>4. c[R] = -(1 + Len(e) + Len(h)) /\ (R + 1) - 1 = R
    <3>1. PICK y \in Nat : y = Len(g)
      OBVIOUS
    <3>2. c[R] = -(1 + E + y) - n /\ Len(h) = y + n
      BY <1>9, <1>11, <2>1, <3>1
    <3>3. -(1 + E + y) - n = -(1 + E + (y + n))
      BY <1>5
    <3>4. QED
      BY <2>1, <3>2, <3>3
  <2>5. ReadUpTo(c, R + 1, line, got)'
    BY <1>3, <1>6, <1>8, <1>10, <1>11, <1>13, <2>3, <2>4 DEF ReadUpTo
  <2>6. QED
    BY <1>3, <1>6, <1>10, <1>11, <2>1, <2>5 DEF InMessage
<1>14. R + 1 <= Len(sent) /\ c[R] < 0
  BY <1>4, <1>5, <1>8, <1>9
<1>15. QED
  BY <1>3, <1>4, <1>7, <1>13, <1>14, ReadsOn

(* Steps that leave the stream alone leave its layout alone. *)
LEMMA LaidStays ==
  ASSUME CodecInv, NEW cut, LaidInv(cut), UNCHANGED <<isConn, encoding, wire, link>>
  PROVE  LaidInv(cut)' /\ \A i \in 0 .. Len(sent) : cut[i] = cut[i] - 0
<1>1. LaidInv(cut)'
  BY DEF LaidInv, Stream, encoding
<1>2. cut \in [0 .. Len(sent) -> Int]
  BY DEF LaidInv, Laid
<1>3. QED
  BY <1>1, <1>2

(* The headers, once they are complete. *)
LEMMA SliceHeaderDecodes ==
  ASSUME CodecInv, DecodeInv, SliceHeader
  PROVE  DecodeInv'
<1>1. PICK cut : LaidInv(cut) /\ Counted(cut) /\ Aligned(cut)
  BY DEF DecodeInv
<1>2. /\ reader = "header" /\ Busy /\ Told
      /\ UNCHANGED <<isConn, encoding, wire, link>> /\ UNCHANGED <<isConn, sent, lost>>
  BY DEF SliceHeader, Busy, DecodeInv, encoding
<1>3. PICK S \in Nat, R \in Nat : S = Len(sent) /\ R = Len(received)
  BY DEF CodecInv, EncoderTypes, DecoderTypes
<1>4. LaidInv(cut)' /\ \A i \in 0 .. S : cut[i] = cut[i] - 0
  BY <1>1, <1>2, <1>3, LaidStays
<1>5. /\ reader' = "failed" \/ Proceed(line, "header", got)
      /\ reader' = "failed" => UNCHANGED <<line, got, received>>
      /\ Len(got.header) = HeaderSize[line]
  BY SliceHeaderTypes
<1>6. CASE reader' = "failed"
  <2>1. received' = received /\ 0 \in Nat
    BY <1>5, <1>6
  <2>2. QED
    BY <1>1, <1>2, <1>3, <1>4, <1>6, <2>1, StopsDecoding
<1>7. CASE Proceed(line, "header", got)
  <2>1. Inside(cut, R)
    BY <1>1, <1>2, <1>3, InsideMessage
  <2>2. PICK m \in Messages, parts \in Parts, part \in {"line", "error", "header"} :
          m = line /\ parts = got /\ part = "header" /\ Proceed(m, part, parts)
    BY <1>7, <2>1 DEF Inside, CodecInv, DecoderTypes
  <2>3. PICK i \in 1 .. S : i = R + 1 /\ i - 1 = R /\ R + 1 <= Len(sent)
    BY <1>3, <2>1 DEF Inside
  <2>4. ASSUME InStep(R) PROVE ReadInStep(cut, i, m, parts)'
    <3>1. /\ InMessage(cut, R + 1) /\ R + 1 \notin lost /\ m = sent[R + 1] /\ HeadRead(m, parts)
          /\ cut[R] = -(1 + Len(parts.error) + Len(parts.header))
          /\ cut[R + 1] = cut[R] + MessageSize(m)
      BY <2>1, <2>2, <2>4, Zenon DEF Inside
    <3>2. Len(got.error) = ErrorSize[line]
      BY <1>2, <3>1 DEF InMessage
    <3>3. /\ Len(parts.error) = (IF part = "line" THEN 0 ELSE ErrorSize[m])
          /\ Len(parts.header) = (IF part = "header" THEN HeaderSize[m] ELSE 0)
      BY <1>5, <2>2, <3>2
    <3>4. /\ i \notin lost /\ m = sent[i] /\ i \in 1 .. Len(sent) /\ DecoderTypes /\ isConn \in BOOLEAN
          /\ cut[i - 1] = -(1 + Len(parts.error) + Len(parts.header))
          /\ cut[i] = cut[i - 1] + MessageSize(m)
      BY <1>3, <2>3, <3>1 DEF CodecInv, EncoderTypes
    <3>5. QED
      BY <1>2, <2>2, <3>1, <3>3, <3>4, ProceedsInStep
  <2>5. InStep(R + 1) => InStep(R) /\ m = sent[R + 1]
    <3>1. InStep(R + 1) => InStep(R)
      BY InStepNext
    <3>2. QED
      BY <2>1, <2>2, <3>1, Zenon DEF Inside
  <2>6. /\ InStep(R) /\ Busy' => InMessage(cut, R + 1)'
        /\ InStep(R + 1) /\ ~Busy' => m = sent[R + 1] /\ Faithful(m, parts)' /\ cut[R + 1] = 0
    BY <2>3, <2>4, <2>5, Zenon DEF ReadInStep
  <2>7. cut[R] < 0 /\ part \in {"line", "error", "header", "body"}
    BY <2>1 DEF Inside
  <2>8. QED
    BY <1>2, <1>3, <1>4, <2>2, <2>3, <2>6, <2>7, DecodesOn
<1>8. QED
  BY <1>5, <1>6, <1>7

(* The body. *)
LEMMA ReadBodyDecodes ==
  ASSUME CodecInv, DecodeInv, ReadBody
  PROVE  DecodeInv'
<1>1. PICK cut : LaidInv(cut) /\ Counted(cut) /\ Aligned(cut)
  BY DEF DecodeInv
<1>2. reader = "body" /\ Busy /\ Told
  BY DEF ReadBody, Busy, DecodeInv
<1>3. PICK S \in Nat, R \in Nat : S = Len(sent) /\ R = Len(received)
  BY DEF CodecInv, EncoderTypes, DecoderTypes
<1>4. Inside(cut, R)
  BY <1>1, <1>2, <1>3, InsideMessage
<1>5. PICK m \in Messages, n \in Nat, H \in Nat, E \in Nat, o \in Nat :
        /\ m = line /\ n = BodySize[line] /\ H = HeaderSize[line] /\ E = ErrorSize[line]
        /\ o = IF isConn THEN Offset[line] ELSE 0
  <2>1. line \in Messages
    BY <1>4 DEF Inside
  <2>2. QED
    BY <2>1, Sizes
<1>6. PICK parts \in Parts : parts = [got EXCEPT !.body = SubSeq(wire, 1, n)]
  BY <1>5, ReadBodyTypes
<1>7. /\ n <= Len(wire) /\ wire' = SubSeq(wire, n + 1, Len(wire))
      /\ Proceed(m, "body", parts) /\ UNCHANGED <<isConn, encoding, link>>
      /\ UNCHANGED <<isConn, sent, lost>>
  <2>1. Len(wire) >= n => n <= Len(wire)
    BY DEF CodecInv, EncoderTypes
  <2>2. QED
    BY <1>5, <1>6, <2>1 DEF ReadBody, encoding
<1>8. PICK c : LaidInv(c)' /\ \A i \in 0 .. S : c[i] = cut[i] - n
  BY <1>1, <1>3, <1>7, LaidMoves DEF CodecInv
<1>9. /\ R + 1 \in 1 .. S /\ R + 1 <= S /\ R \in 0 .. S /\ R + 1 \in 0 .. S
      /\ cut[R] \in Int /\ cut[R] < 0
  BY <1>3, <1>4 DEF Inside
<1>10. PICK a \in Int : a = cut[R] /\ a < 0 /\ c[R] = a - n
  BY <1>8, <1>9
<1>11. got \in Parts /\ Len(wire) \in Nat /\ wire \in Seq(Cells) /\ isConn \in BOOLEAN
  BY DEF CodecInv, DecoderTypes, EncoderTypes
<1>12. PICK b \in Seq(Cells) : /\ b = SubSeq(wire, 1, n) /\ Len(b) = n
                               /\ \A i \in 1 .. n : b[i] = wire[i]
  BY <1>7, <1>11, CutFacts
<1>13. parts.error = got.error /\ parts.header = got.header /\ parts.body = b
  BY <1>6, <1>11, <1>12 DEF Parts
<1>14. PICK part \in {"line", "error", "header", "body"} : part = "body" /\ Proceed(m, part, parts)
  BY <1>7
<1>15. ~Busy'
  <2>1. NextPart(m, part) = "done"
    BY <1>14, NextPartFacts
  <2>2. Busy' => reader' = NextPart(m, part)
    BY <1>14, ProceedFacts DEF CodecInv
  <2>3. QED
    BY <2>1, <2>2 DEF Busy
<1>16. ASSUME InStep(R), sent[R + 1] \notin NilReader
       PROVE  m = sent[R + 1] /\ Faithful(m, parts) /\ c[R + 1] = 0
  <2>1. /\ InMessage(cut, R + 1)
        /\ m = sent[R + 1] /\ HeadRead(m, got)
        /\ cut[R] = -(1 + Len(got.error) + Len(got.header))
        /\ cut[R + 1] = cut[R] + MessageSize(m)
        /\ \A j \in 1 .. MessageSize(m), x \in 1 .. Len(wire) :
             x = cut[R] + j => wire[x] = CellOf(isConn, m, FALSE, j)
    BY <1>4, <1>5, <1>16, Zenon DEF Inside
  <2>2. Len(got.error) = E /\ Len(got.header) = H
    BY <1>2, <1>5, <2>1 DEF InMessage
  <2>3. a = -(1 + E + H)
    BY <1>10, <2>1, <2>2
  <2>4. MessageSize(m) = 1 + H + E + n /\ 1 + H + E + n \in Nat
    <3>1. m \notin NilReader
      BY <1>16, <2>1
    <3>2. HasBody(m) <=> n > 0
      BY <1>5, <3>1 DEF HasBody
    <3>3. MessageSize(m) = 1 + H + E + (IF n > 0 THEN n ELSE 0)
      BY <1>5, <3>2 DEF MessageSize
    <3>4. QED
      BY <3>3
  <2>5. ASSUME NEW j \in 1 .. n PROVE b[j] = <<"body", m, o + j>>
    <3>1. PICK y \in 1 .. 1 + H + E + n : /\ j \in 1 .. Len(wire) /\ j = a + y /\ y # 1
                                          /\ ~(y <= 1 + H + E) /\ y - (1 + H + E) = j
      <4>1. /\ (1 + H + E) + j \in 1 .. 1 + H + E + n /\ j \in 1 .. Len(wire)
            /\ j = a + ((1 + H + E) + j) /\ (1 + H + E) + j # 1
            /\ ~((1 + H + E) + j <= 1 + H + E) /\ ((1 + H + E) + j) - (1 + H + E) = j
        BY <1>7, <1>11, <2>3
      <4>2. QED
        BY <4>1
    <3>2. wire[j] = CellOf(isConn, m, FALSE, y)
      BY <1>10, <2>1, <2>4, <3>1, Zenon
    <3>3. CellOf(isConn, m, FALSE, y) = <<"body", m, o + j>>
      BY <1>5, <3>1 DEF CellOf
    <3>4. QED
      BY <1>12, <3>2, <3>3
  <2>6. c[R + 1] = 0
    <3>1. cut[R + 1] = a + (1 + H + E + n)
      BY <1>10, <2>1, <2>4
    <3>2. c[R + 1] = (a + (1 + H + E + n)) - n
      BY <1>8, <1>9, <3>1
    <3>3. QED
      BY <2>3, <3>2
  <2>7. Faithful(m, parts)
    <3>1. /\ Len(parts.error) = ErrorSize[m] /\ Len(parts.header) = HeaderSize[m]
          /\ Len(parts.body) = BodySize[m]
      BY <1>5, <1>12, <1>13, <2>2
    <3>2. \A j \in 1 .. BodySize[m] : parts.body[j] = <<"body", m, (IF isConn THEN Offset[m] ELSE 0) + j>>
      BY <1>5, <1>13, <2>5
    <3>3. /\ \A j \in 1 .. Len(parts.error) : parts.error[j] = HeadCell(m, j)
          /\ \A j \in 1 .. Len(parts.header) : parts.header[j] = HeadCell(m, Len(parts.error) + j)
      BY <1>13, <2>1, Zenon DEF HeadRead
    <3>4. QED
      BY <1>11, <3>1, <3>2, <3>3, AllFaithful
  <2>8. QED
    BY <2>1, <2>6, <2>7
<1>17. InStep(R + 1) => m = sent[R + 1] /\ Faithful(m, parts)' /\ c[R + 1] = 0
  <2>1. InStep(R + 1) => InStep(R) /\ sent[R + 1] \notin NilReader
    BY InStepNext
  <2>2. Faithful(m, parts) => Faithful(m, parts)'
    BY <1>7 DEF Faithful
  <2>3. QED
    BY <1>16, <2>1, <2>2
<1>18. R + 1 <= Len(sent) /\ c[R] < 0
  BY <1>3, <1>9, <1>10
<1>19. QED
  BY <1>2, <1>3, <1>7, <1>8, <1>14, <1>15, <1>17, <1>18, DecodesOn

(* The end of the stream. *)
LEMMA DecodeFailsDecodes ==
  ASSUME CodecInv, DecodeInv, DecodeFails
  PROVE  DecodeInv'
<1>1. PICK cut : LaidInv(cut) /\ Counted(cut) /\ Aligned(cut)
  BY DEF DecodeInv
<1>2. /\ reader' = "failed" /\ received' = received /\ Told /\ 0 \in Nat
      /\ UNCHANGED <<isConn, encoding, wire, link>> /\ UNCHANGED <<isConn, sent, lost>>
  BY DEF DecodeFails, DecodeInv, encoding
<1>3. LaidInv(cut)' /\ \A i \in 0 .. Len(sent) : cut[i] = cut[i] - 0
  BY <1>1, <1>2, LaidStays
<1>4. QED
  BY <1>1, <1>2, <1>3, StopsDecoding

(* Every step keeps the decoder where it should be. *)
LEMMA DecodeInvNext == CodecInv /\ DecodeInv /\ [CodecNext]_codecVars => DecodeInv'
<1> SUFFICES ASSUME CodecInv, DecodeInv, [CodecNext]_codecVars PROVE DecodeInv'
  OBVIOUS
<1>1. ASSUME NEW m \in Messages, NEW n \in 0 .. Len(EncodedBody(m)), Encode(m, n) PROVE DecodeInv'
  BY <1>1, EncodeDecodes
<1>2. CASE UNCHANGED codecVars
  <2>1. PICK cut : LaidInv(cut) /\ Counted(cut) /\ Aligned(cut)
    BY DEF DecodeInv
  <2>2. UNCHANGED decoding /\ UNCHANGED <<isConn, encoding, wire, link>> /\ UNCHANGED <<isConn, sent, lost>>
    BY <1>2 DEF codecVars, encoding
  <2>3. LaidInv(cut)' /\ SentStays
    BY <2>1, <2>2, LaidStays DEF SentStays
  <2>4. Len(sent) <= Len(sent') /\ sent' \in Seq(Messages)
    BY <2>2 DEF CodecInv, EncoderTypes
  <2>5. QED
    BY <2>1, <2>2, <2>3, <2>4, PlaceStays
<1>3. QED
  BY <1>1, <1>2, FlushDecodes, LinkEndDecodes, ReadLineDecodes, ReadErrorDecodes, CopyHeaderDecodes,
     SliceHeaderDecodes, ReadBodyDecodes, DecodeFailsDecodes DEF CodecNext, Decode

(* Nothing is on the stream at first. *)
LEMMA DecodeInvInit == CodecInit => DecodeInv
<1> SUFFICES ASSUME CodecInit PROVE DecodeInv
  OBVIOUS
<1>1. /\ wire = <<>> /\ headerBuffer = <<>> /\ sent = <<>> /\ received = <<>>
      /\ reader = "line" /\ ~Busy
  BY DEF CodecInit, Busy
<1>2. PICK e \in Seq(Cells) : e = <<>> /\ Len(e) = 0
  BY EmptySeq
<1>3. PICK ms \in Seq(Messages) : ms = sent /\ Len(ms) = 0
  BY <1>1, EmptySeq
<1>4. Len(received) = 0
  BY <1>1
<1>5. Stream = e
  <2>1. e \o e = e
    BY <1>2, ConcatEmptySeq, Zenon
  <2>2. QED
    BY <1>1, <1>2, <2>1, Zenon DEF Stream
<1>6. PICK cut : cut = [i \in 0 .. 0 |-> 0]
  OBVIOUS
<1>7. Laid(cut, isConn, e, ms, lost) /\ cut[0] = 0
  BY <1>2, <1>3, <1>6 DEF Laid
<1>8. LaidInv(cut)
  BY <1>2, <1>3, <1>5, <1>7 DEF LaidInv
<1>9. Counted(cut)
  BY <1>1, <1>3, <1>4 DEF Counted, Begun
<1>10. Aligned(cut)
  BY <1>1, <1>4, <1>7 DEF Aligned
<1>11. Told
  BY <1>4 DEF Told
<1>12. QED
  BY <1>8, <1>9, <1>10, <1>11, Zenon DEF DecodeInv

(* The types of the codec hold in every reachable state, for every set of  *)
(* messages and every size of headers, errors, bodies and buffers.         *)
THEOREM CodecTypes == CodecSpec => []CodecTypeOK
<1>1. CodecInv => CodecTypeOK
  BY DEF CodecInv, EncoderTypes, DecoderTypes, CodecTypeOK
<1>2. QED
  BY <1>1, CodecInvInit, CodecInvNext, PTL DEF CodecSpec

(* A header never leaves bytes behind in headerBuffer, whatever pieces it  *)
(* arrives in and wherever in the buffer it comes to lie.                  *)
THEOREM HeadersAreDrained == CodecSpec => []HeaderBufferDrained
<1>1. CodecInv => HeaderBufferDrained
  BY DEF CodecInv, HeaderInv, HeaderBufferDrained
<1>2. QED
  BY <1>1, CodecInvInit, CodecInvNext, PTL DEF CodecSpec

(* Decode returns the messages that were encoded, in their order, each     *)
(* with its own headers, error and body, however the stream is cut,        *)
(* flushed, batched and spliced, and takes nothing else for a start line,  *)
(* as long as no start line was lost and every announced body was sent.    *)
THEOREM MessagesAreDecoded == CodecSpec => []DecodedAsEncoded
<1>1. DecodeInv => DecodedAsEncoded
  <2>1. SUFFICES ASSUME DecodeInv PROVE DecodedAsEncoded
    OBVIOUS
  <2>2. PICK cut : Counted(cut) /\ Aligned(cut)
    BY <2>1 DEF DecodeInv
  <2>3. Len(received) <= Len(sent)
    BY <2>2 DEF Counted, Begun
  <2>4. QED
    BY <2>1, <2>2, <2>3, Zenon DEF DecodeInv, Told, Aligned, DecodedAsEncoded
<1>2. CodecInv /\ DecodeInv /\ [CodecNext]_codecVars => (CodecInv /\ DecodeInv)'
  BY CodecInvNext, DecodeInvNext
<1>3. QED
  BY <1>1, <1>2, CodecInvInit, DecodeInvInit, PTL DEF CodecSpec

=============================================================================
