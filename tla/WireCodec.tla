----------------------------- MODULE WireCodec -----------------------------
(***************************************************************************)
(* One direction of an iorpc connection below client and server: the       *)
(* messageEncoder of the writer goroutine, the stream of bytes, and the    *)
(* messageDecoder of the reader goroutine, whose headerBuffer is the       *)
(* ringBuffer of module RingBuffer.                                        *)
(*                                                                         *)
(* A start line is one cell of the stream, each byte of a header, an error *)
(* or a body is one.  Only the writer uses the encoder and nothing can be  *)
(* seen of it but the stream, so Encode is one step; the decoder takes     *)
(* what arrives piece by piece.                                            *)
(***************************************************************************)
EXTENDS Naturals, Sequences, SequencesExt

CONSTANTS
  Messages,                         \* what is sent; a request has no error
  HeaderSize, ErrorSize, BodySize,  \* of each message; Offset: Body.Offset
  Offset,
  NilReader,     \* the messages with a Body.Size and no Body.Reader
  BufferSize,    \* headerBufferSize
  MaxSent        \* bound: how many messages are encoded

ASSUME CodecAssumption ==
  /\ NilReader \subseteq Messages
  /\ \A f \in {HeaderSize, ErrorSize, BodySize, Offset} : f \in [Messages -> Nat]
  /\ BufferSize \in Nat \ {0} /\ MaxSent \in Nat

VARIABLES
  isConn,          \* no compression: both ends can splice bodies
  headerBuffer,    \* of the encoder
  bufferCap,       \* its capacity
  sent, lost,      \* the messages encoded; those whose start line was lost
  wire, link,      \* what is under way; "up", "eof" or "reset"
  reader,          \* where the decoder is
  line,            \* the message whose start line it has read
  got,             \* what it has read of that message
  received,        \* the messages it returned
  start, size, buf, io, panicked   \* its ringBuffer

ring       == <<start, size, buf, io, panicked>>
encoding   == <<headerBuffer, bufferCap, sent, lost>>
decoding   == <<reader, line, got, received>>
codecVars  == <<isConn, encoding, wire, link, decoding, ring>>

(* The message a zeroed start line announces: ID 0 and nothing else. *)
NoMessage == 0
ASSUME NoMessageAssumption == NoMessage \notin Messages

Zero  == <<"zero", NoMessage, 0>>
Cells == {"zero", "line", "header", "error", "body"} \X (Messages \cup {NoMessage}) \X Nat

Ring == INSTANCE RingBuffer
          WITH Bytes <- Cells, InitialCapacity <- BufferSize,
               MaxCapacity <- 4 * BufferSize, MaxChunk <- BufferSize

Parts == [error : Seq(Cells), header : Seq(Cells), body : Seq(Cells)]
Empty == [error |-> <<>>, header |-> <<>>, body |-> <<>>]

CodecInit ==
  /\ Ring!Init /\ isConn \in BOOLEAN
  /\ headerBuffer = <<>> /\ bufferCap = BufferSize /\ sent = <<>> /\ lost = {}
  /\ wire = <<>> /\ link = "up"
  /\ reader = "line" /\ line = NoMessage /\ got = Empty /\ received = <<>>

-----------------------------------------------------------------------------
(* messageEncoder. *)

HasBody(m) == BodySize[m] > 0 /\ m \notin NilReader

Run(kind, m, from, n) == [i \in 1 .. n |-> <<kind, m, from + i>>]

(* The capacity of a bytes.Buffer that holds n bytes. *)
Grown(cap, n) == IF n <= cap THEN cap ELSE IF n > 2 * cap THEN n ELSE 2 * cap

(* encodeRequestHeaders and encodeResponseHeaders write the start line     *)
(* through a slice of the buffer that was taken before the headers were    *)
(* written: if they made the buffer grow, it goes to the old one and zeros *)
(* remain.                                                                 *)
LosesLine(before, m) ==
  Len(before) + 1 + HeaderSize[m] > Grown(bufferCap, Len(before) + 1)

EncodedHeaders(m, loses) ==
  <<IF loses THEN Zero ELSE <<"line", m, 1>>>>
    \o Run("header", m, 0, HeaderSize[m]) \o Run("error", m, 0, ErrorSize[m])

(* encode: what spliceTo sends, or else CopyN, which reads from where      *)
(* Reader is and knows no Offset.                                          *)
EncodedBody(m) ==
  IF HasBody(m) THEN Run("body", m, IF isConn THEN Offset[m] ELSE 0, BodySize[m]) ELSE <<>>

(* Mutant: the buffer may be full. *)
FullOffByOne(buffer) == Len(buffer) > BufferSize

Full(buffer) == Len(buffer) >= BufferSize

(* Mutant: encode sends the body without the flush. *)
FlushWhenFull(m, buffer) == Full(buffer)

(* EncodeRequest and EncodeResponse flush the headers of m if the buffer   *)
(* is full, encode does so before a body.                                  *)
FlushAfter(m, buffer) == Full(buffer) \/ HasBody(m)

(* EncodeRequest and EncodeResponse, when n bytes of the body are sent:    *)
(* fewer than there are if its Reader ends early or the splice fails, and  *)
(* then the writer gives the connection up.                                *)
Encode(m, n) ==
  LET before == IF HasBody(m) THEN <<>> ELSE headerBuffer
      after  == before \o EncodedHeaders(m, LosesLine(before, m))
  IN
  /\ link = "up" /\ Len(sent) < MaxSent
  /\ sent' = Append(sent, m)
  /\ lost' = IF LosesLine(before, m) THEN lost \cup {Len(sent')} ELSE lost
  /\ bufferCap' = Grown(bufferCap, Len(after))
  /\ headerBuffer' = IF FlushAfter(m, after) THEN <<>> ELSE after
  /\ wire' = wire \o (IF HasBody(m) THEN headerBuffer ELSE <<>>)
                  \o (IF FlushAfter(m, after) THEN after ELSE <<>>)
                  \o SubSeq(EncodedBody(m), 1, n)
  /\ link' = IF n < Len(EncodedBody(m)) THEN "eof" ELSE "up"
  /\ UNCHANGED <<isConn, decoding, ring>>

(* Flush, when the client's timer fires. *)
Flush ==
  /\ link = "up" /\ headerBuffer # <<>>
  /\ wire' = wire \o headerBuffer /\ headerBuffer' = <<>>
  /\ UNCHANGED <<isConn, bufferCap, sent, lost, link, decoding, ring>>

(* The writer's side closes the connection, or the network breaks it. *)
LinkEnds ==
  /\ link = "up" /\ link' \in {"eof", "reset"}
  /\ UNCHANGED <<isConn, encoding, wire, decoding, ring>>

-----------------------------------------------------------------------------
(* messageDecoder. *)

(* What a start line says of the sizes that follow it. *)
Announced(f, m) == IF m = NoMessage THEN 0 ELSE f[m]

(* The next part of the message that has bytes to read.  DecodeResponse    *)
(* reads the error before the headers.                                     *)
NextPart(m, part) ==
  IF part = "line" /\ Announced(ErrorSize, m) > 0 THEN "error"
  ELSE IF part \in {"line", "error"} /\ Announced(HeaderSize, m) > 0 THEN "header"
  ELSE IF part # "body" /\ Announced(BodySize, m) > 0 THEN "body"
  ELSE "done"

(* Goes on to the part after this one, or returns the message. *)
Proceed(m, part, parts) ==
  IF NextPart(m, part) = "done"
  THEN /\ received' = Append(received, <<m, parts>>)
       /\ reader' = "line" /\ line' = NoMessage /\ got' = Empty
  ELSE /\ reader' = NextPart(m, part) /\ line' = m /\ got' = parts
       /\ UNCHANGED received

(* binary.Read of the start line.  Bytes of something else give sizes and  *)
(* a header type that mean nothing.                                        *)
ReadLine ==
  /\ reader = "line" /\ wire # <<>> /\ wire' = Tail(wire)
  /\ \/ Head(wire)[1] \in {"line", "zero"} /\ Proceed(Head(wire)[2], "line", Empty)
     \/ /\ Head(wire)[1] \notin {"line", "zero"} /\ reader' = "garbage"
        /\ UNCHANGED <<line, got, received>>
  /\ UNCHANGED <<isConn, encoding, link, ring>>

(* io.ReadFull of the error. *)
ReadError ==
  LET n == ErrorSize[line] IN
  /\ reader = "error" /\ Len(wire) >= n
  /\ wire' = SubSeq(wire, n + 1, Len(wire))
  /\ Proceed(line, "error", [got EXCEPT !.error = SubSeq(wire, 1, n)])
  /\ UNCHANGED <<isConn, encoding, link, ring>>

(* Mutant: a byte more than the start line says. *)
HeaderLeftOneMore == HeaderSize[line] + 1 - Len(got.header)

(* What CopyN still has to copy. *)
HeaderLeft == HeaderSize[line] - Len(got.header)

(* io.CopyN into headerBuffer: a Write for each piece that arrives. *)
CopyHeader ==
  /\ reader = "header"
  /\ \E n \in 1 .. Len(wire) :
       /\ n <= HeaderLeft
       /\ Ring!Write(SubSeq(wire, 1, n))
       /\ wire' = SubSeq(wire, n + 1, Len(wire))
       /\ got' = [got EXCEPT !.header = @ \o SubSeq(wire, 1, n)]
  /\ UNCHANGED <<isConn, encoding, link, reader, line, received>>

(* TrySlice, and Decode of the headers, which may refuse bytes that are    *)
(* not what Encode wrote.                                                  *)
SliceHeader ==
  /\ reader = "header" /\ HeaderLeft = 0
  /\ Ring!TrySlice(HeaderSize[line])
  /\ \/ Proceed(line, "header", [got EXCEPT !.header = io'[2]])
     \/ /\ io'[2] # Run("header", line, 0, HeaderSize[line])
        /\ reader' = "failed" /\ UNCHANGED <<line, got, received>>
  /\ UNCHANGED <<isConn, encoding, wire, link>>

(* decodeBody: a splice of the connection into a pipe, or CopyN, of as     *)
(* many bytes as the start line says.                                      *)
ReadBody ==
  LET n == BodySize[line] IN
  /\ reader = "body" /\ Len(wire) >= n
  /\ wire' = SubSeq(wire, n + 1, Len(wire))
  /\ Proceed(line, "body", [got EXCEPT !.body = SubSeq(wire, 1, n)])
  /\ UNCHANGED <<isConn, encoding, link, ring>>

(* Mutant: the end of the stream is no error. *)
DecodeFailsOnReset ==
  /\ reader \in {"line", "error", "header", "body"} /\ ~panicked /\ link = "reset"
  /\ reader' = "failed"
  /\ UNCHANGED <<isConn, encoding, wire, link, line, got, received, ring>>

(* The next read needs more than there is. *)
Short == CASE reader = "line"   -> wire = <<>>
           [] reader = "error"  -> Len(wire) < ErrorSize[line]
           [] reader = "header" -> wire = <<>> /\ HeaderLeft > 0
           [] reader = "body"   -> Len(wire) < BodySize[line]
           [] OTHER             -> FALSE

(* PipeConn does not take a read of 0 bytes for the end of the connection: *)
(* it asks again, forever.                                                 *)
PipeConnSpins == reader = "body" /\ isConn /\ link = "eof" /\ Short

(* The stream ends where Decode needs more; a broken connection may end it *)
(* before what is under way was read.                                      *)
DecodeFails ==
  /\ reader \in {"line", "error", "header", "body"} /\ ~panicked
  /\ link = "reset" \/ (link = "eof" /\ Short /\ ~PipeConnSpins)
  /\ reader' = "failed"
  /\ UNCHANGED <<isConn, encoding, wire, link, line, got, received, ring>>

Decode == ReadLine \/ ReadError \/ CopyHeader \/ SliceHeader \/ ReadBody \/ DecodeFails

CodecNext ==
  \/ \E m \in Messages : \E n \in 0 .. Len(EncodedBody(m)) : Encode(m, n)
  \/ Flush \/ LinkEnds
  \/ Decode

CodecSpec     == CodecInit /\ [][CodecNext]_codecVars
CodecFairSpec == CodecSpec /\ WF_codecVars(Decode)

-----------------------------------------------------------------------------

CodecTypeOK ==
  /\ panicked \/ Ring!TypeOK
  /\ isConn \in BOOLEAN /\ link \in {"up", "eof", "reset"}
  /\ headerBuffer \in Seq(Cells) /\ Len(headerBuffer) < BufferSize
  /\ bufferCap \in Nat /\ Len(headerBuffer) <= bufferCap
  /\ sent \in Seq(Messages) /\ lost \subseteq 1 .. Len(sent)
  /\ wire \in Seq(Cells)
  /\ reader \in {"line", "error", "header", "body", "garbage", "failed"}
  /\ line \in Messages \cup {NoMessage} /\ got \in Parts
  /\ received \in Seq((Messages \cup {NoMessage}) \X Parts)

(* The stream is in step up to message i: no start line was lost and no    *)
(* body was announced that was not sent.                                   *)
InStep(i) == \A k \in 1 .. i : k \notin lost /\ sent[k] \notin NilReader

(* What Decode returns for the message m: its own bytes, all of them.  An  *)
(* error and headers together are cut at the wrong place (the encoder      *)
(* writes them in the other order), and an Offset needs a splice.          *)
Faithful(m, parts) ==
  LET bytes == Run("header", m, 0, HeaderSize[m]) \o Run("error", m, 0, ErrorSize[m]) IN
  /\ parts.error \o parts.header = bytes
  /\ Len(parts.error) = ErrorSize[m]
  /\ parts.body = Run("body", m, IF isConn THEN Offset[m] ELSE 0, BodySize[m])

(* However the stream is cut into pieces, flushed, batched and spliced,    *)
(* the decoder returns the messages that were encoded, in their order,     *)
(* each with its own headers, error and body, and never takes other bytes  *)
(* for a start line, as long as the stream is in step.                     *)
DecodedAsEncoded ==
  /\ Len(received) <= Len(sent)
  /\ \A i \in 1 .. Len(received) :
       InStep(i) => received[i][1] = sent[i] /\ Faithful(sent[i], received[i][2])
  /\ reader = "garbage" => ~InStep(Len(received))

(* A header never leaves bytes behind in headerBuffer: the next one would  *)
(* be decoded from them.                                                   *)
HeaderBufferDrained == reader \in {"line", "error", "body"} => size = 0

(* When the connection ends the decoder returns, so that the goroutine     *)
(* that reads can end: with an error or (not stated here) a panic, except  *)
(* that PipeConn spins in the middle of a body.                            *)
DecoderEnds ==
  (link # "up") ~> (reader \in {"failed", "garbage"} \/ panicked \/ PipeConnSpins)
=============================================================================
