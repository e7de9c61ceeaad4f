SPECIFICATION CodecFairSpec
CHECK_DEADLOCK FALSE
CONSTANTS
  Messages = {1, 2, 3, 4, 5}
  HeaderSize <- MCHeaderSize
  ErrorSize <- MCErrorSize
  BodySize <- MCBodySize
  Offset <- MCOffset
  NilReader = {5}
  BufferSize = 5
  MaxSent = 4
INVARIANTS
  CodecTypeOK
  DecodedAsEncoded
  HeaderBufferDrained
PROPERTIES
  DecoderEnds
