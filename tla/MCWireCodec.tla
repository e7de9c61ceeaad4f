---------------------------- MODULE MCWireCodec ----------------------------
(* Message 1 has headers only, 2 headers and a body at an offset, 3 an     *)
(* error, 4 an error and headers, 5 a body that is announced and not sent. *)
EXTENDS WireCodec

MCHeaderSize == <<3, 2, 0, 2, 0>>
MCErrorSize  == <<0, 0, 1, 1, 0>>
MCBodySize   == <<0, 2, 0, 0, 1>>
MCOffset     == <<0, 1, 0, 0, 0>>
=============================================================================
