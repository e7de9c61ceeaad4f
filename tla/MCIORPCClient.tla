--------------------------- MODULE MCIORPCClient ---------------------------
(* Instances of IORPCClient for TLC: which calls are made, and how.        *)
EXTENDS IORPCClient, TLC

CONSTANTS k1, k2, k3

OneOfEach    == k1 :> "call" @@ k2 :> "async" @@ k3 :> "send"
CallAndAsync == k1 :> "call" @@ k2 :> "async"
=============================================================================
