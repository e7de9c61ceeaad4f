------------------------------ MODULE RpcCall ------------------------------
(***************************************************************************)
(* What the client of pkg/iorpc promises to those who call it: a call is   *)
(* accepted or refused; an accepted call that wants a response completes   *)
(* at most once, as canceled only if somebody canceled it, and returns     *)
(* what it completed with unless it timed out before.  Queues, connections *)
(* and message IDs do not appear.                                          *)
(***************************************************************************)
CONSTANTS Calls, Kind

VARIABLES
  accepted,   \* the calls callAsync returned nil for
  canceled,   \* the calls that were canceled or timed out
  outcome,    \* what an AsyncResult holds once Done is closed
  ret         \* what the caller was told

vars == <<accepted, canceled, outcome, ret>>

Init ==
  /\ accepted = {} /\ canceled = {}
  /\ outcome = [k \in Calls |-> "none"]
  /\ ret = [k \in Calls |-> "none"]

Fresh(k) == k \notin accepted /\ ret[k] = "none"

Accept(k) ==
  /\ Fresh(k)
  /\ accepted' = accepted \cup {k}
  /\ ret' = IF Kind[k] = "send" THEN [ret EXCEPT ![k] = "sent"] ELSE ret
  /\ UNCHANGED <<canceled, outcome>>

Refuse(k) ==
  /\ Fresh(k)
  /\ ret' = [ret EXCEPT ![k] = "overflow"]
  /\ UNCHANGED <<accepted, canceled, outcome>>

Waiting(k) == k \in accepted /\ ret[k] = "none"

Cancel(k) ==
  /\ Waiting(k) /\ Kind[k] = "async"
  /\ canceled' = canceled \cup {k}
  /\ UNCHANGED <<accepted, outcome, ret>>

Timeout(k) ==
  /\ Waiting(k) /\ Kind[k] = "call"
  /\ canceled' = canceled \cup {k}
  /\ ret' = [ret EXCEPT ![k] = "timeout"]
  /\ UNCHANGED <<accepted, outcome>>

Complete(k, e) ==
  /\ k \in accepted /\ Kind[k] # "send" /\ outcome[k] = "none"
  /\ e = "canceled" => k \in canceled
  /\ outcome' = [outcome EXCEPT ![k] = e]
  /\ UNCHANGED <<accepted, canceled, ret>>

Return(k) ==
  /\ Waiting(k) /\ outcome[k] # "none"
  /\ ret' = [ret EXCEPT ![k] = outcome[k]]
  /\ UNCHANGED <<accepted, canceled, outcome>>

Completions == {"ok", "server", "connection", "overflow", "canceled", "empty"}

Next == \E k \in Calls :
  \/ Accept(k) \/ Refuse(k) \/ Cancel(k) \/ Timeout(k) \/ Return(k)
  \/ \E e \in Completions : Complete(k, e)

Spec == Init /\ [][Next]_vars
=============================================================================
