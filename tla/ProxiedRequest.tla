--------------------------- MODULE ProxiedRequest ---------------------------
(***************************************************************************)
(* What the two handlers of internal/proxy promise about one request, a    *)
(* CONNECT or a plain one: it is refused, served or fails, once, and the   *)
(* gauge, the counter and the audit log tell the same story about it as    *)
(* the payload that the upstream proxy and the client got.                 *)
(***************************************************************************)
EXTENDS Naturals

CONSTANT Errors \* the decisions under which failed requests are counted

VARIABLES
  active,  \* the request's share of activeConnections
  up,      \* chunks of payload that the upstream got
  passed,  \* chunks of payload that the handler passed on for the client
  down,    \* chunks of payload that the client got
  outcome  \* <<>>, then what was counted and logged when the handler returned

vars == <<active, up, passed, down, outcome>>

Running == outcome = <<>>
Served == outcome # <<>> /\ outcome[1].counted = "allow"

Init == active = 0 /\ up = 0 /\ passed = 0 /\ down = 0 /\ outcome = <<>>

\* The handler returns; deferred calls lower the gauge.
Return(decision, event, bytes) ==
  /\ Running
  /\ active' = 0
  /\ outcome' = <<[counted |-> decision, logged |-> event, bytes |-> bytes]>>

\* The request is allowed and turns to the upstream.
Admit ==
  /\ Running
  /\ active = 0
  /\ active' = 1
  /\ UNCHANGED <<up, passed, down, outcome>>

(***************************************************************************)
(* Payload goes upstream only for an admitted request.  Some of it may     *)
(* still go after an answer that came early: Transport does not wait.      *)
(***************************************************************************)
Push ==
  /\ active = 1 \/ Served
  /\ up' > up
  /\ UNCHANGED <<active, passed, down, outcome>>

\* Payload is passed on only while the request is counted as active, and may
\* reach the client at once,
Relay ==
  /\ Running
  /\ active = 1
  /\ passed' = passed + 1
  /\ down' \in {down, down + 1}
  /\ down' <= passed'
  /\ UNCHANGED <<active, up, outcome>>

\* or later, from a buffer, even when the handler has returned.
Deliver ==
  /\ active = 1 \/ Served
  /\ down < passed
  /\ down' = down + 1
  /\ UNCHANGED <<active, up, passed, outcome>>

\* The allowlist says no: nothing was sent to anyone.
Refuse ==
  /\ active = 0
  /\ Return("deny", "deny", 0)
  /\ UNCHANGED <<up, passed, down>>

\* The audit event has all that was passed on, which bounds what the client
\* ever gets.
Serve ==
  /\ active = 1
  /\ Return("allow", "allow", passed)
  /\ UNCHANGED <<up, passed, down>>

(***************************************************************************)
(* An error return: the client gets nothing, the upstream may have got     *)
(* part of the payload.  The request may be logged or not, but never as    *)
(* one that was refused or served.                                         *)
(***************************************************************************)
Fail ==
  /\ passed = 0
  /\ \E decision, event \in Errors \union {"none"} :
       Return(decision, event, 0)
  /\ up' >= up
  /\ active = 0 => up' = up
  /\ UNCHANGED <<passed, down>>

Next == Admit \/ Push \/ Relay \/ Deliver \/ Refuse \/ Serve \/ Fail

Spec == Init /\ [][Next]_vars
=============================================================================
