-------------------------- MODULE MCConnectTunnel --------------------------
(***************************************************************************)
(* What the repository says of a CONNECT tunnel and the code does not do.  *)
(***************************************************************************)
EXTENDS ConnectTunnel

(***************************************************************************)
(* handler.go: "tunnels TCP bidirectionally after a 200 Connection         *)
(* Established response".                                                  *)
(***************************************************************************)
EarlyBytesDelivered ==
  \A i \in 1..Len(got["in"]) : got["in"][i] = i

(***************************************************************************)
(* README.md: "Every allowed and denied request is logged with pod         *)
(* identity"; audit.go: "each outgoing connection".  A connection that     *)
(* cannot be hijacked is left aside.                                       *)
(***************************************************************************)
EveryRequestLogged ==
  pc = "returned" /\ reply \notin {"none", "500"} => logged # "none"
=============================================================================
