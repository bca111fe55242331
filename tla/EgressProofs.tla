---------------------------- MODULE EgressProofs ----------------------------
(***************************************************************************)
(* What the allowlist and the forward path promise together: no request    *)
(* leaves for a destination that no ServiceEntry covers.                   *)
(***************************************************************************)
EXTENDS ForwardProofs, AllowListProofs

(***************************************************************************)
(* l is the listing that rebuild() worked from when handleHTTPForward()    *)
(* asked AllowHost(); a name in brackets is no host name of a ServiceEntry.*)
(***************************************************************************)
AdmittedBy(l) ==
  \A t \in ACL :
    ~t.brackets /\ AllowHost(BuildHosts(l), BuildWildcards(l), t.host, t.port)

\* Where the upstream is asked to go, a ServiceEntry of l lets it go.
Covered(l) ==
  tries > 0 /\ Destination(req).port <= MaxPort =>
    \E i \in DOMAIN l :
      Covers(l[i], Destination(req).host, Destination(req).port)

(***************************************************************************)
(* From splitHostPort() over AllowHost() to the URI that goes upstream: a  *)
(* request that was sent, retries included, is for a host and a port that  *)
(* one and the same ServiceEntry covers, if the port exists.               *)
(***************************************************************************)
THEOREM EgressCovered ==
  ASSUME NEW k \in Nat, NEW l, DOMAIN l = 1..k, AdmittedBy(l)
  PROVE  Spec => []Covered(l)
<1>1. CheckedIsSent => Covered(l)
  <2> SUFFICES ASSUME CheckedIsSent, tries > 0,
                      Destination(req).port <= MaxPort
               PROVE  \E i \in DOMAIN l :
                        Covers(l[i], Destination(req).host, Destination(req).port)
    BY DEF Covered
  <2>1. /\ Target(req) \in ACL
        /\ Target(req).host = Destination(req).host
        /\ Target(req).port = Destination(req).port
    BY DEF CheckedIsSent
  <2>2. AllowHost(BuildHosts(l), BuildWildcards(l),
                  Destination(req).host, Destination(req).port)
    BY <2>1 DEF AdmittedBy
  <2> QED
    BY <2>2, AllowHostSound
<1> QED
  BY <1>1, NothingUnchecked, PTL
=============================================================================
