--------------------------- MODULE RequestParsing ---------------------------
(***************************************************************************)
(* internal/proxy: the pure functions that handleHTTPForward() applies to  *)
(* a request.  A name or a header is a value, not a string; an authority   *)
(* keeps what net.SplitHostPort and strconv.ParseUint tell apart: whether  *)
(* there is a port, whether it is a number, and how large.                 *)
(***************************************************************************)
EXTENDS Naturals, Sequences

CONSTANTS
  ParseLimit,   \* 2^32: what ParseUint(portStr, 10, 32) can hold
  UpstreamAuth, \* Handler.UpstreamAuth is set
  ExtraHeaders, \* names of Handler.ExtraHeaders
  TrustXFCC     \* Handler.TrustXFCCHeader

\* The largest port of TCP.
MaxPort == 65535

ASSUME ParsingAssumption ==
  /\ ParseLimit \in Nat /\ ParseLimit > MaxPort
  /\ UpstreamAuth \in BOOLEAN
  /\ TrustXFCC \in BOOLEAN

defaultPortForScheme(scheme) == IF scheme = "https" THEN 443 ELSE 80

\* Mutant: ports are parsed with 16 bits and a sign.
splitHostPort_Int16(a, defaultPort) ==
  IF a.form = "none"
  THEN [host |-> a.host, brackets |-> a.brackets, port |-> defaultPort]
  ELSE [host |-> a.host, brackets |-> FALSE,
        port |-> IF a.form = "number" /\ a.port < 32768
                 THEN a.port ELSE defaultPort]

(***************************************************************************)
(* form is "none" for an authority without a port, "empty" for one that    *)
(* ends in a colon, "number" for digits.  Brackets of an IPv6 literal are  *)
(* only taken off by net.SplitHostPort, that is where there is a port.     *)
(***************************************************************************)
splitHostPort(a, defaultPort) ==
  IF a.form = "none"
  THEN [host |-> a.host, brackets |-> a.brackets, port |-> defaultPort]
  ELSE [host |-> a.host, brackets |-> FALSE,
        port |-> IF a.form = "number" /\ a.port < ParseLimit
                 THEN a.port ELSE defaultPort]

\* What the allowlist is asked about a forward request.
Target(r) == splitHostPort(r.authority, defaultPortForScheme(r.scheme))

HopByHop ==
  {"Connection", "Keep-Alive", "Proxy-Authenticate", "Proxy-Authorization",
   "Te", "Trailers", "Transfer-Encoding", "Upgrade"}

\* Mutant: the length of the response is taken for hop-by-hop.
isHopByHop_Length(name) == name \in HopByHop \union {"Content-Length"}

isHopByHop(name) == name \in HopByHop

(***************************************************************************)
(* The headers of the outgoing request and who set each: hop-by-hop ones   *)
(* and the client's Proxy-Authorization go, this proxy's own are set.      *)
(***************************************************************************)
upstreamHeaders(names) ==
  LET kept == {k \in names : ~isHopByHop(k) /\ k # "Proxy-Authorization"}
      own == ExtraHeaders \union
               (IF UpstreamAuth THEN {"Proxy-Authorization"} ELSE {})
  IN  [k \in kept \union own |-> IF k \in own THEN "proxy" ELSE "client"]

\* What the client gets of the headers of the upstream's response.
clientHeaders(names) == {k \in names : ~isHopByHop(k)}

(***************************************************************************)
(* The header is absent, or it has no URI="..." claim, or that claim is of *)
(* another scheme ("other"), or it is a SPIFFE URI ("spiffe").             *)
(***************************************************************************)
extractSPIFFEFromXFCC(v) == IF v = "spiffe" THEN "claimed" ELSE ""

(***************************************************************************)
(* The identity in the audit log: peer is the row of URI schemes in the    *)
(* verified certificate, empty without one.                                *)
(***************************************************************************)
spiffeFromRequest(r) ==
  IF \E i \in 1..Len(r.peer) : r.peer[i] = "spiffe" THEN "verified"
  ELSE IF ~TrustXFCC THEN ""
  ELSE extractSPIFFEFromXFCC(r.xfcc)
=============================================================================
