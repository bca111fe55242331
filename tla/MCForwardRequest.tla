-------------------------- MODULE MCForwardRequest --------------------------
(***************************************************************************)
(* Requests for TLC, and what the repository says of forwarded requests    *)
(* and the code does not do.                                               *)
(***************************************************************************)
EXTENDS ForwardRequest

authority(f, p) ==
  [host |-> "example", brackets |-> FALSE, form |-> f, port |-> p]

request(s, a, b, i) ==
  [absolute |-> TRUE, scheme |-> s, authority |-> a, body |-> b,
   idempotent |-> i, peer |-> <<>>, xfcc |-> "spiffe",
   headers |-> {"Connection", "Proxy-Authorization", "X-App"}]

\* Ports absent, empty, not admitted, the largest, and too large to parse.
Parsed ==
  {request(s, a, "none", TRUE) :
     s \in {"http", "https", "ftp"},
     a \in {authority("none", 0), authority("empty", 0),
            authority("number", 8080), authority("number", MaxPort),
            authority("number", ParseLimit)}}

\* One port, and what Transport treats differently: the kinds of body of a
\* request that may be repeated, and one that may not.
Bodies ==
  {request("http", authority("none", 0), b, TRUE) : b \in {"known", "chunked"}}
    \union {request("http", authority("none", 0), "none", FALSE)}

NotAbsolute == [request("http", authority("none", 0), "none", TRUE)
                  EXCEPT !.absolute = FALSE]

\* An IPv6 literal, with the identity in a certificate.
Bracketed == [request("http", authority("none", 0), "none", FALSE)
                EXCEPT !.authority.brackets = TRUE,
                       !.peer = <<"https", "spiffe">>]

MCRequests == Parsed \union Bodies \union {NotAbsolute, Bracketed}

MCRequestsBody == {r \in Bodies : r.body = "chunked"}

MCACL == [host : {"example"}, brackets : {FALSE}, port : {80, 443, MaxPort}]

(***************************************************************************)
(* handler_test.go: "a chunked request body still survives the hop to the  *)
(* upstream via the http.Transport-based path".                            *)
(***************************************************************************)
ChunkedBodyIntact == upEnd = "clean" => upGot = [i \in 1..arrived |-> i]
=============================================================================
