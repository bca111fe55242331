---------------------------- MODULE UpstreamPool ----------------------------
(***************************************************************************)
(* internal/proxy: the connections to the upstream that the requests of    *)
(* handleHTTPForward() share.  The code dials (dialForTransport and        *)
(* dialUpstream) and configures the http.Transport; the Transport, which   *)
(* is external, pools: a request that finds no idle connection dials and   *)
(* at the same time waits for one that another request gives back, and a   *)
(* dial goes on when nobody waits for it any more.                         *)
(*                                                                         *)
(* Which idle connection is taken is left open.  The certificate in use is *)
(* a generation: it counts the reloads of the certificate manager.         *)
(***************************************************************************)
EXTENDS Naturals, FiniteSets

CONSTANTS
  Reqs,         \* requests that the allowlist admits
  WithBody,     \* those that have a body
  Idempotent,   \* those with a method that may be repeated
  Conns,        \* bound: sockets open at a time
  NoReq, NoConn,
  MaxIdleConns, \* maxIdleUpstreamConnsPerHost
  IdleTimeout,  \* Handler.IdleTimeout, in ticks; 0: disabled
  DialTimeout,  \* Handler.DialTimeout, in ticks
  MaxRotations, \* bound: certificate rotations
  MaxCloses     \* bound: connections that the upstream closes

ASSUME PoolAssumption ==
  /\ WithBody \subseteq Reqs /\ Idempotent \subseteq Reqs
  /\ IsFiniteSet(Conns)
  /\ NoReq \notin Reqs
  /\ NoConn \notin Conns
  /\ {MaxIdleConns, IdleTimeout, MaxRotations, MaxCloses} \subseteq Nat
  /\ DialTimeout \in Nat \ {0}

VARIABLES
  tlsEnabled, \* Handler.TLSEnabled
  transport,  \* Handler.transport: 0 for nil, else cert when it was built
  cert,       \* generation of the configuration the manager holds, from 1
  open,       \* sockets that are open
  stage,      \* of a socket: "tcp" and "tls" are dialUpstream()'s
  gen,        \* the generation a connection was made with
  asker,      \* the request that a dial was started for and still waits
  dead,       \* connections that failed
  closes,     \* how many the upstream closed
  age,        \* ticks left of a connection's deadline
  idle,       \* idle connections in the pool
  req,        \* where a request is in RoundTrip
  seen,       \* history: the certificate's generation when it started
  using,      \* its connection
  reused,     \* whether that came out of the pool
  sent        \* history: requests that were written to some connection

reqVars == <<req, seen, using, reused, sent>>
sockVars == <<open, stage, gen, dead, closes, age>>
vars == <<tlsEnabled, transport, cert, sockVars, asker, idle, reqVars>>

Done == {"ok", "failed", "gone"}

InUse == {using[r] : r \in Reqs} \ {NoConn}
Dialing == {c \in open : stage[c] \in {"tcp", "tls"}}

\* Mutant: the configuration is taken when the Transport is built.
TLSConfig_Captured == transport

\* CertManager.TLSConfig(), read once the TCP connection is there.
TLSConfig == cert

\* buildUpstreamRequest() leaves http.NoBody alone, so Transport sees it.
HasBody(r) == r \in WithBody

\* Mutant: any method may be repeated, as with an Idempotency-Key.
ShouldRetry_AnyMethod(r) == reused[r] /\ ~HasBody(r)

(***************************************************************************)
(* Another connection is tried if this one was pooled and there is no body *)
(* to lose, and if the request was written, only if its method allows it.  *)
(***************************************************************************)
ShouldRetry(r) ==
  /\ reused[r]
  /\ ~HasBody(r)
  /\ req[r] = "have" \/ r \in Idempotent

-----------------------------------------------------------------------------
(***************************************************************************)
(* The pool (external).                                                    *)
(***************************************************************************)
\* Mutant: MaxIdleConnsPerHost is not honoured.
Room_Unlimited == TRUE

Room == Cardinality(idle) < MaxIdleConns

Timed(c) == stage[c] # "ready" \/ IdleTimeout > 0

\* What remains when request w is served: its dial belongs to nobody.
Disown(w) == asker' = [c \in Conns |-> IF asker[c] = w THEN NoReq ELSE asker[c]]

\* Connection c goes to request w, which waits for one.
Deliver(c, w, rq, us) ==
  /\ rq[w] = "wait"
  /\ req' = [rq EXCEPT ![w] = "have"]
  /\ using' = [us EXCEPT ![w] = c]
  /\ reused' = [reused EXCEPT ![w] = TRUE]
  /\ Disown(w)
  /\ UNCHANGED <<idle, open>>

\* Nobody waits: connection c is kept if there is room, or closed.
Keep(c, rq, us) ==
  /\ \A w \in Reqs : rq[w] # "wait"
  /\ req' = rq
  /\ using' = us
  /\ IF Room
     THEN idle' = idle \union {c} /\ UNCHANGED open
     ELSE open' = open \ {c} /\ UNCHANGED idle
  /\ UNCHANGED <<asker, reused>>

\* Connection c becomes free when the requests are as in rq and us.
PutIdle(c, rq, us) ==
  /\ age' = [age EXCEPT ![c] = IdleTimeout]
  /\ (\E w \in Reqs : Deliver(c, w, rq, us)) \/ Keep(c, rq, us)

\* A request is over, or goes on, without its connection.
Drop(r, to) ==
  /\ req' = [req EXCEPT ![r] = to]
  /\ using' = [using EXCEPT ![r] = NoConn]
  /\ open' = open \ {using[r]}

-----------------------------------------------------------------------------
(***************************************************************************)
(* A request: upstreamTransport().RoundTrip(outReq).                       *)
(***************************************************************************)
upstreamTransport ==
  transport' = IF transport = 0 THEN cert ELSE transport

Start(r) ==
  /\ req[r] = "new"
  /\ upstreamTransport
  /\ req' = [req EXCEPT ![r] = "want"]
  /\ seen' = [seen EXCEPT ![r] = cert]
  /\ UNCHANGED <<tlsEnabled, cert, sockVars, asker, idle, using, reused,
                 sent>>

\* An idle connection is taken, even if its deadline is just passing.
Take(r, c) ==
  /\ req[r] = "want"
  /\ c \in idle
  /\ idle' = idle \ {c}
  /\ req' = [req EXCEPT ![r] = "have"]
  /\ using' = [using EXCEPT ![r] = c]
  /\ reused' = [reused EXCEPT ![r] = TRUE]
  /\ UNCHANGED <<tlsEnabled, transport, cert, sockVars, asker, seen, sent>>

\* dialForTransport() is called in a goroutine of its own.
StartDial(r, c) ==
  /\ req[r] = "want"
  /\ idle = {}
  /\ c \notin open
  /\ open' = open \union {c}
  /\ stage' = [stage EXCEPT ![c] = "tcp"]
  /\ asker' = [asker EXCEPT ![c] = r]
  /\ dead' = dead \ {c}
  /\ age' = [age EXCEPT ![c] = DialTimeout]
  /\ req' = [req EXCEPT ![r] = "wait"]
  /\ UNCHANGED <<tlsEnabled, transport, cert, gen, closes, idle, seen, using,
                 reused, sent>>

\* The request is written, which starts the connection's deadline anew, and
\* which a connection that the upstream has closed may well take.
Send(r) ==
  /\ req[r] = "have"
  /\ sent' = sent \union {r}
  /\ req' = [req EXCEPT ![r] = "sent"]
  /\ age' = [age EXCEPT ![using[r]] = IdleTimeout]
  /\ UNCHANGED <<tlsEnabled, transport, cert, open, stage, gen, dead, closes,
                 asker, idle, seen, using, reused>>

\* The response was read to its end, and the connection may be kept or not.
Complete(r) ==
  /\ req[r] = "sent"
  /\ using[r] \notin dead
  /\ \/ PutIdle(using[r], [req EXCEPT ![r] = "ok"],
                [using EXCEPT ![r] = NoConn])
     \/ Drop(r, "ok") /\ UNCHANGED <<age, asker, idle, reused>>
  /\ UNCHANGED <<tlsEnabled, transport, cert, stage, gen, dead, closes, seen,
                 sent>>

\* The connection fails, before or after the request was written.
Fails(r) ==
  /\ req[r] \in {"have", "sent"}
  /\ using[r] \in dead
  /\ Drop(r, IF ShouldRetry(r) THEN "want" ELSE "failed")
  /\ UNCHANGED <<tlsEnabled, transport, cert, stage, gen, dead, closes, age,
                 asker, idle, seen, reused, sent>>

\* The client leaves; the dial that was started for it goes on.
Leaves(r) ==
  /\ req[r] \in {"want", "wait", "have", "sent"}
  /\ Drop(r, "gone")
  /\ Disown(r)
  /\ UNCHANGED <<tlsEnabled, transport, cert, stage, gen, dead, closes, age,
                 idle, seen, reused, sent>>

-----------------------------------------------------------------------------
(***************************************************************************)
(* A dial: dialForTransport() and dialUpstream().                          *)
(***************************************************************************)
\* A dial has succeeded: its request gets the connection, or else the pool.
Dialed(c) ==
  /\ stage' = [stage EXCEPT ![c] = "ready"]
  /\ \/ asker[c] = NoReq /\ PutIdle(c, req, using)
     \/ /\ asker[c] # NoReq
        /\ req' = [req EXCEPT ![asker[c]] = "have"]
        /\ using' = [using EXCEPT ![asker[c]] = c]
        /\ reused' = [reused EXCEPT ![asker[c]] = FALSE]
        /\ asker' = [asker EXCEPT ![c] = NoReq]
        /\ age' = [age EXCEPT ![c] = IdleTimeout]
        /\ UNCHANGED <<idle, open>>

\* A dial has failed: its request fails, if it still waits for it.
DialError(c) ==
  /\ asker' = [asker EXCEPT ![c] = NoReq]
  /\ IF asker[c] = NoReq
     THEN UNCHANGED <<req, reused>>
     ELSE /\ req' = [req EXCEPT ![asker[c]] = "failed"]
          /\ reused' = [reused EXCEPT ![asker[c]] = FALSE]

\* d.Dial() fails or runs into its timeout.
DialFails(c) ==
  /\ c \in open
  /\ stage[c] = "tcp"
  /\ open' = open \ {c}
  /\ DialError(c)
  /\ UNCHANGED <<tlsEnabled, transport, cert, stage, gen, dead, closes, age,
                 idle, seen, using, sent>>

\* d.Dial() returns; without TLS this is the connection.
DialTCP(c) ==
  /\ c \in open
  /\ stage[c] = "tcp"
  /\ IF tlsEnabled
     THEN /\ stage' = [stage EXCEPT ![c] = "tls"]
          /\ gen' = [gen EXCEPT ![c] = TLSConfig]
          /\ age' = [age EXCEPT ![c] = DialTimeout]
          /\ UNCHANGED <<open, asker, idle, req, using, reused>>
     ELSE Dialed(c) /\ UNCHANGED gen
  /\ UNCHANGED <<tlsEnabled, transport, cert, dead, closes, seen, sent>>

Handshake(c) ==
  /\ c \in open
  /\ stage[c] = "tls"
  /\ Dialed(c)
  /\ UNCHANGED <<tlsEnabled, transport, cert, gen, dead, closes, seen, sent>>

\* Mutant: an error of the handshake leaves the socket open.
CloseRaw_Forgotten(c) == open' = open

CloseRaw(c) == open' = open \ {c}

\* Mutant: the handshake has no timeout.
HandshakeExpired_Never(c) == FALSE

HandshakeExpired(c) == age[c] = 0

\* The upstream refuses the handshake, or HandshakeContext's time is over.
HandshakeFails(c) ==
  /\ c \in open
  /\ stage[c] = "tls"
  /\ CloseRaw(c)
  /\ stage' = [stage EXCEPT ![c] = "ready"]
  /\ DialError(c)
  /\ UNCHANGED <<tlsEnabled, transport, cert, gen, dead, closes, age, idle,
                 seen, using, sent>>

-----------------------------------------------------------------------------
(***************************************************************************)
(* The deadline of idleTimeoutConn, the pool's own timer, and the          *)
(* environment.                                                            *)
(***************************************************************************)
(***************************************************************************)
(* IdleConnTimeout and the deadline of the read that waits on an idle      *)
(* connection run out together: it is closed, or if a request was just     *)
(* handed it, fails.  In use, the deadline makes the connection fail.      *)
(***************************************************************************)
Expire(c) ==
  /\ c \in open
  /\ stage[c] = "ready"
  /\ c \in dead \/ (IdleTimeout > 0 /\ age[c] = 0)
  /\ IF c \in idle
     THEN idle' = idle \ {c} /\ open' = open \ {c} /\ UNCHANGED dead
     ELSE c \notin dead /\ dead' = dead \union {c} /\ UNCHANGED <<idle, open>>
  /\ UNCHANGED <<tlsEnabled, transport, cert, stage, gen, closes, age, asker,
                 reqVars>>

\* The upstream closes a connection; who uses it next finds out.
UpstreamCloses(c) ==
  /\ c \in open \ dead
  /\ stage[c] = "ready"
  /\ closes < MaxCloses
  /\ closes' = closes + 1
  /\ dead' = dead \union {c}
  /\ UNCHANGED <<tlsEnabled, transport, cert, open, stage, gen, age, asker,
                 idle, reqVars>>

\* certs.Manager stores another configuration.
Rotate ==
  /\ cert <= MaxRotations
  /\ cert' = cert + 1
  /\ UNCHANGED <<tlsEnabled, transport, sockVars, asker, idle, reqVars>>

\* Time passes while everything waits for the upstream or a timer.
Tick ==
  /\ open # {}
  /\ \A r \in Reqs : req[r] \in {"new", "wait", "sent"} \union Done
  /\ \A c \in open : c \notin dead /\ (Timed(c) => age[c] > 0)
  /\ age' = [c \in Conns |-> IF c \in open /\ Timed(c) THEN age[c] - 1
                             ELSE age[c]]
  /\ UNCHANGED <<tlsEnabled, transport, cert, open, stage, gen, dead, closes,
                 asker, idle, reqVars>>

-----------------------------------------------------------------------------
Init ==
  /\ tlsEnabled \in BOOLEAN
  /\ transport = 0
  /\ cert = 1
  /\ open = {}
  /\ stage = [c \in Conns |-> "ready"]
  /\ gen = [c \in Conns |-> 0]
  /\ asker = [c \in Conns |-> NoReq]
  /\ dead = {}
  /\ closes = 0
  /\ age = [c \in Conns |-> 0]
  /\ idle = {}
  /\ req = [r \in Reqs |-> "new"]
  /\ seen = [r \in Reqs |-> 0]
  /\ using = [r \in Reqs |-> NoConn]
  /\ reused = [r \in Reqs |-> FALSE]
  /\ sent = {}

GetConn(r) == \E c \in Conns : Take(r, c) \/ StartDial(r, c)

\* What happens without the upstream's help, at the latest at a timeout.
TimesOut(c) ==
  \/ age[c] = 0 /\ DialFails(c)
  \/ HandshakeExpired(c) /\ HandshakeFails(c)
  \/ Expire(c)

Next ==
  \/ \E r \in Reqs :
       Start(r) \/ GetConn(r) \/ Send(r) \/ Complete(r) \/ Fails(r) \/ Leaves(r)
  \/ \E c \in Conns :
       \/ DialTCP(c) \/ DialFails(c) \/ Handshake(c) \/ HandshakeFails(c)
       \/ Expire(c) \/ UpstreamCloses(c)
  \/ Rotate
  \/ Tick

Spec == Init /\ [][Next]_vars

(***************************************************************************)
(* Goroutines that can run do run, timers fire and time passes; neither    *)
(* the clients nor the upstream need do anything.                          *)
(***************************************************************************)
Fairness ==
  /\ \A r \in Reqs : WF_vars(GetConn(r) \/ Send(r) \/ Fails(r))
  /\ \A c \in Conns : WF_vars(TimesOut(c))
  /\ WF_vars(Tick)

FairSpec == Spec /\ Fairness

-----------------------------------------------------------------------------
TypeOK ==
  /\ tlsEnabled \in BOOLEAN
  /\ cert \in 1..(MaxRotations + 1)
  /\ transport \in 0..cert
  /\ open \subseteq Conns
  /\ stage \in [Conns -> {"tcp", "tls", "ready"}]
  /\ gen \in [Conns -> 0..cert]
  /\ asker \in [Conns -> Reqs \union {NoReq}]
  /\ dead \subseteq Conns
  /\ closes \in 0..MaxCloses
  /\ age \in [Conns -> Nat]
  /\ idle \subseteq Conns /\ Cardinality(idle) <= MaxIdleConns
  /\ req \in [Reqs -> {"new", "want", "wait", "have", "sent"} \union Done]
  /\ seen \in [Reqs -> 0..cert]
  /\ using \in [Reqs -> Conns \union {NoConn}]
  /\ reused \in [Reqs -> BOOLEAN]
  /\ sent \subseteq Reqs

(***************************************************************************)
(* Every open socket is being dialed, idle in the pool or in use by one    *)
(* request, and only one of these, whatever dials outlive their requests   *)
(* or fail half way: no socket leaks, and no two requests share one.       *)
(***************************************************************************)
Owned ==
  /\ open = Dialing \union idle \union InUse
  /\ Dialing \cap (idle \union InUse) = {}
  /\ idle \cap InUse = {}
  /\ \A r, s \in Reqs : using[r] = using[s] /\ using[r] # NoConn => r = s

(***************************************************************************)
(* docs/ARCHITECTURE.md: "a NEW dial picks up the rotated cert".  Whatever *)
(* rotates while a request waits, a connection that was dialed for it is   *)
(* never made with a certificate older than the request.                   *)
(***************************************************************************)
NewDialIsCurrent ==
  \A r \in Reqs :
    tlsEnabled /\ using[r] # NoConn /\ ~reused[r] => gen[using[r]] >= seen[r]

(***************************************************************************)
(* handler.go: "safe reuse of a connection that goes stale while idle".    *)
(* However many stale connections the pool hands out: a request that may   *)
(* be repeated fails only with a connection dialed for it, and one without *)
(* a body at least as long as it was never written; what may not be        *)
(* repeated is, once written, never given another connection.              *)
(***************************************************************************)
StaleHidden ==
  \A r \in Reqs :
    /\ req[r] = "failed" /\ reused[r] =>
         r \in WithBody \/ (r \in sent /\ r \notin Idempotent)
    /\ r \in sent /\ req[r] \in {"want", "wait", "have"} =>
         r \in Idempotent \ WithBody

(***************************************************************************)
(* If dialing takes less time than the idle timeout, as it does by default *)
(* (10 and 90 seconds), no connection outlives the requests for long, not  *)
(* even to an upstream that never answers a handshake or a request, nor    *)
(* one dialed for a client that has left; and every request ends.  With    *)
(* longer dials one that outlives its request could always be in time for  *)
(* the next retry.                                                         *)
(***************************************************************************)
Drains ==
  2 * DialTimeout < IdleTimeout =>
    <>[](open = {} /\ \A r \in Reqs : req[r] \in Done \union {"new"})
=============================================================================
