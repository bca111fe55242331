----------------------------- MODULE PoolProofs -----------------------------
(***************************************************************************)
(* Theorems about UpstreamPool, for any number of requests and sockets and *)
(* any timeouts.                                                           *)
(***************************************************************************)
EXTENDS UpstreamPool, FiniteSetTheorems, TLAPS

-----------------------------------------------------------------------------
(***************************************************************************)
(* The inductive invariant.  Linked: a request has a connection exactly    *)
(* while it uses it, and a dial that has an asker is the only one of a     *)
(* request that waits.  Placed is Owned, socket by socket.  Dated: a dial  *)
(* past its TCP part has a certificate no older than its asker.            *)
(***************************************************************************)
Linked ==
  /\ \A r \in Reqs : req[r] \in {"have", "sent"} <=> using[r] # NoConn
  /\ \A c \in Conns : asker[c] # NoReq =>
       /\ c \in open
       /\ stage[c] \in {"tcp", "tls"}
       /\ req[asker[c]] = "wait"
  /\ \A c, d \in Conns : asker[c] # NoReq /\ asker[c] = asker[d] => c = d

Placed ==
  /\ \A c \in open : \/ stage[c] \in {"tcp", "tls"}
                     \/ c \in idle
                     \/ \E r \in Reqs : using[r] = c
  /\ idle \subseteq open
  /\ \A c \in idle : stage[c] = "ready"
  /\ \A r \in Reqs : using[r] # NoConn =>
       /\ using[r] \in open
       /\ stage[using[r]] = "ready"
       /\ using[r] \notin idle
  /\ \A r, s \in Reqs : using[r] = using[s] /\ using[r] # NoConn => r = s

Dated ==
  /\ \A c \in open : stage[c] = "tls" =>
       tlsEnabled /\ (asker[c] # NoReq => gen[c] >= seen[asker[c]])
  /\ NewDialIsCurrent

USE DEF reqVars, sockVars

(***************************************************************************)
(* The pool.                                                               *)
(***************************************************************************)

\* Taking connections out of the pool, or adding one while there is room,
\* keeps to its limit.
LEMMA IdleBound ==
  ASSUME idle \subseteq Conns, Cardinality(idle) <= MaxIdleConns, NEW c \in Conns
  PROVE  /\ Cardinality(idle \ {c}) <= MaxIdleConns
         /\ Room => Cardinality(idle \union {c}) <= MaxIdleConns
<1>1. IsFiniteSet(idle)
  BY PoolAssumption, FS_Subset
<1>2. Cardinality(idle) \in Nat
  BY <1>1, FS_CardinalityType
<1>3. Cardinality(idle \ {c}) = IF c \in idle THEN Cardinality(idle) - 1 ELSE Cardinality(idle)
  BY <1>1, FS_RemoveElement
<1>4. Cardinality(idle \union {c}) = IF c \in idle THEN Cardinality(idle) ELSE Cardinality(idle) + 1
  BY <1>1, FS_AddElement
<1> QED
  BY <1>2, <1>3, <1>4, PoolAssumption DEF Room

States == {"new", "want", "wait", "have", "sent"} \union Done

\* What PutIdle leaves of the types.
LEMMA PutIdleTyped ==
  ASSUME TypeOK, NEW c \in Conns, NEW rq \in [Reqs -> States],
         NEW us \in [Reqs -> Conns \union {NoConn}], PutIdle(c, rq, us)
  PROVE  /\ age' \in [Conns -> Nat]
         /\ open' \subseteq Conns
         /\ idle' \subseteq Conns /\ Cardinality(idle') <= MaxIdleConns
         /\ req' \in [Reqs -> States]
         /\ using' \in [Reqs -> Conns \union {NoConn}]
         /\ reused' \in [Reqs -> BOOLEAN]
         /\ asker' \in [Conns -> Reqs \union {NoReq}]
<1>1. age' \in [Conns -> Nat]
  BY PoolAssumption DEF PutIdle, TypeOK
<1>2. ASSUME NEW w \in Reqs, Deliver(c, w, rq, us)
      PROVE  /\ open' \subseteq Conns
             /\ idle' \subseteq Conns /\ Cardinality(idle') <= MaxIdleConns
             /\ req' \in [Reqs -> States]
             /\ using' \in [Reqs -> Conns \union {NoConn}]
             /\ reused' \in [Reqs -> BOOLEAN]
             /\ asker' \in [Conns -> Reqs \union {NoReq}]
  BY <1>2 DEF Deliver, Disown, TypeOK, States
<1>3. ASSUME Keep(c, rq, us)
      PROVE  /\ open' \subseteq Conns
             /\ idle' \subseteq Conns /\ Cardinality(idle') <= MaxIdleConns
             /\ req' \in [Reqs -> States]
             /\ using' \in [Reqs -> Conns \union {NoConn}]
             /\ reused' \in [Reqs -> BOOLEAN]
             /\ asker' \in [Conns -> Reqs \union {NoReq}]
  BY <1>3, IdleBound DEF Keep, TypeOK
<1> QED
  BY <1>1, <1>2, <1>3 DEF PutIdle

\* A dial that succeeds and still has an asker gives it the connection.
LEMMA DialedFor ==
  ASSUME TypeOK, NEW c \in Conns, Dialed(c), asker[c] # NoReq
  PROVE  /\ asker[c] \in Reqs
         /\ req' = [req EXCEPT ![asker[c]] = "have"]
         /\ using' = [using EXCEPT ![asker[c]] = c]
         /\ reused' = [reused EXCEPT ![asker[c]] = FALSE]
         /\ asker' = [asker EXCEPT ![c] = NoReq]
         /\ UNCHANGED <<idle, open>>
<1>1. asker[c] \in Reqs
  BY DEF TypeOK
<1> QED
  BY <1>1 DEF Dialed

\* A dial that succeeds keeps the types.
LEMMA DialedTyped ==
  ASSUME TypeOK, NEW c \in Conns, Dialed(c),
         UNCHANGED <<tlsEnabled, transport, cert, dead, closes, seen, sent>>,
         gen' \in [Conns -> 0..cert]
  PROVE  TypeOK'
<1>1. CASE asker[c] = NoReq
  BY <1>1, PutIdleTyped DEF Dialed, TypeOK, States
<1>2. CASE asker[c] # NoReq
  <2>1. req' \in [Reqs -> States]
    BY <1>2, DialedFor DEF TypeOK, States
  <2>2. using' \in [Reqs -> Conns \union {NoConn}]
    BY <1>2, DialedFor DEF TypeOK
  <2>3. reused' \in [Reqs -> BOOLEAN]
    BY <1>2, DialedFor DEF TypeOK
  <2>4. asker' \in [Conns -> Reqs \union {NoReq}]
    BY <1>2, DialedFor DEF TypeOK
  <2>5. /\ age' \in [Conns -> Nat]
        /\ stage' \in [Conns -> {"tcp", "tls", "ready"}]
    BY <1>2, PoolAssumption DEF Dialed, TypeOK
  <2> QED
    BY <1>2, <2>1, <2>2, <2>3, <2>4, <2>5, DialedFor DEF TypeOK, States
<1> QED
  BY <1>1, <1>2

\* Every step keeps the types.
LEMMA PoolTyped == TypeOK /\ Linked /\ [Next]_vars => TypeOK'
<1> SUFFICES ASSUME TypeOK, Linked, [Next]_vars PROVE TypeOK'
  OBVIOUS
<1> USE PoolAssumption
<1>1. ASSUME NEW r \in Reqs, Start(r) PROVE TypeOK'
  BY <1>1 DEF Start, upstreamTransport, TypeOK
<1>2. ASSUME NEW r \in Reqs, NEW c \in Conns, Take(r, c) PROVE TypeOK'
  BY <1>2, IdleBound DEF Take, TypeOK
<1>3. ASSUME NEW r \in Reqs, NEW c \in Conns, StartDial(r, c) PROVE TypeOK'
  BY <1>3 DEF StartDial, TypeOK
<1>4. ASSUME NEW r \in Reqs, Send(r) PROVE TypeOK'
  BY <1>4 DEF Send, TypeOK
<1>5. ASSUME NEW r \in Reqs, Complete(r) PROVE TypeOK'
  <2>1. using[r] \in Conns
    BY <1>5 DEF Complete, Linked, TypeOK
  <2>2. /\ [req EXCEPT ![r] = "ok"] \in [Reqs -> States]
        /\ [using EXCEPT ![r] = NoConn] \in [Reqs -> Conns \union {NoConn}]
    BY DEF TypeOK, States, Done
  <2>3. CASE PutIdle(using[r], [req EXCEPT ![r] = "ok"],
                     [using EXCEPT ![r] = NoConn])
    BY <1>5, <2>1, <2>2, <2>3, PutIdleTyped DEF Complete, TypeOK, States
  <2>4. CASE Drop(r, "ok") /\ UNCHANGED <<age, asker, idle, reused>>
    BY <1>5, <2>4 DEF Complete, Drop, TypeOK, Done
  <2> QED
    BY <1>5, <2>3, <2>4 DEF Complete
<1>6. ASSUME NEW r \in Reqs, Fails(r) PROVE TypeOK'
  BY <1>6 DEF Fails, Drop, TypeOK, Done
<1>7. ASSUME NEW r \in Reqs, Leaves(r) PROVE TypeOK'
  BY <1>7 DEF Leaves, Drop, Disown, TypeOK, Done
<1>8. ASSUME NEW c \in Conns, DialTCP(c) PROVE TypeOK'
  <2>1. CASE tlsEnabled
    BY <1>8, <2>1 DEF DialTCP, TLSConfig, TypeOK
  <2>2. CASE ~tlsEnabled
    BY <1>8, <2>2, DialedTyped DEF DialTCP, TypeOK
  <2> QED
    BY <2>1, <2>2
<1>9. ASSUME NEW c \in Conns, DialFails(c) PROVE TypeOK'
  BY <1>9 DEF DialFails, DialError, TypeOK, Done
<1>10. ASSUME NEW c \in Conns, Handshake(c) PROVE TypeOK'
  BY <1>10, DialedTyped DEF Handshake, TypeOK
<1>11. ASSUME NEW c \in Conns, HandshakeFails(c) PROVE TypeOK'
  BY <1>11 DEF HandshakeFails, CloseRaw, DialError, TypeOK, Done
<1>12. ASSUME NEW c \in Conns, Expire(c) PROVE TypeOK'
  BY <1>12, IdleBound DEF Expire, TypeOK
<1>13. ASSUME NEW c \in Conns, UpstreamCloses(c) PROVE TypeOK'
  BY <1>13 DEF UpstreamCloses, TypeOK
<1>14. CASE Rotate
  BY <1>14 DEF Rotate, TypeOK
<1>15. CASE Tick
  BY <1>15 DEF Tick, Timed, TypeOK
<1>16. CASE UNCHANGED vars
  BY <1>16 DEF vars, TypeOK
<1> QED
  BY <1>1, <1>2, <1>3, <1>4, <1>5, <1>6, <1>7, <1>8, <1>9, <1>10, <1>11, <1>12,
     <1>13, <1>14, <1>15, <1>16
  DEF Next, GetConn

-----------------------------------------------------------------------------
(***************************************************************************)
(* Requests and their dials.                                               *)
(***************************************************************************)

\* What a state with these requests says of them and of the dials.
Matched(rq, us) ==
  /\ \A r \in Reqs : rq[r] \in {"have", "sent"} <=> us[r] # NoConn
  /\ \A d \in Conns : asker[d] # NoReq => rq[asker[d]] = "wait"

OnlyStageOf(c) == \A d \in Conns : d # c => stage'[d] = stage[d]

\* A connection that becomes free breaks no link.
LEMMA LinkedPut ==
  ASSUME TypeOK, Linked, NEW c \in Conns, NEW rq \in [Reqs -> States],
         NEW us \in [Reqs -> Conns \union {NoConn}], PutIdle(c, rq, us),
         asker[c] = NoReq, OnlyStageOf(c), Matched(rq, us)
  PROVE  Linked'
<1> USE DEF OnlyStageOf, Matched
<1>1. ASSUME NEW w \in Reqs, Deliver(c, w, rq, us) PROVE Linked'
  <2>1. \A r \in Reqs : req'[r] \in {"have", "sent"} <=> using'[r] # NoConn
    BY <1>1, PoolAssumption DEF Deliver
  <2>2. \A d \in Conns : asker'[d] # NoReq => asker'[d] = asker[d] /\ asker[d] # w
    BY <1>1 DEF Deliver, Disown
  <2>3. \A d \in Conns : asker'[d] # NoReq =>
          d \in open' /\ stage'[d] \in {"tcp", "tls"} /\ req'[asker'[d]] = "wait"
    BY <1>1, <2>2 DEF Deliver, Linked, TypeOK
  <2> QED
    BY <2>1, <2>2, <2>3 DEF Linked
<1>2. ASSUME Keep(c, rq, us) PROVE Linked'
  <2>1. \A d \in Conns : asker[d] # NoReq => d \in open'
    BY <1>2 DEF Keep, Linked
  <2> QED
    BY <1>2, <2>1 DEF Keep, Linked
<1> QED
  BY <1>1, <1>2 DEF PutIdle

\* A dial that succeeds breaks no link.
LEMMA LinkedDialed ==
  ASSUME TypeOK, Linked, NEW c \in Conns, Dialed(c)
  PROVE  Linked'
<1>1. \A d \in Conns : d # c => stage'[d] = stage[d]
  BY DEF Dialed, TypeOK
<1>2. CASE asker[c] = NoReq
  BY <1>1, <1>2, LinkedPut DEF Dialed, Linked, TypeOK, States, OnlyStageOf, Matched
<1>3. CASE asker[c] # NoReq
  <2>1. \A r \in Reqs : req'[r] \in {"have", "sent"} <=> using'[r] # NoConn
    BY <1>3, DialedFor, PoolAssumption DEF Linked, TypeOK
  <2>2. \A d \in Conns : asker'[d] # NoReq =>
          d # c /\ asker'[d] = asker[d] /\ asker[d] # asker[c]
    BY <1>3, DialedFor DEF Linked, TypeOK
  <2>3. \A d \in Conns : asker'[d] # NoReq =>
          d \in open' /\ stage'[d] \in {"tcp", "tls"} /\ req'[asker'[d]] = "wait"
    BY <1>1, <1>3, <2>2, DialedFor DEF Linked, TypeOK
  <2> QED
    BY <2>1, <2>2, <2>3 DEF Linked
<1> QED
  BY <1>2, <1>3

\* A dial that fails breaks no link.
LEMMA LinkedFailed ==
  ASSUME TypeOK, Linked, NEW c \in Conns, DialError(c), open' = open \ {c},
         \A d \in Conns : d # c => stage'[d] = stage[d], using' = using
  PROVE  Linked'
<1>1. \A r \in Reqs : req'[r] \in {"have", "sent"} <=> using'[r] # NoConn
  BY DEF DialError, Linked, TypeOK
<1>2. \A d \in Conns : asker'[d] # NoReq =>
        d # c /\ asker'[d] = asker[d] /\ asker[d] # asker[c]
  BY DEF DialError, Linked, TypeOK
<1>3. \A d \in Conns : asker'[d] # NoReq =>
        d \in open' /\ stage'[d] \in {"tcp", "tls"} /\ req'[asker'[d]] = "wait"
  BY <1>2 DEF DialError, Linked, TypeOK
<1> QED
  BY <1>1, <1>2, <1>3 DEF Linked

\* A connection that is being dialed for a request is not in use.
LEMMA DialUnused ==
  ASSUME TypeOK, Linked, Placed, NEW r \in Reqs, NEW d \in Conns,
         asker[d] # NoReq
  PROVE  d # using[r]
<1> SUFFICES ASSUME d = using[r] PROVE FALSE
  OBVIOUS
<1>1. using[r] # NoConn
  BY PoolAssumption
<1>2. stage[d] = "ready"
  BY <1>1 DEF Placed
<1> QED
  BY <1>2 DEF Linked

\* Every step keeps requests and dials linked.
LEMMA PoolLinked == TypeOK /\ Linked /\ Placed /\ [Next]_vars => Linked'
<1> SUFFICES ASSUME TypeOK, Linked, Placed, [Next]_vars PROVE Linked'
  OBVIOUS
<1>1. ASSUME NEW r \in Reqs, Start(r) PROVE Linked'
  BY <1>1 DEF Start, TypeOK, Linked
<1>2. ASSUME NEW r \in Reqs, NEW c \in Conns, Take(r, c) PROVE Linked'
  BY <1>2, PoolAssumption DEF Take, TypeOK, Linked
<1>3. ASSUME NEW r \in Reqs, NEW c \in Conns, StartDial(r, c) PROVE Linked'
  <2>1. \A d \in Conns : asker[d] # r
    BY <1>3, PoolAssumption DEF StartDial, Linked
  <2>2. asker[c] = NoReq
    BY <1>3 DEF StartDial, Linked
  <2> QED
    BY <1>3, <2>1, <2>2 DEF StartDial, TypeOK, Linked
<1>4. ASSUME NEW r \in Reqs, Send(r) PROVE Linked'
  BY <1>4 DEF Send, TypeOK, Linked
<1>5. ASSUME NEW r \in Reqs, Drop(r, req'[r]), req[r] # "wait",
             req'[r] \notin {"have", "sent"}, UNCHANGED <<stage, asker>>
      PROVE  Linked'
  <2>1. \A d \in Conns : asker[d] # NoReq => asker[d] # r
    BY <1>5 DEF Linked
  <2>2. \A d \in Conns : asker[d] # NoReq => d \in open'
    BY <1>5, DialUnused DEF Drop, Linked
  <2>3. \A d \in Conns : asker[d] # NoReq => req'[asker[d]] = "wait"
    BY <1>5, <2>1 DEF Drop, TypeOK, Linked
  <2>4. \A s \in Reqs : req'[s] \in {"have", "sent"} <=> using'[s] # NoConn
    BY <1>5 DEF Drop, TypeOK, Linked
  <2> QED
    BY <1>5, <2>2, <2>3, <2>4 DEF Linked
<1>6. ASSUME NEW r \in Reqs, Complete(r) PROVE Linked'
  <2>1. using[r] \in Conns /\ asker[using[r]] = NoReq
    BY <1>6 DEF Complete, Linked, Placed, TypeOK
  <2>2. CASE PutIdle(using[r], [req EXCEPT ![r] = "ok"],
                     [using EXCEPT ![r] = NoConn])
    <3>1. /\ [req EXCEPT ![r] = "ok"] \in [Reqs -> States]
          /\ [using EXCEPT ![r] = NoConn] \in [Reqs -> Conns \union {NoConn}]
      BY DEF TypeOK, States, Done
    <3>2. Matched([req EXCEPT ![r] = "ok"], [using EXCEPT ![r] = NoConn])
      BY <1>6 DEF Complete, Matched, Linked, TypeOK
    <3>3. OnlyStageOf(using[r])
      BY <1>6 DEF Complete, OnlyStageOf
    <3> QED
      BY <2>1, <2>2, <3>1, <3>2, <3>3, LinkedPut
  <2>3. CASE Drop(r, "ok") /\ UNCHANGED <<age, asker, idle, reused>>
    BY <1>5, <1>6, <2>3 DEF Complete, Drop, TypeOK
  <2> QED
    BY <1>6, <2>2, <2>3 DEF Complete
<1>7. ASSUME NEW r \in Reqs, Fails(r) PROVE Linked'
  BY <1>5, <1>7 DEF Fails, Drop, TypeOK
<1>8. ASSUME NEW r \in Reqs, Leaves(r) PROVE Linked'
  <2>1. \A d \in Conns : asker'[d] # NoReq => asker'[d] = asker[d] /\ asker[d] # r
    BY <1>8 DEF Leaves, Disown
  <2>2. \A d \in Conns : asker'[d] # NoReq => d \in open'
    BY <1>8, <2>1, DialUnused DEF Leaves, Drop, Linked
  <2>3. \A d \in Conns : asker'[d] # NoReq => req'[asker'[d]] = "wait"
    BY <1>8, <2>1 DEF Leaves, Drop, TypeOK, Linked
  <2>4. \A s \in Reqs : req'[s] \in {"have", "sent"} <=> using'[s] # NoConn
    BY <1>8 DEF Leaves, Drop, TypeOK, Linked
  <2> QED
    BY <1>8, <2>1, <2>2, <2>3, <2>4 DEF Leaves, Linked
<1>9. ASSUME NEW c \in Conns, DialTCP(c) PROVE Linked'
  <2>1. CASE tlsEnabled
    BY <1>9, <2>1 DEF DialTCP, TypeOK, Linked
  <2>2. CASE ~tlsEnabled
    BY <1>9, <2>2, LinkedDialed DEF DialTCP
  <2> QED
    BY <2>1, <2>2
<1>10. ASSUME NEW c \in Conns, DialFails(c) PROVE Linked'
  BY <1>10, LinkedFailed DEF DialFails
<1>11. ASSUME NEW c \in Conns, Handshake(c) PROVE Linked'
  BY <1>11, LinkedDialed DEF Handshake
<1>12. ASSUME NEW c \in Conns, HandshakeFails(c) PROVE Linked'
  BY <1>12, LinkedFailed DEF HandshakeFails, CloseRaw, TypeOK
<1>13. ASSUME NEW c \in Conns, Expire(c) PROVE Linked'
  <2>1. asker[c] = NoReq
    BY <1>13 DEF Expire, Linked
  <2> QED
    BY <1>13, <2>1 DEF Expire, Linked
<1>14. CASE UNCHANGED <<open, stage, asker, req, using>>
  BY <1>14 DEF Linked
<1>15. ASSUME NEW c \in Conns, UpstreamCloses(c) PROVE Linked'
  BY <1>14, <1>15 DEF UpstreamCloses
<1>16. CASE Rotate \/ Tick \/ UNCHANGED vars
  BY <1>14, <1>16 DEF Rotate, Tick, vars
<1> QED
  BY <1>1, <1>2, <1>3, <1>4, <1>6, <1>7, <1>8, <1>9, <1>10, <1>11, <1>12, <1>13,
     <1>15, <1>16
  DEF Next, GetConn

-----------------------------------------------------------------------------
(***************************************************************************)
(* Where the sockets are.                                                  *)
(***************************************************************************)

\* Connection c is in nobody's hands when the requests are as in rq and us.
Freed(c, rq, us) ==
  /\ c \in open /\ c \notin idle
  /\ \A d \in open : d # c => \/ stage[d] \in {"tcp", "tls"}
                              \/ d \in idle
                              \/ \E r \in Reqs : us[r] = d
  /\ \A r \in Reqs : us[r] # NoConn =>
       /\ us[r] \in open
       /\ us[r] # c
       /\ stage[us[r]] = "ready"
       /\ us[r] \notin idle
  /\ \A r, s \in Reqs : us[r] = us[s] /\ us[r] # NoConn => r = s
  /\ \A r \in Reqs : rq[r] = "wait" => us[r] = NoConn

\* A free connection is delivered, kept or closed: it has one place.
LEMMA PlacedPut ==
  ASSUME TypeOK, Placed, NEW c \in Conns, NEW rq \in [Reqs -> States],
         NEW us \in [Reqs -> Conns \union {NoConn}], PutIdle(c, rq, us),
         Freed(c, rq, us), OnlyStageOf(c), stage'[c] = "ready"
  PROVE  Placed'
<1> USE DEF OnlyStageOf
<1>0. open \subseteq Conns /\ idle \subseteq open /\ NoConn \notin Conns
  BY PoolAssumption DEF TypeOK, Placed
<1>1. ASSUME NEW w \in Reqs, Deliver(c, w, rq, us) PROVE Placed'
  <2>1. us[w] = NoConn /\ using'[w] = c
    BY <1>1 DEF Deliver, Freed
  <2>2. \A r \in Reqs : r # w => using'[r] = us[r]
    BY <1>1 DEF Deliver
  <2>3. open' = open /\ idle' = idle
    BY <1>1 DEF Deliver
  <2>4. ASSUME NEW d \in open'
        PROVE  \/ stage'[d] \in {"tcp", "tls"}
               \/ d \in idle'
               \/ \E r \in Reqs : using'[r] = d
    <3>1. CASE d = c
      BY <2>1, <3>1
    <3>2. CASE d # c /\ \E r \in Reqs : us[r] = d
      <4>1. PICK r \in Reqs : us[r] = d
        BY <3>2
      <4>2. r # w
        BY <1>0, <2>1, <2>3, <2>4, <4>1
      <4> QED
        BY <2>2, <4>1, <4>2
    <3>3. CASE d # c /\ ~ \E r \in Reqs : us[r] = d
      BY <1>0, <2>3, <2>4, <3>3 DEF Freed
    <3> QED
      BY <3>1, <3>2, <3>3
  <2>5. \A d \in idle' : stage'[d] = "ready"
    BY <1>0, <2>3 DEF Freed, Placed
  <2>6. ASSUME NEW r \in Reqs, using'[r] # NoConn
        PROVE  /\ using'[r] \in open'
               /\ stage'[using'[r]] = "ready"
               /\ using'[r] \notin idle'
    BY <1>0, <2>1, <2>2, <2>3, <2>6 DEF Freed
  <2>7. ASSUME NEW r \in Reqs, NEW s \in Reqs, using'[r] = using'[s],
               using'[r] # NoConn
        PROVE  r = s
    BY <2>1, <2>2, <2>7 DEF Freed
  <2> QED
    BY <1>0, <2>3, <2>4, <2>5, <2>6, <2>7 DEF Placed
<1>2. ASSUME Keep(c, rq, us) PROVE Placed'
  <2>1. using' = us
    BY <1>2 DEF Keep
  <2>2. CASE Room
    <3>1. open' = open /\ idle' = idle \union {c}
      BY <1>2, <2>2 DEF Keep
    <3> QED
      BY <1>0, <2>1, <3>1 DEF Freed, Placed
  <2>3. CASE ~Room
    <3>1. open' = open \ {c} /\ idle' = idle
      BY <1>2, <2>3 DEF Keep
    <3> QED
      BY <1>0, <2>1, <3>1 DEF Freed, Placed
  <2> QED
    BY <2>2, <2>3
<1> QED
  BY <1>1, <1>2 DEF PutIdle

\* A dial that succeeds puts the connection in one place.
LEMMA PlacedDialed ==
  ASSUME TypeOK, Linked, Placed, NEW c \in Conns, Dialed(c), c \in open,
         stage[c] \in {"tcp", "tls"}
  PROVE  Placed'
<1>0. open \subseteq Conns /\ idle \subseteq open /\ NoConn \notin Conns
  BY PoolAssumption DEF TypeOK, Placed
<1>1. OnlyStageOf(c) /\ stage'[c] = "ready"
  BY DEF Dialed, TypeOK, OnlyStageOf
<1>2. c \notin idle /\ \A r \in Reqs : using[r] # c
  BY <1>0 DEF Placed
<1>3. CASE asker[c] = NoReq
  <2>1. req \in [Reqs -> States] /\ using \in [Reqs -> Conns \union {NoConn}]
    BY DEF TypeOK, States
  <2>2. Freed(c, req, using)
    BY <1>2 DEF Freed, Placed, Linked
  <2> QED
    BY <1>1, <1>3, <2>1, <2>2, PlacedPut DEF Dialed
<1>4. CASE asker[c] # NoReq
  <2> DEFINE w == asker[c]
  <2>1. w \in Reqs /\ using[w] = NoConn
    BY <1>4, DialedFor DEF Linked
  <2>2. /\ using' = [using EXCEPT ![w] = c]
        /\ open' = open /\ idle' = idle
    BY <1>4, DialedFor
  <2> HIDE DEF w
  <2>3. using'[w] = c /\ \A r \in Reqs : r # w => using'[r] = using[r]
    BY <2>1, <2>2 DEF TypeOK
  <2>4. ASSUME NEW d \in open'
        PROVE  \/ stage'[d] \in {"tcp", "tls"}
               \/ d \in idle'
               \/ \E r \in Reqs : using'[r] = d
    <3>1. CASE d = c
      BY <2>1, <2>3, <3>1
    <3>2. CASE d # c /\ \E r \in Reqs : using[r] = d
      <4>1. PICK r \in Reqs : using[r] = d
        BY <3>2
      <4>2. r # w
        BY <1>0, <2>1, <2>2, <2>4, <4>1
      <4> QED
        BY <2>3, <4>1, <4>2
    <3>3. CASE d # c /\ ~ \E r \in Reqs : using[r] = d
      BY <1>0, <1>1, <2>2, <2>4, <3>3 DEF Placed, OnlyStageOf
    <3> QED
      BY <3>1, <3>2, <3>3
  <2>5. \A d \in idle' : stage'[d] = "ready"
    BY <1>0, <1>1, <2>2 DEF Placed, OnlyStageOf
  <2>6. ASSUME NEW r \in Reqs, using'[r] # NoConn
        PROVE  /\ using'[r] \in open'
               /\ stage'[using'[r]] = "ready"
               /\ using'[r] \notin idle'
    BY <1>0, <1>1, <1>2, <2>2, <2>3, <2>6 DEF Placed, OnlyStageOf
  <2>7. ASSUME NEW r \in Reqs, NEW s \in Reqs, using'[r] = using'[s],
               using'[r] # NoConn
        PROVE  r = s
    BY <1>2, <2>3, <2>7 DEF Placed
  <2> QED
    BY <1>0, <2>2, <2>4, <2>5, <2>6, <2>7 DEF Placed
<1> QED
  BY <1>3, <1>4

\* A request that lets go of its connection closes it.
LEMMA PlacedDrop ==
  ASSUME TypeOK, Placed, NEW r \in Reqs, NEW to, Drop(r, to),
         UNCHANGED <<stage, idle>>
  PROVE  Placed'
<1>0. open \subseteq Conns /\ idle \subseteq open /\ NoConn \notin Conns
  BY PoolAssumption DEF TypeOK, Placed
<1>1. using'[r] = NoConn /\ \A s \in Reqs : s # r => using'[s] = using[s]
  BY DEF Drop, TypeOK
<1>2. open' = open \ {using[r]}
  BY DEF Drop
<1>3. ASSUME NEW d \in open'
      PROVE  \/ stage'[d] \in {"tcp", "tls"}
             \/ d \in idle'
             \/ \E s \in Reqs : using'[s] = d
  BY <1>1, <1>2, <1>3 DEF Placed
<1>4. idle' \subseteq open'
  BY <1>0, <1>2 DEF Placed
<1>5. ASSUME NEW s \in Reqs, using'[s] # NoConn
      PROVE  /\ using'[s] \in open'
             /\ stage'[using'[s]] = "ready"
             /\ using'[s] \notin idle'
  BY <1>1, <1>2, <1>5 DEF Placed
<1>6. ASSUME NEW s \in Reqs, NEW t \in Reqs, using'[s] = using'[t],
             using'[s] # NoConn
      PROVE  s = t
  BY <1>1, <1>6 DEF Placed
<1> QED
  BY <1>3, <1>4, <1>5, <1>6 DEF Placed

\* A dial that fails closes its socket.
LEMMA PlacedFailed ==
  ASSUME TypeOK, Placed, NEW c \in Conns, c \in open,
         stage[c] \in {"tcp", "tls"}, open' = open \ {c}, OnlyStageOf(c),
         UNCHANGED <<idle, using>>
  PROVE  Placed'
<1>0. open \subseteq Conns /\ idle \subseteq open /\ NoConn \notin Conns
  BY PoolAssumption DEF TypeOK, Placed
<1>1. c \notin idle /\ \A r \in Reqs : using[r] # c
  BY <1>0 DEF Placed
<1> QED
  BY <1>0, <1>1 DEF Placed, OnlyStageOf

\* Every step leaves every open socket in one place.
LEMMA PoolPlaced == TypeOK /\ Linked /\ Placed /\ [Next]_vars => Placed'
<1> SUFFICES ASSUME TypeOK, Linked, Placed, [Next]_vars PROVE Placed'
  OBVIOUS
<1>0. open \subseteq Conns /\ idle \subseteq open /\ NoConn \notin Conns
  BY PoolAssumption DEF TypeOK, Placed
<1>1. CASE UNCHANGED <<open, stage, idle, using>>
  BY <1>1 DEF Placed
<1>2. ASSUME NEW r \in Reqs, NEW c \in Conns, Take(r, c) PROVE Placed'
  <2>1. using[r] = NoConn /\ using'[r] = c
    BY <1>2 DEF Take, Linked, TypeOK
  <2>2. \A s \in Reqs : s # r => using'[s] = using[s]
    BY <1>2 DEF Take, TypeOK
  <2>3. UNCHANGED <<open, stage>> /\ idle' = idle \ {c} /\ c \in idle
    BY <1>2 DEF Take
  <2>4. ASSUME NEW d \in open'
        PROVE  \/ stage'[d] \in {"tcp", "tls"}
               \/ d \in idle'
               \/ \E s \in Reqs : using'[s] = d
    BY <1>0, <2>1, <2>2, <2>3, <2>4 DEF Placed
  <2>5. ASSUME NEW s \in Reqs, using'[s] # NoConn
        PROVE  /\ using'[s] \in open'
               /\ stage'[using'[s]] = "ready"
               /\ using'[s] \notin idle'
    BY <1>0, <2>1, <2>2, <2>3, <2>5 DEF Placed
  <2>6. ASSUME NEW s \in Reqs, NEW t \in Reqs, using'[s] = using'[t],
               using'[s] # NoConn
        PROVE  s = t
    BY <2>1, <2>2, <2>3, <2>6 DEF Placed
  <2> QED
    BY <1>0, <2>3, <2>4, <2>5, <2>6 DEF Placed
<1>3. ASSUME NEW r \in Reqs, NEW c \in Conns, StartDial(r, c) PROVE Placed'
  <2>1. /\ open' = open \union {c} /\ c \notin open
        /\ stage'[c] = "tcp" /\ OnlyStageOf(c)
        /\ UNCHANGED <<idle, using>>
    BY <1>3 DEF StartDial, TypeOK, OnlyStageOf
  <2> QED
    BY <1>0, <2>1 DEF Placed, OnlyStageOf
<1>4. ASSUME NEW r \in Reqs, Complete(r) PROVE Placed'
  <2>1. using[r] # NoConn /\ using[r] \in Conns
    BY <1>4 DEF Complete, Linked, TypeOK
  <2>2. CASE PutIdle(using[r], [req EXCEPT ![r] = "ok"],
                     [using EXCEPT ![r] = NoConn])
    <3>1. /\ [req EXCEPT ![r] = "ok"] \in [Reqs -> States]
          /\ [using EXCEPT ![r] = NoConn] \in [Reqs -> Conns \union {NoConn}]
      BY DEF TypeOK, States, Done
    <3>2. Freed(using[r], [req EXCEPT ![r] = "ok"], [using EXCEPT ![r] = NoConn])
      <4> DEFINE us == [using EXCEPT ![r] = NoConn]
                 rq == [req EXCEPT ![r] = "ok"]
      <4>1. us[r] = NoConn /\ \A s \in Reqs : s # r => us[s] = using[s]
        BY DEF TypeOK
      <4>2. rq[r] = "ok" /\ \A s \in Reqs : s # r => rq[s] = req[s]
        BY DEF TypeOK
      <4> HIDE DEF us, rq
      <4>3. Freed(using[r], rq, us)
        BY <2>1, <4>1, <4>2 DEF Freed, Placed, Linked
      <4> QED
        BY <4>3 DEF us, rq
    <3>3. OnlyStageOf(using[r]) /\ stage'[using[r]] = "ready"
      BY <1>4, <2>1 DEF Complete, OnlyStageOf, Placed
    <3> QED
      BY <2>1, <2>2, <3>1, <3>2, <3>3, PlacedPut
  <2>3. CASE Drop(r, "ok") /\ UNCHANGED <<age, asker, idle, reused>>
    BY <1>4, <2>3, PlacedDrop DEF Complete
  <2> QED
    BY <1>4, <2>2, <2>3 DEF Complete
<1>5. ASSUME NEW r \in Reqs, Fails(r) PROVE Placed'
  BY <1>5, PlacedDrop DEF Fails
<1>6. ASSUME NEW r \in Reqs, Leaves(r) PROVE Placed'
  BY <1>6, PlacedDrop DEF Leaves
<1>7. ASSUME NEW c \in Conns, DialTCP(c) PROVE Placed'
  <2>1. CASE tlsEnabled
    BY <1>0, <1>7, <2>1 DEF DialTCP, TypeOK, Placed
  <2>2. CASE ~tlsEnabled
    BY <1>7, <2>2, PlacedDialed DEF DialTCP
  <2> QED
    BY <2>1, <2>2
<1>8. ASSUME NEW c \in Conns, DialFails(c) PROVE Placed'
  BY <1>8, PlacedFailed DEF DialFails, OnlyStageOf
<1>9. ASSUME NEW c \in Conns, Handshake(c) PROVE Placed'
  BY <1>9, PlacedDialed DEF Handshake
<1>10. ASSUME NEW c \in Conns, HandshakeFails(c) PROVE Placed'
  BY <1>10, PlacedFailed DEF HandshakeFails, CloseRaw, OnlyStageOf, TypeOK
<1>11. ASSUME NEW c \in Conns, Expire(c) PROVE Placed'
  BY <1>0, <1>11 DEF Expire, Placed
<1>12. ASSUME NEW r \in Reqs, Start(r) \/ Send(r) PROVE Placed'
  BY <1>1, <1>12 DEF Start, Send
<1>13. ASSUME NEW c \in Conns, UpstreamCloses(c) PROVE Placed'
  BY <1>1, <1>13 DEF UpstreamCloses
<1>14. CASE Rotate \/ Tick \/ UNCHANGED vars
  BY <1>1, <1>14 DEF Rotate, Tick, vars
<1> QED
  BY <1>2, <1>3, <1>4, <1>5, <1>6, <1>7, <1>8, <1>9, <1>10, <1>11, <1>12, <1>13,
     <1>14
  DEF Next, GetConn

-----------------------------------------------------------------------------
(***************************************************************************)
(* The certificates of the connections.                                    *)
(***************************************************************************)

\* From rq and us, a request at most gets a connection of the pool.
AtMostReused(rq, us) ==
  \A r \in Reqs : \/ reused'[r] /\ rq[r] = "wait" /\ req'[r] = "have"
                  \/ /\ reused'[r] = reused[r]
                     /\ using'[r] = us[r]
                     /\ req'[r] = rq[r]

\* A connection that comes from the pool passes for no new one, and no other
\* request's changes.
LEMMA PutReused ==
  ASSUME TypeOK, NEW c \in Conns, NEW rq \in [Reqs -> States],
         NEW us \in [Reqs -> Conns \union {NoConn}], PutIdle(c, rq, us)
  PROVE  /\ AtMostReused(rq, us)
         /\ \A d \in Conns : asker'[d] # NoReq => asker'[d] = asker[d]
         /\ open' \subseteq open
<1>1. ASSUME NEW w \in Reqs, Deliver(c, w, rq, us)
      PROVE  /\ AtMostReused(rq, us)
             /\ \A d \in Conns : asker'[d] # NoReq => asker'[d] = asker[d]
             /\ open' \subseteq open
  BY <1>1 DEF Deliver, Disown, AtMostReused, TypeOK
<1>2. ASSUME Keep(c, rq, us)
      PROVE  /\ AtMostReused(rq, us)
             /\ \A d \in Conns : asker'[d] # NoReq => asker'[d] = asker[d]
             /\ open' \subseteq open
  BY <1>2 DEF Keep, AtMostReused
<1> QED
  BY <1>1, <1>2 DEF PutIdle

\* What a step may do that makes no connection.
LEMMA DatedKept ==
  ASSUME TypeOK, Dated, UNCHANGED <<tlsEnabled, gen, seen>>, open' \subseteq open,
         \A c \in open' : stage'[c] = "tls" => stage[c] = "tls",
         \A c \in Conns : asker'[c] # NoReq => asker'[c] = asker[c],
         \A r \in Reqs : \/ reused'[r]
                         \/ using'[r] = NoConn
                         \/ reused'[r] = reused[r] /\ using'[r] = using[r]
  PROVE  Dated'
<1>1. \A c \in open' : stage'[c] = "tls" =>
        tlsEnabled' /\ (asker'[c] # NoReq => gen'[c] >= seen'[asker'[c]])
  BY DEF Dated, TypeOK
<1>2. NewDialIsCurrent'
  BY DEF Dated, NewDialIsCurrent
<1> QED
  BY <1>1, <1>2 DEF Dated

\* A dial that succeeds gives its asker a connection that is recent enough.
LEMMA DatedDialed ==
  ASSUME TypeOK, Dated, NEW c \in Conns, Dialed(c), c \in open,
         tlsEnabled => stage[c] = "tls", UNCHANGED <<tlsEnabled, gen, seen>>
  PROVE  Dated'
<1>1. \A d \in Conns : stage'[d] = "tls" => d # c /\ stage[d] = "tls"
  BY DEF Dialed, TypeOK
<1>2. CASE asker[c] = NoReq
  <2>1. req \in [Reqs -> States] /\ using \in [Reqs -> Conns \union {NoConn}]
    BY DEF TypeOK, States
  <2>2. PutIdle(c, req, using)
    BY <1>2 DEF Dialed
  <2>3. /\ \A r \in Reqs : \/ reused'[r]
                           \/ reused'[r] = reused[r] /\ using'[r] = using[r]
        /\ \A d \in Conns : asker'[d] # NoReq => asker'[d] = asker[d]
        /\ open' \subseteq open
    BY <2>1, <2>2, PutReused DEF AtMostReused
  <2> QED
    BY <1>1, <2>3, DatedKept DEF TypeOK
<1>3. CASE asker[c] # NoReq
  <2> DEFINE w == asker[c]
  <2>1. /\ w \in Reqs
        /\ using' = [using EXCEPT ![w] = c]
        /\ reused' = [reused EXCEPT ![w] = FALSE]
        /\ asker' = [asker EXCEPT ![c] = NoReq]
        /\ open' = open
    BY <1>3, DialedFor
  <2>2. tlsEnabled => gen[c] >= seen[w]
    BY <1>3 DEF Dated
  <2> HIDE DEF w
  <2>3. \A d \in open' : stage'[d] = "tls" =>
          tlsEnabled' /\ (asker'[d] # NoReq => gen'[d] >= seen'[asker'[d]])
    BY <1>1, <2>1 DEF Dated, TypeOK
  <2>4. NewDialIsCurrent'
    BY <2>1, <2>2 DEF Dated, NewDialIsCurrent, TypeOK
  <2> QED
    BY <2>3, <2>4 DEF Dated
<1> QED
  BY <1>2, <1>3

\* Every step keeps the connections recent enough.
LEMMA PoolDated == TypeOK /\ Linked /\ Placed /\ Dated /\ [Next]_vars => Dated'
<1> SUFFICES ASSUME TypeOK, Linked, Placed, Dated, [Next]_vars PROVE Dated'
  OBVIOUS
<1>0. open \subseteq Conns /\ NoConn \notin Conns
  BY PoolAssumption DEF TypeOK
<1>1. ASSUME NEW r \in Reqs, Start(r) PROVE Dated'
  <2>1. using[r] = NoConn /\ \A c \in Conns : asker[c] # NoReq => asker[c] # r
    BY <1>1 DEF Start, Linked, TypeOK
  <2>2. \A s \in Reqs : s # r => seen'[s] = seen[s]
    BY <1>1 DEF Start, TypeOK
  <2>3. NewDialIsCurrent'
    BY <1>1, <2>1, <2>2 DEF Start, Dated, NewDialIsCurrent
  <2>4. \A c \in open : asker[c] # NoReq => seen'[asker[c]] = seen[asker[c]]
    BY <1>0, <2>1, <2>2 DEF TypeOK
  <2> QED
    BY <1>1, <2>3, <2>4 DEF Start, Dated
<1>2. ASSUME NEW r \in Reqs, NEW c \in Conns, Take(r, c) PROVE Dated'
  BY <1>2, DatedKept DEF Take, TypeOK
<1>3. ASSUME NEW r \in Reqs, NEW c \in Conns, StartDial(r, c) PROVE Dated'
  <2>1. \A d \in open' : stage'[d] = "tls" => d # c /\ stage[d] = "tls" /\ d \in open
    BY <1>0, <1>3 DEF StartDial, TypeOK
  <2>2. \A d \in Conns : d # c => asker'[d] = asker[d]
    BY <1>3 DEF StartDial, TypeOK
  <2>3. NewDialIsCurrent'
    BY <1>3 DEF StartDial, Dated, NewDialIsCurrent
  <2> QED
    BY <1>0, <1>3, <2>1, <2>2, <2>3 DEF StartDial, Dated
<1>4. ASSUME NEW r \in Reqs, Complete(r) PROVE Dated'
  <2>1. using[r] \in Conns
    BY <1>4 DEF Complete, Linked, TypeOK
  <2>2. CASE PutIdle(using[r], [req EXCEPT ![r] = "ok"],
                     [using EXCEPT ![r] = NoConn])
    <3>1. /\ [req EXCEPT ![r] = "ok"] \in [Reqs -> States]
          /\ [using EXCEPT ![r] = NoConn] \in [Reqs -> Conns \union {NoConn}]
      BY DEF TypeOK, States, Done
    <3>2. /\ AtMostReused([req EXCEPT ![r] = "ok"], [using EXCEPT ![r] = NoConn])
          /\ \A d \in Conns : asker'[d] # NoReq => asker'[d] = asker[d]
          /\ open' \subseteq open
      BY <2>1, <2>2, <3>1, PutReused
    <3>3. \A s \in Reqs : \/ reused'[s]
                          \/ using'[s] = NoConn
                          \/ reused'[s] = reused[s] /\ using'[s] = using[s]
      BY <3>2 DEF AtMostReused, TypeOK
    <3> QED
      BY <1>4, <3>2, <3>3, DatedKept DEF Complete
  <2>3. CASE Drop(r, "ok") /\ UNCHANGED <<age, asker, idle, reused>>
    BY <1>4, <2>3, DatedKept DEF Complete, Drop, TypeOK
  <2> QED
    BY <1>4, <2>2, <2>3 DEF Complete
<1>5. ASSUME NEW r \in Reqs, Fails(r) PROVE Dated'
  BY <1>5, DatedKept DEF Fails, Drop, TypeOK
<1>6. ASSUME NEW r \in Reqs, Leaves(r) PROVE Dated'
  BY <1>6, DatedKept DEF Leaves, Drop, Disown, TypeOK
<1>7. ASSUME NEW c \in Conns, DialTCP(c) PROVE Dated'
  <2>1. CASE tlsEnabled
    <3>1. /\ stage' = [stage EXCEPT ![c] = "tls"]
          /\ gen' = [gen EXCEPT ![c] = cert]
          /\ UNCHANGED <<tlsEnabled, open, asker, seen, using, reused>>
      BY <1>7, <2>1 DEF DialTCP, TLSConfig
    <3>2. \A r \in Reqs : using[r] # NoConn => using[r] # c
      BY <1>7 DEF DialTCP, Placed
    <3>3. NewDialIsCurrent'
      BY <3>1, <3>2 DEF Dated, NewDialIsCurrent, TypeOK
    <3>4. asker[c] # NoReq => cert >= seen[asker[c]]
      BY DEF TypeOK
    <3> QED
      BY <1>0, <2>1, <3>1, <3>3, <3>4 DEF Dated, TypeOK
  <2>2. CASE ~tlsEnabled
    BY <1>7, <2>2, DatedDialed DEF DialTCP
  <2> QED
    BY <2>1, <2>2
<1>8. ASSUME NEW c \in Conns, DialFails(c) PROVE Dated'
  <2>1. \A r \in Reqs : \/ using'[r] = NoConn
                        \/ reused'[r] = reused[r] /\ using'[r] = using[r]
    BY <1>8 DEF DialFails, DialError, Linked, TypeOK
  <2> QED
    BY <1>8, <2>1, DatedKept DEF DialFails, DialError, TypeOK
<1>9. ASSUME NEW c \in Conns, Handshake(c) PROVE Dated'
  BY <1>9, DatedDialed DEF Handshake
<1>10. ASSUME NEW c \in Conns, HandshakeFails(c) PROVE Dated'
  <2>1. \A r \in Reqs : \/ using'[r] = NoConn
                        \/ reused'[r] = reused[r] /\ using'[r] = using[r]
    BY <1>10 DEF HandshakeFails, DialError, Linked, TypeOK
  <2> QED
    BY <1>10, <2>1, DatedKept DEF HandshakeFails, CloseRaw, DialError, TypeOK
<1>11. ASSUME NEW c \in Conns, Expire(c) PROVE Dated'
  BY <1>11, DatedKept DEF Expire
<1>12. CASE UNCHANGED <<tlsEnabled, open, stage, gen, asker, seen, using, reused>>
  BY <1>12 DEF Dated, NewDialIsCurrent
<1>13. ASSUME NEW r \in Reqs, Send(r) PROVE Dated'
  BY <1>12, <1>13 DEF Send
<1>14. ASSUME NEW c \in Conns, UpstreamCloses(c) PROVE Dated'
  BY <1>12, <1>14 DEF UpstreamCloses
<1>15. CASE Rotate \/ Tick \/ UNCHANGED vars
  BY <1>12, <1>15 DEF Rotate, Tick, vars
<1> QED
  BY <1>1, <1>2, <1>3, <1>4, <1>5, <1>6, <1>7, <1>8, <1>9, <1>10, <1>11, <1>13,
     <1>14, <1>15
  DEF Next, GetConn

-----------------------------------------------------------------------------
(***************************************************************************)
(* Stale connections.                                                      *)
(***************************************************************************)

(***************************************************************************)
(* A request that has not started was not written, and one that waits for  *)
(* its answer was.                                                         *)
(***************************************************************************)
Written ==
  \A r \in Reqs : /\ req[r] = "new" => r \notin sent
                  /\ req[r] = "sent" => r \in sent

Stale == Written /\ StaleHidden

\* What a step does that at most hands connections to waiting requests, ends
\* requests well, or has a dial fail.
LEMMA StaleKept ==
  ASSUME TypeOK, Stale, sent' = sent,
         \A r \in Reqs : \/ req'[r] = req[r] /\ reused'[r] = reused[r]
                         \/ req[r] = "wait" /\ req'[r] = "have"
                         \/ req'[r] \in {"ok", "gone"}
                         \/ req'[r] = "failed" /\ ~reused'[r]
  PROVE  Stale'
BY DEF Stale, Written, StaleHidden

\* What a dial that succeeds does to the outcome of the requests.
LEMMA StaleDialed ==
  ASSUME TypeOK, Linked, Stale, NEW c \in Conns, Dialed(c), sent' = sent
  PROVE  Stale'
<1>1. CASE asker[c] = NoReq
  <2>1. req \in [Reqs -> States] /\ using \in [Reqs -> Conns \union {NoConn}]
    BY DEF TypeOK, States
  <2>2. AtMostReused(req, using)
    BY <1>1, <2>1, PutReused DEF Dialed
  <2> QED
    BY <2>2, StaleKept DEF AtMostReused
<1>2. CASE asker[c] # NoReq
  <2>1. req[asker[c]] = "wait"
    BY <1>2 DEF Linked
  <2>2. \A r \in Reqs : \/ req'[r] = req[r] /\ reused'[r] = reused[r]
                        \/ req[r] = "wait" /\ req'[r] = "have"
    BY <1>2, <2>1, DialedFor DEF TypeOK
  <2> QED
    BY <2>2, StaleKept
<1> QED
  BY <1>1, <1>2

\* Every step hides stale connections and repeats nothing that it may not.
LEMMA PoolStale == TypeOK /\ Linked /\ Stale /\ [Next]_vars => Stale'
<1> SUFFICES ASSUME TypeOK, Linked, Stale, [Next]_vars PROVE Stale'
  OBVIOUS
<1>1. ASSUME NEW r \in Reqs, Start(r) PROVE Stale'
  BY <1>1 DEF Start, Stale, Written, StaleHidden, TypeOK
<1>2. ASSUME NEW r \in Reqs, NEW c \in Conns, Take(r, c) PROVE Stale'
  BY <1>2 DEF Take, Stale, Written, StaleHidden, TypeOK
<1>3. ASSUME NEW r \in Reqs, NEW c \in Conns, StartDial(r, c) PROVE Stale'
  BY <1>3 DEF StartDial, Stale, Written, StaleHidden, TypeOK
<1>4. ASSUME NEW r \in Reqs, Send(r) PROVE Stale'
  BY <1>4 DEF Send, Stale, Written, StaleHidden, TypeOK
<1>5. ASSUME NEW r \in Reqs, Complete(r) PROVE Stale'
  <2>1. using[r] \in Conns /\ sent' = sent
    BY <1>5 DEF Complete, Linked, TypeOK
  <2>2. CASE PutIdle(using[r], [req EXCEPT ![r] = "ok"],
                     [using EXCEPT ![r] = NoConn])
    <3>1. /\ [req EXCEPT ![r] = "ok"] \in [Reqs -> States]
          /\ [using EXCEPT ![r] = NoConn] \in [Reqs -> Conns \union {NoConn}]
      BY DEF TypeOK, States, Done
    <3>2. AtMostReused([req EXCEPT ![r] = "ok"], [using EXCEPT ![r] = NoConn])
      BY <2>1, <2>2, <3>1, PutReused
    <3>3. \A s \in Reqs : \/ req'[s] = "ok"
                          \/ req[s] = "wait" /\ req'[s] = "have"
                          \/ reused'[s] = reused[s] /\ req'[s] = req[s]
      BY <3>2 DEF AtMostReused, TypeOK
    <3> QED
      BY <2>1, <3>3, StaleKept
  <2>3. CASE Drop(r, "ok") /\ UNCHANGED <<age, asker, idle, reused>>
    BY <2>1, <2>3, StaleKept DEF Drop, TypeOK
  <2> QED
    BY <1>5, <2>2, <2>3 DEF Complete
<1>6. ASSUME NEW r \in Reqs, Fails(r) PROVE Stale'
  <2>1. CASE ShouldRetry(r)
    <3>1. req' = [req EXCEPT ![r] = "want"] /\ UNCHANGED <<reused, sent>>
      BY <1>6, <2>1 DEF Fails, Drop
    <3>2. r \in sent => r \in Idempotent \ WithBody
      BY <1>6, <2>1 DEF Fails, ShouldRetry, HasBody, Stale, StaleHidden
    <3> QED
      BY <3>1, <3>2 DEF Stale, Written, StaleHidden, TypeOK
  <2>2. CASE ~ShouldRetry(r)
    <3>1. req' = [req EXCEPT ![r] = "failed"] /\ UNCHANGED <<reused, sent>>
      BY <1>6, <2>2 DEF Fails, Drop
    <3>2. reused[r] => r \in WithBody \/ (r \in sent /\ r \notin Idempotent)
      BY <1>6, <2>2 DEF Fails, ShouldRetry, HasBody, Stale, Written
    <3> QED
      BY <3>1, <3>2 DEF Stale, Written, StaleHidden, TypeOK
  <2> QED
    BY <2>1, <2>2
<1>7. ASSUME NEW r \in Reqs, Leaves(r) PROVE Stale'
  BY <1>7, StaleKept DEF Leaves, Drop, TypeOK
<1>8. ASSUME NEW c \in Conns, DialTCP(c) PROVE Stale'
  <2>1. CASE tlsEnabled
    BY <1>8, <2>1, StaleKept DEF DialTCP
  <2>2. CASE ~tlsEnabled
    BY <1>8, <2>2, StaleDialed DEF DialTCP
  <2> QED
    BY <2>1, <2>2
<1>9. ASSUME NEW c \in Conns, Handshake(c) PROVE Stale'
  BY <1>9, StaleDialed DEF Handshake
<1>10. ASSUME NEW c \in Conns, DialFails(c) \/ HandshakeFails(c) PROVE Stale'
  <2>1. DialError(c) /\ sent' = sent
    BY <1>10 DEF DialFails, HandshakeFails
  <2> QED
    BY <2>1, StaleKept DEF DialError, TypeOK
<1>11. CASE UNCHANGED <<req, reused, sent>>
  BY <1>11, StaleKept
<1>12. ASSUME NEW c \in Conns, Expire(c) \/ UpstreamCloses(c) PROVE Stale'
  BY <1>11, <1>12 DEF Expire, UpstreamCloses
<1>13. CASE Rotate \/ Tick \/ UNCHANGED vars
  BY <1>11, <1>13 DEF Rotate, Tick, vars
<1> QED
  BY <1>1, <1>2, <1>3, <1>4, <1>5, <1>6, <1>7, <1>8, <1>9, <1>10, <1>12, <1>13
  DEF Next, GetConn

-----------------------------------------------------------------------------
PoolInv == TypeOK /\ Linked /\ Placed /\ Dated /\ Stale

\* It holds at the start.
LEMMA PoolInitially == Init => PoolInv
<1> SUFFICES ASSUME Init PROVE PoolInv
  OBVIOUS
<1> USE PoolAssumption DEF Init
<1>1. TypeOK
  <2>1. Cardinality(idle) <= MaxIdleConns
    BY FS_EmptySet
  <2>2. cert \in 1..(MaxRotations + 1) /\ transport \in 0..cert
    OBVIOUS
  <2>3. gen \in [Conns -> 0..cert] /\ seen \in [Reqs -> 0..cert]
    OBVIOUS
  <2>4. closes \in 0..MaxCloses
    OBVIOUS
  <2> QED
    BY <2>1, <2>2, <2>3, <2>4 DEF TypeOK
<1>2. Linked /\ Placed
  BY DEF Linked, Placed
<1>3. Dated /\ Stale
  BY DEF Dated, NewDialIsCurrent, Stale, Written, StaleHidden
<1> QED
  BY <1>1, <1>2, <1>3 DEF PoolInv

LEMMA PoolInvariant == Spec => []PoolInv
<1>1. PoolInv /\ [Next]_vars => PoolInv'
  BY PoolTyped, PoolLinked, PoolPlaced, PoolDated, PoolStale DEF PoolInv
<1> QED
  BY PoolInitially, <1>1, PTL DEF Spec

\* The pool's types, and the limit on the connections it keeps
\* (maxIdleUpstreamConnsPerHost).
THEOREM PoolTypeCorrect == Spec => []TypeOK
<1>1. PoolInv => TypeOK
  BY DEF PoolInv
<1> QED
  BY PoolInvariant, <1>1, PTL

\* handleHTTPForward() and dialUpstream(): no socket leaks, and no two requests
\* share one.
THEOREM NoneSharedOrLeaked == Spec => []Owned
<1>1. ASSUME PoolInv PROVE Owned
  <2>1. open \subseteq Conns /\ NoConn \notin Conns
    BY <1>1, PoolAssumption DEF PoolInv, TypeOK
  <2>2. open = Dialing \union idle \union InUse
    BY <1>1, <2>1 DEF PoolInv, Placed, Dialing, InUse
  <2>3. Dialing \cap (idle \union InUse) = {}
    BY <1>1, <2>1 DEF PoolInv, Placed, Dialing, InUse
  <2>4. idle \cap InUse = {}
    BY <1>1, <2>1 DEF PoolInv, Placed, InUse
  <2> QED
    BY <1>1, <2>2, <2>3, <2>4 DEF PoolInv, Placed, Owned
<1>2. PoolInv => Owned
  BY <1>1
<1> QED
  BY PoolInvariant, <1>2, PTL

\* dialForTransport(): a connection dialed for a request never has an older
\* certificate than the manager had when the request came.
THEOREM NewDialsAreCurrent == Spec => []NewDialIsCurrent
<1>1. PoolInv => NewDialIsCurrent
  BY DEF PoolInv, Dated
<1> QED
  BY PoolInvariant, <1>1, PTL

\* buildTransport(): however many connections go stale in the pool, a request
\* that may be repeated does not fail with one, and none that may not be is
\* written twice.
THEOREM StaleStaysHidden == Spec => []StaleHidden
<1>1. PoolInv => StaleHidden
  BY DEF PoolInv, Stale
<1> QED
  BY PoolInvariant, <1>1, PTL
=============================================================================
