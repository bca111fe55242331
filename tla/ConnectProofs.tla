--------------------------- MODULE ConnectProofs ---------------------------
(***************************************************************************)
(* Theorems about ConnectTunnel, for any idle timeout, any number of       *)
(* chunks and header lines, and slow or prompt peers.                      *)
(***************************************************************************)
EXTENDS ConnectTunnel, TLAPS

USE DEF answerVars, handlerVars, peerVars, streamVars, copyVars, timeVars

-----------------------------------------------------------------------------
(***************************************************************************)
(* Resources.  Owned says which connections the handler holds where.       *)
(***************************************************************************)
Owned ==
  /\ pc \in {"acl", "hijack", "dial", "handshake", "send", "response", "body",
             "answer", "reply", "flush", "tunnel", "returned"}
  /\ pc \in {"acl", "hijack", "returned"} =>
       open = {} /\ deferred = {} /\ gauge = 0
  /\ pc = "dial" => open = {"client"} /\ deferred = {"client"} /\ gauge = 0
  /\ pc = "handshake" => open = Conns /\ deferred = {"client"} /\ gauge = 0
  /\ pc = "answer" =>
       \/ open = {"client"} /\ deferred = {"client"} /\ gauge = 0
       \/ open = Conns /\ deferred = Conns \union {"gauge"} /\ gauge = 1
  /\ pc \in {"send", "response", "body", "reply", "flush", "tunnel"} =>
       open = Conns /\ deferred = Conns \union {"gauge"} /\ gauge = 1

\* Every step of a CONNECT keeps Owned.
LEMMA OwnedStep == Owned /\ [Next]_vars => Owned'
<1> SUFFICES ASSUME Owned, [Next]_vars PROVE Owned'
  OBVIOUS
<1> USE DEF Owned, Conns
<1>1. CASE Deny
  BY <1>1 DEF Deny, Return
<1>2. CASE Allow
  BY <1>2 DEF Allow
<1>3. CASE HijackFails
  BY <1>3 DEF HijackFails, Return
<1>4. CASE Hijack
  BY <1>4 DEF Hijack
<1>5. CASE DialTCP
  BY <1>5 DEF DialTCP
<1>6. CASE DialFails
  BY <1>6 DEF DialFails, DialError, Refuse
<1>7. CASE HandshakeFails
  BY <1>7 DEF HandshakeFails, DialError, Refuse
<1>8. CASE Dial
  BY <1>8 DEF Dial
<1>9. CASE SendLine
  BY <1>9 DEF SendLine, SetDeadline
<1>10. CASE SendFails
  BY <1>10 DEF SendFails, Return
<1>11. CASE Accepted
  BY <1>11 DEF Accepted, ReadAhead
<1>12. CASE DrainBody
  BY <1>12 DEF DrainBody, SetDeadline
<1>13. CASE Rejected
  BY <1>13 DEF Rejected, Refuse
<1>14. CASE ResponseFails
  BY <1>14 DEF ResponseFails, Refuse
<1>15. CASE Reply200
  BY <1>15 DEF Reply200, StartTunnel, SetDeadline
<1>16. CASE Reply200Fails
  BY <1>16 DEF Reply200Fails, Return
<1>17. CASE Flush
  BY <1>17 DEF Flush, StartTunnel
<1>18. CASE FlushFails
  BY <1>18 DEF FlushFails, Return
<1>19. CASE TunnelReturns
  BY <1>19 DEF TunnelReturns, Return
<1>20. CASE Tick
  BY <1>20 DEF Tick
<1>21. ASSUME NEW d \in Dirs, ReadChunk(d) PROVE Owned'
  BY <1>21 DEF ReadChunk, SetDeadline
<1>22. ASSUME NEW d \in Dirs, WriteChunk(d) PROVE Owned'
  BY <1>22 DEF WriteChunk, SetDeadline
<1>23. ASSUME NEW d \in Dirs, ReadEnds(d) PROVE Owned'
  BY <1>23 DEF ReadEnds, CloseWrite
<1>24. ASSUME NEW d \in Dirs, WriteFails(d) PROVE Owned'
  BY <1>24 DEF WriteFails, CloseWrite
<1>25. ASSUME NEW d \in Dirs, Send(d) PROVE Owned'
  BY <1>25 DEF Send
<1>26. ASSUME NEW s \in Answers, Respond(s) PROVE Owned'
  BY <1>26 DEF Respond
<1>27. ASSUME NEW c \in Conns, CloseSending(c) \/ Leave(c) PROVE Owned'
  BY <1>27 DEF CloseSending, Leave
<1>28. CASE UNCHANGED vars
  BY <1>28 DEF vars
<1>29. CASE Refused
  BY <1>29 DEF Refused, Return
<1> QED
  BY <1>1, <1>2, <1>3, <1>4, <1>5, <1>6, <1>7, <1>8, <1>9, <1>10, <1>11,
     <1>12, <1>13, <1>14, <1>15, <1>16, <1>17, <1>18, <1>19, <1>20, <1>21,
     <1>22, <1>23, <1>24, <1>25, <1>26, <1>27, <1>28, <1>29
  DEF Next, Setup, Copy, Peers

(***************************************************************************)
(* No path out of handleConnect() leaks a connection or a count of         *)
(* activeConnections.                                                      *)
(***************************************************************************)
THEOREM NoLeak == Spec => []NothingLeaks
<1>1. Init => Owned
  BY DEF Init, Owned
<1>2. Owned => NothingLeaks
  BY DEF Owned, NothingLeaks, Conns
<1> QED
  BY <1>1, <1>2, OwnedStep, PTL DEF Spec

-----------------------------------------------------------------------------
(***************************************************************************)
(* Agreement.  A handler that has got past the upstream's answer has seen  *)
(* a 200, and the tunnel comes after the client's own 200.                 *)
(***************************************************************************)
Agreed ==
  /\ pc \in {"acl", "hijack", "dial", "handshake", "send", "response", "body",
             "answer", "reply", "flush"} =>
       got = [d \in Dirs |-> <<>>]
  /\ pc \in {"reply", "flush", "tunnel"} => resp = "ok"
  /\ pc \in {"flush", "tunnel"} => reply = "200"
  /\ DataOnlyAfterAgreement

\* Every step of a CONNECT keeps Agreed.
LEMMA AgreedStep == Agreed /\ [Next]_vars => Agreed'
<1> SUFFICES ASSUME Agreed, [Next]_vars PROVE Agreed'
  OBVIOUS
<1> USE DEF Agreed, DataOnlyAfterAgreement, Dirs
<1>1. CASE Deny
  BY <1>1 DEF Deny, Return
<1>2. CASE Allow
  BY <1>2 DEF Allow
<1>3. CASE HijackFails
  BY <1>3 DEF HijackFails, Return
<1>4. CASE Hijack
  BY <1>4 DEF Hijack
<1>5. CASE DialTCP
  BY <1>5 DEF DialTCP
<1>6. CASE DialFails
  BY <1>6 DEF DialFails, DialError, Refuse
<1>7. CASE HandshakeFails
  BY <1>7 DEF HandshakeFails, DialError, Refuse
<1>8. CASE Dial
  BY <1>8 DEF Dial
<1>9. CASE SendLine
  BY <1>9 DEF SendLine, SetDeadline
<1>10. CASE SendFails
  BY <1>10 DEF SendFails, Return
<1>11. CASE Accepted
  BY <1>11 DEF Accepted, ReadAhead
<1>12. CASE DrainBody
  BY <1>12 DEF DrainBody, SetDeadline
<1>13. CASE Rejected
  BY <1>13 DEF Rejected, Refuse
<1>14. CASE ResponseFails
  BY <1>14 DEF ResponseFails, Refuse
<1>15. CASE Reply200
  BY <1>15 DEF Reply200, StartTunnel, SetDeadline
<1>16. CASE Reply200Fails
  BY <1>16 DEF Reply200Fails, Return
<1>17. CASE Flush
  BY <1>17 DEF Flush, StartTunnel
<1>18. CASE FlushFails
  BY <1>18 DEF FlushFails, Return
<1>19. CASE TunnelReturns
  BY <1>19 DEF TunnelReturns, Return
<1>20. CASE Tick
  BY <1>20 DEF Tick
<1>21. ASSUME NEW d \in Dirs, ReadChunk(d) PROVE Agreed'
  BY <1>21 DEF ReadChunk, SetDeadline
<1>22. ASSUME NEW d \in Dirs, WriteChunk(d) PROVE Agreed'
  BY <1>22 DEF WriteChunk, SetDeadline
<1>23. ASSUME NEW d \in Dirs, ReadEnds(d) PROVE Agreed'
  BY <1>23 DEF ReadEnds, CloseWrite
<1>24. ASSUME NEW d \in Dirs, WriteFails(d) PROVE Agreed'
  BY <1>24 DEF WriteFails, CloseWrite
<1>25. ASSUME NEW d \in Dirs, Send(d) PROVE Agreed'
  BY <1>25 DEF Send
<1>26. ASSUME NEW s \in Answers, Respond(s) PROVE Agreed'
  BY <1>26 DEF Respond
<1>27. ASSUME NEW c \in Conns, CloseSending(c) \/ Leave(c) PROVE Agreed'
  BY <1>27 DEF CloseSending, Leave
<1>28. CASE UNCHANGED vars
  BY <1>28 DEF vars
<1>29. CASE Refused
  BY <1>29 DEF Refused, Return
<1> QED
  BY <1>1, <1>2, <1>3, <1>4, <1>5, <1>6, <1>7, <1>8, <1>9, <1>10, <1>11,
     <1>12, <1>13, <1>14, <1>15, <1>16, <1>17, <1>18, <1>19, <1>20, <1>21,
     <1>22, <1>23, <1>24, <1>25, <1>26, <1>27, <1>28, <1>29
  DEF Next, Setup, Copy, Peers

(***************************************************************************)
(* The client's bytes reach the upstream proxy, and its bytes the client,  *)
(* only once the CONNECT is agreed on both sides.                          *)
(***************************************************************************)
THEOREM NoDataBeforeAgreement == Spec => []DataOnlyAfterAgreement
<1>1. Init => Agreed
  BY DEF Init, Agreed, DataOnlyAfterAgreement, Dirs
<1>2. Agreed => DataOnlyAfterAgreement
  BY DEF Agreed
<1> QED
  BY <1>1, <1>2, AgreedStep, PTL DEF Spec

-----------------------------------------------------------------------------
\* The row that the flush of clientBuf writes.
LEMMA FirstRow ==
  ASSUME NEW k \in Nat
  PROVE  LET s == [i \in 1..k |-> i]
         IN  s \in Seq(Nat) /\ Len(s) = k /\ s = [i \in 1..Len(s) |-> i]
  OBVIOUS

(***************************************************************************)
(* Types.                                                                  *)
(***************************************************************************)
\* What the type of lines rests on.
Sending == pc = "send" => lines \in 1..Lines

Typed == TypeOK /\ Sending

(***************************************************************************)
(* A chunk that is read or written leaves the handler and the peers alone; *)
(* the types of what it moves are shown one by one.                        *)
(***************************************************************************)
LEMMA TypedChunk ==
  ASSUME Typed, NEW d \in Dirs, ReadChunk(d) \/ WriteChunk(d)
  PROVE  Typed'
<1>1. UNCHANGED <<handlerVars, peerVars, buffered, swallowed, halfClosed>>
  BY DEF ReadChunk, WriteChunk
<1>2. taken' \in [Dirs -> Nat] /\ n' \in [Dirs -> Nat]
  <2>1. taken \in [Dirs -> Nat] /\ n \in [Dirs -> Nat]
    BY DEF Typed, TypeOK
  <2>2. taken' = taken \/ taken' = [taken EXCEPT ![d] = @ + 1]
    BY DEF ReadChunk, WriteChunk
  <2>3. n' = n \/ n' = [n EXCEPT ![d] = @ + 1]
    BY DEF ReadChunk, WriteChunk
  <2> QED
    BY <2>1, <2>2, <2>3
<1>3. got' \in [Dirs -> Seq(Nat)]
  <2>1. got \in [Dirs -> Seq(Nat)] /\ taken[d] \in Nat
    BY DEF Typed, TypeOK
  <2>2. got' = got \/ got' = [got EXCEPT ![d] = Append(@, taken[d])]
    BY DEF ReadChunk, WriteChunk
  <2>3. Append(got[d], taken[d]) \in Seq(Nat)
    BY <2>1
  <2> QED
    BY <2>1, <2>2, <2>3
<1>4. copy' \in [Dirs -> {"off", "reading", "writing", "done"}]
  <2>1. copy \in [Dirs -> {"off", "reading", "writing", "done"}]
    BY DEF Typed, TypeOK
  <2>2. \E s \in {"reading", "writing"} : copy' = [copy EXCEPT ![d] = s]
    BY DEF ReadChunk, WriteChunk
  <2> QED
    BY <2>1, <2>2
<1>5. rem' \in [Conns -> 0..Idle] /\ idle' \in 0..Idle
  <2>1. rem \in [Conns -> 0..Idle]
    BY DEF Typed, TypeOK
  <2>2. \E c \in Conns : rem' = [rem EXCEPT ![c] = Idle]
    BY DEF ReadChunk, WriteChunk, SetDeadline, Conns, Src, Dst
  <2>3. idle' = 0 /\ Idle \in 0..Idle /\ 0 \in 0..Idle
    BY ConnectAssumption DEF ReadChunk, WriteChunk
  <2> QED
    BY <2>1, <2>2, <2>3
<1> QED
  BY <1>1, <1>2, <1>3, <1>4, <1>5 DEF Typed, TypeOK, Sending

\* A tick takes from the deadlines what there is to take.
LEMMA TypedTick ==
  ASSUME Typed, Tick
  PROVE  Typed'
<1>1. UNCHANGED <<handlerVars, peerVars, streamVars, copyVars>>
  BY DEF Tick
<1>2. rem' \in [Conns -> 0..Idle]
  <2>1. rem \in [Conns -> 0..Idle] /\ Idle \in Nat
    BY ConnectAssumption DEF Typed, TypeOK
  <2>2. \A c \in Conns : (IF rem[c] > 0 THEN rem[c] - 1 ELSE 0) \in 0..Idle
    BY <2>1
  <2> QED
    BY <2>2 DEF Tick
<1>3. idle' \in 0..Idle
  BY ConnectAssumption DEF Typed, TypeOK, Tick
<1> QED
  BY <1>1, <1>2, <1>3 DEF Typed, TypeOK, Sending

\* Every step of a CONNECT keeps the types.
LEMMA TypedStep == Typed /\ Owned /\ [Next]_vars => Typed'
<1> SUFFICES ASSUME Typed, Owned, [Next]_vars PROVE Typed'
  OBVIOUS
<1> USE DEF Typed, TypeOK, Sending
<1>1. CASE Deny
  BY <1>1, ConnectAssumption DEF Deny, Return, Owned, Conns
<1>2. CASE Allow
  BY <1>2, ConnectAssumption DEF Allow
<1>3. CASE HijackFails
  BY <1>3, ConnectAssumption DEF HijackFails, Return, Owned, Conns
<1>4. CASE Hijack
  BY <1>4, ConnectAssumption DEF Hijack, Owned, Conns, Dirs
<1>5. CASE DialTCP
  BY <1>5, ConnectAssumption DEF DialTCP, Owned, Conns, Dirs
<1>6. CASE DialFails
  BY <1>6, ConnectAssumption DEF DialFails, DialError, Refuse, Owned, Conns
<1>7. CASE HandshakeFails
  BY <1>7, ConnectAssumption DEF HandshakeFails, DialError, Refuse, Owned, Conns
<1>8. CASE Dial
  BY <1>8, ConnectAssumption DEF Dial, Owned, Conns, Dirs
<1>9. CASE SendLine
  BY <1>9, ConnectAssumption DEF SendLine, SetDeadline, Conns
<1>10. CASE SendFails
  BY <1>10, ConnectAssumption DEF SendFails, Return, Owned, Conns
<1>11. CASE Accepted
  BY <1>11, ConnectAssumption DEF Accepted, ReadAhead, Dirs
<1>12. CASE DrainBody
  BY <1>12, ConnectAssumption DEF DrainBody, SetDeadline, Conns
<1>13. CASE Rejected
  BY <1>13, ConnectAssumption DEF Rejected, Refuse, Owned, Conns
<1>14. CASE ResponseFails
  BY <1>14, ConnectAssumption DEF ResponseFails, Refuse, Owned, Conns
<1>15. CASE Reply200
  <2>1. rem' \in [Conns -> 0..Idle] /\ idle' \in 0..Idle
    <3>1. Idle \in 0..Idle /\ 0 \in 0..Idle
      BY ConnectAssumption
    <3> QED
      BY <1>15, <3>1 DEF Reply200, StartTunnel, SetDeadline, Conns
  <2>2. copy' \in [Dirs -> {"off", "reading", "writing", "done"}]
    BY <1>15 DEF Reply200, StartTunnel
  <2> QED
    BY <1>15, <2>1, <2>2 DEF Reply200, StartTunnel
<1>16. CASE Reply200Fails
  BY <1>16, ConnectAssumption DEF Reply200Fails, Return, Owned, Conns
<1>17. CASE Flush
  BY <1>17, ConnectAssumption DEF Flush, StartTunnel, Dirs
<1>18. CASE FlushFails
  <2>1. got' \in [Dirs -> Seq(Nat)]
    <3>1. PICK k \in 0..(buffered - 1) :
            got' = [got EXCEPT !["out"] = [i \in 1..k |-> i]]
      BY <1>18 DEF FlushFails
    <3>2. [i \in 1..k |-> i] \in Seq(Nat)
      BY FirstRow
    <3> QED
      BY <3>1, <3>2
  <2> QED
    BY <1>18, <2>1, ConnectAssumption DEF FlushFails, Return, Owned, Conns
<1>19. CASE TunnelReturns
  BY <1>19, ConnectAssumption DEF TunnelReturns, Return, Owned, Conns
<1>20. CASE Tick
  BY <1>20, TypedTick
<1>21. ASSUME NEW d \in Dirs, ReadChunk(d) PROVE Typed'
  BY <1>21, TypedChunk
<1>22. ASSUME NEW d \in Dirs, WriteChunk(d) PROVE Typed'
  BY <1>22, TypedChunk
<1>23. ASSUME NEW d \in Dirs, ReadEnds(d) PROVE Typed'
  BY <1>23, ConnectAssumption DEF ReadEnds, CloseWrite, Src, Dst, Conns, Dirs
<1>24. ASSUME NEW d \in Dirs, WriteFails(d) PROVE Typed'
  BY <1>24, ConnectAssumption DEF WriteFails, CloseWrite, Src, Dst, Conns, Dirs
<1>25. ASSUME NEW d \in Dirs, Send(d) PROVE Typed'
  <2>1. sent' \in [Dirs -> Nat]
    BY <1>25 DEF Send
  <2> QED
    BY <1>25, <2>1 DEF Send
<1>26. ASSUME NEW s \in Answers, Respond(s) PROVE Typed'
  BY <1>26, ConnectAssumption DEF Respond
<1>27. ASSUME NEW c \in Conns, CloseSending(c) \/ Leave(c) PROVE Typed'
  <2>1. CASE CloseSending(c)
    BY <2>1 DEF CloseSending
  <2>2. CASE Leave(c)
    BY <2>2 DEF Leave
  <2> QED
    BY <1>27, <2>1, <2>2
<1>28. CASE UNCHANGED vars
  BY <1>28, ConnectAssumption DEF vars
<1>29. CASE Refused
  BY <1>29, ConnectAssumption DEF Refused, Return, Owned, Conns
<1> QED
  BY <1>1, <1>2, <1>3, <1>4, <1>5, <1>6, <1>7, <1>8, <1>9, <1>10, <1>11,
     <1>12, <1>13, <1>14, <1>15, <1>16, <1>17, <1>18, <1>19, <1>20, <1>21,
     <1>22, <1>23, <1>24, <1>25, <1>26, <1>27, <1>28, <1>29
  DEF Next, Setup, Copy, Peers

-----------------------------------------------------------------------------
(***************************************************************************)
(* Streams.  The rows of chunk numbers that a stream is made of.           *)
(***************************************************************************)
\* A row of no chunk is empty.
LEMMA EmptyRow ==
  /\ \A k : [i \in 1..0 |-> k + i] = <<>>
  /\ [i \in 1..0 |-> i] = <<>>
  OBVIOUS

\* The next chunk behind a row makes a longer row.
LEMMA AppendRow ==
  ASSUME NEW s \in Seq(Nat), NEW k \in Nat, NEW x \in Nat,
         s = [i \in 1..Len(s) |-> k + i], x = k + Len(s) + 1
  PROVE  Append(s, x) = [i \in 1..Len(Append(s, x)) |-> k + i]
<1> DEFINE t == Append(s, x)
<1>1. t \in Seq(Nat) /\ Len(t) = Len(s) + 1 /\ Len(s) \in Nat
  OBVIOUS
<1>2. \A i \in 1..Len(t) : t[i] = k + i
  <2> SUFFICES ASSUME NEW i \in 1..Len(t) PROVE t[i] = k + i
    OBVIOUS
  <2>1. CASE i \in 1..Len(s)
    BY <2>1, <1>1
  <2>2. CASE i = Len(s) + 1
    BY <2>2, <1>1
  <2> QED
    BY <1>1, <2>1, <2>2
<1>3. t = [i \in 1..Len(t) |-> t[i]]
  BY <1>1
<1> QED
  BY <1>1, <1>2, <1>3

(***************************************************************************)
(* Where each chunk that was taken is: until the tunnel starts, in one of  *)
(* the two buffers; in the tunnel, written to the other peer, but for the  *)
(* one that a loop in Write holds.                                         *)
(***************************************************************************)
Flushed(d) == IF d = "out" THEN buffered ELSE 0

Placed ==
  /\ pc \in {"acl", "hijack"} => buffered = 0
  /\ pc \notin {"reply", "flush", "tunnel", "returned"} => swallowed = 0
  /\ pc \notin {"tunnel", "returned"} =>
       /\ got = [d \in Dirs |-> <<>>]
       /\ n = [d \in Dirs |-> 0]
       /\ \A d \in Dirs : taken[d] = Offset(d) + Flushed(d)
  /\ pc # "returned" => logged # "allow" /\ bytes = [d \in Dirs |-> 0]
  /\ pc = "tunnel" => \A d \in Dirs :
       /\ n[d] + Flushed(d) = Len(got[d])
       /\ copy[d] = "reading" => taken[d] = Offset(d) + Len(got[d])
       /\ copy[d] = "writing" => taken[d] = Offset(d) + Len(got[d]) + 1

Streams == Placed /\ StreamsIntact /\ Accounted

\* Every step of a CONNECT keeps the streams' bookkeeping.
LEMMA StreamsStep == Streams /\ Typed /\ Owned /\ [Next]_vars => Streams'
<1> SUFFICES ASSUME Streams, Typed, Owned, [Next]_vars PROVE Streams'
  OBVIOUS
<1> USE DEF Dirs, Offset, Flushed
<1>1. CASE Deny
  BY <1>1 DEF Deny, Return, Streams, Placed,
     StreamsIntact, Accounted
<1>2. CASE Allow
  BY <1>2 DEF Allow, Streams, Placed,
     StreamsIntact, Accounted
<1>3. CASE HijackFails
  BY <1>3 DEF HijackFails, Return, Streams, Placed,
     StreamsIntact, Accounted
<1>4. CASE Hijack
  <2>1. Placed'
    BY <1>4 DEF Hijack, Streams, Placed, Typed, TypeOK
  <2>2. StreamsIntact'
    BY <1>4 DEF Hijack, Streams, Placed, StreamsIntact
  <2>3. Accounted'
    BY <1>4 DEF Hijack, Streams, Placed, Accounted
  <2> QED
    BY <2>1, <2>2, <2>3 DEF Streams
<1>5. CASE DialTCP
  BY <1>5 DEF DialTCP, Streams, Placed,
     StreamsIntact, Accounted
<1>6. CASE DialFails
  BY <1>6 DEF DialFails, DialError, Refuse, Streams, Placed,
     StreamsIntact, Accounted
<1>7. CASE HandshakeFails
  BY <1>7 DEF HandshakeFails, DialError, Refuse, Streams, Placed,
     StreamsIntact, Accounted
<1>8. CASE Dial
  BY <1>8 DEF Dial, Streams, Placed,
     StreamsIntact, Accounted
<1>9. CASE SendLine
  BY <1>9 DEF SendLine, SetDeadline, Streams, Placed,
     StreamsIntact, Accounted
<1>10. CASE SendFails
  BY <1>10 DEF SendFails, Return, Streams, Placed,
     StreamsIntact, Accounted
<1>11. CASE Accepted
  <2>1. Placed'
    BY <1>11 DEF Accepted, ReadAhead, Streams, Placed, Typed, TypeOK
  <2>2. StreamsIntact'
    BY <1>11, EmptyRow DEF Accepted, ReadAhead, Streams, Placed, StreamsIntact
  <2>3. Accounted'
    BY <1>11 DEF Accepted, ReadAhead, Streams, Placed, Accounted
  <2> QED
    BY <2>1, <2>2, <2>3 DEF Streams
<1>12. CASE DrainBody
  BY <1>12 DEF DrainBody, SetDeadline, Streams, Placed,
     StreamsIntact, Accounted
<1>13. CASE Rejected
  BY <1>13 DEF Rejected, Refuse, Streams, Placed,
     StreamsIntact, Accounted
<1>14. CASE ResponseFails
  BY <1>14 DEF ResponseFails, Refuse, Streams, Placed,
     StreamsIntact, Accounted
<1>15. CASE Reply200
  <2>1. Placed'
    BY <1>15 DEF Reply200, StartTunnel, Streams, Placed, Typed, TypeOK
  <2>2. StreamsIntact'
    BY <1>15 DEF Reply200, StartTunnel, Streams, Placed, StreamsIntact
  <2>3. Accounted'
    BY <1>15 DEF Reply200, StartTunnel, Streams, Placed, Accounted
  <2> QED
    BY <2>1, <2>2, <2>3 DEF Streams
<1>16. CASE Reply200Fails
  BY <1>16 DEF Reply200Fails, Return, Streams, Placed,
     StreamsIntact, Accounted
<1>17. CASE Flush
  <2>1. Placed'
    BY <1>17, FirstRow DEF Flush, StartTunnel, Streams, Placed, Typed, TypeOK
  <2>2. StreamsIntact'
    BY <1>17, FirstRow, EmptyRow
    DEF Flush, StartTunnel, Streams, Placed, StreamsIntact, Typed, TypeOK
  <2>3. Accounted'
    BY <1>17 DEF Flush, StartTunnel, Streams, Placed, Accounted
  <2> QED
    BY <2>1, <2>2, <2>3 DEF Streams
<1>18. CASE FlushFails
  BY <1>18 DEF FlushFails, Return, Streams, Placed,
     StreamsIntact, Accounted
<1>19. CASE TunnelReturns
  <2>1. Placed'
    BY <1>19 DEF TunnelReturns, Return, Streams, Placed, Typed, TypeOK
  <2>2. StreamsIntact'
    BY <1>19 DEF TunnelReturns, Return, Streams, Placed, StreamsIntact
  <2>3. Accounted'
    BY <1>19
    DEF TunnelReturns, Return, Streams, Placed, Accounted, Typed, TypeOK
  <2> QED
    BY <2>1, <2>2, <2>3 DEF Streams
<1>20. CASE Tick
  BY <1>20 DEF Tick, Streams, Placed,
     StreamsIntact, Accounted
<1>21. ASSUME NEW d \in Dirs, ReadChunk(d) PROVE Streams'
  <2>1. Placed'
    BY <1>21 DEF ReadChunk, Streams, Placed, Typed, TypeOK
  <2>2. StreamsIntact'
    BY <1>21 DEF ReadChunk, Streams, Placed, StreamsIntact
  <2>3. Accounted'
    BY <1>21 DEF ReadChunk, Streams, Placed, Accounted
  <2> QED
    BY <2>1, <2>2, <2>3 DEF Streams
<1>22. ASSUME NEW d \in Dirs, WriteChunk(d) PROVE Streams'
  <2> DEFINE s == got[d]
  <2>1. s \in Seq(Nat) /\ Offset(d) \in Nat /\ taken[d] \in Nat /\ n[d] \in Nat
    BY DEF Typed, TypeOK
  <2>2. taken[d] = Offset(d) + Len(s) + 1 /\ n[d] + Flushed(d) = Len(s)
    BY <1>22 DEF WriteChunk, Streams, Placed
  <2>3. s = [i \in 1..Len(s) |-> Offset(d) + i]
    <3>1. CASE d = "out"
      <4>1. s = [i \in 1..Len(s) |-> i]
        BY <3>1 DEF Streams, StreamsIntact
      <4>2. \A i \in 1..Len(s) : i = Offset(d) + i
        BY <3>1, <2>1
      <4> QED
        BY <4>1, <4>2
    <3>2. CASE d = "in"
      BY <3>2 DEF Streams, StreamsIntact
    <3> QED
      BY <3>1, <3>2
  <2>4. /\ got' = [got EXCEPT ![d] = Append(s, taken[d])]
        /\ n' = [n EXCEPT ![d] = @ + 1]
        /\ copy' = [copy EXCEPT ![d] = "reading"]
        /\ UNCHANGED <<pc, logged, bytes, taken, buffered, swallowed>>
        /\ pc = "tunnel"
    BY <1>22 DEF WriteChunk
  <2>5. Append(s, taken[d]) =
          [i \in 1..Len(Append(s, taken[d])) |-> Offset(d) + i]
    <3> DEFINE k == Offset(d)
               x == taken[d]
    <3>1. s \in Seq(Nat) /\ k \in Nat /\ x \in Nat
      BY <2>1
    <3>2. s = [i \in 1..Len(s) |-> k + i] /\ x = k + Len(s) + 1
      BY <2>2, <2>3
    <3> HIDE DEF s, k, x
    <3>3. Append(s, x) = [i \in 1..Len(Append(s, x)) |-> k + i]
      BY <3>1, <3>2, AppendRow, Zenon
    <3> QED
      BY <3>3 DEF k, x
  <2>6. Len(Append(s, taken[d])) = Len(s) + 1 /\ Len(s) \in Nat
    BY <2>1
  <2>7. /\ got'[d] = Append(s, taken[d])
        /\ n'[d] = n[d] + 1
        /\ copy'[d] = "reading"
        /\ \A e \in Dirs \ {d} :
             got'[e] = got[e] /\ n'[e] = n[e] /\ copy'[e] = copy[e]
    BY <2>4 DEF Typed, TypeOK
  <2>8. \A e \in Dirs : Offset(e)' = Offset(e) /\ Flushed(e)' = Flushed(e)
    BY <2>4
  <2>9. Flushed(d) \in Nat
    BY DEF Typed, TypeOK
  <2>10. /\ n'[d] + Flushed(d) = Len(got'[d])
         /\ taken'[d] = Offset(d) + Len(got'[d])
    <3> HIDE DEF s, Offset, Flushed
    <3>1. Len(got'[d]) = Len(s) + 1
      BY <2>6, <2>7
    <3>2. n'[d] + Flushed(d) = Len(s) + 1
      <4>1. n[d] \in Nat /\ n[d] + Flushed(d) = Len(s)
        BY <2>1, <2>2, Zenon
      <4>2. n'[d] = n[d] + 1
        BY <2>7, Zenon
      <4> HIDE DEF Dirs
      <4> QED
        BY <2>9, <4>1, <4>2
    <3>3. taken'[d] = Offset(d) + (Len(s) + 1)
      BY <2>1, <2>2, <2>4, <2>6
    <3> QED
      BY <3>1, <3>2, <3>3
  <2>11. Placed'
    <3> HIDE DEF s, Offset, Flushed, Dirs
    <3>1. ASSUME NEW e \in Dirs
          PROVE  /\ n'[e] + Flushed(e) = Len(got'[e])
                 /\ copy'[e] = "reading" =>
                      taken'[e] = Offset(e) + Len(got'[e])
                 /\ copy'[e] = "writing" =>
                      taken'[e] = Offset(e) + Len(got'[e]) + 1
      <4>1. CASE e = d
        BY <4>1, <2>7, <2>10
      <4>2. CASE e # d
        BY <4>2, <2>4, <2>7 DEF Streams, Placed
      <4> QED
        BY <4>1, <4>2
    <3>2. /\ pc' = "tunnel" /\ logged' # "allow"
          /\ bytes' = [e \in Dirs |-> 0]
      BY <2>4 DEF Streams, Placed
    <3> QED
      BY <2>8, <3>1, <3>2 DEF Placed
  <2>12. StreamsIntact'
    <3>1. CASE d = "out"
      BY <3>1, <2>4, <2>5, <2>7 DEF Streams, StreamsIntact
    <3>2. CASE d = "in"
      BY <3>2, <2>4, <2>5, <2>7 DEF Streams, StreamsIntact
    <3> QED
      BY <3>1, <3>2
  <2>13. Accounted'
    BY <2>4 DEF Streams, Placed, Accounted
  <2> QED
    BY <2>11, <2>12, <2>13 DEF Streams
<1>23. ASSUME NEW d \in Dirs, ReadEnds(d) PROVE Streams'
  BY <1>23 DEF ReadEnds, CloseWrite, Streams, Placed,
     StreamsIntact, Accounted
<1>24. ASSUME NEW d \in Dirs, WriteFails(d) PROVE Streams'
  BY <1>24 DEF WriteFails, CloseWrite, Streams, Placed,
     StreamsIntact, Accounted
<1>25. ASSUME NEW d \in Dirs, Send(d) PROVE Streams'
  BY <1>25 DEF Send, Streams, Placed,
     StreamsIntact, Accounted
<1>26. ASSUME NEW s \in Answers, Respond(s) PROVE Streams'
  BY <1>26 DEF Respond, Streams, Placed,
     StreamsIntact, Accounted
<1>27. ASSUME NEW c \in Conns, CloseSending(c) \/ Leave(c) PROVE Streams'
  BY <1>27 DEF CloseSending, Leave, Streams, Placed,
     StreamsIntact, Accounted
<1>28. CASE UNCHANGED vars
  BY <1>28 DEF vars, Streams, Placed,
     StreamsIntact, Accounted
<1>29. CASE Refused
  BY <1>29 DEF Refused, Return, Streams, Placed,
     StreamsIntact, Accounted
<1> QED
  BY <1>1, <1>2, <1>3, <1>4, <1>5, <1>6, <1>7, <1>8, <1>9, <1>10, <1>11,
     <1>12, <1>13, <1>14, <1>15, <1>16, <1>17, <1>18, <1>19, <1>20, <1>21,
     <1>22, <1>23, <1>24, <1>25, <1>26, <1>27, <1>28, <1>29
  DEF Next, Setup, Copy, Peers

-----------------------------------------------------------------------------
(***************************************************************************)
(* Deadlines.  With prompt peers no time passes while a loop is in Write,  *)
(* so a waiting Read has as much of its deadline left as is left of the    *)
(* idle time, and a Write all of it.                                       *)
(***************************************************************************)
Timed ==
  ~Slow /\ pc = "tunnel" => \A d \in Dirs :
    /\ copy[d] = "reading" => rem[Src(d)] = Idle - idle
    /\ copy[d] = "writing" => rem[Dst(d)] = Idle /\ idle = 0

\* Every step of a CONNECT keeps the relation of deadlines and idle time.
LEMMA TimedStep == Timed /\ Typed /\ Owned /\ [Next]_vars => Timed'
<1> SUFFICES ASSUME Timed, Typed, Owned, [Next]_vars PROVE Timed'
  OBVIOUS
<1> USE DEF Timed, Typed, TypeOK, Dirs, Conns, Src, Dst
<1>1. CASE Deny
  BY <1>1, ConnectAssumption DEF Deny, Return
<1>2. CASE Allow
  BY <1>2, ConnectAssumption DEF Allow
<1>3. CASE HijackFails
  BY <1>3, ConnectAssumption DEF HijackFails, Return
<1>4. CASE Hijack
  BY <1>4, ConnectAssumption DEF Hijack
<1>5. CASE DialTCP
  BY <1>5, ConnectAssumption DEF DialTCP
<1>6. CASE DialFails
  BY <1>6, ConnectAssumption DEF DialFails, DialError, Refuse
<1>7. CASE HandshakeFails
  BY <1>7, ConnectAssumption DEF HandshakeFails, DialError, Refuse
<1>8. CASE Dial
  BY <1>8, ConnectAssumption DEF Dial
<1>9. CASE SendLine
  BY <1>9, ConnectAssumption DEF SendLine, SetDeadline
<1>10. CASE SendFails
  BY <1>10, ConnectAssumption DEF SendFails, Return
<1>11. CASE Accepted
  BY <1>11, ConnectAssumption DEF Accepted, ReadAhead
<1>12. CASE DrainBody
  BY <1>12, ConnectAssumption DEF DrainBody, SetDeadline
<1>13. CASE Rejected
  BY <1>13, ConnectAssumption DEF Rejected, Refuse
<1>14. CASE ResponseFails
  BY <1>14, ConnectAssumption DEF ResponseFails, Refuse
<1>15. CASE Reply200
  BY <1>15, ConnectAssumption DEF Reply200, StartTunnel, SetDeadline
<1>16. CASE Reply200Fails
  BY <1>16, ConnectAssumption DEF Reply200Fails, Return
<1>17. CASE Flush
  BY <1>17, ConnectAssumption DEF Flush, StartTunnel
<1>18. CASE FlushFails
  BY <1>18, ConnectAssumption DEF FlushFails, Return
<1>19. CASE TunnelReturns
  BY <1>19, ConnectAssumption DEF TunnelReturns, Return
<1>20. CASE Tick
  <2> SUFFICES ASSUME ~Slow, pc = "tunnel", NEW d \in Dirs
               PROVE  /\ copy[d] = "reading" => rem'[Src(d)] = Idle - idle'
                      /\ copy[d] # "writing"
    BY <1>20 DEF Tick
  <2>1. Src(d) \in Conns /\ Idle \in Nat /\ idle \in 0..Idle
    BY ConnectAssumption
  <2>2. /\ copy[d] = "reading" => ~Expired(Src(d))
        /\ copy[d] # "writing"
    BY <1>20 DEF Tick, Blocked
  <2>3. copy[d] = "reading" => rem[Src(d)] = Idle - idle
    OBVIOUS
  <2>4. /\ rem'[Src(d)] = IF rem[Src(d)] > 0 THEN rem[Src(d)] - 1 ELSE 0
        /\ idle' = IF idle < Idle THEN idle + 1 ELSE Idle
        /\ Idle > 0
    BY <1>20, <2>1 DEF Tick
  <2> QED
    <3> HIDE DEF Timed, Typed, TypeOK, Src
    <3> QED
      BY <2>1, <2>2, <2>3, <2>4 DEF Expired
<1>21. ASSUME NEW d \in Dirs, ReadChunk(d) PROVE Timed'
  <2> SUFFICES ASSUME ~Slow, NEW e \in Dirs
               PROVE  /\ copy'[e] = "reading" => rem'[Src(e)] = Idle - idle'
                      /\ copy'[e] = "writing" => rem'[Dst(e)] = Idle /\ idle' = 0
    OBVIOUS
  <2>1. /\ pc = "tunnel" /\ idle' = 0 /\ Idle \in Nat
        /\ copy' = [copy EXCEPT ![d] = "writing"]
        /\ rem' = [rem EXCEPT ![Dst(d)] = Idle]
    BY <1>21, ConnectAssumption DEF ReadChunk, SetDeadline
  <2>2. CASE e = d
    BY <2>1, <2>2
  <2>3. CASE e # d
    <3>1. Src(e) = Dst(d) /\ Dst(e) = Src(d) /\ Src(e) # Dst(e)
      BY <2>3
    <3>2. copy'[e] = copy[e]
      BY <2>1, <2>3
    <3> QED
      BY <2>1, <3>1, <3>2
  <2> QED
    BY <2>2, <2>3
<1>22. ASSUME NEW d \in Dirs, WriteChunk(d) PROVE Timed'
  <2> SUFFICES ASSUME ~Slow, NEW e \in Dirs
               PROVE  /\ copy'[e] = "reading" => rem'[Src(e)] = Idle - idle'
                      /\ copy'[e] = "writing" => rem'[Dst(e)] = Idle /\ idle' = 0
    OBVIOUS
  <2>1. /\ pc = "tunnel" /\ idle' = 0 /\ Idle \in Nat
        /\ copy[d] = "writing"
        /\ copy' = [copy EXCEPT ![d] = "reading"]
        /\ rem' = [rem EXCEPT ![Src(d)] = Idle]
    BY <1>22, ConnectAssumption DEF WriteChunk, SetDeadline
  <2>2. CASE e = d
    BY <2>1, <2>2
  <2>3. CASE e # d
    <3>1. Src(e) = Dst(d) /\ Dst(e) = Src(d) /\ Src(e) # Dst(e)
      BY <2>3
    <3>2. copy'[e] = copy[e]
      BY <2>1, <2>3
    <3> QED
      BY <2>1, <3>1, <3>2
  <2> QED
    BY <2>2, <2>3
<1>23. ASSUME NEW d \in Dirs, ReadEnds(d) PROVE Timed'
  BY <1>23, ConnectAssumption DEF ReadEnds, CloseWrite
<1>24. ASSUME NEW d \in Dirs, WriteFails(d) PROVE Timed'
  BY <1>24, ConnectAssumption DEF WriteFails, CloseWrite
<1>25. ASSUME NEW d \in Dirs, Send(d) PROVE Timed'
  BY <1>25, ConnectAssumption DEF Send
<1>26. ASSUME NEW s \in Answers, Respond(s) PROVE Timed'
  BY <1>26, ConnectAssumption DEF Respond
<1>27. ASSUME NEW c \in Conns, CloseSending(c) \/ Leave(c) PROVE Timed'
  BY <1>27, ConnectAssumption DEF CloseSending, Leave
<1>28. CASE UNCHANGED vars
  BY <1>28, ConnectAssumption DEF vars
<1>29. CASE Refused
  BY <1>29, ConnectAssumption DEF Refused, Return
<1> QED
  BY <1>1, <1>2, <1>3, <1>4, <1>5, <1>6, <1>7, <1>8, <1>9, <1>10, <1>11,
     <1>12, <1>13, <1>14, <1>15, <1>16, <1>17, <1>18, <1>19, <1>20, <1>21,
     <1>22, <1>23, <1>24, <1>25, <1>26, <1>27, <1>28, <1>29
  DEF Next, Setup, Copy, Peers

\* A loop only times out when the whole of the idle time has passed.
LEMMA IdleStep ==
  Timed /\ Typed /\ [Next]_vars =>
    (~Slow => \A d \in Dirs : TimesOut(d) => idle = Idle)
<1> SUFFICES ASSUME Timed, Typed, [Next]_vars, ~Slow,
                    NEW d \in Dirs, TimesOut(d)
             PROVE  idle = Idle
  OBVIOUS
<1> USE DEF Timed, Typed, TypeOK, Dirs, Conns, Src, Dst, TimesOut
<1>1. ReadEnds(d) \/ WriteFails(d)
  <2>1. CASE Setup
    BY <2>1 DEF Setup, Deny, Allow, HijackFails, Hijack, DialTCP, DialFails,
      DialError, Refuse, Refused, HandshakeFails, Dial, SendLine, SendFails, Accepted, DrainBody,
      Rejected, ResponseFails, Reply200, StartTunnel, Reply200Fails, Flush,
      FlushFails, Return
  <2>2. ASSUME NEW e \in Dirs, Copy(e) PROVE ReadEnds(d) \/ WriteFails(d)
    <3>1. copy' = [copy EXCEPT ![e] = copy'[e]]
      BY <2>2 DEF Copy, ReadChunk, WriteChunk, ReadEnds, WriteFails
    <3>2. e = d
      BY <3>1
    <3> QED
      BY <2>2, <3>2 DEF Copy, ReadChunk, WriteChunk
  <2>3. CASE TunnelReturns \/ Tick \/ UNCHANGED vars
    BY <2>3 DEF TunnelReturns, Tick, vars
  <2>4. CASE Peers
    BY <2>4 DEF Peers, Respond, Send, CloseSending, Leave
  <2> QED
    BY <2>1, <2>2, <2>3, <2>4 DEF Next
<1>2. CASE ReadEnds(d)
  BY <1>2, ConnectAssumption DEF ReadEnds, Expired
<1>3. CASE WriteFails(d)
  BY <1>3, ConnectAssumption DEF WriteFails, Expired
<1> QED
  BY <1>1, <1>2, <1>3

-----------------------------------------------------------------------------
(***************************************************************************)
(* Reports.  Nothing is counted or logged before the handler returns, and  *)
(* clientBuf is only flushed if it holds something.                        *)
(***************************************************************************)
Quiet ==
  /\ pc # "returned" => counted = "none" /\ logged = "none"
  /\ pc = "flush" => buffered > 0

\* Every step of a CONNECT keeps Quiet.
LEMMA QuietStep == Quiet /\ [Next]_vars => Quiet'
<1> SUFFICES ASSUME Quiet, [Next]_vars PROVE Quiet'
  OBVIOUS
<1> USE DEF Quiet
<1>1. CASE pc' = pc /\ UNCHANGED <<counted, logged, buffered>>
  BY <1>1
<1>2. CASE pc' = "returned"
  BY <1>2
<1>3. CASE Allow \/ Hijack \/ DialTCP \/ Dial \/ SendLine \/ Accepted \/ DrainBody
  BY <1>3 DEF Allow, Hijack, DialTCP, Dial, SendLine, Accepted, DrainBody
<1>4. CASE Reply200 \/ Flush
  BY <1>4 DEF Reply200, Flush, StartTunnel
<1>5. CASE \/ Deny \/ HijackFails \/ SendFails \/ Refused \/ Reply200Fails
           \/ FlushFails \/ TunnelReturns
  BY <1>2, <1>5
  DEF Deny, HijackFails, SendFails, Refused, Reply200Fails, FlushFails,
      TunnelReturns, Return
<1>9. CASE DialFails \/ HandshakeFails \/ Rejected \/ ResponseFails
  BY <1>9 DEF DialFails, HandshakeFails, DialError, Rejected, ResponseFails,
    Refuse
<1>6. ASSUME NEW d \in Dirs, Copy(d) PROVE Quiet'
  BY <1>1, <1>6 DEF Copy, ReadChunk, WriteChunk, ReadEnds, WriteFails
<1>7. CASE Peers
  BY <1>1, <1>7 DEF Peers, Respond, Send, CloseSending, Leave
<1>8. CASE Tick \/ UNCHANGED vars
  BY <1>1, <1>8 DEF Tick, vars
<1> QED
  BY <1>3, <1>4, <1>5, <1>6, <1>7, <1>8, <1>9 DEF Next, Setup

(***************************************************************************)
(* Bounds.  The proxy has read no more than was sent, and the loops run    *)
(* only in the tunnel.                                                     *)
(***************************************************************************)
Bounded ==
  /\ \A d \in Dirs : taken[d] <= sent[d]
  /\ pc \notin {"tunnel", "returned"} => copy = [d \in Dirs |-> "off"]

\* Every step of a CONNECT keeps the bounds.
LEMMA BoundedStep == Bounded /\ Typed /\ [Next]_vars => Bounded'
<1> SUFFICES ASSUME Bounded, Typed, [Next]_vars PROVE Bounded'
  OBVIOUS
<1>1. CASE /\ UNCHANGED <<taken, sent, copy>>
           /\ pc' = pc \/ pc' = "returned" \/ pc \notin {"tunnel", "returned"}
  BY <1>1 DEF Bounded
<1>2. CASE \/ Deny \/ Allow \/ HijackFails \/ DialTCP \/ DialFails
           \/ HandshakeFails \/ Dial \/ SendLine \/ SendFails \/ DrainBody
           \/ Rejected \/ ResponseFails \/ Refused \/ Reply200Fails
           \/ FlushFails \/ TunnelReturns \/ Tick \/ UNCHANGED vars
  BY <1>1, <1>2
  DEF Deny, Allow, HijackFails, DialTCP, DialFails, HandshakeFails, DialError,
      Refuse, Dial, SendLine, SendFails, DrainBody, Rejected, ResponseFails,
      Refused, Reply200Fails, FlushFails, TunnelReturns, Return, Tick, vars
<1>3. CASE Hijack \/ Accepted
  <2>1. /\ UNCHANGED <<sent, copy>>
        /\ pc \notin {"tunnel", "returned"}
        /\ \E d \in Dirs : \E k \in 0..sent[d] : taken' = [taken EXCEPT ![d] = k]
    BY <1>3 DEF Hijack, Accepted, ReadAhead, Dirs
  <2>2. PICK d \in Dirs : \E k \in 0..sent[d] : taken' = [taken EXCEPT ![d] = k]
    BY <2>1
  <2>3. taken \in [Dirs -> Nat] /\ sent \in [Dirs -> Nat]
    BY DEF Typed, TypeOK
  <2>4. \A e \in Dirs : taken'[e] <= sent[e]
    BY <2>2, <2>3 DEF Bounded
  <2> QED
    BY <2>1, <2>4 DEF Bounded
<1>4. CASE Reply200 \/ Flush
  BY <1>4 DEF Reply200, Flush, StartTunnel, Bounded
<1>5. ASSUME NEW d \in Dirs, Copy(d) PROVE Bounded'
  <2>1. taken \in [Dirs -> Nat] /\ sent \in [Dirs -> Nat]
    BY DEF Typed, TypeOK
  <2>2. /\ pc = "tunnel" /\ pc' = pc /\ sent' = sent
        /\ \/ taken' = taken
           \/ taken' = [taken EXCEPT ![d] = @ + 1] /\ taken[d] < sent[d]
    BY <1>5 DEF Copy, ReadChunk, WriteChunk, ReadEnds, WriteFails
  <2>3. \A e \in Dirs : taken'[e] <= sent[e]
    BY <2>1, <2>2 DEF Bounded
  <2> QED
    BY <2>2, <2>3 DEF Bounded
<1>6. ASSUME NEW d \in Dirs, Send(d) PROVE Bounded'
  <2>1. taken \in [Dirs -> Nat] /\ sent \in [Dirs -> Nat]
    BY DEF Typed, TypeOK
  <2>2. /\ UNCHANGED <<pc, taken, copy>>
        /\ sent' = [sent EXCEPT ![d] = @ + 1]
    BY <1>6 DEF Send
  <2>3. \A e \in Dirs : taken[e] <= sent'[e]
    BY <2>1, <2>2 DEF Bounded
  <2> QED
    BY <2>2, <2>3 DEF Bounded
<1>7. CASE \/ \E s \in Answers : Respond(s)
           \/ \E c \in Conns : CloseSending(c) \/ Leave(c)
  BY <1>1, <1>7 DEF Respond, CloseSending, Leave
<1> QED
  BY <1>2, <1>3, <1>4, <1>5, <1>6, <1>7 DEF Next, Setup, Peers

-----------------------------------------------------------------------------
(***************************************************************************)
(* The inductive invariant of all of the above.                            *)
(***************************************************************************)
Inv ==
  /\ Owned /\ Agreed /\ Typed /\ Streams /\ Timed
  /\ Quiet /\ Bounded

\* Every step of a CONNECT keeps it.
LEMMA InvStep == Inv /\ [Next]_vars => Inv'
BY OwnedStep, AgreedStep, TypedStep, StreamsStep, TimedStep, QuietStep,
   BoundedStep
DEF Inv

\* It holds in every behaviour of handleConnect().
LEMMA Invariance == Spec => []Inv
<1>1. Init => Inv
  <2> SUFFICES ASSUME Init PROVE Inv
    OBVIOUS
  <2> USE ConnectAssumption DEF Init, Dirs, Conns
  <2>1. Owned
    BY DEF Owned
  <2>2. Typed
    BY DEF Typed, TypeOK, Sending, Answers
  <2>3. Streams
    BY EmptyRow DEF Streams, Placed, StreamsIntact, Accounted, Offset, Flushed
  <2>4. Timed
    BY DEF Timed
  <2>5. Agreed /\ Quiet /\ Bounded
    BY DEF Agreed, DataOnlyAfterAgreement, Quiet, Bounded
  <2> QED
    BY <2>1, <2>2, <2>3, <2>4, <2>5 DEF Inv
<1> QED
  BY <1>1, InvStep, PTL DEF Spec

\* Every variable of a CONNECT keeps its type; no counter goes below 0.
THEOREM ConnectTypeCorrect == Spec => []TypeOK
<1>1. Inv => TypeOK
  BY DEF Inv, Typed
<1> QED
  BY <1>1, Invariance, PTL

(***************************************************************************)
(* Across the hand-over from the two bufio.Readers to the io.Copy loops,   *)
(* neither stream loses, repeats or reorders a chunk after its first one.  *)
(***************************************************************************)
THEOREM StreamsKept == Spec => []StreamsIntact
<1>1. Inv => StreamsIntact
  BY DEF Inv, Streams
<1> QED
  BY <1>1, Invariance, PTL

(***************************************************************************)
(* The byte counts of the audit event and of bytesTransferred are final,   *)
(* and with the flush they are what the peers got.                         *)
(***************************************************************************)
THEOREM AccountedFor == Spec => []Accounted
<1>1. Inv => Accounted
  BY DEF Inv, Streams
<1> QED
  BY <1>1, Invariance, PTL

(***************************************************************************)
(* The deadlines of the two legs are one shared idle timer.                *)
(***************************************************************************)
THEOREM OneTimer == Spec => []SharedTimer
<1>1. Inv => SharedTimer
  BY DEF Inv, Timed, SharedTimer, Dirs, Src
<1> QED
  BY <1>1, Invariance, PTL

(***************************************************************************)
(* idleTimeoutConn cuts off a direction only after a genuine idle period.  *)
(***************************************************************************)
THEOREM IdleIsGenuine == Spec => GenuineIdle
<1>1. Inv /\ [Next]_vars =>
        [~Slow => \A d \in Dirs : TimesOut(d) => idle = Idle]_vars
  BY IdleStep DEF Inv
<1> QED
  BY <1>1, Invariance, PTL DEF Spec, GenuineIdle

-----------------------------------------------------------------------------
(***************************************************************************)
(* Ends.  Only ReadEnds and WriteFails end a loop, and of the two only a   *)
(* Read at the end of the stream is no failure.                            *)
(***************************************************************************)
LEMMA EndStep ==
  ASSUME Inv, [Next]_vars, NEW d \in Dirs, EndsInOrder(d)
  PROVE  Src(d) \in fin /\ Offset(d) + Len(got[d]) = sent[d]
<1> USE DEF EndsInOrder
<1>1. copy[d] # copy'[d]
  OBVIOUS
<1>2. ReadEnds(d) \/ WriteFails(d)
  <2>1. CASE Setup
    BY <1>1, <2>1
    DEF Setup, Deny, Allow, HijackFails, Hijack, DialTCP, DialFails, DialError,
      Refuse, Refused, HandshakeFails, Dial, SendLine, SendFails, Accepted, DrainBody, Rejected,
      ResponseFails, Reply200, StartTunnel, Reply200Fails, Flush, FlushFails,
      Return
  <2>2. ASSUME NEW e \in Dirs, Copy(e) PROVE ReadEnds(d) \/ WriteFails(d)
    <3>1. copy' = [copy EXCEPT ![e] = copy'[e]]
      BY <2>2 DEF Copy, ReadChunk, WriteChunk, ReadEnds, WriteFails, Inv,
                  Typed, TypeOK
    <3>2. e = d
      BY <1>1, <3>1 DEF Inv, Typed, TypeOK
    <3> QED
      BY <2>2, <3>2 DEF Copy, ReadChunk, WriteChunk, Inv, Typed, TypeOK
  <2>3. CASE TunnelReturns \/ Tick \/ UNCHANGED vars
    BY <1>1, <2>3 DEF TunnelReturns, Tick, vars
  <2>4. CASE Peers
    BY <1>1, <2>4 DEF Peers, Respond, Send, CloseSending, Leave
  <2> QED
    BY <2>1, <2>2, <2>3, <2>4 DEF Next
<1>3. Src(d) \in Conns /\ Dst(d) \in Conns
  BY DEF Src, Dst, Conns
<1>4. ReadEnds(d) /\ Src(d) \in fin /\ taken[d] = sent[d]
  BY <1>2, <1>3 DEF ReadEnds, WriteFails
<1>5. taken[d] = Offset(d) + Len(got[d])
  BY <1>4 DEF ReadEnds, Inv, Streams, Placed
<1> QED
  BY <1>4, <1>5

(***************************************************************************)
(* tunnel(): a direction that ends in order has passed on all that its     *)
(* peer sent, for any number of chunks and wherever the hand-over from the *)
(* buffers came.                                                           *)
(***************************************************************************)
THEOREM WholeAtTheEnd == Spec => EndsWhole
<1>1. Inv /\ [Next]_vars =>
        [\A d \in Dirs : EndsInOrder(d) =>
           Src(d) \in fin /\ Offset(d) + Len(got[d]) = sent[d]]_vars
  BY EndStep
<1> QED
  BY <1>1, Invariance, PTL DEF Spec, EndsWhole

-----------------------------------------------------------------------------
(***************************************************************************)
(* Progress.  The parts of Work are natural numbers.                       *)
(***************************************************************************)
LEMMA WorkParts ==
  ASSUME Typed, Bounded
  PROVE  /\ Stage \in Nat /\ LinesLeft \in Nat
         /\ Pending("out") \in Nat /\ Pending("in") \in Nat
         /\ rem["client"] \in Nat /\ rem["upstream"] \in Nat
<1>1. Stage \in Nat
  BY DEF Stage
<1>2. LinesLeft \in Nat
  BY ConnectAssumption DEF LinesLeft, Typed, TypeOK
<1>3. ASSUME NEW d \in Dirs PROVE Pending(d) \in Nat
  <2>1. sent[d] \in Nat /\ taken[d] \in Nat /\ taken[d] <= sent[d]
    BY DEF Typed, TypeOK, Bounded
  <2>2. sent[d] - taken[d] \in Nat
    BY <2>1
  <2> QED
    BY <2>2 DEF Pending
<1>4. rem["client"] \in Nat /\ rem["upstream"] \in Nat
  BY ConnectAssumption DEF Typed, TypeOK, Conns
<1> QED
  BY <1>1, <1>2, <1>3, <1>4 DEF Dirs

\* Arithmetic: less in the first two, no more in the others.
LEMMA LessWork ==
  ASSUME NEW a \in Nat, NEW b \in Nat, NEW c \in Nat, NEW d \in Nat,
         NEW w \in Nat, NEW x \in Nat, NEW y \in Nat, NEW z \in Nat,
         w + x < a + b, y <= c, z <= d
  PROVE  w + x + y + z \in Nat /\ w + x + y + z < a + b + c + d
  OBVIOUS

\* Arithmetic: no more in the first, less in the other.
LEMMA LessStage ==
  ASSUME NEW a \in Nat, NEW b \in Nat, NEW c \in Nat, NEW d \in Nat,
         c <= a, d < b
  PROVE  c + d < a + b
  OBVIOUS

Progress ==
  \/ Work' \in Nat /\ Work' < Work
  \/ Work' = Work /\ TimeLeft' \in Nat /\ TimeLeft' < TimeLeft

\* A stage that is left without touching the streams is progress.
LEMMA StageWork ==
  ASSUME Typed, Bounded, Typed', Bounded',
         Stage' + LinesLeft' < Stage + LinesLeft,
         Pending("out")' <= Pending("out"), Pending("in")' <= Pending("in")
  PROVE  Progress
<1>1. /\ Stage \in Nat /\ LinesLeft \in Nat
      /\ Pending("out") \in Nat /\ Pending("in") \in Nat
  BY WorkParts
<1>2. /\ Stage' \in Nat /\ LinesLeft' \in Nat
      /\ Pending("out")' \in Nat /\ Pending("in")' \in Nat
  <2>1. (Typed /\ Bounded => /\ Stage \in Nat /\ LinesLeft \in Nat
                             /\ Pending("out") \in Nat /\ Pending("in") \in Nat)'
    BY WorkParts, PTL
  <2> QED
    BY <2>1
<1>3. Work' \in Nat /\ Work' < Work
  BY <1>1, <1>2, LessWork DEF Work
<1> QED
  BY <1>3 DEF Progress

\* So is a chunk that moves or a loop that ends.
LEMMA LoopWork ==
  ASSUME Typed, Bounded, Typed', Bounded', UNCHANGED <<pc, lines>>,
         NEW d \in Dirs, Pending(d)' < Pending(d),
         \A e \in Dirs \ {d} : Pending(e)' = Pending(e)
  PROVE  Progress
<1>1. /\ Stage \in Nat /\ LinesLeft \in Nat
      /\ Pending("out") \in Nat /\ Pending("in") \in Nat
  BY WorkParts
<1>2. (Typed /\ Bounded => Pending("out") \in Nat /\ Pending("in") \in Nat)'
  BY WorkParts, PTL
<1>3. Stage' = Stage /\ LinesLeft' = LinesLeft
  BY DEF Stage, LinesLeft
<1>4. \/ /\ Pending("out")' < Pending("out")
         /\ Pending("in")' = Pending("in")
      \/ /\ Pending("in")' < Pending("in")
         /\ Pending("out")' = Pending("out")
  BY DEF Dirs
<1> QED
  BY <1>1, <1>2, <1>3, <1>4 DEF Progress, Work
\* A step of the handler, its loops or the clock is progress.
LEMMA SpinStep ==
  ASSUME Inv, Inv', Next
  PROVE  Peers \/ Progress
<1>1. Typed /\ Bounded /\ Typed' /\ Bounded'
  BY DEF Inv
<1>2. ASSUME UNCHANGED <<sent, taken, copy>>,
             Stage' + LinesLeft' < Stage + LinesLeft
      PROVE  Progress
  <2>1. Pending("out")' = Pending("out") /\ Pending("in")' = Pending("in")
    BY <1>2 DEF Pending
  <2> QED
    BY <1>1, <1>2, <2>1, StageWork, WorkParts
<1>3. ASSUME UNCHANGED <<sent, taken, copy>>, pc # "returned", pc' = "returned"
      PROVE  Progress
  <2>1. Stage' = 0 /\ LinesLeft' = 0
    BY <1>3 DEF Stage, LinesLeft
  <2>2. pc \in {"acl", "hijack", "dial", "handshake", "send", "response",
                "body", "answer", "reply", "flush", "tunnel"}
    BY <1>1, <1>3 DEF Typed, TypeOK
  <2>3. Stage \in Nat /\ Stage > 0
    BY <2>2 DEF Stage
  <2>4. LinesLeft \in Nat
    BY <1>1, WorkParts
  <2>5. Stage' + LinesLeft' < Stage + LinesLeft
    BY <2>1, <2>3, <2>4
  <2> QED
    BY <1>2, <1>3, <2>5
<1>4. CASE \/ Deny \/ HijackFails \/ SendFails \/ Refused \/ Reply200Fails
           \/ FlushFails \/ TunnelReturns
  BY <1>3, <1>4
  DEF Deny, HijackFails, SendFails, Refused, Reply200Fails, FlushFails,
      TunnelReturns, Return
<1>12. CASE DialFails \/ HandshakeFails \/ Rejected \/ ResponseFails
  <2>1. /\ UNCHANGED <<sent, taken, copy>> /\ pc' = "answer"
        /\ pc \in {"dial", "handshake", "response", "body"}
    BY <1>12 DEF DialFails, HandshakeFails, DialError, Rejected, ResponseFails,
      Refuse
  <2>2. Stage' = 1 /\ LinesLeft' = 0
    BY <2>1 DEF Stage, LinesLeft
  <2>3. Stage \in Nat /\ Stage > 1
    BY <2>1 DEF Stage
  <2>4. LinesLeft \in Nat
    BY <1>1, WorkParts
  <2>5. Stage' + LinesLeft' < Stage + LinesLeft
    BY <2>2, <2>3, <2>4
  <2> QED
    BY <1>2, <2>1, <2>5
<1>5. CASE Allow \/ DialTCP \/ DrainBody
  <2>1. UNCHANGED <<sent, taken, copy>> /\ LinesLeft' = LinesLeft
    BY <1>5 DEF Allow, DialTCP, DrainBody, LinesLeft
  <2>2. Stage' < Stage /\ Stage' \in Nat /\ Stage \in Nat
    BY <1>5 DEF Allow, DialTCP, DrainBody, Stage
  <2> QED
    BY <1>1, <1>2, <2>1, <2>2, WorkParts
<1>6. CASE Dial
  <2>1. UNCHANGED <<sent, taken, copy>> /\ LinesLeft' = LinesLeft
    BY <1>6 DEF Dial, LinesLeft
  <2>2. Stage' < Stage /\ Stage' \in Nat /\ Stage \in Nat
    BY <1>6 DEF Dial, Stage
  <2> QED
    BY <1>1, <1>2, <2>1, <2>2, WorkParts
<1>7. CASE SendLine
  <2>1. UNCHANGED <<sent, taken, copy>>
    BY <1>7 DEF SendLine
  <2>2. lines \in Nat /\ lines > 0 /\ LinesLeft = lines
    BY <1>1, <1>7, ConnectAssumption DEF SendLine, LinesLeft, Typed, Sending
  <2>3. LinesLeft' = lines - 1
    BY <1>7, <2>2 DEF SendLine, LinesLeft
  <2>4. Stage' <= Stage /\ Stage' \in Nat /\ Stage \in Nat
    BY <1>7 DEF SendLine, Stage
  <2>5. LinesLeft' \in Nat /\ LinesLeft \in Nat /\ LinesLeft' < LinesLeft
    BY <2>2, <2>3
  <2>6. Stage' + LinesLeft' < Stage + LinesLeft
    BY <2>4, <2>5, LessStage
  <2> QED
    BY <1>2, <2>1, <2>6
<1>8. CASE Hijack \/ Accepted
  <2>1. PICK d \in Dirs : \E k \in Nat :
          /\ taken' = [taken EXCEPT ![d] = k]
          /\ taken[d] = 0
          /\ UNCHANGED <<sent, copy>>
    <3>1. CASE Hijack
      <4>1. \E k \in Nat : taken' = [taken EXCEPT !["out"] = k]
        BY <1>1, <3>1 DEF Hijack, Typed, TypeOK, Dirs
      <4>2. taken["out"] = 0
        BY <3>1 DEF Hijack, Inv, Streams, Placed, Offset, Flushed, Dirs
      <4> QED
        BY <3>1, <4>1, <4>2 DEF Hijack, Dirs
    <3>2. CASE Accepted
      <4>1. \E k \in Nat : taken' = [taken EXCEPT !["in"] = k]
        BY <1>1, <3>2 DEF Accepted, ReadAhead, Typed, TypeOK, Dirs
      <4>2. taken["in"] = 0
        BY <3>2 DEF Accepted, Inv, Streams, Placed, Offset, Flushed, Dirs
      <4> QED
        BY <3>2, <4>1, <4>2 DEF Accepted, Dirs
    <3> QED
      BY <1>8, <3>1, <3>2
  <2>2. ASSUME NEW e \in Dirs PROVE Pending(e)' <= Pending(e)
    <3>1. taken \in [Dirs -> Nat] /\ sent[e] \in Nat
      BY <1>1 DEF Typed, TypeOK
    <3>2. taken'[e] \in Nat /\ taken[e] \in Nat /\ taken[e] <= taken'[e]
      BY <2>1, <3>1
    <3> QED
      BY <2>1, <3>1, <3>2 DEF Pending
  <2>3. LinesLeft' = LinesLeft
    BY <1>8 DEF Hijack, Accepted, LinesLeft
  <2>4. Stage' < Stage /\ Stage' \in Nat /\ Stage \in Nat
    BY <1>8 DEF Hijack, Accepted, Stage
  <2>5. Stage' + LinesLeft' < Stage + LinesLeft
    BY <1>1, <2>3, <2>4, WorkParts
  <2> QED
    BY <1>1, <2>2, <2>5, StageWork DEF Dirs
<1>9. CASE Reply200 \/ Flush
  <2>1. UNCHANGED <<sent, taken>>
    BY <1>9 DEF Reply200, Flush
  <2>2. copy = [d \in Dirs |-> "off"]
    BY <1>1, <1>9 DEF Reply200, Flush, Bounded
  <2>3. copy' = copy \/ copy' = [d \in Dirs |-> "reading"]
    BY <1>9 DEF Reply200, Flush, StartTunnel
  <2>4. ASSUME NEW d \in Dirs PROVE Pending(d)' = Pending(d)
    BY <2>1, <2>2, <2>3 DEF Pending
  <2>5. LinesLeft' = LinesLeft
    BY <1>9 DEF Reply200, Flush, StartTunnel, LinesLeft
  <2>6. Stage' < Stage /\ Stage' \in Nat /\ Stage \in Nat
    BY <1>9 DEF Reply200, Flush, StartTunnel, Stage
  <2>7. /\ Pending("out")' <= Pending("out") /\ Pending("in")' <= Pending("in")
        /\ Stage' + LinesLeft' < Stage + LinesLeft
    BY <1>1, <2>4, <2>5, <2>6, WorkParts DEF Dirs
  <2> QED
    BY <1>1, <2>7, StageWork
<1>10. ASSUME NEW d \in Dirs, Copy(d) PROVE Progress
  <2>1. UNCHANGED <<pc, lines, sent>>
    BY <1>10 DEF Copy, ReadChunk, WriteChunk, ReadEnds, WriteFails
  <2>2. sent \in [Dirs -> Nat] /\ taken \in [Dirs -> Nat]
    BY <1>1 DEF Typed, TypeOK
  <2>3. copy \in [Dirs -> {"off", "reading", "writing", "done"}]
    BY <1>1 DEF Typed, TypeOK
  <2>4. \/ /\ copy[d] = "reading" /\ copy' = [copy EXCEPT ![d] = "writing"]
           /\ taken' = [taken EXCEPT ![d] = @ + 1]
        \/ /\ copy[d] = "writing" /\ copy' = [copy EXCEPT ![d] = "reading"]
           /\ taken' = taken
        \/ /\ copy[d] \in {"reading", "writing"}
           /\ copy' = [copy EXCEPT ![d] = "done"]
           /\ taken' = taken
    BY <1>10 DEF Copy, ReadChunk, WriteChunk, ReadEnds, WriteFails
  <2>5. Pending(d)' < Pending(d)
    BY <2>1, <2>2, <2>3, <2>4 DEF Pending
  <2>6. \A e \in Dirs \ {d} : Pending(e)' = Pending(e)
    BY <2>1, <2>2, <2>3, <2>4 DEF Pending
  <2> QED
    BY <1>1, <2>1, <2>5, <2>6, LoopWork
<1>11. CASE Tick
  <2>1. /\ UNCHANGED <<pc, lines, sent, taken, copy>> /\ Idle > 0
        /\ rem' = [c \in Conns |-> IF rem[c] > 0 THEN rem[c] - 1 ELSE 0]
    BY <1>11 DEF Tick
  <2>2. Work' = Work
    BY <2>1 DEF Work, Stage, LinesLeft, Pending
  <2>3. rem["client"] \in Nat /\ rem["upstream"] \in Nat
    BY <1>1, WorkParts
  <2>4. rem["client"] > 0 \/ rem["upstream"] > 0
    <3>1. ~Expired("client") \/ ~Expired("upstream")
      <4>1. CASE pc # "tunnel"
        BY <1>11, <4>1 DEF Tick, Blocked
      <4>2. CASE pc = "tunnel"
        <5>1. PICK d \in Dirs : copy[d] # "done"
          BY <1>11, <4>2 DEF Tick, Blocked
        <5>2. ~Expired(Src(d)) \/ ~Expired(Dst(d))
          BY <1>11, <4>2, <5>1 DEF Tick, Blocked
        <5> QED
          BY <5>2 DEF Src, Dst
      <4> QED
        BY <4>1, <4>2
    <3> QED
      BY <2>1, <2>3, <3>1 DEF Expired
  <2>5. /\ rem'["client"] = IF rem["client"] > 0 THEN rem["client"] - 1 ELSE 0
        /\ rem'["upstream"] =
             IF rem["upstream"] > 0 THEN rem["upstream"] - 1 ELSE 0
    BY <2>1 DEF Conns
  <2>6. TimeLeft' \in Nat /\ TimeLeft' < TimeLeft
    BY <2>3, <2>4, <2>5 DEF TimeLeft
  <2> QED
    BY <2>2, <2>6 DEF Progress
<1> QED
  BY <1>4, <1>5, <1>6, <1>7, <1>8, <1>9, <1>10, <1>11, <1>12
  DEF Next, Setup

(***************************************************************************)
(* handleConnect() and tunnel() never spin: for any timeout, number of     *)
(* header lines and chunks, what is left to do falls with every step until *)
(* a peer moves.                                                           *)
(***************************************************************************)
THEOREM NoSpin == Spec => NeverSpins
<1>1. Inv /\ Inv' /\ [Next]_vars =>
        [\/ Peers
         \/ Work' \in Nat /\ Work' < Work
         \/ Work' = Work /\ TimeLeft' \in Nat /\ TimeLeft' < TimeLeft]_vars
  BY SpinStep DEF Progress
<1> QED
  BY <1>1, Invariance, PTL DEF Spec, NeverSpins

-----------------------------------------------------------------------------
(***************************************************************************)
(* Refinement.  What the upstream and the client have got, and the report, *)
(* change only in the steps that pass on data, dial or return.             *)
(***************************************************************************)
LEMMA RequestStutter ==
  ASSUME \/ pc # "returned" /\ pc' # "returned"
         \/ UNCHANGED <<pc, counted, logged, bytes>>,
         UNCHANGED <<gauge, got>>
  PROVE  UNCHANGED Request!vars
BY DEF Request!vars

\* Every error return of the handler is a failure of the request.
LEMMA RequestFails ==
  ASSUME Inv, pc # "returned", pc # "tunnel",
         pc' = "returned", gauge' = 0, UNCHANGED <<logged, bytes>>,
         counted' \in {"none", "upstream_error", "upstream_rejected"},
         got'["in"] = got["in"],
         got'["out"] = got["out"] \/ (gauge = 1 /\ Len(got'["out"]) \in Nat)
  PROVE  Request!Fail
<1>1. got["in"] = <<>> /\ got["out"] = <<>>
  BY DEF Inv, Owned, Agreed, Dirs
<1>2. logged' = "none"
  BY DEF Inv, Quiet
<1>3. bytes'["in"] = 0
  BY DEF Inv, Streams, Placed, Dirs
<1>4. Len(got["in"]) = 0 /\ Len(got'["in"]) = 0 /\ Len(got["out"]) = 0
  BY <1>1
<1>5. Len(got'["out"]) >= Len(got["out"])
  BY <1>4
<1>6. gauge = 0 => Len(got'["out"]) = Len(got["out"])
  OBVIOUS
<1>7. Request!Return(counted', "none", 0)
  BY <1>2, <1>3 DEF Request!Return, Request!Running
<1> QED
  BY <1>4, <1>5, <1>6, <1>7 DEF Request!Fail

\* Every step of a CONNECT is a step of ProxiedRequest or a stutter.
LEMMA RequestStep == Inv /\ [Next]_vars => [Request!Next]_(Request!vars)
<1> SUFFICES ASSUME Inv, [Next]_vars
             PROVE  Request!Next \/ UNCHANGED Request!vars
  OBVIOUS
<1>1. CASE Deny
  <2>1. /\ pc = "acl" /\ pc' = "returned" /\ gauge = 0 /\ gauge' = 0
        /\ counted' = "deny" /\ logged' = "deny" /\ UNCHANGED <<got, bytes>>
    BY <1>1 DEF Deny, Return, Inv, Owned
  <2>2. bytes["in"] = 0
    BY <2>1 DEF Inv, Streams, Placed, Dirs
  <2>3. Request!Refuse
    BY <2>1, <2>2 DEF Request!Refuse, Request!Return, Request!Running
  <2> QED
    BY <2>3 DEF Request!Next
<1>2. CASE \/ Allow \/ Hijack \/ DialTCP \/ SendLine \/ Accepted \/ DrainBody
           \/ Reply200
  BY <1>2, RequestStutter
  DEF Allow, Hijack, DialTCP, SendLine, Accepted, DrainBody, Reply200,
      StartTunnel
<1>12. CASE DialFails \/ HandshakeFails \/ Rejected \/ ResponseFails
  BY <1>12, RequestStutter
  DEF DialFails, HandshakeFails, DialError, Rejected, ResponseFails, Refuse
<1>3. CASE HijackFails \/ SendFails \/ Refused \/ Reply200Fails
  <2>1. /\ pc # "returned" /\ pc # "tunnel" /\ pc' = "returned"
        /\ UNCHANGED <<logged, bytes, got>>
        /\ \/ counted' = counted
           \/ counted' \in {"upstream_error", "upstream_rejected"}
    BY <1>3
    DEF HijackFails, SendFails, Refused, Reply200Fails, Return
  <2>2. counted' \in {"none", "upstream_error", "upstream_rejected"}
    BY <2>1 DEF Inv, Quiet
  <2>3. Inv'
    BY InvStep
  <2>4. gauge' = 0
    BY <2>1, <2>3 DEF Inv, Owned
  <2>5. Request!Fail
    BY <2>1, <2>2, <2>4, RequestFails
  <2> QED
    BY <2>5 DEF Request!Next
<1>4. CASE Dial
  <2>1. Request!Admit
    BY <1>4 DEF Dial, Inv, Owned, Request!Admit, Request!Running
  <2> QED
    BY <2>1 DEF Request!Next
<1>5. CASE Flush
  <2>1. /\ pc = "flush" /\ pc' = "tunnel" /\ gauge = 1 /\ gauge' = 1
        /\ got = [d \in Dirs |-> <<>>] /\ buffered \in Nat /\ buffered > 0
        /\ got' = [got EXCEPT !["out"] = [i \in 1..buffered |-> i]]
    BY <1>5 DEF Flush, StartTunnel, Inv, Owned, Agreed, Quiet, Typed, TypeOK
  <2>2. /\ got'["in"] = got["in"] /\ got["out"] = <<>>
        /\ got'["out"] = [i \in 1..buffered |-> i]
    BY <2>1 DEF Dirs
  <2>3. Len(got'["out"]) = buffered /\ Len(got["out"]) = 0
    BY <2>1, <2>2, FirstRow
  <2>4. Request!Push
    BY <2>1, <2>2, <2>3 DEF Request!Push
  <2> QED
    BY <2>4 DEF Request!Next
<1>6. CASE FlushFails
  <2>1. PICK k \in 0..(buffered - 1) :
          got' = [got EXCEPT !["out"] = [i \in 1..k |-> i]]
    BY <1>6 DEF FlushFails
  <2>2. /\ pc = "flush" /\ pc' = "returned" /\ gauge = 1
        /\ UNCHANGED <<counted, logged, bytes>>
        /\ got = [d \in Dirs |-> <<>>]
    BY <1>6 DEF FlushFails, Return, Inv, Owned, Agreed
  <2>3. Inv'
    BY InvStep
  <2>4. gauge' = 0
    BY <2>2, <2>3 DEF Inv, Owned
  <2>5. counted' = "none"
    BY <2>2 DEF Inv, Quiet
  <2>6. got'["in"] = got["in"] /\ Len(got'["out"]) \in Nat
    BY <2>1, <2>2, FirstRow DEF Dirs
  <2>7. Request!Fail
    BY <2>2, <2>4, <2>5, <2>6, RequestFails
  <2> QED
    BY <2>7 DEF Request!Next
<1>7. ASSUME NEW d \in Dirs, WriteChunk(d) PROVE Request!Next
  <2>1. /\ pc = "tunnel" /\ pc' = "tunnel" /\ gauge = 1 /\ gauge' = 1
        /\ got \in [Dirs -> Seq(Nat)] /\ taken[d] \in Nat
        /\ got' = [got EXCEPT ![d] = Append(@, taken[d])]
    BY <1>7 DEF WriteChunk, Inv, Owned, Typed, TypeOK
  <2>2. /\ got'[d] = Append(got[d], taken[d]) /\ got[d] \in Seq(Nat)
        /\ \A e \in Dirs \ {d} : got'[e] = got[e]
    BY <2>1
  <2>3. Len(got'[d]) = Len(got[d]) + 1 /\ Len(got[d]) \in Nat
    BY <2>1, <2>2
  <2>4. CASE d = "out"
    <3>1. Request!Push
      BY <2>1, <2>2, <2>3, <2>4 DEF Dirs, Request!Push
    <3> QED
      BY <3>1 DEF Request!Next
  <2>5. CASE d = "in"
    <3>1. Request!Relay
      BY <2>1, <2>2, <2>3, <2>5 DEF Dirs, Request!Relay, Request!Running
    <3> QED
      BY <3>1 DEF Request!Next
  <2> QED
    BY <2>4, <2>5 DEF Dirs
<1>8. CASE TunnelReturns
  <2>1. /\ pc = "tunnel" /\ pc' = "returned" /\ bytes' = n
        /\ counted' = "allow" /\ logged' = "allow" /\ UNCHANGED got
    BY <1>8 DEF TunnelReturns, Return
  <2>2. Inv'
    BY InvStep
  <2>3. gauge = 1 /\ gauge' = 0
    BY <2>1, <2>2 DEF Inv, Owned
  <2>4. n["in"] = Len(got["in"])
    <3>1. n["in"] + Flushed("in") = Len(got["in"])
      BY <2>1 DEF Inv, Streams, Placed, Dirs
    <3>2. Flushed("in") = 0 /\ n["in"] \in Nat
      BY DEF Flushed, Inv, Typed, TypeOK, Dirs
    <3> QED
      BY <3>1, <3>2
  <2>5. Request!Serve
    BY <2>1, <2>3, <2>4 DEF Request!Serve, Request!Return, Request!Running
  <2> QED
    BY <2>5 DEF Request!Next
<1>9. ASSUME NEW d \in Dirs, ReadChunk(d) \/ ReadEnds(d) \/ WriteFails(d)
      PROVE  UNCHANGED Request!vars
  BY <1>9, RequestStutter DEF ReadChunk, ReadEnds, WriteFails
<1>10. CASE Peers
  BY <1>10, RequestStutter DEF Peers, Respond, Send, CloseSending, Leave
<1>11. CASE Tick \/ UNCHANGED vars
  BY <1>11, RequestStutter DEF Tick, vars
<1> QED
  BY <1>1, <1>2, <1>3, <1>4, <1>5, <1>6, <1>7, <1>8, <1>9, <1>10, <1>11,
     <1>12
  DEF Next, Setup, Copy

(***************************************************************************)
(* handleConnect() implements ProxiedRequest: on every path, error returns *)
(* and partial writes included, its reports agree with what was passed on. *)
(***************************************************************************)
THEOREM ConnectKeepsPromise == Spec => ImplementsRequest
<1>1. Init => Request!Init
  BY DEF Init, Request!Init, Dirs
<1> QED
  BY <1>1, RequestStep, Invariance, PTL DEF Spec, ImplementsRequest, Request!Spec
=============================================================================
