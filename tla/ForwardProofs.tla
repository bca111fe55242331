---------------------------- MODULE ForwardProofs ----------------------------
(***************************************************************************)
(* Theorems about ForwardRequest, for any requests, allowlist, timeouts    *)
(* and bounds.                                                             *)
(***************************************************************************)
EXTENDS ForwardRequest, TLAPS

-----------------------------------------------------------------------------
(***************************************************************************)
(* The inductive invariant.  Control: what the handler has and has not     *)
(* done where it is.  Sent: what holds of a request whose head was sent.   *)
(***************************************************************************)
Control ==
  /\ gauge = IF pc \in {"start", "returned"} THEN 0 ELSE 1
  /\ pc # "returned" => event = <<>> /\ counted = "none"
  /\ pc \in {"start", "getconn", "send", "await"} =>
       reply = "none" /\ relayed = 0 /\ delivered = 0 /\ ~early /\ srv = "idle"
  /\ pc = "start" => tries = 0 /\ writer = "off"
  /\ pc = "copy" => reply = "upstream"
  /\ ended # "open" => srv = "finished"
  /\ srv = "finished" => pc = "returned"

Repeatable == req.body = "none" /\ req.idempotent

Sent ==
  /\ pc \in {"getconn", "send"} /\ tries > 0 => Repeatable
  /\ pc \in {"getconn", "send", "await"} \/ tries > 0 =>
       Target(req) \in ACL /\ out = upstreamHeaders(req.headers)
  /\ pc \in {"send", "await"} \/ tries > 0 => Supported

(***************************************************************************)
(* Counts: who has read how much of the body.  Chunk i of what the         *)
(* upstream got is at least the client's i-th, and the chunks after it fit *)
(* into what was read since.  Writing: the write loop outlives RoundTrip   *)
(* only after an early answer or on a connection that is closed.           *)
(***************************************************************************)
Counts ==
  /\ bytesOut <= n /\ Len(upGot) <= n
  /\ Len(upGot) <= taken /\ taken <= arrived
  /\ writer # "failed" => n = Len(upGot)
  /\ writer # "failed" /\ srv = "idle" => taken = Len(upGot)
  /\ \A i \in 1..Len(upGot) : i <= upGot[i] /\ upGot[i] + Len(upGot) <= taken + i

Writing ==
  /\ req.body = "none" =>
       writer \in {"off", "done"} /\ upEnd = "open" /\ upGot = <<>>
  /\ req.body # "none" /\ pc \in {"start", "getconn", "send"} =>
       writer = "off" /\ upEnd = "open"
  /\ writer = "reading" => \/ pc = "await"
                           \/ pc \in {"copy", "returned"} /\ early
                           \/ pc = "returned" /\ broken
  /\ reply = "upstream" /\ ~early => writer = "done" /\ bytesOut = Len(upGot)

Complete ==
  upEnd = "clean" =>
    /\ writer = "done"
    /\ eof
    /\ \/ early /\ req.body # "known"
       \/ Len(upGot) = arrived /\ taken = arrived

(***************************************************************************)
(* Headers: a declared length gets to the client, unless it has left.      *)
(***************************************************************************)
Headers ==
  /\ resp = "none" => respHeaders = {}
  /\ pc \in {"start", "getconn", "send"} => resp = "none"
  /\ pc = "copy" => resp # "none"
  /\ pc \in {"copy", "returned"} /\ "Content-Length" \in respHeaders =>
       gone \/ "Content-Length" \in shown

(***************************************************************************)
(* Passed: an early answer is one that was served, or is being served, and *)
(* the client gets no more than was passed on of what the upstream sent,   *)
(* and what it gets after the return it gets of a request that was served. *)
(***************************************************************************)
Passed ==
  /\ early => pc = "copy" \/ (pc = "returned" /\ counted = "allow")
  /\ delivered <= relayed /\ relayed <= respSent
  /\ relayed > 0 => pc = "copy" \/ (pc = "returned" /\ counted = "allow")

(***************************************************************************)
(* Every request is settled when the handler returns: the gauge is back,   *)
(* one decision is counted, and the audit event agrees with it and with    *)
(* what the client was sent; there is none for errors only.                *)
(***************************************************************************)
Settled ==
  pc = "returned" =>
    /\ gauge = 0
    /\ counted # "none"
    /\ event = <<>> <=> counted \in {"bad_request", "upstream_error"}
    /\ event # <<>> => event[1].decision = counted /\ event[1].bytesIn = relayed

ForwardInv ==
  /\ TypeOK /\ Control /\ Settled
  /\ Sent /\ SentOnce
  /\ Counts /\ Writing /\ Complete
  /\ Headers /\ TruncationShows
  /\ Passed

USE DEF handlerVars, connVars, writerVars, clientVars, serverVars, respVars,
        timeVars

(***************************************************************************)
(* The handler.                                                            *)
(***************************************************************************)

\* Every step keeps the types.
LEMMA ForwardTyped ==
  TypeOK /\ Control /\ [Next]_vars => TypeOK'
<1> SUFFICES ASSUME TypeOK, Control, [Next]_vars PROVE TypeOK'
  OBVIOUS
<1> USE ForwardAssumption
<1>1. CASE BadRequest
  BY <1>1 DEF BadRequest, TypeOK
<1>2. CASE denyForward
  BY <1>2 DEF denyForward, Log, TypeOK
<1>3. CASE Build
  BY <1>3 DEF Build, TypeOK
<1>4. CASE Reuse
  <2>1. pooled' \in 0..MaxPooled
    BY <1>4 DEF Reuse, TypeOK
  <2>2. /\ broken' \in BOOLEAN
        /\ conn' \in {"none", "fresh", "reused"}
        /\ pc' \in {"start", "getconn", "send", "await", "copy", "returned"}
    BY <1>4 DEF Reuse
  <2> QED
    BY <1>4, <2>1, <2>2 DEF Reuse, TypeOK
<1>5. CASE Dial
  <2>1. /\ broken' \in BOOLEAN
        /\ conn' \in {"none", "fresh", "reused"}
        /\ pc' \in {"start", "getconn", "send", "await", "copy", "returned"}
    BY <1>5 DEF Dial
  <2> QED
    BY <1>5, <2>1 DEF Dial, TypeOK
<1>6. CASE SendHead
  BY <1>6 DEF SendHead, SetDeadline, TypeOK
<1>7. CASE Retry
  BY <1>7 DEF Retry, TypeOK
<1>8. CASE RoundTripFails
  <2>1. pc \in {"getconn", "send", "await"}
    BY <1>8 DEF RoundTripFails, ConnFails
  <2>2. gauge' \in {0, 1}
    BY <1>8, <2>1 DEF RoundTripFails, Dec, Control
  <2>3. /\ broken' \in BOOLEAN
        /\ pc' \in {"start", "getconn", "send", "await", "copy", "returned"}
        /\ reply' \in {"none", "400", "403", "502", "upstream"}
        /\ counted' \in {"none", "bad_request", "deny", "upstream_error", "allow"}
    BY <1>8 DEF RoundTripFails
  <2>4. bytesOut' \in Nat /\ dialErrors' \in Nat
    BY <1>8 DEF RoundTripFails, CountBody, TypeOK
  <2> QED
    BY <1>8, <2>2, <2>3, <2>4 DEF RoundTripFails, TypeOK
<1>9. CASE RoundTripReturns
  BY <1>9 DEF RoundTripReturns, CountBody, SetDeadline, TypeOK
<1>10. CASE CopyChunk
  BY <1>10 DEF CopyChunk, SetDeadline, TypeOK
<1>11. CASE CopyEnds
  BY <1>11 DEF CopyEnds, Log, Dec, Control, TypeOK
<1>12. CASE WriteBody
  BY <1>12 DEF WriteBody, Read, SetDeadline, TypeOK
<1>13. CASE EndBody
  BY <1>13 DEF EndBody, TypeOK
<1>14. CASE WriterFails
  <2>1. \/ taken' = taken + 1 /\ n' = n + 1
        \/ taken' = taken /\ n' = n
    BY <1>14 DEF WriterFails, Read
  <2>2. taken \in Nat /\ n \in Nat
    BY DEF TypeOK
  <2>3. taken' \in Nat /\ n' \in Nat
    BY <2>1, <2>2
  <2>4. /\ broken' \in BOOLEAN
        /\ writer' \in {"off", "reading", "done", "failed"}
        /\ upEnd' \in {"open", "clean", "broken"}
    BY <1>14 DEF WriterFails
  <2> QED
    BY <1>14, <2>3, <2>4 DEF WriterFails, TypeOK
<1>15. CASE Flush
  BY <1>15 DEF Flush, TypeOK
<1>16. CASE Discard
  BY <1>16 DEF Discard, TypeOK
<1>17. CASE DiscardEnds
  BY <1>17 DEF DiscardEnds, TypeOK
<1>18. CASE Finish
  BY <1>18 DEF Finish, TypeOK
<1>19. CASE ClientSends
  <2>1. arrived' \in Nat
    BY <1>19 DEF ClientSends, TypeOK
  <2>2. eof' \in BOOLEAN
    BY <1>19 DEF ClientSends, TypeOK
  <2> QED
    BY <1>19, <2>1, <2>2 DEF ClientSends, TypeOK
<1>20. CASE ClientLeaves
  BY <1>20 DEF ClientLeaves, TypeOK
<1>21. CASE Respond
  <2>1. resp' \in {"none", "head", "end"} /\ respSent' \in Nat
    BY <1>21 DEF Respond, TypeOK
  <2> QED
    BY <1>21, <2>1 DEF Respond, TypeOK
<1>22. CASE UpstreamBreaks
  BY <1>22 DEF UpstreamBreaks, TypeOK
<1>23. CASE Tick
  BY <1>23 DEF Tick, Less, TypeOK
<1>24. CASE UNCHANGED vars
  BY <1>24 DEF vars, TypeOK
<1>25. CASE Deliver
  BY <1>25 DEF Deliver, TypeOK
<1> QED
  BY <1>1, <1>2, <1>3, <1>4, <1>5, <1>6, <1>7, <1>8, <1>9, <1>10, <1>11, <1>12, <1>13,
     <1>14, <1>15, <1>16, <1>17, <1>18, <1>19, <1>20, <1>21, <1>22, <1>23, <1>24,
     <1>25
  DEF Next, Handler, Server

\* Every step keeps what the handler has done in step with where it is.
LEMMA ForwardControl ==
  TypeOK /\ Control /\ [Next]_vars => Control'
<1> SUFFICES ASSUME TypeOK, Control, [Next]_vars PROVE Control'
  OBVIOUS
<1>1. CASE UNCHANGED <<gauge, pc, event, counted, reply, relayed, delivered, early, srv,
                      tries, writer, ended>>
  BY <1>1 DEF Control
<1>2. CASE \/ Discard \/ ClientSends \/ ClientLeaves \/ Respond \/ UpstreamBreaks \/ Tick
           \/ UNCHANGED vars
  BY <1>1, <1>2
  DEF Discard, ClientSends, ClientLeaves, Respond, UpstreamBreaks, Tick, vars, SetDeadline
<1>3. CASE BadRequest
  BY <1>3 DEF BadRequest, Control
<1>4. CASE denyForward
  BY <1>4 DEF denyForward, Log, Control
<1>5. CASE Build
  BY <1>5 DEF Build, Control
<1>6. CASE Reuse
  BY <1>6 DEF Reuse, Control
<1>7. CASE Dial
  BY <1>7 DEF Dial, Control
<1>8. CASE SendHead
  BY <1>8 DEF SendHead, Control
<1>9. CASE Retry
  BY <1>9 DEF Retry, ConnFails, Control
<1>10. CASE RoundTripFails
  BY <1>10 DEF RoundTripFails, Dec, ConnFails, Control
<1>11. CASE RoundTripReturns
  BY <1>11 DEF RoundTripReturns, Control
<1>12. CASE CopyChunk
  BY <1>12 DEF CopyChunk, Control
<1>13. CASE CopyEnds
  BY <1>13 DEF CopyEnds, Log, Dec, Control
<1>14. CASE WriteBody
  BY <1>14 DEF WriteBody, Control
<1>15. CASE EndBody
  BY <1>15 DEF EndBody, Control
<1>16. CASE WriterFails
  BY <1>16 DEF WriterFails, Control
<1>17. CASE Flush
  BY <1>17 DEF Flush, Control
<1>18. CASE DiscardEnds
  BY <1>18 DEF DiscardEnds, Control
<1>19. CASE Finish
  BY <1>19 DEF Finish, Control
<1>20. CASE Deliver
  BY <1>20 DEF Deliver, Control
<1> QED
  BY <1>2, <1>3, <1>4, <1>5, <1>6, <1>7, <1>8, <1>9, <1>10, <1>11, <1>12, <1>13, <1>14, <1>15,
     <1>16, <1>17, <1>18, <1>19, <1>20
  DEF Next, Handler, Server

\* Every way to return settles the request.
LEMMA ForwardSettled ==
  TypeOK /\ Control /\ Settled /\ [Next]_vars => Settled'
<1> SUFFICES ASSUME TypeOK, Control, Settled, [Next]_vars PROVE Settled'
  OBVIOUS
<1>1. CASE UNCHANGED <<pc, gauge, counted, event, relayed>>
  BY <1>1 DEF Settled, Control
<1>2. CASE \/ WriteBody \/ EndBody \/ WriterFails \/ Flush \/ Discard \/ DiscardEnds
           \/ Finish \/ ClientSends \/ ClientLeaves \/ Respond \/ UpstreamBreaks \/ Tick
           \/ Deliver \/ UNCHANGED vars
  BY <1>1, <1>2
  DEF Deliver, WriteBody, EndBody, WriterFails, Flush, Discard, DiscardEnds, Finish, ClientSends,
      ClientLeaves, Respond, UpstreamBreaks, Tick, vars, SetDeadline
<1>3. CASE BadRequest
  BY <1>3 DEF BadRequest, Settled, Control
<1>4. CASE denyForward
  BY <1>4 DEF denyForward, Log, Settled, Control
<1>5. CASE Build
  BY <1>5 DEF Build, Settled, Control
<1>6. CASE Reuse
  BY <1>6 DEF Reuse, Settled, Control
<1>7. CASE Dial
  BY <1>7 DEF Dial, Settled, Control
<1>8. CASE SendHead
  BY <1>8 DEF SendHead, Settled, Control
<1>9. CASE Retry
  BY <1>9 DEF Retry, ConnFails, Settled, Control
<1>10. CASE RoundTripFails
  BY <1>10 DEF RoundTripFails, Dec, ConnFails, Settled, Control
<1>11. CASE RoundTripReturns
  BY <1>11 DEF RoundTripReturns, Settled, Control
<1>12. CASE CopyChunk
  BY <1>12 DEF CopyChunk, Settled, Control
<1>13. CASE CopyEnds
  BY <1>13 DEF CopyEnds, Log, Dec, Settled, Control
<1> QED
  BY <1>2, <1>3, <1>4, <1>5, <1>6, <1>7, <1>8, <1>9, <1>10, <1>11, <1>12, <1>13
  DEF Next, Handler, Server

-----------------------------------------------------------------------------
(***************************************************************************)
(* What is sent.                                                           *)
(***************************************************************************)

\* Every step sends what may be sent, again only what may be repeated.
LEMMA ForwardSent ==
  TypeOK /\ Control /\ Sent /\ SentOnce /\ [Next]_vars => (Sent /\ SentOnce)'
<1> SUFFICES ASSUME TypeOK, Control, Sent, SentOnce, [Next]_vars PROVE (Sent /\ SentOnce)'
  OBVIOUS
<1>1. CASE UNCHANGED <<req, pc, tries, out>>
  BY <1>1 DEF Sent, SentOnce, Repeatable, Supported, Control, TypeOK
<1>2. CASE \/ CopyChunk \/ WriteBody \/ EndBody \/ WriterFails \/ Flush \/ Discard
           \/ DiscardEnds \/ Finish \/ ClientSends \/ ClientLeaves \/ Respond \/ UpstreamBreaks
           \/ Tick
           \/ Deliver \/ UNCHANGED vars
  BY <1>1, <1>2
  DEF Deliver, CopyChunk, WriteBody, EndBody, WriterFails, Flush, Discard, DiscardEnds, Finish,
      ClientSends, ClientLeaves, Respond, UpstreamBreaks, Tick, vars, SetDeadline
<1>3. CASE BadRequest
  BY <1>3 DEF BadRequest, Sent, SentOnce, Repeatable, Supported, Control, TypeOK
<1>4. CASE denyForward
  BY <1>4 DEF denyForward, Sent, SentOnce, Repeatable, Supported, Control, TypeOK
<1>5. CASE Build
  BY <1>5 DEF Build, Sent, SentOnce, Repeatable, Supported, Control, TypeOK
<1>6. CASE Reuse
  BY <1>6 DEF Reuse, Sent, SentOnce, Repeatable, Supported, Control, TypeOK
<1>7. CASE Dial
  BY <1>7 DEF Dial, Sent, SentOnce, Repeatable, Supported, Control, TypeOK
<1>8. CASE SendHead
  BY <1>8 DEF SendHead, Sent, SentOnce, Repeatable, Supported, Control, TypeOK
<1>9. CASE Retry
  BY <1>9 DEF Retry, ConnFails, ShouldRetry, Rewindable, Sent, SentOnce, Repeatable, Supported, Control, TypeOK
<1>10. CASE RoundTripFails
  BY <1>10 DEF RoundTripFails, Sent, SentOnce, Repeatable, Supported, Control, TypeOK
<1>11. CASE RoundTripReturns
  BY <1>11 DEF RoundTripReturns, Sent, SentOnce, Repeatable, Supported, Control, TypeOK
<1>12. CASE CopyEnds
  BY <1>12 DEF CopyEnds, Sent, SentOnce, Repeatable, Supported, Control, TypeOK
<1> QED
  BY <1>2, <1>3, <1>4, <1>5, <1>6, <1>7, <1>8, <1>9, <1>10, <1>11, <1>12
  DEF Next, Handler, Server

-----------------------------------------------------------------------------
(***************************************************************************)
(* The body of the request.                                                *)
(***************************************************************************)

\* Every step keeps the write loop in step with the handler.
LEMMA ForwardWriting ==
  TypeOK /\ Control /\ Counts /\ Writing /\ [Next]_vars => Writing'
<1> SUFFICES ASSUME TypeOK, Control, Counts, Writing, [Next]_vars PROVE Writing'
  OBVIOUS
<1>1. CASE UNCHANGED <<req, pc, writer, upEnd, early, broken, reply, bytesOut, upGot>>
  BY <1>1 DEF Writing, Counts, Control
<1>2. CASE \/ CopyChunk \/ Flush \/ Discard \/ DiscardEnds \/ Finish \/ ClientSends
           \/ ClientLeaves \/ Respond \/ Tick
           \/ Deliver \/ UNCHANGED vars
  BY <1>1, <1>2
  DEF Deliver, CopyChunk, Flush, Discard, DiscardEnds, Finish, ClientSends, ClientLeaves, Respond,
      Tick, vars, SetDeadline
<1>3. CASE BadRequest
  BY <1>3 DEF BadRequest, Writing, Counts, Control
<1>4. CASE denyForward
  BY <1>4 DEF denyForward, Writing, Counts, Control
<1>5. CASE Build
  BY <1>5 DEF Build, Writing, Counts, Control
<1>6. CASE Reuse
  BY <1>6 DEF Reuse, Writing, Counts, Control
<1>7. CASE Dial
  BY <1>7 DEF Dial, Writing, Counts, Control
<1>8. CASE SendHead
  BY <1>8 DEF SendHead, Writing, Counts, Control
<1>9. CASE Retry
  BY <1>9 DEF Retry, ConnFails, ShouldRetry, Rewindable, Writing, Counts, Control
<1>10. CASE RoundTripFails
  BY <1>10 DEF RoundTripFails, ConnFails, Writing, Counts, Control
<1>11. CASE RoundTripReturns
  BY <1>11 DEF RoundTripReturns, CountBody, Writing, Counts, Control
<1>12. CASE CopyEnds
  BY <1>12 DEF CopyEnds, Writing, Counts, Control
<1>13. CASE WriteBody
  BY <1>13 DEF WriteBody, Writing, Counts, Control
<1>14. CASE EndBody
  BY <1>14 DEF EndBody, Writing, Counts, Control
<1>15. CASE WriterFails
  BY <1>15 DEF WriterFails, Writing, Counts, Control
<1>16. CASE UpstreamBreaks
  BY <1>16 DEF UpstreamBreaks, Writing, Counts, Control
<1> QED
  BY <1>2, <1>3, <1>4, <1>5, <1>6, <1>7, <1>8, <1>9, <1>10, <1>11, <1>12, <1>13, <1>14, <1>15,
     <1>16
  DEF Next, Handler, Server

\* Every step keeps count of the chunks.
LEMMA ForwardCounts ==
  TypeOK /\ Control /\ Writing /\ Counts /\ [Next]_vars => Counts'
<1> SUFFICES ASSUME TypeOK, Control, Writing, Counts, [Next]_vars PROVE Counts'
  OBVIOUS
<1>1. CASE UNCHANGED <<bytesOut, n, upGot, taken, arrived, writer, srv>>
  BY <1>1 DEF Counts, Writing, Control, TypeOK
<1>2. CASE \/ BadRequest \/ denyForward \/ Build \/ Reuse \/ Dial \/ CopyChunk
           \/ CopyEnds \/ ClientLeaves \/ Respond \/ UpstreamBreaks \/ Tick
           \/ Deliver \/ UNCHANGED vars
  BY <1>1, <1>2
  DEF Deliver, BadRequest, denyForward, Build, Reuse, Dial, CopyChunk, CopyEnds, ClientLeaves,
      Respond, UpstreamBreaks, Tick, vars, SetDeadline
<1>3. CASE SendHead
  BY <1>3 DEF SendHead, Counts, Writing, Control, TypeOK
<1>4. CASE Retry
  BY <1>4 DEF Retry, ConnFails, ShouldRetry, Rewindable, Counts, Writing, Control, TypeOK
<1>5. CASE RoundTripFails
  BY <1>5 DEF RoundTripFails, CountBody, Counts, Writing, Control, TypeOK
<1>6. CASE RoundTripReturns
  BY <1>6 DEF RoundTripReturns, CountBody, Counts, Writing, Control, TypeOK
<1>7. CASE WriteBody
  <2>1. /\ upGot' = Append(upGot, taken + 1) /\ upGot \in Seq(Nat)
        /\ taken' = taken + 1 /\ n' = n + 1 /\ taken < arrived
        /\ UNCHANGED <<bytesOut, arrived, writer, srv>>
        /\ n \in Nat /\ taken \in Nat /\ arrived \in Nat /\ bytesOut \in Nat
    BY <1>7 DEF WriteBody, Read, TypeOK
  <2>2. Len(upGot') = Len(upGot) + 1 /\ Len(upGot) \in Nat
    BY <2>1
  <2>3. ASSUME NEW i \in 1..Len(upGot')
        PROVE  i <= upGot'[i] /\ upGot'[i] + Len(upGot') <= taken' + i
    <3>1. CASE i = Len(upGot')
      BY <2>1, <2>2, <3>1 DEF Counts
    <3>2. CASE i \in 1..Len(upGot)
      <4>1. upGot'[i] = upGot[i] /\ upGot[i] \in Nat
        BY <2>1, <3>2
      <4>2. i <= upGot[i] /\ upGot[i] + Len(upGot) <= taken + i
        BY <3>2 DEF Counts
      <4> QED
        BY <2>1, <2>2, <4>1, <4>2
    <3> QED
      BY <2>2, <3>1, <3>2
  <2> QED
    BY <2>1, <2>2, <2>3 DEF Counts
<1>8. CASE EndBody
  BY <1>8 DEF EndBody, Counts, Writing, Control, TypeOK
<1>9. CASE WriterFails
  <2>1. /\ UNCHANGED <<bytesOut, arrived, upGot, srv>>
        /\ writer' = "failed" /\ upGot \in Seq(Nat)
        /\ n \in Nat /\ taken \in Nat /\ arrived \in Nat /\ bytesOut \in Nat
    BY <1>9 DEF WriterFails, TypeOK
  <2>2. \/ taken' = taken /\ n' = n
        \/ taken' = taken + 1 /\ n' = n + 1 /\ taken < arrived
    BY <1>9 DEF WriterFails, Read
  <2>3. ASSUME NEW i \in 1..Len(upGot)
        PROVE  i <= upGot[i] /\ upGot[i] + Len(upGot) <= taken' + i
    <3>1. upGot[i] \in Nat /\ i \in Nat /\ Len(upGot) \in Nat
      BY <2>1
    <3>2. i <= upGot[i] /\ upGot[i] + Len(upGot) <= taken + i
      BY DEF Counts
    <3> QED
      BY <2>1, <2>2, <3>1, <3>2
  <2>4. /\ bytesOut <= n' /\ Len(upGot) <= n'
        /\ Len(upGot) <= taken' /\ taken' <= arrived
    BY <2>1, <2>2 DEF Counts
  <2> QED
    BY <2>1, <2>3, <2>4 DEF Counts
<1>10. CASE Flush
  BY <1>10 DEF Flush, Counts, Writing, Control, TypeOK
<1>11. CASE Discard
  <2>1. /\ UNCHANGED <<bytesOut, n, arrived, upGot, srv, writer>>
        /\ srv = "discarding" /\ upGot \in Seq(Nat)
        /\ taken' = taken + 1 /\ taken < arrived
        /\ n \in Nat /\ taken \in Nat /\ arrived \in Nat /\ bytesOut \in Nat
    BY <1>11 DEF Discard, TypeOK
  <2>2. ASSUME NEW i \in 1..Len(upGot)
        PROVE  i <= upGot[i] /\ upGot[i] + Len(upGot) <= taken' + i
    <3>1. upGot[i] \in Nat /\ i \in Nat /\ Len(upGot) \in Nat
      BY <2>1
    <3>2. i <= upGot[i] /\ upGot[i] + Len(upGot) <= taken + i
      BY DEF Counts
    <3> QED
      BY <2>1, <3>1, <3>2
  <2>3. Len(upGot) <= taken' /\ taken' <= arrived
    BY <2>1 DEF Counts
  <2> QED
    BY <2>1, <2>2, <2>3 DEF Counts
<1>12. CASE DiscardEnds
  BY <1>12 DEF DiscardEnds, Counts, Writing, Control, TypeOK
<1>13. CASE Finish
  BY <1>13 DEF Finish, Counts, Writing, Control, TypeOK
<1>14. CASE ClientSends
  BY <1>14 DEF ClientSends, Counts, Writing, Control, TypeOK
<1> QED
  BY <1>2, <1>3, <1>4, <1>5, <1>6, <1>7, <1>8, <1>9, <1>10, <1>11, <1>12, <1>13, <1>14
  DEF Next, Handler, Server

\* Every step leaves a complete body complete.
LEMMA ForwardComplete ==
  TypeOK /\ Control /\ Writing /\ Counts /\ Complete /\ [Next]_vars => Complete'
<1> SUFFICES ASSUME TypeOK, Control, Writing, Counts, Complete, [Next]_vars PROVE Complete'
  OBVIOUS
<1>1. CASE UNCHANGED <<upEnd, writer, eof, early, req, upGot, arrived, taken>>
  BY <1>1 DEF Complete, Writing, Counts, Control, TypeOK
<1>2. CASE \/ BadRequest \/ denyForward \/ Build \/ Reuse \/ Dial \/ RoundTripFails
           \/ CopyChunk \/ CopyEnds \/ Flush \/ DiscardEnds \/ Finish \/ ClientLeaves
           \/ Respond \/ UpstreamBreaks \/ Tick
           \/ Deliver \/ UNCHANGED vars
  BY <1>1, <1>2
  DEF Deliver, BadRequest, denyForward, Build, Reuse, Dial, RoundTripFails, CopyChunk, CopyEnds,
      Flush, DiscardEnds, Finish, ClientLeaves, Respond, UpstreamBreaks, Tick, vars, SetDeadline
<1>3. CASE SendHead
  BY <1>3 DEF SendHead, Complete, Writing, Counts, Control, TypeOK
<1>4. CASE Retry
  BY <1>4 DEF Retry, ConnFails, ShouldRetry, Rewindable, Complete, Writing, Counts, Control, TypeOK
<1>5. CASE RoundTripReturns
  BY <1>5 DEF RoundTripReturns, Complete, Writing, Counts, Control, TypeOK
<1>6. CASE WriteBody
  BY <1>6 DEF WriteBody, Read, Complete, Writing, Counts, Control, TypeOK
<1>7. CASE EndBody
  BY <1>7 DEF EndBody, BodyEnded, Complete, Writing, Counts, Control, TypeOK
<1>8. CASE WriterFails
  BY <1>8 DEF WriterFails, Complete, Writing, Counts, Control, TypeOK
<1>9. CASE Discard
  BY <1>9 DEF Discard, Complete, Writing, Counts, Control, TypeOK
<1>10. CASE ClientSends
  BY <1>10 DEF ClientSends, Complete, Writing, Counts, Control, TypeOK
<1> QED
  BY <1>2, <1>3, <1>4, <1>5, <1>6, <1>7, <1>8, <1>9, <1>10
  DEF Next, Handler, Server

-----------------------------------------------------------------------------
(***************************************************************************)
(* The response.                                                           *)
(***************************************************************************)

\* Every step shows the client the length it was promised.
LEMMA ForwardHeaders ==
  TypeOK /\ Control /\ Headers /\ [Next]_vars => Headers'
<1> SUFFICES ASSUME TypeOK, Control, Headers, [Next]_vars PROVE Headers'
  OBVIOUS
<1>1. CASE UNCHANGED <<resp, respHeaders, pc, gone, shown>>
  BY <1>1 DEF Headers, Control
<1>2. CASE \/ CopyChunk \/ WriteBody \/ EndBody \/ WriterFails \/ Flush \/ Discard
           \/ DiscardEnds \/ Finish \/ ClientSends \/ UpstreamBreaks \/ Tick
           \/ Deliver \/ UNCHANGED vars
  BY <1>1, <1>2
  DEF Deliver, CopyChunk, WriteBody, EndBody, WriterFails, Flush, Discard, DiscardEnds, Finish,
      ClientSends, UpstreamBreaks, Tick, vars, SetDeadline
<1>3. CASE BadRequest
  BY <1>3 DEF BadRequest, Headers, Control
<1>4. CASE denyForward
  BY <1>4 DEF denyForward, Headers, Control
<1>5. CASE Build
  BY <1>5 DEF Build, Headers, Control
<1>6. CASE Reuse
  BY <1>6 DEF Reuse, Headers, Control
<1>7. CASE Dial
  BY <1>7 DEF Dial, Headers, Control
<1>8. CASE SendHead
  BY <1>8 DEF SendHead, Headers, Control
<1>9. CASE Retry
  BY <1>9 DEF Retry, ConnFails, Headers, Control
<1>10. CASE RoundTripFails
  BY <1>10 DEF RoundTripFails, ConnFails, Headers, Control
<1>11. CASE RoundTripReturns
  BY <1>11 DEF RoundTripReturns, clientHeaders, isHopByHop, HopByHop, Headers, Control
<1>12. CASE CopyEnds
  BY <1>12 DEF CopyEnds, Headers, Control
<1>13. CASE ClientLeaves
  BY <1>13 DEF ClientLeaves, Headers, Control
<1>14. CASE Respond
  <2>1. pc' = pc /\ UNCHANGED <<gone, shown>>
    BY <1>14 DEF Respond
  <2>2. pc = "await" \/ (pc = "copy" /\ resp # "none")
    BY <1>14 DEF Respond, Headers
  <2> QED
    BY <1>14, <2>1, <2>2 DEF Respond, Headers
<1> QED
  BY <1>2, <1>3, <1>4, <1>5, <1>6, <1>7, <1>8, <1>9, <1>10, <1>11, <1>12, <1>13, <1>14
  DEF Next, Handler, Server

\* Every step makes a truncation show.
LEMMA ForwardTruncation ==
  TypeOK /\ Control /\ Headers /\ TruncationShows /\ [Next]_vars => TruncationShows'
<1> SUFFICES ASSUME TypeOK, Control, Headers, TruncationShows, [Next]_vars PROVE TruncationShows'
  OBVIOUS
<1>1. CASE UNCHANGED <<ended, respHeaders, resp, delivered, respSent>>
  BY <1>1 DEF TruncationShows, Whole, Headers, Control, TypeOK
<1>2. CASE \/ BadRequest \/ denyForward \/ Build \/ Reuse \/ Dial \/ SendHead
           \/ Retry \/ RoundTripFails \/ CopyEnds \/ WriteBody \/ EndBody \/ WriterFails
           \/ Flush \/ Discard \/ DiscardEnds \/ ClientSends \/ ClientLeaves \/ UpstreamBreaks
           \/ Tick
           \/ UNCHANGED vars
  BY <1>1, <1>2
  DEF BadRequest, denyForward, Build, Reuse, Dial, SendHead, Retry, RoundTripFails,
      CopyEnds, WriteBody, EndBody, WriterFails, Flush, Discard, DiscardEnds, ClientSends,
      ClientLeaves, UpstreamBreaks, Tick, vars, SetDeadline
<1>3. CASE RoundTripReturns
  BY <1>3 DEF RoundTripReturns, TruncationShows, Whole, Headers, Control, TypeOK
<1>4. CASE CopyChunk \/ Deliver
  BY <1>4 DEF CopyChunk, Deliver, TruncationShows, Whole, Headers, Control, TypeOK
<1>5. CASE Finish
  BY <1>5 DEF Finish, TruncationShows, Whole, Headers, Control, TypeOK
<1>6. CASE Respond
  BY <1>6 DEF Respond, TruncationShows, Whole, Headers, Control, TypeOK
<1> QED
  BY <1>2, <1>3, <1>4, <1>5, <1>6
  DEF Next, Handler, Server

\* Every step passes on no more than there is.
LEMMA ForwardPassed ==
  TypeOK /\ Control /\ Passed /\ [Next]_vars => Passed'
<1> SUFFICES ASSUME TypeOK, Control, Passed, [Next]_vars PROVE Passed'
  OBVIOUS
<1>1. CASE UNCHANGED <<early, pc, counted, relayed, delivered, respSent>>
  BY <1>1 DEF Passed
<1>2. CASE \/ WriteBody \/ EndBody \/ WriterFails \/ Flush \/ Discard
           \/ DiscardEnds \/ Finish \/ ClientSends \/ ClientLeaves
           \/ UpstreamBreaks \/ Tick \/ UNCHANGED vars
  BY <1>1, <1>2
  DEF WriteBody, EndBody, WriterFails, Flush, Discard, DiscardEnds, Finish,
      ClientSends, ClientLeaves, UpstreamBreaks, Tick, vars
<1>3. CASE \/ BadRequest \/ denyForward \/ Build \/ Reuse \/ Dial \/ SendHead
           \/ Retry \/ RoundTripFails
  <2>1. /\ UNCHANGED <<early, relayed, delivered, respSent>>
        /\ pc \in {"start", "getconn", "send", "await"}
    BY <1>3 DEF BadRequest, denyForward, Build, Reuse, Dial, SendHead, Retry,
                RoundTripFails, ConnFails
  <2>2. ~early /\ relayed = 0
    BY <2>1 DEF Control
  <2> QED
    BY <2>1, <2>2 DEF Passed
<1>4. CASE RoundTripReturns
  BY <1>4 DEF RoundTripReturns, Passed
<1>5. CASE CopyChunk
  BY <1>5 DEF CopyChunk, Passed, TypeOK
<1>6. CASE CopyEnds
  BY <1>6 DEF CopyEnds, Passed
<1>7. CASE Respond
  BY <1>7 DEF Respond, Passed, TypeOK
<1>8. CASE Deliver
  BY <1>8 DEF Deliver, Passed, TypeOK
<1> QED
  BY <1>2, <1>3, <1>4, <1>5, <1>6, <1>7, <1>8 DEF Next, Handler, Server

-----------------------------------------------------------------------------
\* It holds at the start.
LEMMA ForwardInitially == Init => ForwardInv
<1> SUFFICES ASSUME Init PROVE ForwardInv
  OBVIOUS
<1> USE ForwardAssumption DEF Init
<1>1. TypeOK
  <2>1. rem \in 0..Idle /\ rt \in 0..ReadTimeout /\ wt \in 0..WriteTimeout
    OBVIOUS
  <2>2. eof \in BOOLEAN /\ broken \in BOOLEAN /\ closed \in BOOLEAN
    OBVIOUS
  <2>3. gone \in BOOLEAN /\ early \in BOOLEAN
    OBVIOUS
  <2>4. upGot \in Seq(Nat) /\ Len(event) <= 1
    OBVIOUS
  <2> QED
    BY <2>1, <2>2, <2>3, <2>4 DEF TypeOK
<1>2. Control /\ Settled
  BY DEF Control, Settled
<1>3. Sent /\ SentOnce
  BY DEF Sent, SentOnce
<1>4. Counts
  BY DEF Counts
<1>5. Writing /\ Complete
  BY DEF Writing, Complete
<1>6. Headers /\ TruncationShows /\ Passed
  BY DEF Headers, TruncationShows, Passed
<1> QED
  BY <1>1, <1>2, <1>3, <1>4, <1>5, <1>6 DEF ForwardInv

\* Every step keeps it.
LEMMA ForwardStep == ForwardInv /\ [Next]_vars => ForwardInv'
BY ForwardTyped, ForwardControl, ForwardSettled, ForwardSent, ForwardWriting,
   ForwardCounts, ForwardComplete, ForwardHeaders,
   ForwardTruncation, ForwardPassed
DEF ForwardInv

\* It holds in every behaviour of a request.
LEMMA ForwardInvariant == Spec => []ForwardInv
BY ForwardInitially, ForwardStep, PTL DEF Spec

\* The types of a request's state.
THEOREM ForwardTypeCorrect == Spec => []TypeOK
<1>1. ForwardInv => TypeOK
  BY DEF ForwardInv
<1> QED
  BY ForwardInvariant, <1>1, PTL

\* handleHTTPForward(): on every way to return the gauge is back and metrics
\* and audit log agree.
THEOREM EveryReturnSettles == Spec => []Settled
<1>1. ForwardInv => Settled
  BY DEF ForwardInv
<1> QED
  BY ForwardInvariant, <1>1, PTL

\* buildUpstreamRequest(): no pool and no number of failing connections makes
\* the upstream see a request twice that has a body or may not be repeated.
THEOREM NoReplay == Spec => []SentOnce
<1>1. ForwardInv => SentOnce
  BY DEF ForwardInv
<1> QED
  BY ForwardInvariant, <1>1, PTL

\* countingReadCloser: a body written before the answer is counted whole.
THEOREM CountedRight == Spec => []BodyCounted
<1>1. ForwardInv => BodyCounted
  BY DEF ForwardInv, Counts, Writing, BodyCounted
<1> QED
  BY ForwardInvariant, <1>1, PTL

\* io.Copy's dropped error: the client sees that a response of declared length
\* was cut off.
THEOREM NoSilentTruncation == Spec => []TruncationShows
<1>1. ForwardInv => TruncationShows
  BY DEF ForwardInv
<1> QED
  BY ForwardInvariant, <1>1, PTL

\* The request's body: one the upstream takes for complete is complete, but for
\* an early answer to a chunked one.
THEOREM CompleteBodies == Spec => []CompleteIsWhole
<1>1. ASSUME ForwardInv, upEnd = "clean", early => req.body = "known"
      PROVE  upGot = [i \in 1..arrived |-> i]
  <2>1. upGot \in Seq(Nat) /\ arrived \in Nat /\ taken \in Nat
    BY <1>1 DEF ForwardInv, TypeOK
  <2>2. Len(upGot) = arrived /\ taken = arrived
    BY <1>1 DEF ForwardInv, Complete
  <2>3. \A i \in 1..arrived : upGot[i] \in Nat /\ i <= upGot[i] /\ upGot[i] <= i
    BY <1>1, <2>1, <2>2 DEF ForwardInv, Counts
  <2>4. \A i \in 1..arrived : upGot[i] = i
    BY <2>1, <2>3
  <2> QED
    BY <2>1, <2>2, <2>4
<1>2. ForwardInv => CompleteIsWhole
  BY <1>1 DEF CompleteIsWhole
<1> QED
  BY ForwardInvariant, <1>2, PTL

\* splitHostPort() and buildUpstreamRequest(): the upstream is asked for what
\* the allowlist was asked about, and never with the client's credentials.
THEOREM NothingUnchecked == Spec => []CheckedIsSent
<1>1. ASSUME ForwardInv, tries > 0
      PROVE  /\ Supported /\ Target(req) \in ACL
             /\ out = upstreamHeaders(req.headers)
  BY <1>1 DEF ForwardInv, Sent
<1>2. ASSUME ForwardInv, Supported, Destination(req).port <= MaxPort
      PROVE  /\ Target(req).host = Destination(req).host
             /\ Target(req).port = Destination(req).port
  <2>1. CASE req.authority.form = "number"
    <3>1. req.authority.port <= MaxPort
      BY <1>2, <2>1 DEF Destination
    <3>2. req.authority.port \in Nat
      BY <1>2, ForwardAssumption DEF ForwardInv, TypeOK
    <3>3. req.authority.port < ParseLimit
      BY <3>1, <3>2, ParsingAssumption DEF MaxPort
    <3> QED
      BY <2>1, <3>3 DEF Destination, Target, splitHostPort
  <2>2. CASE req.authority.form # "number"
    BY <1>2, <2>2 DEF Supported, Destination, Target, splitHostPort,
                      defaultPortForScheme
  <2> QED
    BY <2>1, <2>2
<1>3. ASSUME "Proxy-Authorization" \in DOMAIN upstreamHeaders(req.headers)
      PROVE  upstreamHeaders(req.headers)["Proxy-Authorization"] = "proxy"
  BY <1>3 DEF upstreamHeaders
<1>4. ForwardInv => CheckedIsSent
  BY <1>1, <1>2, <1>3 DEF CheckedIsSent
<1> QED
  BY ForwardInvariant, <1>4, PTL

-----------------------------------------------------------------------------
(***************************************************************************)
(* Refinement.  The request that ProxiedRequest speaks of does not change  *)
(* where neither data nor a report does.                                   *)
(***************************************************************************)
LEMMA ForwardStutter ==
  ASSUME \/ pc # "returned" /\ pc' # "returned"
         \/ UNCHANGED <<pc, counted, event>>,
         UNCHANGED <<gauge, upGot, relayed, delivered>>
  PROVE  UNCHANGED Request!vars
BY DEF Request!vars, Report

\* Every error return of the handler is a failure of the request.
LEMMA ForwardFails ==
  ASSUME ForwardInv, pc \in {"start", "getconn", "send", "await"},
         pc' = "returned", gauge' = 0,
         counted' \in {"bad_request", "upstream_error"},
         UNCHANGED <<event, upGot, relayed, delivered>>
  PROVE  Request!Fail
<1>1. event' = <<>> /\ relayed = 0 /\ relayed' = 0
  BY DEF ForwardInv, Control
<1>2. Len(upGot) \in Nat
  BY DEF ForwardInv, TypeOK
<1>3. Request!Return(counted', "none", 0)
  BY <1>1 DEF Request!Return, Request!Running, Report
<1> QED
  BY <1>1, <1>2, <1>3 DEF Request!Fail

\* Every step of a request is a step of ProxiedRequest or a stutter.
LEMMA ForwardRequestStep ==
  ForwardInv /\ [Next]_vars => [Request!Next]_(Request!vars)
<1> SUFFICES ASSUME ForwardInv, [Next]_vars
             PROVE  Request!Next \/ UNCHANGED Request!vars
  OBVIOUS
<1>1. CASE BadRequest \/ RoundTripFails
  <2>1. /\ pc \in {"start", "getconn", "send", "await"} /\ pc' = "returned"
        /\ counted' \in {"bad_request", "upstream_error"}
        /\ UNCHANGED <<event, upGot, relayed, delivered>>
    BY <1>1 DEF BadRequest, RoundTripFails, ConnFails
  <2>2. gauge' = 0
    BY <2>1, ForwardStep DEF ForwardInv, Control
  <2>3. Request!Fail
    BY <2>1, <2>2, ForwardFails
  <2> QED
    BY <2>3 DEF Request!Next
<1>2. CASE denyForward
  <2>1. /\ pc = "start" /\ pc' = "returned" /\ counted' = "deny"
        /\ UNCHANGED <<gauge, upGot, relayed, delivered>>
        /\ event' # <<>> /\ event'[1].decision = "deny" /\ event'[1].bytesIn = 0
    BY <1>2 DEF denyForward, Log
  <2>2. gauge = 0
    BY <2>1 DEF ForwardInv, Control
  <2>3. Request!Refuse
    BY <2>1, <2>2 DEF Request!Refuse, Request!Return, Request!Running, Report
  <2> QED
    BY <2>3 DEF Request!Next
<1>3. CASE Build
  <2>1. Request!Admit
    BY <1>3 DEF Build, ForwardInv, Control, Request!Admit, Request!Running
  <2> QED
    BY <2>1 DEF Request!Next
<1>4. CASE CopyChunk
  <2>1. /\ pc = "copy" /\ gauge = 1 /\ delivered <= relayed
        /\ relayed \in Nat /\ delivered \in Nat
    BY <1>4 DEF CopyChunk, ForwardInv, Control, Passed, TypeOK
  <2>2. /\ UNCHANGED <<pc, gauge, upGot, delivered>>
        /\ relayed' = relayed + 1
    BY <1>4 DEF CopyChunk
  <2>3. Request!Relay
    BY <2>1, <2>2 DEF Request!Relay, Request!Running
  <2> QED
    BY <2>3 DEF Request!Next
<1>9. CASE Deliver
  <2>1. /\ UNCHANGED <<pc, gauge, counted, event, upGot, relayed>>
        /\ delivered < relayed /\ delivered' = delivered + 1
        /\ relayed \in Nat /\ delivered \in Nat
    BY <1>9 DEF Deliver, ForwardInv, TypeOK
  <2>2. gauge = 1 \/ (pc = "returned" /\ counted = "allow")
    BY <2>1 DEF ForwardInv, Control, Passed
  <2>3. gauge = 1 \/ Request!Served
    BY <2>2 DEF Request!Served, Report
  <2>4. Request!Deliver
    BY <2>1, <2>3 DEF Request!Deliver, Report
  <2> QED
    BY <2>4 DEF Request!Next
<1>5. CASE CopyEnds
  <2>1. /\ pc = "copy" /\ pc' = "returned" /\ counted' = "allow"
        /\ UNCHANGED <<upGot, relayed, delivered>>
        /\ event' # <<>> /\ event'[1].decision = "allow"
        /\ event'[1].bytesIn = relayed
    BY <1>5 DEF CopyEnds, Log
  <2>2. gauge = 1 /\ gauge' = 0
    BY <2>1, ForwardStep DEF ForwardInv, Control
  <2>3. Request!Serve
    BY <2>1, <2>2 DEF Request!Serve, Request!Return, Request!Running, Report
  <2> QED
    BY <2>3 DEF Request!Next
<1>6. CASE WriteBody
  <2>1. /\ writer = "reading" /\ ~broken
        /\ UNCHANGED <<pc, gauge, counted, event, relayed, delivered>>
        /\ upGot' = Append(upGot, taken + 1)
    BY <1>6 DEF WriteBody
  <2>2. upGot \in Seq(Nat) /\ taken + 1 \in Nat
    BY DEF ForwardInv, TypeOK
  <2>3. Len(upGot') > Len(upGot)
    BY <2>1, <2>2
  <2>4. gauge = 1 \/ (pc = "returned" /\ counted = "allow")
    BY <2>1 DEF ForwardInv, Writing, Passed, Control
  <2>5. gauge = 1 \/ Request!Served
    BY <2>4 DEF Request!Served, Report
  <2>6. Request!Push
    BY <2>1, <2>3, <2>5 DEF Request!Push, Report
  <2> QED
    BY <2>6 DEF Request!Next
<1>7. CASE Reuse \/ Dial \/ SendHead \/ Retry \/ RoundTripReturns
  <2>1. /\ pc # "returned" /\ pc' # "returned"
        /\ UNCHANGED <<gauge, relayed, delivered>>
        /\ upGot' = upGot \/ (Retry /\ upGot' = <<>>)
    BY <1>7 DEF Reuse, Dial, SendHead, Retry, ConnFails, RoundTripReturns
  <2>2. upGot' = upGot
    BY <2>1 DEF Retry, ShouldRetry, Rewindable, ForwardInv, Writing
  <2> QED
    BY <2>1, <2>2, ForwardStutter
<1>8. CASE \/ EndBody \/ WriterFails \/ Flush \/ Discard \/ DiscardEnds
           \/ Finish \/ ClientSends \/ ClientLeaves \/ Respond
           \/ UpstreamBreaks \/ Tick \/ UNCHANGED vars
  <2>1. UNCHANGED <<pc, counted, event, gauge, upGot, relayed, delivered>>
    BY <1>8
    DEF EndBody, WriterFails, Flush, Discard, DiscardEnds, Finish, ClientSends,
        ClientLeaves, Respond, UpstreamBreaks, Tick, vars
  <2> QED
    BY <2>1, ForwardStutter
<1> QED
  BY <1>1, <1>2, <1>3, <1>4, <1>5, <1>6, <1>7, <1>8, <1>9
  DEF Next, Handler, Server

(***************************************************************************)
(* handleHTTPForward() implements ProxiedRequest, the same promise that    *)
(* handleConnect() keeps: its reports agree with what was passed on, also  *)
(* where it reaches the client after the return.                           *)
(***************************************************************************)
THEOREM ForwardKeepsPromise == Spec => ImplementsRequest
<1>1. Init => Request!Init
  BY DEF Init, Request!Init
<1> QED
  BY <1>1, ForwardRequestStep, ForwardInvariant, PTL
  DEF Spec, ImplementsRequest, Request!Spec

-----------------------------------------------------------------------------
(***************************************************************************)
(* Progress.  The parts of Work are natural numbers.                       *)
(***************************************************************************)
LEMMA ForwardWorkParts ==
  ASSUME ForwardInv
  PROVE  /\ Stage \in Nat /\ ServerLeft \in Nat /\ WriterLeft \in Nat
         /\ ConnsLeft \in Nat
         /\ arrived - taken \in Nat
         /\ (respSent - relayed) + (respSent - delivered) \in Nat
         /\ rem \in Nat /\ rt \in Nat /\ wt \in Nat
<1>1. Stage \in Nat
  BY DEF Stage
<1>2. ServerLeft \in Nat /\ WriterLeft \in Nat
  BY DEF ServerLeft, WriterLeft
<1>3. ConnsLeft \in Nat
  BY ForwardAssumption DEF ConnsLeft, ForwardInv, TypeOK
<1>4. /\ arrived - taken \in Nat
      /\ (respSent - relayed) + (respSent - delivered) \in Nat
  BY DEF ForwardInv, TypeOK, Counts, Passed
<1>5. rem \in Nat /\ rt \in Nat /\ wt \in Nat
  BY ForwardAssumption DEF ForwardInv, TypeOK
<1> QED
  BY <1>1, <1>2, <1>3, <1>4, <1>5

\* Arithmetic: a sum of which no part rises, and one falls.
LEMMA LessSum ==
  ASSUME NEW a \in Nat, NEW b \in Nat, NEW u \in Nat, NEW v \in Nat,
         u <= a, v <= b
  PROVE  /\ a + b \in Nat /\ u + v \in Nat /\ u + v <= a + b
         /\ u < a \/ v < b => u + v < a + b
  OBVIOUS

\* Arithmetic: no more connections, no more stages.
LEMMA LessTimes ==
  ASSUME NEW d \in Nat, NEW x \in Nat, x <= d
  PROVE  4 * d \in Nat /\ 4 * x \in Nat /\ 4 * x <= 4 * d
  OBVIOUS

\* Arithmetic: a connection less makes up for going back two stages.
LEMMA LessByRetry ==
  ASSUME NEW a \in Nat, NEW d \in Nat, NEW u \in Nat, NEW x \in Nat,
         u <= a + 2, x + 1 = d
  PROVE  /\ a + 4 * d \in Nat /\ u + 4 * x \in Nat
         /\ u + 4 * x < a + 4 * d
  OBVIOUS

\* Every step but those of the peers is progress.
LEMMA ForwardSpinStep ==
  ASSUME ForwardInv, ForwardInv', Next
  PROVE  \/ Peers
         \/ Work' \in Nat /\ Work' < Work
         \/ TimeLeft' \in Nat /\ Work' = Work /\ TimeLeft' < TimeLeft
         \/ UNCHANGED vars
<1> DEFINE Fed == arrived - taken
           Due == (respSent - relayed) + (respSent - delivered)
<1>1. /\ Stage \in Nat /\ ServerLeft \in Nat /\ WriterLeft \in Nat
      /\ ConnsLeft \in Nat /\ Fed \in Nat /\ Due \in Nat
      /\ rem \in Nat /\ rt \in Nat /\ wt \in Nat
  BY ForwardWorkParts
<1>2. /\ Stage' \in Nat /\ ServerLeft' \in Nat /\ WriterLeft' \in Nat
      /\ ConnsLeft' \in Nat /\ Fed' \in Nat /\ Due' \in Nat
      /\ rem' \in Nat /\ rt' \in Nat /\ wt' \in Nat
  <2>1. (ForwardInv =>
          /\ Stage \in Nat /\ ServerLeft \in Nat /\ WriterLeft \in Nat
          /\ ConnsLeft \in Nat /\ Fed \in Nat /\ Due \in Nat
          /\ rem \in Nat /\ rt \in Nat /\ wt \in Nat)'
    BY ForwardWorkParts, PTL
  <2> QED
    BY <2>1
<1>3. /\ Work = Stage + ServerLeft + WriterLeft + 4 * ConnsLeft + Fed + Due
      /\ Work' = Stage' + ServerLeft' + WriterLeft' + 4 * ConnsLeft' + Fed' + Due'
  BY DEF Work
<1> HIDE DEF Fed, Due
<1>4. ASSUME /\ Stage' <= Stage /\ ServerLeft' <= ServerLeft
             /\ WriterLeft' <= WriterLeft /\ ConnsLeft' <= ConnsLeft
             /\ Fed' <= Fed /\ Due' <= Due,
             \/ Stage' < Stage \/ ServerLeft' < ServerLeft
             \/ WriterLeft' < WriterLeft \/ Fed' < Fed \/ Due' < Due
      PROVE  Work' \in Nat /\ Work' < Work
  <2> DEFINE Conns == Stage + 4 * ConnsLeft
             Loops == ServerLeft + WriterLeft
             Chunks == Fed + Due
             Rest == Loops + Chunks
  <2>1. /\ Conns \in Nat /\ Conns' \in Nat /\ Conns' <= Conns
        /\ Stage' < Stage => Conns' < Conns
    <3>1. /\ 4 * ConnsLeft \in Nat /\ 4 * ConnsLeft' \in Nat
          /\ 4 * ConnsLeft' <= 4 * ConnsLeft
      BY <1>1, <1>2, <1>4, LessTimes
    <3> QED
      BY <1>1, <1>2, <1>4, <3>1, LessSum
  <2>2. /\ Loops \in Nat /\ Loops' \in Nat /\ Loops' <= Loops
        /\ ServerLeft' < ServerLeft \/ WriterLeft' < WriterLeft => Loops' < Loops
    BY <1>1, <1>2, <1>4, LessSum
  <2>3. /\ Chunks \in Nat /\ Chunks' \in Nat /\ Chunks' <= Chunks
        /\ Fed' < Fed \/ Due' < Due => Chunks' < Chunks
    BY <1>1, <1>2, <1>4, LessSum
  <2>4. /\ Rest \in Nat /\ Rest' \in Nat /\ Rest' <= Rest
        /\ Loops' < Loops \/ Chunks' < Chunks => Rest' < Rest
    <3> HIDE DEF Loops, Chunks
    <3> QED
      BY <2>2, <2>3, LessSum
  <2>5. Work = Conns + Rest /\ Work' = Conns' + Rest'
    BY <1>1, <1>2, <1>3
  <2> HIDE DEF Conns, Loops, Chunks, Rest
  <2> QED
    BY <1>4, <2>1, <2>2, <2>3, <2>4, <2>5, LessSum
<1>5. CASE BadRequest \/ denyForward \/ Build \/ RoundTripFails \/ RoundTripReturns
           \/ CopyEnds
  <2>1. /\ UNCHANGED <<req, srv, pooled, conn, writer, arrived, taken, respSent,
                       relayed, delivered>>
        /\ \/ pc \in {"start", "getconn", "send", "await", "copy"}
              /\ pc' = "returned"
           \/ pc = "start" /\ pc' = "getconn"
           \/ pc = "await" /\ pc' = "copy"
    BY <1>5 DEF BadRequest, denyForward, Build, RoundTripFails, ConnFails,
                RoundTripReturns, CopyEnds
  <2>2. Stage' < Stage
    BY <2>1 DEF Stage
  <2>3. /\ ServerLeft' = ServerLeft /\ WriterLeft' = WriterLeft
        /\ Fed' = Fed /\ Due' = Due
    BY <2>1 DEF ServerLeft, WriterLeft, Fed, Due
  <2>4. ConnsLeft' <= ConnsLeft
    <3>1. pooled \in Nat
      BY ForwardAssumption DEF ForwardInv, TypeOK
    <3> QED
      BY <2>1, <3>1 DEF ConnsLeft
  <2> QED
    BY <1>1, <1>2, <1>4, <2>2, <2>3, <2>4
<1>6. CASE Reuse \/ Dial
  <2>1. /\ UNCHANGED <<req, srv, writer, arrived, taken, respSent,
                       relayed, delivered>>
        /\ pc = "getconn" /\ pc' = "send"
        /\ \/ pooled > 0 /\ pooled' = pooled - 1 /\ conn' = "reused"
           \/ pooled' = pooled /\ conn' = "fresh"
    BY <1>6 DEF Reuse, Dial
  <2>2. Stage' < Stage
    BY <2>1 DEF Stage
  <2>3. /\ ServerLeft' = ServerLeft /\ WriterLeft' = WriterLeft
        /\ Fed' = Fed /\ Due' = Due
    BY <2>1 DEF ServerLeft, WriterLeft, Fed, Due
  <2>4. ConnsLeft' <= ConnsLeft
    <3>1. pooled \in Nat
      BY ForwardAssumption DEF ForwardInv, TypeOK
    <3> QED
      BY <2>1, <3>1 DEF ConnsLeft
  <2> QED
    BY <1>1, <1>2, <1>4, <2>2, <2>3, <2>4
<1>7. CASE SendHead
  <2>1. /\ UNCHANGED <<req, srv, pooled, conn, arrived, taken, respSent,
                       relayed, delivered>>
        /\ pc = "send" /\ pc' = "await"
        /\ writer' = IF req.body = "none" THEN "done" ELSE "reading"
    BY <1>7 DEF SendHead
  <2>2. Stage' < Stage
    BY <2>1 DEF Stage
  <2>3. /\ ServerLeft' = ServerLeft /\ ConnsLeft' = ConnsLeft
        /\ Fed' = Fed /\ Due' = Due
    BY <2>1 DEF ServerLeft, ConnsLeft, Fed, Due
  <2>4. WriterLeft' <= WriterLeft
    BY <2>1 DEF WriterLeft, ForwardInv, Writing
  <2> QED
    BY <1>1, <1>2, <1>4, <2>2, <2>3, <2>4
<1>8. CASE Retry
  <2>1. /\ UNCHANGED <<req, srv, pooled, arrived, taken, respSent,
                       relayed, delivered>>
        /\ pc \in {"send", "await"} /\ pc' = "getconn"
        /\ conn = "reused" /\ conn' = "none" /\ req.body = "none"
    BY <1>8 DEF Retry, ConnFails, ShouldRetry, Rewindable
  <2>2. Stage' <= Stage + 2
    BY <2>1 DEF Stage
  <2>3. /\ ServerLeft' = ServerLeft /\ WriterLeft' = WriterLeft
        /\ Fed' = Fed /\ Due' = Due
    BY <2>1 DEF ServerLeft, WriterLeft, Fed, Due
  <2>4. ConnsLeft' + 1 = ConnsLeft
    <3>1. pooled \in Nat
      BY ForwardAssumption DEF ForwardInv, TypeOK
    <3> QED
      BY <2>1, <3>1 DEF ConnsLeft
  <2>5. Work' \in Nat /\ Work' < Work
    <3> DEFINE Conns == Stage + 4 * ConnsLeft
               Rest == ServerLeft + WriterLeft + Fed + Due
    <3>1. Conns \in Nat /\ Conns' \in Nat /\ Conns' < Conns
      BY <1>1, <1>2, <2>2, <2>4, LessByRetry
    <3>2. Rest \in Nat /\ Rest' = Rest
      BY <1>1, <2>3
    <3>3. Work = Conns + Rest /\ Work' = Conns' + Rest'
      BY <1>1, <1>2, <1>3
    <3> HIDE DEF Conns, Rest
    <3>4. Conns' <= Conns /\ Rest' \in Nat /\ Rest' <= Rest
      BY <3>1, <3>2
    <3> QED
      BY <3>1, <3>2, <3>3, <3>4, LessSum
  <2> QED
    BY <2>5
<1>9. CASE CopyChunk \/ Deliver \/ WriteBody \/ Discard
  <2>1. /\ UNCHANGED <<req, pc, srv, writer, pooled, conn, arrived, respSent>>
        /\ \/ relayed' = relayed + 1 /\ UNCHANGED <<taken, delivered>>
           \/ delivered' = delivered + 1 /\ UNCHANGED <<taken, relayed>>
           \/ taken' = taken + 1 /\ UNCHANGED <<relayed, delivered>>
    BY <1>9 DEF CopyChunk, Deliver, WriteBody, Read, Discard
  <2>2. /\ Stage' = Stage /\ ServerLeft' = ServerLeft
        /\ WriterLeft' = WriterLeft /\ ConnsLeft' = ConnsLeft
    BY <2>1 DEF Stage, ServerLeft, WriterLeft, ConnsLeft
  <2>3. \/ Fed' < Fed /\ Due' = Due
        \/ Due' < Due /\ Fed' = Fed
    <3>1. /\ arrived \in Nat /\ taken \in Nat
          /\ respSent \in Nat /\ relayed \in Nat /\ delivered \in Nat
      BY DEF ForwardInv, TypeOK
    <3> QED
      BY <2>1, <3>1 DEF Fed, Due
  <2> QED
    BY <1>1, <1>2, <1>4, <2>2, <2>3
<1>10. CASE EndBody \/ WriterFails
  <2>1. /\ UNCHANGED <<req, pc, srv, pooled, conn, arrived, respSent,
                       relayed, delivered>>
        /\ writer = "reading" /\ writer' \in {"done", "failed"}
        /\ taken' = taken \/ taken' = taken + 1
    BY <1>10 DEF EndBody, WriterFails, Read
  <2>2. /\ Stage' = Stage /\ ServerLeft' = ServerLeft
        /\ ConnsLeft' = ConnsLeft /\ Due' = Due
    BY <2>1 DEF Stage, ServerLeft, ConnsLeft, Due
  <2>3. req.body # "none"
    BY <2>1 DEF ForwardInv, Writing
  <2>4. WriterLeft' < WriterLeft
    BY <2>1, <2>3 DEF WriterLeft
  <2>5. Fed' <= Fed
    <3>1. arrived \in Nat /\ taken \in Nat
      BY DEF ForwardInv, TypeOK
    <3> QED
      BY <2>1, <3>1 DEF Fed
  <2> QED
    BY <1>1, <1>2, <1>4, <2>2, <2>4, <2>5
<1>11. CASE Flush \/ DiscardEnds \/ Finish
  <2>1. /\ UNCHANGED <<req, pc, writer, pooled, conn, arrived, taken, respSent,
                       relayed, delivered>>
        /\ \/ srv = "idle" /\ srv' \in {"discarding", "flushed"}
           \/ srv = "discarding" /\ srv' = "flushed"
           \/ srv = "flushed" /\ srv' = "finished"
    BY <1>11 DEF Flush, DiscardEnds, Finish
  <2>2. ServerLeft' < ServerLeft
    BY <2>1 DEF ServerLeft
  <2>3. /\ Stage' = Stage /\ WriterLeft' = WriterLeft
        /\ ConnsLeft' = ConnsLeft /\ Fed' = Fed /\ Due' = Due
    BY <2>1 DEF Stage, WriterLeft, ConnsLeft, Fed, Due
  <2> QED
    BY <1>1, <1>2, <1>4, <2>2, <2>3
<1>12. CASE Tick
  <2>1. /\ UNCHANGED <<handlerVars, connVars, writerVars, clientVars,
                       serverVars, respVars>>
        /\ rem' = Less(rem) /\ rt' = Less(rt) /\ wt' = Less(wt)
    BY <1>12 DEF Tick
  <2>2. Work' = Work
    BY <2>1 DEF Work, Stage, ServerLeft, WriterLeft, ConnsLeft
  <2>3. CASE UNCHANGED timeVars
    BY <2>1, <2>3 DEF vars
  <2>4. CASE ~UNCHANGED timeVars
    <3>1. rem' # rem \/ rt' # rt \/ wt' # wt
      BY <2>4
    <3>2. TimeLeft' \in Nat /\ TimeLeft' < TimeLeft
      BY <1>1, <2>1, <3>1 DEF Less, TimeLeft
    <3> QED
      BY <2>2, <3>2
  <2> QED
    BY <2>3, <2>4
<1>13. CASE ClientSends \/ ClientLeaves \/ Respond \/ UpstreamBreaks
  BY <1>13 DEF Peers
<1> QED
  BY <1>5, <1>6, <1>7, <1>8, <1>9, <1>10, <1>11, <1>12, <1>13
  DEF Next, Handler, Server

(***************************************************************************)
(* handleHTTPForward(), Transport's write loop and the server never spin:  *)
(* for any pool and any timeouts, what is left to do falls with every step *)
(* until a peer moves.                                                     *)
(***************************************************************************)
THEOREM ForwardNoSpin == Spec => NeverSpins
<1>1. ForwardInv /\ ForwardInv' /\ [Next]_vars =>
        [\/ Peers
         \/ Work' \in Nat /\ Work' < Work
         \/ Work' = Work /\ TimeLeft' \in Nat /\ TimeLeft' < TimeLeft]_vars
  BY ForwardSpinStep
<1> QED
  BY <1>1, ForwardInvariant, PTL DEF Spec, NeverSpins
=============================================================================
