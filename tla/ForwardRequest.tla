--------------------------- MODULE ForwardRequest ---------------------------
(***************************************************************************)
(* internal/proxy: one plain HTTP request through handleHTTPForward(),     *)
(* with the goroutines it does not see: the write loop of http.Transport,  *)
(* which reads the request's body while the response comes in, and the     *)
(* http.Server, which reads the same body when the response is flushed.    *)
(*                                                                         *)
(* Data.  Bodies are rows of numbered chunks.  What the handler writes of  *)
(* a response goes into the server's buffers and reaches the client later, *)
(* that of a short response only after the handler has returned.           *)
(*                                                                         *)
(* Time.  Idle is IdleTimeout, ReadTimeout and WriteTimeout are those of   *)
(* the server, in ticks.  The first restarts with every Read or Write of   *)
(* the upstream connection, the others run from the start of the request.  *)
(* A tick passes only while everything waits for a peer.                   *)
(***************************************************************************)
EXTENDS RequestParsing

CONSTANTS
  Requests,     \* the requests a client may make
  ACL,          \* targets that the allowlist admits
  Idle,         \* Handler.IdleTimeout, in ticks; 0: disabled
  ReadTimeout,  \* http.Server.ReadTimeout, in ticks
  WriteTimeout, \* http.Server.WriteTimeout, in ticks
  Slow,         \* whether a peer may leave a Write blocked while time passes
  Buffer,       \* chunks of a response that the server's buffers hold
  MaxPooled,    \* bound: idle connections in the pool at the start
  DiscardLimit, \* chunks the server reads of a body nobody else has read
  MaxBody,      \* bound: chunks of the request's body
  MaxResp       \* bound: chunks of the response

ASSUME ForwardAssumption ==
  /\ \A r \in Requests : r.authority.port \in Nat
  /\ {Idle, ReadTimeout, WriteTimeout} \subseteq Nat
  /\ {MaxPooled, DiscardLimit, MaxBody, MaxResp} \subseteq Nat
  /\ Buffer \in Nat \ {0}
  /\ Slow \in BOOLEAN

VARIABLES
  req,        \* the request
  pc,         \* handleHTTPForward(), RoundTrip included
  gauge,      \* its share of activeConnections
  reply,      \* the status the client is sent, "upstream" for the upstream's
  counted,    \* the decision that requestsTotal counted
  event,      \* the audit event, <<>> if there is none
  dialErrors, \* its share of upstreamDialErrors
  bytesOut,   \* what was added to bytesTransferred for the request's body
  early,      \* history: RoundTrip returned before the body was written
  pooled,     \* idle connections in Transport's pool
  conn,       \* the connection in use: "none", "fresh" or "reused"
  broken,     \* that connection is closed
  tries,      \* how often the head of the request was sent
  out,        \* the headers it was sent with
  writer,     \* Transport's write loop, as far as the body goes
  n,          \* countingReadCloser.n
  upGot,      \* chunks of the body that the upstream got
  upEnd,      \* how the body ended for the upstream
  arrived,    \* chunks of the body that the client has sent
  eof,        \* the client has sent all of its body
  taken,      \* chunks of the body read, by whomever
  closed,     \* the body is closed
  gone,       \* the client has left
  srv,        \* the server: response not begun, "discarding", "flushed" ...
  discarded,  \* chunks of the body that the server read
  ended,      \* how the response ended for the client
  resp,       \* the upstream's response: "none", "head" or "end"
  respHeaders,\* its headers
  shown,      \* those that the client gets
  respSent,   \* its chunks so far
  relayed,    \* those that the handler has written
  delivered,  \* those that reached the client
  rem, rt, wt \* ticks left of Idle, ReadTimeout and WriteTimeout

handlerVars == <<req, pc, gauge, reply, counted, event, dialErrors, bytesOut,
                 early>>
connVars == <<pooled, conn, broken, tries, out>>
writerVars == <<writer, n, upGot, upEnd>>
clientVars == <<arrived, eof, gone>>
serverVars == <<taken, closed, srv, discarded, ended>>
respVars == <<resp, respHeaders, shown, respSent, relayed, delivered>>
timeVars == <<rem, rt, wt>>
vars == <<handlerVars, connVars, writerVars, clientVars, serverVars, respVars,
          timeVars>>

-----------------------------------------------------------------------------
SetDeadline == rem' = Idle /\ UNCHANGED <<rt, wt>>

\* Mutant: connections that Transport dials are not wrapped.
Expired_NotWrapped == FALSE

Expired == Idle > 0 /\ rem = 0
ReadExpired == ReadTimeout > 0 /\ rt = 0
WriteExpired == WriteTimeout > 0 /\ wt = 0

\* Audit.Log(Event{...}).
Log(decision, status, bytesIn) ==
  event' = <<[decision |-> decision, status |-> status, bytesIn |-> bytesIn,
              target |-> Target(req), spiffe |-> spiffeFromRequest(req)]>>

\* Mutant: the gauge is lowered on an error path and by the defer.
Dec_Twice == gauge' = gauge - 2

\* The deferred activeConnections.Dec().
Dec == gauge' = gauge - 1

\* Mutant: the body is counted before RoundTrip reads it.
CountBody_First == bytesOut' = 0

\* bytesTransferred gets what the countingReadCloser has seen.
CountBody == bytesOut' = n

-----------------------------------------------------------------------------
(***************************************************************************)
(* handleHTTPForward(), up to RoundTrip.                                   *)
(***************************************************************************)
BadRequest ==
  /\ pc = "start"
  /\ ~req.absolute
  /\ pc' = "returned"
  /\ reply' = "400"
  /\ counted' = "bad_request"
  /\ UNCHANGED <<req, gauge, event, dialErrors, bytesOut, early, connVars,
                 writerVars, clientVars, serverVars, respVars, timeVars>>

denyForward ==
  /\ pc = "start"
  /\ req.absolute
  /\ Target(req) \notin ACL
  /\ pc' = "returned"
  /\ Log("deny", "403", 0)
  /\ reply' = "403"
  /\ counted' = "deny"
  /\ UNCHANGED <<req, gauge, dialErrors, bytesOut, early, connVars,
                 writerVars, clientVars, serverVars, respVars, timeVars>>

\* buildUpstreamRequest() and activeConnections.Inc().
Build ==
  /\ pc = "start"
  /\ req.absolute
  /\ Target(req) \in ACL
  /\ pc' = "getconn"
  /\ gauge' = 1
  /\ out' = upstreamHeaders(req.headers)
  /\ UNCHANGED <<req, reply, counted, event, dialErrors, bytesOut, early,
                 pooled, conn, broken, tries, writerVars, clientVars,
                 serverVars, respVars, timeVars>>

-----------------------------------------------------------------------------
(***************************************************************************)
(* RoundTrip (external): Transport takes an idle connection or dials, and  *)
(* gives a request a second connection only if it knows that to be safe.   *)
(***************************************************************************)
Supported == req.scheme \in {"http", "https"}

Reuse ==
  /\ pc = "getconn"
  /\ Supported
  /\ pooled > 0
  /\ pooled' = pooled - 1
  /\ conn' = "reused"
  /\ broken' = FALSE
  /\ pc' = "send"
  /\ UNCHANGED <<req, gauge, reply, counted, event, dialErrors, bytesOut,
                 early, tries, out, writerVars, clientVars, serverVars,
                 respVars, timeVars>>

Dial ==
  /\ pc = "getconn"
  /\ Supported
  /\ pooled = 0
  /\ conn' = "fresh"
  /\ broken' = FALSE
  /\ pc' = "send"
  /\ UNCHANGED <<req, gauge, reply, counted, event, dialErrors, bytesOut,
                 early, pooled, tries, out, writerVars, clientVars,
                 serverVars, respVars, timeVars>>

(***************************************************************************)
(* The head of the request is written, with the URI as it came; the write  *)
(* loop goes on to the body.  For an https URI, Transport has first sent a *)
(* CONNECT for its host and port on a new connection and a handshake with  *)
(* the target: both are part of Dial, and their failure is one of getconn. *)
(***************************************************************************)
SendHead ==
  /\ pc = "send"
  /\ ~broken
  /\ pc' = "await"
  /\ tries' = tries + 1
  /\ writer' = IF req.body = "none" THEN "done" ELSE "reading"
  /\ SetDeadline
  /\ UNCHANGED <<req, gauge, reply, counted, event, dialErrors, bytesOut,
                 early, pooled, conn, broken, out, n, upGot, upEnd,
                 clientVars, serverVars, respVars>>

\* Mutant: buildUpstreamRequest gives the request a GetBody, which returns
\* the body that the first attempt has read from.
Rewindable_GetBody == TRUE

\* It does not: Transport cannot get the body of a server's request again.
Rewindable == FALSE

\* Mutant: a request is given a new connection whenever one fails.
ShouldRetry_AnyConn ==
  /\ req.body = "none" \/ Rewindable
  /\ pc = "send" \/ req.idempotent

\* Mutant: an Idempotency-Key among the headers that buildUpstreamRequest
\* sets makes Transport repeat any method.
ShouldRetry_AnyMethod ==
  /\ conn = "reused"
  /\ req.body = "none" \/ Rewindable

(***************************************************************************)
(* Only a request without a body, or with one that can be rewound, is sent *)
(* again, only if its connection came from the pool, and if its head was   *)
(* written, only if its method allows it.                                  *)
(***************************************************************************)
ShouldRetry ==
  /\ conn = "reused"
  /\ req.body = "none" \/ Rewindable
  /\ pc = "send" \/ req.idempotent

\* The connection fails before an answer; the deadline counts as failure.
ConnFails ==
  /\ resp = "none"
  /\ \/ pc = "send" /\ broken
     \/ pc = "await" /\ (broken \/ Expired)

\* The next connection carries a message of its own, body included.
Retry ==
  /\ ConnFails
  /\ ~gone
  /\ ShouldRetry
  /\ pc' = "getconn"
  /\ conn' = "none"
  /\ writer' = "off"
  /\ upGot' = <<>>
  /\ upEnd' = "open"
  /\ UNCHANGED <<req, gauge, reply, counted, event, dialErrors, bytesOut,
                 early, pooled, broken, tries, out, n, clientVars,
                 serverVars, respVars, timeVars>>

(***************************************************************************)
(* RoundTrip returns an error: no dial, a scheme Transport does not speak, *)
(* a connection that fails, or a client that leaves and ends the context.  *)
(***************************************************************************)
RoundTripFails ==
  /\ \/ pc = "getconn" /\ (pooled = 0 \/ ~Supported)
     \/ ConnFails /\ ~ShouldRetry
     \/ pc \in {"getconn", "send", "await"} /\ gone
  /\ pc' = "returned"
  /\ CountBody
  /\ dialErrors' = dialErrors + 1
  /\ reply' = "502"
  /\ counted' = "upstream_error"
  /\ Dec
  /\ broken' = TRUE
  /\ UNCHANGED <<req, event, early, pooled, conn, tries, out, writerVars,
                 clientVars, serverVars, respVars, timeVars>>

\* RoundTrip returns a response; the body is counted as far as it was read.
RoundTripReturns ==
  /\ pc = "await"
  /\ resp # "none"
  /\ pc' = "copy"
  /\ CountBody
  /\ early' = (writer # "done")
  /\ reply' = "upstream"
  /\ shown' = clientHeaders(respHeaders)
  /\ SetDeadline
  /\ UNCHANGED <<req, gauge, counted, event, dialErrors, connVars, writerVars,
                 clientVars, serverVars, resp, respHeaders, respSent,
                 relayed, delivered>>

-----------------------------------------------------------------------------
(***************************************************************************)
(* io.Copy(w, resp.Body) and the end of the handler.  A Write returns once *)
(* the server's buffers have room, whether or not the client is there.     *)
(***************************************************************************)
Full == relayed - delivered >= Buffer

CopyChunk ==
  /\ pc = "copy"
  /\ srv \in {"idle", "flushed"}
  /\ relayed < respSent
  /\ ~Full
  /\ relayed' = relayed + 1
  /\ SetDeadline
  /\ UNCHANGED <<handlerVars, connVars, writerVars, clientVars, serverVars,
                 resp, respHeaders, shown, respSent, delivered>>

\* The handler is in a Write that waits for the client.
InWrite == pc = "copy" /\ srv = "flushed" /\ relayed < respSent /\ Full

\* All of the response was copied.
Whole == resp = "end" /\ relayed = respSent

\* Mutant: the event has the length of the response, not what was copied.
CopyEnds_LogsLength ==
  /\ pc = "copy"
  /\ srv # "discarding"
  /\ \/ Whole
     \/ resp = "head" /\ (broken \/ gone)
     \/ resp = "head" /\ relayed = respSent /\ Expired
     \/ srv = "flushed" /\ relayed < respSent /\ (gone \/ WriteExpired)
  /\ pc' = "returned"
  /\ Log("allow", reply, respSent)
  /\ counted' = "allow"
  /\ Dec
  /\ UNCHANGED <<req, reply, dialErrors, bytesOut, early, connVars,
                 writerVars, clientVars, serverVars, respVars, timeVars>>

(***************************************************************************)
(* io.Copy returns: at the end, or with an error, which is dropped, of the *)
(* upstream's connection or of the client's.                               *)
(***************************************************************************)
CopyEnds ==
  /\ pc = "copy"
  /\ srv # "discarding"
  /\ \/ Whole
     \/ resp = "head" /\ (broken \/ gone)
     \/ resp = "head" /\ relayed = respSent /\ Expired
     \/ srv = "flushed" /\ relayed < respSent /\ (gone \/ WriteExpired)
  /\ pc' = "returned"
  /\ Log("allow", reply, relayed)
  /\ counted' = "allow"
  /\ Dec
  /\ UNCHANGED <<req, reply, dialErrors, bytesOut, early, connVars,
                 writerVars, clientVars, serverVars, respVars, timeVars>>

-----------------------------------------------------------------------------
(***************************************************************************)
(* The body of the request.  Transport's write loop (external) reads it    *)
(* through the countingReadCloser and writes to the upstream.              *)
(***************************************************************************)
BodyEnded == eof /\ taken = arrived

Read == taken < arrived /\ ~closed /\ taken' = taken + 1 /\ n' = n + 1

WriteBody ==
  /\ writer = "reading"
  /\ ~broken
  /\ Read
  /\ upGot' = Append(upGot, taken + 1)
  /\ SetDeadline
  /\ UNCHANGED <<handlerVars, connVars, writer, upEnd, clientVars, closed,
                 srv, discarded, ended, respVars>>

\* The body ends; one of declared length must have been as long as that.
EndBody ==
  /\ writer = "reading"
  /\ ~broken
  /\ ~closed
  /\ BodyEnded
  /\ req.body = "known" => Len(upGot) = arrived
  /\ writer' = "done"
  /\ upEnd' = "clean"
  /\ UNCHANGED <<handlerVars, connVars, n, upGot, clientVars, serverVars,
                 respVars, timeVars>>

\* A Read or a Write fails: the write loop closes the connection.
WriterFails ==
  /\ writer = "reading"
  /\ \/ closed \/ gone \/ ReadExpired
     \/ broken \/ Expired
     \/ req.body = "known" /\ BodyEnded /\ Len(upGot) # arrived
  /\ \/ broken /\ Read
     \/ UNCHANGED <<taken, n>>
  /\ writer' = "failed"
  /\ upEnd' = "broken"
  /\ broken' = TRUE
  /\ UNCHANGED <<handlerVars, pooled, conn, tries, out, upGot, clientVars,
                 closed, srv, discarded, ended, respVars, timeVars>>

-----------------------------------------------------------------------------
(***************************************************************************)
(* The server (external).  Before the first byte of a response it reads    *)
(* what is left of the request's body, up to a limit; the handler's Write  *)
(* waits for that.  It begins when the handler has returned, or when the   *)
(* first of what it wrote has to leave the buffers.  After the response it *)
(* closes the body.                                                        *)
(***************************************************************************)
Unread == req.body # "none" /\ ~closed /\ writer # "done"

Flush ==
  /\ srv = "idle"
  /\ pc = "returned" \/ (pc = "copy" /\ relayed > 0)
  /\ srv' \in IF Unread THEN {"discarding", "flushed"} ELSE {"flushed"}
  /\ UNCHANGED <<handlerVars, connVars, writerVars, clientVars, taken, closed,
                 discarded, ended, respVars, timeVars>>

Discard ==
  /\ srv = "discarding"
  /\ discarded < DiscardLimit
  /\ ~closed
  /\ taken < arrived
  /\ taken' = taken + 1
  /\ discarded' = discarded + 1
  /\ UNCHANGED <<handlerVars, connVars, writerVars, clientVars, closed, srv,
                 ended, respVars, timeVars>>

DiscardEnds ==
  /\ srv = "discarding"
  /\ \/ discarded = DiscardLimit
     \/ BodyEnded \/ closed \/ gone \/ ReadExpired
  /\ srv' = "flushed"
  /\ closed' = (closed \/ BodyEnded)
  /\ UNCHANGED <<handlerVars, connVars, writerVars, clientVars, taken,
                 discarded, ended, respVars, timeVars>>

\* A chunk leaves the buffers for the client.
Deliver ==
  /\ srv = "flushed"
  /\ delivered < relayed
  /\ ~gone
  /\ ~WriteExpired
  /\ delivered' = delivered + 1
  /\ UNCHANGED <<handlerVars, connVars, writerVars, clientVars, serverVars,
                 resp, respHeaders, shown, respSent, relayed, timeVars>>

(***************************************************************************)
(* The handler has returned and the buffers are empty, or cannot be        *)
(* emptied: a response shorter than declared shows as such.                *)
(***************************************************************************)
Finish ==
  /\ pc = "returned"
  /\ srv = "flushed"
  /\ delivered = relayed \/ gone \/ WriteExpired
  /\ srv' = "finished"
  /\ closed' = TRUE
  /\ ended' = IF \/ gone \/ WriteExpired
                 \/ "Content-Length" \in shown /\ ~Whole
              THEN "aborted" ELSE "clean"
  /\ UNCHANGED <<handlerVars, connVars, writerVars, clientVars, taken,
                 discarded, respVars, timeVars>>

-----------------------------------------------------------------------------
(***************************************************************************)
(* The client, the upstream and the clock (external).                      *)
(***************************************************************************)
ClientSends ==
  /\ req.body # "none"
  /\ ~eof /\ ~gone
  /\ srv # "finished"
  /\ \/ arrived < MaxBody /\ arrived' = arrived + 1 /\ UNCHANGED eof
     \/ eof' = TRUE /\ UNCHANGED arrived
  /\ UNCHANGED <<handlerVars, connVars, writerVars, gone, serverVars,
                 respVars, timeVars>>

ClientLeaves ==
  /\ ~gone
  /\ srv # "finished"
  /\ gone' = TRUE
  /\ UNCHANGED <<handlerVars, connVars, writerVars, arrived, eof, serverVars,
                 respVars, timeVars>>

Respond ==
  /\ pc \in {"await", "copy"}
  /\ ~broken
  /\ \/ /\ resp = "none"
        /\ resp' = "head"
        /\ respHeaders' \in {{"Content-Length"}, {"Transfer-Encoding"}}
        /\ UNCHANGED respSent
     \/ /\ resp = "head"
        /\ respSent < MaxResp
        /\ respSent' = respSent + 1
        /\ UNCHANGED <<resp, respHeaders>>
     \/ /\ resp = "head"
        /\ resp' = "end"
        /\ UNCHANGED <<respHeaders, respSent>>
  /\ UNCHANGED <<handlerVars, connVars, writerVars, clientVars, serverVars,
                 shown, relayed, delivered, timeVars>>

UpstreamBreaks ==
  /\ pc \in {"send", "await", "copy"}
  /\ ~broken
  /\ broken' = TRUE
  /\ UNCHANGED <<handlerVars, pooled, conn, tries, out, writerVars,
                 clientVars, serverVars, respVars, timeVars>>

WriterWaits ==
  \/ writer # "reading"
  \/ /\ ~broken /\ ~closed /\ ~gone /\ ~ReadExpired /\ ~Expired
     /\ IF taken = arrived THEN ~eof ELSE Slow

ServerWaits == taken = arrived /\ ~eof /\ ~closed /\ ~gone /\ ~ReadExpired

HandlerWaits ==
  \/ pc = "await" /\ resp = "none" /\ ~broken /\ ~Expired /\ ~gone
  \/ /\ pc = "copy"
     /\ \/ srv = "discarding" /\ ServerWaits
        \/ /\ resp = "head" /\ relayed = respSent
           /\ ~broken /\ ~Expired /\ ~gone
        \/ InWrite /\ Slow /\ ~gone /\ ~WriteExpired
  \/ /\ pc = "returned"
     /\ \/ srv = "discarding" /\ ServerWaits
        \/ /\ srv = "flushed" /\ delivered < relayed
           /\ Slow /\ ~gone /\ ~WriteExpired

Less(t) == IF t > 0 THEN t - 1 ELSE 0

Tick ==
  /\ HandlerWaits
  /\ WriterWaits
  /\ rem' = Less(rem)
  /\ rt' = Less(rt)
  /\ wt' = Less(wt)
  /\ UNCHANGED <<handlerVars, connVars, writerVars, clientVars, serverVars,
                 respVars>>

-----------------------------------------------------------------------------
Init ==
  /\ req \in Requests
  /\ pc = "start"
  /\ gauge = 0
  /\ reply = "none"
  /\ counted = "none"
  /\ event = <<>>
  /\ dialErrors = 0
  /\ bytesOut = 0
  /\ early = FALSE
  /\ pooled \in 0..MaxPooled
  /\ conn = "none"
  /\ broken = FALSE
  /\ tries = 0
  /\ out = [k \in {} |-> "proxy"]
  /\ writer = "off"
  /\ n = 0
  /\ upGot = <<>>
  /\ upEnd = "open"
  /\ arrived = 0
  /\ eof = (req.body = "none")
  /\ taken = 0
  /\ closed = FALSE
  /\ gone = FALSE
  /\ srv = "idle"
  /\ discarded = 0
  /\ ended = "open"
  /\ resp = "none"
  /\ respHeaders = {}
  /\ shown = {}
  /\ respSent = 0
  /\ relayed = 0
  /\ delivered = 0
  /\ rem = Idle
  /\ rt = ReadTimeout
  /\ wt = WriteTimeout

Handler ==
  \/ BadRequest \/ denyForward \/ Build
  \/ Reuse \/ Dial \/ SendHead \/ Retry \/ RoundTripFails \/ RoundTripReturns
  \/ CopyChunk \/ CopyEnds

Server == Flush \/ Discard \/ DiscardEnds \/ Finish

Next ==
  \/ Handler
  \/ WriteBody \/ EndBody \/ WriterFails
  \/ Server \/ Deliver
  \/ ClientSends \/ ClientLeaves \/ Respond \/ UpstreamBreaks
  \/ Tick

Spec == Init /\ [][Next]_vars

(***************************************************************************)
(* Goroutines that can run do run and time passes.  Peers need not do      *)
(* anything; a Write need not complete if they may be slow, and what is in *)
(* the server's buffers need not leave them before they are full or the    *)
(* handler has returned.                                                   *)
(***************************************************************************)
Pressed == Full \/ pc = "returned"

Fairness ==
  /\ WF_vars(Handler /\ ~InWrite)
  /\ WF_vars(CopyEnds /\ InWrite /\ (gone \/ WriteExpired))
  /\ WF_vars(~Slow /\ WriteBody)
  /\ WF_vars(EndBody \/ WriterFails)
  /\ WF_vars(Server /\ (srv = "idle" => Pressed))
  /\ WF_vars(~Slow /\ Pressed /\ Deliver)
  /\ WF_vars(Tick)

FairSpec == Spec /\ Fairness

-----------------------------------------------------------------------------
TypeOK ==
  /\ req \in Requests
  /\ pc \in {"start", "getconn", "send", "await", "copy", "returned"}
  /\ gauge \in {0, 1}
  /\ reply \in {"none", "400", "403", "502", "upstream"}
  /\ counted \in {"none", "bad_request", "deny", "upstream_error", "allow"}
  /\ Len(event) <= 1
  /\ dialErrors \in Nat
  /\ bytesOut \in Nat
  /\ early \in BOOLEAN
  /\ pooled \in 0..MaxPooled
  /\ conn \in {"none", "fresh", "reused"}
  /\ broken \in BOOLEAN
  /\ tries \in Nat
  /\ writer \in {"off", "reading", "done", "failed"}
  /\ n \in Nat
  /\ upGot \in Seq(Nat)
  /\ upEnd \in {"open", "clean", "broken"}
  /\ arrived \in Nat
  /\ eof \in BOOLEAN
  /\ taken \in Nat
  /\ closed \in BOOLEAN
  /\ gone \in BOOLEAN
  /\ srv \in {"idle", "discarding", "flushed", "finished"}
  /\ discarded \in Nat
  /\ ended \in {"open", "clean", "aborted"}
  /\ resp \in {"none", "head", "end"}
  /\ respSent \in Nat
  /\ relayed \in Nat
  /\ delivered \in Nat
  /\ rem \in 0..Idle
  /\ rt \in 0..ReadTimeout
  /\ wt \in 0..WriteTimeout

(***************************************************************************)
(* Two readers share the body of the request, the write loop and the       *)
(* server, and a retry would be a third.  One that the upstream takes for  *)
(* complete is the client's whole body, in order, unless its length was    *)
(* not declared and the response came before it was sent: then the server  *)
(* may have taken chunks out of it.                                        *)
(***************************************************************************)
CompleteIsWhole ==
  upEnd = "clean" /\ (early => req.body = "known")
    => upGot = [i \in 1..arrived |-> i]

(***************************************************************************)
(* What buildUpstreamRequest hands over is sent a second time only if it   *)
(* has no body and may be repeated: pooling never makes the upstream act   *)
(* twice on another request.                                               *)
(***************************************************************************)
SentOnce == tries > 1 => req.body = "none" /\ req.idempotent

(***************************************************************************)
(* bytesTransferred gets the whole body of a request that was answered     *)
(* once the body was sent, and never more than was read of it.             *)
(***************************************************************************)
BodyCounted ==
  /\ bytesOut <= n /\ Len(upGot) <= n
  /\ reply = "upstream" /\ ~early => bytesOut = Len(upGot)

(***************************************************************************)
(* A response of declared length that is cut off, by the upstream, a       *)
(* timeout, a client that reads too slowly or the discarding of the        *)
(* request's body, does not reach the client as a complete one.            *)
(***************************************************************************)
TruncationShows ==
  ended = "clean" /\ "Content-Length" \in respHeaders =>
    resp = "end" /\ delivered = respSent

\* Where the upstream takes a request (external): port 21 for, say, ftp.
Destination(r) ==
  [host |-> r.authority.host,
   port |-> IF r.authority.form = "number" THEN r.authority.port
            ELSE IF r.scheme = "http" THEN 80
            ELSE IF r.scheme = "https" THEN 443 ELSE 21]

(***************************************************************************)
(* The URI goes upstream as it came, or its host and port in a CONNECT,    *)
(* while the allowlist was asked about what splitHostPort made of it: for  *)
(* every port there is, however large, both mean the same destination, and *)
(* what goes along are not the client's credentials.                       *)
(***************************************************************************)
CheckedIsSent ==
  tries > 0 =>
    /\ Target(req) \in ACL
    /\ Destination(req).port <= MaxPort =>
         /\ Target(req).host = Destination(req).host
         /\ Target(req).port = Destination(req).port
    /\ "Proxy-Authorization" \in DOMAIN out =>
         out["Proxy-Authorization"] = "proxy"

(***************************************************************************)
(* What handleHTTPForward() promises about a request, errors included.     *)
(***************************************************************************)
Report ==
  IF event = <<>> THEN [counted |-> counted, logged |-> "none", bytes |-> 0]
  ELSE [counted |-> counted, logged |-> event[1].decision,
        bytes |-> event[1].bytesIn]

Request == INSTANCE ProxiedRequest WITH
  Errors <- {"bad_request", "upstream_error"},
  active <- gauge,
  up <- Len(upGot),
  passed <- relayed,
  down <- delivered,
  outcome <- IF pc = "returned" THEN <<Report>> ELSE <<>>

(***************************************************************************)
(* On every way through handleHTTPForward() the gauge, the counter, the    *)
(* audit event and its bytes agree with the payload that was passed on,    *)
(* although others outlive the handler: after the return, Transport feeds  *)
(* the upstream and the server the client only for a request that was      *)
(* served, and the client never gets more than the event says.             *)
(***************************************************************************)
ImplementsRequest == Request!Spec

(***************************************************************************)
(* What can still be done before a peer moves again: stages to go through, *)
(* connections to be tried, chunks that have come and were not passed on.  *)
(***************************************************************************)
Stage ==
  CASE pc = "start" -> 5
    [] pc = "getconn" -> 4
    [] pc = "send" -> 3
    [] pc = "await" -> 2
    [] pc = "copy" -> 1
    [] OTHER -> 0

ServerLeft ==
  CASE srv = "idle" -> 3
    [] srv = "discarding" -> 2
    [] srv = "flushed" -> 1
    [] OTHER -> 0

WriterLeft ==
  IF req.body # "none" /\ writer \in {"off", "reading"} THEN 1 ELSE 0

ConnsLeft ==
  pooled + (IF conn = "reused" /\ pc \in {"send", "await"} THEN 1 ELSE 0)

Work ==
  Stage + ServerLeft + WriterLeft + 4 * ConnsLeft
    + (arrived - taken) + ((respSent - relayed) + (respSent - delivered))

TimeLeft == rem + rt + wt

Peers == ClientSends \/ ClientLeaves \/ Respond \/ UpstreamBreaks

(***************************************************************************)
(* The proxy does not spin: each step of the handler, of the write loop    *)
(* and of the server leaves less to do until a peer moves.  In particular, *)
(* pooled connections that all fail are tried once each and no more.       *)
(***************************************************************************)
NeverSpins ==
  [][\/ Peers
     \/ Work' \in Nat /\ Work' < Work
     \/ Work' = Work /\ TimeLeft' \in Nat /\ TimeLeft' < TimeLeft]_vars

(***************************************************************************)
(* With its three timeouts on, every request ends, whatever the peers do   *)
(* or fail to do: no single one of them bounds every wait.                 *)
(***************************************************************************)
Finishes ==
  Idle > 0 /\ ReadTimeout > 0 /\ WriteTimeout > 0 => <>(srv = "finished")
=============================================================================
