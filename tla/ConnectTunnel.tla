--------------------------- MODULE ConnectTunnel ---------------------------
(***************************************************************************)
(* internal/proxy: one CONNECT request, from handleConnect()'s look at the *)
(* allowlist to its return: hijacking the client's connection, dialling    *)
(* the upstream proxy, forwarding the CONNECT, and tunnel() with its two   *)
(* copying goroutines under the deadlines of idleTimeoutConn.              *)
(*                                                                         *)
(* Data.  A byte stream is a row of numbered chunks.  Direction "out" goes *)
(* from the client to the upstream, "in" the other way.                    *)
(*                                                                         *)
(* Time.  IdleTimeout is Idle ticks, 0 for a timeout that is switched off. *)
(* rem[c] is what is left of the deadline of connection c; every Read and  *)
(* Write call on a wrapped connection begins with SetDeadline, which moves *)
(* the deadline of calls already pending on c too.  A tick passes only     *)
(* while all goroutines are blocked: the proxy itself takes no time.       *)
(***************************************************************************)
EXTENDS Naturals, Sequences, Functions

CONSTANTS
  TLSEnabled, \* Handler.TLSEnabled: mTLS to the upstream
  Idle,       \* Handler.IdleTimeout, in ticks; 0: disabled
  Slow,       \* whether a peer may leave a Write blocked while time passes
  Lines,      \* writes that make up the CONNECT request, 3 or more
  MaxSend     \* bound: chunks that each peer sends

ASSUME ConnectAssumption ==
  /\ TLSEnabled \in BOOLEAN
  /\ Idle \in Nat
  /\ Slow \in BOOLEAN
  /\ Lines \in Nat \ {0}
  /\ MaxSend \in Nat

Conns == {"client", "upstream"}
Dirs == {"out", "in"}

Src(d) == IF d = "out" THEN "client" ELSE "upstream"
Dst(d) == IF d = "out" THEN "upstream" ELSE "client"

VARIABLES
  pc,         \* handleConnect()
  lines,      \* writes of the CONNECT request still to do
  deferred,   \* what its return will undo: Close of a connection, Dec
  answer,     \* the refusal that is being written to the client
  open,       \* connections that are open and the handler's to close
  gauge,      \* its share of activeConnections
  reply,      \* the status the client was sent
  counted,    \* the decision that requestsTotal counted
  logged,     \* the decision in the audit log
  dialErrors, \* its share of upstreamDialErrors
  bytes,      \* what bytesTransferred and the audit event report
  resp,       \* the upstream's answer to the CONNECT
  fin,        \* connections whose peer has closed its sending side
  gone,       \* connections whose peer has closed or reset altogether
  sent,       \* chunks each peer has sent
  taken,      \* chunks the proxy has read, into whatever buffer
  got,        \* chunks written to the other peer
  buffered,   \* chunks in clientBuf at Hijack
  swallowed,  \* chunks in upstreamReader when it is abandoned
  copy,       \* the two io.Copy loops of tunnel()
  n,          \* chunks each of them has copied
  halfClosed, \* connections on which CloseWrite was called
  rem,        \* ticks to the deadline of each connection
  idle        \* ticks since a chunk was last read or written

answerVars == <<reply, counted, logged, dialErrors, bytes>>
handlerVars == <<pc, lines, deferred, answer, open, gauge, answerVars>>
peerVars == <<resp, fin, gone, sent>>
streamVars == <<taken, got, buffered, swallowed>>
copyVars == <<copy, n, halfClosed>>
timeVars == <<rem, idle>>
vars == <<handlerVars, peerVars, streamVars, copyVars, timeVars>>

-----------------------------------------------------------------------------
(***************************************************************************)
(* wrapIdleTimeout and idleTimeoutConn.                                    *)
(***************************************************************************)

\* c.Conn.SetDeadline(time.Now().Add(c.timeout)), before a Read or Write.
SetDeadline(c) == rem' = [rem EXCEPT ![c] = Idle]

Expired(c) == Idle > 0 /\ rem[c] = 0

(***************************************************************************)
(* A wrapped connection is an idleTimeoutConn, which has the methods of    *)
(* net.Conn and no CloseWrite; an unwrapped one is a TCP or TLS connection *)
(* and has it.                                                             *)
(***************************************************************************)
IsCloseWriter == Idle = 0

-----------------------------------------------------------------------------
(***************************************************************************)
(* handleConnect(), up to the tunnel.                                      *)
(***************************************************************************)

\* A return runs what was deferred.
Return ==
  /\ pc' = "returned"
  /\ open' = open \ deferred
  /\ gauge' = IF "gauge" \in deferred THEN gauge - 1 ELSE gauge
  /\ deferred' = {}
  /\ UNCHANGED <<lines, answer>>

\* AllowHost says no: denyConnect().
Deny ==
  /\ pc = "acl"
  /\ Return
  /\ logged' = "deny"
  /\ counted' = "deny"
  /\ reply' = "403"
  /\ UNCHANGED <<dialErrors, bytes, peerVars, streamVars, copyVars, timeVars>>

Allow ==
  /\ pc = "acl"
  /\ pc' = "hijack"
  /\ UNCHANGED <<lines, deferred, answer, open, gauge, answerVars, peerVars,
                 streamVars, copyVars, timeVars>>

\* No Hijacker (500), or Hijack() fails (only a log line).
HijackFails ==
  /\ pc = "hijack"
  /\ Return
  /\ reply' \in {"500", "none"}
  /\ UNCHANGED <<counted, logged, dialErrors, bytes, peerVars, streamVars,
                 copyVars, timeVars>>

\* clientBuf holds what the server read ahead of the request's end.
Hijack ==
  /\ pc = "hijack"
  /\ pc' = "dial"
  /\ open' = {"client"}
  /\ deferred' = {"client"}
  /\ \E k \in 0..sent["out"] :
       buffered' = k /\ taken' = [taken EXCEPT !["out"] = k]
  /\ UNCHANGED <<lines, answer, gauge, answerVars, peerVars, got, swallowed, copyVars,
                 timeVars>>

\* The TCP dial of dialUpstream() succeeds; with mTLS a handshake follows.
DialTCP ==
  /\ pc = "dial"
  /\ TLSEnabled
  /\ pc' = "handshake"
  /\ open' = open \union {"upstream"}
  /\ UNCHANGED <<lines, deferred, answer, gauge, answerVars, peerVars, streamVars,
                 copyVars, timeVars>>

\* The handler turns to a Write of a refusal on the client's connection.
Refuse(status) == pc' = "answer" /\ answer' = status

\* What handleConnect() does with an error of dialUpstream().
DialError ==
  /\ dialErrors' = dialErrors + 1
  /\ Refuse("502")
  /\ UNCHANGED <<lines, deferred, gauge, reply, counted, logged, bytes,
                 peerVars, streamVars, copyVars, timeVars>>

DialFails ==
  /\ pc = "dial"
  /\ DialError
  /\ UNCHANGED open

\* No manager, or the handshake fails: dialUpstream() closes raw itself.
HandshakeFails ==
  /\ pc = "handshake"
  /\ DialError
  /\ open' = open \ {"upstream"}

\* Mutant: activeConnections.Inc() without the deferred Dec().
Dial_NoDec ==
  /\ \/ pc = "dial" /\ ~TLSEnabled
     \/ pc = "handshake"
  /\ pc' = "send"
  /\ open' = open \union {"upstream"}
  /\ deferred' = deferred \union {"upstream"}
  /\ gauge' = gauge + 1
  /\ lines' = Lines
  /\ UNCHANGED <<answer, answerVars, peerVars, streamVars, copyVars, timeVars>>

\* dialUpstream() returns a connection, which is wrapped and counted.
Dial ==
  /\ \/ pc = "dial" /\ ~TLSEnabled
     \/ pc = "handshake"
  /\ pc' = "send"
  /\ open' = open \union {"upstream"}
  /\ deferred' = deferred \union {"upstream", "gauge"}
  /\ gauge' = gauge + 1
  /\ lines' = Lines
  /\ UNCHANGED <<answer, answerVars, peerVars, streamVars, copyVars, timeVars>>

\* Mutant: one write too many.
SendLine_OneMore ==
  /\ pc = "send"
  /\ "upstream" \notin gone
  /\ lines' = lines - 1
  /\ pc' = IF lines = 0 THEN "response" ELSE "send"
  /\ SetDeadline("upstream")
  /\ UNCHANGED <<deferred, answer, open, gauge, answerVars, peerVars, streamVars,
                 copyVars, idle>>

\* One write of the request; after the last, ReadResponse starts to read.
SendLine ==
  /\ pc = "send"
  /\ "upstream" \notin gone
  /\ lines' = lines - 1
  /\ pc' = IF lines = 1 THEN "response" ELSE "send"
  /\ SetDeadline("upstream")
  /\ UNCHANGED <<deferred, answer, open, gauge, answerVars, peerVars, streamVars,
                 copyVars, idle>>

\* A write fails: the handler just returns.
SendFails ==
  /\ pc = "send"
  /\ "upstream" \in gone \/ (Slow /\ Idle > 0)
  /\ Return
  /\ UNCHANGED <<answerVars, peerVars, streamVars, copyVars, timeVars>>

(***************************************************************************)
(* http.ReadResponse through a bufio.Reader, which reads what is there:    *)
(* chunks that the upstream sent right behind its answer may be in that    *)
(* buffer, and nobody reads it again.                                      *)
(***************************************************************************)
ReadAhead ==
  \E k \in 0..sent["in"] :
    swallowed' = k /\ taken' = [taken EXCEPT !["in"] = k]

\* Mutant: any answer of the upstream is taken for an agreement.
Accepted_Any ==
  /\ pc = "response"
  /\ resp \in {"ok", "other"}
  /\ pc' = "reply"
  /\ ReadAhead
  /\ UNCHANGED <<lines, deferred, answer, open, gauge, answerVars, peerVars, got,
                 buffered, copyVars, timeVars>>

Accepted ==
  /\ pc = "response"
  /\ resp = "ok"
  /\ pc' = "reply"
  /\ ReadAhead
  /\ UNCHANGED <<lines, deferred, answer, open, gauge, answerVars, peerVars, got,
                 buffered, copyVars, timeVars>>

(***************************************************************************)
(* A refusal whose body has not come yet: resp.Body.Close() reads a body   *)
(* of known length to its end before the status is looked at.              *)
(***************************************************************************)
DrainBody ==
  /\ pc = "response"
  /\ resp = "head"
  /\ pc' = "body"
  /\ SetDeadline("upstream")
  /\ UNCHANGED <<lines, deferred, answer, open, gauge, answerVars, peerVars,
                 streamVars, copyVars, idle>>

\* A status other than 200; an error of Body.Close() is dropped.
Rejected ==
  /\ \/ pc \in {"response", "body"} /\ resp = "other"
     \/ pc = "body" /\ "upstream" \in fin \union gone
     \/ pc = "body" /\ Expired("upstream")
  /\ Refuse("other")
  /\ UNCHANGED <<lines, deferred, open, gauge, answerVars, peerVars,
                 streamVars, copyVars, timeVars>>

\* ReadResponse fails: nonsense, the end of the stream, or the deadline.
ResponseFails ==
  /\ pc = "response"
  /\ \/ resp = "malformed"
     \/ resp = "none" /\ "upstream" \in fin \union gone
     \/ "upstream" \in gone
     \/ Expired("upstream")
  /\ Refuse("502")
  /\ UNCHANGED <<lines, deferred, open, gauge, answerVars, peerVars,
                 streamVars, copyVars, timeVars>>

(***************************************************************************)
(* The Write of a refusal returns.  The client's connection is not wrapped *)
(* yet and Hijack() took its deadlines away, so nothing but the client can *)
(* end this call.  Its error is dropped; a client that is gone may still   *)
(* have been written to.                                                   *)
(***************************************************************************)
Refused ==
  /\ pc = "answer"
  /\ reply' \in {answer} \union (IF "client" \in gone THEN {"none"} ELSE {})
  /\ counted' = IF answer = "502" THEN "upstream_error" ELSE "upstream_rejected"
  /\ Return
  /\ UNCHANGED <<logged, dialErrors, bytes, peerVars, streamVars, copyVars,
                 timeVars>>

\* The goroutines of tunnel() start; each begins with a Read.
StartTunnel ==
  /\ pc' = "tunnel"
  /\ copy' = [d \in Dirs |-> "reading"]
  /\ rem' = [c \in Conns |-> Idle]
  /\ idle' = 0

\* Mutant: what the client sent ahead is left in clientBuf.
Reply200_NoFlush ==
  /\ pc = "reply"
  /\ reply' = "200"
  /\ StartTunnel
  /\ UNCHANGED <<lines, deferred, answer, open, gauge, counted, logged, dialErrors,
                 bytes, peerVars, streamVars, n, halfClosed>>

\* The 200 for the client; then the write of clientBuf, if it holds any.
Reply200 ==
  /\ pc = "reply"
  /\ reply' = "200"
  /\ IF buffered > 0
     THEN /\ pc' = "flush"
          /\ SetDeadline("upstream")
          /\ UNCHANGED <<copy, idle>>
     ELSE StartTunnel
  /\ UNCHANGED <<lines, deferred, answer, open, gauge, counted, logged, dialErrors,
                 bytes, peerVars, streamVars, n, halfClosed>>

Reply200Fails ==
  /\ pc = "reply"
  /\ "client" \in gone
  /\ Return
  /\ UNCHANGED <<answerVars, peerVars, streamVars, copyVars, timeVars>>

Flush ==
  /\ pc = "flush"
  /\ got' = [got EXCEPT !["out"] = [i \in 1..buffered |-> i]]
  /\ StartTunnel
  /\ UNCHANGED <<lines, deferred, answer, open, gauge, answerVars, peerVars, taken,
                 buffered, swallowed, n, halfClosed>>

\* The write of clientBuf fails; part of it may have got through.
FlushFails ==
  /\ pc = "flush"
  /\ "upstream" \in gone \/ Expired("upstream")
  /\ \E k \in 0..(buffered - 1) :
       got' = [got EXCEPT !["out"] = [i \in 1..k |-> i]]
  /\ Return
  /\ UNCHANGED <<answerVars, peerVars, taken, buffered, swallowed, copyVars,
                 timeVars>>

-----------------------------------------------------------------------------
(***************************************************************************)
(* tunnel().  A loop of io.Copy is "reading" (blocked in Read on its       *)
(* source), "writing" (in Write on its destination) or "done".  The end of *)
(* one call and the SetDeadline of the next are one step.                  *)
(***************************************************************************)

\* The half-close at the end of a loop, where the type assertion succeeds.
CloseWrite(c) ==
  halfClosed' = IF IsCloseWriter THEN halfClosed \union {c} ELSE halfClosed

\* Mutant: only Read resets a deadline.
ReadChunk_WriteDoesNotReset(d) ==
  /\ pc = "tunnel"
  /\ copy[d] = "reading"
  /\ taken[d] < sent[d]
  /\ taken' = [taken EXCEPT ![d] = @ + 1]
  /\ copy' = [copy EXCEPT ![d] = "writing"]
  /\ idle' = 0
  /\ UNCHANGED <<handlerVars, peerVars, got, buffered, swallowed, n,
                 halfClosed, rem>>

ReadChunk(d) ==
  /\ pc = "tunnel"
  /\ copy[d] = "reading"
  /\ taken[d] < sent[d]
  /\ taken' = [taken EXCEPT ![d] = @ + 1]
  /\ copy' = [copy EXCEPT ![d] = "writing"]
  /\ SetDeadline(Dst(d))
  /\ idle' = 0
  /\ UNCHANGED <<handlerVars, peerVars, got, buffered, swallowed, n,
                 halfClosed>>

\* Mutant: only the first Read of a loop sets a deadline.
WriteChunk_ReadDoesNotReset(d) ==
  /\ pc = "tunnel"
  /\ copy[d] = "writing"
  /\ got' = [got EXCEPT ![d] = Append(@, taken[d])]
  /\ n' = [n EXCEPT ![d] = @ + 1]
  /\ copy' = [copy EXCEPT ![d] = "reading"]
  /\ idle' = 0
  /\ UNCHANGED <<handlerVars, peerVars, taken, buffered, swallowed,
                 halfClosed, rem>>

WriteChunk(d) ==
  /\ pc = "tunnel"
  /\ copy[d] = "writing"
  /\ got' = [got EXCEPT ![d] = Append(@, taken[d])]
  /\ n' = [n EXCEPT ![d] = @ + 1]
  /\ copy' = [copy EXCEPT ![d] = "reading"]
  /\ SetDeadline(Src(d))
  /\ idle' = 0
  /\ UNCHANGED <<handlerVars, peerVars, taken, buffered, swallowed,
                 halfClosed>>

\* Mutant: the read goes on when its deadline passes.
ReadEnds_NoDeadline(d) ==
  /\ pc = "tunnel"
  /\ copy[d] = "reading"
  /\ \/ Src(d) \in fin /\ taken[d] = sent[d]
     \/ Src(d) \in gone
  /\ copy' = [copy EXCEPT ![d] = "done"]
  /\ CloseWrite(Dst(d))
  /\ UNCHANGED <<handlerVars, peerVars, streamVars, n, timeVars>>

\* Mutant: what is left to read at the end of the stream is not read.
ReadEnds_Undrained(d) ==
  /\ pc = "tunnel"
  /\ copy[d] = "reading"
  /\ Src(d) \in fin \union gone \/ Expired(Src(d))
  /\ copy' = [copy EXCEPT ![d] = "done"]
  /\ CloseWrite(Dst(d))
  /\ UNCHANGED <<handlerVars, peerVars, streamVars, n, timeVars>>

\* Read returns the end of the stream, an error, or that time is up.
ReadEnds(d) ==
  /\ pc = "tunnel"
  /\ copy[d] = "reading"
  /\ \/ Src(d) \in fin /\ taken[d] = sent[d]
     \/ Src(d) \in gone
     \/ Expired(Src(d))
  /\ copy' = [copy EXCEPT ![d] = "done"]
  /\ CloseWrite(Dst(d))
  /\ UNCHANGED <<handlerVars, peerVars, streamVars, n, timeVars>>

\* Mutant: a write that fails is tried again.
WriteFails_Retries(d) ==
  /\ pc = "tunnel"
  /\ copy[d] = "writing"
  /\ Dst(d) \in gone \/ Expired(Dst(d))
  /\ SetDeadline(Dst(d))
  /\ UNCHANGED <<handlerVars, peerVars, streamVars, copyVars, idle>>

\* Write fails: the peer is gone, or time is up.
WriteFails(d) ==
  /\ pc = "tunnel"
  /\ copy[d] = "writing"
  /\ Dst(d) \in gone \/ Expired(Dst(d))
  /\ copy' = [copy EXCEPT ![d] = "done"]
  /\ CloseWrite(Dst(d))
  /\ UNCHANGED <<handlerVars, peerVars, streamVars, n, timeVars>>

\* Mutant: tunnel() waits for one of its goroutines only.
TunnelReturns_First ==
  /\ pc = "tunnel"
  /\ \E d \in Dirs : copy[d] = "done"
  /\ bytes' = n
  /\ logged' = "allow"
  /\ counted' = "allow"
  /\ Return
  /\ UNCHANGED <<reply, dialErrors, peerVars, streamVars, copyVars, timeVars>>

\* Mutant: the two results of tunnel() are taken in the wrong order.
TunnelReturns_Swapped ==
  /\ pc = "tunnel"
  /\ \A d \in Dirs : copy[d] = "done"
  /\ bytes' = [d \in Dirs |-> IF d = "in" THEN n["out"] ELSE n["in"]]
  /\ logged' = "allow"
  /\ counted' = "allow"
  /\ Return
  /\ UNCHANGED <<reply, dialErrors, peerVars, streamVars, copyVars, timeVars>>

\* wg.Wait() returns: the bytes, the audit event and the count.
TunnelReturns ==
  /\ pc = "tunnel"
  /\ \A d \in Dirs : copy[d] = "done"
  /\ bytes' = n
  /\ logged' = "allow"
  /\ counted' = "allow"
  /\ Return
  /\ UNCHANGED <<reply, dialErrors, peerVars, streamVars, copyVars, timeVars>>

-----------------------------------------------------------------------------
(***************************************************************************)
(* The peers and the clock (external).                                     *)
(***************************************************************************)

Connected(c) == pc # "returned" /\ (c = "client" \/ c \in open)

\* Answers to the CONNECT: "head" is a refusal whose body is to come.
Answers == {"ok", "head", "other", "malformed"}

Respond(s) ==
  /\ \/ pc = "response" /\ resp = "none"
     \/ pc = "body" /\ resp = "head" /\ s = "other"
  /\ "upstream" \notin fin \union gone
  /\ resp' = s
  /\ UNCHANGED <<handlerVars, fin, gone, sent, streamVars, copyVars,
                 timeVars>>

\* A peer sends a chunk: the client at any time, the upstream after its 200.
Send(d) ==
  /\ Connected(Src(d))
  /\ Src(d) \notin fin \union gone
  /\ sent[d] < MaxSend
  /\ d = "in" => resp = "ok"
  /\ sent' = [sent EXCEPT ![d] = @ + 1]
  /\ UNCHANGED <<handlerVars, resp, fin, gone, streamVars, copyVars,
                 timeVars>>

CloseSending(c) ==
  /\ Connected(c)
  /\ c \notin fin \union gone
  /\ fin' = fin \union {c}
  /\ UNCHANGED <<handlerVars, resp, gone, sent, streamVars, copyVars,
                 timeVars>>

Leave(c) ==
  /\ Connected(c)
  /\ c \notin gone
  /\ gone' = gone \union {c}
  /\ UNCHANGED <<handlerVars, resp, fin, sent, streamVars, copyVars,
                 timeVars>>

(***************************************************************************)
(* No goroutine of the handler can take a step: all wait for the peers.  A *)
(* reply that is not taken is not among these waits: no deadline that runs *)
(* meanwhile is looked at again before it is set anew.                     *)
(***************************************************************************)
Blocked ==
  \/ pc = "response" /\ resp = "none" /\ "upstream" \notin fin \union gone
       /\ ~Expired("upstream")
  \/ pc = "body" /\ resp = "head" /\ "upstream" \notin fin \union gone
       /\ ~Expired("upstream")
  \/ pc = "flush" /\ Slow /\ "upstream" \notin gone /\ ~Expired("upstream")
  \/ /\ pc = "tunnel"
     /\ \E d \in Dirs : copy[d] # "done"
     /\ \A d \in Dirs :
          \/ copy[d] = "done"
          \/ /\ copy[d] = "reading"
             /\ taken[d] = sent[d]
             /\ Src(d) \notin fin \union gone
             /\ ~Expired(Src(d))
          \/ /\ copy[d] = "writing"
             /\ Slow
             /\ Dst(d) \notin gone
             /\ ~Expired(Dst(d))

Tick ==
  /\ Idle > 0
  /\ Blocked
  /\ rem' = [c \in Conns |-> IF rem[c] > 0 THEN rem[c] - 1 ELSE 0]
  /\ idle' = IF idle < Idle THEN idle + 1 ELSE Idle
  /\ UNCHANGED <<handlerVars, peerVars, streamVars, copyVars>>

-----------------------------------------------------------------------------
Init ==
  /\ pc = "acl"
  /\ lines = 0
  /\ deferred = {}
  /\ answer = "none"
  /\ open = {}
  /\ gauge = 0
  /\ reply = "none"
  /\ counted = "none"
  /\ logged = "none"
  /\ dialErrors = 0
  /\ bytes = [d \in Dirs |-> 0]
  /\ resp = "none"
  /\ fin = {}
  /\ gone = {}
  /\ sent = [d \in Dirs |-> 0]
  /\ taken = [d \in Dirs |-> 0]
  /\ got = [d \in Dirs |-> <<>>]
  /\ buffered = 0
  /\ swallowed = 0
  /\ copy = [d \in Dirs |-> "off"]
  /\ n = [d \in Dirs |-> 0]
  /\ halfClosed = {}
  /\ rem = [c \in Conns |-> Idle]
  /\ idle = 0

Setup ==
  \/ Deny \/ Allow
  \/ HijackFails \/ Hijack
  \/ DialTCP \/ DialFails \/ HandshakeFails \/ Dial
  \/ SendLine \/ SendFails
  \/ Accepted \/ DrainBody \/ Rejected \/ ResponseFails
  \/ Refused \/ Reply200 \/ Reply200Fails
  \/ Flush \/ FlushFails

Copy(d) == ReadChunk(d) \/ WriteChunk(d) \/ ReadEnds(d) \/ WriteFails(d)

Peers ==
  \/ \E s \in Answers : Respond(s)
  \/ \E d \in Dirs : Send(d)
  \/ \E c \in Conns : CloseSending(c) \/ Leave(c)

Next ==
  \/ Setup
  \/ \E d \in Dirs : Copy(d)
  \/ TunnelReturns
  \/ Peers
  \/ Tick

Spec == Init /\ [][Next]_vars

(***************************************************************************)
(* Goroutines that can run do run and time passes.  Peers need not do      *)
(* anything; a Write of a reply, of clientBuf or in the tunnel need not    *)
(* complete if they may be slow.                                           *)
(***************************************************************************)
Answering == pc \in {"answer", "reply"}

Fairness ==
  /\ WF_vars(Setup /\ (Slow => ~Answering /\ pc # "flush"))
  /\ WF_vars(Setup /\ Answering /\ "client" \in gone)
  /\ WF_vars(FlushFails)
  /\ \A d \in Dirs :
       /\ WF_vars(ReadChunk(d) \/ ReadEnds(d))
       /\ WF_vars(WriteFails(d))
       /\ WF_vars(~Slow /\ WriteChunk(d))
  /\ WF_vars(TunnelReturns)
  /\ WF_vars(Tick)

FairSpec == Spec /\ Fairness

-----------------------------------------------------------------------------
TypeOK ==
  /\ pc \in {"acl", "hijack", "dial", "handshake", "send", "response", "body",
             "answer", "reply", "flush", "tunnel", "returned"}
  /\ lines \in 0..Lines
  /\ deferred \in SUBSET (Conns \union {"gauge"})
  /\ answer \in {"none", "502", "other"}
  /\ open \in SUBSET Conns
  /\ gauge \in Nat
  /\ reply \in {"none", "200", "403", "500", "502", "other"}
  /\ counted \in {"none", "deny", "upstream_error", "upstream_rejected",
                  "allow"}
  /\ logged \in {"none", "deny", "allow"}
  /\ dialErrors \in Nat
  /\ bytes \in [Dirs -> Nat]
  /\ resp \in Answers \union {"none"}
  /\ fin \in SUBSET Conns
  /\ gone \in SUBSET Conns
  /\ sent \in [Dirs -> Nat]
  /\ taken \in [Dirs -> Nat]
  /\ got \in [Dirs -> Seq(Nat)]
  /\ buffered \in Nat
  /\ swallowed \in Nat
  /\ copy \in [Dirs -> {"off", "reading", "writing", "done"}]
  /\ n \in [Dirs -> Nat]
  /\ halfClosed \in SUBSET Conns
  /\ rem \in [Conns -> 0..Idle]
  /\ idle \in 0..Idle

(***************************************************************************)
(* Neither stream is reordered, duplicated or cut in its middle by the     *)
(* hand-over from a buffer to a copying goroutine: the upstream gets what  *)
(* the client sent from the first chunk on, and the client what the        *)
(* upstream sent from the first chunk that ReadResponse left.              *)
(***************************************************************************)
StreamsIntact ==
  /\ got["out"] = [i \in 1..Len(got["out"]) |-> i]
  /\ got["in"] = [i \in 1..Len(got["in"]) |-> swallowed + i]

(***************************************************************************)
(* The counts of a finished tunnel are final: what handleConnect reports   *)
(* is what the two goroutines have copied, and with the flush of clientBuf *)
(* it is all that the peers got.                                           *)
(***************************************************************************)
Accounted ==
  logged = "allow" =>
    /\ \A d \in Dirs : copy[d] = "done"
    /\ bytes["in"] = Len(got["in"])
    /\ bytes["out"] + buffered = Len(got["out"])

(***************************************************************************)
(* Nothing the client sends reaches the upstream proxy as payload before   *)
(* that has agreed to the CONNECT, and nothing reaches the client before   *)
(* the 200.                                                                *)
(***************************************************************************)
DataOnlyAfterAgreement ==
  /\ got["out"] # <<>> => resp = "ok"
  /\ got["in"] # <<>> => reply = "200"

(***************************************************************************)
(* On every path out of the handler, a failed handshake in dialUpstream()  *)
(* included, its connections are closed and the gauge is back where it     *)
(* was; while it runs, the gauge counts only what has both connections.    *)
(***************************************************************************)
NothingLeaks ==
  /\ pc = "returned" => open = {} /\ gauge = 0
  /\ gauge > 0 => gauge = 1 /\ open = Conns

(***************************************************************************)
(* One timer for the whole tunnel: while both directions wait for data,    *)
(* the two deadlines are the same, so neither leg is cut off before the    *)
(* other, if writes do not block.                                          *)
(***************************************************************************)
SharedTimer ==
  ~Slow /\ pc = "tunnel" /\ (\A d \in Dirs : copy[d] = "reading")
    => rem["client"] = rem["upstream"]

\* Direction d stops although its peers are there and nothing has ended.
TimesOut(d) ==
  /\ copy[d] \in {"reading", "writing"}
  /\ copy'[d] = "done"
  /\ Src(d) \notin fin \union gone
  /\ Dst(d) \notin gone

(***************************************************************************)
(* If writes do not block, the idle timeout only cuts off a direction      *)
(* after IdleTimeout without a chunk in either direction.                  *)
(***************************************************************************)
GenuineIdle == [][~Slow => \A d \in Dirs : TimesOut(d) => idle = Idle]_vars

\* Chunks of direction d that nobody will read again, at its start.
Offset(d) == IF d = "in" THEN swallowed ELSE 0

\* Direction d ends with both peers there and no deadline passed.
EndsInOrder(d) ==
  /\ copy[d] # "done"
  /\ copy'[d] = "done"
  /\ gone = {}
  /\ \A c \in Conns : ~Expired(c)

(***************************************************************************)
(* A direction that ends without an error or a timeout has passed on all   *)
(* that its peer sent before closing, but for what ReadResponse read       *)
(* ahead: a half-close is never passed on, by CloseWrite or by the return, *)
(* in front of data.                                                       *)
(***************************************************************************)
EndsWhole ==
  [][\A d \in Dirs : EndsInOrder(d) =>
       Src(d) \in fin /\ Offset(d) + Len(got[d]) = sent[d]]_vars

(***************************************************************************)
(* What the handler can do before its peers move again: chunks that have   *)
(* come, writes of the CONNECT, loops that run, stages to go through.      *)
(***************************************************************************)
Pending(d) ==
  2 * (sent[d] - taken[d]) + (CASE copy[d] = "writing" -> 2
                                [] copy[d] = "done" -> 0
                                [] OTHER -> 1)

LinesLeft ==
  CASE pc \in {"acl", "hijack", "dial", "handshake"} -> Lines
    [] pc = "send" -> lines
    [] OTHER -> 0

Stage ==
  CASE pc = "acl" -> 9
    [] pc = "hijack" -> 8
    [] pc = "dial" -> 7
    [] pc = "handshake" -> 6
    [] pc = "send" -> 5
    [] pc = "response" -> 4
    [] pc \in {"body", "reply"} -> 3
    [] pc = "flush" -> 2
    [] pc \in {"tunnel", "answer"} -> 1
    [] OTHER -> 0

Work == Stage + LinesLeft + Pending("out") + Pending("in")
TimeLeft == rem["client"] + rem["upstream"]

(***************************************************************************)
(* The proxy does not spin: each of its steps leaves it less to do, until  *)
(* a peer moves, and time passes only towards a deadline that something    *)
(* waits for.  So only peers that keep moving keep a tunnel for ever.      *)
(***************************************************************************)
NeverSpins ==
  [][\/ Peers
     \/ Work' \in Nat /\ Work' < Work
     \/ Work' = Work /\ TimeLeft' \in Nat /\ TimeLeft' < TimeLeft]_vars

(***************************************************************************)
(* What handleConnect() promises about a request, errors included.         *)
(***************************************************************************)
Request == INSTANCE ProxiedRequest WITH
  Errors <- {"none", "upstream_error", "upstream_rejected"},
  active <- gauge,
  up <- Len(got["out"]),
  passed <- Len(got["in"]),
  down <- Len(got["in"]),
  outcome <- IF pc = "returned"
             THEN <<[counted |-> counted, logged |-> logged,
                     bytes |-> bytes["in"]]>>
             ELSE <<>>

(***************************************************************************)
(* On every way through handleConnect() the gauge, the counter, the audit  *)
(* event and its bytes agree with the payload that was passed on; one that *)
(* fails gave the client no payload and is not reported as allowed.        *)
(***************************************************************************)
ImplementsRequest == Request!Spec

(***************************************************************************)
(* With an idle timeout, peers that fall silent, stop reading, half-close  *)
(* or leave do not keep a request for ever: the handler returns.  Two      *)
(* premises come with the code.  The client must take the handler's reply  *)
(* or leave, for that one Write has no deadline; and peers send a bounded  *)
(* number of chunks, for a tunnel in use is never cut off.                 *)
(***************************************************************************)
Reclaimed == Idle > 0 /\ []<>~Answering => <>(pc = "returned")
=============================================================================
