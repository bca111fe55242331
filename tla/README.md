# TLA+ models of istio-forward-proxy

istio-forward-proxy is an egress proxy for an Istio mesh. Pods send it plain
HTTP requests with absolute URIs, or CONNECT requests; it lets a request pass
only if a `ServiceEntry` of the cluster covers the host and port, and forwards
it over mTLS to one upstream proxy. This directory holds TLA+ models of its
concurrent and failure-prone parts, TLC configurations for small instances, and
TLAPS proofs for all instances.

## Inventory

| Component | State | Operations | Interacts with |
|---|---|---|---|
| ServiceEntry watcher (`internal/serviceentry`) | `hosts`, `wildcards` under `mu`; `synced` | `Run`, `rebuild` (one call per informer event), `AllowHost`, `Count`, `Synced`, `DumpJSON` | the informer's cache and listener goroutine, request goroutines, `/readyz` |
| Certificate manager (`internal/certs`) | `current`, an atomic pointer | `NewManager`, `reload`, `Watch`, `TLSConfig` | the kubelet's Secret volume through fsnotify, `dialUpstream` |
| CONNECT path (`internal/proxy`) | per request: two connections, their deadlines, two goroutines, two buffers, metrics | `handleConnect`, `dialUpstream`, `denyConnect`, `tunnel`, `idleTimeoutConn` | watcher, manager, audit log, client, upstream |
| HTTP forward path (`internal/proxy`) | per request a body counter, headers, metrics, an audit event | `handleHTTPForward`, `buildUpstreamRequest`, `countingReadCloser`, `denyForward` | the same, and the goroutines of `http.Transport` and `http.Server` that read the request's body |
| Upstream pool (`internal/proxy`) | the shared `http.Transport` and its connections | `upstreamTransport`, `buildTransport`, `dialForTransport`, `dialUpstream` | forwarded requests, the manager's current certificate, the upstream |
| Pure helpers (`internal/proxy`, `cmd`) | none | `splitHostPort`, `isHopByHop`, `extractSPIFFEFromXFCC`, `headerNameFromEnv`, `isLoopback`, ... | request parsing, audit identity, flags |
| Process (`cmd/main.go`) | context, signal channel, two servers | start, signal, `Shutdown` | all of the above |
| Endpoints (`cmd/main.go`) | none | `/readyz`, `/debug/allowlist`, `/healthz`, `/metrics` | the watcher's `Synced` and `DumpJSON` |
| Audit logger (`internal/audit`) | none | `Log` | both request paths |

What is hard here, and what correctness means:

- *Watcher.* `rebuild` lists the cache without a lock and stores two fields
  under one. No change may be lost, no request may see half of an update, the
  lock may not starve anybody, and what is admitted must be what the
  ServiceEntries say, for every order in which the lister returns them.
- *Manager.* Three files are read one after the other from a directory whose
  target is swapped at any moment, for events that come from a bounded queue.
  What is in use must fit together, exist before the first dial, and in the end
  be the current Secret.
- *CONNECT.* A dozen early returns, a hand-over from buffered readers to raw
  connections, and deadlines shared by two goroutines. Nothing may leak, the
  streams must stay intact, no payload may flow before the agreement, tunnels
  in use must live and abandoned ones must end.
- *Forward path.* The upstream may answer while the body is still being sent;
  then the write loop of Transport, the counting handler and the server, which
  reads the body too before it writes a response, are at work on one body. A
  connection may fail and be replaced. What is sent must be what was checked,
  at most once unless it may be repeated, in order, and accounted for; what is
  cut off must not look complete; and no peer may hold a request for ever.
- *Pool.* Dials outlive the requests they were started for, certificates rotate
  meanwhile, and idle connections go stale just when they are handed out. No
  socket may leak or be shared, no new connection may be older than its
  request, and a request that can be repeated must not notice.
- *Process.* Signals and failing listeners come at any moment, and two servers
  share the time to stop. The process must stop in that time and use it.

`PROJECT.json` lists each hazard at its line with the properties that cover it.

## Modules

| Module | Models |
|---|---|
| `AllowList` | the pure part of the watcher: normalising names, what `rebuild` builds from a listing, how `AllowHost` decides; the reference definitions `Matches` and `Covers` |
| `ServiceEntryWatcher` | the watcher's goroutines, the informer and the RWMutex |
| `AccessPolicy` | the abstract specification that the watcher implements: one policy, replaced in one step, asked in one step |
| `CertManager` | `reload` and `Watch` against the kubelet and fsnotify |
| `ConnectTunnel` | one CONNECT request from the ACL check to the return |
| `ProxiedRequest` | the abstract specification that both request paths implement: refused, served or failed, once, with gauge, counter, audit event and payload in agreement |
| `RequestParsing` | the pure functions of the request path, on abstract requests |
| `ForwardRequest` | one plain HTTP request, with Transport's write loop, the server and the clock; uses `RequestParsing` |
| `UpstreamPool` | several requests, their dials and the pool, across certificate rotations |
| `Lifecycle` | `main()` and its two servers |
| `AllowListProofs`, `WatcherProofs`, `CertManagerProofs`, `ConnectProofs`, `ForwardProofs`, `PoolProofs`, `LifecycleProofs` | the theorems |
| `EgressProofs` | a theorem that joins `ForwardProofs` and `AllowListProofs` |
| `MCServiceEntryWatcher`, `MCCertManager`, `MCConnectTunnel`, `MCForwardRequest` | instances for TLC, and what the docs say that the code does not do |

### ServiceEntryWatcher

A host name is a record of labels, an upper-case flag and trailing dots, so that
`Normalise` (lower case, one trailing dot off) does something. A ServiceEntry is
its name, hosts and ports; `rebuild` looks at nothing else, not at `location`.
`Listings(c)` is every order of the cached ServiceEntries, since the lister
iterates over a Go map. The wildcards that one ServiceEntry appends carry the
same entry and are one element of the slice.

`InformerPop` copies one object from the API server into the cache and queues a
notification; `RebuildList` takes a notification and lists the cache;
`RebuildLockCall`/`RebuildLock` are the call and the return of `mu.Lock()`, a
waiting writer keeping new readers out, as `sync.RWMutex` does; then come the
two stores and the unlock, one step each. `AllowHostRLock`, `AllowHostExact` and
`AllowHostWild` are `AllowHost`. `DumpRLock` and `DumpReturns` are `DumpJSON`,
which writes to its client under the read lock. `Run` sets `synced` after
`WaitForCacheSync`, whose result it drops. Once the context is done the listener
may end with notifications still queued (`ListenerStops`).

### CertManager

The kubelet makes a directory, sets its mode, swaps `..data` and removes the old
directory; each raises an event if the directory is watched. `ReadCrt`,
`ReadKey`, `ReadCA` and `Store` are `reload`; a read sees the version that
`..data` points to at that moment. `KeyOf` tells which versions share a key:
a renewed certificate with the same key passes the pair check although the files
come from two versions. The variable `announced` is history: whether the last
swap raised an event that was queued.

### ConnectTunnel

A stream is a row of numbered chunks. `Hijack` leaves any number of the chunks
the client has sent in `clientBuf`, `Accepted` any number of those the upstream
has sent in the abandoned reader of `ReadResponse`. `deferred` is what Go will
run at the return; `Return` runs it. `DrainBody` is `resp.Body.Close()`, which
reads a body of known length to its end. A 200 to CONNECT has no body (RFC
9110). The proxy's own answers to the client are Writes on the connection that
Hijack left without deadlines. At the place "answer" a refusal is being written
(`Refuse`; `Refused` is the return that follows), at "reply" the 200. With slow
peers either may last as long as the client neither reads nor leaves;
`Answering` is that wait.

Time is counted in ticks; `rem[c]` is what is left of the deadline of connection
c and `idle` is how long no chunk moved. A tick passes only while every
goroutine of the handler waits. `Slow` says whether a Write may block
while time passes. Dial and handshake are bounded by DialTimeout and are steps
that succeed or fail. A Write of `clientBuf` that fails may have sent a part of
it (`FlushFails`).

### ProxiedRequest

What a caller, or a reader of the metrics and the audit log, may rely on for one
request of either kind: `Admit` raises the gauge, payload is passed on for the
client only while it is raised and goes to the upstream only for a request that
was admitted, and the handler returns once, by `Refuse` (logged, nothing sent),
`Serve` (logged with exactly what was passed on) or `Fail` (counted or not,
logged or not, but never as refused or served, and nothing passed on). What was
passed on may reach the client later, or not at all: `Deliver` is possible after
the return, since the server buffers. `ConnectTunnel` and `ForwardRequest`
each map their state to it in `Request`; `ImplementsRequest` is the refinement.
`Errors` are the labels of the counter that a failure may leave: a CONNECT whose
hijack or whose writes fail is not counted at all. `Push` after the return is
real: Transport's write loop may still be sending a body when the handler of an
early answer has returned.

### ForwardRequest and RequestParsing

A request is a record: whether its URI is absolute, scheme, authority (host,
brackets, form and number of the port), header names, the kind of its body
(none, of known length, chunked), whether its method is idempotent, and what
identity the connection or a header claims. The URI goes upstream as it came,
so `Destination` says where the upstream takes it, to compare with what the
allowlist was asked (`Target`). For an https URI Transport first sends a CONNECT
for the same host and port, and a handshake, on a new connection; that is part
of `Dial`, and a failure of it one of `RoundTripFails`. `CheckedIsSent` is about
ports up to `MaxPort`, 65535: a larger number names no destination.

Bodies are rows of numbered chunks, of which `taken` were read by anybody.
`WriteBody`, `EndBody` and `WriterFails` are Transport's write loop, which reads
through the `countingReadCloser` (`Read`). The server's part is external, but
decides what the code does: `Flush`, `Discard` and `DiscardEnds` are net/http's
rule that the first write of an HTTP/1.1 response reads what is left of the
request's body, up to a limit; the handler's `io.Copy` waits for it. `Finish`
ends the response: without a declared length, a response that was cut off ends
like a whole one, which is why `TruncationShows` is about those with one.
`Retry` and `ShouldRetry` are Transport's rule for another attempt, which starts
a message of its own. What the handler writes of a response goes into the
server's buffers, of `Buffer` chunks in all: `CopyChunk` fills them, a Write
into full ones waits (`InWrite`), and `Deliver` hands chunks to the client,
those of a short response after the handler has returned and logged.
`RoundTripFails` and `RoundTripReturns` include what the handler does right
after RoundTrip; `CopyEnds` includes the audit event, the metrics and the
deferred calls. `early` is history: the answer came before the body was written.

### UpstreamPool

`dialUpstream` is `StartDial`, `DialTCP` (which reads
`CertManager.TLSConfig()`), `Handshake` and their failures; `Dialed` is the
return of `dialForTransport`. A dial has an `asker` as long as the request that
started it still waits; otherwise its connection goes to whoever waits, to the
pool, or is closed (`PutIdle`). The certificate is a generation number that
`Rotate` raises; `seen` is history, the generation when the request started.
Which idle connection is taken is open, so the order of Transport's list does
not matter. An idle connection may be taken in the moment its deadline expires:
`Expire` leaves the outcome to the order of steps. A request may also be written
to a connection that the upstream has closed already, which the proxy notices
only later; `sent` is history, the requests that were written at least once.
`ShouldRetry` is Transport's rule as in `ForwardRequest`: a pooled connection,
no body, and once the request was written, an idempotent method.

### Lifecycle

`main` is the place in `main()`; a request is new, active, a tunnel (hijacked:
the server forgets it), done, or cut off by the end of the process. `Exit` is
`os.Exit`, the return of `main` and a signal without a handler. Time counts
only while a Shutdown waits.

## Runs

| Run | Instance | Shows |
|---|---|---|
| `WatcherSafety` | 2 ServiceEntries out of 3 specifications (exact, exact and wildcard, wildcard), any initial state of the API server and one change, 2 queries, 1 reader | no lost update; a quiet allowlist is sound, and complete where ServiceEntries agree; no lock is leaked; the watcher implements `AccessPolicy` |
| `WatcherLiveness` | 1 specification, 1 query | the allowlist converges, the lock is always given back |
| `Certificates` | 6 versions (renewal with the same key, new key, each file broken once), 3 rotations, queue of 2 | the configuration in use fits together and is not stale; an announced rotation takes effect |
| `Connect` | idle 2, mTLS, slow peers, 3 chunks per direction | no leak, streams intact, accounted and whole at their end, no early payload; `ProxiedRequest` is implemented; no step without progress; every request ends |
| `ConnectTimer` | idle 3, no mTLS, prompt peers, 2 chunks | one shared, genuine idle timer |
| `Forward` | 20 requests (three schemes with every form of port, every kind of body, a method that may not be repeated, an IPv6 literal, a relative URI), at most 1 pooled connection, all timeouts 2, slow peers, bodies of 2 chunks, a buffer of 1, the server discards at most 1 | a complete body is whole; no replay; counted, logged and settled; no silent truncation; sent where it was checked; `ProxiedRequest` is implemented; no step without progress; every request ends |
| `Pool` | 2 requests without a body, one of which may be repeated, 3 sockets, room for 1 idle, idle timeout 3, dial timeout 1, 1 rotation, 1 close by the upstream | no leak, no sharing, no outdated new connection, no failure of a repeatable request by a stale one and no repetition of the other; all connections end |
| `Lifecycle` | 2 proxied requests, 1 to the metrics server, grace 2 | stops in time, metrics last, nothing but tunnels cut off early |

The bounds are the smallest at which the interesting cases meet: two
ServiceEntries that disagree, a change during a rebuild and one behind it; a
rotation in the middle of a reload that a rotation started, and a full queue; a
buffered chunk, one in flight and one to come; a chunk for each of the two
readers of a body; a response that fits into the server's buffer and one that
does not; a connection in use, one idle and one being dialed for nobody; a
request, a tunnel and a scrape in one shutdown. `MaxChanges`, `MaxPending`,
`MaxSwaps`, `MaxSend`, `MaxPooled`, `MaxBody`, `MaxResp`, `MaxRotations`,
`MaxCloses` and the set `Conns` are the only bounds on counters; the theorems
hold for all their values, and for all values of `Buffer` and `DiscardLimit`,
which stand for limits of the server. In `Forward`, `ParseLimit` stands for
2^32: only that it is above `MaxPort`, and whether a port is below it, matters.
The runs other than the watcher's do not check deadlock: a request ends, the
process ends, and rotations are bounded.

Four more runs check a statement of the docs, comments or tests that the code
does not keep; TLC finds a counterexample for each, and `PROJECT.json` quotes
the statement under `findings`:

- `EveryChangeReloaded`: a rotation between the first load and the start of the
  watch goes unnoticed until the next one;
- `EarlyBytesDelivered`: bytes that the upstream sends right behind its 200 to a
  CONNECT are lost in an abandoned buffer;
- `EveryRequestLogged`: an allowed CONNECT that fails at the upstream ends with
  a 502, or with the upstream's refusal, and without an audit event (a forwarded
  request whose RoundTrip fails likewise);
- `ChunkedBodyIntact`: when the upstream answers early, the server takes chunks
  out of a chunked body, which then ends properly and passes for complete.

Smaller ones are visible in the models and have no run of their own. Watcher:
where ServiceEntries overlap, one that covers a request is not enough for it
(`QuiescentComplete` needs all that match to agree), and which one decides
changes with the order of the listing; `location` is not looked at; `synced` is
set before the first rebuild, and also when a cancelled context cuts the wait
short, so that a proxy that says it is ready may refuse everything for a moment;
no property is about `synced`. Manager: a rotation in the middle of a reload may
leave a certificate and a CA of two versions in use if the newer version is
broken (`FreshWhenQuiet` speaks of usable ones only). CONNECT: the bytes flushed
from `clientBuf` are not counted (the `buffered` of `Accounted`); the time a
slow Write takes counts as idle time (`GenuineIdle` needs prompt peers); no
deadline bounds the proxy's replies, so a client that sends ahead, does not read
and does not leave can hold the handler (the premise `[]<>~Answering` of
`Reclaimed`); and with IdleTimeout 0 a tunnel of which one side has closed may
stay for ever (`Reclaimed` needs an idle timeout). Forward path: what is read of
a body after an early answer is not counted, although the comment at
handler.go:143-145 calls the count complete (`BodyCounted` needs the answer to
come after the body); a response that goes on for longer than WriteTimeout is
cut off however lively it is; a request with a body fails when its pooled
connection has gone stale, and so does one without a body that was written and
whose method is not idempotent; the audit event has the bytes that were passed
to the server, which the client may never get; a port of 2^32 or more is checked
as the default port while the string goes upstream. Watcher and endpoints: a
dump whose client does not read holds the read lock as long as it likes, since
the metrics server has no write timeout (the premise `DumpsEnd` of the watcher's
liveness). Process: a signal between the start of the listeners and
`signal.Notify` ends the process at once. The properties that hold are what is
left of them: for example `StreamsIntact` holds from the first chunk that
`ReadResponse` left, `FreshWhenQuiet` for rotations whose event was queued,
`CompleteIsWhole` for bodies of known length and those answered in time.

### What keeps a request from going on for ever

`Reclaimed` and `Finishes` are liveness properties and only model-checked. Their
safety core is `NeverSpins`, which is proved: `Work`, a natural number, counts
the stages left to the handler, the lines and connections left to try and the
chunks that have come and were not passed on. Every step that is not a peer's
lowers it, or is a tick, which leaves it as it is and lowers `TimeLeft`. So
there is no endless loop of retries or of empty reads and writes: the proxy
comes to rest unless its peers keep moving. What stays with TLC is that, under
fairness, a request with its timeouts on does not rest before it has ended.
In the same way `LockOwned` is the safety core of the watcher's `LockReleased`.

## Fairness

- Watcher: goroutines that can run do run (weak fairness of the informer, the
  listener, `Run` and a reader that holds the lock). `Run`'s `Count()` is
  strongly fair, because `RWMutex.Unlock` lets in the readers that wait before
  the next writer. No client has to ask, nothing has to change, and neither
  resync nor cancellation has to come.
- Manager: the kubelet completes a rotation it began; `Watch` runs when it can.
- CONNECT: the handler's steps and time go on. Peers owe nothing, and with slow
  peers a Write need never succeed, be it one of the tunnel or one of the proxy's
  replies; a reply fails when the client has left.
- Forward path: the same; the write loop and the server also run when they can.
- Pool: requests take their next step, timers fire and time passes. The upstream
  need answer nothing, and no client need leave or come.
- Process: `main` runs when it can and time passes; no request need end.

`Drains` needs dials to be shorter than the idle timeout, as they are by
default; `Finishes` and `Reclaimed` need the timeouts to be on, as they are.
`Reclaimed` also needs what no timeout gives: that the client takes the reply to
its CONNECT or leaves, and that the peers do not keep a tunnel busy for ever
(`MaxSend`).

## Proofs

The theorems are about the same specifications, for all values of the constants
under `WatcherAssumption`, `CertAssumption`, `ConnectAssumption`,
`ParsingAssumption`, `ForwardAssumption`, `PoolAssumption` and
`LifecycleAssumption`, which TLC evaluates in the runs. The inductive invariants
are:

- **AllowListProofs.** No state: soundness and completeness of `AllowHost` over
  what `rebuild` builds from any listing, from the facts that `FirstOf` and
  `LastOf` pick a member (a bounded, nonempty set of numbers has a least and a
  greatest one).
- **WatcherProofs.** `QuiescentCurrent` is not inductive: it says nothing while
  a rebuild runs. `Current` adds that, with nothing queued, the snapshot of a
  running rebuild is a listing of the cache as it is now: a change after the
  listing always queues a notification. With the AllowList theorems this gives
  `Sound` and `Complete`. For `Linearizable`, `Locked` states the mutual
  exclusion of the stores and the readers, and who holds the mutex at each place
  of `rebuild` and `AllowHost`, which gives `NoLockLeaked` too; the mapping
  publishes the policy at the first store, and each step maps to a step of `AccessPolicy` or a stutter.
- **CertManagerProofs.** `Reading` relates each step of `reload` to what has been
  read and checked; `Serving` says that phases after the start have a
  configuration; `OnTheWay` is the strengthening for `FreshWhenQuiet`: while the
  Secret in place is announced, usable and not yet in use as a whole, a change
  event is queued or the running reload has read only from it.
- **ConnectProofs.** `Owned` gives the open connections, deferred calls and gauge
  for each place in the handler, the wait for a client to take an answer
  included; `Agreed` the answers seen there; `Placed` where
  every taken chunk is (a buffer, the other peer, or the hands of a loop in
  Write), from which `StreamsIntact` and `Accounted` follow; `Timed` says that
  with prompt peers a waiting Read has `Idle - idle` ticks left and a Write all
  of them, which gives `SharedTimer` and `GenuineIdle`. `Quiet` says that before
  the return nothing is counted or logged and that only a filled `clientBuf` is
  flushed, `Bounded` that no more was taken than sent; with `Placed` they give
  `WholeAtTheEnd`, the measure of `NoSpin` (`LessWork`, `LessStage`, `LoopWork`:
  which part of `Work` an action lowers), and, action by action, the refinement
  `ConnectKeepsPromise`.
- **ForwardProofs.** `Control` says what the handler has done at each place, from
  which `Settled` follows; `Sent` that a request back at `getconn` after an
  attempt may be repeated, and that its headers are those built for it. For the
  body, `Counts` is the strengthening: chunk i of what the upstream got is at
  least the client's i-th, and the chunks after it fit into what was read since,
  so that a body of the right length is the whole body without an induction over
  it; `Writing` says that the write loop outlives RoundTrip only after an early
  answer or on a closed connection, and `Passed` that an early answer is one that
  is served, that no more was relayed than came and no more delivered than was
  relayed, which the refinement `ForwardKeepsPromise` needs for the steps that
  come after the return. In
  `ForwardNoSpin` a retry goes back by up to three stages and weighs less than
  the pooled connection it has used up. `Headers` says that a declared length reaches
  the client unless it has left.
- **EgressProofs.** `EgressCovered` puts `NothingUnchecked` and `AllowHostSound`
  together: if every target that the handler lets through is one that `AllowHost`
  admits over some listing, a request that was sent, at its first attempt or a
  later one, is for a host and port that a ServiceEntry of that listing covers.
- **PoolProofs.** `Placed` is `Owned` socket by socket; it needs `Linked`: a
  request has a connection exactly while it uses it, and a dial with an asker is
  the only one of a request that waits. `Dated` extends `NewDialIsCurrent` to
  dials past their TCP part. For `StaleHidden`, `Written` is the strengthening: a request that
  has not started was not written, and one that waits for its answer was. `PutIdle`, the common part of several actions, has
  a lemma for each.
- **LifecycleProofs.** Time left and time waited add up to the grace period; what
  the metrics server's state says about the place in `main()`.

Only model-checked: the liveness properties `Converges`,
`LockReleased`, `EventuallyFresh`, `Reclaimed`, `Finishes`, `Drains` and `Stops`
(liveness under fairness is beyond the prover), and the counterexamples. Every
invariant and every action property of a passing run is the statement of a
theorem, and so is each of the three refinements. Type correctness is proved for
every module; the runs check it where it bounds something (a gauge, a deadline,
the pool), in `Connect`, `Forward` and `Pool`.

## Not modelled

`loadKubeConfig`, what flags and environment are parsed to (`headerNameFromEnv`,
`envOr`, `envOrBool`, `parseLogLevel`: conversions of strings without state),
the mux of the metrics server with its loopback test, log output, times and
addresses in audit events, `HostPortFromAddr` (nothing calls it), the Helm chart
and the scripts. The error return of `buildUpstreamRequest`'s caller
(handler.go:124-129) cannot be taken, as that function returns no error. HTTP/2
is not spoken on either side: the servers are plain HTTP, and a Transport with
dial hooks of its own does not negotiate it.

## Plan

1. The certificate that `UpstreamPool` uses is a generation number; `CertManager`
   could be composed with it to follow a rotation from the Secret to the wire.
2. Several forwarded requests over one pool with bodies: `ForwardRequest` has one
   request and counts idle connections, `UpstreamPool` has several and no bodies.
3. A measure like that of `NeverSpins` for the dials and timers of `UpstreamPool`
   and for `Lifecycle`, so that the safety core of `Drains` and `Stops` is proved
   as well.
