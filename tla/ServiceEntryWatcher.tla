------------------------ MODULE ServiceEntryWatcher ------------------------
(***************************************************************************)
(* internal/serviceentry: the Watcher that keeps the allowlist, the        *)
(* informer goroutines of client-go that feed it, and the request          *)
(* goroutines that ask it.                                                 *)
(*                                                                         *)
(* Goroutines.  Run() (runPC) starts the informer and sets synced.  The    *)
(* informer (external) copies the API server's ServiceEntries into its     *)
(* cache one object at a time and queues one notification per change; the  *)
(* listener goroutine (lpc) delivers the notifications in turn, and every  *)
(* handler is rebuild(), which ignores its arguments: the queue is a       *)
(* count.  A request goroutine (rpc) runs AllowHost().  rebuild() lists    *)
(* the cache WITHOUT the mutex, computes, and takes the write lock only to *)
(* store its two results; AllowHost() reads both under the read lock, and  *)
(* DumpJSON() holds the read lock until its client has taken the dump.     *)
(***************************************************************************)
EXTENDS AllowList

CONSTANTS
  Names,       \* namespace/name of the ServiceEntries there may be
  Specs,       \* what a ServiceEntry may say: hosts and ports
  NoSE,        \* the ServiceEntry does not exist
  Readers,     \* request goroutines
  Queries,     \* what they ask: a host and a port
  MaxChanges,  \* bound: writes to the API server
  MaxPending   \* bound: notifications queued for the listener

ASSUME WatcherAssumption ==
  /\ IsFiniteSet(Names)
  /\ NoSE \notin Specs
  /\ "DumpJSON" \notin Readers
  /\ \A s \in Specs :
       /\ DOMAIN s = {"hosts", "ports"}
       /\ \A h \in s.hosts : h \in Host(STRING)
       /\ s.ports \subseteq Nat
  /\ \A q \in Queries : q.host \in Host(STRING) /\ q.port \in Nat

VARIABLES
  api,        \* the ServiceEntries in the API server
  changes,    \* writes so far, for MaxChanges
  informer,   \* "off", "started" by factory.Start, "listed" by the reflector
  cache,      \* the informer's indexer, which the lister reads
  initial,    \* objects of the initial list still to be popped
  pending,    \* notifications queued for the listener
  ctxDone,    \* the context given to Run is cancelled
  runPC,      \* Run()
  synced,     \* Watcher.synced
  lpc,        \* the listener goroutine: "idle", in rebuild(), or "stopped"
  snapshot,   \* rebuild's entries: the listing it works from
  hosts,      \* Watcher.hosts
  wildcards,  \* Watcher.wildcards
  writer,     \* Watcher.mu: no writer, one "waiting" in Lock(), or "held"
  readers,    \* Watcher.mu: who holds the read lock, requests or DumpJSON
  rpc,        \* AllowHost() of each request goroutine
  query,      \* its arguments
  answer      \* its last result

clusterVars == <<api, changes>>
informerVars == <<informer, cache, initial, pending>>
runVars == <<ctxDone, runPC, synced>>
rebuildVars == <<lpc, snapshot>>
aclVars == <<hosts, wildcards>>
lockVars == <<writer, readers>>
readerVars == <<rpc, query, answer>>
vars == <<clusterVars, informerVars, runVars, rebuildVars, aclVars, lockVars,
          readerVars>>

-----------------------------------------------------------------------------
(***************************************************************************)
(* What lister.List(labels.Everything()) may return for the cache c: its   *)
(* ServiceEntries, each once, in any order (the indexer is a Go map, whose *)
(* iteration order differs from call to call).  Listing an in-memory       *)
(* indexer returns no error.                                               *)
(***************************************************************************)
Present(c) == {n \in Names : c[n] # NoSE}

ServiceEntry(c, n) ==
  [name |-> n, hosts |-> c[n].hosts, ports |-> c[n].ports]

Listings(c) ==
  {[i \in 1..Cardinality(Present(c)) |-> ServiceEntry(c, order[i])] :
     order \in Bijection(1..Cardinality(Present(c)), Present(c))}

Build(l) == <<BuildHosts(l), BuildWildcards(l)>>

Decide(policy, q) == AllowHost(policy[1], policy[2], q.host, q.port)

Builds(c) == {Build(l) : l \in Listings(c)}

\* rebuild() as a whole is running, between two of its steps or blocked.
Rebuilding == lpc \notin {"idle", "stopped"}

-----------------------------------------------------------------------------
(***************************************************************************)
(* The cluster and the informer (external).                                *)
(***************************************************************************)

\* A ServiceEntry is created, changed or deleted.
ApiWrite(n, s) ==
  /\ changes < MaxChanges
  /\ api[n] # s
  /\ api' = [api EXCEPT ![n] = s]
  /\ changes' = changes + 1
  /\ UNCHANGED <<informerVars, runVars, rebuildVars, aclVars, lockVars, readerVars>>

\* The reflector's first list: its objects are queued for the indexer.
ReflectorList ==
  /\ informer = "started"
  /\ ~ctxDone
  /\ informer' = "listed"
  /\ initial' = Present(api)
  /\ UNCHANGED <<clusterVars, cache, pending, runVars, rebuildVars, aclVars,
                 lockVars, readerVars>>

\* Mutant: there is no DeleteFunc.
InformerPop_NoDeleteFunc(n) ==
  /\ informer = "listed"
  /\ ~ctxDone
  /\ cache[n] # api[n] \/ n \in initial
  /\ pending < MaxPending
  /\ cache' = [cache EXCEPT ![n] = api[n]]
  /\ initial' = initial \ {n}
  /\ pending' = IF api[n] = NoSE THEN pending ELSE pending + 1
  /\ UNCHANGED <<clusterVars, informer, runVars, rebuildVars, aclVars, lockVars,
                 readerVars>>

(***************************************************************************)
(* One object reaches the indexer and its notification is queued after     *)
(* that: Add, Update and Delete all call rebuild().                        *)
(***************************************************************************)
InformerPop(n) ==
  /\ informer = "listed"
  /\ ~ctxDone
  /\ cache[n] # api[n] \/ n \in initial
  /\ pending < MaxPending
  /\ cache' = [cache EXCEPT ![n] = api[n]]
  /\ initial' = initial \ {n}
  /\ pending' = pending + 1
  /\ UNCHANGED <<clusterVars, informer, runVars, rebuildVars, aclVars, lockVars,
                 readerVars>>

(***************************************************************************)
(* The resync of the shared informer, every 10 minutes, for each object.   *)
(* It leaves one place of the bounded queue to InformerPop: the real queue *)
(* has no bound, so resyncs never hold a change back.                      *)
(***************************************************************************)
Resync(n) ==
  /\ informer = "listed"
  /\ ~ctxDone
  /\ n \in Present(cache)
  /\ pending + 1 < MaxPending
  /\ pending' = pending + 1
  /\ UNCHANGED <<clusterVars, informer, cache, initial, runVars, rebuildVars,
                 aclVars, lockVars, readerVars>>

-----------------------------------------------------------------------------
(***************************************************************************)
(* Run().                                                                  *)
(***************************************************************************)

RunStart ==
  /\ runPC = "add"
  /\ runPC' = "wait"
  /\ informer' = "started"
  /\ UNCHANGED <<clusterVars, cache, initial, pending, ctxDone, synced,
                 rebuildVars, aclVars, lockVars, readerVars>>

\* AddEventHandler fails: Run logs and returns, and nothing starts.
RunAddHandlerFails ==
  /\ runPC = "add"
  /\ runPC' = "returned"
  /\ UNCHANGED <<clusterVars, informerVars, ctxDone, synced, rebuildVars,
                 aclVars, lockVars, readerVars>>

HasSynced == informer = "listed" /\ initial = {}

\* WaitForCacheSync returns early on ctx.Done(), and its result is dropped.
RunCacheSynced ==
  /\ runPC = "wait"
  /\ HasSynced \/ ctxDone
  /\ synced' = TRUE
  /\ runPC' = "count"
  /\ UNCHANGED <<clusterVars, informerVars, ctxDone, rebuildVars, aclVars,
                 lockVars, readerVars>>

\* w.Count() for the log line: RLock, read, RUnlock.
RunCount ==
  /\ runPC = "count"
  /\ writer = "none"
  /\ runPC' = "block"
  /\ UNCHANGED <<clusterVars, informerVars, ctxDone, synced, rebuildVars,
                 aclVars, lockVars, readerVars>>

RunReturn ==
  /\ runPC = "block"
  /\ ctxDone
  /\ runPC' = "returned"
  /\ UNCHANGED <<clusterVars, informerVars, ctxDone, synced, rebuildVars,
                 aclVars, lockVars, readerVars>>

\* cancel() of main: the proxy's listener failed.
Cancel ==
  /\ ~ctxDone
  /\ ctxDone' = TRUE
  /\ UNCHANGED <<clusterVars, informerVars, runPC, synced, rebuildVars, aclVars,
                 lockVars, readerVars>>

(***************************************************************************)
(* Once the context is done the informer closes the listener's queue, and  *)
(* the notifications still in it are never delivered (external).           *)
(***************************************************************************)
ListenerStops ==
  /\ ctxDone
  /\ lpc = "idle"
  /\ lpc' = "stopped"
  /\ UNCHANGED <<clusterVars, informerVars, runVars, snapshot, aclVars, lockVars,
                 readerVars>>

-----------------------------------------------------------------------------
(***************************************************************************)
(* rebuild(), in the listener goroutine.                                   *)
(***************************************************************************)

\* Mutant: a notification that comes while another is queued is skipped.
RebuildList_Skips ==
  /\ lpc = "idle"
  /\ pending > 0
  /\ pending' = 0
  /\ lpc' = IF pending > 1 THEN "idle" ELSE "lock"
  /\ IF pending > 1 THEN UNCHANGED snapshot ELSE snapshot' \in Listings(cache)
  /\ UNCHANGED <<clusterVars, informer, cache, initial, runVars, aclVars,
                 lockVars, readerVars>>

\* A notification is delivered; the cache is listed, no lock held.
RebuildList ==
  /\ lpc = "idle"
  /\ pending > 0
  /\ pending' = pending - 1
  /\ snapshot' \in Listings(cache)
  /\ lpc' = "lock"
  /\ UNCHANGED <<clusterVars, informer, cache, initial, runVars, aclVars,
                 lockVars, readerVars>>

\* w.mu.Lock() is called: from here on no new reader gets in.
RebuildLockCall ==
  /\ lpc = "lock"
  /\ writer' = "waiting"
  /\ lpc' = "locking"
  /\ UNCHANGED <<clusterVars, informerVars, runVars, snapshot, aclVars, readers,
                 readerVars>>

\* Mutant: rebuild stores its results without waiting for the readers.
RebuildLock_NoWait ==
  /\ lpc = "locking"
  /\ writer' = "held"
  /\ lpc' = "hosts"
  /\ UNCHANGED <<clusterVars, informerVars, runVars, snapshot, aclVars, readers,
                 readerVars>>

\* w.mu.Lock() returns: the readers that were in have left.
RebuildLock ==
  /\ lpc = "locking"
  /\ readers = {}
  /\ writer' = "held"
  /\ lpc' = "hosts"
  /\ UNCHANGED <<clusterVars, informerVars, runVars, snapshot, aclVars, readers,
                 readerVars>>

RebuildHosts ==
  /\ lpc = "hosts"
  /\ hosts' = BuildHosts(snapshot)
  /\ lpc' = "wildcards"
  /\ UNCHANGED <<clusterVars, informerVars, runVars, snapshot, wildcards,
                 lockVars, readerVars>>

RebuildWildcards ==
  /\ lpc = "wildcards"
  /\ wildcards' = BuildWildcards(snapshot)
  /\ lpc' = "unlock"
  /\ UNCHANGED <<clusterVars, informerVars, runVars, snapshot, hosts, lockVars,
                 readerVars>>

\* Mutant: rebuild returns without Unlock().
RebuildUnlock_Forgotten ==
  /\ lpc = "unlock"
  /\ lpc' = "idle"
  /\ UNCHANGED <<clusterVars, informerVars, runVars, snapshot, aclVars, lockVars,
                 readerVars>>

RebuildUnlock ==
  /\ lpc = "unlock"
  /\ writer' = "none"
  /\ lpc' = "idle"
  /\ UNCHANGED <<clusterVars, informerVars, runVars, snapshot, aclVars, readers,
                 readerVars>>

-----------------------------------------------------------------------------
(***************************************************************************)
(* AllowHost(), in a request goroutine.                                    *)
(***************************************************************************)

\* RLock(): blocked by a writer that holds the mutex or waits for it.
AllowHostRLock(r, q) ==
  /\ rpc[r] = "idle"
  /\ writer = "none"
  /\ readers' = readers \union {r}
  /\ rpc' = [rpc EXCEPT ![r] = "exact"]
  /\ query' = [query EXCEPT ![r] = q]
  /\ UNCHANGED <<clusterVars, informerVars, runVars, rebuildVars, aclVars,
                 writer, answer>>

\* return b, with the deferred RUnlock().
Return(r, b) ==
  /\ answer' = [answer EXCEPT ![r] = b]
  /\ rpc' = [rpc EXCEPT ![r] = "idle"]
  /\ readers' = readers \ {r}

\* Mutant: the early return for a refused port leaves the read lock taken.
AllowHostExact_KeepsLock(r) ==
  LET h == Normalise(query[r].host)
      b == AllowExact(hosts, h, query[r].port)
  IN  /\ rpc[r] = "exact"
      /\ IF h \in DOMAIN hosts
         THEN /\ answer' = [answer EXCEPT ![r] = b]
              /\ rpc' = [rpc EXCEPT ![r] = "idle"]
              /\ readers' = IF b THEN readers \ {r} ELSE readers
         ELSE /\ rpc' = [rpc EXCEPT ![r] = "wild"]
              /\ UNCHANGED <<answer, readers>>
      /\ UNCHANGED <<clusterVars, informerVars, runVars, rebuildVars, aclVars,
                     writer, query>>

\* The lookup in hosts: a hit is the answer, whatever it says of the port.
AllowHostExact(r) ==
  LET h == Normalise(query[r].host)
  IN  /\ rpc[r] = "exact"
      /\ IF h \in DOMAIN hosts
         THEN Return(r, AllowExact(hosts, h, query[r].port))
         ELSE /\ rpc' = [rpc EXCEPT ![r] = "wild"]
              /\ UNCHANGED <<answer, readers>>
      /\ UNCHANGED <<clusterVars, informerVars, runVars, rebuildVars, aclVars,
                     writer, query>>

\* The loop over wildcards.
AllowHostWild(r) ==
  /\ rpc[r] = "wild"
  /\ Return(r, AllowWild(wildcards, Normalise(query[r].host), query[r].port))
  /\ UNCHANGED <<clusterVars, informerVars, runVars, rebuildVars, aclVars,
                 writer, query>>

-----------------------------------------------------------------------------
(***************************************************************************)
(* DumpJSON(), for a client of /debug/allowlist on the loopback interface: *)
(* the lists are encoded and written to the client under the read lock.    *)
(***************************************************************************)
DumpRLock ==
  /\ "DumpJSON" \notin readers
  /\ writer = "none"
  /\ readers' = readers \union {"DumpJSON"}
  /\ UNCHANGED <<clusterVars, informerVars, runVars, rebuildVars, aclVars,
                 writer, readerVars>>

DumpReturns ==
  /\ "DumpJSON" \in readers
  /\ readers' = readers \ {"DumpJSON"}
  /\ UNCHANGED <<clusterVars, informerVars, runVars, rebuildVars, aclVars,
                 writer, readerVars>>

-----------------------------------------------------------------------------
Init ==
  /\ api \in [Names -> Specs \union {NoSE}]
  /\ changes = 0
  /\ informer = "off"
  /\ cache = [n \in Names |-> NoSE]
  /\ initial = {}
  /\ pending = 0
  /\ ctxDone = FALSE
  /\ runPC = "add"
  /\ synced = FALSE
  /\ lpc = "idle"
  /\ snapshot = <<>>
  /\ hosts = BuildHosts(<<>>)
  /\ wildcards = <<>>
  /\ writer = "none"
  /\ readers = {}
  /\ rpc = [r \in Readers |-> "idle"]
  /\ query \in [Readers -> Queries]
  /\ answer = [r \in Readers |-> FALSE]

Run == RunStart \/ RunAddHandlerFails \/ RunCacheSynced \/ RunCount \/ RunReturn

Informer ==
  \/ ReflectorList
  \/ \E n \in Names : InformerPop(n) \/ Resync(n)

Rebuild ==
  \/ RebuildList \/ RebuildLockCall \/ RebuildLock
  \/ RebuildHosts \/ RebuildWildcards \/ RebuildUnlock

Reader(r) ==
  \/ \E q \in Queries : AllowHostRLock(r, q)
  \/ AllowHostExact(r)
  \/ AllowHostWild(r)

Next ==
  \/ \E n \in Names, s \in Specs \union {NoSE} : ApiWrite(n, s)
  \/ Informer
  \/ Run
  \/ Cancel \/ ListenerStops
  \/ Rebuild
  \/ \E r \in Readers : Reader(r)
  \/ DumpRLock \/ DumpReturns

Spec == Init /\ [][Next]_vars

(***************************************************************************)
(* Goroutines that can run do run: the informer works through what it has  *)
(* received, the listener delivers and rebuilds, and a call of AllowHost   *)
(* that holds the read lock goes on.  RunCount is strongly fair because a  *)
(* sync.RWMutex admits the readers that wait before its next writer.       *)
(* Nothing obliges a client to ask or to read a dump, the API to change, a *)
(* resync to come or the context to end.                                   *)
(***************************************************************************)
Fairness ==
  /\ WF_vars(ReflectorList)
  /\ \A n \in Names : WF_vars(InformerPop(n))
  /\ WF_vars(RunStart \/ RunAddHandlerFails)
  /\ WF_vars(RunCacheSynced \/ RunReturn)
  /\ SF_vars(RunCount)
  /\ WF_vars(Rebuild)
  /\ \A r \in Readers : WF_vars(AllowHostExact(r) \/ AllowHostWild(r))

FairSpec == Spec /\ Fairness

-----------------------------------------------------------------------------
TypeOK ==
  /\ api \in [Names -> Specs \union {NoSE}]
  /\ changes \in Nat
  /\ informer \in {"off", "started", "listed"}
  /\ cache \in [Names -> Specs \union {NoSE}]
  /\ initial \in SUBSET Names
  /\ pending \in Nat
  /\ ctxDone \in BOOLEAN
  /\ runPC \in {"add", "wait", "count", "block", "returned"}
  /\ synced \in BOOLEAN
  /\ lpc \in {"idle", "lock", "locking", "hosts", "wildcards", "unlock", "stopped"}
  /\ writer \in {"none", "waiting", "held"}
  /\ readers \in SUBSET (Readers \union {"DumpJSON"})
  /\ rpc \in [Readers -> {"idle", "exact", "wild"}]
  /\ query \in [Readers -> Queries]
  /\ answer \in [Readers -> BOOLEAN]

(***************************************************************************)
(* No update is lost.  Whenever no notification is queued and no rebuild   *)
(* runs, the allowlist is the one that some listing of the informer's      *)
(* cache builds, although the cache may change at any moment of a rebuild, *)
(* which listed it without a lock.                                         *)
(***************************************************************************)
QuiescentCurrent ==
  pending = 0 /\ ~Rebuilding => <<hosts, wildcards>> \in Builds(cache)

Known(c) == {ServiceEntry(c, n) : n \in Present(c)}

(***************************************************************************)
(* No ServiceEntry, no access.  When the watcher is quiet, AllowHost       *)
(* admits a host and port only if a ServiceEntry of the cache covers them. *)
(***************************************************************************)
QuiescentSound ==
  pending = 0 /\ ~Rebuilding =>
    \A q \in Queries :
      AllowHost(hosts, wildcards, q.host, q.port) =>
        \E se \in Known(cache) : Covers(se, q.host, q.port)

(***************************************************************************)
(* A host is admitted if some ServiceEntry of the cache matches it and all *)
(* that match it admit the port: only ServiceEntries that disagree about   *)
(* the ports of a host make the outcome depend on the order of a listing.  *)
(***************************************************************************)
QuiescentComplete ==
  pending = 0 /\ ~Rebuilding =>
    \A q \in Queries :
      LET matching == {se \in Known(cache) : Matches(se, q.host)}
      IN  /\ matching # {}
          /\ \A se \in matching : portAllowed(Entry(se), q.port)
          => AllowHost(hosts, wildcards, q.host, q.port)

(***************************************************************************)
(* No lock is leaked, by none of the early returns of AllowHost: the read  *)
(* lock is held by the calls that run and by nobody else, a dump apart,    *)
(* and the write lock is asked for or held only by a running rebuild and   *)
(* held only while there is no reader.                                     *)
(***************************************************************************)
LockOwned ==
  /\ writer # "none" <=> lpc \in {"locking", "hosts", "wildcards", "unlock"}
  /\ writer = "held" => readers = {}
  /\ readers \ {"DumpJSON"} = {r \in Readers : rpc[r] # "idle"}

(***************************************************************************)
(* The metrics server has no write timeout: a debug client that does not   *)
(* read its dump keeps the read lock, then the next rebuild waits for it   *)
(* and every request for the rebuild.  The two properties below hold if    *)
(* every such client reads on or goes away, and only then.                 *)
(***************************************************************************)
DumpsEnd == []<>("DumpJSON" \notin readers)

(***************************************************************************)
(* The allowlist catches up: once the API server stops changing, unless    *)
(* the context ends or Run failed to start, the allowlist that requests    *)
(* see is for ever one that the API server's ServiceEntries build.         *)
(***************************************************************************)
Converges ==
  DumpsEnd =>
    \/ <>(ctxDone \/ runPC = "returned")
    \/ <>[](writer # "held" => <<hosts, wildcards>> \in Builds(api))

(***************************************************************************)
(* The mutex is never left locked: requests and dumps that keep coming do  *)
(* not starve a rebuild that waits for it, rebuild gives it back, so that  *)
(* the callers of AllowHost and Count it blocks go on, and Run gets past   *)
(* its Count().                                                            *)
(***************************************************************************)
LockReleased ==
  DumpsEnd =>
    /\ writer # "none" ~> writer = "none"
    /\ runPC = "count" ~> runPC \in {"block", "returned"}
-----------------------------------------------------------------------------
(***************************************************************************)
(* The refinement mapping to AccessPolicy.  A view lives from the listing  *)
(* to the first store of rebuild(), which is where the new policy counts   *)
(* as published: nobody can read hosts and wildcards until both are        *)
(* stored.                                                                 *)
(***************************************************************************)
Unpublished == lpc \in {"lock", "locking", "hosts"}

Policy == INSTANCE AccessPolicy WITH
  known  <- cache,
  view   <- IF Unpublished THEN {snapshot} ELSE {},
  policy <- IF lpc = "wildcards" THEN <<hosts, BuildWildcards(snapshot)>>
                                 ELSE <<hosts, wildcards>>,
  asked  <- {r \in Readers : rpc[r] # "idle"}

(***************************************************************************)
(* Every answer is linearizable: AllowHost() answers from one policy, the  *)
(* one that is current at one moment of the call, never from the exact     *)
(* hosts of one rebuild and the wildcards of another, and a policy is only *)
(* ever made from a listing of the cache.                                  *)
(***************************************************************************)
ImplementsPolicy == Policy!Spec
=============================================================================
