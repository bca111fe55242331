--------------------------- MODULE WatcherProofs ---------------------------
(***************************************************************************)
(* Theorems about ServiceEntryWatcher, for any number of ServiceEntries,   *)
(* requests and changes, and any bounds.                                   *)
(***************************************************************************)
EXTENDS ServiceEntryWatcher, AllowListProofs, FiniteSetTheorems

-----------------------------------------------------------------------------
(***************************************************************************)
(* Listings.                                                               *)
(***************************************************************************)

\* An informer cache holds finitely many ServiceEntries.
LEMMA PresentFinite ==
  ASSUME NEW c
  PROVE  Cardinality(Present(c)) \in Nat
<1>1. IsFiniteSet(Present(c))
  BY WatcherAssumption, FS_Subset DEF Present
<1> QED
  BY <1>1, FS_CardinalityType

\* A listing is a finite sequence, and its range is what the cache knows.
LEMMA ListingProperties ==
  ASSUME NEW c, NEW l \in Listings(c)
  PROVE  /\ DOMAIN l = 1..Cardinality(Present(c))
         /\ \A i \in DOMAIN l : l[i] \in Known(c)
         /\ \A se \in Known(c) : \E i \in DOMAIN l : l[i] = se
<1> DEFINE N == Cardinality(Present(c))
<1>1. PICK order \in Bijection(1..N, Present(c)) :
        l = [i \in 1..N |-> ServiceEntry(c, order[i])]
  BY DEF Listings
<1>2. order \in [1..N -> Present(c)]
  BY DEF Bijection, Injection
<1>3. \A t \in Present(c) : \E s \in 1..N : order[s] = t
  BY DEF Bijection, Surjection
<1>4. \A i \in DOMAIN l : l[i] \in Known(c)
  BY <1>1, <1>2 DEF Known
<1>5. \A se \in Known(c) : \E i \in DOMAIN l : l[i] = se
  BY <1>1, <1>3 DEF Known
<1> QED
  BY <1>1, <1>4, <1>5

\* An empty cache has the empty listing.
LEMMA EmptyListing ==
  ASSUME NEW c, Present(c) = {}
  PROVE  <<>> \in Listings(c)
<1>1. Cardinality(Present(c)) = 0 /\ 1..Cardinality(Present(c)) = {}
  BY FS_EmptySet
<1> DEFINE e == [i \in {} |-> i]
<1>2. e \in Bijection({}, {})
  BY DEF Bijection, Injection, Surjection, IsInjective
<1>3. <<>> = [i \in {} |-> ServiceEntry(c, e[i])]
  OBVIOUS
<1> QED
  BY <1>1, <1>2, <1>3 DEF Listings

-----------------------------------------------------------------------------
(***************************************************************************)
(* The inductive invariant.  Current is what QuiescentCurrent needs:       *)
(* while a rebuild runs and nothing is queued, its snapshot is a listing   *)
(* of the cache as it is now, and what it has stored comes from it.        *)
(***************************************************************************)
Current ==
  /\ pending = 0 /\ ~Rebuilding => <<hosts, wildcards>> \in Builds(cache)
  /\ pending = 0 /\ Rebuilding => snapshot \in Listings(cache)
  /\ lpc = "wildcards" => hosts = BuildHosts(snapshot)
  /\ lpc = "unlock" => hosts = BuildHosts(snapshot) /\ wildcards = BuildWildcards(snapshot)

USE DEF clusterVars, informerVars, runVars, rebuildVars, aclVars, lockVars, readerVars

\* Type correctness: every step keeps every variable in its type.
THEOREM TypeCorrect == Spec => []TypeOK
<1>1. Init => TypeOK
  <2> SUFFICES ASSUME Init PROVE TypeOK
    OBVIOUS
  <2>1. /\ ctxDone \in BOOLEAN /\ synced \in BOOLEAN
        /\ answer \in [Readers -> BOOLEAN]
    BY Zenon DEF Init
  <2> QED
    BY <2>1 DEF Init, TypeOK
<1>2. TypeOK /\ [Next]_vars => TypeOK'
  <2> SUFFICES ASSUME TypeOK, [Next]_vars PROVE TypeOK'
    OBVIOUS
  <2> USE DEF TypeOK
  <2>1. ASSUME NEW n \in Names, NEW s \in Specs \union {NoSE}, ApiWrite(n, s)
        PROVE  TypeOK'
    BY <2>1 DEF ApiWrite
  <2>2. CASE ReflectorList
    BY <2>2 DEF ReflectorList, Present
  <2>3. ASSUME NEW n \in Names, InformerPop(n) PROVE TypeOK'
    BY <2>3 DEF InformerPop
  <2>4. ASSUME NEW n \in Names, Resync(n) PROVE TypeOK'
    BY <2>4 DEF Resync
  <2>5. CASE Run
    <3>1. CASE RunStart
      BY <3>1 DEF RunStart
    <3>2. CASE RunAddHandlerFails
      BY <3>2 DEF RunAddHandlerFails
    <3>3. CASE RunCacheSynced
      BY <3>3 DEF RunCacheSynced
    <3>4. CASE RunCount
      BY <3>4 DEF RunCount
    <3>5. CASE RunReturn
      BY <3>5 DEF RunReturn
    <3> QED
      BY <2>5, <3>1, <3>2, <3>3, <3>4, <3>5 DEF Run
  <2>6. CASE Cancel \/ ListenerStops
    BY <2>6 DEF Cancel, ListenerStops
  <2>7. CASE RebuildList
    BY <2>7 DEF RebuildList
  <2>8. CASE RebuildLockCall \/ RebuildLock \/ RebuildHosts \/ RebuildWildcards
             \/ RebuildUnlock
    BY <2>8 DEF RebuildLockCall, RebuildLock, RebuildHosts, RebuildWildcards,
                RebuildUnlock
  <2>9. ASSUME NEW r \in Readers, NEW q \in Queries, AllowHostRLock(r, q)
        PROVE  TypeOK'
    BY <2>9 DEF AllowHostRLock
  <2>10. ASSUME NEW r \in Readers, AllowHostExact(r) PROVE TypeOK'
    <3> DEFINE b == AllowExact(hosts, Normalise(query[r].host), query[r].port)
    <3>1. b \in BOOLEAN
      BY DEF AllowExact, portAllowed
    <3>2. /\ answer' \in [Readers -> BOOLEAN]
          /\ rpc' \in [Readers -> {"idle", "exact", "wild"}]
          /\ readers' \in SUBSET (Readers \union {"DumpJSON"})
      <4> HIDE DEF b
      <4>1. CASE Return(r, b)
        BY <3>1, <4>1 DEF Return
      <4>2. CASE rpc' = [rpc EXCEPT ![r] = "wild"] /\ UNCHANGED <<answer, readers>>
        BY <4>2
      <4> QED
        BY <2>10, <4>1, <4>2 DEF AllowHostExact, b
    <3> QED
      BY <2>10, <3>2 DEF AllowHostExact
  <2>11. ASSUME NEW r \in Readers, AllowHostWild(r) PROVE TypeOK'
    BY <2>11 DEF AllowHostWild, Return, AllowWild, portAllowed
  <2>12. CASE DumpRLock \/ DumpReturns
    BY <2>12 DEF DumpRLock, DumpReturns
  <2>13. CASE UNCHANGED vars
    BY <2>13 DEF vars
  <2> QED
    BY <2>1, <2>2, <2>3, <2>4, <2>5, <2>6, <2>7, <2>8, <2>9, <2>10, <2>11, <2>12,
       <2>13
    DEF Next, Informer, Rebuild, Reader
<1> QED
  BY <1>1, <1>2, PTL DEF Spec

\* NewWatcher() starts with the allowlist of an empty cache.
LEMMA CurrentInit == Init => Current
<1> SUFFICES ASSUME Init PROVE Current
  OBVIOUS
<1>1. Present(cache) = {}
  BY DEF Init, Present
<1>2. BuildWildcards(<<>>) = <<>>
  BY DEF BuildWildcards
<1>3. <<hosts, wildcards>> = Build(<<>>)
  BY <1>2 DEF Init, Build
<1>4. <<hosts, wildcards>> \in Builds(cache)
  BY <1>1, <1>3, EmptyListing DEF Builds
<1> QED
  BY <1>4 DEF Init, Current, Rebuilding

\* Every step keeps Current; InformerPop because it queues a notification.
LEMMA CurrentStep == TypeOK /\ Current /\ [Next]_vars => Current'
<1> SUFFICES ASSUME TypeOK, Current, [Next]_vars PROVE Current'
  OBVIOUS
<1>0. cache' = cache => /\ Builds(cache)' = Builds(cache)
                        /\ Listings(cache)' = Listings(cache)
  OBVIOUS
<1>1. ASSUME NEW n \in Names, NEW s \in Specs \union {NoSE}, ApiWrite(n, s)
      PROVE  Current'
  BY <1>1, <1>0 DEF ApiWrite, Current, Rebuilding
<1>2. CASE ReflectorList
  BY <1>2, <1>0 DEF ReflectorList, Current, Rebuilding
<1>3. ASSUME NEW n \in Names, InformerPop(n) PROVE Current'
  <2>1. pending' # 0
    BY <1>3 DEF InformerPop, TypeOK
  <2> QED
    BY <1>3, <2>1 DEF InformerPop, Current, Rebuilding
<1>4. ASSUME NEW n \in Names, Resync(n) PROVE Current'
  <2>1. pending' # 0
    BY <1>4 DEF Resync, TypeOK
  <2> QED
    BY <1>4, <2>1 DEF Resync, Current, Rebuilding
<1>5. CASE Run
  BY <1>5, <1>0 DEF Run, RunStart, RunAddHandlerFails, RunCacheSynced, RunCount,
              RunReturn, Current, Rebuilding
<1>6. CASE Cancel \/ ListenerStops
  BY <1>6, <1>0 DEF Cancel, ListenerStops, Current, Rebuilding
<1>7. CASE RebuildList
  BY <1>7, <1>0 DEF RebuildList, Current, Rebuilding
<1>8. CASE RebuildLockCall
  BY <1>8, <1>0 DEF RebuildLockCall, Current, Rebuilding
<1>9. CASE RebuildLock
  BY <1>9, <1>0 DEF RebuildLock, Current, Rebuilding
<1>10. CASE RebuildHosts
  BY <1>10, <1>0 DEF RebuildHosts, Current, Rebuilding
<1>11. CASE RebuildWildcards
  BY <1>11, <1>0 DEF RebuildWildcards, Current, Rebuilding
<1>12. CASE RebuildUnlock
  <2>1. pending' = 0 => <<hosts, wildcards>>' \in Builds(cache)'
    BY <1>12, <1>0 DEF RebuildUnlock, Current, Build, Builds
  <2> QED
    BY <1>12, <2>1 DEF RebuildUnlock, Current, Rebuilding
<1>13. ASSUME NEW r \in Readers, NEW q \in Queries, AllowHostRLock(r, q)
       PROVE  Current'
  BY <1>13, <1>0 DEF AllowHostRLock, Current, Rebuilding
<1>14. ASSUME NEW r \in Readers, AllowHostExact(r) PROVE Current'
  BY <1>14, <1>0 DEF AllowHostExact, Current, Rebuilding
<1>15. ASSUME NEW r \in Readers, AllowHostWild(r) PROVE Current'
  BY <1>15, <1>0 DEF AllowHostWild, Current, Rebuilding
<1>16. CASE DumpRLock \/ DumpReturns
  BY <1>16, <1>0 DEF DumpRLock, DumpReturns, Current, Rebuilding
<1>17. CASE UNCHANGED vars
  BY <1>17, <1>0 DEF vars, Current, Rebuilding
<1> QED
  BY <1>1, <1>2, <1>3, <1>4, <1>5, <1>6, <1>7, <1>8, <1>9, <1>10, <1>11, <1>12,
     <1>13, <1>14, <1>15, <1>16, <1>17
  DEF Next, Informer, Rebuild, Reader

\* Current holds in every behaviour.
LEMMA CurrentAlways == Spec => []Current
BY CurrentInit, CurrentStep, TypeCorrect, PTL DEF Spec

(***************************************************************************)
(* No update is lost: when nothing is queued and rebuild() is not running, *)
(* hosts and wildcards are what a listing of the informer's cache builds.  *)
(***************************************************************************)
THEOREM NoLostUpdate == Spec => []QuiescentCurrent
<1>1. Current => QuiescentCurrent
  BY DEF Current, QuiescentCurrent, Rebuilding
<1> QED
  BY <1>1, CurrentAlways, PTL

(***************************************************************************)
(* No ServiceEntry, no access: what AllowHost() admits while the watcher   *)
(* is quiet is covered by a ServiceEntry of the informer's cache.          *)
(***************************************************************************)
THEOREM Sound == Spec => []QuiescentSound
<1>1. QuiescentCurrent => QuiescentSound
  <2> SUFFICES ASSUME QuiescentCurrent, pending = 0, ~Rebuilding, NEW q \in Queries,
                      AllowHost(hosts, wildcards, q.host, q.port)
               PROVE  \E se \in Known(cache) : Covers(se, q.host, q.port)
    BY DEF QuiescentSound
  <2>1. PICK l \in Listings(cache) : hosts = BuildHosts(l) /\ wildcards = BuildWildcards(l)
    BY DEF QuiescentCurrent, Builds, Build
  <2>2. PICK i \in DOMAIN l : Covers(l[i], q.host, q.port)
    BY <2>1, PresentFinite, ListingProperties, AllowHostSound
  <2> QED
    BY <2>2, ListingProperties
<1> QED
  BY <1>1, NoLostUpdate, PTL

(***************************************************************************)
(* A host on which the matching ServiceEntries of the cache agree is       *)
(* admitted, in whatever order lister.List returned them.                  *)
(***************************************************************************)
THEOREM Complete == Spec => []QuiescentComplete
<1>1. QuiescentCurrent => QuiescentComplete
  <2> SUFFICES ASSUME QuiescentCurrent, pending = 0, ~Rebuilding, NEW q \in Queries,
                      \E se \in Known(cache) : Matches(se, q.host),
                      \A se \in Known(cache) :
                        Matches(se, q.host) => portAllowed(Entry(se), q.port)
               PROVE  AllowHost(hosts, wildcards, q.host, q.port)
    BY DEF QuiescentComplete
  <2>1. PICK l \in Listings(cache) : hosts = BuildHosts(l) /\ wildcards = BuildWildcards(l)
    BY DEF QuiescentCurrent, Builds, Build
  <2>2. \E i \in DOMAIN l : Matches(l[i], q.host)
    BY ListingProperties
  <2>3. \A i \in DOMAIN l : Matches(l[i], q.host) => portAllowed(Entry(l[i]), q.port)
    BY ListingProperties
  <2> QED
    BY <2>1, <2>2, <2>3, PresentFinite, ListingProperties, AllowHostComplete
<1> QED
  BY <1>1, NoLostUpdate, PTL
-----------------------------------------------------------------------------
(***************************************************************************)
(* Refinement.  Locked is what it takes: the mutex is held as rebuild()    *)
(* and AllowHost() think it is, by readers or by the writer, and a reader  *)
(* that has gone on to the wildcards has not found its host in hosts.      *)
(***************************************************************************)
Locked ==
  /\ lpc \in {"hosts", "wildcards", "unlock"} => writer = "held"
  /\ lpc \in {"idle", "lock", "stopped"} => writer = "none"
  /\ lpc = "locking" => writer = "waiting"
  /\ \A r \in Readers : rpc[r] # "idle" <=> r \in readers
  /\ writer = "held" => readers = {}
  /\ \A r \in Readers :
       rpc[r] = "wild" => Normalise(query[r].host) \notin DOMAIN hosts

\* Every step keeps the discipline of the RWMutex.
LEMMA LockedStep == TypeOK /\ Locked /\ [Next]_vars => Locked'
<1> SUFFICES ASSUME TypeOK, Locked, [Next]_vars PROVE Locked'
  OBVIOUS
<1>1. CASE UNCHANGED <<lpc, writer, readers, rpc, query, hosts>>
  BY <1>1 DEF Locked
<1>2. ASSUME NEW n \in Names, NEW s \in Specs \union {NoSE}, ApiWrite(n, s)
      PROVE  Locked'
  BY <1>1, <1>2 DEF ApiWrite
<1>3. CASE Informer
  BY <1>1, <1>3 DEF Informer, ReflectorList, InformerPop, Resync
<1>4. CASE Run
  BY <1>1, <1>4 DEF Run, RunStart, RunAddHandlerFails, RunCacheSynced, RunCount,
                    RunReturn
<1>5. CASE Cancel \/ ListenerStops
  BY <1>1, <1>5 DEF Cancel, ListenerStops, Locked
<1>6. CASE RebuildList
  BY <1>6 DEF RebuildList, Locked
<1>7. CASE RebuildLockCall
  BY <1>7 DEF RebuildLockCall, Locked
<1>8. CASE RebuildLock
  BY <1>8 DEF RebuildLock, Locked
<1>9. CASE RebuildHosts
  <2>1. \A r \in Readers : rpc[r] = "idle"
    BY <1>9 DEF RebuildHosts, Locked
  <2> QED
    BY <1>9, <2>1 DEF RebuildHosts, Locked
<1>10. CASE RebuildWildcards
  BY <1>10 DEF RebuildWildcards, Locked
<1>11. CASE RebuildUnlock
  BY <1>11 DEF RebuildUnlock, Locked
<1>12. ASSUME NEW r \in Readers, NEW q \in Queries, AllowHostRLock(r, q)
       PROVE  Locked'
  BY <1>12 DEF AllowHostRLock, Locked, TypeOK
<1>13. ASSUME NEW r \in Readers, AllowHostExact(r) PROVE Locked'
  BY <1>13 DEF AllowHostExact, Return, Locked, TypeOK
<1>14. ASSUME NEW r \in Readers, AllowHostWild(r) PROVE Locked'
  BY <1>14 DEF AllowHostWild, Return, Locked, TypeOK
<1>15. CASE DumpRLock
  <2>1. writer # "held"
    BY <1>15 DEF DumpRLock
  <2> QED
    BY <1>15, <2>1, WatcherAssumption DEF DumpRLock, Locked
<1>16. CASE DumpReturns
  BY <1>16, WatcherAssumption DEF DumpReturns, Locked
<1>17. CASE UNCHANGED vars
  BY <1>1, <1>17 DEF vars
<1> QED
  BY <1>2, <1>3, <1>4, <1>5, <1>6, <1>7, <1>8, <1>9, <1>10, <1>11, <1>12, <1>13,
     <1>14, <1>15, <1>16, <1>17
  DEF Next, Rebuild, Reader

\* That discipline holds in every behaviour.
LEMMA LockedAlways == Spec => []Locked
<1>1. Init => Locked
  BY DEF Init, Locked
<1> QED
  BY <1>1, LockedStep, TypeCorrect, PTL DEF Spec

(***************************************************************************)
(* No lock is leaked: every return of AllowHost() gives back the read lock *)
(* it took and every rebuild() the write lock, for any number of requests. *)
(***************************************************************************)
THEOREM NoLockLeaked == Spec => []LockOwned
<1>1. TypeOK /\ Locked => LockOwned
  <2> SUFFICES ASSUME TypeOK, Locked PROVE LockOwned
    OBVIOUS
  <2>1. writer # "none" <=> lpc \in {"locking", "hosts", "wildcards", "unlock"}
    BY DEF TypeOK, Locked
  <2>2. writer = "held" => readers = {}
    BY DEF Locked
  <2>3. readers \ {"DumpJSON"} = {r \in Readers : rpc[r] # "idle"}
    BY WatcherAssumption DEF TypeOK, Locked
  <2> QED
    BY <2>1, <2>2, <2>3 DEF LockOwned
<1> QED
  BY <1>1, TypeCorrect, LockedAlways, PTL

\* A step that changes none of what the mapping reads is a stutter.
LEMMA PolicyStutter ==
  ASSUME UNCHANGED <<cache, lpc, snapshot, hosts, wildcards, rpc, query, answer>>
  PROVE  UNCHANGED Policy!vars
BY DEF Policy!vars, Unpublished

\* Every step of the watcher is a step of AccessPolicy or a stutter.
LEMMA PolicyStep == TypeOK /\ Locked /\ [Next]_vars => [Policy!Next]_(Policy!vars)
<1> SUFFICES ASSUME TypeOK, Locked, [Next]_vars
             PROVE  Policy!Next \/ UNCHANGED Policy!vars
  OBVIOUS
<1>1. ASSUME NEW n \in Names, NEW s \in Specs \union {NoSE}, ApiWrite(n, s)
      PROVE  UNCHANGED Policy!vars
  BY <1>1, PolicyStutter DEF ApiWrite
<1>2. CASE ReflectorList
  BY <1>2, PolicyStutter DEF ReflectorList
<1>3. ASSUME NEW n \in Names, InformerPop(n) PROVE Policy!Next
  <2>1. Policy!Learn(n)
    BY <1>3 DEF InformerPop, Policy!Learn, TypeOK, Unpublished
  <2> QED
    BY <2>1 DEF Policy!Next
<1>4. ASSUME NEW n \in Names, Resync(n) PROVE UNCHANGED Policy!vars
  BY <1>4, PolicyStutter DEF Resync
<1>5. CASE Run
  BY <1>5, PolicyStutter
  DEF Run, RunStart, RunAddHandlerFails, RunCacheSynced, RunCount, RunReturn
<1>6. CASE Cancel \/ ListenerStops
  BY <1>6, PolicyStutter DEF Cancel, ListenerStops, Policy!vars, Unpublished
<1>7. CASE RebuildList
  <2>1. Policy!Take
    BY <1>7 DEF RebuildList, Policy!Take, Unpublished
  <2> QED
    BY <2>1 DEF Policy!Next
<1>8. CASE RebuildLockCall
  BY <1>8 DEF RebuildLockCall, Policy!vars, Unpublished
<1>9. CASE RebuildLock
  BY <1>9 DEF RebuildLock, Policy!vars, Unpublished
<1>10. CASE RebuildHosts
  <2>1. Policy!Publish
    BY <1>10 DEF RebuildHosts, Policy!Publish, Unpublished, Build
  <2> QED
    BY <2>1 DEF Policy!Next
<1>11. CASE RebuildWildcards
  BY <1>11 DEF RebuildWildcards, Policy!vars, Unpublished
<1>12. CASE RebuildUnlock
  BY <1>12 DEF RebuildUnlock, Policy!vars, Unpublished
<1>13. ASSUME NEW r \in Readers, NEW q \in Queries, AllowHostRLock(r, q)
       PROVE  Policy!Next
  <2>1. Policy!Ask(r, q)
    BY <1>13 DEF AllowHostRLock, Policy!Ask, TypeOK, Unpublished
  <2> QED
    BY <2>1 DEF Policy!Next
<1>14. ASSUME NEW r \in Readers, rpc[r] # "idle" PROVE lpc # "wildcards"
  BY <1>14 DEF Locked
<1>15. ASSUME NEW r \in Readers, AllowHostExact(r),
              Normalise(query[r].host) \in DOMAIN hosts
       PROVE  Policy!Next
  <2>1. Policy!Answer(r)
    BY <1>14, <1>15
    DEF AllowHostExact, Return, Policy!Answer, Decide, AllowHost, TypeOK, Unpublished
  <2> QED
    BY <2>1 DEF Policy!Next
<1>16. ASSUME NEW r \in Readers, AllowHostExact(r),
              Normalise(query[r].host) \notin DOMAIN hosts
       PROVE  UNCHANGED Policy!vars
  <2>1. {x \in Readers : rpc'[x] # "idle"} = {x \in Readers : rpc[x] # "idle"}
    BY <1>16 DEF AllowHostExact, TypeOK
  <2> QED
    BY <1>16, <2>1 DEF AllowHostExact, Policy!vars, Unpublished
<1>17. ASSUME NEW r \in Readers, AllowHostWild(r) PROVE Policy!Next
  <2>1. Normalise(query[r].host) \notin DOMAIN hosts
    BY <1>17 DEF AllowHostWild, Locked
  <2>2. Policy!Answer(r)
    BY <1>14, <1>17, <2>1
    DEF AllowHostWild, Return, Policy!Answer, Decide, AllowHost, TypeOK, Unpublished
  <2> QED
    BY <2>2 DEF Policy!Next
<1>18. CASE DumpRLock \/ DumpReturns
  BY <1>18, PolicyStutter DEF DumpRLock, DumpReturns
<1>19. CASE UNCHANGED vars
  BY <1>19, PolicyStutter DEF vars
<1> QED
  BY <1>1, <1>2, <1>3, <1>4, <1>5, <1>6, <1>7, <1>8, <1>9, <1>10, <1>11, <1>12,
     <1>13, <1>15, <1>16, <1>17, <1>18, <1>19
  DEF Next, Informer, Rebuild, Reader

(***************************************************************************)
(* The watcher implements AccessPolicy: every call of AllowHost() answers  *)
(* from one allowlist, the one current at a moment of the call, however    *)
(* rebuilds and other calls interleave with it.                            *)
(***************************************************************************)
THEOREM Linearizable == Spec => ImplementsPolicy
<1>1. Init => Policy!Init
  <2> SUFFICES ASSUME Init PROVE Policy!Init
    OBVIOUS
  <2>1. {r \in Readers : rpc[r] # "idle"} = {}
    BY DEF Init
  <2>2. \E l \in Listings(cache) : <<hosts, wildcards>> = Build(l)
    BY CurrentInit DEF Init, Current, Rebuilding, Builds
  <2> QED
    BY <2>1, <2>2 DEF Init, Policy!Init, Unpublished
<1> QED
  BY <1>1, PolicyStep, TypeCorrect, LockedAlways, PTL
  DEF Spec, ImplementsPolicy, Policy!Spec
=============================================================================
