------------------------- MODULE CertManagerProofs -------------------------
(***************************************************************************)
(* Theorems about CertManager, for any versions of the Secret, any number  *)
(* of rotations and any size of the event queue.                           *)
(***************************************************************************)
EXTENDS CertManager, TLAPS

Events == {"change", "chmod", "overflow"}

\* What the kernel's queue does to the events in it.
LEMMA EnqueueKeeps ==
  ASSUME TypeOK, NEW e \in Events, Enqueue(e)
  PROVE  /\ queue' \in Seq(Events)
         /\ \A i \in 1..Len(queue) : i \in 1..Len(queue') /\ queue'[i] = queue[i]
<1>1. queue \in Seq(Events)
  BY DEF TypeOK, Events
<1>2. CASE queue' = queue
  BY <1>1, <1>2
<1>3. CASE queue' = Append(queue, e)
  BY <1>1, <1>3
<1>4. CASE queue' = Append(queue, "overflow")
  BY <1>1, <1>4 DEF Events
<1> QED
  BY <1>2, <1>3, <1>4 DEF Enqueue

-----------------------------------------------------------------------------
(***************************************************************************)
(* The inductive invariant.  Reading: what reload() holds while it runs.   *)
(* Serving: where the process can be.  OnTheWay: a usable Secret whose     *)
(* event was queued is in use, is being read, or still has an event in     *)
(* the queue after which it will be read.                                  *)
(***************************************************************************)
Reading ==
  /\ step \in {"key", "ca", "store"} => got.crt \in Versions \ BadCrt
  /\ step \in {"ca", "store"} =>
       got.key \in Versions \ BadKey /\ KeyOf[got.key] = KeyOf[got.crt]
  /\ step = "store" => got.ca \in Versions \ BadCA

Serving ==
  /\ phase \in {"loaded", "watching", "blind"} => current # None
  /\ phase \in {"loaded", "blind", "exited"} => step = "idle"
  /\ phase = "starting" => step # "idle"
  /\ announced => phase \in {"watching", "blind"}

InQueue == \E i \in 1..Len(queue) : queue[i] = "change"

BeingRead ==
  \/ step = "crt"
  \/ step = "key" /\ got.crt = disk
  \/ step = "ca" /\ got.crt = disk /\ got.key = disk
  \/ step = "store" /\ got = Whole(disk)

OnTheWay ==
  phase = "watching" /\ announced /\ Usable(disk) =>
    InQueue \/ BeingRead \/ (step = "idle" /\ current = Whole(disk))

Inv == TypeOK /\ Reading /\ LoadedUsable /\ Serving /\ OnTheWay

\* The process starts in Inv, before anything is loaded.
LEMMA InvInit == Init => Inv
<1> SUFFICES ASSUME Init PROVE Inv
  OBVIOUS
<1>1. TypeOK
  <2>1. announced \in BOOLEAN
    BY Zenon DEF Init
  <2>2. queue \in Seq({"change", "chmod", "overflow"})
    BY DEF Init
  <2>3. got \in [crt : Files, key : Files, ca : Files]
    BY DEF Init, Nothing, Files
  <2> QED
    BY <2>1, <2>2, <2>3, CertAssumption DEF Init, TypeOK
<1>2. Reading /\ LoadedUsable /\ Serving /\ OnTheWay
  BY DEF Init, Reading, LoadedUsable, Serving, OnTheWay
<1> QED
  BY <1>1, <1>2 DEF Inv

\* The kubelet's steps that leave ..data alone.
LEMMA KubeletStep ==
  ASSUME Inv, MakeDir \/ Chmod \/ RemoveOld
  PROVE  Inv'
<1>1. PICK e \in Events : Enqueue(e)
  BY DEF MakeDir, Chmod, RemoveOld, Events
<1>2. UNCHANGED <<disk, phase, step, got, current, announced>>
  BY DEF MakeDir, Chmod, RemoveOld
<1>3. /\ queue' \in Seq(Events)
      /\ \A i \in 1..Len(queue) : i \in 1..Len(queue') /\ queue'[i] = queue[i]
  BY <1>1, EnqueueKeeps DEF Inv
<1>4. kubelet' \in {"idle", "made", "moded", "swapped"} /\ swaps' \in 0..MaxSwaps
  BY CertAssumption DEF MakeDir, Chmod, RemoveOld, Inv, TypeOK
<1>5. TypeOK'
  BY <1>2, <1>3, <1>4 DEF Inv, TypeOK, Events
<1>6. InQueue => InQueue'
  BY <1>3 DEF InQueue
<1> QED
  BY <1>2, <1>5, <1>6
  DEF Inv, Reading, LoadedUsable, Serving, OnTheWay, BeingRead

\* The swap of ..data keeps Inv: its event is queued, or it is not announced.
LEMMA SwapStep ==
  ASSUME Inv, NEW v \in Versions, Swap(v)
  PROVE  Inv'
<1> USE DEF Swap
<1>1. /\ queue' \in Seq(Events)
      /\ \A i \in 1..Len(queue) : i \in 1..Len(queue') /\ queue'[i] = queue[i]
  BY EnqueueKeeps DEF Inv, Events
<1>2. TypeOK'
  BY <1>1 DEF Inv, TypeOK, Events
<1>3. Reading' /\ LoadedUsable' /\ Serving'
  BY DEF Inv, Reading, LoadedUsable, Serving
<1>4. announced' => InQueue'
  <2> SUFFICES ASSUME announced' PROVE InQueue'
    OBVIOUS
  <2>1. queue' = Append(queue, "change") /\ queue \in Seq(Events)
    BY DEF Enqueue, Inv, TypeOK, Events
  <2>2. Len(queue') = Len(queue) + 1 /\ queue'[Len(queue')] = "change"
    BY <2>1
  <2> QED
    BY <2>1, <2>2 DEF InQueue
<1> QED
  BY <1>2, <1>3, <1>4 DEF Inv, OnTheWay

\* A restart of the container keeps Inv.
LEMMA RestartStep ==
  ASSUME Inv, Restart
  PROVE  Inv'
<1>1. TypeOK'
  BY DEF Inv, TypeOK, Restart, Nothing, Files
<1> QED
  BY <1>1 DEF Inv, Restart, Reading, LoadedUsable, Serving, OnTheWay

\* The reads and the store of reload() keep Inv.
LEMMA ReloadStep ==
  ASSUME Inv, Reload
  PROVE  Inv'
<1> USE DEF Inv
<1>1. CASE ReadCrt
  <2>1. TypeOK'
    BY <1>1 DEF ReadCrt, Fail, TypeOK, Files
  <2>2. Reading' /\ LoadedUsable' /\ Serving'
    BY <1>1 DEF ReadCrt, Fail, TypeOK, Reading, LoadedUsable, Serving
  <2>3. OnTheWay'
    BY <1>1 DEF ReadCrt, Fail, TypeOK, OnTheWay, InQueue, BeingRead, Usable
  <2> QED
    BY <2>1, <2>2, <2>3
<1>2. CASE ReadKey
  <2>1. TypeOK'
    BY <1>2 DEF ReadKey, Fail, TypeOK, Files
  <2>2. Reading' /\ LoadedUsable' /\ Serving'
    BY <1>2 DEF ReadKey, Fail, TypeOK, Reading, LoadedUsable, Serving
  <2>3. OnTheWay'
    BY <1>2 DEF ReadKey, Fail, TypeOK, OnTheWay, InQueue, BeingRead, Usable
  <2> QED
    BY <2>1, <2>2, <2>3
<1>3. CASE ReadCA
  <2>1. TypeOK'
    BY <1>3 DEF ReadCA, Fail, TypeOK, Files
  <2>2. Reading' /\ LoadedUsable' /\ Serving'
    BY <1>3 DEF ReadCA, Fail, TypeOK, Reading, LoadedUsable, Serving
  <2>3. OnTheWay'
    BY <1>3 DEF ReadCA, Fail, TypeOK, OnTheWay, InQueue, BeingRead, Usable, Whole
  <2> QED
    BY <2>1, <2>2, <2>3
<1>4. CASE Store
  <2>1. got \in [crt : Versions, key : Versions, ca : Versions]
    BY <1>4 DEF Store, TypeOK, Reading, Files
  <2>2. TypeOK'
    BY <1>4, <2>1 DEF Store, TypeOK
  <2>3. current' # None
    BY <1>4, <2>1, CertAssumption DEF Store
  <2>4. Reading' /\ LoadedUsable' /\ Serving'
    BY <1>4, <2>3 DEF Store, Reading, LoadedUsable, Serving
  <2>5. OnTheWay'
    BY <1>4 DEF Store, OnTheWay, InQueue, BeingRead
  <2> QED
    BY <2>2, <2>4, <2>5
<1> QED
  BY <1>1, <1>2, <1>3, <1>4 DEF Reload

\* The steps of Watch() keep Inv.
LEMMA WatchStep ==
  ASSUME Inv, WatchAdd \/ WatchReturns \/ WatchEvent
  PROVE  Inv'
<1> USE DEF Inv
<1>1. CASE WatchAdd
  BY <1>1 DEF WatchAdd, TypeOK, Reading, LoadedUsable, Serving, OnTheWay
<1>2. CASE WatchReturns
  BY <1>2 DEF WatchReturns, TypeOK, Reading, LoadedUsable, Serving, OnTheWay
<1>3. CASE WatchEvent
  <2>1. queue \in Seq(Events) /\ queue # <<>> /\ queue' = Tail(queue)
    BY <1>3 DEF WatchEvent, TypeOK, Events
  <2>2. /\ queue' \in Seq(Events)
        /\ \A i \in 1..Len(queue) : i # 1 => i - 1 \in 1..Len(queue') /\ queue'[i-1] = queue[i]
    BY <2>1
  <2>3. TypeOK'
    BY <1>3, <2>2 DEF WatchEvent, TypeOK, Events, Nothing, Files
  <2>4. Reading' /\ LoadedUsable' /\ Serving'
    BY <1>3 DEF WatchEvent, Reading, LoadedUsable, Serving
  <2>5. OnTheWay'
    <3>1. CASE Head(queue) = "change"
      BY <1>3, <3>1 DEF WatchEvent, OnTheWay, BeingRead
    <3>2. CASE Head(queue) # "change"
      <4>1. queue[1] # "change"
        BY <2>1, <3>2
      <4>2. InQueue => InQueue'
        BY <4>1, <2>2 DEF InQueue
      <4> QED
        BY <1>3, <3>2, <4>2 DEF WatchEvent, OnTheWay, BeingRead
    <3> QED
      BY <3>1, <3>2
  <2> QED
    BY <2>3, <2>4, <2>5
<1> QED
  BY <1>1, <1>2, <1>3

\* Every step keeps Inv.
LEMMA InvStep == Inv /\ [Next]_vars => Inv'
<1> SUFFICES ASSUME Inv, [Next]_vars PROVE Inv'
  OBVIOUS
<1>1. CASE UNCHANGED vars
  BY <1>1 DEF vars, Inv, TypeOK, Reading, LoadedUsable, Serving, OnTheWay, InQueue,
              BeingRead
<1> QED
  BY <1>1, KubeletStep, SwapStep, RestartStep, ReloadStep, WatchStep
  DEF Next, Kubelet

\* Inv holds in every behaviour.
LEMMA InvAlways == Spec => []Inv
BY InvInit, InvStep, PTL DEF Spec

\* Type correctness of the certificate manager.
THEOREM CertTypeCorrect == Spec => []TypeOK
<1>1. Inv => TypeOK
  BY DEF Inv
<1> QED
  BY <1>1, InvAlways, PTL

(***************************************************************************)
(* dialUpstream() never finds a nil configuration, and the certificate and *)
(* the key of the one it finds belong together, whenever the kubelet swaps *)
(* the Secret.                                                             *)
(***************************************************************************)
THEOREM CertServesUsable == Spec => []ServesUsable
<1>1. Inv => ServingHasConfig
  BY DEF Inv, Serving, ServingHasConfig
<1>2. Inv => LoadedUsable
  BY DEF Inv
<1> QED
  BY <1>1, <1>2, InvAlways, PTL DEF ServesUsable

(***************************************************************************)
(* A rotation that raised an event is in use, whole, when Watch() has      *)
(* handled all events, even if it hit the middle of a reload.              *)
(***************************************************************************)
THEOREM CertFresh == Spec => []FreshWhenQuiet
<1>1. Inv => FreshWhenQuiet
  BY DEF Inv, OnTheWay, InQueue, BeingRead, FreshWhenQuiet, Quiet
<1> QED
  BY <1>1, InvAlways, PTL
=============================================================================
