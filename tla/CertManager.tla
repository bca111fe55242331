---------------------------- MODULE CertManager ----------------------------
(***************************************************************************)
(* internal/certs: the Manager that loads the client certificate for mTLS  *)
(* to the upstream proxy and reloads it when the mounted Secret changes.   *)
(*                                                                         *)
(* The Secret volume is a directory whose files are symbolic links through *)
(* ..data, which the kubelet swaps from one version of the Secret to the   *)
(* next: a version is complete, but each of the three reads of reload()    *)
(* resolves ..data anew.  NewManager() loads once, before anything is      *)
(* watched; Watch() then reloads for the events of fsnotify, one after the *)
(* other in one goroutine.  A file version is named by the Secret version  *)
(* it comes from.                                                          *)
(***************************************************************************)
EXTENDS Naturals, Sequences, Functions

CONSTANTS
  Versions,   \* versions of the Secret
  KeyOf,      \* the key pair a version's tls.crt and tls.key belong to
  BadCrt,     \* versions whose tls.crt is missing or does not parse
  BadKey,     \* versions whose tls.key is missing or does not parse
  BadCA,      \* versions whose ca.crt is missing or holds no certificate
  None,       \* no configuration, no file read
  QueueSize,  \* events that fsnotify and the kernel hold for Watch()
  MaxSwaps    \* bound: rotations of the Secret

ASSUME CertAssumption ==
  /\ None \notin Versions
  /\ None \notin [crt : Versions, key : Versions, ca : Versions]
  /\ KeyOf \in [Versions -> Nat]
  /\ BadCrt \subseteq Versions /\ BadKey \subseteq Versions /\ BadCA \subseteq Versions
  /\ QueueSize \in Nat \ {0}
  /\ MaxSwaps \in Nat

VARIABLES
  disk,     \* the version that ..data points to
  kubelet,  \* the kubelet's atomic writer: "idle", "made", "moded", "swapped"
  swaps,    \* rotations so far, for MaxSwaps
  queue,    \* fsnotify events that Watch() has not received yet
  phase,    \* the process: "starting", "loaded", "watching", "blind", "exited"
  step,     \* reload(): "idle", or the next thing it does
  got,      \* what reload() has read: crt, key, ca
  current,  \* Manager.current
  announced \* history: the last swap of ..data raised an event that was queued

vars == <<disk, kubelet, swaps, queue, phase, step, got, current, announced>>

Nothing == [crt |-> None, key |-> None, ca |-> None]

\* The configuration that a version of the Secret holds.
Whole(v) == [crt |-> v, key |-> v, ca |-> v]

Usable(v) == v \notin BadCrt \union BadKey \union BadCA

-----------------------------------------------------------------------------
(***************************************************************************)
(* The kernel's queue (external): events of a directory that is watched.   *)
(* A full queue takes at most one overflow event and drops the rest;       *)
(* fsnotify reports it on Errors, in order with the Events.                *)
(***************************************************************************)
Enqueue(e) ==
  queue' = IF phase # "watching" THEN queue
           ELSE IF Len(queue) < QueueSize THEN Append(queue, e)
           ELSE IF "overflow" \in Range(queue) THEN queue
           ELSE Append(queue, "overflow")

(***************************************************************************)
(* The kubelet's atomic writer (external) makes a directory for the new    *)
(* version, sets its mode, renames ..data onto it and removes the old one. *)
(***************************************************************************)
MakeDir ==
  /\ kubelet = "idle"
  /\ swaps < MaxSwaps
  /\ kubelet' = "made"
  /\ swaps' = swaps + 1
  /\ Enqueue("change")
  /\ UNCHANGED <<disk, phase, step, got, current, announced>>

Chmod ==
  /\ kubelet = "made"
  /\ kubelet' = "moded"
  /\ Enqueue("chmod")
  /\ UNCHANGED <<disk, swaps, phase, step, got, current, announced>>

Swap(v) ==
  /\ kubelet = "moded"
  /\ v # disk
  /\ kubelet' = "swapped"
  /\ disk' = v
  /\ announced' = (phase = "watching" /\ Len(queue) < QueueSize)
  /\ Enqueue("change")
  /\ UNCHANGED <<swaps, phase, step, got, current>>

RemoveOld ==
  /\ kubelet = "swapped"
  /\ kubelet' = "idle"
  /\ Enqueue("change")
  /\ UNCHANGED <<disk, swaps, phase, step, got, current, announced>>

\* The kubelet restarts a container whose process has exited.
Restart ==
  /\ phase = "exited"
  /\ phase' = "starting"
  /\ step' = "crt"
  /\ got' = Nothing
  /\ current' = None
  /\ announced' = FALSE
  /\ UNCHANGED <<disk, kubelet, swaps, queue>>

-----------------------------------------------------------------------------
(***************************************************************************)
(* reload(), called by NewManager() and by Watch().                        *)
(***************************************************************************)

\* An error return: os.Exit(1) at startup, a log line in Watch().
Fail ==
  /\ step' = "idle"
  /\ phase' = IF phase = "starting" THEN "exited" ELSE phase

\* tls.LoadX509KeyPair: the certificate file ...
ReadCrt ==
  /\ step = "crt"
  /\ IF disk \in BadCrt
     THEN Fail /\ UNCHANGED got
     ELSE got' = [got EXCEPT !.crt = disk] /\ step' = "key" /\ UNCHANGED phase
  /\ UNCHANGED <<disk, kubelet, swaps, queue, current, announced>>

\* Mutant: certificate and key are not checked against each other.
ReadKey_NoMatch ==
  /\ step = "key"
  /\ IF disk \in BadKey
     THEN Fail /\ UNCHANGED got
     ELSE got' = [got EXCEPT !.key = disk] /\ step' = "ca" /\ UNCHANGED phase
  /\ UNCHANGED <<disk, kubelet, swaps, queue, current, announced>>

\* ... then the key file, which must hold the certificate's key.
ReadKey ==
  /\ step = "key"
  /\ IF disk \in BadKey \/ KeyOf[disk] # KeyOf[got.crt]
     THEN Fail /\ UNCHANGED got
     ELSE got' = [got EXCEPT !.key = disk] /\ step' = "ca" /\ UNCHANGED phase
  /\ UNCHANGED <<disk, kubelet, swaps, queue, current, announced>>

\* os.ReadFile(caPath) and AppendCertsFromPEM.
ReadCA ==
  /\ step = "ca"
  /\ IF disk \in BadCA
     THEN Fail /\ UNCHANGED got
     ELSE got' = [got EXCEPT !.ca = disk] /\ step' = "store" /\ UNCHANGED phase
  /\ UNCHANGED <<disk, kubelet, swaps, queue, current, announced>>

\* Mutant: what queued up during a reload is taken to be done with.
Store_Drains ==
  /\ step = "store"
  /\ current' = got
  /\ step' = "idle"
  /\ phase' = IF phase = "starting" THEN "loaded" ELSE phase
  /\ queue' = <<>>
  /\ UNCHANGED <<disk, kubelet, swaps, got, announced>>

\* m.current.Store(cfg).
Store ==
  /\ step = "store"
  /\ current' = got
  /\ step' = "idle"
  /\ phase' = IF phase = "starting" THEN "loaded" ELSE phase
  /\ UNCHANGED <<disk, kubelet, swaps, queue, got, announced>>

-----------------------------------------------------------------------------
(***************************************************************************)
(* Watch().                                                                *)
(***************************************************************************)

\* NewWatcher and Add: from here on events are queued.
WatchAdd ==
  /\ phase = "loaded"
  /\ phase' = "watching"
  /\ UNCHANGED <<disk, kubelet, swaps, queue, step, got, current, announced>>

(***************************************************************************)
(* NewWatcher or Add fails, or later the context is done or a channel is   *)
(* closed: Watch() returns and the process goes on with what it has.       *)
(***************************************************************************)
WatchReturns ==
  /\ phase \in {"loaded", "watching"}
  /\ step = "idle"
  /\ phase' = "blind"
  /\ queue' = <<>>
  /\ UNCHANGED <<disk, kubelet, swaps, step, got, current, announced>>

\* Mutant: the filter knows only WRITE, which a symlink swap never raises.
WatchEvent_OnlyWrite ==
  /\ phase = "watching"
  /\ step = "idle"
  /\ queue # <<>>
  /\ queue' = Tail(queue)
  /\ UNCHANGED <<disk, kubelet, swaps, phase, step, got, current, announced>>

\* One event or error is received; only changes lead to a reload.
WatchEvent ==
  /\ phase = "watching"
  /\ step = "idle"
  /\ queue # <<>>
  /\ queue' = Tail(queue)
  /\ IF Head(queue) = "change"
     THEN step' = "crt" /\ got' = Nothing
     ELSE UNCHANGED <<step, got>>
  /\ UNCHANGED <<disk, kubelet, swaps, phase, current, announced>>

-----------------------------------------------------------------------------
Init ==
  /\ disk \in Versions
  /\ kubelet = "idle"
  /\ swaps = 0
  /\ queue = <<>>
  /\ phase = "starting"
  /\ step = "crt"
  /\ got = Nothing
  /\ current = None
  /\ announced = FALSE

Kubelet == MakeDir \/ Chmod \/ (\E v \in Versions : Swap(v)) \/ RemoveOld

Reload == ReadCrt \/ ReadKey \/ ReadCA \/ Store

Next == Kubelet \/ Restart \/ Reload \/ WatchAdd \/ WatchReturns \/ WatchEvent

Spec == Init /\ [][Next]_vars

(***************************************************************************)
(* The kubelet finishes a rotation it began, and the goroutine of Watch()  *)
(* runs when it can.                                                       *)
(***************************************************************************)
Fairness ==
  /\ WF_vars(Chmod \/ (\E v \in Versions : Swap(v)) \/ RemoveOld)
  /\ WF_vars(Reload)
  /\ WF_vars(WatchEvent)

FairSpec == Spec /\ Fairness

-----------------------------------------------------------------------------
Files == Versions \union {None}

TypeOK ==
  /\ disk \in Versions
  /\ kubelet \in {"idle", "made", "moded", "swapped"}
  /\ swaps \in 0..MaxSwaps
  /\ queue \in Seq({"change", "chmod", "overflow"})
  /\ phase \in {"starting", "loaded", "watching", "blind", "exited"}
  /\ step \in {"idle", "crt", "key", "ca", "store"}
  /\ got \in [crt : Files, key : Files, ca : Files]
  /\ current \in [crt : Versions, key : Versions, ca : Versions] \union {None}
  /\ announced \in BOOLEAN

(***************************************************************************)
(* A configuration in use has a certificate and a key that belong          *)
(* together, and files that parsed.                                        *)
(***************************************************************************)
LoadedUsable ==
  current # None =>
    /\ KeyOf[current.crt] = KeyOf[current.key]
    /\ current.crt \notin BadCrt
    /\ current.key \notin BadKey
    /\ current.ca \notin BadCA

ServingHasConfig == phase \in {"loaded", "watching", "blind"} => current # None

(***************************************************************************)
(* dialUpstream() clones TLSConfig() without a nil check: once main has    *)
(* got past NewManager there is a configuration, whatever fails later, and *)
(* it is usable, whatever the kubelet does between two reads of a reload.  *)
(***************************************************************************)
ServesUsable == ServingHasConfig /\ LoadedUsable

Quiet == phase = "watching" /\ step = "idle" /\ queue = <<>>

(***************************************************************************)
(* No rotation that raised an event is lost: when all events are handled   *)
(* and the Secret is usable, the configuration in use is the whole of it,  *)
(* although it may have changed in the middle of a reload, between the     *)
(* reads of two files.                                                     *)
(***************************************************************************)
FreshWhenQuiet == Quiet /\ announced /\ Usable(disk) => current = Whole(disk)

(***************************************************************************)
(* A rotation takes effect: if from some time on the process watches and a *)
(* usable Secret whose event it was sent stays in place, then that Secret  *)
(* is in the end the configuration in use, for good.                       *)
(***************************************************************************)
EventuallyFresh ==
  <>[](phase = "watching" /\ announced /\ Usable(disk)) =>
    <>[](current = Whole(disk))
=============================================================================
