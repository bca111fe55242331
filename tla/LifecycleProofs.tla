-------------------------- MODULE LifecycleProofs --------------------------
(***************************************************************************)
(* Theorems about Lifecycle, for any requests and any grace period.        *)
(***************************************************************************)
EXTENDS Lifecycle, TLAPS

-----------------------------------------------------------------------------
(***************************************************************************)
(* The inductive invariant.  Budget: what was waited and what is left are  *)
(* the grace period.  Phases: what main() has done so far, in particular   *)
(* that the second Shutdown begins when the proxy server takes no requests *)
(* any more and has none left, or no time is left.                         *)
(***************************************************************************)
Ending == main \in {"first", "second"}

Budget ==
  /\ waited <= Grace
  /\ Ending => left + waited = Grace
  /\ ~Ending /\ main # "exited" => waited = 0

Phases ==
  /\ notified => main \in {"select", "first", "second", "exited"}
  /\ Ending => server["proxy"] \in {"closed", "failed"}
  /\ server["metrics"] = "closed" => main \in {"second", "exited"}
  /\ main = "second" => ~Active("proxy") \/ left = 0
  /\ main = "exited" => \A j \in Jobs : job[j] # "active"

IInv == TypeOK /\ Budget /\ Phases

\* main() starts with nothing done.
LEMMA LifecycleInit == Init => IInv
<1> SUFFICES ASSUME Init PROVE IInv
  OBVIOUS
<1>1. TypeOK
  <2>1. mtls \in BOOLEAN /\ notified \in BOOLEAN
    BY Zenon DEF Init
  <2> QED
    BY <2>1, LifecycleAssumption DEF Init, TypeOK
<1> QED
  BY <1>1, LifecycleAssumption DEF Init, IInv, Budget, Phases, Ending, Servers

\* What Exit does to the requests.
LEMMA ExitJobs ==
  ASSUME TypeOK, NEW c, Exit(c)
  PROVE  /\ job' \in [Jobs -> {"new", "active", "tunnel", "done", "cut"}]
         /\ \A j \in Jobs : job'[j] # "active"
         /\ main' = "exited"
BY DEF Exit, TypeOK

\* Every step keeps the invariant.
LEMMA LifecycleStep == IInv /\ [Next]_vars => IInv'
<1> SUFFICES ASSUME IInv, [Next]_vars PROVE IInv'
  OBVIOUS
<1> USE LifecycleAssumption DEF IInv, Budget, Phases, Ending
<1>1. CASE parseFlags
  BY <1>1, ExitJobs DEF parseFlags, Exit, TypeOK, Active, JobsOf
<1>2. CASE NewManager
  BY <1>2, ExitJobs DEF NewManager, Exit, TypeOK, Active, JobsOf
<1>3. CASE NewWatcher
  BY <1>3, ExitJobs DEF NewWatcher, Exit, TypeOK, Active, JobsOf
<1>4. CASE StartServers
  BY <1>4 DEF StartServers, TypeOK, Servers, Active, JobsOf
<1>5. CASE Notify
  BY <1>5 DEF Notify, TypeOK, Active, JobsOf
<1>6. CASE Select
  BY <1>6 DEF Select, Allowance, Close, Order, TypeOK, Servers, Active, JobsOf
<1>7. CASE ShutdownFirst
  BY <1>7 DEF ShutdownFirst, Drained, Remaining, Close, Order, TypeOK, Servers,
              Active, JobsOf
<1>8. CASE ShutdownSecond
  BY <1>8, ExitJobs DEF ShutdownSecond, Exit, TypeOK, Active, JobsOf
<1>9. ASSUME NEW s \in Servers, Listen(s) PROVE IInv'
  BY <1>9 DEF Listen, TypeOK, Servers, Active, JobsOf
<1>10. ASSUME NEW s \in Servers, ServeFails(s) PROVE IInv'
  BY <1>10 DEF ServeFails, OnError, TypeOK, Servers, Active, JobsOf
<1>11. CASE Signal
  BY <1>11, ExitJobs DEF Signal, Exit, TypeOK, Active, JobsOf
<1>12. ASSUME NEW s \in Servers, NEW j \in JobsOf(s), Begin(s, j) PROVE IInv'
  <2>1. j \in Jobs
    BY DEF JobsOf, Jobs
  <2>2. main = "second" => j \notin ProxyJobs
    BY <1>12, LifecycleAssumption DEF Begin, JobsOf, Servers
  <2>3. main = "second" => (~Active("proxy") => ~Active("proxy")')
    BY <1>12, <2>1, <2>2 DEF Begin, Active, JobsOf, TypeOK, Jobs
  <2> QED
    BY <1>12, <2>1, <2>3 DEF Begin, TypeOK
<1>13. ASSUME NEW j \in Jobs, Hijack(j) \/ End(j) PROVE IInv'
  <2>1. ~Active("proxy") => ~Active("proxy")'
    BY <1>13 DEF Hijack, End, Active, JobsOf, TypeOK, Jobs
  <2> QED
    BY <1>13, <2>1 DEF Hijack, End, TypeOK
<1>14. CASE Tick
  BY <1>14 DEF Tick, TypeOK, Order, Active, JobsOf
<1>15. CASE UNCHANGED vars
  BY <1>15 DEF vars, TypeOK, Active, JobsOf
<1>16. ProxyJobs \subseteq Jobs
  BY DEF Jobs
<1> QED
  BY <1>1, <1>2, <1>3, <1>4, <1>5, <1>6, <1>7, <1>8, <1>9, <1>10, <1>11, <1>12,
     <1>13, <1>14, <1>15, <1>16
  DEF Next, Main

\* The invariant holds as long as the process lives.
LEMMA LifecycleAlways == Spec => []IInv
BY LifecycleInit, LifecycleStep, PTL DEF Spec

\* Every variable of main() keeps its type; the time left never runs over.
THEOREM LifecycleTypeCorrect == Spec => []TypeOK
<1>1. IInv => TypeOK
  BY DEF IInv
<1> QED
  BY <1>1, LifecycleAlways, PTL

\* The two Shutdowns of main() together never exceed the grace period.
THEOREM ExitInTime == Spec => []InTime
<1>1. IInv => InTime
  BY DEF IInv, Budget, InTime
<1> QED
  BY <1>1, LifecycleAlways, PTL

\* main() closes the metrics server only when no proxied request is left.
THEOREM MetricsStay == Spec => []MetricsLast
<1>1. IInv => MetricsLast
  <2> SUFFICES ASSUME IInv, server["metrics"] = "closed", waited < Grace,
                      Active("proxy")
               PROVE  FALSE
    BY DEF MetricsLast
  <2>1. main = "exited" => ~Active("proxy")
    BY DEF IInv, Phases, Active, JobsOf, Jobs
  <2>2. main = "second" => left # 0
    BY LifecycleAssumption DEF IInv, Budget, Ending, TypeOK
  <2> QED
    BY <2>1, <2>2 DEF IInv, Phases
<1> QED
  BY <1>1, LifecycleAlways, PTL

\* main() cuts requests off at the end of the grace period only.
THEOREM NothingCutEarly == Spec => CutOnlyLate
<1> DEFINE Late == \A j \in Jobs : job[j] = "active" /\ job'[j] = "cut"
                                     => waited = Grace \/ ~notified
<1>1. IInv /\ [Next]_vars => [Late]_vars
  <2> SUFFICES ASSUME IInv, [Next]_vars, NEW j \in Jobs, job[j] = "active",
                      job'[j] = "cut"
               PROVE  waited = Grace \/ ~notified
    OBVIOUS
  <2>1. CASE parseFlags \/ NewManager \/ NewWatcher
    BY <2>1 DEF parseFlags, NewManager, NewWatcher, IInv, Phases
  <2>2. CASE ShutdownSecond
    <3>1. Active("proxy") \/ Active("metrics")
      BY DEF Active, JobsOf, Jobs
    <3>2. left = 0
      BY <2>2, <3>1 DEF ShutdownSecond, Drained, Order, IInv, Phases
    <3> QED
      BY <2>2, <3>2, LifecycleAssumption
      DEF ShutdownSecond, IInv, Budget, Ending, TypeOK
  <2>3. CASE Signal
    BY <2>3 DEF Signal
  <2>4. ASSUME NEW i \in Jobs, NEW s \in Servers, Begin(s, i) \/ Hijack(i) \/ End(i)
        PROVE  FALSE
    BY <2>4 DEF Begin, Hijack, End, IInv, TypeOK
  <2>5. CASE UNCHANGED job
    BY <2>5
  <2>6. StartServers \/ Notify \/ Select \/ ShutdownFirst \/ Tick => UNCHANGED job
    BY DEF StartServers, Notify, Select, ShutdownFirst, Tick
  <2>7. ASSUME NEW s \in Servers, Listen(s) \/ ServeFails(s) PROVE UNCHANGED job
    BY <2>7 DEF Listen, ServeFails
  <2>8. \A s \in Servers : JobsOf(s) \subseteq Jobs
    BY DEF JobsOf, Jobs
  <2>9. ProxyJobs \subseteq Jobs /\ "proxy" \in Servers
    BY DEF Jobs, Servers
  <2> QED
    BY <2>1, <2>2, <2>3, <2>4, <2>5, <2>6, <2>7, <2>8, <2>9 DEF Next, Main, vars
<1> QED
  BY <1>1, LifecycleAlways, PTL DEF Spec, CutOnlyLate
=============================================================================
