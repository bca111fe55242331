----------------------------- MODULE Lifecycle ------------------------------
(***************************************************************************)
(* cmd/main.go: the life of the process.  main() sets up the parts, starts *)
(* the two servers in goroutines, waits for a signal or for the context,   *)
(* and shuts the servers down one after the other, in one common time.     *)
(*                                                                         *)
(* A job is one request to a server.  A CONNECT takes its connection from  *)
(* the server (Hijack): Shutdown neither waits for it nor closes it.       *)
(***************************************************************************)
EXTENDS Naturals

CONSTANTS
  ProxyJobs,   \* requests to the proxy server
  MetricsJobs, \* requests to the metrics server
  Grace        \* time for both Shutdowns, in ticks (15 seconds)

ASSUME LifecycleAssumption ==
  /\ ProxyJobs \cap MetricsJobs = {}
  /\ Grace \in Nat

Jobs == ProxyJobs \union MetricsJobs
Servers == {"proxy", "metrics"}
JobsOf(s) == IF s = "proxy" THEN ProxyJobs ELSE MetricsJobs

VARIABLES
  main,     \* where main() is
  mtls,     \* cfg.mtlsEnabled
  code,     \* how the process ended
  ctx,      \* whether the context is cancelled
  notified, \* signal.Notify was called
  sigCh,    \* signals in the channel
  server,   \* each server
  job,      \* each request
  left,     \* ticks left of shutdownCtx
  waited    \* history: ticks spent in the Shutdowns

vars == <<main, mtls, code, ctx, notified, sigCh, server, job, left, waited>>

-----------------------------------------------------------------------------
(***************************************************************************)
(* main(), up to the select.                                               *)
(***************************************************************************)
\* The process ends with code c, and with it the requests it was serving.
Exit(c) ==
  /\ main' = "exited"
  /\ code' = c
  /\ job' = [j \in Jobs |-> IF job[j] \in {"active", "tunnel"} THEN "cut"
                            ELSE job[j]]

\* os.Exit(2) without an upstream.
parseFlags ==
  /\ main = "flags"
  /\ \/ main' = "certs" /\ UNCHANGED <<code, job>>
     \/ Exit("2")
  /\ UNCHANGED <<mtls, ctx, notified, sigCh, server, left, waited>>

NewManager ==
  /\ main = "certs"
  /\ \/ main' = "watcher" /\ UNCHANGED <<code, job>>
     \/ mtls /\ Exit("1")
  /\ UNCHANGED <<mtls, ctx, notified, sigCh, server, left, waited>>

NewWatcher ==
  /\ main = "watcher"
  /\ \/ main' = "servers" /\ UNCHANGED <<code, job>>
     \/ Exit("1")
  /\ UNCHANGED <<mtls, ctx, notified, sigCh, server, left, waited>>

\* The go statements: ListenAndServe is called sooner or later.
StartServers ==
  /\ main = "servers"
  /\ main' = "notify"
  /\ server' = [s \in Servers |-> "starting"]
  /\ UNCHANGED <<mtls, code, ctx, notified, sigCh, job, left, waited>>

Notify ==
  /\ main = "notify"
  /\ main' = "select"
  /\ notified' = TRUE
  /\ UNCHANGED <<mtls, code, ctx, sigCh, server, job, left, waited>>

-----------------------------------------------------------------------------
(***************************************************************************)
(* The goroutines of the servers.                                          *)
(***************************************************************************)
Listen(s) ==
  /\ main # "exited"
  /\ server[s] = "starting"
  /\ server' = [server EXCEPT ![s] = "listening"]
  /\ UNCHANGED <<main, mtls, code, ctx, notified, sigCh, job, left, waited>>

\* Mutant: a proxy server that fails is only logged, like the other one.
OnError_OnlyLogged(s) == ctx' = ctx

\* Only the proxy server's failure cancels the context.
OnError(s) == ctx' = IF s = "proxy" THEN "cancelled" ELSE ctx

\* ListenAndServe returns an error: no listener, or later no Accept.
ServeFails(s) ==
  /\ main # "exited"
  /\ server[s] \in {"starting", "listening"}
  /\ server' = [server EXCEPT ![s] = "failed"]
  /\ OnError(s)
  /\ UNCHANGED <<main, mtls, code, notified, sigCh, job, left, waited>>

-----------------------------------------------------------------------------
(***************************************************************************)
(* The end: select, and the two Shutdowns.                                 *)
(***************************************************************************)
Active(s) == \E j \in JobsOf(s) : job[j] = "active"

\* Mutant: the metrics server is closed instead of shut down.
Drained_NoWait(s) == s = "metrics" \/ ~Active(s) \/ left = 0

\* Shutdown(shutdownCtx) returns.
Drained(s) == ~Active(s) \/ left = 0

\* Shutdown makes ListenAndServe return, or never begin.
Close(s) ==
  server' = [server EXCEPT ![s] = IF @ = "failed" THEN "failed" ELSE "closed"]

\* context.WithTimeout(context.Background(), 15*time.Second).
Allowance == Grace

\* Mutant: the metrics server goes first.
Order_MetricsFirst == [first |-> "metrics", second |-> "proxy"]

Order == [first |-> "proxy", second |-> "metrics"]

Select ==
  /\ main = "select"
  /\ \/ sigCh = 1 /\ sigCh' = 0
     \/ ctx = "cancelled" /\ UNCHANGED sigCh
  /\ main' = "first"
  /\ left' = Allowance
  /\ Close(Order.first)
  /\ UNCHANGED <<mtls, code, ctx, notified, job, waited>>

\* Mutant: each Shutdown has a time of its own.
Remaining_Anew == Grace

\* Both Shutdowns get the same context.
Remaining == left

\* proxyServer.Shutdown returns, drained or out of time.
ShutdownFirst ==
  /\ main = "first"
  /\ Drained(Order.first)
  /\ main' = "second"
  /\ left' = Remaining
  /\ Close(Order.second)
  /\ UNCHANGED <<mtls, code, ctx, notified, sigCh, job, waited>>

\* metricsServer.Shutdown and main() return: what still runs is cut off.
ShutdownSecond ==
  /\ main = "second"
  /\ Drained(Order.second)
  /\ Exit("0")
  /\ ctx' = "cancelled"
  /\ UNCHANGED <<mtls, notified, sigCh, server, left, waited>>

-----------------------------------------------------------------------------
(***************************************************************************)
(* Signals, requests and time (external).                                  *)
(***************************************************************************)
\* Before Notify a signal ends the process; one that finds sigCh full is lost.
Signal ==
  /\ main # "exited"
  /\ IF notified THEN sigCh' = 1 /\ UNCHANGED <<main, code, job>>
     ELSE Exit("killed") /\ UNCHANGED sigCh
  /\ UNCHANGED <<mtls, ctx, notified, server, left, waited>>

Begin(s, j) ==
  /\ main # "exited"
  /\ server[s] = "listening"
  /\ job[j] = "new"
  /\ job' = [job EXCEPT ![j] = "active"]
  /\ UNCHANGED <<main, mtls, code, ctx, notified, sigCh, server, left, waited>>

\* A CONNECT that is allowed: the connection leaves the server's care.
Hijack(j) ==
  /\ main # "exited"
  /\ job[j] = "active"
  /\ job' = [job EXCEPT ![j] = "tunnel"]
  /\ UNCHANGED <<main, mtls, code, ctx, notified, sigCh, server, left, waited>>

End(j) ==
  /\ main # "exited"
  /\ job[j] \in {"active", "tunnel"}
  /\ job' = [job EXCEPT ![j] = "done"]
  /\ UNCHANGED <<main, mtls, code, ctx, notified, sigCh, server, left, waited>>

\* Time matters while a Shutdown waits.
Tick ==
  /\ \/ main = "first" /\ Active(Order.first)
     \/ main = "second" /\ Active(Order.second)
  /\ left > 0
  /\ left' = left - 1
  /\ waited' = waited + 1
  /\ UNCHANGED <<main, mtls, code, ctx, notified, sigCh, server, job>>

-----------------------------------------------------------------------------
Init ==
  /\ main = "flags"
  /\ mtls \in BOOLEAN
  /\ code = "none"
  /\ ctx = "live"
  /\ notified = FALSE
  /\ sigCh = 0
  /\ server = [s \in Servers |-> "off"]
  /\ job = [j \in Jobs |-> "new"]
  /\ left = 0
  /\ waited = 0

Main ==
  \/ parseFlags \/ NewManager \/ NewWatcher \/ StartServers \/ Notify
  \/ Select \/ ShutdownFirst \/ ShutdownSecond

Next ==
  \/ Main
  \/ \E s \in Servers : Listen(s) \/ ServeFails(s)
  \/ Signal
  \/ \E s \in Servers : \E j \in JobsOf(s) : Begin(s, j)
  \/ \E j \in ProxyJobs : Hijack(j)
  \/ \E j \in Jobs : End(j)
  \/ Tick

Spec == Init /\ [][Next]_vars

\* main() runs when it can, and time passes; no request need ever end.
FairSpec == Spec /\ WF_vars(Main) /\ WF_vars(Tick)

-----------------------------------------------------------------------------
TypeOK ==
  /\ main \in {"flags", "certs", "watcher", "servers", "notify", "select",
               "first", "second", "exited"}
  /\ mtls \in BOOLEAN
  /\ code \in {"none", "0", "1", "2", "killed"}
  /\ ctx \in {"live", "cancelled"}
  /\ notified \in BOOLEAN
  /\ sigCh \in {0, 1}
  /\ server \in [Servers -> {"off", "starting", "listening", "failed", "closed"}]
  /\ job \in [Jobs -> {"new", "active", "tunnel", "done", "cut"}]
  /\ left \in 0..Grace
  /\ waited \in Nat

(***************************************************************************)
(* Both Shutdowns together take no longer than the grace period, however   *)
(* long requests to either server last (a dump of the allowlist to a       *)
(* client that does not read lasts for ever).                              *)
(***************************************************************************)
InTime == waited <= Grace

(***************************************************************************)
(* The metrics server answers, the last counts included, as long as main() *)
(* waits for proxied requests.                                             *)
(***************************************************************************)
MetricsLast == server["metrics"] = "closed" /\ waited < Grace => ~Active("proxy")

(***************************************************************************)
(* Whatever ends the process, a signal or a listener that fails, a request *)
(* that is no tunnel is cut off only when all of the grace period has been *)
(* waited, or before signals are handled at all.                           *)
(***************************************************************************)
CutOnlyLate ==
  [][\A j \in Jobs : job[j] = "active" /\ job'[j] = "cut"
       => waited = Grace \/ ~notified]_vars

(***************************************************************************)
(* A signal that was taken and a proxy server that fails end the process,  *)
(* even if no request ever ends; one that arrives too early does at once.  *)
(***************************************************************************)
Stops == sigCh = 1 \/ server["proxy"] = "failed" ~> main = "exited"
=============================================================================
