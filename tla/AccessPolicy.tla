---------------------------- MODULE AccessPolicy ----------------------------
(***************************************************************************)
(* What the Watcher promises to the proxy's handler, with no goroutine, no *)
(* lock and no queue.  The watcher knows some ServiceEntries; at times it  *)
(* takes a view of them, a listing in some order, and later makes the      *)
(* policy that this view builds its current one, in one step; a question   *)
(* is answered in one step, from the one policy that is current then.      *)
(***************************************************************************)
CONSTANTS
  Names, Specs, NoSE,  \* what ServiceEntries there may be
  Readers, Queries,    \* who asks, and what
  Listings(_),         \* the views that known ServiceEntries allow
  Build(_),            \* the policy that a view builds
  Decide(_, _)         \* what a policy says of a query

VARIABLES
  known,   \* the ServiceEntries that have reached this pod
  view,    \* the listing taken and not yet published, if any: a set
  policy,  \* the current policy
  asked,   \* readers with a question that has no answer yet
  query,   \* what each of them asked last
  answer   \* and the last answer it got

vars == <<known, view, policy, asked, query, answer>>

Init ==
  /\ known = [n \in Names |-> NoSE]
  /\ view = {}
  /\ \E l \in Listings(known) : policy = Build(l)
  /\ asked = {}
  /\ query \in [Readers -> Queries]
  /\ answer = [r \in Readers |-> FALSE]

Learn(n) ==
  /\ \E s \in Specs \union {NoSE} : known' = [known EXCEPT ![n] = s]
  /\ UNCHANGED <<view, policy, asked, query, answer>>

Take ==
  /\ view = {}
  /\ \E l \in Listings(known) : view' = {l}
  /\ UNCHANGED <<known, policy, asked, query, answer>>

Publish ==
  /\ \E l \in view : policy' = Build(l)
  /\ view' = {}
  /\ UNCHANGED <<known, asked, query, answer>>

Ask(r, q) ==
  /\ r \notin asked
  /\ asked' = asked \union {r}
  /\ query' = [query EXCEPT ![r] = q]
  /\ UNCHANGED <<known, view, policy, answer>>

Answer(r) ==
  /\ r \in asked
  /\ asked' = asked \ {r}
  /\ answer' = [answer EXCEPT ![r] = Decide(policy, query[r])]
  /\ UNCHANGED <<known, view, policy, query>>

Next ==
  \/ \E n \in Names : Learn(n)
  \/ Take
  \/ Publish
  \/ \E r \in Readers : (\E q \in Queries : Ask(r, q)) \/ Answer(r)

Spec == Init /\ [][Next]_vars
=============================================================================
