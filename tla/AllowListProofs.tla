-------------------------- MODULE AllowListProofs --------------------------
(***************************************************************************)
(* What rebuild() and AllowHost() compute together, for every listing: an  *)
(* admitted host and port are covered by a ServiceEntry of the listing,    *)
(* and a host that is matched, by ServiceEntries that all admit the port,  *)
(* is admitted.                                                            *)
(***************************************************************************)
EXTENDS AllowList, WellFoundedInduction, TLAPS

\* A nonempty set of naturals has a least element, so FirstOf is in it.
LEMMA FirstOfMember ==
  ASSUME NEW I \in SUBSET Nat, I # {}
  PROVE  FirstOf(I) \in I /\ \A j \in I : FirstOf(I) <= j
<1>1. PICK x \in I : \A y \in I : ~(<<y, x>> \in OpToRel(<, Nat))
  BY NatLessThanWellFounded, WFMin, Zenon
<1>2. \A y \in I : x <= y
  <2> TAKE y \in I
  <2>1. x \in Nat /\ y \in Nat
    OBVIOUS
  <2>2. ~(y < x)
    BY <1>1, <2>1 DEF OpToRel
  <2> QED
    BY <2>1, <2>2
<1> QED
  BY <1>2 DEF FirstOf

\* A nonempty set of naturals with a bound has a greatest element.
LEMMA LastOfMember ==
  ASSUME NEW n \in Nat, NEW I \in SUBSET (1..n), I # {}
  PROVE  LastOf(I) \in I /\ \A j \in I : j <= LastOf(I)
<1> DEFINE D == {n - i : i \in I}
<1>1. D \in SUBSET Nat /\ D # {}
  <2>1. PICK i \in I : TRUE
    OBVIOUS
  <2>2. n - i \in D
    BY <2>1
  <2>3. \A d \in D : d \in Nat
    OBVIOUS
  <2> QED
    BY <2>2, <2>3
<1>2. PICK x \in D : \A y \in D : ~(<<y, x>> \in OpToRel(<, Nat))
  BY <1>1, NatLessThanWellFounded, WFMin, Zenon
<1>3. PICK i \in I : x = n - i
  BY <1>2
<1>4. \A j \in I : j <= i
  <2> TAKE j \in I
  <2>1. n - j \in D /\ n - j \in Nat /\ x \in Nat
    BY <1>1
  <2>2. ~(n - j < x)
    BY <2>1, <1>2 DEF OpToRel
  <2> QED
    BY <2>2, <1>3
<1> QED
  BY <1>4 DEF LastOf

\* What a listing is, as far as these lemmas go: a finite sequence.
LEMMA HostsEntry ==
  ASSUME NEW n \in Nat, NEW l, DOMAIN l = 1..n, NEW h \in DOMAIN BuildHosts(l)
  PROVE  \E i \in DOMAIN l : h \in ExactHosts(l[i]) /\ BuildHosts(l)[h] = Entry(l[i])
<1>1. PICK k \in DOMAIN l : h \in ExactHosts(l[k])
  BY DEF BuildHosts
<1>2. Naming(l, h) \in SUBSET (1..n) /\ Naming(l, h) # {}
  BY <1>1 DEF Naming
<1>3. LastOf(Naming(l, h)) \in Naming(l, h)
  BY <1>2, LastOfMember
<1>4. BuildHosts(l)[h] = Entry(l[LastOf(Naming(l, h))])
  BY DEF BuildHosts
<1> QED
  BY <1>3, <1>4 DEF Naming

\* The first matching wildcard of a built list belongs to a ServiceEntry.
LEMMA WildcardsEntry ==
  ASSUME NEW n \in Nat, NEW l, DOMAIN l = 1..n, NEW h,
         Matching(BuildWildcards(l), h) # {}
  PROVE  LET i == FirstOf(Matching(BuildWildcards(l), h))
         IN  /\ i \in DOMAIN l
             /\ \E s \in Suffixes(l[i]) : HasSuffix(h, s)
             /\ BuildWildcards(l)[i].entry = Entry(l[i])
<1> DEFINE I == Matching(BuildWildcards(l), h)
<1>1. DOMAIN BuildWildcards(l) = 1..n
  BY DEF BuildWildcards
<1>2. I \in SUBSET Nat
  BY <1>1 DEF Matching
<1>3. FirstOf(I) \in I
  BY <1>2, FirstOfMember
<1> QED
  BY <1>1, <1>3 DEF Matching, BuildWildcards

(***************************************************************************)
(* Soundness of the allowlist: what AllowHost admits on the lists that     *)
(* rebuild makes of a listing is covered by a ServiceEntry of the listing. *)
(***************************************************************************)
THEOREM AllowHostSound ==
  ASSUME NEW n \in Nat, NEW l, DOMAIN l = 1..n, NEW host, NEW port,
         AllowHost(BuildHosts(l), BuildWildcards(l), host, port)
  PROVE  \E i \in DOMAIN l : Covers(l[i], host, port)
<1> DEFINE h == Normalise(host)
<1>1. CASE h \in DOMAIN BuildHosts(l)
  <2>1. PICK i \in DOMAIN l :
          h \in ExactHosts(l[i]) /\ BuildHosts(l)[h] = Entry(l[i])
    BY <1>1, HostsEntry
  <2>2. portAllowed(BuildHosts(l)[h], port)
    BY <1>1 DEF AllowHost, AllowExact
  <2> QED
    BY <2>1, <2>2 DEF Covers, Matches
<1>2. CASE h \notin DOMAIN BuildHosts(l)
  <2> DEFINE I == Matching(BuildWildcards(l), h)
             i == FirstOf(I)
  <2>1. I # {} /\ portAllowed(BuildWildcards(l)[i].entry, port)
    BY <1>2 DEF AllowHost, AllowWild
  <2>2. /\ i \in DOMAIN l
        /\ \E s \in Suffixes(l[i]) : HasSuffix(h, s)
        /\ BuildWildcards(l)[i].entry = Entry(l[i])
    BY <2>1, WildcardsEntry
  <2> QED
    BY <2>1, <2>2 DEF Covers, Matches
<1> QED
  BY <1>1, <1>2

(***************************************************************************)
(* Completeness of the allowlist, where ServiceEntries agree: if one of    *)
(* the listing matches a host and all that match it admit the port, then   *)
(* AllowHost admits them, in whatever order the listing comes.             *)
(***************************************************************************)
THEOREM AllowHostComplete ==
  ASSUME NEW n \in Nat, NEW l, DOMAIN l = 1..n, NEW host, NEW port,
         \E i \in DOMAIN l : Matches(l[i], host),
         \A i \in DOMAIN l : Matches(l[i], host) => portAllowed(Entry(l[i]), port)
  PROVE  AllowHost(BuildHosts(l), BuildWildcards(l), host, port)
<1> DEFINE h == Normalise(host)
<1>1. CASE h \in DOMAIN BuildHosts(l)
  <2>1. PICK i \in DOMAIN l :
          h \in ExactHosts(l[i]) /\ BuildHosts(l)[h] = Entry(l[i])
    BY <1>1, HostsEntry
  <2>2. portAllowed(Entry(l[i]), port)
    BY <2>1 DEF Matches
  <2> QED
    BY <1>1, <2>1, <2>2 DEF AllowHost, AllowExact
<1>2. CASE h \notin DOMAIN BuildHosts(l)
  <2> DEFINE I == Matching(BuildWildcards(l), h)
             i == FirstOf(I)
  <2>1. PICK k \in DOMAIN l : Matches(l[k], host)
    OBVIOUS
  <2>2. h \notin ExactHosts(l[k])
    BY <1>2 DEF BuildHosts
  <2>3. k \in I
    BY <2>1, <2>2 DEF Matches, Matching, BuildWildcards
  <2>4. /\ i \in DOMAIN l
        /\ \E s \in Suffixes(l[i]) : HasSuffix(h, s)
        /\ BuildWildcards(l)[i].entry = Entry(l[i])
    BY <2>3, WildcardsEntry
  <2>5. portAllowed(BuildWildcards(l)[i].entry, port)
    BY <2>4 DEF Matches
  <2> QED
    BY <1>2, <2>3, <2>5 DEF AllowHost, AllowWild
<1> QED
  BY <1>1, <1>2
=============================================================================
