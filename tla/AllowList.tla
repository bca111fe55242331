------------------------------ MODULE AllowList ------------------------------
(***************************************************************************)
(* The pure part of internal/serviceentry: how the names of ServiceEntries *)
(* and of requests are normalised, what rebuild() makes of a listing of    *)
(* ServiceEntries, and how AllowHost() decides a request from the result.  *)
(*                                                                         *)
(* A host name is a record: its labels, whether it is spelled with upper   *)
(* case letters, and the number of trailing dots.  A ServiceEntry is a     *)
(* record with its name, its hosts and its ports; the proxy reads nothing  *)
(* else of it.  A port list is only searched and tested for emptiness, so  *)
(* it is a set.                                                            *)
(***************************************************************************)
EXTENDS Naturals, Sequences, FiniteSets, Functions

Host(Labels) == [labels : Seq(Labels), upper : BOOLEAN, dots : Nat]

(***************************************************************************)
(* strings.ToLower(strings.TrimSuffix(h, ".")): one trailing dot goes.     *)
(***************************************************************************)
Normalise(h) ==
  [labels |-> h.labels, upper |-> FALSE,
   dots |-> IF h.dots > 0 THEN h.dots - 1 ELSE 0]

\* strings.HasPrefix(h, "*.").
IsWildcard(h) == Len(h.labels) > 1 /\ h.labels[1] = "*"

\* h[1:], the suffix that "*.example.com" leaves: ".example.com".
Suffix(h) == [h EXCEPT !.labels = Tail(@)]

(***************************************************************************)
(* strings.HasSuffix(h, s) for a suffix that starts with a dot: at least   *)
(* one label of h is left over in front of it.                             *)
(***************************************************************************)
HasSuffix(h, s) ==
  LET extra == Len(h.labels) - Len(s.labels)
  IN  /\ extra > 0
      /\ SubSeq(h.labels, extra + 1, Len(h.labels)) = s.labels
      /\ h.dots = s.dots

Entry(se) == [name |-> se.name, ports |-> se.ports]

portAllowed(e, port) == e.ports = {} \/ port \in e.ports

(***************************************************************************)
(* The keys one ServiceEntry contributes to hosts, and its wildcards.      *)
(***************************************************************************)
ExactHosts(se) == {h \in {Normalise(x) : x \in se.hosts} : ~IsWildcard(h)}

Suffixes(se) ==
  {Suffix(h) : h \in {x \in {Normalise(y) : y \in se.hosts} : IsWildcard(x)}}

(***************************************************************************)
(* The two loops of rebuild() over the listing l, a sequence of            *)
(* ServiceEntries.  hosts[h] = entry overwrites: the last ServiceEntry of  *)
(* the listing that names h wins.  The wildcards that one ServiceEntry     *)
(* appends all carry the same entry, so that run of the slice is one       *)
(* element here, with the set of its suffixes.                             *)
(***************************************************************************)
Naming(l, h) == {i \in DOMAIN l : h \in ExactHosts(l[i])}

LastOf(I) == CHOOSE i \in I : \A j \in I : j <= i

BuildHosts(l) ==
  [h \in UNION {ExactHosts(l[i]) : i \in DOMAIN l} |->
     Entry(l[LastOf(Naming(l, h))])]

BuildWildcards(l) ==
  [i \in DOMAIN l |-> [suffixes |-> Suffixes(l[i]), entry |-> Entry(l[i])]]

(***************************************************************************)
(* AllowHost().  An exact entry decides alone, whatever the wildcards say; *)
(* otherwise the first wildcard of the slice that matches decides.         *)
(***************************************************************************)
Matching(wildcards, h) ==
  {i \in DOMAIN wildcards : \E s \in wildcards[i].suffixes : HasSuffix(h, s)}

FirstOf(I) == CHOOSE i \in I : \A j \in I : i <= j

AllowExact(hosts, h, port) == portAllowed(hosts[h], port)

\* Mutant: the port of a wildcard entry is not looked at.
AllowWild_AnyPort(wildcards, h, port) == Matching(wildcards, h) # {}

AllowWild(wildcards, h, port) ==
  LET I == Matching(wildcards, h)
  IN  I # {} /\ portAllowed(wildcards[FirstOf(I)].entry, port)

\* Mutant: the requested host is looked up as it is spelled.
AllowHost_Raw(hosts, wildcards, host, port) ==
  IF host \in DOMAIN hosts THEN AllowExact(hosts, host, port)
                            ELSE AllowWild(wildcards, host, port)

AllowHost(hosts, wildcards, host, port) ==
  LET h == Normalise(host)
  IN  IF h \in DOMAIN hosts THEN AllowExact(hosts, h, port)
                            ELSE AllowWild(wildcards, h, port)

(***************************************************************************)
(* The reference: a ServiceEntry matches a host if one of its hosts names  *)
(* it, exactly or by a wildcard, and covers a host and port if it matches  *)
(* the host and its port list admits the port.                             *)
(***************************************************************************)
Matches(se, host) ==
  \/ Normalise(host) \in ExactHosts(se)
  \/ \E s \in Suffixes(se) : HasSuffix(Normalise(host), s)

Covers(se, host, port) == Matches(se, host) /\ portAllowed(Entry(se), port)

=============================================================================
