----------------------- MODULE MCServiceEntryWatcher -----------------------
(***************************************************************************)
(* Small instances of ServiceEntryWatcher for TLC.                         *)
(***************************************************************************)
EXTENDS ServiceEntryWatcher

host(ls, u, d) == [labels |-> ls, upper |-> u, dots |-> d]

api_example == host(<<"api", "example">>, FALSE, 0)

\* Api.example: written with upper case letters.
Api_example == host(<<"api", "example">>, TRUE, 0)

\* api.example. : fully qualified, with its root dot.
api_example_dot == host(<<"api", "example">>, FALSE, 1)

any_example == host(<<"*", "example">>, FALSE, 0)

web_example == host(<<"web", "example">>, FALSE, 0)

entry(hs, ps) == [hosts |-> hs, ports |-> ps]

(***************************************************************************)
(* An exact host for one port, the same host and a wildcard for another    *)
(* port, and a wildcard for all ports: exact and wildcard entries shadow   *)
(* each other in every order.                                              *)
(***************************************************************************)
MCSpecs ==
  {entry({Api_example}, {443}),
   entry({api_example_dot, any_example}, {80}),
   entry({any_example}, {})}

MCQueries ==
  {[host |-> api_example_dot, port |-> 443],
   [host |-> web_example, port |-> 443]}

\* What the liveness run needs: one ServiceEntry, a hit or a miss.
MCSpecsOne == {entry({Api_example}, {80})}

MCQueriesOne == {[host |-> api_example, port |-> 443]}
=============================================================================
