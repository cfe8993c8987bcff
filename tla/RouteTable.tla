----------------------------- MODULE RouteTable -----------------------------
(***************************************************************************)
(* Routes and the table they are looked up in (src/src/router.c).  Adding   *)
(* and looking up hold router->mutex from start to end.                     *)
(*                                                                          *)
(* A regular expression is literal text that matches wherever it occurs;    *)
(* one with a "[" does not compile.                                         *)
(***************************************************************************)
EXTENDS Naturals, Sequences, SequencesExt

CONSTANT NoRoute  \* NULL

Compiles(pattern) == ~Contains(pattern, "[")

Matches(pattern, query) ==
  \E n \in 0 .. Len(query) :
    n + Len(pattern) <= Len(query) /\ SubSeq(query, n + 1, n + Len(pattern)) = pattern

\* httpserv_router_add_route puts the route in front of the others.
\* The first two are mutated forms.
BehindOthers(routes, r) == Append(routes, r)
InsteadOfOthers(routes, r) == <<r>>
AddRoute(routes, r) == <<r>> \o routes

\* httpserv_router_lookup stops at the first route that matches; one that
\* leads to the query itself is no route, and the walk does not go on.
Lookup(routes, query) ==
  LET n == SelectInSeq(routes, LAMBDA r : Matches(r.pattern, query))
  IN  IF n = 0 THEN NoRoute
      ELSE IF routes[n].to = query THEN NoRoute
      ELSE routes[n]
=============================================================================
