------------------------------- MODULE Router -------------------------------
(***************************************************************************)
(* A route table that grows, against two views of it that know nothing of  *)
(* string lengths: the segments of paths, and tables in another order.     *)
(***************************************************************************)
EXTENDS Routing

CONSTANTS Hosts, PathPrefixes, Paths, Services, MaxRoutes

ASSUME RouterAssumption ==
    /\ NoHost \notin Hosts /\ MaxRoutes \in Nat
    /\ PathPrefixes \subseteq Seq(STRING) /\ Paths \subseteq Seq(STRING)

VARIABLE routes

Route ==
    [host : Hosts \cup {NoHost}, path_prefix : PathPrefixes, service : Services]

Requests == [host : Hosts \cup {NoHost}, path : Paths]

Init == routes = <<>>

Add ==
    /\ Len(routes) < MaxRoutes
    /\ \E r \in Route : routes' = Append(routes, r)

-----------------------------------------------------------------------------
Extended(parts, c) ==
    IF c = "/" THEN Append(parts, <<>>)
    ELSE [parts EXCEPT ![Len(parts)] = Append(@, c)]

\* The segments of as many symbols of a path as one likes.
Parts(path) ==
    LET parts[n \in 0 .. Len(path)] ==
            IF n = 0 THEN <<<<>>>> ELSE Extended(parts[n - 1], path[n])
    IN  parts

\* The parts of a path between its slashes: "/a/b" has "", "a" and "b", and
\* "/a/" has "", "a" and "".
Segments(path) == Parts(path)[Len(path)]

\* A path is under a prefix that ends in a slash if it goes on after it, and
\* under another one if it begins with the same segments.
Under(path, prefix) ==
    LET p == Segments(PathHead(path))
        q == Segments(prefix)
    IN  \/ prefix = <<"/">>
        \/ IF Len(q) > 1 /\ Last(q) = <<>>
           THEN IsStrictPrefix(Front(q), p) ELSE IsPrefix(q, p)

(***************************************************************************)
(* A request goes to a route whose host and whole path segments it has,    *)
(* and none that fits is more specific; "/api" never takes "/apixyz"       *)
(* (router.rs route: "the longest path prefix wins, with a host specific   *)
(* route breaking ties").                                                  *)
(***************************************************************************)
MostSpecificWins ==
    \A req \in Requests :
        LET fits == {r \in ToSet(routes) :
                        r.host \in {NoHost, req.host} /\ Under(req.path, r.path_prefix)}
        IN  IF fits = {} THEN RouteFor(routes, req) = NoService
            ELSE \E r \in fits :
                    /\ RouteFor(routes, req) = r.service
                    /\ \A q \in fits : ~MoreSpecific(q, r)

SamePattern(r, q) == r.host = q.host /\ r.path_prefix = q.path_prefix

Swapped(k) == [routes EXCEPT ![k] = routes[k + 1], ![k + 1] = routes[k]]

(***************************************************************************)
(* The order in which routes were added does not matter, except that of    *)
(* two routes with one pattern: exchanging neighbours with different       *)
(* patterns changes the service of no request (router.rs add, route).      *)
(***************************************************************************)
OrderIsIrrelevant ==
    \A k \in 1 .. Len(routes) - 1 :
        ~SamePattern(routes[k], routes[k + 1]) =>
            \A req \in Requests : RouteFor(Swapped(k), req) = RouteFor(routes, req)
=============================================================================
