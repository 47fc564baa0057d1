------------------------------ MODULE Routing ------------------------------
(***************************************************************************)
(* Which service a request belongs to: the routes of a table, in the order *)
(* they were added, by host and by path prefix.  A path is a sequence of   *)
(* symbols, of which "/" and "?" have a meaning.  Hosts are compared       *)
(* without regard to case, so a host here stands for all its spellings.    *)
(***************************************************************************)
EXTENDS Integers, Sequences, FiniteSets, FiniteSetsExt, SequencesExt

\* A route for every host, or a request that names none.
NoHost == "NoHost"

NoService == "NoService"

\* The path before its query.
PathHead(path) ==
    SubSeq(path, 1, Min({i \in DOMAIN path : path[i] = "?"} \cup {Len(path) + 1}) - 1)

\* Mutant: the prefix may end inside a segment.
MatchesAnywhere(prefix, path) ==
    prefix = <<"/">> \/ IsPrefix(prefix, PathHead(path))

\* The prefix ends at a boundary: at the end of the path or at a slash.
PathPrefixMatches(prefix, path) ==
    LET head == PathHead(path)
        n    == Len(prefix)
    IN  \/ prefix = <<"/">>
        \/ /\ IsPrefix(prefix, head)
           /\ \/ Len(head) = n
              \/ head[n + 1] = "/"
              \/ n > 0 /\ prefix[n] = "/"

Matches(route, req) ==
    /\ route.host # NoHost => req.host = route.host
    /\ PathPrefixMatches(route.path_prefix, req.path)

\* Mutant: the host does not break ties.
LongerPrefix(r, q) == Len(r.path_prefix) > Len(q.path_prefix)

\* The order of the keys (prefix length, has a host).
MoreSpecific(r, q) ==
    \/ Len(r.path_prefix) > Len(q.path_prefix)
    \/ /\ Len(r.path_prefix) = Len(q.path_prefix)
       /\ r.host # NoHost /\ q.host = NoHost

\* The last of the most specific routes that match, as max_by_key takes it.
RouteFor(routes, req) ==
    LET C == {i \in DOMAIN routes : Matches(routes[i], req)}
        top == {i \in C : \A j \in C : ~MoreSpecific(routes[j], routes[i])}
    IN  IF C = {} THEN NoService ELSE routes[Max(top)].service
=============================================================================
