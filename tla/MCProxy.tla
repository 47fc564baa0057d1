------------------------------ MODULE MCProxy ------------------------------
(* Instances of the proxy for TLC. *)
EXTENDS Proxy

\* One service with two backends.
OneService == [s \in {"shop"} |-> <<1, 1>>]

\* Two services that share the retry budget.
TwoServices == [s \in {"shop", "api"} |-> IF s = "shop" THEN <<1, 1>> ELSE <<1>>]

\* Everything of one host, and one path of it to the other service; "/old" is
\* routed to a service that has no pool.
Table ==
    <<[host |-> "h1", path_prefix |-> <<"/">>, service |-> "shop"],
      [host |-> "h1", path_prefix |-> <<"/", "api">>, service |-> "api"],
      [host |-> NoHost, path_prefix |-> <<"/", "old">>, service |-> "archive"]>>

ShopRequest == [host |-> "h1", path |-> <<"/">>, session |-> NoKey]

ApiRequest == [ShopRequest EXCEPT !.path = <<"/", "api">>]

\* No route, and no pool for the route.
LostRequests == {[ShopRequest EXCEPT !.host = NoHost],
                 [ShopRequest EXCEPT !.path = <<"/", "old">>]}

ShopRequests == {ShopRequest} \cup LostRequests

AllRequests == ShopRequests \cup {ApiRequest}

TwoPoints == <<{1, 4}, {2, 4}>>

KeyPoints == [k \in Keys |-> 3]
=============================================================================
