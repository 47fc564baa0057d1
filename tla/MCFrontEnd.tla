----------------------------- MODULE MCFrontEnd -----------------------------
(* An instance of the front end for TLC. *)
EXTENDS FrontEnd

\* The prefixes "", "/", "/a", "/a/", "/ab" and "/a/b".
SomePrefixes ==
    {<<>>, <<"/">>, <<"/", "a">>, <<"/", "a", "/">>, <<"/", "a", "b">>,
     <<"/", "a", "/", "b">>}

\* Paths at, under and beside them, some with a query, and the path "*".
SomePaths ==
    {<<"/">>, <<"/", "a">>, <<"/", "a", "/">>, <<"/", "a", "b">>, <<"/", "b">>,
     <<"/", "a", "/", "b">>, <<"/", "a", "?", "b">>, <<"/", "a", "/", "b", "/">>,
     <<"/", "a", "?", "/", "b">>, <<"*">>}

\* Two spellings of Host, and the sticky header.
Lower ==
    [n \in {"Host", "HOST", "X-Session-Id"} |-> IF n = "HOST" THEN "Host" ELSE n]

\* Request lines with all, with enough and with too few words; headers; a line
\* without a colon; the empty line.  A request line has no colon here.
SomeLines ==
    UNION {{Line(<<"GET", <<"/", "a">>, "HTTP/1.1">>, <<>>, e),
            Line(<<"GET">>, <<>>, e),
            Line(<<"Host:", <<"h1">>>>, <<"Host", "h1">>, e),
            Line(<<"HOST:", <<"h2">>>>, <<"HOST", "h2">>, e),
            Line(<<"X-Session-Id:", <<"k1">>>>, <<"X-Session-Id", "k1">>, e),
            Line(<<"X-Session-Id:", <<"k2">>>>, <<"X-Session-Id", "k2">>, e),
            EmptyLine(e)} : e \in {"CRLF", "LF"}}

\* A table that tells hosts apart.
OneTable ==
    {<<[host |-> NoHost, path_prefix |-> <<"/">>, service |-> "s1"],
       [host |-> "h2", path_prefix |-> <<"/", "a">>, service |-> "s2"],
       [host |-> "h1", path_prefix |-> <<"/", "a">>, service |-> "s1"]>>}
=============================================================================
