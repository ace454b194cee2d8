--------------------------- MODULE MCRoutePolicy ---------------------------
(***************************************************************************)
(* Instances of RoutePolicy for TLC.                                       *)
(***************************************************************************)
EXTENDS RoutePolicy

CONSTANTS s1, s2, s3, a, b, c

Repos == {<<a>>, <<a, b>>, <<a, b, c>>, <<b>>, <<b, c>>}

Patterns == [path : {<<a>>, <<a, b>>}, tail : BOOLEAN] \cup {[path |-> <<>>, tail |-> TRUE]}

Route(p, precedence, pull, authoritative, fallback, push, denied) ==
    [path |-> p.path, tail |-> p.tail, precedence |-> precedence, pull |-> pull,
     authoritative |-> authoritative, fallback |-> fallback, push |-> push, denied |-> denied]

\* Every pattern at two precedences, with sources that are not all configured.
MixedRoutes ==
    {Route(p, n, pull, auth, fb, None, FALSE) : p \in Patterns, n \in {10, 20},
        pull \in {<<s1, s2>>, <<s2, s1>>}, auth \in {None, s1}, fb \in BOOLEAN}
    \cup {Route(p, 10, pull, auth, FALSE, push, d) : p \in Patterns, pull \in {<<s2>>, <<s2, s3>>},
        auth \in {None, s1, s3}, push \in {None, s1, s3}, d \in BOOLEAN}

\* The patterns alone.
PatternRoutes == {Route(p, n, <<s1>>, None, FALSE, None, FALSE) : p \in Patterns, n \in {10, 20}}

=============================================================================
