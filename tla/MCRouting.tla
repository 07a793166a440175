------------------------------ MODULE MCRouting ------------------------------
(***************************************************************************)
(* Every short path against pairs of routes whose prefixes contain, repeat *)
(* or miss each other.                                                     *)
(***************************************************************************)
EXTENDS RouteSearch, SequencesExt

CONSTANT MaxLength  \* longest request path

MCPadded == (" a" :> "a")
MCDecode == ("%61" :> "a" @@ "%2F" :> "/" @@ "%2E" :> "." @@ "%5C" :> "\\")

RoutePrefixes == {<<"/">>, <<"/", "a">>, <<"/", "a", "/">>, <<"/", "a", "b">>,
                  <<"/", "%61", "/", "b">>}
Upstreams == {<<"/", "b">>, <<"/", "%61", "/">>}

MCRouteTables ==
    {<<[prefix |-> p, upstream |-> u], [prefix |-> q, upstream |-> u]>> :
        p \in RoutePrefixes, q \in RoutePrefixes, u \in Upstreams}
MCPaths == {<<"/">> \o s : s \in BoundedSeq(Elements, MaxLength - 1)}
=============================================================================
