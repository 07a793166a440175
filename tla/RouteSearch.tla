---------------------------- MODULE RouteSearch ----------------------------
(***************************************************************************)
(* One request path meets a route table: Search runs the search of the     *)
(* server connector and that of the client connector (routing.rs).  The    *)
(* reference beside it compares segments, not strings.                     *)
(***************************************************************************)
EXTENDS Routing

CONSTANTS Elements,     \* what paths and prefixes are made of
          RouteTables,  \* sequences of routes: [prefix, upstream]
          Paths         \* request paths

VARIABLES table,        \* the configured routes
          asked,        \* the path of the request
          server_match, \* what the two searches answer, Pending before
          client_match

search_vars == <<table, asked, server_match, client_match>>

\* Validation lets no other prefix pass (validate_route_prefix); a slash is
\* not a percent-encoded character, and a blank is trimmed.
ASSUME SearchAssumption ==
    /\ Trim(" a") = Trim("a")
    /\ "/" \in Elements /\ "/" \notin DOMAIN Decode
    /\ \A p \in Paths : p \in Seq(Elements)
    /\ \A t \in RouteTables :
          /\ t \in Seq([prefix : Seq(Elements), upstream : Seq(Elements)])
          /\ \A i \in DOMAIN t : /\ CanonicalRequestPath(t[i].prefix) # None
                                 /\ CanonicalRequestPath(t[i].upstream) # None

Pending == Some([upstream_path |-> <<>>])

\* The same prefix serves as the local and as the matched prefix.
ServerRoutes(t) == [i \in DOMAIN t |->
    [id |-> i, methods |-> {"GET"}, upstream_prefix |-> Some(t[i].prefix),
     client_identity |-> Some(" a"), client_identities |-> {}]]
ClientRoutes(t) == [i \in DOMAIN t |->
    [id |-> i, methods |-> {"GET"}, local_prefix |-> Some(t[i].prefix),
     upstream_prefix |-> Some(t[i].upstream)]]

SearchInit ==
    /\ table \in RouteTables
    /\ asked \in Paths
    /\ server_match = Pending
    /\ client_match = Pending

Search ==
    /\ server_match = Pending
    /\ server_match' = FindServerRoute(ServerRoutes(table), "GET", asked, "a")
    /\ client_match' = FindClientRoute(ClientRoutes(table), "GET", asked)
    /\ UNCHANGED <<table, asked>>

SearchSpec == SearchInit /\ [][Search]_search_vars

-----------------------------------------------------------------------------
Decoded(p) == [i \in DOMAIN p |-> DecodeElement(p[i])]

\* Reference: the positions before a slash or the end, and the run without a
\* slash that leads up to one of them.
Ends(p) == {e \in 0..Len(p) : e = Len(p) \/ p[e + 1] = "/"}
Start(p, e) ==
    CHOOSE i \in 1..(e + 1) : /\ i = 1 \/ p[i - 1] = "/"
                              /\ \A k \in i..e : p[k] # "/"
Segment(p, e) == SubSeq(p, Start(p, e), e)

\* The n-th number of S in ascending order.
Rank(S, x) == Cardinality({y \in S : y <= x})
Nth(S, n) == CHOOSE x \in S : Rank(S, x) = n
InOrder(p, E) == [n \in 1..Cardinality(E) |-> Segment(p, Nth(E, n))]

\* Reference: the segments of a path in their order, and those with a name.
SegmentSeq(p) == InOrder(p, Ends(p))
Named(p) == InOrder(p, {e \in Ends(p) : e # 0 /\ p[e] # "/"})

\* Reference: a path is acceptable when it starts with a slash and decodes,
\* and decoding neither adds a segment nor produces a backslash or a segment
\* that means another directory.
Acceptable(p) ==
    /\ p # <<>> /\ p[1] = "/"
    /\ Range(p) \cap Undecodable = {}
    /\ Range(p) \cap DOMAIN Decode # {} => "\\" \notin Range(Decoded(p))
    /\ Len(SegmentSeq(Decoded(p))) = Len(SegmentSeq(p))
    /\ Range(SegmentSeq(Decoded(p))) \cap {<<".">>, <<".", ".">>} = {}

\* Reference: the segments of the prefix are the first segments of the path;
\* the empty one after a trailing slash covers whatever the path has there.
Covers(prefix, p) ==
    LET covering == SegmentSeq(prefix)
        covered == SegmentSeq(p)
    IN  /\ Len(covering) <= Len(covered)
        /\ \A n \in 1..Len(covering) :
              covered[n] = covering[n] \/ (n = Len(covering) /\ covering[n] = <<>>)
CoversAsked(i) == Covers(Decoded(table[i].prefix), Decoded(asked))

Searched == server_match # Pending

(* A request is routed (routing.rs:52) exactly when its path is acceptable *)
(* and some route covers it segment by segment, and never by a prefix that *)
(* ends inside a segment.                                                  *)
RoutedWhenCovered ==
    Searched =>
        LET routable == Acceptable(asked) /\ \E i \in DOMAIN table : CoversAsked(i)
        IN  /\ (server_match # None) <=> routable
            /\ (client_match # None) <=> routable

(* The route chosen covers the path, every other route that covers it has  *)
(* a prefix of the chosen prefix, and of equal prefixes the first in the   *)
(* configuration wins, whatever the order of the routes.                   *)
MostSpecificRouteWins ==
    Searched => \A match \in {server_match, client_match} : \A m \in match :
        LET chosen == Decoded(table[m.route.id].prefix)
        IN  /\ CoversAsked(m.route.id)
            /\ \A i \in DOMAIN table :
                  CoversAsked(i) =>
                     /\ StartsWith(chosen, Decoded(table[i].prefix))
                     /\ Decoded(table[i].prefix) = chosen => m.route.id <= i

(* The path client mode sends on (routing.rs:176) is matched by the        *)
(* upstream prefix, which is the prefix the server connector matches, and  *)
(* keeps exactly the segments that followed the local prefix.              *)
RewriteLandsUnderUpstream ==
    Searched => \A m \in client_match :
        LET route == table[m.route.id]
            names == Named(Decoded(asked))
            kept == SubSeq(names, Len(Named(Decoded(route.prefix))) + 1, Len(names))
        IN  /\ Covers(Decoded(route.upstream), m.upstream_path)
            /\ Named(m.upstream_path) = Named(Decoded(route.upstream)) \o kept

(* What was searched, and where.                                           *)
SearchInv ==
    /\ table \in RouteTables /\ asked \in Paths
    /\ Searched => /\ server_match = FindServerRoute(ServerRoutes(table), "GET", asked, "a")
                   /\ client_match = FindClientRoute(ClientRoutes(table), "GET", asked)
=============================================================================
