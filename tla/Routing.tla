------------------------------ MODULE Routing ------------------------------
(***************************************************************************)
(* Route selection (routing.rs).  A path is a sequence of characters, with *)
(* a percent-encoded character kept as one element: Decode maps the        *)
(* encoded elements to the characters they stand for, and Undecodable      *)
(* holds the elements percent-decoding rejects.  Every character counts as *)
(* one byte.  Operators that can fail answer None.                         *)
(***************************************************************************)
EXTENDS Integers, Sequences, FiniteSetsExt, Text

CONSTANTS Decode,       \* function: encoded element -> character
          Undecodable   \* elements of an invalid percent-encoding

DecodeElement(c) == IF c \in DOMAIN Decode THEN Decode[c] ELSE c

Occurrences(path, c) == Cardinality({i \in DOMAIN path : path[i] = c})

\* str::split('/'): the maximal runs without a slash.
Segments(path) ==
    LET cuts == {0, Len(path) + 1} \cup {i \in DOMAIN path : path[i] = "/"}
        next(i) == Min({j \in cuts : j > i})
    IN  {SubSeq(path, i + 1, next(i) - 1) : i \in cuts \ {Len(path) + 1}}

DotSegment(decoded) == Segments(decoded) \cap {<<".">>, <<".", ".">>} # {}

EncodedDelimiter(raw, decoded) ==
    \/ Range(raw) \cap DOMAIN Decode # {} /\ "\\" \in Range(decoded)
    \/ Occurrences(decoded, "/") > Occurrences(raw, "/")

CanonicalRequestPath(path) ==
    LET decoded == [i \in DOMAIN path |-> DecodeElement(path[i])]
    IN  IF /\ path # <<>> /\ path[1] = "/"
           /\ Range(path) \cap Undecodable = {}
           /\ ~EncodedDelimiter(path, decoded)
           /\ ~DotSegment(decoded)
        THEN Some(decoded)
        ELSE None

\* str::strip_prefix succeeds; str::ends_with('/')
StartsWith(path, prefix) ==
    Len(prefix) <= Len(path) /\ SubSeq(path, 1, Len(prefix)) = prefix
EndsInSlash(path) == path[Len(path)] = "/"

\* Mutated: a plain string prefix.
PrefixMatchesAnywhere(path, prefix) == StartsWith(path, prefix)

\* A prefix matches at a segment boundary only.
PrefixMatches(path, prefix) ==
    \/ path = prefix
    \/ StartsWith(path, prefix) /\ (EndsInSlash(prefix) \/ path[Len(prefix) + 1] = "/")

\* Mutated: the suffix is glued on without a separator.
RewritePrefixGlued(path, local, upstream) ==
    upstream \o SubSeq(path, Len(local) + 1, Len(path))

RewritePrefix(path, local, upstream) ==
    LET suffix == SubSeq(path, Len(local) + 1, Len(path))
    IN  IF suffix = <<>> \/ EndsInSlash(upstream) \/ suffix[1] = "/"
        THEN upstream \o suffix
        ELSE upstream \o <<"/">> \o suffix

-----------------------------------------------------------------------------
\* Mutated: a later route of the same length replaces the earlier one.
LongestLast(prefixes) ==
    {i \in DOMAIN prefixes : \A j \in DOMAIN prefixes :
        \/ Len(prefixes[j]) < Len(prefixes[i])
        \/ Len(prefixes[j]) = Len(prefixes[i]) /\ j <= i}

\* The loop replaces its best match by a strictly longer one only: it ends
\* with the first of the longest prefixes, or with none.
Longest(prefixes) ==
    {i \in DOMAIN prefixes : \A j \in DOMAIN prefixes :
        \/ Len(prefixes[j]) < Len(prefixes[i])
        \/ Len(prefixes[j]) = Len(prefixes[i]) /\ i <= j}

RouteMatchesClientIdentity(route, identity) ==
    \E allowed \in route.client_identity \cup route.client_identities :
        Trim(allowed) = Trim(identity)

(* find_server_route.  A route whose own prefix does not decode fails the  *)
(* whole search as soon as its method and identity match.                  *)
FindServerRoute(routes, method, path, identity) ==
    LET considered == {i \in DOMAIN routes :
                          /\ method \in routes[i].methods
                          /\ RouteMatchesClientIdentity(routes[i], identity)
                          /\ routes[i].upstream_prefix # None}
        canonical == CanonicalRequestPath(path)
        prefix(i) == CanonicalRequestPath(The(routes[i].upstream_prefix))
        matching == {i \in considered : PrefixMatches(The(canonical), The(prefix(i)))}
        best == Longest([i \in matching |-> The(prefix(i))])
    IN  IF \/ canonical = None
           \/ \E i \in considered : prefix(i) = None
        THEN None
        ELSE {[route |-> routes[i], upstream_path |-> The(canonical)] : i \in best}

(* find_client_route.  Without an upstream prefix the local one is kept.   *)
FindClientRoute(routes, method, path) ==
    LET considered == {i \in DOMAIN routes :
                          method \in routes[i].methods /\ routes[i].local_prefix # None}
        canonical == CanonicalRequestPath(path)
        local(i) == CanonicalRequestPath(The(routes[i].local_prefix))
        upstream(i) == IF routes[i].upstream_prefix = None THEN local(i)
                       ELSE CanonicalRequestPath(The(routes[i].upstream_prefix))
        matching == {i \in considered : PrefixMatches(The(canonical), The(local(i)))}
        best == Longest([i \in matching |-> The(local(i))])
    IN  IF \/ canonical = None
           \/ \E i \in considered : local(i) = None
           \/ \E i \in matching : upstream(i) = None
        THEN None
        ELSE {[route |-> routes[i],
               upstream_path |-> RewritePrefix(The(canonical), The(local(i)),
                                               The(upstream(i)))] : i \in best}
=============================================================================
