--------------------------- MODULE Routing_proofs ---------------------------
(***************************************************************************)
(* Proofs about the path functions and the route searches of routing.rs,   *)
(* for paths, prefixes and route tables of any length.  The first part     *)
(* says which route a search answers with and where a rewritten path       *)
(* lands, in the terms of the code: first and longest matching prefixes.   *)
(* The second part compares that with the reference of RouteSearch, which  *)
(* cuts paths into segments: prefix_matches covers segment by segment,     *)
(* canonical_request_path accepts what the reference accepts, and both     *)
(* searches answer with the best cover.  What a search answers is the same *)
(* in every state of RouteSearch, so the theorems about SearchSpec rest on *)
(* these lemmas and a small invariant.                                     *)
(***************************************************************************)
EXTENDS RouteSearch, FiniteSetTheorems, WellFoundedInduction, TLAPS

(* A set of positions that is not empty has a first one.                   *)
LEMMA LeastElement ==
    ASSUME NEW S \in SUBSET Nat, S # {}
    PROVE  \E x \in S : \A y \in S : x <= y
<1> DEFINE R == {ss \in Nat \X Nat : ss[1] < ss[2]}
<1>1. IsWellFoundedOn(R, Nat)
  BY NatLessThanWellFounded DEF OpToRel
<1>2. \A x, y \in Nat : y < x => <<y, x>> \in R
  OBVIOUS
<1> HIDE DEF R
<1>3. PICK x \in S : \A y \in S : <<y, x>> \notin R
  BY <1>1, WFMin, Zenon
<1>4. ASSUME NEW y \in S PROVE x <= y
  <2>1. x \in Nat /\ y \in Nat
    OBVIOUS
  <2>2. ~(y < x)
    BY <1>2, <1>3, <2>1, Zenon
  <2>3. QED
    BY <2>1, <2>2
<1>5. QED
  BY <1>4

(* str::strip_prefix on sequences: the prefix agrees with the path as far  *)
(* as it goes.                                                             *)
LEMMA StartsWithMeaning ==
    ASSUME NEW T, NEW s \in Seq(T), NEW p \in Seq(T)
    PROVE  StartsWith(s, p) <=> Len(p) <= Len(s) /\ \A n \in 1..Len(p) : s[n] = p[n]
<1>1. ASSUME Len(p) <= Len(s)
      PROVE  SubSeq(s, 1, Len(p)) = p <=> \A n \in 1..Len(p) : s[n] = p[n]
  <2>1. /\ SubSeq(s, 1, Len(p)) \in Seq(T)
        /\ Len(SubSeq(s, 1, Len(p))) = Len(p)
        /\ \A n \in 1..Len(p) : SubSeq(s, 1, Len(p))[n] = s[n]
    BY <1>1
  <2>2. ASSUME \A n \in 1..Len(p) : s[n] = p[n] PROVE SubSeq(s, 1, Len(p)) = p
    BY <2>1, <2>2
  <2>3. QED
    BY <2>1, <2>2
<1>2. QED
  BY <1>1 DEF StartsWith

(* A prefix that matches is an initial part of the path (routing.rs).      *)
LEMMA MatchedStartsWith ==
    ASSUME NEW T, NEW s \in Seq(T), NEW p \in Seq(T), PrefixMatches(s, p)
    PROVE  StartsWith(s, p)
  BY StartsWithMeaning DEF PrefixMatches

(* The loop of find_server_route and find_client_route (routing.rs): of    *)
(* prefixes that all match one path it keeps exactly one, of which every   *)
(* other one is an initial part; among equal ones it keeps the first.      *)
LEMMA LongestMeaning ==
    ASSUME NEW T, NEW whole \in Seq(T), NEW I \in SUBSET Nat, NEW f \in [I -> Seq(T)],
           \A i \in I : StartsWith(whole, f[i])
    PROVE  /\ I # {} => Longest(f) # {}
           /\ \A i, j \in Longest(f) : i = j
           /\ \A i \in Longest(f) : i \in I /\ \A j \in I :
                 StartsWith(f[i], f[j]) /\ (f[j] = f[i] => i <= j)
<1>0. \A i \in I : i \in Nat /\ f[i] \in Seq(T) /\ Len(f[i]) \in Nat /\ Len(f[i]) <= Len(whole)
  BY StartsWithMeaning
<1>1. ASSUME I # {} PROVE Longest(f) # {}
  <2> DEFINE Gaps == {Len(whole) - Len(f[i]) : i \in I}
  <2>1. Gaps \in SUBSET Nat /\ Gaps # {}
    <3>1. Len(whole) \in Nat
      OBVIOUS
    <3>2. \A i \in I : Len(whole) - Len(f[i]) \in Nat
      BY <1>0, <3>1
    <3>3. QED
      BY <1>1, <3>2, Zenon
  <2>2. PICK d \in Gaps : \A e \in Gaps : d <= e
    BY <2>1, LeastElement, Zenon
  <2> DEFINE J == {i \in I : Len(whole) - Len(f[i]) = d}
  <2>3. J \in SUBSET Nat /\ J # {}
    BY <2>2, Zenon
  <2> HIDE DEF J
  <2>4. PICK i \in J : \A j \in J : i <= j
    BY <2>3, LeastElement, Zenon
  <2>5. i \in I /\ Len(whole) - Len(f[i]) = d
    BY <2>4 DEF J
  <2>6. ASSUME NEW j \in I PROVE Len(f[j]) < Len(f[i]) \/ (Len(f[j]) = Len(f[i]) /\ i <= j)
    <3>1. d <= Len(whole) - Len(f[j])
      BY <2>2
    <3>2. CASE Len(whole) - Len(f[j]) = d
      BY <3>2, <2>4, <2>5, <1>0 DEF J
    <3>3. CASE Len(whole) - Len(f[j]) # d
      BY <3>1, <3>3, <2>5, <1>0
    <3>4. QED
      BY <3>2, <3>3
  <2>7. i \in Longest(f)
    BY <2>5, <2>6 DEF Longest
  <2>8. QED
    BY <2>7
<1>2. \A i, j \in Longest(f) : i = j
  BY <1>0 DEF Longest
<1>3. ASSUME NEW i \in Longest(f), NEW j \in I
      PROVE  StartsWith(f[i], f[j]) /\ (f[j] = f[i] => i <= j)
  <2>1. i \in I /\ Len(f[j]) <= Len(f[i])
    BY <1>0, <1>3 DEF Longest
  <2>2. \A n \in 1..Len(f[j]) : f[i][n] = f[j][n]
    <3>1. \A n \in 1..Len(f[j]) : whole[n] = f[j][n]
      BY <1>0, StartsWithMeaning
    <3>2. \A n \in 1..Len(f[i]) : whole[n] = f[i][n]
      BY <2>1, <1>0, StartsWithMeaning
    <3>3. QED
      BY <3>1, <3>2, <2>1, <1>0
  <2>3. StartsWith(f[i], f[j])
    BY <2>1, <2>2, <1>0, StartsWithMeaning
  <2>4. f[j] = f[i] => i <= j
    BY <1>0, <1>3, <2>1 DEF Longest
  <2>5. QED
    BY <2>3, <2>4
<1>4. QED
  BY <1>1, <1>2, <1>3 DEF Longest

(* A path that percent-decodes is a sequence of its decoded characters,    *)
(* and one path decodes in one way only.                                   *)
LEMMA CanonicalMeaning ==
    ASSUME NEW S, NEW p \in Seq(S), CanonicalRequestPath(p) # None
    PROVE  LET c == The(CanonicalRequestPath(p))
           IN  /\ CanonicalRequestPath(p) = Some(c)
               /\ c \in Seq({DecodeElement(e) : e \in S}) /\ Len(c) = Len(p) /\ c # <<>>
<1> DEFINE T == {DecodeElement(e) : e \in S}
           c == [n \in DOMAIN p |-> DecodeElement(p[n])]
<1>1. CanonicalRequestPath(p) = Some(c) /\ p # <<>>
  BY DEF CanonicalRequestPath, None
<1>2. The(CanonicalRequestPath(p)) = c
  BY <1>1 DEF The, Some
<1>3. Len(p) \in Nat /\ DOMAIN p = 1..Len(p) /\ \A n \in 1..Len(p) : DecodeElement(p[n]) \in T
  OBVIOUS
<1>4. c \in Seq(T) /\ Len(c) = Len(p)
  BY <1>3
<1>5. c # <<>>
  BY <1>1, <1>3, <1>4
<1>6. QED
  BY <1>1, <1>2, <1>4, <1>5

\* The routes find_server_route looks at, and those whose prefix matches.
ServerConsidered(routes, method, id) ==
    {i \in DOMAIN routes : /\ method \in routes[i].methods
                           /\ RouteMatchesClientIdentity(routes[i], id)
                           /\ routes[i].upstream_prefix # None}
ServerPrefix(r) == CanonicalRequestPath(The(r.upstream_prefix))
ServerMatching(routes, method, path, id) ==
    {i \in ServerConsidered(routes, method, id) :
        PrefixMatches(The(CanonicalRequestPath(path)), The(ServerPrefix(routes[i])))}

(* find_server_route (routing.rs) answers whenever the path and all the    *)
(* prefixes decode and some route matches, and then with one route: the    *)
(* prefix of every other matching route is an initial part of its prefix,  *)
(* and among routes with the same prefix it is the first.                  *)
THEOREM ServerRouteIsMostSpecific ==
    ASSUME NEW S, NEW path \in Seq(S), NEW R, NEW routes \in Seq(R), NEW method, NEW id,
           \A i \in DOMAIN routes : \A p \in routes[i].upstream_prefix : p \in Seq(S)
    PROVE  LET found == FindServerRoute(routes, method, path, id)
               matching == ServerMatching(routes, method, path, id)
               prefix(i) == The(ServerPrefix(routes[i]))
           IN  /\ found # None <=>
                    /\ CanonicalRequestPath(path) # None
                    /\ \A i \in ServerConsidered(routes, method, id) : ServerPrefix(routes[i]) # None
                    /\ matching # {}
               /\ \A m, o \in found : m = o
               /\ \A m \in found : \E i \in matching :
                    /\ m = [route |-> routes[i], upstream_path |-> The(CanonicalRequestPath(path))]
                    /\ \A j \in matching : /\ StartsWith(prefix(i), prefix(j))
                                           /\ prefix(j) = prefix(i) => i <= j
<1> DEFINE found == FindServerRoute(routes, method, path, id)
           considered == ServerConsidered(routes, method, id)
           matching == ServerMatching(routes, method, path, id)
           prefix(i) == The(ServerPrefix(routes[i]))
           whole == The(CanonicalRequestPath(path))
           f == [i \in matching |-> prefix(i)]
           T == {DecodeElement(e) : e \in S}
           decodes == /\ CanonicalRequestPath(path) # None
                      /\ \A i \in considered : ServerPrefix(routes[i]) # None
           match(i) == [route |-> routes[i], upstream_path |-> whole]
<1>1. found = IF decodes THEN {match(i) : i \in Longest(f)} ELSE None
  BY DEF FindServerRoute, ServerMatching, ServerConsidered, ServerPrefix
<1>2. CASE ~decodes
  BY <1>1, <1>2 DEF None
<1>3. CASE decodes
  <2>1. whole \in Seq(T)
    BY <1>3, CanonicalMeaning
  <2>2. matching \in SUBSET Nat /\ matching \subseteq considered
    <3>1. DOMAIN routes = 1..Len(routes) /\ Len(routes) \in Nat
      OBVIOUS
    <3>2. matching \subseteq considered
      BY DEF ServerMatching
    <3>3. considered \subseteq DOMAIN routes
      BY DEF ServerConsidered
    <3> HIDE DEF matching, considered
    <3>4. QED
      BY <3>1, <3>2, <3>3
  <2>3. \A i \in considered : prefix(i) \in Seq(T)
    <3> SUFFICES ASSUME NEW i \in considered PROVE prefix(i) \in Seq(T)
      BY Zenon
    <3>1. The(routes[i].upstream_prefix) \in Seq(S)
      BY DEF ServerConsidered, The, None
    <3>2. CanonicalRequestPath(The(routes[i].upstream_prefix)) # None
      BY <1>3 DEF ServerPrefix
    <3>3. QED
      BY <3>1, <3>2, CanonicalMeaning DEF ServerPrefix
  <2>4. \A i \in matching : StartsWith(whole, prefix(i))
    <3> SUFFICES ASSUME NEW i \in matching PROVE StartsWith(whole, prefix(i))
      OBVIOUS
    <3>1. PrefixMatches(whole, prefix(i)) /\ prefix(i) \in Seq(T)
      BY <2>2, <2>3 DEF ServerMatching
    <3>2. QED
      BY <2>1, <3>1, MatchedStartsWith
  <2>5. f \in [matching -> Seq(T)] /\ \A i \in matching : f[i] = prefix(i)
    BY <2>2, <2>3, Zenon
  <2>6. \A i \in matching : StartsWith(whole, f[i])
    BY <2>4, <2>5
  <2> HIDE DEF found, considered, matching, prefix, whole, f, T, decodes, match
  <2>7. /\ matching # {} => Longest(f) # {}
        /\ \A i, j \in Longest(f) : i = j
        /\ \A i \in Longest(f) : i \in matching /\ \A j \in matching :
              StartsWith(f[i], f[j]) /\ (f[j] = f[i] => i <= j)
    BY <2>1, <2>2, <2>5, <2>6, LongestMeaning, Zenon
  <2>8. found = {match(i) : i \in Longest(f)}
    BY <1>1, <1>3
  <2>9. found # None <=> matching # {}
    BY <2>7, <2>8, Zenon DEF None
  <2>10. \A m, o \in found : m = o
    BY <2>7, <2>8, Zenon
  <2>11. \A m \in found : \E i \in matching :
            /\ m = match(i)
            /\ \A j \in matching : StartsWith(prefix(i), prefix(j)) /\ (prefix(j) = prefix(i) => i <= j)
    <3> SUFFICES ASSUME NEW m \in found
                 PROVE  \E i \in matching : m = match(i) /\ \A j \in matching :
                           StartsWith(prefix(i), prefix(j)) /\ (prefix(j) = prefix(i) => i <= j)
      BY Zenon
    <3>1. PICK i \in Longest(f) : m = match(i)
      BY <2>8, Zenon
    <3>2. i \in matching
      BY <2>7
    <3>3. ASSUME NEW j \in matching
          PROVE  StartsWith(prefix(i), prefix(j)) /\ (prefix(j) = prefix(i) => i <= j)
      <4>1. f[i] = prefix(i) /\ f[j] = prefix(j)
        BY <2>5, <3>2
      <4>2. StartsWith(f[i], f[j]) /\ (f[j] = f[i] => i <= j)
        BY <2>7
      <4>3. QED
        BY <4>1, <4>2
    <3>4. QED
      BY <3>1, <3>2, <3>3, Zenon
  <2>12. QED
    BY <1>3, <2>9, <2>10, <2>11
       DEF found, considered, matching, prefix, whole, decodes, match
<1>4. QED
  BY <1>2, <1>3

\* What ServerRouteIsMostSpecific says of one search.
MostSpecificAnswer(routes, method, path, id) ==
    LET found == FindServerRoute(routes, method, path, id)
        matching == ServerMatching(routes, method, path, id)
        prefix(i) == The(ServerPrefix(routes[i]))
    IN  /\ found # None <=>
             /\ CanonicalRequestPath(path) # None
             /\ \A i \in ServerConsidered(routes, method, id) : ServerPrefix(routes[i]) # None
             /\ matching # {}
        /\ \A m \in found : \E i \in matching :
             /\ m = [route |-> routes[i], upstream_path |-> The(CanonicalRequestPath(path))]
             /\ \A j \in matching : StartsWith(prefix(i), prefix(j)) /\ (prefix(j) = prefix(i) => i <= j)

(* The answer of find_server_route to one search, as one predicate.        *)
LEMMA ServerSearchAnswer ==
    ASSUME NEW S, NEW path \in Seq(S), NEW R, NEW routes \in Seq(R), NEW method, NEW id,
           \A i \in DOMAIN routes : \A p \in routes[i].upstream_prefix : p \in Seq(S)
    PROVE  MostSpecificAnswer(routes, method, path, id)
  BY ServerRouteIsMostSpecific DEF MostSpecificAnswer

(* rewrite_prefix (routing.rs): the new path is matched by the upstream    *)
(* prefix, and what follows the prefix is what followed the local one,     *)
(* behind a slash that separates the two if neither side has one.          *)
LEMMA RewriteIsMatched ==
    ASSUME NEW T, "/" \in T, NEW s \in Seq(T), NEW local \in Seq(T), NEW upstream \in Seq(T),
           upstream # <<>>, StartsWith(s, local)
    PROVE  LET suffix == SubSeq(s, Len(local) + 1, Len(s))
           IN  /\ PrefixMatches(RewritePrefix(s, local, upstream), upstream)
               /\ s = local \o suffix
               /\ RewritePrefix(s, local, upstream)
                    \in {upstream \o suffix, upstream \o <<"/">> \o suffix}
<1> DEFINE suffix == SubSeq(s, Len(local) + 1, Len(s))
           new == RewritePrefix(s, local, upstream)
<1>1. /\ Len(local) \in Nat /\ Len(s) \in Nat /\ Len(local) <= Len(s)
      /\ \A n \in 1..Len(local) : s[n] = local[n]
  BY StartsWithMeaning
<1>2. /\ suffix \in Seq(T) /\ Len(suffix) = Len(s) - Len(local)
      /\ \A n \in 1..Len(suffix) : suffix[n] = s[Len(local) + n]
  BY <1>1
<1> HIDE DEF suffix
<1>3. s = local \o suffix
  <2> DEFINE both == local \o suffix
  <2>1. both \in Seq(T) /\ Len(both) = Len(s)
    BY <1>1, <1>2
  <2>2. ASSUME NEW n \in 1..Len(s) PROVE s[n] = both[n]
    <3>1. CASE n <= Len(local)
      <4>1. both[n] = local[n]
        BY <1>1, <1>2, <3>1
      <4>2. QED
        BY <1>1, <3>1, <4>1
    <3>2. CASE n > Len(local)
      <4>1. both[n] = suffix[n - Len(local)] /\ n - Len(local) \in 1..Len(suffix)
        BY <1>1, <1>2, <3>2
      <4>2. suffix[n - Len(local)] = s[Len(local) + (n - Len(local))]
        BY <1>2, <4>1
      <4>3. QED
        BY <1>1, <4>1, <4>2
    <3> HIDE DEF both
    <3>3. n <= Len(local) \/ n > Len(local)
      BY <1>1
    <3>4. QED
      BY <3>1, <3>2, <3>3
  <2> HIDE DEF both
  <2>3. s = both
    BY <2>1, <2>2
  <2>4. QED
    BY <2>3 DEF both
<1>4. ASSUME NEW t \in Seq(T)
      PROVE  /\ upstream \o t \in Seq(T) /\ StartsWith(upstream \o t, upstream)
             /\ t # <<>> => (upstream \o t)[Len(upstream) + 1] = t[1]
  <2> DEFINE both == upstream \o t
  <2>1. /\ both \in Seq(T) /\ Len(upstream) <= Len(both)
        /\ \A n \in 1..Len(upstream) : both[n] = upstream[n]
    OBVIOUS
  <2>2. StartsWith(both, upstream)
    <3> HIDE DEF both
    <3>1. QED
      BY <2>1, StartsWithMeaning
  <2>3. t # <<>> => (upstream \o t)[Len(upstream) + 1] = t[1]
    OBVIOUS
  <2>4. QED
    BY <2>1, <2>2, <2>3
<1>5. CASE suffix = <<>>
  <2>1. new = upstream \o suffix
    BY <1>5 DEF RewritePrefix, suffix
  <2>2. upstream \o suffix = upstream
    BY <1>5
  <2>3. QED
    BY <1>3, <2>1, <2>2 DEF PrefixMatches, suffix
<1>6. CASE suffix # <<>> /\ (EndsInSlash(upstream) \/ suffix[1] = "/")
  <2>1. new = upstream \o suffix
    BY <1>6, Zenon DEF RewritePrefix, suffix
  <2>2. PrefixMatches(new, upstream)
    BY <1>2, <1>4, <1>6, <2>1 DEF PrefixMatches
  <2>3. QED
    BY <1>3, <2>1, <2>2 DEF suffix
<1>7. CASE suffix # <<>> /\ ~EndsInSlash(upstream) /\ suffix[1] # "/"
  <2>1. new = upstream \o <<"/">> \o suffix
    BY <1>7, Zenon DEF RewritePrefix, suffix
  <2>2. /\ <<"/">> \o suffix \in Seq(T) /\ <<"/">> \o suffix # <<>>
        /\ (<<"/">> \o suffix)[1] = "/"
    BY <1>2
  <2>3. upstream \o <<"/">> \o suffix = upstream \o (<<"/">> \o suffix)
    BY <1>2
  <2>4. PrefixMatches(upstream \o (<<"/">> \o suffix), upstream)
    BY <1>4, <2>2, Zenon DEF PrefixMatches
  <2>5. QED
    BY <1>3, <2>1, <2>3, <2>4, Zenon DEF suffix
<1>8. QED
  BY <1>5, <1>6, <1>7, Zenon

\* The routes find_client_route looks at, and those whose prefix matches.
ClientConsidered(routes, method) ==
    {i \in DOMAIN routes : method \in routes[i].methods /\ routes[i].local_prefix # None}
LocalPrefix(r) == CanonicalRequestPath(The(r.local_prefix))
UpstreamPrefix(r) ==
    IF r.upstream_prefix = None THEN LocalPrefix(r) ELSE CanonicalRequestPath(The(r.upstream_prefix))
ClientMatching(routes, method, path) ==
    {i \in ClientConsidered(routes, method) :
        PrefixMatches(The(CanonicalRequestPath(path)), The(LocalPrefix(routes[i])))}

(* find_client_route (routing.rs) chooses among its routes like            *)
(* find_server_route, and the path it hands on lies under the upstream     *)
(* prefix of the chosen route: behind the prefix, and perhaps a slash,     *)
(* comes exactly what followed the local prefix.                           *)
THEOREM ClientRouteIsMostSpecific ==
    ASSUME NEW S, "/" \in S, "/" \notin DOMAIN Decode,
           NEW path \in Seq(S), NEW R, NEW routes \in Seq(R), NEW method,
           \A i \in DOMAIN routes :
               \A p \in routes[i].local_prefix \cup routes[i].upstream_prefix : p \in Seq(S)
    PROVE  LET found == FindClientRoute(routes, method, path)
               matching == ClientMatching(routes, method, path)
               local(i) == The(LocalPrefix(routes[i]))
               upstream(i) == The(UpstreamPrefix(routes[i]))
           IN  /\ found # None <=>
                    /\ CanonicalRequestPath(path) # None
                    /\ \A i \in ClientConsidered(routes, method) : LocalPrefix(routes[i]) # None
                    /\ \A i \in matching : UpstreamPrefix(routes[i]) # None
                    /\ matching # {}
               /\ \A m, o \in found : m = o
               /\ \A m \in found : \E i \in matching :
                    /\ m.route = routes[i]
                    /\ \A j \in matching : /\ StartsWith(local(i), local(j))
                                           /\ local(j) = local(i) => i <= j
                    /\ PrefixMatches(m.upstream_path, upstream(i))
                    /\ \E suffix \in Seq({DecodeElement(e) : e \in S}) :
                         /\ The(CanonicalRequestPath(path)) = local(i) \o suffix
                         /\ m.upstream_path \in {upstream(i) \o suffix,
                                                 upstream(i) \o <<"/">> \o suffix}
<1> DEFINE found == FindClientRoute(routes, method, path)
           considered == ClientConsidered(routes, method)
           matching == ClientMatching(routes, method, path)
           local(i) == The(LocalPrefix(routes[i]))
           upstream(i) == The(UpstreamPrefix(routes[i]))
           whole == The(CanonicalRequestPath(path))
           f == [i \in matching |-> local(i)]
           T == {DecodeElement(e) : e \in S}
           decodes == /\ CanonicalRequestPath(path) # None
                      /\ \A i \in considered : LocalPrefix(routes[i]) # None
                      /\ \A i \in matching : UpstreamPrefix(routes[i]) # None
           match(i) == [route |-> routes[i],
                        upstream_path |-> RewritePrefix(whole, local(i), upstream(i))]
<1>1. found = IF decodes THEN {match(i) : i \in Longest(f)} ELSE None
  BY DEF FindClientRoute, ClientMatching, ClientConsidered, LocalPrefix, UpstreamPrefix
<1>2. CASE ~decodes
  BY <1>1, <1>2 DEF None
<1>3. CASE decodes
  <2>1. whole \in Seq(T) /\ "/" \in T
    <3>1. DecodeElement("/") = "/"
      BY DEF DecodeElement
    <3>2. QED
      BY <1>3, <3>1, CanonicalMeaning
  <2>2. matching \in SUBSET Nat /\ matching \subseteq considered /\ considered \subseteq DOMAIN routes
    <3>1. DOMAIN routes = 1..Len(routes) /\ Len(routes) \in Nat
      OBVIOUS
    <3>2. matching \subseteq considered
      BY DEF ClientMatching
    <3>3. considered \subseteq DOMAIN routes
      BY DEF ClientConsidered
    <3> HIDE DEF matching, considered
    <3>4. QED
      BY <3>1, <3>2, <3>3
  <2>3. ASSUME NEW i \in considered PROVE local(i) \in Seq(T) /\ local(i) # <<>>
    <3>1. The(routes[i].local_prefix) \in Seq(S)
      BY <2>2 DEF ClientConsidered, The, None
    <3>2. CanonicalRequestPath(The(routes[i].local_prefix)) # None
      BY <1>3 DEF LocalPrefix
    <3>3. QED
      BY <3>1, <3>2, CanonicalMeaning DEF LocalPrefix
  <2>4. ASSUME NEW i \in matching PROVE upstream(i) \in Seq(T) /\ upstream(i) # <<>>
    <3>1. CASE routes[i].upstream_prefix = None
      BY <2>2, <2>3, <3>1 DEF UpstreamPrefix
    <3>2. CASE routes[i].upstream_prefix # None
      <4>1. The(routes[i].upstream_prefix) \in Seq(S)
        BY <2>2, <3>2 DEF The, None
      <4>2. CanonicalRequestPath(The(routes[i].upstream_prefix)) # None
        BY <1>3, <3>2 DEF UpstreamPrefix
      <4>3. QED
        BY <3>2, <4>1, <4>2, CanonicalMeaning DEF UpstreamPrefix
    <3>3. QED
      BY <3>1, <3>2
  <2>5. ASSUME NEW i \in matching PROVE StartsWith(whole, local(i))
    <3>1. PrefixMatches(whole, local(i)) /\ local(i) \in Seq(T)
      BY <2>2, <2>3 DEF ClientMatching
    <3>2. QED
      BY <2>1, <3>1, MatchedStartsWith
  <2>6. f \in [matching -> Seq(T)] /\ \A i \in matching : f[i] = local(i)
    BY <2>2, <2>3
  <2>7. \A i \in matching : StartsWith(whole, f[i])
    BY <2>5, <2>6
  <2> HIDE DEF found, considered, matching, local, upstream, whole, f, T, decodes, match
  <2>8. /\ matching # {} => Longest(f) # {}
        /\ \A i, j \in Longest(f) : i = j
        /\ \A i \in Longest(f) : i \in matching /\ \A j \in matching :
              StartsWith(f[i], f[j]) /\ (f[j] = f[i] => i <= j)
    BY <2>1, <2>2, <2>6, <2>7, LongestMeaning, Zenon
  <2>9. found = {match(i) : i \in Longest(f)}
    BY <1>1, <1>3
  <2>10. found # None <=> matching # {}
    BY <2>8, <2>9, Zenon DEF None
  <2>11. \A m, o \in found : m = o
    BY <2>8, <2>9, Zenon
  <2>12. ASSUME NEW m \in found
         PROVE  \E i \in matching :
                  /\ m.route = routes[i]
                  /\ \A j \in matching : StartsWith(local(i), local(j)) /\ (local(j) = local(i) => i <= j)
                  /\ PrefixMatches(m.upstream_path, upstream(i))
                  /\ \E suffix \in Seq(T) :
                       /\ whole = local(i) \o suffix
                       /\ m.upstream_path \in {upstream(i) \o suffix, upstream(i) \o <<"/">> \o suffix}
    <3>1. PICK i \in Longest(f) : m = match(i)
      BY <2>9, Zenon
    <3>2. i \in matching /\ local(i) \in Seq(T)
      BY <2>2, <2>3, <2>8, Zenon
    <3>3. m.route = routes[i] /\ m.upstream_path = RewritePrefix(whole, local(i), upstream(i))
      BY <3>1 DEF match
    <3>4. ASSUME NEW j \in matching
          PROVE  StartsWith(local(i), local(j)) /\ (local(j) = local(i) => i <= j)
      <4>1. f[i] = local(i) /\ f[j] = local(j)
        BY <2>6, <3>2
      <4>2. StartsWith(f[i], f[j]) /\ (f[j] = f[i] => i <= j)
        BY <2>8
      <4>3. QED
        BY <4>1, <4>2
    <3> DEFINE suffix == SubSeq(whole, Len(local(i)) + 1, Len(whole))
    <3>5. /\ PrefixMatches(RewritePrefix(whole, local(i), upstream(i)), upstream(i))
          /\ whole = local(i) \o suffix
          /\ RewritePrefix(whole, local(i), upstream(i))
               \in {upstream(i) \o suffix, upstream(i) \o <<"/">> \o suffix}
      BY <2>1, <2>4, <2>5, <3>2, RewriteIsMatched, Zenon
    <3>6. suffix \in Seq(T)
      BY <2>1, <3>2
    <3> HIDE DEF suffix
    <3>7. \E t \in Seq(T) :
             /\ whole = local(i) \o t
             /\ m.upstream_path \in {upstream(i) \o t, upstream(i) \o <<"/">> \o t}
      BY <3>3, <3>5, <3>6, Zenon
    <3>8. PrefixMatches(m.upstream_path, upstream(i))
      BY <3>3, <3>5
    <3>9. QED
      BY <3>2, <3>3, <3>4, <3>7, <3>8, Zenon
  <2>13. QED
    BY <1>3, <2>10, <2>11, <2>12, Zenon
       DEF found, considered, matching, local, upstream, whole, T, decodes
<1>4. QED
  BY <1>2, <1>3, Zenon

-----------------------------------------------------------------------------
\* From position i on, w dots fill a segment of d.
DotsAt(d, i, w) ==
    /\ i + w <= Len(d)
    /\ i = 0 \/ d[i] = "/"
    /\ \A k \in 1..w : d[i + k] = "."
    /\ i + w = Len(d) \/ d[i + w + 1] = "/"

(* A dot segment is one or two dots with a slash or an end on either side. *)
LEMMA DotSegmentMeaning ==
    ASSUME NEW T, NEW d \in Seq(T)
    PROVE  DotSegment(d) <=> \E i \in 0..Len(d), w \in 1..2 : DotsAt(d, i, w)
<1> DEFINE cuts == {0, Len(d) + 1} \cup {i \in DOMAIN d : d[i] = "/"}
           after(i) == {j \in cuts : j > i}
           next(i) == Min(after(i))
           dots == {<<".">>, <<".", ".">>}
<1>0. Len(d) \in Nat /\ DOMAIN d = 1..Len(d)
  OBVIOUS
<1>1. cuts \in SUBSET (0..(Len(d) + 1)) /\ Len(d) + 1 \in cuts
  BY <1>0
<1>2. \A i \in cuts : i = 0 \/ i = Len(d) + 1 \/ (i \in 1..Len(d) /\ d[i] = "/")
  BY <1>0
<1>3. \A i \in 1..Len(d) : d[i] = "/" => i \in cuts
  BY <1>0
<1>4. DotSegment(d) <=>
        \E i \in cuts \ {Len(d) + 1} : SubSeq(d, i + 1, next(i) - 1) \in dots
  BY Zenon DEF DotSegment, Segments
<1> HIDE DEF cuts
<1>5. ASSUME NEW i \in cuts, i # Len(d) + 1
      PROVE  /\ next(i) \in cuts /\ next(i) > i
             /\ \A j \in cuts : j > i => next(i) <= j
  <2>0. i \in 0..(Len(d) + 1) /\ Len(d) + 1 > i
    <3>1. i \in 0..(Len(d) + 1)
      BY <1>1
    <3>2. QED
      BY <1>0, <1>5, <3>1
  <2>1. after(i) \in SUBSET Nat /\ Len(d) + 1 \in after(i)
    <3>1. Len(d) + 1 \in after(i)
      BY <1>1, <2>0
    <3>2. \A j \in after(i) : j \in 0..(Len(d) + 1)
      BY <1>1
    <3>3. QED
      BY <1>0, <3>1, <3>2
  <2>2. \E x \in after(i) : \A y \in after(i) : x <= y
    BY <2>1, LeastElement, Zenon
  <2>3. next(i) \in after(i) /\ \A y \in after(i) : next(i) <= y
    BY <2>2 DEF Min
  <2> HIDE DEF next
  <2>4. QED
    BY <2>3
<1> HIDE DEF next
<1>6. ASSUME NEW i \in cuts \ {Len(d) + 1}, SubSeq(d, i + 1, next(i) - 1) \in dots
      PROVE  \E j \in 0..Len(d), w \in 1..2 : DotsAt(d, j, w)
  <2> DEFINE n == next(i)
             s == SubSeq(d, i + 1, n - 1)
             w == n - 1 - i
  <2>1. n \in cuts /\ n > i
    BY <1>5
  <2> HIDE DEF n
  <2>2. i \in 0..Len(d) /\ n \in 1..(Len(d) + 1) /\ w \in Nat /\ i + w = n - 1
    BY <1>0, <1>1, <2>1
  <2>3. Len(s) = w /\ \A k \in 1..w : s[k] = d[i + k]
    BY <1>0, <2>1, <2>2
  <2>4. s \in dots
    BY <1>6 DEF n
  <2> HIDE DEF s
  <2>5. Len(s) \in 1..2 /\ \A k \in 1..Len(s) : s[k] = "."
    BY <2>4
  <2>6. w \in 1..2 /\ \A k \in 1..w : d[i + k] = "."
    BY <2>3, <2>5
  <2>7. i + w <= Len(d)
    BY <1>0, <2>2
  <2>8. i = 0 \/ d[i] = "/"
    BY <1>0, <1>2, <1>6
  <2>9. i + w = Len(d) \/ d[i + w + 1] = "/"
    <3>1. n = Len(d) + 1 \/ d[n] = "/"
      BY <1>2, <2>1, <2>2
    <3>2. i + w + 1 = n
      BY <2>2
    <3>3. QED
      BY <1>0, <2>2, <3>1, <3>2
  <2> HIDE DEF w
  <2>10. DotsAt(d, i, w)
    BY <2>6, <2>7, <2>8, <2>9 DEF DotsAt
  <2>11. QED
    BY <2>2, <2>6, <2>10
<1>7. ASSUME NEW i \in 0..Len(d), NEW w \in 1..2, DotsAt(d, i, w)
      PROVE  i \in cuts \ {Len(d) + 1} /\ SubSeq(d, i + 1, next(i) - 1) \in dots
  <2>0. i + w <= Len(d)
    BY <1>7 DEF DotsAt
  <2>1. /\ i = 0 \/ d[i] = "/"
        /\ \A k \in 1..w : d[i + k] = "."
        /\ i + w = Len(d) \/ d[i + w + 1] = "/"
    BY <1>7 DEF DotsAt
  <2>2. i \in Nat /\ w \in Nat /\ i + w + 1 \in 1..(Len(d) + 1) /\ i # Len(d) + 1
    BY <1>0, <2>0
  <2>3. i \in cuts
    <3>1. CASE i = 0
      BY <3>1 DEF cuts
    <3>2. CASE i # 0
      BY <1>3, <2>1, <2>2, <3>2
    <3>3. QED
      BY <3>1, <3>2
  <2>4. i + w + 1 \in cuts
    <3>1. CASE i + w = Len(d)
      BY <1>1, <3>1
    <3>2. CASE i + w # Len(d)
      <4>1. i + w + 1 \in 1..Len(d)
        <5>1. \A a, b, c \in Nat : a + b <= c /\ a + b # c => a + b + 1 \in 1..c
          OBVIOUS
        <5>2. QED
          BY <1>0, <2>0, <2>2, <3>2, <5>1, Zenon
      <4>2. QED
        BY <1>3, <2>1, <3>2, <4>1
    <3>3. QED
      BY <3>1, <3>2
  <2>5. next(i) = i + w + 1
    <3> DEFINE n == next(i)
    <3>1. n \in cuts /\ n > i /\ n <= i + w + 1
      <4>1. i + w + 1 > i
        BY <2>2
      <4>2. QED
        BY <1>5, <2>2, <2>3, <2>4, <4>1
    <3> HIDE DEF n
    <3>2. ASSUME n < i + w + 1 PROVE FALSE
      <4>1. n \in 1..Len(d) /\ n - i \in 1..w /\ i + (n - i) = n
        <5>1. n \in 0..(Len(d) + 1)
          BY <1>1, <3>1
        <5>2. QED
          BY <1>0, <2>0, <2>2, <3>1, <3>2, <5>1
      <4>2. d[i + (n - i)] = "."
        BY <2>1, <4>1, Zenon
      <4>3. d[n] = "/"
        BY <1>0, <1>2, <3>1, <4>1
      <4>4. "." # "/"
        OBVIOUS
      <4>5. QED
        BY <4>1, <4>2, <4>3, <4>4
    <3>3. n \in Nat
      BY <1>0, <1>1, <3>1
    <3>4. n = i + w + 1
      BY <2>2, <3>1, <3>2, <3>3
    <3>5. QED
      BY <3>4 DEF n
  <2> DEFINE s == SubSeq(d, i + 1, i + w)
  <2>6. s \in Seq(T) /\ Len(s) = w /\ \A k \in 1..w : s[k] = d[i + k]
    <3> DEFINE e == i + w
    <3>1. i + 1 \in 1..Len(d) /\ e \in 1..Len(d) /\ e - i = w /\ i + 1 <= e
      BY <1>0, <2>0, <2>2
    <3> HIDE DEF e
    <3>2. SubSeq(d, i + 1, e) \in Seq(T)
      BY <1>0, <2>2, <3>1
    <3>3. Len(SubSeq(d, i + 1, e)) = e - i
      BY <1>0, <2>2, <3>1
    <3>4. \A k \in 1..(e - i) : SubSeq(d, i + 1, e)[k] = d[i + k]
      BY <1>0, <2>2, <3>1
    <3>5. QED
      BY <3>1, <3>2, <3>3, <3>4 DEF e
  <2>7. s \in dots
    <3> HIDE DEF s
    <3>1. s \in Seq(T) /\ Len(s) = w /\ \A k \in 1..w : s[k] = "."
      BY <2>1, <2>6
    <3>2. CASE w = 1
      <4>1. s = <<".">>
        BY <3>1, <3>2
      <4>2. QED
        BY <4>1
    <3>3. CASE w = 2
      <4>1. s = <<".", ".">>
        BY <3>1, <3>3
      <4>2. QED
        BY <4>1
    <3>4. QED
      BY <3>2, <3>3
  <2>8. next(i) - 1 = i + w
    BY <2>2, <2>5
  <2>9. QED
    BY <2>2, <2>3, <2>7, <2>8
<1>8. QED
  BY <1>4, <1>6, <1>7

(* rewrite_prefix (routing.rs:176) makes no dot segment where the path and *)
(* the upstream prefix have none: what it glues together meets at a slash. *)
LEMMA RewriteHasNoDots ==
    ASSUME NEW T, "/" \in T, NEW s \in Seq(T), NEW local \in Seq(T), NEW upstream \in Seq(T),
           local # <<>>, upstream # <<>>, PrefixMatches(s, local),
           ~DotSegment(s), ~DotSegment(upstream)
    PROVE  ~DotSegment(RewritePrefix(s, local, upstream))
<1> DEFINE suffix == SubSeq(s, Len(local) + 1, Len(s))
           new == RewritePrefix(s, local, upstream)
           L == Len(local)
           U == Len(upstream)
           N == Len(s) - L
<1>1. /\ L \in Nat \ {0} /\ U \in Nat \ {0} /\ Len(s) \in Nat /\ L <= Len(s)
      /\ \A n \in 1..L : s[n] = local[n]
  BY MatchedStartsWith, StartsWithMeaning
<1>2. N \in Nat /\ L + N = Len(s)
  BY <1>1
<1>3. /\ suffix \in Seq(T) /\ Len(suffix) = N
      /\ \A n \in 1..N : suffix[n] = s[L + n]
  BY <1>1
<1>4. N = 0 \/ s[L] = "/" \/ s[L + 1] = "/"
  BY <1>1 DEF PrefixMatches, EndsInSlash
<1> HIDE DEF suffix
<1>0. suffix \in Seq(T)
  BY <1>3
<1>5. \E g \in {0, 1} :
        /\ new \in Seq(T) /\ Len(new) = U + g + N
        /\ \A n \in 1..U : new[n] = upstream[n]
        /\ g = 1 => new[U + 1] = "/"
        /\ \A n \in 1..N : new[U + g + n] = s[L + n]
        /\ g = 0 => N = 0 \/ upstream[U] = "/" \/ s[L + 1] = "/"
  <2>1. CASE suffix = <<>> \/ EndsInSlash(upstream) \/ suffix[1] = "/"
    <3>1. new = upstream \o suffix
      BY <2>1, Zenon DEF RewritePrefix, suffix
    <3>2. new \in Seq(T) /\ Len(new) = U + N
      <4>1. new \in Seq(T)
        BY <1>3, <3>1
      <4>2. Len(upstream \o suffix) = Len(upstream) + Len(suffix)
        BY <1>0
      <4>3. Len(new) = U + N
        BY <1>3, <3>1, <4>2
      <4>4. QED
        BY <4>1, <4>3
    <3>3. \A n \in 1..U : new[n] = upstream[n]
      BY <1>3, <3>1
    <3>4. \A n \in 1..N : new[U + n] = suffix[n]
      BY <1>1, <1>2, <1>3, <3>1
    <3>5. N = 0 \/ upstream[U] = "/" \/ s[L + 1] = "/"
      <4>1. suffix = <<>> => N = 0
        BY <1>3
      <4>2. N # 0 => suffix[1] = s[L + 1]
        BY <1>2, <1>3
      <4>3. QED
        BY <2>1, <4>1, <4>2 DEF EndsInSlash
    <3> HIDE DEF new, N, L, U
    <3>6. U + 0 = U
      BY <1>1
    <3>7. QED
      BY <1>3, <3>2, <3>3, <3>4, <3>5, <3>6
  <2>2. CASE ~(suffix = <<>> \/ EndsInSlash(upstream) \/ suffix[1] = "/")
    <3> DEFINE head == upstream \o <<"/">>
    <3>0. new = head \o suffix
      BY <2>2, Zenon DEF RewritePrefix, suffix
    <3>1. head \in Seq(T) /\ Len(head) = U + 1 /\ head[U + 1] = "/"
          /\ \A n \in 1..U : head[n] = upstream[n]
      OBVIOUS
    <3> HIDE DEF head
    <3>2. new \in Seq(T) /\ Len(new) = U + 1 + N
      <4>1. new \in Seq(T)
        BY <1>3, <3>0, <3>1
      <4>2. Len(head \o suffix) = Len(head) + Len(suffix)
        <5>1. head \in Seq(T)
          BY <3>1
        <5>2. QED
          BY <1>0, <5>1
      <4>3. Len(new) = U + 1 + N
        BY <1>3, <3>0, <3>1, <4>2
      <4>4. QED
        BY <4>1, <4>3
    <3>3. \A n \in 1..(U + 1) : new[n] = head[n]
      BY <1>1, <1>3, <3>0, <3>1
    <3>4. \A n \in 1..N : new[U + 1 + n] = suffix[n]
      BY <1>1, <1>2, <1>3, <3>0, <3>1
    <3> HIDE DEF new, N, L, U
    <3>5. U + 1 \in 1..(U + 1) /\ \A n \in 1..U : n \in 1..(U + 1)
      BY <1>1
    <3>6. QED
      BY <1>3, <3>1, <3>2, <3>3, <3>4, <3>5
  <2>3. QED
    BY <2>1, <2>2
<1> HIDE DEF new, L, U, N
<1>6. PICK g \in {0, 1} :
        /\ new \in Seq(T) /\ Len(new) = U + g + N
        /\ \A n \in 1..U : new[n] = upstream[n]
        /\ g = 1 => new[U + 1] = "/"
        /\ \A n \in 1..N : new[U + g + n] = s[L + n]
        /\ g = 0 => N = 0 \/ upstream[U] = "/" \/ s[L + 1] = "/"
  BY <1>5
<1>7. SUFFICES ASSUME NEW i \in 0..Len(new), NEW w \in 1..2, DotsAt(new, i, w) PROVE FALSE
  BY <1>6, DotSegmentMeaning DEF new
<1>8. /\ i \in Nat /\ w \in {1, 2} /\ i + w <= U + g + N
      /\ i = 0 \/ new[i] = "/"
      /\ \A k \in 1..w : new[i + k] = "."
      /\ i + w = U + g + N \/ new[i + w + 1] = "/"
      /\ "." # "/"
  BY <1>6, <1>7 DEF DotsAt
<1>9. CASE i + w <= U
  <2>1. DotsAt(upstream, i, w)
    <3>1. i = 0 \/ upstream[i] = "/"
      BY <1>1, <1>6, <1>8, <1>9
    <3>2. ASSUME NEW k \in 1..w PROVE upstream[i + k] = "."
      <4>1. i + k \in 1..U
        BY <1>1, <1>8, <1>9
      <4>2. QED
        BY <1>6, <1>8, <4>1, Zenon
    <3>3. i + w = U \/ upstream[i + w + 1] = "/"
      BY <1>1, <1>2, <1>6, <1>8, <1>9
    <3>4. QED
      BY <1>9, <3>1, <3>2, <3>3 DEF DotsAt, U
  <2>2. i \in 0..Len(upstream)
    BY <1>1, <1>8, <1>9 DEF U
  <2>3. QED
    BY <2>1, <2>2, DotSegmentMeaning
<1>10. CASE i >= U + g
  <2> DEFINE j == i - (U + g)
             m == L + j
  <2>1. j \in Nat /\ j + w <= N /\ i = U + g + j /\ N # 0
    BY <1>1, <1>2, <1>8, <1>10
  <2>2. ASSUME NEW k \in 1..w PROVE s[m + k] = "."
    <3>1. j + k \in 1..N /\ U + g + (j + k) = i + k /\ L + (j + k) = m + k
      BY <1>1, <1>2, <1>8, <2>1
    <3> HIDE DEF j, m
    <3>2. new[U + g + (j + k)] = s[L + (j + k)]
      BY <1>6, <3>1
    <3>3. QED
      BY <1>8, <3>1, <3>2
  <2>3. s[m] = "/"
    <3>1. CASE j = 0
      <4>1. m = L /\ 1 \in 1..w /\ m + 1 = L + 1
        BY <1>1, <1>8, <3>1
      <4>2. s[L + 1] = "."
        BY <2>2, <4>1
      <4>3. QED
        BY <1>4, <1>8, <2>1, <4>1, <4>2
    <3>2. CASE j # 0
      <4>1. j \in 1..N /\ U + g + j = i /\ i # 0
        BY <1>1, <1>2, <1>8, <2>1, <3>2
      <4>2. new[U + g + j] = s[L + j]
        BY <1>6, <4>1
      <4>3. QED
        BY <1>8, <4>1, <4>2
    <3>3. QED
      BY <3>1, <3>2
  <2>4. m + w = Len(s) \/ s[m + w + 1] = "/"
    <3>1. CASE i + w = U + g + N
      <4>1. j + w = N
        BY <1>1, <1>2, <1>6, <1>8, <2>1, <3>1
      <4>2. m + w = L + (j + w)
        BY <1>1, <1>8, <2>1
      <4>3. QED
        BY <1>2, <4>1, <4>2
    <3>2. CASE i + w # U + g + N
      <4>1. j + w + 1 \in 1..N /\ U + g + (j + w + 1) = i + w + 1 /\ L + (j + w + 1) = m + w + 1
        BY <1>1, <1>2, <1>8, <2>1, <3>2
      <4> HIDE DEF j, m
      <4>2. new[U + g + (j + w + 1)] = s[L + (j + w + 1)]
        BY <1>6, <4>1
      <4>3. QED
        BY <1>8, <3>2, <4>1, <4>2
    <3>3. QED
      BY <3>1, <3>2
  <2>5. m \in 0..Len(s) /\ m + w <= Len(s)
    BY <1>1, <1>2, <1>8, <2>1
  <2> HIDE DEF m, j
  <2>6. DotsAt(s, m, w)
    BY <2>2, <2>3, <2>4, <2>5 DEF DotsAt
  <2>7. QED
    BY <2>5, <2>6, DotSegmentMeaning
<1>11. CASE i + w > U /\ i < U + g
  <2>1. ASSUME g = 1 PROVE FALSE
    <3>1. U + 1 - i \in 1..w /\ i + (U + 1 - i) = U + 1
      BY <1>1, <1>8, <1>11, <2>1
    <3>2. new[i + (U + 1 - i)] = "."
      BY <1>8, <3>1, Zenon
    <3>3. QED
      BY <1>6, <1>8, <2>1, <3>1, <3>2
  <2>2. ASSUME g = 0 PROVE FALSE
    <3>1. w = 2 /\ i + 1 = U /\ i + 2 = U + 1 /\ N # 0 /\ U + 1 <= U + N
      BY <1>1, <1>2, <1>8, <1>11, <2>2
    <3>2. new[U] = "." /\ new[U + 1] = "."
      <4>1. 1 \in 1..w /\ 2 \in 1..w
        BY <3>1
      <4>2. new[i + 1] = "." /\ new[i + 2] = "."
        BY <1>8, <4>1
      <4>3. QED
        BY <3>1, <4>2
    <3>3. upstream[U] = "."
      <4>1. U \in 1..U
        BY <1>1
      <4>2. QED
        BY <1>6, <3>2, <4>1
    <3>4. s[L + 1] = "."
      <4>1. 1 \in 1..N /\ U + g + 1 = U + 1
        BY <1>1, <1>2, <2>2, <3>1
      <4>2. new[U + g + 1] = s[L + 1]
        BY <1>6, <4>1
      <4>3. QED
        BY <3>2, <4>1, <4>2
    <3>5. QED
      BY <1>6, <1>8, <2>2, <3>1, <3>3, <3>4
  <2>3. QED
    BY <1>6, <2>1, <2>2
<1>12. QED
  BY <1>1, <1>6, <1>8, <1>9, <1>10, <1>11

(* A path that canonical_request_path accepts (routing.rs) starts with a   *)
(* slash and has no dot segment once it is decoded.                        *)
LEMMA CanonicalIsClean ==
    ASSUME NEW S, NEW p \in Seq(S), "/" \notin DOMAIN Decode, CanonicalRequestPath(p) # None
    PROVE  LET c == The(CanonicalRequestPath(p)) IN c[1] = "/" /\ ~DotSegment(c)
<1> DEFINE c == [n \in DOMAIN p |-> DecodeElement(p[n])]
<1>1. CanonicalRequestPath(p) = Some(c) /\ p # <<>> /\ p[1] = "/" /\ ~DotSegment(c)
  BY DEF CanonicalRequestPath, None
<1>2. The(CanonicalRequestPath(p)) = c
  BY <1>1 DEF The, Some
<1>3. 1 \in DOMAIN p
  BY <1>1
<1>4. c[1] = "/"
  BY <1>1, <1>3 DEF DecodeElement
<1>5. QED
  BY <1>1, <1>2, <1>4

(* A URL whose elements decode one by one to the characters of a clean     *)
(* path, slashes to slashes, is accepted as that path.                     *)
LEMMA UrlDecodesBack ==
    ASSUME NEW T, NEW W, NEW s \in Seq(T), NEW url \in Seq(W), Len(url) = Len(s),
           s # <<>>, s[1] = "/", ~DotSegment(s),
           \A n \in 1..Len(s) :
               /\ DecodeElement(url[n]) = s[n] /\ url[n] \notin Undecodable
               /\ url[n] = "/" <=> s[n] = "/"
               /\ s[n] # "\\"
    PROVE  CanonicalRequestPath(url) = Some(s)
<1> DEFINE decoded == [n \in DOMAIN url |-> DecodeElement(url[n])]
<1>1. Len(s) \in Nat /\ DOMAIN url = 1..Len(s) /\ DOMAIN s = 1..Len(s)
  OBVIOUS
<1>2. decoded = s
  <2>1. \A n \in 1..Len(s) : decoded[n] = s[n]
    BY <1>1
  <2>2. decoded \in Seq(T) /\ Len(decoded) = Len(s)
    <3>1. \A n \in 1..Len(s) : DecodeElement(url[n]) \in T
      BY <1>1
    <3>2. QED
      BY <1>1, <3>1
  <2> HIDE DEF decoded
  <2>3. QED
    BY <2>1, <2>2
<1>3. url # <<>> /\ url[1] = "/"
  <2>1. 1 \in 1..Len(s) /\ Len(url) # 0
    BY <1>1
  <2>2. QED
    BY <2>1
<1>4. Range(url) \cap Undecodable = {}
  BY <1>1 DEF Range
<1>5. "\\" \notin Range(s)
  BY <1>1 DEF Range
<1>6. {n \in DOMAIN url : url[n] = "/"} = {n \in DOMAIN s : s[n] = "/"}
  BY <1>1
<1>7. Occurrences(url, "/") = Occurrences(s, "/")
  BY <1>6 DEF Occurrences
<1>8. Occurrences(s, "/") \in Nat
  <2>1. IsFiniteSet(1..Len(s))
    BY <1>1, FS_Interval
  <2>2. IsFiniteSet({n \in DOMAIN s : s[n] = "/"})
    BY <1>1, <2>1, FS_Subset
  <2>3. QED
    BY <2>2, FS_CardinalityType DEF Occurrences
<1>9. ~EncodedDelimiter(url, s)
  BY <1>5, <1>7, <1>8 DEF EncodedDelimiter
<1>10. QED
  BY <1>2, <1>3, <1>4, <1>9 DEF CanonicalRequestPath

\* A decoded path that canonical_request_path has nothing against.
CleanPath(p, T) == p \in Seq(T) /\ p # <<>> /\ p[1] = "/" /\ ~DotSegment(p)

(* The path find_client_route hands on (routing.rs) is itself one that     *)
(* canonical_request_path would not refuse: it starts with a slash and has *)
(* no dot segment, although nothing looks at it again after the rewrite.   *)
THEOREM ClientPathIsClean ==
    ASSUME NEW S, "/" \in S, "/" \notin DOMAIN Decode,
           NEW path \in Seq(S), NEW R, NEW routes \in Seq(R), NEW method,
           \A i \in DOMAIN routes :
               \A p \in routes[i].local_prefix \cup routes[i].upstream_prefix : p \in Seq(S),
           NEW m \in FindClientRoute(routes, method, path)
    PROVE  CleanPath(m.upstream_path, {DecodeElement(e) : e \in S})
<1> DEFINE considered == ClientConsidered(routes, method)
           matching == ClientMatching(routes, method, path)
           local(i) == The(LocalPrefix(routes[i]))
           upstream(i) == The(UpstreamPrefix(routes[i]))
           whole == The(CanonicalRequestPath(path))
           f == [i \in matching |-> local(i)]
           T == {DecodeElement(e) : e \in S}
           decodes == /\ CanonicalRequestPath(path) # None
                      /\ \A i \in considered : LocalPrefix(routes[i]) # None
                      /\ \A i \in matching : UpstreamPrefix(routes[i]) # None
           match(i) == [route |-> routes[i],
                        upstream_path |-> RewritePrefix(whole, local(i), upstream(i))]
<1>1. m \in IF decodes THEN {match(i) : i \in Longest(f)} ELSE None
  BY DEF FindClientRoute, ClientMatching, ClientConsidered, LocalPrefix, UpstreamPrefix
<1>2. decodes
  BY <1>1 DEF None
<1>3. PICK i \in Longest(f) : m = match(i)
  BY <1>1, <1>2
<1>4. i \in matching
  BY <1>3 DEF Longest
<1>5. i \in considered /\ i \in DOMAIN routes /\ routes[i].local_prefix # None
      /\ PrefixMatches(whole, local(i))
  BY <1>4 DEF ClientMatching, ClientConsidered
<1>6. whole \in Seq(T) /\ "/" \in T /\ ~DotSegment(whole)
  <2>1. DecodeElement("/") = "/"
    BY DEF DecodeElement
  <2>2. QED
    BY <1>2, <2>1, CanonicalMeaning, CanonicalIsClean
<1>7. local(i) \in Seq(T) /\ local(i) # <<>> /\ local(i)[1] = "/" /\ ~DotSegment(local(i))
  <2>1. The(routes[i].local_prefix) \in Seq(S)
    BY <1>5 DEF The, None
  <2>2. CanonicalRequestPath(The(routes[i].local_prefix)) # None
    BY <1>2, <1>5 DEF LocalPrefix
  <2>3. QED
    BY <2>1, <2>2, CanonicalMeaning, CanonicalIsClean DEF LocalPrefix
<1>8. /\ upstream(i) \in Seq(T) /\ upstream(i) # <<>>
      /\ upstream(i)[1] = "/" /\ ~DotSegment(upstream(i))
  <2>1. CASE routes[i].upstream_prefix = None
    BY <1>7, <2>1 DEF UpstreamPrefix
  <2>2. CASE routes[i].upstream_prefix # None
    <3>1. The(routes[i].upstream_prefix) \in Seq(S)
      BY <1>5, <2>2 DEF The, None
    <3>2. CanonicalRequestPath(The(routes[i].upstream_prefix)) # None
      BY <1>2, <1>4, <2>2 DEF UpstreamPrefix
    <3>3. QED
      BY <2>2, <3>1, <3>2, CanonicalMeaning, CanonicalIsClean DEF UpstreamPrefix
  <2>3. QED
    BY <2>1, <2>2
<1>9. m.upstream_path = RewritePrefix(whole, local(i), upstream(i))
  BY <1>3
<1> HIDE DEF considered, matching, local, upstream, whole, f, T, decodes, match
<1>10. StartsWith(whole, local(i))
  BY <1>5, <1>6, <1>7, MatchedStartsWith
<1> DEFINE new == RewritePrefix(whole, local(i), upstream(i))
           suffix == SubSeq(whole, Len(local(i)) + 1, Len(whole))
<1>11. /\ PrefixMatches(new, upstream(i))
       /\ new \in {upstream(i) \o suffix, upstream(i) \o <<"/">> \o suffix}
  BY <1>6, <1>7, <1>8, <1>10, RewriteIsMatched
<1>12. new \in Seq(T)
  <2>1. suffix \in Seq(T)
    BY <1>6, <1>7
  <2> HIDE DEF new, suffix
  <2>2. upstream(i) \o suffix \in Seq(T)
    BY <1>8, <2>1
  <2>3. upstream(i) \o <<"/">> \in Seq(T)
    BY <1>6, <1>8
  <2>4. upstream(i) \o <<"/">> \o suffix \in Seq(T)
    BY <2>1, <2>3
  <2>5. QED
    BY <1>11, <2>2, <2>4
<1>13. ~DotSegment(new)
  BY <1>5, <1>6, <1>7, <1>8, RewriteHasNoDots
<1> HIDE DEF new
<1>14. new # <<>> /\ new[1] = "/"
  <2>1. Len(upstream(i)) <= Len(new) /\ \A n \in 1..Len(upstream(i)) : new[n] = upstream(i)[n]
    BY <1>8, <1>11, <1>12, MatchedStartsWith, StartsWithMeaning
  <2>2. Len(upstream(i)) \in Nat /\ Len(upstream(i)) >= 1 /\ 1 \in 1..Len(upstream(i))
    BY <1>8
  <2>3. new[1] = upstream(i)[1]
    BY <2>1, <2>2
  <2>4. Len(new) # 0
    BY <1>12, <2>1, <2>2
  <2>5. QED
    BY <1>8, <1>12, <2>3, <2>4
<1>15. QED
  BY <1>9, <1>12, <1>13, <1>14 DEF new, T, CleanPath

-----------------------------------------------------------------------------
(* The numbers of a finite set can be counted off: ranks grow, and no two  *)
(* numbers have the same.                                                  *)
LEMMA RankGrows ==
    ASSUME NEW E \in SUBSET Nat, IsFiniteSet(E), NEW x \in E
    PROVE  /\ Rank(E, x) \in 1..Cardinality(E)
           /\ \A y \in E : x < y => Rank(E, x) < Rank(E, y)
<1> DEFINE upto(y) == {z \in E : z <= y}
<1>1. \A y : IsFiniteSet(upto(y)) /\ Cardinality(upto(y)) \in Nat /\ Cardinality(upto(y)) <= Cardinality(E)
  <2>1. SUFFICES ASSUME NEW y PROVE IsFiniteSet(upto(y)) /\ Cardinality(upto(y)) \in Nat
                                    /\ Cardinality(upto(y)) <= Cardinality(E)
    OBVIOUS
  <2>2. upto(y) \in SUBSET E
    OBVIOUS
  <2>3. QED
    BY <2>2, FS_Subset, FS_CardinalityType
<1>2. Cardinality(E) \in Nat
  BY FS_CardinalityType
<1>3. Cardinality(upto(x)) # 0
  <2>1. x \in upto(x)
    OBVIOUS
  <2>2. QED
    BY <1>1, <2>1, FS_EmptySet
<1>4. ASSUME NEW y \in E, x < y PROVE Cardinality(upto(x)) < Cardinality(upto(y))
  <2>0. \A z \in E : z <= x => z <= y
    BY <1>4
  <2>1. upto(x) \in SUBSET upto(y)
    BY <2>0, Zenon
  <2>2. y \in upto(y) /\ y \notin upto(x)
    BY <1>4
  <2>3. upto(x) # upto(y)
    BY <2>2
  <2> HIDE DEF upto
  <2>4. Cardinality(upto(x)) <= Cardinality(upto(y)) /\ Cardinality(upto(x)) # Cardinality(upto(y))
    BY <1>1, <2>1, <2>3, FS_Subset
  <2>5. QED
    BY <1>1, <2>4
<1>5. QED
  <2> HIDE DEF upto
  <2>1. Cardinality(upto(x)) \in 1..Cardinality(E)
    BY <1>1, <1>2, <1>3
  <2>2. QED
    BY <2>1, <1>4 DEF upto, Rank

(* Counting up to the rank of a number leads back to it.                   *)
LEMMA NthOfRank ==
    ASSUME NEW E \in SUBSET Nat, IsFiniteSet(E), NEW x \in E
    PROVE  Nth(E, Rank(E, x)) = x
<1>1. ASSUME NEW y \in E, Rank(E, y) = Rank(E, x) PROVE y = x
  <2>1. x \in Nat /\ y \in Nat
    OBVIOUS
  <2>2. Rank(E, x) \in 1..Cardinality(E) /\ Cardinality(E) \in Nat
    BY RankGrows, FS_CardinalityType
  <2>3. ~(x < y) /\ ~(y < x)
    BY <1>1, <2>2, RankGrows
  <2>4. QED
    BY <2>1, <2>3
<1>2. QED
  BY <1>1 DEF Nth

(* Every rank up to the number of elements is taken.                       *)
LEMMA NthExists ==
    ASSUME NEW E \in SUBSET Nat, IsFiniteSet(E), NEW n \in 1..Cardinality(E)
    PROVE  Nth(E, n) \in E /\ Rank(E, Nth(E, n)) = n
<1> DEFINE N == Cardinality(E)
           f == [x \in E |-> Rank(E, x)]
<1>1. N \in Nat /\ IsFiniteSet(1..N) /\ Cardinality(1..N) = N
  BY FS_CardinalityType, FS_Interval
<1>2. f \in [E -> 1..N]
  BY RankGrows
<1>3. \A x, y \in E : f[x] = f[y] => x = y
  BY NthOfRank
<1>4. f \in Injection(E, 1..N)
  BY <1>2, <1>3 DEF Injection, IsInjective
<1>5. f \in Surjection(E, 1..N)
  <2> HIDE DEF f
  <2>1. QED
    BY <1>1, <1>4, FS_Injection
<1>6. \E x \in E : Rank(E, x) = n
  BY <1>5, Zenon DEF Surjection
<1>7. QED
  BY <1>6 DEF Nth

(* Numbers are counted off in ascending order, and none is left out.       *)
LEMMA NthAscends ==
    ASSUME NEW E \in SUBSET Nat, IsFiniteSet(E),
           NEW m \in 1..Cardinality(E), NEW n \in 1..Cardinality(E)
    PROVE  /\ m < n <=> Nth(E, m) < Nth(E, n)
           /\ n = m + 1 => \A x \in E : ~(Nth(E, m) < x /\ x < Nth(E, n))
<1> DEFINE x == Nth(E, m)
           y == Nth(E, n)
<1>1. x \in E /\ Rank(E, x) = m /\ y \in E /\ Rank(E, y) = n
  BY NthExists
<1> HIDE DEF x, y
<1>2. x \in Nat /\ y \in Nat /\ m \in Nat /\ n \in Nat
  BY <1>1, FS_CardinalityType
<1>3. (x < y => m < n) /\ (y < x => n < m) /\ (x = y => m = n)
  BY <1>1, RankGrows
<1>4. m < n <=> x < y
  BY <1>2, <1>3
<1>5. ASSUME n = m + 1, NEW z \in E, x < z, z < y PROVE FALSE
  <2>1. Rank(E, z) \in Nat
    BY <1>2, RankGrows, FS_CardinalityType
  <2>2. m < Rank(E, z) /\ Rank(E, z) < n
    BY <1>1, <1>5, RankGrows
  <2>3. QED
    BY <1>2, <1>5, <2>1, <2>2
<1>6. QED
  BY <1>4, <1>5 DEF x, y

-----------------------------------------------------------------------------
(* The ends of the segments of a path: finitely many positions, the last   *)
(* of which is the end of the path.                                        *)
LEMMA EndsFacts ==
    ASSUME NEW T, NEW p \in Seq(T)
    PROVE  /\ Ends(p) \in SUBSET Nat /\ IsFiniteSet(Ends(p)) /\ Cardinality(Ends(p)) \in Nat \ {0}
           /\ \A e \in Ends(p) : e \in 0..Len(p) /\ (e = Len(p) \/ p[e + 1] = "/")
           /\ \A e \in 0..Len(p) : (e = Len(p) \/ p[e + 1] = "/") => e \in Ends(p)
           /\ Len(p) \in Ends(p)
           /\ Nth(Ends(p), Cardinality(Ends(p))) = Len(p)
<1>0. Len(p) \in Nat
  OBVIOUS
<1>1. /\ Ends(p) \in SUBSET (0..Len(p))
      /\ \A e \in Ends(p) : e \in 0..Len(p) /\ (e = Len(p) \/ p[e + 1] = "/")
      /\ \A e \in 0..Len(p) : (e = Len(p) \/ p[e + 1] = "/") => e \in Ends(p)
  BY DEF Ends
<1>2. Len(p) \in Ends(p)
  BY <1>0 DEF Ends
<1>3. \A e \in Ends(p) : e \in Nat /\ e <= Len(p)
  BY <1>0, <1>1
<1>4. Ends(p) \in SUBSET Nat /\ IsFiniteSet(Ends(p))
  <2>1. Ends(p) \in SUBSET Nat
    BY <1>3
  <2>2. QED
    BY <1>0, <1>3, <2>1, FS_BoundedSetOfNaturals, Zenon
<1>5. Cardinality(Ends(p)) \in Nat /\ Cardinality(Ends(p)) # 0
  BY <1>2, <1>4, FS_CardinalityType, FS_EmptySet
<1>6. {e \in Ends(p) : e <= Len(p)} = Ends(p)
  BY <1>3
<1>7. Rank(Ends(p), Len(p)) = Cardinality(Ends(p))
  BY <1>6, Zenon DEF Rank
<1>8. Nth(Ends(p), Cardinality(Ends(p))) = Len(p)
  BY <1>2, <1>4, <1>7, NthOfRank
<1>9. QED
  BY <1>1, <1>2, <1>4, <1>5, <1>8

\* The segment that leads up to position e starts with i.
StartsAt(p, e, i) ==
    /\ i \in 1..(e + 1)
    /\ i = 1 \/ p[i - 1] = "/"
    /\ \A k \in i..e : p[k] # "/"

(* Looking back from a position one gets to the start of its segment, and  *)
(* to no other place.                                                      *)
LEMMA StartMeaning ==
    ASSUME NEW p, NEW e \in Nat
    PROVE  /\ StartsAt(p, e, Start(p, e))
           /\ \A i : StartsAt(p, e, i) => Start(p, e) = i
<1>1. Start(p, e) = CHOOSE i \in 1..(e + 1) : (i = 1 \/ p[i - 1] = "/") /\ \A k \in i..e : p[k] # "/"
  BY DEF Start
<1>2. \E i : StartsAt(p, e, i)
  <2> DEFINE clear == {i \in 1..(e + 1) : \A k \in i..e : p[k] # "/"}
  <2>1. e + 1 \in clear
    OBVIOUS
  <2>2. clear \in SUBSET Nat
    OBVIOUS
  <2>3. PICK i \in clear : \A j \in clear : i <= j
    BY <2>1, <2>2, LeastElement, Zenon
  <2>4. i \in 1..(e + 1) /\ \A k \in i..e : p[k] # "/"
    OBVIOUS
  <2>5. CASE i = 1
    BY <2>4, <2>5 DEF StartsAt
  <2>6. CASE i # 1
    <3>1. i - 1 \in 1..(e + 1) /\ ~(i <= i - 1)
      BY <2>4, <2>6
    <3>2. i - 1 \notin clear
      BY <2>3, <3>1
    <3>3. PICK k \in (i - 1)..e : p[k] = "/"
      BY <3>1, <3>2
    <3>4. k = i - 1 \/ k \in i..e
      BY <2>4, <3>3
    <3>5. p[i - 1] = "/"
      BY <2>4, <3>3, <3>4
    <3>6. QED
      BY <2>4, <3>5, Zenon DEF StartsAt
  <2>7. QED
    BY <2>5, <2>6
<1>3. StartsAt(p, e, Start(p, e))
  <2>1. \E i \in 1..(e + 1) : (i = 1 \/ p[i - 1] = "/") /\ \A k \in i..e : p[k] # "/"
    BY <1>2 DEF StartsAt
  <2>2. QED
    BY <1>1, <2>1 DEF StartsAt
<1>4. ASSUME NEW i, StartsAt(p, e, i), NEW j, StartsAt(p, e, j), i < j PROVE FALSE
  <2>1. i \in 1..(e + 1) /\ j \in 1..(e + 1) /\ \A k \in i..e : p[k] # "/"
    BY <1>4 DEF StartsAt
  <2>2. j # 1 /\ j - 1 \in i..e
    BY <1>4, <2>1
  <2>3. p[j - 1] = "/"
    BY <1>4, <2>2 DEF StartsAt
  <2>4. QED
    BY <2>1, <2>2, <2>3
<1>5. ASSUME NEW i, StartsAt(p, e, i) PROVE Start(p, e) = i
  <2>1. i \in 1..(e + 1) /\ Start(p, e) \in 1..(e + 1)
    BY <1>3, <1>5 DEF StartsAt
  <2>2. ~(i < Start(p, e)) /\ ~(Start(p, e) < i)
    BY <1>3, <1>4, <1>5
  <2>3. QED
    BY <2>1, <2>2
<1>6. QED
  BY <1>3, <1>5

(* A segment holds the elements from its start to its end.                 *)
LEMMA SegmentMeaning ==
    ASSUME NEW T, NEW p \in Seq(T), NEW e \in 0..Len(p), NEW i, StartsAt(p, e, i)
    PROVE  /\ Segment(p, e) \in Seq(T) /\ Len(Segment(p, e)) = e + 1 - i
           /\ \A k \in 1..(e + 1 - i) : Segment(p, e)[k] = p[i - 1 + k]
<1>1. e \in Nat /\ Len(p) \in Nat /\ e <= Len(p)
  OBVIOUS
<1>2. i \in 1..(e + 1)
  BY DEF StartsAt
<1>3. Segment(p, e) = SubSeq(p, i, e)
  BY <1>1, StartMeaning, Zenon DEF Segment
<1>4. /\ SubSeq(p, i, e) \in Seq(T) /\ Len(SubSeq(p, i, e)) = e + 1 - i
      /\ \A k \in 1..(e + 1 - i) : SubSeq(p, i, e)[k] = p[i + k - 1]
  BY <1>1, <1>2
<1>5. \A k \in 1..(e + 1 - i) : i + k - 1 = i - 1 + k
  BY <1>1, <1>2
<1>6. QED
  BY <1>3, <1>4, <1>5

(* The first segment starts with the path, and every other one behind the  *)
(* slash that ends the one before it.                                      *)
LEMMA SegmentsFollow ==
    ASSUME NEW T, NEW p \in Seq(T), NEW n \in 1..Cardinality(Ends(p))
    PROVE  /\ Nth(Ends(p), n) \in 0..Len(p)
           /\ n = 1 => StartsAt(p, Nth(Ends(p), n), 1)
           /\ n # 1 => /\ n - 1 \in 1..Cardinality(Ends(p))
                       /\ Nth(Ends(p), n - 1) \in Nat
                       /\ Nth(Ends(p), n - 1) < Nth(Ends(p), n)
                       /\ p[Nth(Ends(p), n - 1) + 1] = "/"
                       /\ StartsAt(p, Nth(Ends(p), n), Nth(Ends(p), n - 1) + 2)
<1> DEFINE E == Ends(p)
           e == Nth(E, n)
<1>0. /\ E \in SUBSET Nat /\ IsFiniteSet(E) /\ Cardinality(E) \in Nat \ {0} /\ Len(p) \in Nat
      /\ n \in 1..Cardinality(E)
      /\ \A x \in E : x \in 0..Len(p) /\ (x = Len(p) \/ p[x + 1] = "/")
      /\ \A x \in 0..Len(p) : (x = Len(p) \/ p[x + 1] = "/") => x \in E
  BY EndsFacts
<1> HIDE DEF E
<1>1. e \in E /\ Rank(E, e) = n
  BY <1>0, NthExists
<1> HIDE DEF e
<1>2. e \in 0..Len(p) /\ e \in Nat /\ n \in Nat
  BY <1>0, <1>1
<1>3. ASSUME NEW k \in 1..e, p[k] = "/" PROVE k - 1 \in E /\ k - 1 < e
  <2>1. k - 1 \in 0..Len(p) /\ k - 1 + 1 = k /\ k - 1 < e
    BY <1>0, <1>2
  <2>2. QED
    BY <1>0, <1>3, <2>1
<1>4. ASSUME n = 1 PROVE StartsAt(p, e, 1)
  <2>1. ASSUME NEW k \in 1..e, p[k] = "/" PROVE FALSE
    <3>1. Rank(E, k - 1) \in 1..Cardinality(E) /\ Rank(E, k - 1) < Rank(E, e)
      BY <1>0, <1>1, <1>3, <2>1, RankGrows
    <3>2. QED
      BY <1>0, <1>1, <1>4, <3>1
  <2>2. 1 \in 1..(e + 1)
    BY <1>2
  <2>3. QED
    BY <2>1, <2>2 DEF StartsAt
<1>5. ASSUME n # 1
      PROVE  /\ n - 1 \in 1..Cardinality(E)
             /\ Nth(E, n - 1) \in Nat /\ Nth(E, n - 1) < e
             /\ p[Nth(E, n - 1) + 1] = "/"
             /\ StartsAt(p, e, Nth(E, n - 1) + 2)
  <2> DEFINE d == Nth(E, n - 1)
  <2>1. n - 1 \in 1..Cardinality(E) /\ n \in 1..Cardinality(E) /\ n - 1 < n /\ n = (n - 1) + 1
    BY <1>0, <1>2, <1>5 DEF E
  <2>2. d \in E
    BY <1>0, <2>1, NthExists
  <2>3. d < e /\ \A x \in E : ~(d < x /\ x < e)
    BY <1>0, <2>1, NthAscends DEF e
  <2> HIDE DEF d
  <2>4. d \in Nat /\ d \in 0..Len(p) /\ d # Len(p)
    BY <1>0, <1>2, <2>2, <2>3
  <2>5. p[d + 1] = "/"
    BY <1>0, <2>2, <2>4
  <2>6. ASSUME NEW k \in (d + 2)..e, p[k] = "/" PROVE FALSE
    <3>1. k \in 1..e /\ d < k - 1
      BY <1>2, <2>4
    <3>2. QED
      BY <1>3, <2>3, <2>6, <3>1
  <2>7. d + 2 \in 1..(e + 1) /\ (d + 2) - 1 = d + 1
    BY <1>2, <2>3, <2>4
  <2>8. StartsAt(p, e, d + 2)
    BY <2>5, <2>6, <2>7 DEF StartsAt
  <2>9. QED
    BY <2>1, <2>3, <2>4, <2>5, <2>8 DEF d
<1>6. QED
  BY <1>2, <1>4, <1>5 DEF E, e

(* Two segments that start at the same place and are equal end at the same *)
(* place, and the paths agree in between.                                  *)
LEMMA EqualSegments ==
    ASSUME NEW T, NEW p \in Seq(T), NEW q \in Seq(T), NEW d \in 0..Len(p), NEW e \in 0..Len(q),
           NEW i, StartsAt(p, d, i), StartsAt(q, e, i), Segment(p, d) = Segment(q, e)
    PROVE  d = e /\ \A k \in i..d : p[k] = q[k]
<1>1. /\ i \in 1..(d + 1) /\ i \in 1..(e + 1) /\ d \in Nat /\ e \in Nat
  BY DEF StartsAt
<1>2. /\ Len(Segment(p, d)) = d + 1 - i /\ Len(Segment(q, e)) = e + 1 - i
      /\ \A k \in 1..(d + 1 - i) : Segment(p, d)[k] = p[i - 1 + k]
      /\ \A k \in 1..(e + 1 - i) : Segment(q, e)[k] = q[i - 1 + k]
  BY SegmentMeaning
<1>3. d + 1 - i = e + 1 - i
  BY <1>2
<1>4. d = e
  BY <1>1, <1>3
<1>5. ASSUME NEW k \in i..d PROVE p[k] = q[k]
  <2>1. k - i + 1 \in 1..(d + 1 - i) /\ i - 1 + (k - i + 1) = k
    BY <1>1
  <2>2. QED
    BY <1>2, <1>4, <2>1
<1>6. QED
  BY <1>4, <1>5

(* Paths with the same first m segments agree up to the end of the m-th.   *)
LEMMA SegmentsDetermine ==
    ASSUME NEW T, NEW p \in Seq(T), NEW q \in Seq(T), NEW m \in Nat \ {0},
           m <= Cardinality(Ends(p)), m <= Cardinality(Ends(q)),
           \A n \in 1..m : Segment(p, Nth(Ends(p), n)) = Segment(q, Nth(Ends(q), n))
    PROVE  Nth(Ends(p), m) = Nth(Ends(q), m) /\ \A k \in 1..Nth(Ends(p), m) : p[k] = q[k]
<1> DEFINE a(n) == Nth(Ends(p), n)
           b(n) == Nth(Ends(q), n)
           same(n) == a(n) = b(n) /\ \A k \in 1..a(n) : p[k] = q[k]
<1>0. Cardinality(Ends(p)) \in Nat /\ Cardinality(Ends(q)) \in Nat /\ m \in 1..m
  BY EndsFacts
<1>1. ASSUME NEW n \in 1..m, n # 1 => same(n - 1) PROVE same(n)
  <2>1. n \in 1..Cardinality(Ends(p)) /\ n \in 1..Cardinality(Ends(q)) /\ n \in Nat
    BY <1>0
  <2>2. /\ a(n) \in 0..Len(p)
        /\ n = 1 => StartsAt(p, a(n), 1)
    BY <2>1, SegmentsFollow
  <2>3. /\ b(n) \in 0..Len(q)
        /\ n = 1 => StartsAt(q, b(n), 1)
    BY <2>1, SegmentsFollow
  <2>4. Segment(p, a(n)) = Segment(q, b(n))
    OBVIOUS
  <2>5. CASE n = 1
    <3> HIDE DEF a, b
    <3>1. QED
      BY <2>2, <2>3, <2>4, <2>5, EqualSegments
  <2>6. CASE n # 1
    <3>1. /\ a(n - 1) \in Nat /\ p[a(n - 1) + 1] = "/" /\ StartsAt(p, a(n), a(n - 1) + 2)
      BY <2>1, <2>6, SegmentsFollow
    <3>2. /\ b(n - 1) \in Nat /\ q[b(n - 1) + 1] = "/" /\ StartsAt(q, b(n), b(n - 1) + 2)
      BY <2>1, <2>6, SegmentsFollow
    <3>3. a(n - 1) = b(n - 1) /\ \A k \in 1..a(n - 1) : p[k] = q[k]
      BY <1>1, <2>6
    <3> HIDE DEF a, b
    <3>4. a(n) = b(n) /\ \A k \in (a(n - 1) + 2)..a(n) : p[k] = q[k]
      BY <2>2, <2>3, <2>4, <3>1, <3>2, <3>3, EqualSegments
    <3>5. ASSUME NEW k \in 1..a(n) PROVE p[k] = q[k]
      <4>1. k \in 1..a(n - 1) \/ k = a(n - 1) + 1 \/ k \in (a(n - 1) + 2)..a(n)
        BY <2>2, <3>1
      <4>2. QED
        BY <3>1, <3>2, <3>3, <3>4, <4>1
    <3>6. QED
      BY <3>4, <3>5
  <2>7. QED
    BY <2>5, <2>6
<1>2. ASSUME NEW n \in 1..m, ~same(n) PROVE FALSE
  <2> DEFINE bad == {j \in 1..m : ~same(j)}
  <2> HIDE DEF same
  <2>1. n \in bad /\ bad \in SUBSET Nat
    BY <1>2
  <2>2. PICK j \in bad : \A k \in bad : j <= k
    BY <2>1, LeastElement, Zenon
  <2>3. j \in 1..m /\ ~same(j)
    OBVIOUS
  <2>4. ASSUME j # 1 PROVE same(j - 1)
    <3>1. j - 1 \in 1..m /\ ~(j <= j - 1)
      BY <2>3, <2>4
    <3>2. QED
      BY <2>2, <3>1
  <2>5. QED
    BY <1>1, <2>3, <2>4
<1>3. QED
  BY <1>0, <1>2

(* Paths that agree up to a position where both end a segment have the     *)
(* same segments up to there.                                              *)
LEMMA SegmentsAgree ==
    ASSUME NEW T, NEW p \in Seq(T), NEW q \in Seq(T), NEW e,
           e \in Ends(p), e \in Ends(q), \A k \in 1..e : p[k] = q[k]
    PROVE  /\ Rank(Ends(p), e) = Rank(Ends(q), e)
           /\ \A n \in 1..Rank(Ends(p), e) :
                 Segment(p, Nth(Ends(p), n)) = Segment(q, Nth(Ends(q), n))
<1>0. /\ Ends(p) \in SUBSET Nat /\ IsFiniteSet(Ends(p)) /\ Ends(q) \in SUBSET Nat
      /\ IsFiniteSet(Ends(q)) /\ Len(p) \in Nat /\ Len(q) \in Nat
      /\ e \in 0..Len(p) /\ e \in 0..Len(q) /\ e \in Nat
      /\ Cardinality(Ends(p)) \in Nat
  BY EndsFacts
<1>1. ASSUME NEW x \in 0..e PROVE x \in Ends(p) <=> x \in Ends(q)
  <2>1. CASE x = e
    BY <2>1
  <2>2. CASE x # e
    <3>1. x \in 0..Len(p) /\ x \in 0..Len(q) /\ x # Len(p) /\ x # Len(q) /\ x + 1 \in 1..e
      BY <1>0, <2>2
    <3>2. p[x + 1] = q[x + 1]
      BY <3>1
    <3>3. x \in Ends(p) <=> p[x + 1] = "/"
      BY <3>1, EndsFacts
    <3>4. x \in Ends(q) <=> q[x + 1] = "/"
      BY <3>1, EndsFacts
    <3>5. QED
      BY <3>2, <3>3, <3>4
  <2>3. QED
    BY <2>1, <2>2
<1>2. ASSUME NEW x \in 0..e PROVE Rank(Ends(p), x) = Rank(Ends(q), x)
  <2>1. \A y \in Nat : y <= x => y \in 0..e
    BY <1>0
  <2>2. {y \in Ends(p) : y <= x} = {y \in Ends(q) : y <= x}
    BY <1>0, <1>1, <2>1
  <2>3. QED
    BY <2>2, Zenon DEF Rank
<1>3. ASSUME NEW n \in 1..Rank(Ends(p), e)
      PROVE  Segment(p, Nth(Ends(p), n)) = Segment(q, Nth(Ends(q), n))
  <2> DEFINE x == Nth(Ends(p), n)
  <2>1. Rank(Ends(p), e) \in 1..Cardinality(Ends(p))
    BY <1>0, RankGrows
  <2>2. n \in 1..Cardinality(Ends(p)) /\ n \in Nat /\ n <= Rank(Ends(p), e)
    BY <1>0, <2>1
  <2>3. x \in Ends(p) /\ Rank(Ends(p), x) = n
    BY <1>0, <2>2, NthExists
  <2> HIDE DEF x
  <2>4. ~(e < x)
    <3>1. ASSUME e < x PROVE FALSE
      <4>1. Rank(Ends(p), e) < Rank(Ends(p), x)
        BY <1>0, <2>3, <3>1, RankGrows
      <4>2. QED
        BY <1>0, <2>1, <2>2, <2>3, <4>1
    <3>2. QED
      BY <3>1
  <2>5. x \in Nat /\ x \in 0..e
    BY <1>0, <2>3, <2>4
  <2>6. x \in Ends(q) /\ Rank(Ends(q), x) = n
    BY <1>1, <1>2, <2>3, <2>5
  <2>7. Nth(Ends(q), n) = x
    BY <1>0, <2>6, NthOfRank
  <2>8. PICK i : StartsAt(p, x, i)
    BY <2>5, StartMeaning, Zenon
  <2>9. i \in 1..(x + 1) /\ (i = 1 \/ p[i - 1] = "/") /\ \A k \in i..x : p[k] # "/"
    BY <2>8 DEF StartsAt
  <2>10. \A k \in 1..x : p[k] = q[k]
    BY <1>0, <2>5
  <2>11. i # 1 => i - 1 \in 1..x
    BY <2>5, <2>9
  <2>12. \A k \in i..x : k \in 1..x
    BY <2>5, <2>9
  <2>13. StartsAt(q, x, i)
    BY <2>9, <2>10, <2>11, <2>12 DEF StartsAt
  <2>14. x \in 0..Len(p) /\ x \in 0..Len(q)
    BY <1>0, <2>5
  <2>15. /\ Segment(p, x) \in Seq(T) /\ Len(Segment(p, x)) = x + 1 - i
         /\ \A k \in 1..(x + 1 - i) : Segment(p, x)[k] = p[i - 1 + k]
    BY <2>8, <2>14, SegmentMeaning
  <2>16. /\ Segment(q, x) \in Seq(T) /\ Len(Segment(q, x)) = x + 1 - i
         /\ \A k \in 1..(x + 1 - i) : Segment(q, x)[k] = q[i - 1 + k]
    BY <2>13, <2>14, SegmentMeaning
  <2>17. \A k \in 1..(x + 1 - i) : i - 1 + k \in 1..x
    BY <2>5, <2>9
  <2>18. \A k \in 1..(x + 1 - i) : Segment(p, x)[k] = Segment(q, x)[k]
    BY <2>10, <2>15, <2>16, <2>17
  <2>19. Segment(p, x) = Segment(q, x)
    <3> DEFINE s == Segment(p, x)
               t == Segment(q, x)
    <3>1. s \in Seq(T) /\ t \in Seq(T) /\ Len(s) = Len(t) /\ \A k \in 1..Len(s) : s[k] = t[k]
      BY <2>15, <2>16, <2>18
    <3> HIDE DEF s, t
    <3>2. s = t
      BY <3>1
    <3>3. QED
      BY <3>2 DEF s, t
  <2>20. QED
    BY <2>7, <2>19 DEF x
<1>4. QED
  BY <1>0, <1>2, <1>3

\* The first m segments of two paths are the same.
SameSegments(p, q, m) ==
    /\ m <= Cardinality(Ends(p)) /\ m <= Cardinality(Ends(q))
    /\ \A n \in 1..m : Segment(p, Nth(Ends(p), n)) = Segment(q, Nth(Ends(q), n))

(* A path agrees with another up to the end of the latter's m-th segment,  *)
(* and ends a segment there, exactly when they have the same m segments.   *)
LEMMA SegmentsCompare ==
    ASSUME NEW T, NEW p \in Seq(T), NEW q \in Seq(T), NEW m \in 1..Cardinality(Ends(q))
    PROVE  SameSegments(p, q, m) <=>
              LET e == Nth(Ends(q), m) IN e \in Ends(p) /\ \A k \in 1..e : p[k] = q[k]
<1> DEFINE e == Nth(Ends(q), m)
<1>0. /\ Ends(p) \in SUBSET Nat /\ IsFiniteSet(Ends(p)) /\ Cardinality(Ends(p)) \in Nat
      /\ Ends(q) \in SUBSET Nat /\ IsFiniteSet(Ends(q)) /\ Cardinality(Ends(q)) \in Nat
  BY EndsFacts
<1>1. e \in Ends(q) /\ Rank(Ends(q), e) = m /\ m \in Nat \ {0} /\ m <= Cardinality(Ends(q))
  BY <1>0, NthExists
<1>2. ASSUME SameSegments(p, q, m) PROVE e \in Ends(p) /\ \A k \in 1..e : p[k] = q[k]
  <2>1. /\ m <= Cardinality(Ends(p))
        /\ \A n \in 1..m : Segment(p, Nth(Ends(p), n)) = Segment(q, Nth(Ends(q), n))
    BY <1>2 DEF SameSegments
  <2>2. Nth(Ends(p), m) = e /\ \A k \in 1..Nth(Ends(p), m) : p[k] = q[k]
    BY <1>1, <2>1, SegmentsDetermine
  <2>3. m \in 1..Cardinality(Ends(p))
    BY <1>0, <1>1, <2>1
  <2>4. Nth(Ends(p), m) \in Ends(p)
    BY <1>0, <2>3, NthExists
  <2>5. QED
    BY <2>2, <2>4
<1>3. ASSUME e \in Ends(p), \A k \in 1..e : p[k] = q[k] PROVE SameSegments(p, q, m)
  <2> HIDE DEF e
  <2>1. /\ Rank(Ends(p), e) = m
        /\ \A n \in 1..m : Segment(p, Nth(Ends(p), n)) = Segment(q, Nth(Ends(q), n))
    BY <1>1, <1>3, SegmentsAgree
  <2>2. Rank(Ends(p), e) \in 1..Cardinality(Ends(p))
    BY <1>0, <1>3, RankGrows
  <2>3. m <= Cardinality(Ends(p))
    BY <1>0, <2>1, <2>2
  <2>4. QED
    BY <1>1, <2>1, <2>3 DEF SameSegments
<1>4. QED
  BY <1>2, <1>3

(* The segments of a path, counted off.                                    *)
LEMMA SegmentSeqMeaning ==
    ASSUME NEW T, NEW p \in Seq(T)
    PROVE  /\ SegmentSeq(p) \in Seq(Seq(T)) /\ Len(SegmentSeq(p)) = Cardinality(Ends(p))
           /\ \A n \in 1..Cardinality(Ends(p)) : SegmentSeq(p)[n] = Segment(p, Nth(Ends(p), n))
<1> DEFINE N == Cardinality(Ends(p))
           s(n) == Segment(p, Nth(Ends(p), n))
<1>1. N \in Nat /\ Ends(p) \in SUBSET Nat /\ IsFiniteSet(Ends(p))
  BY EndsFacts
<1>2. ASSUME NEW n \in 1..N PROVE s(n) \in Seq(T)
  <2> DEFINE e == Nth(Ends(p), n)
  <2>1. e \in Ends(p)
    BY <1>1, NthExists
  <2> HIDE DEF e
  <2>2. e \in 0..Len(p) /\ e \in Nat
    BY <1>1, <2>1, EndsFacts
  <2>3. PICK i : StartsAt(p, e, i)
    BY <2>2, StartMeaning
  <2>4. Segment(p, e) \in Seq(T)
    BY <2>2, <2>3, SegmentMeaning
  <2>5. QED
    BY <2>4 DEF e
<1>3. SegmentSeq(p) = [n \in 1..N |-> s(n)]
  BY DEF SegmentSeq, InOrder
<1> HIDE DEF N, s
<1>4. QED
  <2>1. [n \in 1..N |-> s(n)] \in Seq(Seq(T)) /\ Len([n \in 1..N |-> s(n)]) = N
    BY <1>1, <1>2
  <2>2. \A n \in 1..N : [k \in 1..N |-> s(k)][n] = s(n)
    OBVIOUS
  <2>3. QED
    BY <1>3, <2>1, <2>2, Zenon DEF N, s

(* A prefix ends in a slash exactly when its last segment is empty; then   *)
(* the last but one ends right before that slash.                          *)
LEMMA LastSegment ==
    ASSUME NEW T, NEW q \in Seq(T), q # <<>>
    PROVE  /\ SegmentSeq(q)[Cardinality(Ends(q))] = <<>> <=> EndsInSlash(q)
           /\ EndsInSlash(q) => /\ Cardinality(Ends(q)) - 1 \in 1..Cardinality(Ends(q))
                                /\ Nth(Ends(q), Cardinality(Ends(q)) - 1) = Len(q) - 1
<1> DEFINE K == Cardinality(Ends(q))
           L == Len(q)
<1>0. L \in Nat \ {0} /\ K \in Nat \ {0} /\ Nth(Ends(q), K) = L /\ K \in 1..K
      /\ Ends(q) \in SUBSET Nat /\ IsFiniteSet(Ends(q)) /\ L \in Ends(q) /\ L \in 0..L
  BY EndsFacts
<1>1. Len(SegmentSeq(q)) = K /\ SegmentSeq(q)[K] = Segment(q, L)
  BY <1>0, SegmentSeqMeaning
<1>2. SegmentSeq(q)[K] = Segment(q, L)
  BY <1>1
<1>3. PICK i : StartsAt(q, L, i)
  BY <1>0, StartMeaning, Zenon
<1>4. i \in 1..(L + 1) /\ (i = 1 \/ q[i - 1] = "/") /\ \A k \in i..L : q[k] # "/"
  BY <1>3 DEF StartsAt
<1>5. Segment(q, L) \in Seq(T) /\ Len(Segment(q, L)) = L + 1 - i
  BY <1>0, <1>3, SegmentMeaning
<1>6. Segment(q, L) = <<>> <=> i = L + 1
  <2>1. Segment(q, L) = <<>> <=> L + 1 - i = 0
    BY <1>5
  <2>2. QED
    BY <1>0, <1>4, <2>1
<1>7. i = L + 1 <=> q[L] = "/"
  <2>1. L \in i..L <=> i # L + 1
    BY <1>0, <1>4
  <2>2. i = L + 1 => i # 1 /\ i - 1 = L
    BY <1>0, <1>4
  <2>3. QED
    BY <1>4, <2>1, <2>2
<1>8. ASSUME q[L] = "/" PROVE K - 1 \in 1..K /\ Nth(Ends(q), K - 1) = L - 1
  <2>1. K # 1
    <3>1. L - 1 \in 0..L /\ (L - 1) + 1 = L /\ L - 1 < L
      BY <1>0
    <3>2. L - 1 \in Ends(q)
      BY <1>8, <3>1, EndsFacts
    <3>3. Rank(Ends(q), L - 1) \in 1..K /\ Rank(Ends(q), L) \in 1..K
          /\ Rank(Ends(q), L - 1) < Rank(Ends(q), L)
      BY <1>0, <3>1, <3>2, RankGrows
    <3>4. QED
      BY <1>0, <3>3
  <2>2. /\ Nth(Ends(q), K - 1) \in Nat
        /\ StartsAt(q, Nth(Ends(q), K), Nth(Ends(q), K - 1) + 2)
    BY <1>0, <2>1, SegmentsFollow
  <2>3. Nth(Ends(q), K - 1) + 2 = L + 1
    BY <1>0, <1>3, <1>7, <1>8, <2>2, StartMeaning, Zenon
  <2>4. QED
    BY <1>0, <2>1, <2>2, <2>3
<1>9. QED
  BY <1>2, <1>6, <1>7, <1>8 DEF EndsInSlash

(* What covering asks of the segments, by how the prefix ends.             *)
LEMMA CoveringSegments ==
    ASSUME NEW T, NEW p \in Seq(T), NEW q \in Seq(T), q # <<>>
    PROVE  LET K == Cardinality(Ends(q))
           IN  /\ EndsInSlash(q) =>
                    (Covers(q, p) <=> SameSegments(p, q, K - 1) /\ K - 1 # Cardinality(Ends(p)))
               /\ ~EndsInSlash(q) => (Covers(q, p) <=> SameSegments(p, q, K))
<1> DEFINE P == SegmentSeq(p)
           Q == SegmentSeq(q)
           M == Cardinality(Ends(p))
           K == Cardinality(Ends(q))
           x(n) == Segment(p, Nth(Ends(p), n))
           y(n) == Segment(q, Nth(Ends(q), n))
<1>0. M \in Nat /\ K \in Nat \ {0}
  BY EndsFacts
<1>1. Len(P) = M /\ \A n \in 1..M : P[n] = x(n)
  BY SegmentSeqMeaning
<1>2. Len(Q) = K /\ \A n \in 1..K : Q[n] = y(n)
  BY SegmentSeqMeaning
<1>3. \A m : SameSegments(p, q, m) <=> m <= M /\ m <= K /\ \A n \in 1..m : x(n) = y(n)
  BY DEF SameSegments
<1>4. Q[K] = <<>> <=> EndsInSlash(q)
  BY LastSegment
<1>5. Covers(q, p) <=> /\ Len(Q) <= Len(P)
                       /\ \A n \in 1..Len(Q) : P[n] = Q[n] \/ (n = Len(Q) /\ Q[n] = <<>>)
  BY DEF Covers
<1> HIDE DEF P, Q, M, K, x, y
<1>6. K <= M => \A n \in 1..K : n \in 1..M
  BY <1>0
<1>7. Covers(q, p) <=> K <= M /\ \A n \in 1..K : x(n) = y(n) \/ (n = K /\ Q[n] = <<>>)
  BY <1>1, <1>2, <1>5, <1>6
<1>8. ASSUME Q[K] # <<>> PROVE Covers(q, p) <=> SameSegments(p, q, K)
  <2>1. K <= K
    BY <1>0
  <2>2. QED
    BY <1>3, <1>7, <1>8, <2>1
<1>9. ASSUME Q[K] = <<>> PROVE Covers(q, p) <=> SameSegments(p, q, K - 1) /\ K - 1 # M
  <2>1. \A n \in 1..K : n \in 1..(K - 1) \/ n = K
    BY <1>0
  <2>2. \A n \in 1..(K - 1) : n \in 1..K /\ n # K
    BY <1>0
  <2>3. (K <= M <=> K - 1 <= M /\ K - 1 # M) /\ K - 1 <= K
    BY <1>0
  <2>4. (\A n \in 1..K : x(n) = y(n) \/ (n = K /\ Q[n] = <<>>))
          <=> \A n \in 1..(K - 1) : x(n) = y(n)
    BY <1>9, <2>1, <2>2
  <2>5. QED
    BY <1>3, <1>7, <2>3, <2>4
<1>10. QED
  BY <1>4, <1>8, <1>9 DEF K, M

(* prefix_matches (routing.rs:154) compares characters, and covers segment *)
(* by segment exactly the paths it matches.                                *)
THEOREM CoversMeaning ==
    ASSUME NEW T, NEW p \in Seq(T), NEW q \in Seq(T), q # <<>>
    PROVE  Covers(q, p) <=> PrefixMatches(p, q)
<1> DEFINE K == Cardinality(Ends(q))
           M == Cardinality(Ends(p))
           L == Len(q)
           agree(e) == \A k \in 1..e : p[k] = q[k]
<1>0. /\ L \in Nat \ {0} /\ Len(p) \in Nat /\ K \in Nat \ {0} /\ M \in Nat \ {0}
      /\ Nth(Ends(q), K) = L /\ Nth(Ends(p), M) = Len(p)
      /\ L \in Ends(q) /\ Len(p) \in Ends(p)
      /\ Ends(p) \in SUBSET Nat /\ IsFiniteSet(Ends(p))
      /\ Ends(q) \in SUBSET Nat /\ IsFiniteSet(Ends(q))
  BY EndsFacts
<1>1. \A e \in 0..Len(p) : e \in Ends(p) <=> e = Len(p) \/ p[e + 1] = "/"
  BY EndsFacts
<1>2. \A e \in Ends(p) : e \in 0..Len(p)
  BY EndsFacts
<1>3. StartsWith(p, q) <=> L <= Len(p) /\ agree(L)
  BY StartsWithMeaning
<1>4. CASE EndsInSlash(q)
  <2> DEFINE m == K - 1
             e == L - 1
  <2>1. m \in 1..K /\ m \in 0..K /\ Nth(Ends(q), m) = e /\ e \in Nat /\ e + 1 = L /\ q[L] = "/"
    BY <1>0, <1>4, LastSegment DEF EndsInSlash
  <2>2. Covers(q, p) <=> SameSegments(p, q, m) /\ m # M
    BY <1>4, CoveringSegments
  <2>3. SameSegments(p, q, m) <=> e \in Ends(p) /\ agree(e)
    <3>1. m \in 1..Cardinality(Ends(q))
      BY <2>1
    <3> HIDE DEF m
    <3>2. SameSegments(p, q, m) <=> Nth(Ends(q), m) \in Ends(p) /\ agree(Nth(Ends(q), m))
      BY <3>1, SegmentsCompare
    <3>3. QED
      BY <2>1, <3>2
  <2>4. ASSUME e \in Ends(p), agree(e) PROVE m = M <=> e = Len(p)
    <3>1. e \in Ends(q) /\ Rank(Ends(q), e) = m
      BY <1>0, <2>1, NthExists
    <3>2. Rank(Ends(p), e) = m
      BY <2>4, <3>1, SegmentsAgree
    <3>3. Nth(Ends(p), m) = e
      BY <1>0, <2>4, <3>2, NthOfRank
    <3>4. m = M => e = Len(p)
      BY <1>0, <3>3
    <3>5. ASSUME e = Len(p) PROVE m = M
      <4>1. Rank(Ends(p), Len(p)) = M
        <5>1. M \in 1..Cardinality(Ends(p))
          BY <1>0
        <5>2. QED
          BY <1>0, <5>1, NthExists
      <4>2. QED
        BY <3>2, <3>5, <4>1
    <3>6. QED
      BY <3>4, <3>5
  <2>5. Covers(q, p) <=> e \in Ends(p) /\ agree(e) /\ e # Len(p)
    BY <2>2, <2>3, <2>4
  <2> HIDE DEF m
  <2>6. ASSUME e \in Ends(p), agree(e), e # Len(p) PROVE L <= Len(p) /\ agree(L)
    <3>1. e \in 0..Len(p)
      BY <1>2, <2>6
    <3>2. p[L] = "/" /\ L <= Len(p)
      BY <1>0, <1>1, <2>1, <2>6, <3>1
    <3>3. \A k \in 1..L : k \in 1..e \/ k = L
      BY <1>0, <2>1
    <3>4. QED
      BY <2>1, <2>6, <3>2, <3>3, Zenon
  <2>7. ASSUME L <= Len(p), agree(L) PROVE e \in Ends(p) /\ agree(e) /\ e # Len(p)
    <3>1. e \in 0..Len(p) /\ e # Len(p) /\ L \in 1..L
      BY <1>0, <2>1, <2>7
    <3>2. \A k \in 1..e : k \in 1..L
      BY <1>0, <2>1
    <3>3. p[e + 1] = "/"
      BY <2>1, <2>7, <3>1, Zenon
    <3>4. QED
      BY <1>1, <2>7, <3>1, <3>2, <3>3
  <2>8. PrefixMatches(p, q) <=> StartsWith(p, q)
    BY <1>4, MatchedStartsWith DEF PrefixMatches
  <2> HIDE DEF e, agree
  <2>9. QED
    BY <1>3, <2>5, <2>6, <2>7, <2>8
<1>5. CASE ~EndsInSlash(q)
  <2>1. K \in 1..K /\ K \in 0..K
    BY <1>0
  <2>2. Covers(q, p) <=> SameSegments(p, q, K)
    BY <1>5, CoveringSegments
  <2>3. SameSegments(p, q, K) <=> L \in Ends(p) /\ agree(L)
    BY <1>0, <2>1, SegmentsCompare
  <2>4. ASSUME L \in Ends(p), agree(L) PROVE PrefixMatches(p, q)
    <3>1. L \in 0..Len(p) /\ L <= Len(p) /\ (L = Len(p) \/ p[L + 1] = "/")
      BY <1>0, <1>1, <1>2, <2>4
    <3>2. L = Len(p) => p = q
      BY <2>4
    <3>3. QED
      BY <1>3, <2>4, <3>1, <3>2 DEF PrefixMatches
  <2>5. ASSUME PrefixMatches(p, q) PROVE L \in Ends(p) /\ agree(L)
    <3>1. L <= Len(p) /\ agree(L)
      BY <1>3, <2>5, MatchedStartsWith
    <3>2. p = q \/ p[L + 1] = "/"
      BY <1>5, <2>5 DEF PrefixMatches
    <3>3. L \in 0..Len(p)
      BY <1>0, <3>1
    <3>4. L \in Ends(p)
      BY <1>1, <3>2, <3>3
    <3>5. QED
      BY <3>1, <3>4
  <2>6. QED
    BY <2>2, <2>3, <2>4, <2>5
<1>6. QED
  BY <1>4, <1>5

(* A path has one segment more than slashes.                               *)
LEMMA EndsAreSlashes ==
    ASSUME NEW T, NEW p \in Seq(T)
    PROVE  /\ Occurrences(p, "/") \in Nat
           /\ Cardinality(Ends(p)) = Occurrences(p, "/") + 1
<1> DEFINE slashes == {i \in DOMAIN p : p[i] = "/"}
           inner == Ends(p) \ {Len(p)}
           f == [e \in inner |-> e + 1]
<1>0. /\ Len(p) \in Nat /\ DOMAIN p = 1..Len(p)
      /\ Ends(p) \in SUBSET Nat /\ IsFiniteSet(Ends(p)) /\ Len(p) \in Ends(p)
      /\ \A e \in Ends(p) : e \in 0..Len(p) /\ (e = Len(p) \/ p[e + 1] = "/")
      /\ \A e \in 0..Len(p) : (e = Len(p) \/ p[e + 1] = "/") => e \in Ends(p)
      /\ Cardinality(Ends(p)) \in Nat \ {0}
  BY EndsFacts
<1>1. IsFiniteSet(inner) /\ Cardinality(inner) = Cardinality(Ends(p)) - 1
  BY <1>0, FS_RemoveElement, Zenon
<1>2. ASSUME NEW e \in inner PROVE e \in Nat /\ e + 1 \in slashes
  <2>1. e \in 0..Len(p) /\ e # Len(p) /\ p[e + 1] = "/"
    BY <1>0, Zenon
  <2>2. e \in Nat /\ e + 1 \in 1..Len(p)
    <3>1. \A n \in Nat : \A x \in 0..n : x # n => x \in Nat /\ x + 1 \in 1..n
      OBVIOUS
    <3>2. QED
      BY <1>0, <2>1, <3>1, Zenon
  <2>3. QED
    BY <1>0, <2>1, <2>2, Zenon
<1>3. ASSUME NEW i \in slashes PROVE i - 1 \in inner /\ (i - 1) + 1 = i
  <2>1. i \in 1..Len(p) /\ p[i] = "/"
    BY <1>0, Zenon
  <2>2. i - 1 \in 0..Len(p) /\ i - 1 # Len(p) /\ (i - 1) + 1 = i
    <3>1. \A n \in Nat : \A x \in 1..n : x - 1 \in 0..n /\ x - 1 # n /\ (x - 1) + 1 = x
      OBVIOUS
    <3>2. QED
      BY <1>0, <2>1, <3>1, Zenon
  <2>3. QED
    BY <1>0, <2>1, <2>2, Zenon
<1> HIDE DEF inner, slashes
<1>4. f \in Bijection(inner, slashes)
  <2>1. f \in [inner -> slashes]
    BY <1>2
  <2>2. \A d, e \in inner : f[d] = f[e] => d = e
    BY <1>2
  <2>3. \A i \in slashes : \E e \in inner : f[e] = i
    BY <1>3
  <2>4. QED
    BY <2>1, <2>2, <2>3 DEF Bijection, Injection, Surjection, IsInjective
<1>5. Cardinality(slashes) = Cardinality(inner)
  <2>1. ExistsBijection(inner, slashes)
    BY <1>4 DEF ExistsBijection
  <2>2. QED
    BY <1>1, <2>1, FS_Bijection
<1>6. Occurrences(p, "/") = Cardinality(slashes)
  BY DEF Occurrences, slashes
<1>7. \A n \in Nat \ {0} : n - 1 \in Nat /\ n = (n - 1) + 1
  OBVIOUS
<1>8. Occurrences(p, "/") = Cardinality(Ends(p)) - 1
  BY <1>1, <1>5, <1>6
<1>9. QED
  BY <1>0, <1>7, <1>8, Zenon

(* Segments of one or two dots are what DotSegment looks for.              *)
LEMMA DotsAreSegments ==
    ASSUME NEW T, NEW d \in Seq(T)
    PROVE  DotSegment(d) <=> Range(SegmentSeq(d)) \cap {<<".">>, <<".", ".">>} # {}
<1> DEFINE N == Cardinality(Ends(d))
           dots == {<<".">>, <<".", ".">>}
<1>0. /\ Len(d) \in Nat /\ N \in Nat \ {0} /\ Ends(d) \in SUBSET Nat /\ IsFiniteSet(Ends(d))
      /\ \A e \in Ends(d) : e \in 0..Len(d) /\ (e = Len(d) \/ d[e + 1] = "/")
      /\ \A e \in 0..Len(d) : (e = Len(d) \/ d[e + 1] = "/") => e \in Ends(d)
  BY EndsFacts
<1>1. Range(SegmentSeq(d)) = {Segment(d, e) : e \in Ends(d)}
  <2>1. /\ DOMAIN SegmentSeq(d) = 1..N
        /\ \A n \in 1..N : SegmentSeq(d)[n] = Segment(d, Nth(Ends(d), n))
    BY SegmentSeqMeaning
  <2>2. \A n \in 1..N : Nth(Ends(d), n) \in Ends(d)
    BY <1>0, NthExists
  <2>3. \A e \in Ends(d) : Rank(Ends(d), e) \in 1..N /\ Nth(Ends(d), Rank(Ends(d), e)) = e
    BY <1>0, RankGrows, NthOfRank
  <2>4. Range(SegmentSeq(d)) = {Segment(d, Nth(Ends(d), n)) : n \in 1..N}
    BY <2>1 DEF Range
  <2>5. QED
    BY <2>2, <2>3, <2>4
<1>2. ASSUME NEW e \in Ends(d), Segment(d, e) \in dots
      PROVE  \E i \in 0..Len(d), w \in 1..2 : DotsAt(d, i, w)
  <2>1. e \in Nat /\ e \in 0..Len(d) /\ e <= Len(d)
    BY <1>0
  <2>2. PICK i : StartsAt(d, e, i)
    BY <2>1, StartMeaning, Zenon
  <2>3. i \in 1..(e + 1) /\ (i = 1 \/ d[i - 1] = "/")
    BY <2>2 DEF StartsAt
  <2>4. /\ Len(Segment(d, e)) = e + 1 - i
        /\ \A k \in 1..(e + 1 - i) : Segment(d, e)[k] = d[i - 1 + k]
    BY <2>1, <2>2, SegmentMeaning
  <2> DEFINE w == e + 1 - i
             j == i - 1
  <2>5. Len(Segment(d, e)) \in 1..2 /\ \A k \in 1..Len(Segment(d, e)) : Segment(d, e)[k] = "."
    BY <1>2
  <2>6. w \in 1..2 /\ \A k \in 1..w : d[j + k] = "."
    BY <2>4, <2>5
  <2>7. j \in 0..Len(d) /\ j + w = e /\ (j = 0 \/ d[j] = "/")
    BY <1>0, <2>1, <2>3
  <2>8. j + w <= Len(d) /\ (j + w = Len(d) \/ d[j + w + 1] = "/")
    BY <1>0, <2>1, <2>7
  <2> HIDE DEF j, w
  <2>9. DotsAt(d, j, w)
    BY <2>6, <2>7, <2>8 DEF DotsAt
  <2>10. QED
    BY <2>6, <2>7, <2>9
<1>3. ASSUME NEW i \in 0..Len(d), NEW w \in 1..2, DotsAt(d, i, w)
      PROVE  \E e \in Ends(d) : Segment(d, e) \in dots
  <2> DEFINE e == i + w
             s == Segment(d, e)
  <2>1. /\ e <= Len(d) /\ (i = 0 \/ d[i] = "/") /\ (e = Len(d) \/ d[e + 1] = "/")
        /\ \A k \in 1..w : d[i + k] = "."
    BY <1>3 DEF DotsAt
  <2>2. e \in 0..Len(d) /\ e \in Nat /\ i + 1 \in 1..(e + 1) /\ (i + 1 = 1 \/ d[(i + 1) - 1] = "/")
    BY <1>0, <2>1
  <2>3. e \in Ends(d)
    BY <1>0, <2>1, <2>2
  <2>4. \A k \in (i + 1)..e : d[k] # "/"
    <3>1. SUFFICES ASSUME NEW k \in (i + 1)..e PROVE d[k] # "/"
      OBVIOUS
    <3>2. k - i \in 1..w /\ i + (k - i) = k
      BY <1>0
    <3>3. QED
      BY <2>1, <3>2, Zenon
  <2>5. StartsAt(d, e, i + 1)
    BY <2>2, <2>4 DEF StartsAt
  <2> DEFINE b == i + 1
  <2>6. e + 1 - b = w /\ \A k \in 1..w : b - 1 + k = i + k
    BY <1>0
  <2>7. StartsAt(d, e, b) /\ e \in 0..Len(d)
    BY <2>2, <2>5
  <2> HIDE DEF e, s, b
  <2>8. /\ Segment(d, e) \in Seq(T) /\ Len(Segment(d, e)) = e + 1 - b
        /\ \A k \in 1..(e + 1 - b) : Segment(d, e)[k] = d[b - 1 + k]
    BY <2>7, SegmentMeaning
  <2>9. s \in Seq(T) /\ Len(s) = w /\ (w = 1 \/ w = 2) /\ \A k \in 1..w : s[k] = "."
    <3>1. \A k \in 1..w : Segment(d, e)[k] = d[i + k]
      BY <2>6, <2>8
    <3>2. QED
      BY <2>1, <2>6, <2>8, <3>1 DEF s
  <2>10. s \in dots
    BY <2>9
  <2>11. QED
    BY <2>3, <2>10 DEF s
<1>4. DotSegment(d) <=> \E i \in 0..Len(d), w \in 1..2 : DotsAt(d, i, w)
  BY DotSegmentMeaning
<1>5. QED
  BY <1>1, <1>2, <1>3, <1>4

(* canonical_request_path (routing.rs:114) accepts the acceptable paths,   *)
(* and no others, and answers with the decoded path.                       *)
THEOREM AcceptableMeaning ==
    ASSUME NEW S, NEW p \in Seq(S), "/" \notin DOMAIN Decode
    PROVE  /\ Acceptable(p) <=> CanonicalRequestPath(p) # None
           /\ CanonicalRequestPath(p) # None => The(CanonicalRequestPath(p)) = Decoded(p)
<1> DEFINE d == Decoded(p)
           T == {DecodeElement(e) : e \in S}
<1>1. d \in Seq(T) /\ DOMAIN d = DOMAIN p /\ Len(d) = Len(p)
      /\ DOMAIN p = 1..Len(p) /\ \A i \in 1..Len(p) : d[i] = DecodeElement(p[i])
  BY DEF Decoded
<1>2. CanonicalRequestPath(p) =
        IF /\ p # <<>> /\ p[1] = "/" /\ Range(p) \cap Undecodable = {}
           /\ ~EncodedDelimiter(p, d) /\ ~DotSegment(d)
        THEN Some(d) ELSE None
  BY DEF CanonicalRequestPath, Decoded
<1> HIDE DEF d
<1>3. Occurrences(d, "/") > Occurrences(p, "/") <=> Len(SegmentSeq(d)) # Len(SegmentSeq(p))
  <2>1. {i \in DOMAIN p : p[i] = "/"} \in SUBSET {i \in DOMAIN d : d[i] = "/"}
    BY <1>1 DEF DecodeElement
  <2>2. IsFiniteSet({i \in DOMAIN d : d[i] = "/"})
    <3>1. IsFiniteSet(1..Len(p)) /\ {i \in DOMAIN d : d[i] = "/"} \in SUBSET (1..Len(p))
      BY <1>1, FS_Interval
    <3>2. QED
      BY <3>1, FS_Subset
  <2>3. Occurrences(p, "/") <= Occurrences(d, "/")
    BY <2>1, <2>2, FS_Subset DEF Occurrences
  <2>4. /\ Occurrences(p, "/") \in Nat /\ Occurrences(d, "/") \in Nat
        /\ Len(SegmentSeq(p)) = Occurrences(p, "/") + 1
        /\ Len(SegmentSeq(d)) = Occurrences(d, "/") + 1
    BY <1>1, EndsAreSlashes, SegmentSeqMeaning
  <2>5. QED
    BY <2>3, <2>4
<1>4. EncodedDelimiter(p, d) <=> \/ Range(p) \cap DOMAIN Decode # {} /\ "\\" \in Range(d)
                                 \/ Len(SegmentSeq(d)) # Len(SegmentSeq(p))
  BY <1>3 DEF EncodedDelimiter
<1>5. DotSegment(d) <=> Range(SegmentSeq(d)) \cap {<<".">>, <<".", ".">>} # {}
  BY <1>1, DotsAreSegments
<1>6. Acceptable(p) <=> /\ p # <<>> /\ p[1] = "/" /\ Range(p) \cap Undecodable = {}
                        /\ ~EncodedDelimiter(p, d) /\ ~DotSegment(d)
  BY <1>4, <1>5 DEF Acceptable, d
<1>7. Some(d) # None /\ The(Some(d)) = d
  BY DEF Some, None, The
<1>8. QED
  BY <1>2, <1>6, <1>7 DEF d

\* The positions where a segment with a name ends.
NameEnds(p) == {e \in Ends(p) : e # 0 /\ p[e] # "/"}

(* The names of a path are the segments that end after something else      *)
(* than a slash.                                                           *)
LEMMA NameEndsFacts ==
    ASSUME NEW T, NEW p \in Seq(T)
    PROVE  /\ NameEnds(p) \in SUBSET Nat /\ IsFiniteSet(NameEnds(p))
           /\ Cardinality(NameEnds(p)) \in Nat
           /\ NameEnds(p) \in SUBSET (1..Len(p))
           /\ \A e \in 1..Len(p) :
                 e \in NameEnds(p) <=> p[e] # "/" /\ (e = Len(p) \/ p[e + 1] = "/")
           /\ Named(p) \in Seq(Seq(T)) /\ Len(Named(p)) = Cardinality(NameEnds(p))
           /\ \A n \in 1..Cardinality(NameEnds(p)) :
                 Named(p)[n] = Segment(p, Nth(NameEnds(p), n))
<1> DEFINE E == NameEnds(p)
           N == Cardinality(E)
           s(n) == Segment(p, Nth(E, n))
<1>0. /\ Len(p) \in Nat /\ Ends(p) \in SUBSET Nat /\ IsFiniteSet(Ends(p))
      /\ \A e \in Ends(p) : e \in 0..Len(p)
      /\ \A e \in 0..Len(p) : e \in Ends(p) <=> e = Len(p) \/ p[e + 1] = "/"
  BY EndsFacts
<1>1. E \in SUBSET Ends(p)
  BY DEF NameEnds
<1>2. E \in SUBSET Nat /\ IsFiniteSet(E) /\ N \in Nat
  <2>1. IsFiniteSet(E)
    BY <1>0, <1>1, FS_Subset
  <2>2. QED
    BY <1>0, <1>1, <2>1, FS_CardinalityType
<1>3. E \in SUBSET (1..Len(p))
  <2>1. \A n \in Nat : \A x \in 0..n : x # 0 => x \in 1..n
    OBVIOUS
  <2>2. \A e \in E : e \in 0..Len(p) /\ e # 0
    BY <1>0 DEF NameEnds
  <2>3. QED
    BY <1>0, <2>1, <2>2
<1>4. ASSUME NEW e \in 1..Len(p)
      PROVE  e \in E <=> p[e] # "/" /\ (e = Len(p) \/ p[e + 1] = "/")
  <2>1. e \in 0..Len(p) /\ e # 0
    BY <1>0
  <2>2. QED
    BY <1>0, <2>1 DEF NameEnds
<1>5. Named(p) = [n \in 1..N |-> s(n)]
  BY DEF Named, InOrder, NameEnds
<1> HIDE DEF E
<1>6. ASSUME NEW n \in 1..N PROVE s(n) \in Seq(T)
  <2> DEFINE e == Nth(E, n)
  <2>1. e \in E
    BY <1>2, NthExists
  <2> HIDE DEF e
  <2>2. e \in 0..Len(p) /\ e \in Nat
    BY <1>0, <1>1, <2>1
  <2>3. PICK i : StartsAt(p, e, i)
    BY <2>2, StartMeaning
  <2>4. Segment(p, e) \in Seq(T)
    BY <2>2, <2>3, SegmentMeaning
  <2>5. QED
    BY <2>4 DEF e
<1> HIDE DEF N, s
<1>7. [n \in 1..N |-> s(n)] \in Seq(Seq(T)) /\ Len([n \in 1..N |-> s(n)]) = N
  BY <1>2, <1>6
<1>8. \A n \in 1..N : [k \in 1..N |-> s(k)][n] = s(n)
  OBVIOUS
<1>9. QED
  BY <1>2, <1>3, <1>4, <1>5, <1>7, <1>8 DEF E, N, s

(* Counting off a set that consists of a lower and an upper part, the      *)
(* upper one moved there from elsewhere.                                   *)
LEMMA NthOfParts ==
    ASSUME NEW A \in SUBSET Nat, IsFiniteSet(A), NEW B \in SUBSET Nat, IsFiniteSet(B), NEW c \in Nat,
           \A x \in A : x <= c, \A y \in B : y # 0
    PROVE  LET E == A \cup {c + y : y \in B}
           IN  /\ Cardinality(E) = Cardinality(A) + Cardinality(B)
               /\ \A n \in 1..Cardinality(A) : Nth(E, n) = Nth(A, n)
               /\ \A n \in 1..Cardinality(B) : Nth(E, Cardinality(A) + n) = c + Nth(B, n)
<1> DEFINE C == {c + y : y \in B}
           E == A \cup C
           upto(S, x) == {z \in S : z <= x}
<1>0. Cardinality(A) \in Nat /\ Cardinality(B) \in Nat
  BY FS_CardinalityType
<1>1. ASSUME NEW D \in SUBSET B
      PROVE  IsFiniteSet({c + y : y \in D}) /\ Cardinality({c + y : y \in D}) = Cardinality(D)
  <2> DEFINE f == [y \in D |-> c + y]
  <2>1. IsFiniteSet(D)
    BY FS_Subset, Zenon
  <2>2. f \in Bijection(D, {c + y : y \in D})
    BY DEF Bijection, Injection, Surjection, IsInjective
  <2>3. ExistsBijection(D, {c + y : y \in D})
    BY <2>2 DEF ExistsBijection
  <2>4. QED
    BY <2>1, <2>3, FS_Bijection
<1>2. C \in SUBSET Nat /\ IsFiniteSet(C) /\ Cardinality(C) = Cardinality(B)
  BY <1>1
<1>3. A \cap C = {}
  OBVIOUS
<1>4. E \in SUBSET Nat /\ IsFiniteSet(E) /\ Cardinality(E) = Cardinality(A) + Cardinality(B)
  <2>1. A \cap C = {} => Cardinality(A \cap C) = 0
    BY FS_EmptySet
  <2> HIDE DEF C
  <2>2. IsFiniteSet(E) /\ Cardinality(E) = Cardinality(A) + Cardinality(C) - Cardinality(A \cap C)
    BY <1>2, FS_Union
  <2>3. QED
    BY <1>0, <1>2, <1>3, <2>1, <2>2
<1>5. ASSUME NEW n \in 1..Cardinality(A) PROVE Nth(E, n) = Nth(A, n)
  <2> DEFINE x == Nth(A, n)
  <2>1. x \in A /\ Rank(A, x) = n
    BY NthExists
  <2> HIDE DEF x
  <2>2. x \in Nat /\ x <= c
    BY <2>1
  <2>3. \A z \in C : ~(z <= x)
    BY <2>2
  <2>4. upto(E, x) = upto(A, x)
    BY <2>3
  <2>5. Rank(E, x) = n /\ x \in E
    BY <2>1, <2>4 DEF Rank
  <2> HIDE DEF E
  <2>6. Nth(E, n) = x
    BY <1>4, <2>5, NthOfRank
  <2>7. QED
    BY <2>6 DEF x
<1>6. ASSUME NEW n \in 1..Cardinality(B) PROVE Nth(E, Cardinality(A) + n) = c + Nth(B, n)
  <2> DEFINE y == Nth(B, n)
             D == upto(B, y)
             F == {c + z : z \in D}
  <2>1. y \in B /\ Rank(B, y) = n
    BY NthExists
  <2> HIDE DEF y
  <2>2. y \in Nat /\ y # 0
    BY <2>1
  <2>3. \A z \in A : z <= c + y
    BY <2>2
  <2>4. \A z \in B : c + z <= c + y <=> z <= y
    BY <2>2
  <2>5. upto(E, c + y) = A \cup F
    BY <2>3, <2>4, Zenon
  <2>6. D \in SUBSET B /\ Cardinality(D) = n
    BY <2>1 DEF Rank
  <2> HIDE DEF D
  <2>7. IsFiniteSet(F) /\ Cardinality(F) = n
    BY <1>1, <2>6
  <2>8. A \cap F = {}
    BY <1>3, <2>6
  <2> HIDE DEF F
  <2>9. Cardinality(A \cap F) = 0
    BY <2>8, FS_EmptySet
  <2>10. Cardinality(A \cup F) = Cardinality(A) + Cardinality(F) - Cardinality(A \cap F)
    BY <2>7, FS_Union
  <2>11. Rank(E, c + y) = Cardinality(A) + n
    <3>1. n \in Nat
      BY <1>0
    <3>2. Cardinality(A \cup F) = Cardinality(A) + n
      BY <1>0, <2>7, <2>9, <2>10, <3>1
    <3>3. QED
      BY <2>5, <3>2 DEF Rank
  <2>12. c + y \in E
    BY <2>1
  <2> HIDE DEF E
  <2>13. QED
    BY <1>4, <2>11, <2>12, NthOfRank, Zenon DEF y
<1>7. QED
  BY <1>4, <1>5, <1>6

(* Two paths that meet at a slash: the segments with a name are those of   *)
(* the one followed by those of the other.                                 *)
LEMMA NamedConcat ==
    ASSUME NEW T, NEW a \in Seq(T), NEW b \in Seq(T), a # <<>>,
           b = <<>> \/ EndsInSlash(a) \/ b[1] = "/"
    PROVE  Named(a \o b) = Named(a) \o Named(b)
<1> DEFINE s == a \o b
           c == Len(a)
           A == NameEnds(a)
           B == NameEnds(b)
           E == NameEnds(s)
<1>1. s \in Seq(T)
  OBVIOUS
<1>2. Len(s) = c + Len(b) /\ c \in Nat \ {0} /\ Len(b) \in Nat
  OBVIOUS
<1>3. \A n \in 1..c : s[n] = a[n]
  OBVIOUS
<1>4. \A n \in 1..Len(b) : s[c + n] = b[n]
  OBVIOUS
<1> HIDE DEF s, c
<1>5. Len(b) = 0 \/ a[c] = "/" \/ b[1] = "/"
  BY DEF EndsInSlash, c
<1>6. /\ A \in SUBSET Nat /\ IsFiniteSet(A) /\ A \in SUBSET (1..c)
      /\ \A e \in 1..c : e \in A <=> a[e] # "/" /\ (e = c \/ a[e + 1] = "/")
  BY NameEndsFacts, Zenon DEF c
<1>7. /\ B \in SUBSET Nat /\ IsFiniteSet(B) /\ B \in SUBSET (1..Len(b))
      /\ \A e \in 1..Len(b) : e \in B <=> b[e] # "/" /\ (e = Len(b) \/ b[e + 1] = "/")
  BY NameEndsFacts, Zenon
<1>8. /\ E \in SUBSET Nat /\ IsFiniteSet(E) /\ E \in SUBSET (1..Len(s))
      /\ \A e \in 1..Len(s) : e \in E <=> s[e] # "/" /\ (e = Len(s) \/ s[e + 1] = "/")
  BY <1>1, NameEndsFacts, Zenon
<1> HIDE DEF A, B, E
<1>9. ASSUME NEW e \in 1..c PROVE e \in E <=> e \in A
  <2>1. e \in 1..Len(s) /\ s[e] = a[e]
    BY <1>2, <1>3
  <2>2. CASE e # c
    <3>1. e + 1 \in 1..c /\ e # Len(s)
      BY <1>2, <2>2
    <3>2. QED
      BY <1>3, <1>6, <1>8, <2>1, <2>2, <3>1
  <2>3. CASE e = c /\ Len(b) = 0
    BY <1>2, <1>6, <1>8, <2>1, <2>3
  <2>4. CASE e = c /\ Len(b) # 0
    <3>1. c # Len(s) /\ 1 \in 1..Len(b)
      BY <1>2, <2>4
    <3>2. s[c + 1] = b[1]
      BY <1>4, <3>1
    <3>3. QED
      BY <1>5, <1>6, <1>8, <2>1, <2>4, <3>1, <3>2
  <2>5. QED
    BY <2>2, <2>3, <2>4
<1>10. ASSUME NEW e \in 1..Len(b) PROVE c + e \in E <=> e \in B
  <2>1. c + e \in 1..Len(s) /\ s[c + e] = b[e] /\ (c + e = Len(s) <=> e = Len(b))
    BY <1>2, <1>4
  <2>2. ASSUME e # Len(b) PROVE s[(c + e) + 1] = b[e + 1]
    <3>1. e + 1 \in 1..Len(b) /\ (c + e) + 1 = c + (e + 1)
      BY <1>2, <2>2
    <3>2. QED
      BY <1>4, <3>1
  <2>3. QED
    BY <1>7, <1>8, <2>1, <2>2
<1>11. E = A \cup {c + y : y \in B}
  <2>1. ASSUME NEW e \in E PROVE e \in A \cup {c + y : y \in B}
    <3>1. e \in 1..Len(s) /\ e \in Nat
      BY <1>8
    <3>2. e \in 1..c \/ (e - c \in 1..Len(b) /\ c + (e - c) = e)
      BY <1>2, <3>1
    <3>3. QED
      BY <1>9, <1>10, <2>1, <3>2
  <2>2. A \subseteq E
    BY <1>6, <1>9
  <2>3. {c + y : y \in B} \subseteq E
    BY <1>7, <1>10
  <2>4. QED
    BY <2>1, <2>2, <2>3
<1>12. /\ \A x \in A : x <= c
       /\ \A y \in B : y # 0
  BY <1>2, <1>6, <1>7
<1> DEFINE M == Cardinality(A)
           N == Cardinality(B)
<1>13. /\ Cardinality(E) = M + N
       /\ \A n \in 1..M : Nth(E, n) = Nth(A, n)
       /\ \A n \in 1..N : Nth(E, M + n) = c + Nth(B, n)
  <2> DEFINE G == A \cup {c + y : y \in B}
  <2>1. /\ Cardinality(G) = M + N
        /\ \A n \in 1..M : Nth(G, n) = Nth(A, n)
        /\ \A n \in 1..N : Nth(G, M + n) = c + Nth(B, n)
    <3>1. A \in SUBSET Nat /\ IsFiniteSet(A) /\ B \in SUBSET Nat /\ IsFiniteSet(B) /\ c \in Nat
      BY <1>2, <1>6, <1>7
    <3>2. QED
      BY <1>12, <3>1, NthOfParts, Zenon
  <2> HIDE DEF M, N
  <2>2. QED
    BY <1>11, <2>1
<1>14. M \in Nat /\ N \in Nat
  BY <1>6, <1>7, FS_CardinalityType
<1>15. ASSUME NEW e \in A PROVE Segment(s, e) = Segment(a, e)
  <2>1. e \in Nat /\ e \in 1..c /\ e \in 0..Len(a) /\ e \in 0..Len(s)
    BY <1>2, <1>6 DEF c
  <2>2. PICK i : StartsAt(a, e, i)
    BY <2>1, StartMeaning, Zenon
  <2>3. i \in 1..(e + 1) /\ (i = 1 \/ a[i - 1] = "/") /\ \A k \in i..e : a[k] # "/"
    BY <2>2 DEF StartsAt
  <2>4. \A k \in i..e : s[k] # "/"
    <3>1. \A k \in i..e : k \in 1..c
      BY <1>2, <2>1, <2>3
    <3>2. QED
      BY <1>3, <2>3, <3>1
  <2>5. i = 1 \/ s[i - 1] = "/"
    <3>1. i # 1 => i - 1 \in 1..c
      BY <1>2, <2>1, <2>3
    <3>2. QED
      BY <1>3, <2>3, <3>1
  <2>6. StartsAt(s, e, i)
    BY <2>3, <2>4, <2>5 DEF StartsAt
  <2> DEFINE x == Segment(s, e)
             y == Segment(a, e)
  <2>7. x \in Seq(T) /\ Len(x) = e + 1 - i /\ \A k \in 1..(e + 1 - i) : x[k] = s[i - 1 + k]
    BY <1>1, <2>1, <2>6, SegmentMeaning
  <2>8. y \in Seq(T) /\ Len(y) = e + 1 - i /\ \A k \in 1..(e + 1 - i) : y[k] = a[i - 1 + k]
    BY <2>1, <2>2, SegmentMeaning
  <2>9. \A k \in 1..(e + 1 - i) : i - 1 + k \in 1..c
    BY <1>2, <2>1, <2>3
  <2> HIDE DEF x, y
  <2>10. Len(x) = Len(y) /\ \A k \in 1..Len(x) : x[k] = y[k]
    BY <1>3, <2>7, <2>8, <2>9, Zenon
  <2>11. x = y
    BY <2>7, <2>8, <2>10
  <2>12. QED
    BY <2>11 DEF x, y
<1>16. ASSUME NEW e \in B PROVE Segment(s, c + e) = Segment(b, e)
  <2>1. e \in Nat /\ e \in 1..Len(b) /\ e \in 0..Len(b) /\ c + e \in 0..Len(s) /\ c + e \in Nat
    BY <1>2, <1>7
  <2>2. PICK i : StartsAt(b, e, i)
    BY <2>1, StartMeaning, Zenon
  <2>3. i \in 1..(e + 1) /\ (i = 1 \/ b[i - 1] = "/") /\ \A k \in i..e : b[k] # "/"
    BY <2>2 DEF StartsAt
  <2>4. ASSUME NEW k \in (c + i)..(c + e) PROVE s[k] # "/"
    <3>1. k - c \in i..e /\ k - c \in 1..Len(b) /\ c + (k - c) = k
      BY <1>2, <2>1, <2>3
    <3>2. QED
      BY <1>4, <2>3, <3>1
  <2>5. s[(c + i) - 1] = "/"
    <3>1. CASE i # 1
      <4>1. i - 1 \in 1..Len(b) /\ c + (i - 1) = (c + i) - 1
        BY <1>2, <2>1, <2>3, <3>1
      <4>2. QED
        BY <1>4, <2>3, <3>1, <4>1
    <3>2. CASE i = 1
      <4>1. (c + i) - 1 = c /\ 1 \in 1..Len(b) /\ c \in 1..c /\ Len(b) # 0
        BY <1>2, <2>1, <3>2
      <4>2. b[1] # "/"
        BY <2>1, <2>3, <3>2
      <4>3. QED
        BY <1>3, <1>5, <4>1, <4>2
    <3>3. QED
      BY <3>1, <3>2
  <2>6. c + i \in 1..((c + e) + 1)
    BY <1>2, <2>1, <2>3
  <2>7. StartsAt(s, c + e, c + i)
    BY <2>4, <2>5, <2>6 DEF StartsAt
  <2> DEFINE x == Segment(s, c + e)
             y == Segment(b, e)
             w == e + 1 - i
  <2>8. /\ x \in Seq(T) /\ Len(x) = (c + e) + 1 - (c + i)
        /\ \A k \in 1..((c + e) + 1 - (c + i)) : x[k] = s[(c + i) - 1 + k]
    BY <1>1, <2>1, <2>7, SegmentMeaning
  <2>9. y \in Seq(T) /\ Len(y) = w /\ \A k \in 1..w : y[k] = b[i - 1 + k]
    BY <2>1, <2>2, SegmentMeaning
  <2>10. (c + e) + 1 - (c + i) = w
    BY <1>2, <2>1, <2>3
  <2>11. \A k \in 1..w : i - 1 + k \in 1..Len(b) /\ (c + i) - 1 + k = c + (i - 1 + k)
    BY <1>2, <2>1, <2>3
  <2> HIDE DEF x, y, w
  <2>12. \A k \in 1..w : x[k] = y[k]
    BY <1>4, <2>8, <2>9, <2>10, <2>11
  <2>13. x \in Seq(T) /\ Len(x) = w
    BY <2>8, <2>10
  <2>14. x = y
    BY <2>9, <2>12, <2>13
  <2>15. QED
    BY <2>14 DEF x, y
<1> DEFINE X == Named(s)
           Y == Named(a)
           Z == Named(b)
<1>17. X \in Seq(Seq(T)) /\ Len(X) = M + N /\ \A n \in 1..(M + N) : X[n] = Segment(s, Nth(E, n))
  BY <1>1, <1>13, NameEndsFacts, Zenon DEF E
<1>18. Y \in Seq(Seq(T)) /\ Len(Y) = M /\ \A n \in 1..M : Y[n] = Segment(a, Nth(A, n))
  BY NameEndsFacts DEF A
<1>19. Z \in Seq(Seq(T)) /\ Len(Z) = N /\ \A n \in 1..N : Z[n] = Segment(b, Nth(B, n))
  BY NameEndsFacts DEF B
<1> HIDE DEF X, Y, Z, M, N
<1>20. ASSUME NEW n \in 1..M PROVE X[n] = Y[n]
  <2>1. Nth(A, n) \in A /\ n \in 1..(M + N)
    BY <1>6, <1>14, NthExists DEF M
  <2>2. QED
    BY <1>13, <1>15, <1>17, <1>18, <2>1
<1>21. ASSUME NEW n \in 1..N PROVE X[M + n] = Z[n]
  <2>1. Nth(B, n) \in B
    BY <1>7, NthExists DEF N
  <2>2. M + n \in 1..(M + N)
    BY <1>14
  <2>3. QED
    BY <1>13, <1>16, <1>17, <1>19, <2>1, <2>2
<1>22. X = Y \o Z
  <2> DEFINE U == Seq(T)
             W == Y \o Z
  <2>0. Y \in Seq(U) /\ Z \in Seq(U) /\ Len(Y) = M /\ Len(Z) = N
    BY <1>18, <1>19
  <2> HIDE DEF U
  <2>1. W \in Seq(U) /\ Len(W) = Len(Y) + Len(Z)
    BY <2>0
  <2>2. \A n \in 1..M : W[n] = Y[n]
    BY <2>0
  <2>3. \A n \in 1..Len(Z) : W[Len(Y) + n] = Z[n]
    BY <2>0
  <2> HIDE DEF W
  <2>4. ASSUME NEW n \in 1..(M + N) PROVE X[n] = W[n]
    <3>1. n \in 1..M \/ (n - M \in 1..N /\ M + (n - M) = n)
      BY <1>14
    <3>2. QED
      BY <1>20, <1>21, <2>0, <2>2, <2>3, <3>1
  <2>5. X = W
    <3>1. X \in Seq(U) /\ W \in Seq(U) /\ Len(X) = Len(W) /\ \A n \in 1..Len(X) : X[n] = W[n]
      BY <1>17, <2>0, <2>1, <2>4 DEF U
    <3>2. QED
      BY <3>1
  <2>6. QED
    BY <2>5 DEF W
<1>23. QED
  BY <1>22 DEF X, Y, Z, s

-----------------------------------------------------------------------------
(* Where a prefix matches, the path goes on behind a slash or ends.        *)
LEMMA MatchedAtSlash ==
    ASSUME NEW T, NEW q \in Seq(T), NEW rest \in Seq(T), q # <<>>, PrefixMatches(q \o rest, q)
    PROVE  rest = <<>> \/ EndsInSlash(q) \/ rest[1] = "/"
<1>1. Len(q) \in Nat /\ Len(rest) \in Nat /\ Len(q \o rest) = Len(q) + Len(rest)
  OBVIOUS
<1>2. ASSUME rest # <<>> PROVE (q \o rest)[Len(q) + 1] = rest[1]
  BY <1>2
<1>3. ASSUME rest # <<>> PROVE q \o rest # q
  <2>1. Len(rest) # 0
    BY <1>3
  <2>2. Len(q \o rest) # Len(q)
    BY <1>1, <2>1
  <2>3. QED
    BY <2>2
<1>4. QED
  BY <1>2, <1>3 DEF PrefixMatches

(* rewrite_prefix (routing.rs:176) keeps the names that follow the local   *)
(* prefix, and puts those of the upstream prefix before them.              *)
LEMMA RewriteKeepsNames ==
    ASSUME NEW T, "/" \in T, NEW local \in Seq(T), NEW upstream \in Seq(T), NEW rest \in Seq(T),
           NEW new, local # <<>>, upstream # <<>>, PrefixMatches(local \o rest, local),
           PrefixMatches(new, upstream),
           new \in {upstream \o rest, upstream \o <<"/">> \o rest}
    PROVE  LET names == Named(local \o rest)
           IN  Named(new) = Named(upstream) \o SubSeq(names, Len(Named(local)) + 1, Len(names))
<1> DEFINE names == Named(local \o rest)
           slash == <<"/">>
<1>1. names = Named(local) \o Named(rest)
  BY MatchedAtSlash, NamedConcat
<1>2. SubSeq(names, Len(Named(local)) + 1, Len(names)) = Named(rest)
  <2> DEFINE U == Seq(T)
             x == Named(local)
             y == Named(rest)
  <2>1. x \in Seq(U) /\ y \in Seq(U)
    BY NameEndsFacts
  <2> HIDE DEF U, x, y
  <2>2. SubSeq(x \o y, Len(x) + 1, Len(x \o y)) = y
    BY <2>1
  <2>3. QED
    BY <1>1, <2>2 DEF x, y
<1>3. CASE new = upstream \o rest
  <2>1. rest = <<>> \/ EndsInSlash(upstream) \/ rest[1] = "/"
    BY <1>3, MatchedAtSlash
  <2>2. Named(new) = Named(upstream) \o Named(rest)
    BY <1>3, <2>1, NamedConcat
  <2>3. QED
    BY <1>2, <2>2, Zenon
<1>4. CASE new = (upstream \o slash) \o rest
  <2> DEFINE head == upstream \o slash
  <2>1. slash \in Seq(T) /\ Len(slash) = 1 /\ slash[1] = "/"
    OBVIOUS
  <2> HIDE DEF slash
  <2>2. /\ head \in Seq(T) /\ Len(head) = Len(upstream) + 1 /\ head # <<>>
        /\ head[Len(upstream) + 1] = "/"
    <3>1. slash \in Seq(T)
      BY <2>1
    <3>2. head \in Seq(T) /\ Len(head) = Len(upstream) + Len(slash)
      BY <3>1
    <3>3. \A n \in 1..Len(slash) : head[Len(upstream) + n] = slash[n]
      BY <3>1
    <3>4. Len(upstream) \in Nat /\ Len(upstream) + 1 # 0 /\ 1 \in 1..1
      OBVIOUS
    <3> HIDE DEF head
    <3>5. head # <<>>
      BY <2>1, <3>2, <3>4
    <3>6. QED
      BY <2>1, <3>2, <3>3, <3>4, <3>5
  <2>3. EndsInSlash(head)
    BY <2>2 DEF EndsInSlash
  <2>4. Named(head) = Named(upstream) \o Named(slash)
    BY <2>1, NamedConcat
  <2>5. Named(slash) = <<>>
    <3>1. NameEnds(slash) \in SUBSET (1..1) /\ \A e \in 1..1 : e \in NameEnds(slash) => slash[e] # "/"
      BY <2>1, NameEndsFacts, Zenon
    <3>2. NameEnds(slash) = {}
      BY <2>1, <3>1
    <3>3. Named(slash) \in Seq(Seq(T)) /\ Len(Named(slash)) = Cardinality(NameEnds(slash))
      BY <2>1, NameEndsFacts
    <3>4. QED
      BY <3>2, <3>3, FS_EmptySet
  <2>6. Named(upstream) \in Seq(Seq(T))
    BY NameEndsFacts
  <2>7. Named(head) = Named(upstream)
    BY <2>4, <2>5, <2>6
  <2> HIDE DEF head
  <2>8. Named(head \o rest) = Named(head) \o Named(rest)
    BY <2>2, <2>3, NamedConcat
  <2>9. QED
    BY <1>2, <1>4, <2>7, <2>8, Zenon DEF head
<1>5. QED
  BY <1>3, <1>4, Zenon

-----------------------------------------------------------------------------
(* What is searched stays the same, and the searches answer what their     *)
(* definitions say.                                                        *)
THEOREM SearchInvariant == SearchSpec => []SearchInv
<1>1. SearchInit => SearchInv
  BY DEF SearchInit, SearchInv, Searched
<1>2. SearchInv /\ [Search]_search_vars => SearchInv'
  BY DEF SearchInv, Search, search_vars, Searched
<1>3. QED
  BY <1>1, <1>2, PTL DEF SearchSpec

\* Route k covers the path, and no other one does so better or as well and
\* stands before it.
BestCover(t, p, k) ==
    /\ k \in DOMAIN t /\ Covers(Decoded(t[k].prefix), Decoded(p))
    /\ \A i \in DOMAIN t : Covers(Decoded(t[i].prefix), Decoded(p)) =>
          /\ StartsWith(Decoded(t[k].prefix), Decoded(t[i].prefix))
          /\ Decoded(t[i].prefix) = Decoded(t[k].prefix) => k <= i

Routable(t, p) ==
    Acceptable(p) /\ \E i \in DOMAIN t : Covers(Decoded(t[i].prefix), Decoded(p))

(* The prefixes of a validated route table, decoded, and what it means     *)
(* that one of them matches.                                               *)
LEMMA TablePrefixes ==
    ASSUME NEW t \in RouteTables, NEW p \in Paths
    PROVE  LET T == {DecodeElement(e) : e \in Elements}
           IN  /\ "/" \in T /\ DOMAIN t = 1..Len(t) /\ Len(t) \in Nat
               /\ Decoded(p) \in Seq(T)
               /\ \A i \in DOMAIN t : \A q \in {t[i].prefix, t[i].upstream} :
                     /\ q \in Seq(Elements) /\ CanonicalRequestPath(q) # None
                     /\ The(CanonicalRequestPath(q)) = Decoded(q)
                     /\ Decoded(q) \in Seq(T) /\ Decoded(q) # <<>>
               /\ \A i \in DOMAIN t : PrefixMatches(Decoded(p), Decoded(t[i].prefix))
                                        <=> Covers(Decoded(t[i].prefix), Decoded(p))
<1> DEFINE T == {DecodeElement(e) : e \in Elements}
<1>0. /\ "/" \in Elements /\ "/" \notin DOMAIN Decode /\ p \in Seq(Elements)
      /\ t \in Seq([prefix : Seq(Elements), upstream : Seq(Elements)])
      /\ \A i \in DOMAIN t : /\ CanonicalRequestPath(t[i].prefix) # None
                             /\ CanonicalRequestPath(t[i].upstream) # None
  BY SearchAssumption, Zenon
<1>1. "/" \in T
  BY <1>0 DEF DecodeElement
<1>2. DOMAIN t = 1..Len(t) /\ Len(t) \in Nat
  BY <1>0
<1>3. \A i \in DOMAIN t : t[i].prefix \in Seq(Elements) /\ t[i].upstream \in Seq(Elements)
  <2>1. SUFFICES ASSUME NEW i \in DOMAIN t
                 PROVE  t[i].prefix \in Seq(Elements) /\ t[i].upstream \in Seq(Elements)
    OBVIOUS
  <2> DEFINE R == [prefix : Seq(Elements), upstream : Seq(Elements)]
  <2>2. t[i] \in R
    <3>1. t \in Seq(R)
      BY <1>0
    <3> HIDE DEF R
    <3>2. QED
      BY <3>1
  <2>3. QED
    BY <2>2
<1>4. ASSUME NEW q \in Seq(Elements) PROVE Decoded(q) \in Seq(T)
  BY DEF Decoded
<1>5. ASSUME NEW q \in Seq(Elements), CanonicalRequestPath(q) # None
      PROVE  The(CanonicalRequestPath(q)) = Decoded(q) /\ Decoded(q) # <<>>
  <2>1. The(CanonicalRequestPath(q)) = Decoded(q)
    BY <1>0, <1>5, AcceptableMeaning
  <2>2. The(CanonicalRequestPath(q)) # <<>>
    BY <1>5, CanonicalMeaning, Zenon
  <2>3. QED
    BY <2>1, <2>2
<1> HIDE DEF T
<1>6. ASSUME NEW i \in DOMAIN t
      PROVE  PrefixMatches(Decoded(p), Decoded(t[i].prefix))
                <=> Covers(Decoded(t[i].prefix), Decoded(p))
  <2>1. Decoded(p) \in Seq(T) /\ Decoded(t[i].prefix) \in Seq(T) /\ Decoded(t[i].prefix) # <<>>
    BY <1>0, <1>3, <1>4, <1>5
  <2>2. QED
    BY <2>1, CoversMeaning
<1>7. ASSUME NEW i \in DOMAIN t, NEW q \in {t[i].prefix, t[i].upstream}
      PROVE  /\ q \in Seq(Elements) /\ CanonicalRequestPath(q) # None
             /\ The(CanonicalRequestPath(q)) = Decoded(q)
             /\ Decoded(q) \in Seq(T) /\ Decoded(q) # <<>>
  <2>1. q \in Seq(Elements) /\ CanonicalRequestPath(q) # None
    BY <1>0, <1>3
  <2>2. QED
    BY <1>4, <1>5, <2>1
<1>8. QED
  BY <1>0, <1>1, <1>2, <1>4, <1>6, <1>7, Zenon DEF T

(* find_server_route (routing.rs:52) finds the best cover of every path    *)
(* that can be routed.                                                     *)
LEMMA ServerSearch ==
    ASSUME NEW t \in RouteTables, NEW p \in Paths
    PROVE  LET found == FindServerRoute(ServerRoutes(t), "GET", p, "a")
           IN  /\ found # None <=> Routable(t, p)
               /\ \A m \in found : BestCover(t, p, m.route.id)
<1> DEFINE routes == ServerRoutes(t)
           T == {DecodeElement(e) : e \in Elements}
           found == FindServerRoute(routes, "GET", p, "a")
           considered == ServerConsidered(routes, "GET", "a")
           matching == ServerMatching(routes, "GET", p, "a")
           prefix(i) == The(ServerPrefix(routes[i]))
           covers(i) == Covers(Decoded(t[i].prefix), Decoded(p))
<1>0. /\ DOMAIN t = 1..Len(t) /\ Len(t) \in Nat
      /\ \A i \in DOMAIN t :
            /\ t[i].prefix \in Seq(Elements) /\ CanonicalRequestPath(t[i].prefix) # None
            /\ The(CanonicalRequestPath(t[i].prefix)) = Decoded(t[i].prefix)
            /\ Decoded(t[i].prefix) \in Seq(T)
      /\ \A i \in DOMAIN t : PrefixMatches(Decoded(p), Decoded(t[i].prefix)) <=> covers(i)
  BY TablePrefixes, Zenon
<1>1. p \in Seq(Elements) /\ "/" \notin DOMAIN Decode
  BY SearchAssumption, Zenon
<1>2. DOMAIN routes = DOMAIN t /\ \A i \in DOMAIN t :
        /\ routes[i].id = i /\ routes[i].methods = {"GET"}
        /\ routes[i].upstream_prefix = {t[i].prefix}
  BY Zenon DEF ServerRoutes, Some
<1>3. \A i \in DOMAIN t : " a" \in routes[i].client_identity
  BY Zenon DEF ServerRoutes, Some
<1> DEFINE rec(i) == [id |-> i, methods |-> {"GET"}, upstream_prefix |-> Some(t[i].prefix),
                      client_identity |-> Some(" a"), client_identities |-> {}]
           R == {rec(i) : i \in DOMAIN t}
<1>4. routes \in Seq(R)
  <2> DEFINE n == Len(t)
  <2>1. n \in Nat /\ DOMAIN t = 1..n /\ routes = [i \in 1..n |-> rec(i)]
    BY <1>0, Zenon DEF ServerRoutes
  <2>2. \A i \in 1..n : rec(i) \in R
    BY <2>1, Zenon
  <2> HIDE DEF n, rec, R, routes
  <2>3. QED
    BY <2>1, <2>2
<1> HIDE DEF routes, rec, R
<1>5. \A i \in DOMAIN t : The(routes[i].upstream_prefix) = t[i].prefix
  <2>1. \A x : The({x}) = x
    BY DEF The
  <2>2. QED
    BY <1>2, <2>1, Zenon
<1>6. \A i \in DOMAIN t : ServerPrefix(routes[i]) # None /\ prefix(i) = Decoded(t[i].prefix)
  BY <1>0, <1>5, Zenon DEF ServerPrefix
<1>7. considered = DOMAIN t
  <2>1. ASSUME NEW i \in DOMAIN t
        PROVE  /\ "GET" \in routes[i].methods /\ routes[i].upstream_prefix # None
               /\ RouteMatchesClientIdentity(routes[i], "a")
    <3>1. "GET" \in routes[i].methods /\ t[i].prefix \in routes[i].upstream_prefix
      BY <1>2
    <3>2. " a" \in routes[i].client_identity
      BY <1>3, Zenon
    <3>3. RouteMatchesClientIdentity(routes[i], "a")
      BY SearchAssumption, <3>2, Zenon DEF RouteMatchesClientIdentity
    <3>4. QED
      BY <3>1, <3>3 DEF None
  <2>2. considered = {i \in DOMAIN routes :
                        /\ "GET" \in routes[i].methods
                        /\ RouteMatchesClientIdentity(routes[i], "a")
                        /\ routes[i].upstream_prefix # None}
    BY DEF ServerConsidered
  <2>3. QED
    BY <1>2, <2>1, <2>2, Zenon
<1>8. Acceptable(p) <=> CanonicalRequestPath(p) # None
  BY <1>1, AcceptableMeaning
<1>9. ASSUME CanonicalRequestPath(p) # None PROVE matching = {i \in DOMAIN t : covers(i)}
  <2>1. The(CanonicalRequestPath(p)) = Decoded(p)
    BY <1>1, <1>9, AcceptableMeaning
  <2>2. matching = {i \in DOMAIN t : PrefixMatches(Decoded(p), prefix(i))}
    BY <1>7, <2>1 DEF ServerMatching
  <2>3. QED
    BY <1>0, <1>6, <2>2
<1>10. \A i \in DOMAIN routes : \A q \in routes[i].upstream_prefix : q \in Seq(Elements)
  <2>1. \A i \in DOMAIN t : t[i].prefix \in Seq(Elements)
    BY <1>0, Zenon
  <2>2. QED
    BY <1>2, <2>1
<1>11. /\ found # None <=> /\ CanonicalRequestPath(p) # None
                           /\ \A i \in considered : ServerPrefix(routes[i]) # None
                           /\ matching # {}
       /\ \A m \in found : \E i \in matching :
            /\ m = [route |-> routes[i], upstream_path |-> The(CanonicalRequestPath(p))]
            /\ \A j \in matching : StartsWith(prefix(i), prefix(j)) /\ (prefix(j) = prefix(i) => i <= j)
  <2>1. MostSpecificAnswer(routes, "GET", p, "a")
    <3> HIDE DEF found, considered, matching, prefix, T
    <3> QED BY <1>1, <1>4, <1>10, ServerSearchAnswer
  <2>2. QED
    BY <2>1, Zenon DEF MostSpecificAnswer
<1> HIDE DEF found, considered, matching, prefix, T
<1>12. found # None <=> Routable(t, p)
  BY <1>6, <1>7, <1>8, <1>9, <1>11, Zenon DEF Routable
<1>13. ASSUME NEW m \in found PROVE BestCover(t, p, m.route.id)
  <2>1. PICK i \in matching :
          /\ m = [route |-> routes[i], upstream_path |-> The(CanonicalRequestPath(p))]
          /\ \A j \in matching : StartsWith(prefix(i), prefix(j)) /\ (prefix(j) = prefix(i) => i <= j)
    BY <1>11, Zenon
  <2>2. found # None
    BY DEF None
  <2>3. matching = {k \in DOMAIN t : covers(k)}
    BY <1>9, <1>11, <2>2, Zenon
  <2>4. m.route.id = i /\ i \in DOMAIN t /\ covers(i)
    BY <1>2, <2>1, <2>3, Zenon
  <2>5. ASSUME NEW j \in DOMAIN t, covers(j)
        PROVE  /\ StartsWith(Decoded(t[i].prefix), Decoded(t[j].prefix))
               /\ Decoded(t[j].prefix) = Decoded(t[i].prefix) => i <= j
    BY <1>6, <2>1, <2>3, <2>4, <2>5, Zenon
  <2>6. BestCover(t, p, i)
    BY <2>4, <2>5, Zenon DEF BestCover
  <2>7. QED
    BY <2>4, <2>6
<1>14. QED
  BY <1>12, <1>13 DEF found, routes

(* find_client_route (routing.rs:12) does so as well, and rewrites the     *)
(* path to one the upstream prefix covers, with the names that followed    *)
(* the local prefix.                                                       *)
LEMMA ClientSearch ==
    ASSUME NEW t \in RouteTables, NEW p \in Paths
    PROVE  LET found == FindClientRoute(ClientRoutes(t), "GET", p)
               names == Named(Decoded(p))
           IN  /\ found # None <=> Routable(t, p)
               /\ \A m \in found :
                     LET route == t[m.route.id]
                     IN  /\ BestCover(t, p, m.route.id)
                         /\ Covers(Decoded(route.upstream), m.upstream_path)
                         /\ Named(m.upstream_path)
                              = Named(Decoded(route.upstream))
                                  \o SubSeq(names, Len(Named(Decoded(route.prefix))) + 1, Len(names))
<1> DEFINE routes == ClientRoutes(t)
           T == {DecodeElement(e) : e \in Elements}
           found == FindClientRoute(routes, "GET", p)
           considered == ClientConsidered(routes, "GET")
           matching == ClientMatching(routes, "GET", p)
           local(i) == The(LocalPrefix(routes[i]))
           upstream(i) == The(UpstreamPrefix(routes[i]))
           covers(i) == Covers(Decoded(t[i].prefix), Decoded(p))
           names == Named(Decoded(p))
<1>0. /\ DOMAIN t = 1..Len(t) /\ Len(t) \in Nat /\ "/" \in T /\ Decoded(p) \in Seq(T)
      /\ \A i \in DOMAIN t :
            /\ t[i].prefix \in Seq(Elements) /\ CanonicalRequestPath(t[i].prefix) # None
            /\ The(CanonicalRequestPath(t[i].prefix)) = Decoded(t[i].prefix)
            /\ Decoded(t[i].prefix) \in Seq(T) /\ Decoded(t[i].prefix) # <<>>
            /\ t[i].upstream \in Seq(Elements) /\ CanonicalRequestPath(t[i].upstream) # None
            /\ The(CanonicalRequestPath(t[i].upstream)) = Decoded(t[i].upstream)
            /\ Decoded(t[i].upstream) \in Seq(T) /\ Decoded(t[i].upstream) # <<>>
      /\ \A i \in DOMAIN t : PrefixMatches(Decoded(p), Decoded(t[i].prefix)) <=> covers(i)
  BY TablePrefixes, Zenon
<1>1. p \in Seq(Elements) /\ "/" \in Elements /\ "/" \notin DOMAIN Decode
  BY SearchAssumption, Zenon
<1>2. DOMAIN routes = DOMAIN t /\ \A i \in DOMAIN t :
        /\ routes[i].id = i /\ routes[i].methods = {"GET"}
        /\ routes[i].local_prefix = {t[i].prefix} /\ routes[i].upstream_prefix = {t[i].upstream}
  BY DEF ClientRoutes, Some
<1> DEFINE rec(i) == [id |-> i, methods |-> {"GET"}, local_prefix |-> Some(t[i].prefix),
                      upstream_prefix |-> Some(t[i].upstream)]
           R == {rec(i) : i \in DOMAIN t}
<1>3. routes \in Seq(R)
  <2> DEFINE n == Len(t)
  <2>1. n \in Nat /\ DOMAIN t = 1..n /\ routes = [i \in 1..n |-> rec(i)]
    BY <1>0, Zenon DEF ClientRoutes
  <2>2. \A i \in 1..n : rec(i) \in R
    BY <2>1, Zenon
  <2> HIDE DEF n, rec, R, routes
  <2>3. QED
    BY <2>1, <2>2
<1> HIDE DEF routes, rec, R
<1>4. \A i \in DOMAIN t : /\ The(routes[i].local_prefix) = t[i].prefix
                          /\ The(routes[i].upstream_prefix) = t[i].upstream
  BY <1>2 DEF The
<1>5. \A i \in DOMAIN t : /\ LocalPrefix(routes[i]) # None /\ local(i) = Decoded(t[i].prefix)
                          /\ UpstreamPrefix(routes[i]) # None
                          /\ upstream(i) = Decoded(t[i].upstream)
  <2> SUFFICES ASSUME NEW i \in DOMAIN t
               PROVE  /\ LocalPrefix(routes[i]) # None /\ local(i) = Decoded(t[i].prefix)
                      /\ UpstreamPrefix(routes[i]) # None
                      /\ upstream(i) = Decoded(t[i].upstream)
    OBVIOUS
  <2>1. routes[i].local_prefix # None /\ routes[i].upstream_prefix # None
    BY <1>2 DEF None
  <2>2. /\ LocalPrefix(routes[i]) = CanonicalRequestPath(t[i].prefix)
        /\ UpstreamPrefix(routes[i]) = CanonicalRequestPath(t[i].upstream)
    BY <1>4, <2>1 DEF LocalPrefix, UpstreamPrefix
  <2>3. QED
    BY <1>0, <2>2, Zenon
<1>6. considered = DOMAIN t
  BY <1>2 DEF ClientConsidered, None
<1>7. Acceptable(p) <=> CanonicalRequestPath(p) # None
  BY <1>1, AcceptableMeaning
<1>8. ASSUME CanonicalRequestPath(p) # None
      PROVE  The(CanonicalRequestPath(p)) = Decoded(p) /\ matching = {i \in DOMAIN t : covers(i)}
  <2>1. The(CanonicalRequestPath(p)) = Decoded(p)
    BY <1>1, <1>8, AcceptableMeaning
  <2>2. matching = {i \in DOMAIN t : PrefixMatches(Decoded(p), local(i))}
    BY <1>6, <2>1, Zenon DEF ClientMatching
  <2>3. QED
    BY <1>0, <1>5, <2>1, <2>2, Zenon
<1>9. \A i \in DOMAIN routes :
        \A q \in routes[i].local_prefix \cup routes[i].upstream_prefix : q \in Seq(Elements)
  <2>1. \A i \in DOMAIN t : t[i].prefix \in Seq(Elements) /\ t[i].upstream \in Seq(Elements)
    BY <1>0, Zenon
  <2>2. QED
    BY <1>2, <2>1
<1>10. /\ found # None <=> /\ CanonicalRequestPath(p) # None
                           /\ \A i \in considered : LocalPrefix(routes[i]) # None
                           /\ \A i \in matching : UpstreamPrefix(routes[i]) # None
                           /\ matching # {}
       /\ \A m \in found : \E i \in matching :
            /\ m.route = routes[i]
            /\ \A j \in matching : StartsWith(local(i), local(j)) /\ (local(j) = local(i) => i <= j)
            /\ PrefixMatches(m.upstream_path, upstream(i))
            /\ \E rest \in Seq(T) :
                 /\ The(CanonicalRequestPath(p)) = local(i) \o rest
                 /\ m.upstream_path \in {upstream(i) \o rest, upstream(i) \o <<"/">> \o rest}
  BY <1>1, <1>3, <1>9, ClientRouteIsMostSpecific, Zenon
<1> HIDE DEF found, considered, matching, local, upstream, T
<1>11. found # None <=> Routable(t, p)
  <2>1. ASSUME CanonicalRequestPath(p) # None PROVE matching \subseteq DOMAIN t
    BY <1>8, <2>1
  <2>2. QED
    BY <1>5, <1>6, <1>7, <1>8, <1>10, <2>1, Zenon DEF Routable
<1>12. ASSUME NEW m \in found
       PROVE  LET route == t[m.route.id]
              IN  /\ BestCover(t, p, m.route.id)
                  /\ Covers(Decoded(route.upstream), m.upstream_path)
                  /\ Named(m.upstream_path)
                       = Named(Decoded(route.upstream))
                           \o SubSeq(names, Len(Named(Decoded(route.prefix))) + 1, Len(names))
  <2>1. PICK i \in matching :
          /\ m.route = routes[i]
          /\ \A j \in matching : StartsWith(local(i), local(j)) /\ (local(j) = local(i) => i <= j)
          /\ PrefixMatches(m.upstream_path, upstream(i))
          /\ \E rest \in Seq(T) :
               /\ The(CanonicalRequestPath(p)) = local(i) \o rest
               /\ m.upstream_path \in {upstream(i) \o rest, upstream(i) \o <<"/">> \o rest}
    BY <1>10, Zenon
  <2>2. found # None
    BY DEF None
  <2>3. matching = {k \in DOMAIN t : covers(k)} /\ The(CanonicalRequestPath(p)) = Decoded(p)
    BY <1>8, <1>10, <2>2, Zenon
  <2>4. m.route.id = i /\ i \in DOMAIN t /\ covers(i)
    BY <1>2, <2>1, <2>3, Zenon
  <2>5. ASSUME NEW j \in DOMAIN t, covers(j)
        PROVE  /\ StartsWith(Decoded(t[i].prefix), Decoded(t[j].prefix))
               /\ Decoded(t[j].prefix) = Decoded(t[i].prefix) => i <= j
    BY <1>5, <2>1, <2>3, <2>4, <2>5, Zenon
  <2>6. BestCover(t, p, i)
    BY <2>4, <2>5, Zenon DEF BestCover
  <2> DEFINE x == Decoded(t[i].prefix)
             u == Decoded(t[i].upstream)
             new == m.upstream_path
  <2>7. PICK rest \in Seq(T) : Decoded(p) = x \o rest /\ new \in {u \o rest, u \o <<"/">> \o rest}
    BY <1>5, <2>1, <2>3, <2>4, Zenon
  <2>8. PrefixMatches(new, u) /\ PrefixMatches(x \o rest, x)
    BY <1>0, <1>5, <2>1, <2>4, <2>7, Zenon
  <2>9. x \in Seq(T) /\ x # <<>> /\ u \in Seq(T) /\ u # <<>> /\ "/" \in T
    BY <1>0, <2>4, Zenon
  <2> HIDE DEF x, u, new
  <2>10. new \in Seq(T)
    <3> DEFINE slash == <<"/">>
    <3>1. slash \in Seq(T)
      BY <2>9
    <3> HIDE DEF slash
    <3>2. u \o rest \in Seq(T) /\ u \o slash \o rest \in Seq(T)
      BY <2>9, <3>1
    <3>3. QED
      BY <2>7, <3>2, Zenon DEF slash
  <2>11. Covers(u, new)
    BY <2>8, <2>9, <2>10, CoversMeaning
  <2>12. Named(new) = Named(u) \o SubSeq(names, Len(Named(x)) + 1, Len(names))
    <3>1. Named(new) = Named(u) \o SubSeq(Named(x \o rest), Len(Named(x)) + 1, Len(Named(x \o rest)))
      BY <2>7, <2>8, <2>9, RewriteKeepsNames, ZenonT(30)
    <3>2. QED
      BY <2>7, <3>1
  <2>13. QED
    BY <2>4, <2>6, <2>11, <2>12, Zenon DEF x, u, new
<1>13. QED
  BY <1>11, <1>12, Zenon DEF found, routes

(* RoutedWhenCovered: for any route tables that validation lets pass and   *)
(* any request paths, both searches (routing.rs) answer exactly when the   *)
(* path is acceptable and a route covers it segment by segment.            *)
THEOREM RoutedWhenCoveredHolds == SearchSpec => []RoutedWhenCovered
<1>1. SearchInv => RoutedWhenCovered
  BY ServerSearch, ClientSearch, Zenon DEF SearchInv, RoutedWhenCovered, Routable, CoversAsked
<1>2. QED
  BY <1>1, SearchInvariant, PTL

(* MostSpecificRouteWins: the route both searches choose covers the path,  *)
(* extends every other that does, and is the first with its prefix.        *)
THEOREM MostSpecificRouteWinsHolds == SearchSpec => []MostSpecificRouteWins
<1>1. SearchInv => MostSpecificRouteWins
  BY ServerSearch, ClientSearch, Zenon DEF SearchInv, MostSpecificRouteWins, BestCover, CoversAsked
<1>2. QED
  BY <1>1, SearchInvariant, PTL

(* RewriteLandsUnderUpstream: the upstream prefix covers the rewritten     *)
(* path, whose names are those of the prefix and those that followed the   *)
(* local prefix (routing.rs:176).                                          *)
THEOREM RewriteLandsUnderUpstreamHolds == SearchSpec => []RewriteLandsUnderUpstream
<1>1. SearchInv => RewriteLandsUnderUpstream
  BY ClientSearch, Zenon DEF SearchInv, RewriteLandsUnderUpstream
<1>2. QED
  BY <1>1, SearchInvariant, PTL
=============================================================================
