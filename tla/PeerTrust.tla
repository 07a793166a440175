----------------------------- MODULE PeerTrust -----------------------------
(***************************************************************************)
(* Peer authentication in server mode (tls.rs, identity.rs).  The TLS      *)
(* handshake accepts a chain to ANY configured trust anchor; verify_peer   *)
(* then binds the identity in the leaf to the anchors of its own trust     *)
(* domain, for every request and at the time of the request.               *)
(*                                                                         *)
(* A certificate chain is a record: sans is the sequence of subject        *)
(* alternative names [type, value], from..until the validity,              *)
(* client_auth the extended key usage, fingerprint the leaf fingerprint    *)
(* and issuers the certificate authorities the chain leads to.             *)
(***************************************************************************)
EXTENDS Integers, Sequences, Text

CONSTANTS SpiffeDomain,  \* function: spiffe:// URI -> trust domain, "" if it has none
          LowerCase      \* function: upper-case fingerprint -> lower case

Lower(v) == IF v \in DOMAIN LowerCase THEN LowerCase[v] ELSE v

ValidAt(chain, now) == chain.from <= now /\ now <= chain.until

\* External: WebPkiClientVerifier with the given roots.
ChainsTo(roots, chain, now) ==
    /\ chain.issuers \cap roots # {}
    /\ ValidAt(chain, now)
    /\ chain.client_auth

\* server_config: the handshake trusts the union of all anchors.
TlsAccepts(trust, chain, now) == ChainsTo({a.ca : a \in trust.anchors}, chain, now)

-----------------------------------------------------------------------------
\* trust_domain_map and dns_identity_map, compared without trimming.
AnchorsByDomain(trust, domain) == {a.ca : a \in {x \in trust.anchors : x.trust_domain = domain}}
AnchorsByDns(trust, name) == {a.ca : a \in {x \in trust.anchors : name \in x.dns_identities}}

\* Mutated: DNS names are searched with the URIs.
ExtractPeerIdentityAny(chain, allow_dns, now) ==
    IF chain.sans = <<>> \/ ~ValidAt(chain, now) \/ ~chain.client_auth
    THEN None ELSE Some(chain.sans[1].value)

\* The first SPIFFE URI, else the first DNS name if the fallback is allowed.
ExtractPeerIdentity(chain, allow_dns, now) ==
    LET at(type) == {i \in DOMAIN chain.sans : chain.sans[i].type = type}
        uri == Find(chain.sans, {i \in at("uri") : chain.sans[i].value \in DOMAIN SpiffeDomain})
        dns == Find(chain.sans, at("dns"))
    IN  IF ~ValidAt(chain, now) \/ ~chain.client_auth THEN None
        ELSE IF uri # None \/ ~allow_dns THEN {n.value : n \in uri}
        ELSE {n.value : n \in dns}

Denylisted(trust, chain) ==
    chain.fingerprint \in {Lower(f) : f \in trust.denied}

TrustDomain(identity) ==
    IF identity \in DOMAIN SpiffeDomain THEN {SpiffeDomain[identity]} \ {""} ELSE None

\* Mutated: the roots of the handshake are used again.
BoundRootsUnion(trust, identity) == {a.ca : a \in trust.anchors}

\* The anchors an identity may chain to; no anchor at all is a refusal.
BoundRoots(trust, identity) ==
    IF TrustDomain(identity) # None THEN AnchorsByDomain(trust, The(TrustDomain(identity)))
    ELSE IF trust.allow_dns THEN AnchorsByDns(trust, identity)
    ELSE {}

\* verify_peer: the identity, None for any of its errors.
VerifyPeer(trust, chain, now) ==
    {id \in ExtractPeerIdentity(chain, trust.allow_dns, now) :
        /\ ~Denylisted(trust, chain)
        /\ ChainsTo(BoundRoots(trust, id), chain, now)}

\* The allowlist of handle_server, trimmed.
Allowlisted(trust, identity) == \E allowed \in trust.allowed : Trim(allowed) = identity
=============================================================================
