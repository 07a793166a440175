--------------------------- MODULE PeerConnection ---------------------------
(***************************************************************************)
(* A connection and the requests on it: the handshake judges the chain     *)
(* once, every request judges it again, and time passes in between.        *)
(***************************************************************************)
EXTENDS PeerTrust

CONSTANTS TrustChoices,  \* the client_trust and trust_anchors sections
          ChainChoices,  \* the certificate chains a peer may present
          LastHour       \* bound on the time

\* sha256_hex writes lower-case digits; a certificate has a period
\* of validity.
ASSUME PeerAssumption ==
    \A c \in ChainChoices :
        /\ c.fingerprint \notin DOMAIN LowerCase
        /\ c.from \in Int /\ c.until \in Int
        /\ DOMAIN c.sans \subseteq Nat

VARIABLES trust, chain, hour,
          open,   \* the handshake has succeeded
          peer,   \* the identity the last request was attributed to, optional
          asked   \* when that request was judged

peervars == <<trust, chain, hour, open, peer, asked>>

PeerInit ==
    /\ trust \in TrustChoices
    /\ chain \in ChainChoices
    /\ hour = 0 /\ open = FALSE /\ peer = None /\ asked = 0

Handshake ==
    /\ ~open
    /\ TlsAccepts(trust, chain, hour)
    /\ open' = TRUE
    /\ UNCHANGED <<trust, chain, hour, peer, asked>>

AskAsPeer ==
    /\ open
    /\ peer' = {id \in VerifyPeer(trust, chain, hour) : Allowlisted(trust, id)}
    /\ asked' = hour
    /\ UNCHANGED <<trust, chain, hour, open>>

PassHour ==
    /\ hour < LastHour
    /\ hour' = hour + 1
    /\ UNCHANGED <<trust, chain, open, peer, asked>>

PeerNext == Handshake \/ AskAsPeer \/ PassHour
PeerSpec == PeerInit /\ [][PeerNext]_peervars

-----------------------------------------------------------------------------
\* Reference: the names of the leaf, and those of them that are SPIFFE names.
LeafNames(type) == {chain.sans[i].value : i \in {j \in DOMAIN chain.sans : chain.sans[j].type = type}}
SpiffeNames == LeafNames("uri") \cap DOMAIN SpiffeDomain

\* Reference: an anchor the chain leads to is configured for this identity.
AnchoredFor(id) ==
    \E a \in trust.anchors :
        /\ a.ca \in chain.issuers
        /\ IF id \in DOMAIN SpiffeDomain /\ SpiffeDomain[id] # ""
           THEN a.trust_domain = SpiffeDomain[id]
           ELSE trust.allow_dns /\ id \in a.dns_identities

\* Reference: the denylist holds the leaf in neither spelling.
NotDenied ==
    \A f \in trust.denied :
        f # chain.fingerprint /\ (f \in DOMAIN LowerCase => LowerCase[f] # chain.fingerprint)

(* A request is only attributed to an identity (tls.rs:58) that is in the  *)
(* leaf, allowlisted, and anchored by an authority of its own trust domain *)
(* although the handshake trusts all authorities; the certificate was      *)
(* valid when the request was judged, not merely when the connection was   *)
(* opened, and is not on the denylist in either spelling.  A DNS name      *)
(* never stands in for a SPIFFE name.                                      *)
PeerIsBound ==
    \A id \in peer :
        /\ AnchoredFor(id) /\ NotDenied
        /\ \E a \in trust.allowed : Trim(a) = id
        /\ asked \in chain.from..chain.until
        /\ IF SpiffeNames # {} THEN id \in SpiffeNames ELSE id \in LeafNames("dns")

(* A peer whose leaf carries one SPIFFE name, that is allowlisted and      *)
(* anchored in its domain, is authenticated (tls.rs:58) for as long as its *)
(* certificate is valid, whatever other names the leaf carries and in      *)
(* whatever order.                                                         *)
RightfulPeerIsKnown ==
    [][\A id \in SpiffeNames :
          (/\ AskAsPeer /\ SpiffeNames = {id} /\ AnchoredFor(id) /\ NotDenied
           /\ Allowlisted(trust, id) /\ hour <= chain.until) => peer' = Some(id)]_peervars
=============================================================================
