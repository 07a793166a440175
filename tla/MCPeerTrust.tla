----------------------------- MODULE MCPeerTrust -----------------------------
(***************************************************************************)
(* An instance of PeerConnection: two domains and two authorities that     *)
(* overlap in different ways, leaves with up to two names.                 *)
(***************************************************************************)
EXTENDS PeerConnection, SequencesExt

MCPadded == (" spiffe://d1/x" :> "spiffe://d1/x")
MCSpiffeDomain == ("spiffe://d1/x" :> "d1" @@ "spiffe://d2/y" :> "d2" @@ "spiffe:///" :> "")
MCLowerCase == ("AB" :> "ab")

Anchor(ca, domain, names) == [ca |-> ca, trust_domain |-> domain, dns_identities |-> names]

\* One authority per domain, two domains under one, two authorities for one.
AnchorSets == {{Anchor("ca1", "d1", {"h"}), Anchor("ca2", "d2", {})},
               {Anchor("ca1", "d1", {}), Anchor("ca1", "d2", {}), Anchor("ca2", "d1", {"h"})}}
Trusts == [anchors : AnchorSets, allow_dns : BOOLEAN, denied : {{"cd"}, {"AB"}, {"ab"}},
           allowed : {{" spiffe://d1/x"}, {"spiffe://d1/x", "spiffe://d2/y", "h"}}]

Names == {[type |-> "uri", value |-> "spiffe://d1/x"], [type |-> "uri", value |-> "spiffe://d2/y"],
          [type |-> "uri", value |-> "spiffe:///"], [type |-> "uri", value |-> "https"],
          [type |-> "dns", value |-> "h"], [type |-> "dns", value |-> "other"]}
Chains == [sans : BoundedSeq(Names, 2), from : {0, 1}, until : {1, LastHour},
           client_auth : BOOLEAN, fingerprint : {"ab"},
           issuers : {{}, {"ca1"}, {"ca2"}, {"ca1", "ca2"}}]
=============================================================================
