---------------------------- MODULE Certificates ----------------------------
(***************************************************************************)
(* Certificate and key files (identity.rs, tls.rs).  The file system is a  *)
(* function from paths to files: certs is the sequence of certificates,    *)
(* key the optional private key, parses says whether the PEM is well       *)
(* formed and private whether only the owner may reach the file.  A        *)
(* certificate names its key, its validity, its extended key usages, the   *)
(* optional values of the CA basic constraint and of keyCertSign, and, as  *)
(* anchor, whether webpki takes it for a trust anchor: it reads more       *)
(* strictly than the parser validation uses.                               *)
(***************************************************************************)
EXTENDS Integers, Sequences, Text

Parsed(files, path) == {files[p] : p \in {x \in DOMAIN files : x = path /\ files[x].parses}}

LoadCerts(files, path) == {f.certs : f \in Parsed(files, path)}
LoadPrivateKey(files, path) == UNION {f.key : f \in Parsed(files, path)}

\* External: with_single_cert and reqwest's identity want a matching key.
KeyMatches(certs, key) == certs # <<>> /\ certs[1].key = key

ValidateTime(cert, now) == cert.from <= now /\ now <= cert.until

LeafHasEku(cert, usage) == usage \in cert.usages

\* validate_leaf_certificate
LeafValid(files, identity, usage, now) ==
    \E certs \in LoadCerts(files, identity.cert) :
    \E key \in LoadPrivateKey(files, identity.key) :
        /\ KeyMatches(certs, key)
        /\ ValidateTime(certs[1], now)
        /\ LeafHasEku(certs[1], usage)

\* Mutated: more than one certificate is let through.
CaValidBundle(files, path, now) ==
    \E certs \in LoadCerts(files, path) :
        certs # <<>> /\ ValidateTime(certs[1], now) /\ certs[1].ca = Some(TRUE)

\* validate_ca_certificate: without a key usage extension signing is allowed.
CaValid(files, path, now) ==
    \E certs \in LoadCerts(files, path) :
        /\ Len(certs) = 1
        /\ ValidateTime(certs[1], now)
        /\ certs[1].ca = Some(TRUE)
        /\ certs[1].signs # Some(FALSE)

\* External: RootCertStore::add takes every one of the certificates.
AddToRoots(certs) == \A k \in DOMAIN certs : certs[k].anchor

\* root_store_from_paths, with load_single_ca_cert for every path.
RootsLoad(files, paths) ==
    \A path \in paths : \E certs \in LoadCerts(files, path) :
        Len(certs) = 1 /\ AddToRoots(certs)

\* certificate_summary: the end of the first certificate's validity.
NotAfter(files, path) == {c[1].until : c \in LoadCerts(files, path) \ {<<>>}}

\* Mutated: the last moment does not count.
ExpiresWithinStrict(until, duration, now) == until - now < duration

\* CertificateSummary::expires_within; an expired certificate counts.
ExpiresWithin(until, duration, now) == until - now <= duration
=============================================================================
