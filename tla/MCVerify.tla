------------------------------ MODULE MCVerify ------------------------------
EXTENDS Verify

Cert(subject, issuedBy, key, signer, isCA, from, to) ==
    [subject |-> subject, issuer |-> issuedBy, key |-> key, signedBy |-> signer,
     ca |-> isCA, notBefore |-> from, notAfter |-> to]

\* A leaf whose life begins and ends while the clock runs, its issuer, the same
\* issuer cross-signed later, a renewed issuer of that name with another key, a
\* certificate with the issuer's name and key that may not sign, a root that
\* expires, and a self-signed certificate that may not sign.
MCLeaf    == Cert("leaf", "CA", "kl", "k1", FALSE, 1, 1)
MCIssuer  == Cert("CA", "root", "k1", "kr", TRUE, 0, 2)
MCCross   == Cert("CA", "other", "k1", "ko", TRUE, 2, 2)
MCRenewed == Cert("CA", "root", "k2", "kr", TRUE, 0, 2)
MCNoCA    == Cert("CA", "root", "k1", "kr", FALSE, 0, 2)
MCRoot    == Cert("root", "root", "kr", "kr", TRUE, 0, 1)
MCSelf    == Cert("self", "self", "ks", "ks", FALSE, 0, 2)

MCCerts == {MCLeaf, MCIssuer, MCCross, MCRenewed, MCNoCA, MCRoot, MCSelf}
MCRootPools == {{}, {MCRoot}, {MCCross}, {MCIssuer, MCCross}, {MCLeaf, MCSelf}}
=============================================================================
