SPECIFICATION Spec
CONSTANTS
    Certs <- MCCerts
    RootPools <- MCRootPools
    MaxCerts = 3
    MaxTime = 2
INVARIANTS
    LabelFits
    IssuerByRelationship
    TrustedIssuerUsed
