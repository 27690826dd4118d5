SPECIFICATION FairSpec
CONSTANTS
    Versions <- MCVersions
    Last = 4
    VersionOf <- MCVersionOf
    Broken <- MCBroken
    MaxFaults = 2
    MaxDispatches = 2
INVARIANTS
    OneTestedCommit
    PublishedStaysWhole
PROPERTIES
    Resumes
