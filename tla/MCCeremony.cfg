SPECIFICATION Spec
CONSTANTS
    alice = alice
    bob = bob
    Contributor <- MCContributor
    NoOne = NoOne
    MaxNumber = 3
CHECK_DEADLOCK FALSE
INVARIANTS
    ClientsMoveTogether
PROPERTIES
    NoContributionDropped
