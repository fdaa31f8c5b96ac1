SPECIFICATION Spec
CONSTANTS
    Parts = {"hostKey", "handle", "secret", "setup"}
    Hosts <- TwoHosts
    Verifiers = {v1, v2}
    Keys <- FourKeys
    Policies = {"no", "ask"}
    Files = {"ssh"}
    FirstStores <- OneStore
    FirstOffers <- RsaOffers
    MaxRebuilds = 1
    Calls <- FourCalls
    MaxOpenFds = 2
    Passwords = {"p", "q"}
    Attempts = {a1, a2}
    Routes = {"direct", "hop"}
    MaxCommands = 2
    Profiling <- Either
    Passphrases = {"none", "enter"}
    MaxJumps = 1
    MaxBacks = 1
SYMMETRY Symmetry
INVARIANTS
    OnlyProvenIsTrusted
    HandlesAccounted
    WizardWritesThePlan
PROPERTIES
    NothingEntrustedIsLost
\* every part comes to its bounds, or to its end
CHECK_DEADLOCK FALSE
