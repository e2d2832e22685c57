\* One client, a tool or a host with two mounts, one reset.
CONSTANTS
    Slots = {"signing-key", "ed25519-seed"}
    Rotatable = {}
    Callers = {host}
    Host = host
    Secrets = {k1, k2}
    Alone = TRUE
    None = None
    Configs <- MCConfigs
    slack = slack
    Mounts = {slack}
    MaxResets = 1
    Ids = {i1, i2}
    RedirectURIs <- MCRedirectURIs
    Unset = Unset
    Harnesses = {h1}
    Spellings <- MCSpellings
SPECIFICATION Spec
SYMMETRY MCSymmetry
INVARIANT TypeOK
INVARIANT ReturnedIsStored
INVARIANT ChallengesAreServed
INVARIANT RoutesAreMountedOnce
INVARIANT TokensOpenTheirGates
PROPERTY RedirectsAreRegistered
