SPECIFICATION Spec
CONSTANTS
    DigestText = {"sha"}
    StrictDigest = {"sha"}
    NewlineDigest = {}
    Unset = Unset
    Harness = {v1, v2}
    CallerLock = {k1}
    CallerRef = {f1}
    UsedSdk = {"go", "ts", "py"}
    Name = {"n"}
    Mode = {"deterministic", "random"}
    LockInput <- LocksAll
    RefInput <- RefsOne
    SeedInput <- SeedsTwo
SYMMETRY Symmetry
INVARIANT PublishedIsFrozen
