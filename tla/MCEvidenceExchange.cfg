SPECIFICATION Spec
CONSTANTS
    Header = {h1}
    SchemaHeader = {h1}
    ScopeKey = {"intent_ref", "team"}
    ScopeText = {"v"}
    DigestText = {"sha", "sha+nl", "bad"}
    StrictDigest = {"sha"}
    NewlineDigest = {"sha+nl"}
    Uri = {"u"}
    NoteText = {"n"}
    Unset = Unset
    Bundle = {b1, b2}
    CallerList = {l1}
    CallerMap = {m1}
    CallerItem = {o1}
    UsedSdk = {"go", "ts", "py"}
    ItemInput <- ItemsMixed
    TamperInput <- NoTamper
    ScopeInput <- ScopesSmall
    OwnScopeInput <- NoScopes
    EnvInput <- EnvTwo
    MaxItems = 1
SYMMETRY Symmetry
INVARIANT SealVerifiesInEverySdk
